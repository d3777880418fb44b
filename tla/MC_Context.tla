----------------------------- MODULE MC_Context -----------------------------
(***************************************************************************)
(* Workflows for TLC.                                                      *)
(***************************************************************************)
EXTENDS Context

\* A spawned workflow with an inline and a spawned remote call; a detached call.
Background == [
    caller |-> <<0, 1, 1, 0>>, kind |-> <<"local", "rpc", "promise", "detached">>,
    spawned |-> {1, 3, 4}, joined |-> {}, catching |-> {}, unfit |-> {}]

\* An inline workflow that spawns a remote call nobody awaits; a local function; a
\* remote call that is spawned and joined.
Forgetful == [
    caller |-> <<0, 1, 0, 0>>, kind |-> <<"local", "rpc", "local", "sleep">>,
    spawned |-> {2, 4}, joined |-> {4}, catching |-> {}, unfit |-> {}]

\* Workflows nested inline, that suspend on a remote call at the bottom.
Nested == [
    caller |-> <<0, 1, 2, 0>>, kind |-> <<"local", "local", "sleep", "rpc">>,
    spawned |-> {}, joined |-> {}, catching |-> {}, unfit |-> {}]

\* A root that ignores errors, suspensions included.
Catching == [
    caller |-> <<0, 0, 2, 0>>, kind |-> <<"local", "local", "promise", "rpc">>,
    spawned |-> {2}, joined |-> {2}, catching |-> {0}, unfit |-> {}]

\* Background tasks within background tasks, and an inline call beside them.
Deep == [
    caller |-> <<0, 1, 2, 0>>, kind |-> <<"local", "local", "rpc", "local">>,
    spawned |-> {1, 2, 3}, joined |-> {1}, catching |-> {}, unfit |-> {}]

\* Calls whose arguments do not serialize, one of them in a workflow that stops there,
\* one in a root that goes on.
Refused == [
    caller |-> <<0, 1, 1, 0>>, kind |-> <<"local", "detached", "rpc", "detached">>,
    spawned |-> {1, 2, 3, 4}, joined |-> {}, catching |-> {0}, unfit |-> {3}]

Heedless == [
    caller |-> <<0, 0, 0, 0>>, kind |-> <<"rpc", "local", "local", "detached">>,
    spawned |-> {1, 3, 4}, joined |-> {1}, catching |-> {0}, unfit |-> {1, 2}]

\* An inline workflow whose background call ends in one attempt what it left pending
\* in another; an error of it cuts off the call after it.
Passing == [
    caller |-> <<0, 1, 1, 0>>, kind |-> <<"local", "sleep", "local", "rpc">>,
    spawned |-> {2}, joined |-> {}, catching |-> {}, unfit |-> {}]

Workflows == {Background, Forgetful, Nested, Catching, Deep, Refused, Heedless, Passing}

\* A dotted root, a remote call of another workflow, a detached call.
App == <<<<"my">>, LineageSep, <<"app">>>>
TaskIds == {App, NextId(NextId(App, 0), 1), DetachedId(App, NextId(App, 2))}
=============================================================================
