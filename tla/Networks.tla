------------------------------ MODULE Networks ------------------------------
(***************************************************************************)
(* A process with one of the three transports: LocalNetwork, whose tick    *)
(* and batches of messages are tasks of the process itself (network.rs;    *)
(* its server is in LocalNetwork.tla), HttpNetwork and PostgresNetwork.    *)
(* What they share is the life the process gives them (Network.tla).       *)
(***************************************************************************)
EXTENDS HttpNetwork, PostgresNetwork

CONSTANT MaxBatches     \* bound: batches of the local transport under way

VARIABLES
    tick,       \* the tick of LocalNetwork: "none", "running" or "aborted"
    batches     \* the batches of messages whose task has not run yet

localVars == <<tick, batches>>
vars == <<lifeVars, localVars, httpVars, pgVars>>

Init ==
    /\ NewLife /\ HttpInit /\ PostgresInit
    /\ tick = "none" /\ batches = 0

LocalStart ==
    /\ Launch
    /\ tick' = "running"
    /\ UNCHANGED batches

\* dispatch_messages: a tick and a request spawn a task with their messages.  A
\* request needs no start, and no stop prevents it.
Dispatch ==
    /\ batches < MaxBatches
    /\ batches' = batches + 1
    /\ UNCHANGED <<tick, lifeVars>>

RunBatch ==
    /\ batches > 0
    /\ batches' = batches - 1
    /\ Hear
    /\ UNCHANGED tick

\* stop aborts the tick if its handle is there.
LocalStop ==
    /\ StopTasks
    /\ tick' = IF tick = "running" /\ "store" \notin spawned THEN "aborted" ELSE tick
    /\ UNCHANGED batches

LocalNext ==
    \/ LocalStart \/ Dispatch \/ RunBatch \/ LocalStop
    \/ (Register \/ Store \/ ClearCallbacks) /\ UNCHANGED localVars

Next ==
    \/ kind = "local" /\ LocalNext /\ UNCHANGED <<httpVars, pgVars>>
    \/ kind = "http" /\ HttpNext /\ UNCHANGED <<localVars, pgVars>>
    \/ kind = "postgres" /\ PostgresNext /\ UNCHANGED <<localVars, httpVars>>

\* The runtime runs what was spawned.
Spec ==
    /\ Init /\ [][Next]_vars
    /\ WF_vars(kind = "postgres" /\ PostgresStart /\ UNCHANGED <<localVars, httpVars>>)
    /\ PostgresFairness

-----------------------------------------------------------------------------

\* Stopping is final: once stop returned, no callback is called and no task of the
\* transport goes on, whatever was under way, provided the tasks Resonate::new
\* spawned had finished when stop was called; a PostgresNetwork, which keeps a flag,
\* does not need that (stop of the three transports).
StopIsFinal ==
    stop = "done" /\ (hasty => kind = "postgres") =>
        /\ ~heard
        /\ tick # "running" /\ sse \in {"none", "ending", "aborted"}
        /\ pump \in {"none", "check", "ended", "ending", "aborted"}
=============================================================================
