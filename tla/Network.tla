------------------------------ MODULE Network ------------------------------
(***************************************************************************)
(* What the transports of resonate share: trait Network of network.rs, and *)
(* the life a process gives its transport.  Resonate::new picks one,       *)
(* registers the callback that takes incoming messages, and spawns a task  *)
(* that calls start; Resonate::stop calls stop (resonate.rs).              *)
(*                                                                         *)
(* start launches a task and then, behind a lock, keeps the handle to      *)
(* abort it by.  The callback of a LocalNetwork is registered by a spawned *)
(* task as well.  Nothing orders spawned tasks with what the process does  *)
(* next.                                                                   *)
(***************************************************************************)
EXTENDS Naturals

CONSTANT Kinds      \* the transports to choose from

ASSUME KindsAssumption == Kinds \subseteq {"local", "http", "postgres"}

VARIABLES
    kind,       \* the transport new picked
    callback,   \* the callback is registered
    spawned,    \* the tasks of new that have not finished: "recv", and "start",
                \* of which "store" is left once it has launched its own
    stop,       \* "no", "under way", or "done"
    hasty,      \* history: stop was called while tasks of new had not finished
    heard       \* history: the callback was called after stop was done

lifeVars == <<kind, callback, spawned, stop, hasty, heard>>

NewLife ==
    /\ kind \in Kinds
    /\ callback = (kind # "local")
    /\ spawned = IF kind = "local" THEN {"recv", "start"} ELSE {"start"}
    /\ stop = "no"
    /\ hasty = FALSE
    /\ heard = FALSE

\* The spawned task of recv.
Register ==
    /\ "recv" \in spawned
    /\ spawned' = spawned \ {"recv"}
    /\ callback' = TRUE
    /\ UNCHANGED <<kind, stop, hasty, heard>>

\* start launches the transport's own task ...
Launch ==
    /\ "start" \in spawned
    /\ spawned' = (spawned \ {"start"}) \union {"store"}
    /\ UNCHANGED <<kind, callback, stop, hasty, heard>>

\* ... and then stores its handle.
Store ==
    /\ "store" \in spawned
    /\ spawned' = spawned \ {"store"}
    /\ UNCHANGED <<kind, callback, stop, hasty, heard>>

\* stop aborts the tasks whose handles it finds; what they are is the transport's ...
StopTasks ==
    /\ stop = "no"
    /\ stop' = "under way"
    /\ hasty' = (spawned # {})
    /\ UNCHANGED <<kind, callback, spawned, heard>>

KeepCallbacks ==    \* faulty: stop leaves the callback registered
    /\ stop = "under way"
    /\ stop' = "done"
    /\ UNCHANGED <<kind, callback, spawned, hasty, heard>>

\* ... and then clears the list of callbacks.
ClearCallbacks ==
    /\ stop = "under way"
    /\ stop' = "done"
    /\ callback' = FALSE
    /\ UNCHANGED <<kind, spawned, hasty, heard>>

\* A message, or several, are handed to the callbacks there are.
Hear ==
    /\ heard' = (heard \/ (callback /\ stop = "done"))
    /\ UNCHANGED <<kind, callback, spawned, stop, hasty>>
=============================================================================
