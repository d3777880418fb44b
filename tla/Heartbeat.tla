----------------------------- MODULE Heartbeat -----------------------------
(***************************************************************************)
(* AsyncHeartbeat of resonate/src/heartbeat.rs: the table of tasks whose   *)
(* leases are kept alive and the one loop that renews them, under any      *)
(* number of executions that call start and stop.  Each of the two locks   *)
(* is taken on its own, so start, stop and shutdown are two steps each.    *)
(*                                                                         *)
(* Two executions of one process may work on the same task, under          *)
(* different versions: the older one lost its lease and does not know yet. *)
(*                                                                         *)
(* The names every specification has carry a prefix here, so that a module *)
(* may extend this one beside the other component of a worker.             *)
(***************************************************************************)
EXTENDS Integers

CONSTANTS
    Task,
    Execution,      \* calls of Core::execute_until_blocked
    MaxVersion      \* bound: the versions handed out for one task

ASSUME HeartbeatAssumption == MaxVersion \in Nat

None == -1
Phase == {"idle", "acquired", "starting", "running", "stopping"}

VARIABLES
    issued,     \* the next version of each task
    exec,       \* phase, task and version of each execution
    tracked,    \* active_tasks: the version of each tracked task, or None
    loop,       \* the handle of the loop is held, and the loop runs
    shut        \* how far shutdown has come

hbVars == <<issued, exec, tracked, loop, shut>>

Tracking == \E t \in Task : tracked[t] # None

HBInit ==
    /\ issued = [t \in Task |-> 0]
    /\ exec \in [Execution -> [phase : {"idle"}, task : Task, version : {0}]]
    /\ tracked = [t \in Task |-> None]
    /\ loop = FALSE
    /\ shut = "open"

Goto(w, phase) == exec' = [exec EXCEPT ![w].phase = phase]

\* The server grants each version once.
Acquire(w, t) ==
    /\ exec[w].phase = "idle"
    /\ issued[t] < MaxVersion
    /\ exec' = [exec EXCEPT ![w] =
                   [phase |-> "acquired", task |-> t, version |-> issued[t]]]
    /\ issued' = [issued EXCEPT ![t] = @ + 1]
    /\ UNCHANGED <<tracked, loop, shut>>

Track(w) == [tracked EXCEPT ![exec[w].task] = exec[w].version]

\* start: insert the task, then ensure_loop_running.
StartInsert(w) ==
    /\ exec[w].phase = "acquired"
    /\ tracked' = Track(w)
    /\ Goto(w, "starting")
    /\ UNCHANGED <<issued, loop, shut>>

StartLoop(w) ==
    /\ exec[w].phase = "starting"
    /\ loop' = TRUE
    /\ Goto(w, "running")
    /\ UNCHANGED <<issued, tracked, shut>>

\* Faulty: the entry is kept; the whole table is emptied.
KeepEntry(w) == tracked
ForgetAll(w) == [t \in Task |-> None]

Untrack(w) == [tracked EXCEPT ![exec[w].task] = None]

\* Faulty: the loop is stopped only by the call that removed the last entry.
StopsIfLast(w) == /\ tracked[exec[w].task] # None
                  /\ \A t \in Task \ {exec[w].task} : tracked[t] = None

StopsLoop(w) == \A t \in Task \ {exec[w].task} : tracked[t] = None

\* stop: remove the entry of the task, whatever its version; if the table is
\* empty then, and after its lock is released, abort the loop.
StopRemove(w) ==
    /\ exec[w].phase = "running"
    /\ tracked' = Untrack(w)
    /\ Goto(w, IF StopsLoop(w) THEN "stopping" ELSE "idle")
    /\ UNCHANGED <<issued, loop, shut>>

StopLoop(w) ==
    /\ exec[w].phase = "stopping"
    /\ loop' = FALSE
    /\ Goto(w, "idle")
    /\ UNCHANGED <<issued, tracked, shut>>

ShutdownClear ==
    /\ shut = "open"
    /\ tracked' = [t \in Task |-> None]
    /\ shut' = "cleared"
    /\ UNCHANGED <<issued, exec, loop>>

ShutdownLoop ==
    /\ shut = "cleared"
    /\ loop' = FALSE
    /\ shut' = "closed"
    /\ UNCHANGED <<issued, exec, tracked>>

HBNext ==
    \/ \E w \in Execution :
          \/ \E t \in Task : Acquire(w, t)
          \/ StartInsert(w) \/ StartLoop(w) \/ StopRemove(w) \/ StopLoop(w)
    \/ ShutdownClear
    \/ ShutdownLoop

HBSpec == HBInit /\ [][HBNext]_hbVars

-----------------------------------------------------------------------------
(* Properties *)

\* The table and the executions keep their shape and name granted versions only.
HBTypeOK ==
    /\ issued \in [Task -> 0 .. MaxVersion]
    /\ exec \in [Execution -> [phase : Phase, task : Task, version : Nat]]
    /\ tracked \in [Task -> Nat \cup {None}]
    /\ loop \in BOOLEAN
    /\ shut \in {"open", "cleared", "closed"}
    /\ \A w \in Execution : exec[w].phase # "idle" =>
          exec[w].version < issued[exec[w].task]
    /\ \A t \in Task : tracked[t] < issued[t]

\* Only leases that an execution is working under are renewed: no entry outlives
\* the execution that made it, whichever of two executions of a task stops first.
TrackedIsExecuting ==
    \A t \in Task : tracked[t] # None =>
        \E w \in Execution : /\ exec[w].phase \in {"starting", "running"}
                             /\ exec[w].task = t
                             /\ exec[w].version = tracked[t]

\* Tasks do not interfere: an entry is there while the only execution its task
\* ever had is running, whatever starts and stops for other tasks.
EntryKept ==
    \A w \in Execution :
        (/\ exec[w].phase \in {"starting", "running"}
         /\ shut = "open"
         /\ issued[exec[w].task] = 1)
        => tracked[exec[w].task] = 0

\* When every execution is over the loop is too, however start, stop and
\* shutdown overlapped: no loop is leaked.
LoopEndsWithWork ==
    (\A w \in Execution : exec[w].phase \in {"idle", "acquired"}) => ~loop

\* "Stops the heartbeat loop if no tasks remain", and only then: when no call of
\* start, stop or shutdown is under way, tracked tasks have a running loop.
LoopWhileTracked ==
    (/\ \A w \in Execution : exec[w].phase \in {"idle", "acquired", "running"}
     /\ shut = "open")
    => (Tracking => loop)
=============================================================================
