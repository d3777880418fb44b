--------------------------- MODULE TaskLifecycle ---------------------------
(***************************************************************************)
(* Workers on top of the server: resonate/src/core.rs from the execute     *)
(* message to the end of the task, with the fenced requests of effects.rs  *)
(* and what context.rs makes of their answers.                             *)
(*                                                                         *)
(* An execution handles one execute message: it acquires the task, replays *)
(* the calls of its workflow, and then fulfills, suspends, or releases the *)
(* task.  A request and its answer are one step; the time an execution     *)
(* takes before it is what lets other executions overtake it.  A message,  *)
(* a request or an answer may be lost, a worker may crash, a lease may     *)
(* lapse under a worker that is merely slow: each of these is a fault, and *)
(* MaxFaults bounds them.  Workflows pass the errors of what they await on *)
(* with `?`.                                                               *)
(*                                                                         *)
(* The retry and lease timers are not timed: one that runs may run out at  *)
(* any moment.  The clock only tells whether the durable sleeps are over.  *)
(***************************************************************************)
EXTENDS ServerState, Sequences

CONSTANTS
    Execution,  \* the executions that can be under way at once
    Root,       \* the promise a client created
    Calls,      \* the children each workflow creates, in order
    Local,      \* children run in the process of their parent (ctx.run)
    Timer,      \* children that are durable sleeps (ctx.sleep)
    Spawned,    \* children started with spawn(); the others are awaited
    Faults,     \* the faults that occur
    MaxFaults,  \* bound: how many of them
    MaxVersion  \* bound: a task is not acquired at this version or later

ASSUME LifecycleAssumption ==
    /\ Root \in Id
    /\ Calls \in [Id -> Seq(Id)]
    \* The id of a child extends the id of its parent.
    /\ \A i \in Id : \A n \in DOMAIN Calls[i] : Calls[i][n] # i
    /\ Local \subseteq Id \ {Root}
    /\ Timer \subseteq Id \ (Local \cup {Root})
    /\ Spawned \subseteq Id
    /\ Faults \subseteq {"crash", "panic", "missed", "lost", "slow"}
    /\ MaxFaults \in Nat
    /\ MaxVersion \in Nat

VARIABLES
    srv,        \* the ServerState; its timers are not timed, its batch is in mail
    mail,       \* <<task, version>> of the execute messages to be handled
    exec,       \* the executions
    clock,      \* 0, or 1 once the sleeps are over
    faults      \* faults so far

vars == <<srv, mail, exec, clock, faults>>

TagsOf(i) == [target |-> i \notin Local, timer |-> i \in Timer, delay |-> None]
DeadlineOf(i) == IF i \in Timer THEN 1 ELSE 2

Phase == {"idle", "run", "settle", "release"}
Idle == [phase |-> "idle", id |-> Root, version |-> 0, pos |-> 0,
         known |-> {}, done |-> {}, todos |-> {}, failed |-> FALSE]

Children(i) == {Calls[i][n] : n \in DOMAIN Calls[i]}
Replayed(e) == e.pos > Len(Calls[e.id])
Step(e) == [e EXCEPT !.phase = "run", !.pos = @ + 1]
Release(e) == [e EXCEPT !.phase = "release"]
Active(w) == exec[w].phase # "idle"

\* The function returns the error of an awaited call: the replay is over.
Fail(e) == [e EXCEPT !.phase = "run", !.pos = Len(Calls[e.id]) + 1, !.failed = TRUE]

\* What e becomes when the request it makes fails.  To the function, the failed
\* call is like any other that returned an error; the creation of a spawned call
\* fails the flush, and a spawned child ignores the error of its settlement.
Failed(e) ==
    CASE e.phase = "release" -> Idle
      [] e.phase = "run" /\ Replayed(e) -> Release(e)
      [] OTHER -> LET c == Calls[e.id][e.pos] IN
                    IF c \notin Spawned THEN Fail(e)
                    ELSE IF e.phase = "settle" THEN Step(e) ELSE Release(e)

\* The promises the cache of effects.rs starts with: the local children.
Preload(s, i) == {c \in Children(i) \cap Local : HasPromise(s, c)}

Over(s, S) == {c \in S : s.promises[c].state \in Settled}

Run(s, i) == [phase |-> "run", id |-> i, version |-> s.tasks[i].version, pos |-> 1,
              known |-> Preload(s, i), done |-> Over(s, Preload(s, i)),
              todos |-> {}, failed |-> FALSE]

\* Every answer to a fenced request carries them anew, and they join the cache; what
\* the cache has as settled stays so.
Absorb(e, s) == [e EXCEPT !.known = @ \cup Preload(s, e.id),
                          !.done = @ \cup Over(s, Preload(s, e.id))]

BeginAll(s, i) == Run(s, i)     \* faulty: a sleep is executed like a function

\* A sleep that is not over is dropped: no fulfill, no suspend, no release.
Begin(s, i) ==
    IF s.promises[i].timer /\ s.promises[i].state = "pending" THEN Idle ELSE Run(s, i)

Fresh(i) == TryAutoTimeout(srv, clock, i)
FreshAll(S) == IF S \cap Due(srv, clock) = {} THEN srv
               ELSE Expire(srv, S \cap Due(srv, clock), clock)

Announced(s) == {<<m.id, m.version>> : m \in {x \in s.outgoing : x.kind = "execute"}}

\* The server moves on to new, and its messages are dispatched.
Become(new, handled) ==
    /\ srv' = [Clear(new) EXCEPT !.tTimeouts =
                  [i \in Id |-> [typ |-> new.tTimeouts[i].typ, at |-> 0]]]
    /\ mail' = (mail \ handled) \cup Announced(new)
    /\ UNCHANGED clock

Fault(kind) == kind \in Faults /\ faults < MaxFaults /\ faults' = faults + 1

\* Execution w goes on as e, or the answer is lost.
Continue(w, e) ==
    \/ exec' = [exec EXCEPT ![w] = e] /\ UNCHANGED faults
    \/ Fault("lost") /\ exec' = [exec EXCEPT ![w] = Failed(@)]

\* The root was created by rpc, and waits for a worker, or by run, and is
\* executed where it was created.
Init ==
    /\ clock = 0
    /\ faults = 0
    /\ \E pid \in Pid :
          LET rpc == PromiseCreate(Empty, 0, Root, 2, TagsOf(Root))
              run == TaskCreate(Empty, 0, Root, 2, TagsOf(Root), pid, 1)
              untimed(s) == [Clear(s) EXCEPT !.tTimeouts =
                                [i \in Id |-> [typ |-> s.tTimeouts[i].typ, at |-> 0]]]
          IN  \/ /\ srv = untimed(rpc)
                 /\ mail = Announced(rpc)
                 /\ exec = [w \in Execution |-> Idle]
              \/ /\ srv = untimed(run)
                 /\ mail = {}
                 /\ \E w \in Execution :
                       exec = [v \in Execution |-> IF v = w THEN Run(run, Root) ELSE Idle]

-----------------------------------------------------------------------------
(* The steps of an execution *)

\* on_message: acquire the task, whatever version the message names.
Receive(w, m) ==
    LET s == Fresh(m[1])
        ready == s.tasks[m[1]].state = "pending"
    IN  /\ exec[w] = Idle /\ m \in mail
        /\ srv.tasks[m[1]].version < MaxVersion
        /\ \E pid \in Pid :
              LET new == TaskAcquire(s, clock, m[1], pid, 1)
              IN  /\ Become(new, {m})
                  /\ \/ /\ exec' = [exec EXCEPT ![w] =
                                        IF ready THEN Begin(new, m[1]) ELSE Idle]
                        /\ UNCHANGED faults
                     \/ Fault("missed") /\ UNCHANGED exec

\* The message or the request to acquire the task is lost ("missed", as is the
\* answer to that request: no execution begins, and none is released).
Miss(m) ==
    /\ m \in mail /\ Fault("missed")
    /\ mail' = mail \ {m}
    /\ UNCHANGED <<srv, exec, clock>>

\* Child c is pending.  A local one is executed; a remote one becomes a todo, and
\* ends the replay if it is awaited.
RunLocal(e) == [e EXCEPT !.phase = "settle"]
Todo(e, c) == [Step(e) EXCEPT !.todos = @ \cup {c}]
Block(e, c) == [e EXCEPT !.pos = Len(Calls[e.id]) + 1, !.todos = @ \cup {c}]

\* Faulty: what was spawned is not waited for.
AfterForgetting(e, c, state) ==
    IF state # "pending" \/ c \in Spawned THEN Step(e)
    ELSE IF c \in Local THEN RunLocal(e)
    ELSE Block(e, c)

After(e, c, state) ==
    CASE state = "pending" /\ c \in Local -> RunLocal(e)
      [] state = "pending" /\ c \notin Local ->
            IF c \in Spawned THEN Todo(e, c) ELSE Block(e, c)
      [] state # "pending" /\ c \notin Spawned /\ state # "resolved" -> Fail(e)
      [] OTHER -> Step(e)

\* create_promise: from the cache, or fenced on the task and the version.
Call(w) ==
    LET e == exec[w]
        c == Calls[e.id][e.pos]
        s == FreshAll({e.id, c})
        new == TaskFenceCreate(s, clock, e.id, e.version, c, DeadlineOf(c), TagsOf(c))
    IN  /\ e.phase = "run" /\ ~Replayed(e)
        /\ IF c \in e.known
           THEN /\ exec' = [exec EXCEPT ![w] =
                              After(e, c, IF c \in e.done THEN "resolved" ELSE "pending")]
                /\ UNCHANGED <<srv, mail, clock, faults>>
           ELSE /\ Become(new, {})
                /\ Continue(w, IF HoldsLease(s, e.id, e.version)
                               THEN After(Absorb(e, new), c, new.promises[c].state)
                               ELSE Failed(e))

\* settle_promise of a local child.
SettleChild(w) ==
    LET e == exec[w]
        c == Calls[e.id][e.pos]
        s == FreshAll({e.id, c})
        new == TaskFenceSettle(s, clock, e.id, e.version, c, "resolved")
    IN  /\ e.phase = "settle"
        /\ Become(new, {})
        /\ Continue(w, IF HoldsLease(s, e.id, e.version) THEN Step(Absorb(e, new)) ELSE Failed(e))

\* The function returned a value, or an error: any error of a call it awaited.
Outcome(e) == IF e.failed THEN "rejected" ELSE "resolved"

\* No todos: fulfill the task with the result of the function.
Fulfill(w) ==
    LET e == exec[w]
        s == Fresh(e.id)
    IN  /\ e.phase = "run" /\ Replayed(e) /\ e.todos = {}
        /\ Become(TaskFulfill(s, clock, e.id, Outcome(e)), {})
        /\ Continue(w, IF s.tasks[e.id].state = "acquired" THEN Idle ELSE Failed(e))

\* Todos: suspend on them; a redirect runs the function again under the same
\* version, with what the server preloads.
Suspend(w) ==
    LET e == exec[w]
        s == FreshAll({e.id} \cup e.todos)
        new == TaskSuspend(s, e.id, e.todos)
    IN  /\ e.phase = "run" /\ Replayed(e) /\ e.todos # {}
        /\ Become(new, {})
        /\ Continue(w, CASE s.tasks[e.id].state # "acquired" -> Failed(e)
                         [] new.tasks[e.id].state = "suspended" -> Idle
                         [] OTHER -> [Run(new, e.id) EXCEPT !.version = e.version])

\* Release the task, whatever the server answers.
ReleaseTask(w) ==
    /\ exec[w].phase = "release"
    /\ Become(TaskRelease(Fresh(exec[w].id), clock, exec[w].id), {})
    /\ exec' = [exec EXCEPT ![w] = Idle]
    /\ UNCHANGED faults

\* A request is lost before it reaches the server.
Lose(w) ==
    LET e == exec[w]
    IN  /\ Active(w)
        /\ ~(e.phase = "run" /\ ~Replayed(e) /\ Calls[e.id][e.pos] \in e.known)
        /\ Fault("lost")
        /\ exec' = [exec EXCEPT ![w] = Failed(e)]
        /\ UNCHANGED <<srv, mail, clock>>

\* The function panics.
Break(w) ==
    /\ exec[w].phase = "run" /\ ~exec[w].failed
    /\ Fault("panic")
    /\ exec' = [exec EXCEPT ![w] = Release(@)]
    /\ UNCHANGED <<srv, mail, clock>>

\* The worker dies and tells nobody.
Crash(w) ==
    /\ Active(w)
    /\ Fault("crash")
    /\ exec' = [exec EXCEPT ![w] = Idle]
    /\ UNCHANGED <<srv, mail, clock>>

-----------------------------------------------------------------------------
(* The background loop and time *)

\* An execution is still working under the lease of task i.
Alive(i) == \E w \in Execution :
    Active(w) /\ exec[w].id = i /\ HoldsLease(srv, i, exec[w].version)

\* The loop turns when the timers of due have run out.
TickLoop(due) ==
    /\ Become(Tick([srv EXCEPT !.tTimeouts = [i \in Id |->
                      [@[i] EXCEPT !.at = IF i \in due THEN 0 ELSE clock + 1]]],
                   clock), {})
    /\ IF \E i \in due : Alive(i)
       THEN Fault("slow")
       ELSE UNCHANGED faults
    /\ UNCHANGED exec

Advance ==
    /\ clock = 0 /\ Timer # {}
    /\ clock' = 1
    /\ UNCHANGED <<srv, mail, exec, faults>>

Work(w) == Call(w) \/ SettleChild(w) \/ Fulfill(w) \/ Suspend(w) \/ ReleaseTask(w)
Take(i) == \E w \in Execution, m \in mail : m[1] = i /\ Receive(w, m)

Next ==
    \/ \E i \in Id : Take(i)
    \/ \E m \in mail : Miss(m)
    \/ \E w \in Execution : Work(w) \/ Lose(w) \/ Break(w) \/ Crash(w)
    \/ \E due \in SUBSET Id : TickLoop(due)
    \/ Advance

Spec == Init /\ [][Next]_vars

\* Executions run on, a message is handled in the end (each has a task of its own
\* in the process: the bound on executions is the model's), a timer that runs
\* runs out, and time passes.
FairSpec ==
    /\ Spec
    /\ \A w \in Execution : WF_vars(Work(w))
    /\ \A i \in Id : SF_vars(Take(i)) /\ WF_vars(TickLoop({i}))
    /\ WF_vars(Advance)

-----------------------------------------------------------------------------
(* Properties *)

\* The server state and the executions keep their shape: the replay stays within
\* the calls of the workflow, and only remote children become todos.
TypeOK ==
    /\ srv \in State
    /\ mail \subseteq Id \X Nat
    /\ exec \in [Execution -> [phase : Phase, id : Id, version : Nat, pos : Nat,
                               known : SUBSET Id, done : SUBSET Id, todos : SUBSET Id,
                               failed : BOOLEAN]]
    /\ \A w \in Execution : LET e == exec[w] IN
          /\ e.pos <= Len(Calls[e.id]) + 1
          /\ e.phase = "settle" => Calls[e.id][e.pos] \in Local
          /\ e.todos \subseteq Children(e.id) \ Local
          /\ e.failed => Replayed(e)
    /\ clock \in {0, 1}
    /\ faults \in 0 .. MaxFaults

\* No two executions ever work on a task under the same version, whatever lapses,
\* crashes, duplicated messages and redirects came before: the version an
\* execution fences its writes with is its own.
OneExecutionPerVersion ==
    \A v, w \in Execution :
        (v # w /\ Active(v) /\ Active(w) /\ exec[v].id = exec[w].id)
            => exec[v].version # exec[w].version

\* A workflow that ended left no remote work behind: every remote child and every
\* sleep it created is settled, awaited or not ("that work is what it now waits
\* on", core.rs; "a fire-and-forget spawn is never lost", context.rs).
NoRemoteLeftBehind ==
    \A i \in Id \ (Local \cup Timer) : srv.promises[i].state = "resolved" =>
        \A c \in Children(i) \ Local : srv.promises[c].state \in Settled

\* No worker ends a sleep early, although each sleep has a task that is
\* dispatched, acquired, and acquired again (execute_until_blocked drops it).
SleepNotCutShort ==
    \A i \in Timer : srv.promises[i].state \in Settled =>
        clock = 1 /\ srv.promises[i].settledAt = DeadlineOf(i)

\* An execution that lost its lease neither creates nor settles a local child,
\* even though it may still believe in it (the fence of effects.rs).
FencedWrites == [][
    \A w \in Execution :
        (/\ exec[w].phase \in {"run", "settle"}
         /\ exec'[w] # exec[w]
         /\ ~HoldsLease(srv, exec[w].id, exec[w].version))
        => \A c \in Local : srv'.promises[c] = srv.promises[c]]_vars

\* However a bounded number of faults falls, the root is settled in the end.
RootSettles == <>(srv.promises[Root].state \in Settled)

\* "a worker whose lease has expired (and been re-acquired elsewhere) cannot
\* clobber promise state" (effects.rs).
NoSplitBrainWrite == [][
    \A w \in Execution :
        (/\ exec[w].phase = "run"
         /\ exec'[w] # exec[w]
         /\ srv.promises[exec[w].id].state = "pending"
         /\ srv'.promises[exec[w].id].state \in Settled)
        => HoldsLease(srv, exec[w].id, exec[w].version)]_vars

\* "Already settled inside the spawned task" (flush_local_work): a spawned local
\* child whose task is done is settled when the workflow ends.  This does not hold
\* once the request of SettleChild can be lost; no run checks it.
SpawnedSettled ==
    \A i \in Id \ (Local \cup Timer) : srv.promises[i].state = "resolved" =>
        \A c \in Children(i) \cap Spawned \cap Local :
            srv.promises[c].state \in Settled
=============================================================================
