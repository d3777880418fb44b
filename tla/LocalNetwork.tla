---------------------------- MODULE LocalNetwork ----------------------------
(***************************************************************************)
(* LocalNetwork of resonate/src/network.rs: the server state behind its    *)
(* mutex, the requests any number of clients and workers send, and the     *)
(* one-second background loop.  send reads the clock before it takes the   *)
(* lock, and so does the loop: the time a step works with may be older     *)
(* than the time the previous step worked with, by MaxLag at most.         *)
(*                                                                         *)
(* A request may come from a worker that lost its lease long ago: nothing  *)
(* ties the task or the version a request names to the current holder.     *)
(***************************************************************************)
EXTENDS ServerState

CONSTANTS
    Deadlines,      \* the timeoutAt of create requests
    TTLs,           \* the ttl of acquire requests
    TagChoices,     \* the tags of create requests
    Outcomes,       \* the states of settle requests
    MaxLag,         \* how far the time of a step may lie behind the clock
    MaxClock,       \* bound: the clock stops here
    MaxVersion      \* bound: a task is not acquired at this version or later

ASSUME NetworkAssumption ==
    /\ Deadlines \subseteq Nat
    /\ TTLs \subseteq Nat
    /\ TagChoices \subseteq Tags
    /\ Outcomes \subseteq SettleState
    /\ MaxLag \in Nat
    /\ MaxClock \in Nat
    /\ MaxVersion \in Nat

VARIABLES
    srv,        \* the ServerState; outgoing holds the batch of the last step
    clock,      \* milliseconds
    grants      \* history: the versions under which each task was acquired

vars == <<srv, clock, grants>>

Init ==
    /\ srv = Empty
    /\ clock = 0
    /\ grants = [i \in Id |-> {}]

Nows == {n \in 0 .. MaxClock : n <= clock /\ clock <= n + MaxLag}

\* The step that leads to server state new.
Become(new) ==
    /\ srv' = new
    /\ grants' = [i \in Id |->
          IF /\ new.tasks[i].state = "acquired"
             /\ srv.tasks[i].state # "acquired"
          THEN grants[i] \cup {new.tasks[i].version}
          ELSE grants[i]]
    /\ UNCHANGED clock

\* What apply does before the handler of a request about promise id.
Fresh(now, id) == TryAutoTimeout(Clear(srv), now, id)

-----------------------------------------------------------------------------
(* Requests *)

GetPromise(now, id) == Become(Fresh(now, id))

CreatePromise(now, id) ==
    \E timeoutAt \in Deadlines, tags \in TagChoices :
        Become(PromiseCreate(Fresh(now, id), now, id, timeoutAt, tags))

SettlePromise(now, id) ==
    \E outcome \in Outcomes :
        Become(PromiseSettle(Fresh(now, id), now, id, outcome))

RegisterListener(now, id) ==
    \E addr \in Addr : Become(PromiseRegisterListener(Fresh(now, id), id, addr))

CreateTask(now, id) ==
    \E timeoutAt \in Deadlines, tags \in TagChoices, pid \in Pid, ttl \in TTLs :
        /\ srv.tasks[id].version < MaxVersion
        /\ Become(TaskCreate(Fresh(now, id), now, id, timeoutAt, tags, pid, ttl))

AcquireTaskRequest(now, id) ==
    \E pid \in Pid, ttl \in TTLs :
        /\ srv.tasks[id].version < MaxVersion
        /\ Become(TaskAcquire(Fresh(now, id), now, id, pid, ttl))

ReleaseTask(now, id) == Become(TaskRelease(Fresh(now, id), now, id))

FulfillTask(now, id) ==
    \E outcome \in Outcomes :
        Become(TaskFulfill(Fresh(now, id), now, id, outcome))

\* A worker fences the creation or settlement of a child of its own promise.
FenceTask(now, id) ==
    \E child \in Id \ {id}, version \in grants[id] :
        LET s == TryAutoTimeout(Fresh(now, id), now, child)
        IN  \/ \E timeoutAt \in Deadlines, tags \in TagChoices :
                  Become(TaskFenceCreate(s, now, id, version, child,
                                         timeoutAt, tags))
            \/ \E outcome \in Outcomes :
                  Become(TaskFenceSettle(s, now, id, version, child, outcome))

\* A worker suspends on promises it created, never on its own.  The request
\* names one or two of them (a1 = a2 for one): the bound on its actions.
SuspendTask(now, id) ==
    \E a1, a2 \in {i \in Id \ {id} : HasPromise(srv, i)} :
        Become(TaskSuspend(
            TryAutoTimeout(TryAutoTimeout(Fresh(now, id), now, a1), now, a2),
            id, {a1, a2}))

HeartbeatTask(now, id) ==
    \E pid \in Pid, version \in grants[id] :
        Become(TaskHeartbeat(Clear(srv), now, pid, {<<id, version>>}))

-----------------------------------------------------------------------------
(* The background loop and time *)

TickLoop(now) == Become(Tick(Clear(srv), now))

Advance ==
    /\ clock < MaxClock
    /\ clock' = clock + 1
    /\ UNCHANGED <<srv, grants>>

Next ==
    \/ \E now \in Nows, id \in Id :
          \/ GetPromise(now, id)
          \/ CreatePromise(now, id)
          \/ SettlePromise(now, id)
          \/ RegisterListener(now, id)
          \/ CreateTask(now, id)
          \/ AcquireTaskRequest(now, id)
          \/ ReleaseTask(now, id)
          \/ FulfillTask(now, id)
          \/ FenceTask(now, id)
          \/ SuspendTask(now, id)
          \/ HeartbeatTask(now, id)
    \/ \E now \in Nows : TickLoop(now)
    \/ Advance

Spec == Init /\ [][Next]_vars

\* Time goes on, and the background loop keeps turning with the current time.
FairSpec == Spec /\ WF_vars(Advance) /\ WF_vars(TickLoop(clock))

-----------------------------------------------------------------------------
(* Properties *)

\* Every part of the server state keeps its shape: the structs DurablePromise,
\* Task, PTimeout, TTimeout and OutgoingMessage of network.rs.
TypeOK ==
    /\ srv \in State
    /\ clock \in 0 .. MaxClock
    /\ grants \in [Id -> SUBSET Nat]

\* Promises and tasks never drift apart, whichever handler settles a promise
\* (enqueue_settle runs in all of them).
TaskFollowsPromise == TasksFollowPromises(srv)

\* The timeout tables agree with the states they time, so nothing that must
\* expire is forgotten and nothing that is done expires (set_ and del_ of
\* p_timeouts and t_timeouts; the tests call the first part pendingHasTimeout).
TimeoutScheduled == TimeoutsScheduled(srv)

\* No settled promise keeps an awaiter or a listener it will never serve.
AwaiterLive == AwaitersLive(srv)

\* The three tables agree, whatever request, stale or not, meets whatever turn of
\* the loop: promises with tasks, timeouts with states, awaiters with what they
\* await.  Each handler updates up to three of them in its own way.
Consistent == TaskFollowsPromise /\ TimeoutScheduled /\ AwaiterLive

\* No lost wake-up: whatever order awaited promises settle in while a task
\* suspends, is resumed and suspends again, a suspended task is registered on a
\* promise whose settlement will wake it (task_suspend, resume_awaiters).
NoLostWakeup == SuspendedAwaitsPending(srv)

\* No request settles a promise after its deadline (try_auto_timeout runs for
\* each promise a request is about, before the handler).
DeadlineKept == SettledInTime(srv)

\* What clients see of the promises.
Seen(i) == [state |-> srv.promises[i].state, deadline |-> srv.promises[i].timeoutAt,
            timer |-> srv.promises[i].timer, listeners |-> srv.promises[i].subscribers]
Told == {[id |-> m.id, addr |-> m.addr, state |-> m.state] :
            m \in {n \in srv.outgoing : n.kind = "unblock"}}

Promises == INSTANCE DurablePromises WITH
    promise <- [i \in Id |-> Seen(i)], time <- clock, told <- Told

\* To its clients, the server is a store of durable promises: under requests of
\* clients and workers in any order, stale ones among them, and with the loop
\* turning between them, every step creates, settles or registers with at most
\* one promise, expires others only at their deadline, settles each only once,
\* and tells each listener in the step that settles, neither less nor more.
StoresPromises == Promises!Spec

\* A promise settles at most once: outcome and time never change again.
SettledForever == [][\A i \in Id :
    srv.promises[i].state \in Settled =>
        /\ srv'.promises[i].state = srv.promises[i].state
        /\ srv'.promises[i].settledAt = srv.promises[i].settledAt]_vars

\* A version is a fencing token: no task is acquired twice under one version,
\* and versions never go back, so a worker that lost its lease can be told from
\* the worker that holds it (the versions task_fence and task_heartbeat compare).
FencingToken == [][\A i \in Id :
    /\ srv'.tasks[i].version >= srv.tasks[i].version
    /\ /\ srv'.tasks[i].state = "acquired"
       /\ \/ srv.tasks[i].state # "acquired"
          \/ srv.tasks[i].version # srv'.tasks[i].version
       => srv'.tasks[i].version \notin grants[i]]_vars

\* A task with an address that becomes pending again is announced under its new
\* version in the same step, whoever gave it up or woke it; workers need not
\* wait for the retry timer.
ReadyAnnounced == [][\A i \in Id :
    /\ srv.tasks[i].state \in {"acquired", "suspended"}
    /\ srv'.tasks[i].state = "pending"
    /\ srv.promises[i].target
    => [kind |-> "execute", id |-> i, version |-> srv'.tasks[i].version]
            \in srv'.outgoing]_vars

\* No step wakes or announces a task and fulfills it as well: of the promises
\* that expire together, the loop fulfills the tasks first (phase 2 of tick runs
\* before phase 3, "Fulfill tasks whose own promise settled").
NoWakeOfFulfilled == [][
    (\E now \in Nows : TickLoop(now)) =>
        \A m \in srv'.outgoing : m.kind = "execute" =>
            /\ srv'.tasks[m.id].state = "pending"
            /\ srv'.tasks[m.id].version = m.version]_vars

\* A deadline that has passed is acted on, without any request: the loop settles
\* the promise if it carries an address.
OverduePromiseSettles == \A i \in Id :
    (/\ srv.promises[i].state = "pending"
     /\ srv.promises[i].target
     /\ clock >= srv.promises[i].timeoutAt)
        ~> srv.promises[i].state \in Settled

\* The lease of a worker that fell silent ends: no task stays acquired under a
\* lease that has run out and is not renewed.
SilentLeaseEnds == \A i \in Id :
    LET lapsed == /\ srv.tasks[i].state = "acquired"
                  /\ clock >= srv.tTimeouts[i].at
    IN  lapsed ~> ~lapsed

\* A task that awaits a promise with an address and a deadline is woken, or
\* fulfilled, even when nobody ever settles that promise.
DeadlineWakesAwaiter == \A a, i \in Id :
    (/\ srv.tasks[a].state = "suspended"
     /\ a \in srv.promises[i].awaiters
     /\ srv.promises[i].target
     /\ srv.promises[i].timeoutAt <= MaxClock)
        ~> srv.tasks[a].state # "suspended"

\* A ready task nobody picked up is announced again when its retry is due.
ReadyTaskRetried == \A i \in Id :
    (/\ srv.tasks[i].state = "pending"
     /\ srv.promises[i].target
     /\ clock >= srv.tTimeouts[i].at)
        ~> \/ srv.tasks[i].state # "pending"
           \/ [kind |-> "execute", id |-> i, version |-> srv.tasks[i].version]
                  \in srv.outgoing
=============================================================================
