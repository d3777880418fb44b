------------------------ MODULE LocalNetwork_proofs ------------------------
(***************************************************************************)
(* The safety properties of LocalNetwork, for every set of promises,       *)
(* processes and listeners, every deadline, ttl and lag, and for requests  *)
(* in any order.  The inductive invariant is IInv: Inv of the server state *)
(* and the bound that the ranks put on the versions granted so far.        *)
(***************************************************************************)
EXTENDS WireContract, ServerState_proofs, WellFoundedInduction

\* A version granted for a task is behind the task's rank.
GrantsBehind == \A i \in Id : \A v \in grants[i] : 2 * v + 1 <= Rank(srv, i)

IInv ==
    /\ Inv(srv)
    /\ clock \in 0 .. MaxClock
    /\ grants \in [Id -> SUBSET Nat]
    /\ GrantsBehind

-----------------------------------------------------------------------------
(* Every step is one sound step of the server, or time passes *)

LEMMA FreshInv ==
    ASSUME Inv(srv), NEW now \in Nat, NEW id \in Id
    PROVE  LET f == Fresh(now, id)
           IN  /\ Inv(f) /\ Evolves(srv, f) /\ OnlySettles(srv, f)
               /\ f.promises[id].state = "pending"
                     => now < f.promises[id].timeoutAt
  <1> DEFINE c == Clear(srv)
             f == TryAutoTimeout(c, now, id)
  <1>1. Inv(c) /\ Evolves(srv, c) /\ OnlySettles(srv, c)
    BY ClearInv
  <1> HIDE DEF c
  <1>2. /\ Inv(f) /\ Evolves(c, f) /\ OnlySettles(c, f)
        /\ f.promises[id].state = "pending" => now < f.promises[id].timeoutAt
    BY <1>1, AutoTimeoutInv
  <1>3. Fresh(now, id) = f
    BY DEF Fresh, c
  <1> HIDE DEF f
  <1>4. Evolves(srv, f)
    BY <1>1, <1>2, EvolvesTransitive
  <1>5. OnlySettles(srv, f)
    BY <1>1, <1>2 DEF OnlySettles
  <1> QED BY <1>2, <1>3, <1>4, <1>5

\* A request that names a second promise expires that one as well.
LEMMA FreshPairInv ==
    ASSUME NEW s, Inv(s), NEW f, Inv(f), Evolves(s, f), OnlySettles(s, f),
           NEW now \in Nat, NEW child \in Id
    PROVE  LET g == TryAutoTimeout(f, now, child)
           IN  /\ Inv(g) /\ Evolves(s, g) /\ OnlySettles(s, g)
               /\ g.promises[child].state = "pending"
                     => now < g.promises[child].timeoutAt
  <1> DEFINE g == TryAutoTimeout(f, now, child)
  <1>1. /\ Inv(g) /\ Evolves(f, g) /\ OnlySettles(f, g)
        /\ g.promises[child].state = "pending"
              => now < g.promises[child].timeoutAt
    BY AutoTimeoutInv
  <1> HIDE DEF g
  <1>2. Evolves(s, g)
    BY <1>1, EvolvesTransitive
  <1>3. OnlySettles(s, g)
    BY <1>1 DEF OnlySettles
  <1> QED BY <1>1, <1>2, <1>3 DEF g

\* A handler that is sound after the preamble is sound from srv.
LEMMA HandlerStep ==
    ASSUME Inv(srv), NEW f, Inv(f), Evolves(srv, f),
           NEW new, Inv(new), Evolves(f, new), Become(new)
    PROVE  Inv(srv') /\ Evolves(srv, srv') /\ Become(srv')
  <1>1. Evolves(srv, new)
    BY EvolvesTransitive
  <1>2. srv' = new
    BY DEF Become
  <1> QED BY <1>1, <1>2

LEMMA RequestStep ==
    ASSUME Inv(srv), NEW now \in Nat, NEW id \in Id,
           \/ GetPromise(now, id)
           \/ CreatePromise(now, id)
           \/ SettlePromise(now, id)
           \/ RegisterListener(now, id)
           \/ CreateTask(now, id)
           \/ AcquireTaskRequest(now, id)
           \/ ReleaseTask(now, id)
           \/ FulfillTask(now, id)
    PROVE  Inv(srv') /\ Evolves(srv, srv') /\ Become(srv')
  <1> DEFINE f == Fresh(now, id)
  <1>1. /\ Inv(f) /\ Evolves(srv, f)
        /\ f.promises[id].state = "pending" => now < f.promises[id].timeoutAt
    BY FreshInv
  <1> HIDE DEF f
  <1>2. CASE GetPromise(now, id)
    BY <1>1, <1>2, EvolvesReflexive, HandlerStep DEF GetPromise, f
  <1>3. CASE CreatePromise(now, id)
    <2>1. PICK timeoutAt \in Deadlines, tags \in TagChoices :
              Become(PromiseCreate(f, now, id, timeoutAt, tags))
      BY <1>3 DEF CreatePromise, f
    <2>2. timeoutAt \in Nat /\ tags \in Tags
      BY NetworkAssumption
    <2> DEFINE new == PromiseCreate(f, now, id, timeoutAt, tags)
    <2>3. Inv(new) /\ Evolves(f, new)
      BY <1>1, <2>2, PromiseCreateInv
    <2> HIDE DEF new
    <2> QED BY <1>1, <2>1, <2>3, HandlerStep DEF new
  <1>4. CASE SettlePromise(now, id)
    <2>1. PICK outcome \in Outcomes :
              Become(PromiseSettle(f, now, id, outcome))
      BY <1>4 DEF SettlePromise, f
    <2>2. outcome \in SettleState
      BY NetworkAssumption
    <2> DEFINE new == PromiseSettle(f, now, id, outcome)
    <2>3. Inv(new) /\ Evolves(f, new)
      BY <1>1, <2>2, PromiseSettleInv
    <2> HIDE DEF new
    <2> QED BY <1>1, <2>1, <2>3, HandlerStep DEF new
  <1>5. CASE RegisterListener(now, id)
    <2>1. PICK addr \in Addr : Become(PromiseRegisterListener(f, id, addr))
      BY <1>5 DEF RegisterListener, f
    <2> DEFINE new == PromiseRegisterListener(f, id, addr)
    <2>2. Inv(new) /\ Evolves(f, new)
      BY <1>1, RegisterListenerInv
    <2> HIDE DEF new
    <2> QED BY <1>1, <2>1, <2>2, HandlerStep DEF new
  <1>6. CASE CreateTask(now, id)
    <2>1. PICK timeoutAt \in Deadlines, tags \in TagChoices,
               pid \in Pid, ttl \in TTLs :
              Become(TaskCreate(f, now, id, timeoutAt, tags, pid, ttl))
      BY <1>6 DEF CreateTask, f
    <2>2. timeoutAt \in Nat /\ tags \in Tags /\ ttl \in Nat
      BY NetworkAssumption
    <2> DEFINE new == TaskCreate(f, now, id, timeoutAt, tags, pid, ttl)
    <2>3. Inv(new) /\ Evolves(f, new)
      BY <1>1, <2>2, TaskCreateInv
    <2> HIDE DEF new
    <2> QED BY <1>1, <2>1, <2>3, HandlerStep DEF new
  <1>7. CASE AcquireTaskRequest(now, id)
    <2>1. PICK pid \in Pid, ttl \in TTLs :
              Become(TaskAcquire(f, now, id, pid, ttl))
      BY <1>7 DEF AcquireTaskRequest, f
    <2>2. ttl \in Nat
      BY NetworkAssumption
    <2> DEFINE new == TaskAcquire(f, now, id, pid, ttl)
    <2>3. Inv(new) /\ Evolves(f, new)
      BY <1>1, <2>2, TaskAcquireInv
    <2> HIDE DEF new
    <2> QED BY <1>1, <2>1, <2>3, HandlerStep DEF new
  <1>8. CASE ReleaseTask(now, id)
    <2> DEFINE new == TaskRelease(f, now, id)
    <2>1. Inv(new) /\ Evolves(f, new)
      BY <1>1, TaskReleaseInv
    <2>2. Become(new)
      BY <1>8 DEF ReleaseTask, f
    <2> HIDE DEF new
    <2> QED BY <1>1, <2>1, <2>2, HandlerStep
  <1>9. CASE FulfillTask(now, id)
    <2>1. PICK outcome \in Outcomes : Become(TaskFulfill(f, now, id, outcome))
      BY <1>9 DEF FulfillTask, f
    <2>2. outcome \in SettleState
      BY NetworkAssumption
    <2> DEFINE new == TaskFulfill(f, now, id, outcome)
    <2>3. Inv(new) /\ Evolves(f, new)
      BY <1>1, <2>2, TaskFulfillInv
    <2> HIDE DEF new
    <2> QED BY <1>1, <2>1, <2>3, HandlerStep DEF new
  <1> QED BY <1>2, <1>3, <1>4, <1>5, <1>6, <1>7, <1>8, <1>9

\* The requests that name a second promise, or none.
LEMMA WideRequestStep ==
    ASSUME Inv(srv), NEW now \in Nat, NEW id \in Id,
           \/ FenceTask(now, id)
           \/ SuspendTask(now, id)
           \/ HeartbeatTask(now, id)
    PROVE  Inv(srv') /\ Evolves(srv, srv') /\ Become(srv')
  <1> DEFINE f == Fresh(now, id)
  <1>1. Inv(f) /\ Evolves(srv, f) /\ OnlySettles(srv, f)
    BY FreshInv
  <1> HIDE DEF f
  <1>2. CASE FenceTask(now, id)
    <2>1. PICK child \in Id \ {id}, version \in grants[id] :
              LET s == TryAutoTimeout(f, now, child)
              IN  \/ \E timeoutAt \in Deadlines, tags \in TagChoices :
                        Become(TaskFenceCreate(s, now, id, version, child,
                                               timeoutAt, tags))
                  \/ \E outcome \in Outcomes :
                        Become(TaskFenceSettle(s, now, id, version, child,
                                               outcome))
      BY <1>2 DEF FenceTask, f
    <2> DEFINE g == TryAutoTimeout(f, now, child)
    <2>2. /\ Inv(g) /\ Evolves(srv, g)
          /\ g.promises[child].state = "pending"
                => now < g.promises[child].timeoutAt
      BY <1>1, FreshPairInv
    <2>3. \/ \E timeoutAt \in Deadlines, tags \in TagChoices :
                Become(TaskFenceCreate(g, now, id, version, child,
                                       timeoutAt, tags))
          \/ \E outcome \in Outcomes :
                Become(TaskFenceSettle(g, now, id, version, child, outcome))
      BY <2>1
    <2> HIDE DEF g
    <2>4. CASE \E timeoutAt \in Deadlines, tags \in TagChoices :
                  Become(TaskFenceCreate(g, now, id, version, child,
                                         timeoutAt, tags))
      <3>1. PICK timeoutAt \in Deadlines, tags \in TagChoices :
                Become(TaskFenceCreate(g, now, id, version, child,
                                       timeoutAt, tags))
        BY <2>4
      <3> DEFINE new == TaskFenceCreate(g, now, id, version, child,
                                        timeoutAt, tags)
      <3>2. timeoutAt \in Nat /\ tags \in Tags
        BY NetworkAssumption
      <3>3. Inv(new) /\ Evolves(g, new)
        BY <2>2, <3>2, FenceCreateInv
      <3> HIDE DEF new
      <3> QED BY <2>2, <3>1, <3>3, HandlerStep DEF new
    <2>5. CASE \E outcome \in Outcomes :
                  Become(TaskFenceSettle(g, now, id, version, child, outcome))
      <3>1. PICK outcome \in Outcomes :
                Become(TaskFenceSettle(g, now, id, version, child, outcome))
        BY <2>5
      <3> DEFINE new == TaskFenceSettle(g, now, id, version, child, outcome)
      <3>2. outcome \in SettleState
        BY NetworkAssumption
      <3>3. Inv(new) /\ Evolves(g, new)
        BY <2>2, <3>2, FenceSettleInv
      <3> HIDE DEF new
      <3> QED BY <2>2, <3>1, <3>3, HandlerStep DEF new
    <2> QED BY <2>3, <2>4, <2>5
  <1>3. CASE SuspendTask(now, id)
    <2>1. PICK a1 \in {i \in Id \ {id} : HasPromise(srv, i)},
               a2 \in {i \in Id \ {id} : HasPromise(srv, i)} :
              Become(TaskSuspend(
                  TryAutoTimeout(TryAutoTimeout(f, now, a1), now, a2),
                  id, {a1, a2}))
      BY <1>3 DEF SuspendTask, f
    <2> DEFINE g == TryAutoTimeout(f, now, a1)
               h == TryAutoTimeout(g, now, a2)
               new == TaskSuspend(h, id, {a1, a2})
    <2>2. Inv(g) /\ Evolves(srv, g) /\ OnlySettles(srv, g)
      BY <1>1, FreshPairInv
    <2> HIDE DEF g
    <2>3. Inv(h) /\ Evolves(srv, h) /\ OnlySettles(srv, h)
      BY <2>2, FreshPairInv
    <2> HIDE DEF h
    <2>4. HasPromise(h, a1) /\ HasPromise(h, a2)
      BY <2>3 DEF OnlySettles
    <2>5. Inv(new) /\ Evolves(h, new)
      BY <2>3, <2>4, TaskSuspendInv
    <2> HIDE DEF new
    <2> QED BY <2>1, <2>3, <2>5, HandlerStep DEF new, h, g
  <1>4. CASE HeartbeatTask(now, id)
    <2>1. PICK pid \in Pid, version \in grants[id] :
              Become(TaskHeartbeat(Clear(srv), now, pid, {<<id, version>>}))
      BY <1>4 DEF HeartbeatTask
    <2> DEFINE c == Clear(srv)
               new == TaskHeartbeat(c, now, pid, {<<id, version>>})
    <2>2. Inv(c) /\ Evolves(srv, c)
      BY ClearInv
    <2> HIDE DEF c
    <2>3. Inv(new) /\ Evolves(c, new)
      BY <2>2, HeartbeatInv
    <2> HIDE DEF new
    <2> QED BY <2>1, <2>2, <2>3, HandlerStep DEF new, c
  <1> QED BY <1>2, <1>3, <1>4

LEMMA LoopStep ==
    ASSUME Inv(srv), NEW now \in Nat, TickLoop(now)
    PROVE  Inv(srv') /\ Evolves(srv, srv') /\ Become(srv')
  <1> DEFINE c == Clear(srv)
             new == Tick(c, now)
  <1>1. Inv(c) /\ Evolves(srv, c)
    BY ClearInv
  <1> HIDE DEF c
  <1>2. Inv(new) /\ Evolves(c, new)
    BY <1>1, TickInv
  <1>3. Become(new)
    BY DEF TickLoop, c
  <1> HIDE DEF new
  <1> QED BY <1>1, <1>2, <1>3, HandlerStep

-----------------------------------------------------------------------------
(* The inductive invariant *)

LEMMA InitInv == Init => IInv
  BY EmptyInv, NetworkAssumption DEF Init, IInv, GrantsBehind

\* A sound step of the server keeps the bound on the granted versions, settles
\* no promise twice and grants no version twice.
LEMMA ServerStep ==
    ASSUME IInv, Inv(srv'), Evolves(srv, srv'), Become(srv')
    PROVE  /\ IInv'
           /\ \A i \in Id : srv.promises[i].state \in Settled =>
                 /\ srv'.promises[i].state = srv.promises[i].state
                 /\ srv'.promises[i].settledAt = srv.promises[i].settledAt
           /\ \A i \in Id :
                 /\ srv'.tasks[i].version >= srv.tasks[i].version
                 /\ /\ srv'.tasks[i].state = "acquired"
                    /\ \/ srv.tasks[i].state # "acquired"
                       \/ srv.tasks[i].version # srv'.tasks[i].version
                    => srv'.tasks[i].version \notin grants[i]
  <1>1. ASSUME NEW i \in Id
        PROVE  /\ srv.tasks[i].version \in Nat
               /\ srv'.tasks[i].version \in Nat
               /\ Rank(srv, i) \in Nat /\ Rank(srv', i) \in Nat
    BY Fields, RankNat DEF IInv, Inv, Task
  <1>2. clock' \in 0 .. MaxClock
    BY DEF IInv, Become
  <1>3. ASSUME NEW i \in Id
        PROVE  grants'[i] = IF /\ srv'.tasks[i].state = "acquired"
                               /\ srv.tasks[i].state # "acquired"
                            THEN grants[i] \cup {srv'.tasks[i].version}
                            ELSE grants[i]
    BY DEF Become
  <1>4. grants' \in [Id -> SUBSET Nat]
    <2>1. \A i \in Id : (IF /\ srv'.tasks[i].state = "acquired"
                            /\ srv.tasks[i].state # "acquired"
                         THEN grants[i] \cup {srv'.tasks[i].version}
                         ELSE grants[i]) \in SUBSET Nat
      BY <1>1 DEF IInv
    <2> QED BY <2>1 DEF Become
  <1>5. GrantsBehind'
    <2> SUFFICES ASSUME NEW i \in Id, NEW v \in grants'[i]
        PROVE  2 * v + 1 <= Rank(srv', i)
      BY DEF GrantsBehind
    <2>1. CASE v \in grants[i]
      <3>1. v \in Nat /\ 2 * v + 1 <= Rank(srv, i)
        BY <2>1 DEF IInv, GrantsBehind
      <3>2. Rank(srv', i) >= Rank(srv, i)
        BY DEF Evolves
      <3> QED BY <1>1, <3>1, <3>2
    <2>2. CASE v \notin grants[i]
      <3>1. srv'.tasks[i].state = "acquired" /\ v = srv'.tasks[i].version
        BY <1>3, <2>2
      <3>2. Rank(srv', i) = 2 * v + 1
        BY <3>1 DEF Rank
      <3> QED BY <1>1, <3>1, <3>2
    <2> QED BY <2>1, <2>2
  <1>6. ASSUME NEW i \in Id,
               srv'.tasks[i].state = "acquired",
               \/ srv.tasks[i].state # "acquired"
               \/ srv.tasks[i].version # srv'.tasks[i].version,
               srv'.tasks[i].version \in grants[i]
        PROVE  FALSE
    <2>1. Rank(srv', i) = 2 * srv'.tasks[i].version + 1
      BY <1>6 DEF Rank
    <2>2. 2 * srv'.tasks[i].version + 1 <= Rank(srv, i)
      BY <1>6 DEF IInv, GrantsBehind
    <2>3. Rank(srv', i) >= Rank(srv, i)
      BY DEF Evolves
    <2>4. Rank(srv', i) = Rank(srv, i)
      BY <1>1, <2>1, <2>2, <2>3
    <2>5. srv.tasks[i].state = "acquired"
      BY <1>6, <2>4 DEF Evolves
    <2>6. Rank(srv, i) = 2 * srv.tasks[i].version + 1
      BY <2>5 DEF Rank
    <2> QED BY <1>1, <1>6, <2>1, <2>4, <2>5, <2>6
  <1>7. IInv'
    BY <1>2, <1>4, <1>5 DEF IInv
  <1>8. ASSUME NEW i \in Id
        PROVE  /\ srv'.tasks[i].version >= srv.tasks[i].version
               /\ srv.promises[i].state \in Settled =>
                     /\ srv'.promises[i].state = srv.promises[i].state
                     /\ srv'.promises[i].settledAt = srv.promises[i].settledAt
    BY DEF Evolves
  <1> QED BY <1>6, <1>7, <1>8

\* One case for each group of actions.
LEMMA NextStep ==
    ASSUME IInv, Next
    PROVE  \/ Inv(srv') /\ Evolves(srv, srv') /\ Become(srv')
           \/ Advance
  <1>1. CASE \E now \in Nows, id \in Id :
                \/ GetPromise(now, id)
                \/ CreatePromise(now, id)
                \/ SettlePromise(now, id)
                \/ RegisterListener(now, id)
                \/ CreateTask(now, id)
                \/ AcquireTaskRequest(now, id)
                \/ ReleaseTask(now, id)
                \/ FulfillTask(now, id)
                \/ FenceTask(now, id)
                \/ SuspendTask(now, id)
                \/ HeartbeatTask(now, id)
    <2>1. PICK now \in Nows, id \in Id :
                \/ GetPromise(now, id)
                \/ CreatePromise(now, id)
                \/ SettlePromise(now, id)
                \/ RegisterListener(now, id)
                \/ CreateTask(now, id)
                \/ AcquireTaskRequest(now, id)
                \/ ReleaseTask(now, id)
                \/ FulfillTask(now, id)
                \/ FenceTask(now, id)
                \/ SuspendTask(now, id)
                \/ HeartbeatTask(now, id)
      BY <1>1
    <2>2. now \in Nat
      BY NetworkAssumption DEF Nows
    <2> QED BY <2>1, <2>2, RequestStep, WideRequestStep DEF IInv
  <1>2. CASE \E now \in Nows : TickLoop(now)
    <2>1. PICK now \in Nows : TickLoop(now)
      BY <1>2
    <2>2. now \in Nat
      BY NetworkAssumption DEF Nows
    <2> QED BY <2>1, <2>2, LoopStep DEF IInv
  <1> QED BY <1>1, <1>2 DEF Next

LEMMA StepInv == IInv /\ [Next]_vars => IInv'
  <1> SUFFICES ASSUME IInv, [Next]_vars PROVE IInv'
    OBVIOUS
  <1>1. CASE Advance
    <2>1. srv' = srv /\ grants' = grants /\ clock' \in 0 .. MaxClock
      BY <1>1, NetworkAssumption DEF Advance, IInv
    <2> QED BY <2>1 DEF IInv, GrantsBehind
  <1>2. CASE Next /\ ~ Advance
    BY <1>2, NextStep, ServerStep
  <1>3. CASE UNCHANGED vars
    BY <1>3 DEF vars, IInv, GrantsBehind
  <1> QED BY <1>1, <1>2, <1>3

LEMMA Inductive == Spec => []IInv
  BY InitInv, StepInv, PTL DEF Spec

-----------------------------------------------------------------------------
(* What follows *)

\* The server state keeps its shape under any requests in any order.
THEOREM TypeCorrect == Spec => []TypeOK
  <1>1. IInv => TypeOK
    BY DEF IInv, Inv, TypeOK
  <1> QED BY <1>1, Inductive, PTL

\* A task is fulfilled exactly when its promise is settled: whichever of
\* promise.settle, task.fulfill, task.fence, try_auto_timeout and tick settles
\* the promise, enqueue_settle carries the task along.
THEOREM TaskNeverDrifts == Spec => []TaskFollowsPromise
  <1>1. IInv => TaskFollowsPromise
    BY DEF IInv, Inv, TaskFollowsPromise
  <1> QED BY <1>1, Inductive, PTL

\* The timeout tables time what is to be timed and nothing else (set_p_timeout,
\* set_t_timeout and their del_ counterparts).
THEOREM TimeoutsAgree == Spec => []TimeoutScheduled
  <1>1. IInv => TimeoutScheduled
    BY DEF IInv, Inv, TimeoutScheduled
  <1> QED BY <1>1, Inductive, PTL

\* A settled promise has served its awaiters and listeners, and no fulfilled
\* task awaits anything.
THEOREM AwaitersStayLive == Spec => []AwaiterLive
  <1>1. IInv => AwaiterLive
    BY DEF IInv, Inv, AwaiterLive
  <1> QED BY <1>1, Inductive, PTL

\* The tables agree with each other.
THEOREM TablesAgree == Spec => []Consistent
  <1>1. IInv => Consistent
    BY DEF IInv, Inv, Consistent, TaskFollowsPromise, TimeoutScheduled, AwaiterLive
  <1> QED BY <1>1, Inductive, PTL

\* No wake-up is lost between the registrations of task_suspend and the
\* settlements of what it awaits.
THEOREM WakeupNeverLost == Spec => []NoLostWakeup
  <1>1. IInv => NoLostWakeup
    BY DEF IInv, Inv, NoLostWakeup
  <1> QED BY <1>1, Inductive, PTL

\* No request beats a deadline that has passed, however old the time it was
\* sent with.
THEOREM DeadlinesHold == Spec => []DeadlineKept
  <1>1. IInv => DeadlineKept
    BY DEF IInv, Inv, DeadlineKept
  <1> QED BY <1>1, Inductive, PTL

\* The first settlement of a promise is the last.
THEOREM FirstSettlementStays == Spec => SettledForever
  <1>1. ASSUME IInv, [Next]_vars
        PROVE  [\A i \in Id : srv.promises[i].state \in Settled =>
                  /\ srv'.promises[i].state = srv.promises[i].state
                  /\ srv'.promises[i].settledAt = srv.promises[i].settledAt]_vars
    <2>1. CASE Advance
      BY <2>1 DEF Advance
    <2>2. CASE Next /\ ~ Advance
      BY <1>1, <2>2, NextStep, ServerStep
    <2>3. CASE UNCHANGED vars
      BY <2>3
    <2> QED BY <1>1, <2>1, <2>2, <2>3
  <1> QED BY <1>1, Inductive, PTL DEF Spec, SettledForever

\* A worker's version tells it from every other holder of the task, before it
\* and after it.
THEOREM VersionsFence == Spec => FencingToken
  <1>1. ASSUME IInv, [Next]_vars
        PROVE  [\A i \in Id :
                  /\ srv'.tasks[i].version >= srv.tasks[i].version
                  /\ /\ srv'.tasks[i].state = "acquired"
                     /\ \/ srv.tasks[i].state # "acquired"
                        \/ srv.tasks[i].version # srv'.tasks[i].version
                     => srv'.tasks[i].version \notin grants[i]]_vars
    <2>1. CASE Advance
      <3>1. srv' = srv /\ \A i \in Id : srv.tasks[i].version \in Nat
        BY <1>1, <2>1, Fields DEF Advance, IInv, Inv, Task
      <3> QED BY <3>1
    <2>2. CASE Next /\ ~ Advance
      BY <1>1, <2>2, NextStep, ServerStep
    <2>3. CASE UNCHANGED vars
      BY <2>3
    <2> QED BY <1>1, <2>1, <2>2, <2>3
  <1> QED BY <1>1, Inductive, PTL DEF Spec, FencingToken

-----------------------------------------------------------------------------
(* The server implements DurablePromises                                   *)

\* What a request of time now about promise id does to the promises: it opens,
\* closes or listens to that one at most, and others run into their deadlines.
Answers(s, t, now, id) ==
    /\ \A i \in Id \ {id} : Keeps(s, t, i) \/ Lapses(s, t, now, i)
    /\ \/ Keeps(s, t, id)
       \/ Lapses(s, t, now, id)
       \/ \E timeoutAt \in Nat, tags \in Tags : Opens(s, t, now, id, tags, timeoutAt)
       \/ \E outcome \in SettleState : Closes(s, t, id, outcome, now)
       \/ \E addr \in Addr : Hears(s, t, id, addr)
    /\ Tells(s, t)

\* The handler's part of it, after the promises the request names were expired.
Handles(f, t, now, id) ==
    /\ \A i \in Id \ {id} : Keeps(f, t, i)
    /\ \/ Keeps(f, t, id)
       \/ \E timeoutAt \in Nat, tags \in Tags : Opens(f, t, now, id, tags, timeoutAt)
       \/ \E outcome \in SettleState : Closes(f, t, id, outcome, now)
       \/ \E addr \in Addr : Hears(f, t, id, addr)
    /\ Tells(f, t)

LEMMA HandlesQuiet ==
    ASSUME NEW f, NEW t, Quiet(f, t), NEW now, NEW id \in Id
    PROVE  Handles(f, t, now, id)
  <1>1. Passes(f, t, now) /\ \A i \in Id : Keeps(f, t, i)
    BY QuietPasses
  <1> QED BY <1>1 DEF Handles, Passes

LEMMA HandlesSame ==
    ASSUME NEW f, NEW now, NEW id \in Id
    PROVE  Handles(f, f, now, id)
  <1>1. Quiet(f, f)
    BY DEF Quiet
  <1> QED BY <1>1, HandlesQuiet

LEMMA ExpireThenHandle ==
    ASSUME NEW s, NEW f, NEW t, NEW now, NEW id \in Id,
           Passes(s, f, now), Evolves(f, t), Handles(f, t, now, id)
    PROVE  Answers(s, t, now, id)
  <1>1. Tells(s, t)
    BY PassesThen DEF Evolves, Handles
  <1>2. ASSUME NEW i \in Id, Keeps(f, t, i)
        PROVE  Keeps(s, t, i) \/ Lapses(s, t, now, i)
    <2>1. Keeps(s, f, i) \/ Lapses(s, f, now, i)
      BY DEF Passes
    <2> QED BY <1>2, <2>1 DEF Keeps, Lapses, Closes
  <1>3. CASE Keeps(f, t, id)
    BY <1>1, <1>2, <1>3 DEF Handles, Answers
  <1>4. CASE ~ Keeps(f, t, id)
    <2>1. f.promises[id].state \notin Settled
      BY <1>4 DEF Handles, Opens, Closes, Hears, HasPromise, Settled
    <2>2. Keeps(s, f, id)
      BY <2>1 DEF Passes, Lapses, Closes
    <2>3. CASE \E timeoutAt \in Nat, tags \in Tags :
                  Opens(f, t, now, id, tags, timeoutAt)
      <3>1. PICK timeoutAt \in Nat, tags \in Tags :
                  Opens(f, t, now, id, tags, timeoutAt)
        BY <2>3
      <3>2. Opens(s, t, now, id, tags, timeoutAt)
        BY <2>2, <3>1 DEF Keeps, Opens, HasPromise
      <3> QED BY <1>1, <1>2, <3>2 DEF Handles, Answers
    <2>4. CASE \E outcome \in SettleState : Closes(f, t, id, outcome, now)
      <3>1. PICK outcome \in SettleState : Closes(f, t, id, outcome, now)
        BY <2>4
      <3>2. Closes(s, t, id, outcome, now)
        BY <2>2, <3>1 DEF Keeps, Closes
      <3> QED BY <1>1, <1>2, <3>2 DEF Handles, Answers
    <2>5. CASE \E addr \in Addr : Hears(f, t, id, addr)
      <3>1. PICK addr \in Addr : Hears(f, t, id, addr)
        BY <2>5
      <3>2. Hears(s, t, id, addr)
        BY <2>2, <3>1 DEF Keeps, Hears
      <3> QED BY <1>1, <1>2, <3>2 DEF Handles, Answers
    <2> QED BY <1>4, <2>3, <2>4, <2>5 DEF Handles
  <1> QED BY <1>3, <1>4

LEMMA FreshPasses ==
    ASSUME Inv(srv), NEW now \in Nat, NEW id \in Id
    PROVE  Passes(Clear(srv), Fresh(now, id), now)
  BY ClearInv, AutoTimeoutEffect DEF Fresh

\* Each request about one promise answers for that promise.
LEMMA RequestAnswers ==
    ASSUME Inv(srv), NEW now \in Nat, NEW id \in Id,
           \/ GetPromise(now, id)
           \/ CreatePromise(now, id)
           \/ SettlePromise(now, id)
           \/ RegisterListener(now, id)
           \/ CreateTask(now, id)
           \/ AcquireTaskRequest(now, id)
           \/ ReleaseTask(now, id)
           \/ FulfillTask(now, id)
    PROVE  Answers(Clear(srv), srv', now, id)
  <1> DEFINE f == Fresh(now, id)
  <1>1. /\ Inv(f) /\ f \in State
        /\ f.promises[id].state = "pending" => now < f.promises[id].timeoutAt
        /\ Passes(Clear(srv), f, now)
    BY FreshInv, FreshPasses DEF Inv
  <1> HIDE DEF f
  <1> SUFFICES \E t : /\ srv' = t
                      /\ Evolves(f, t)
                      /\ Handles(f, t, now, id)
    BY <1>1, ExpireThenHandle
  <1>2. CASE GetPromise(now, id)
    BY <1>1, <1>2, EvolvesReflexive, HandlesSame DEF GetPromise, Become, f
  <1>3. CASE CreatePromise(now, id)
    <2>1. PICK timeoutAt \in Deadlines, tags \in TagChoices :
              srv' = PromiseCreate(f, now, id, timeoutAt, tags)
      BY <1>3 DEF CreatePromise, Become, f
    <2>2. timeoutAt \in Nat /\ tags \in Tags
      BY NetworkAssumption
    <2> DEFINE t == PromiseCreate(f, now, id, timeoutAt, tags)
    <2>3. Evolves(f, t)
      BY <1>1, <2>2, PromiseCreateInv
    <2>4. /\ \A i \in Id \ {id} : Keeps(f, t, i)
          /\ IF HasPromise(f, id) THEN t = f
             ELSE Opens(f, t, now, id, tags, timeoutAt)
          /\ Tells(f, t)
      BY <1>1, <2>2, CreateEffect
    <2> HIDE DEF t
    <2>5. Handles(f, t, now, id)
      BY <2>2, <2>4, HandlesSame DEF Handles
    <2> QED BY <2>1, <2>3, <2>5 DEF t
  <1>4. CASE SettlePromise(now, id)
    <2>1. PICK outcome \in Outcomes : srv' = PromiseSettle(f, now, id, outcome)
      BY <1>4 DEF SettlePromise, Become, f
    <2>2. outcome \in SettleState
      BY NetworkAssumption
    <2> DEFINE t == PromiseSettle(f, now, id, outcome)
    <2>3. Evolves(f, t)
      BY <1>1, <2>2, PromiseSettleInv
    <2>4. /\ \A i \in Id \ {id} : Keeps(f, t, i)
          /\ IF f.promises[id].state = "pending"
             THEN Closes(f, t, id, outcome, now) ELSE t = f
          /\ Tells(f, t)
      BY <1>1, <2>2, PromiseSettleEffect
    <2> HIDE DEF t
    <2>5. Handles(f, t, now, id)
      BY <2>2, <2>4, HandlesSame DEF Handles
    <2> QED BY <2>1, <2>3, <2>5 DEF t
  <1>5. CASE RegisterListener(now, id)
    <2>1. PICK addr \in Addr : srv' = PromiseRegisterListener(f, id, addr)
      BY <1>5 DEF RegisterListener, Become, f
    <2> DEFINE t == PromiseRegisterListener(f, id, addr)
    <2>2. Evolves(f, t)
      BY <1>1, RegisterListenerInv
    <2>3. /\ \A i \in Id \ {id} : Keeps(f, t, i)
          /\ IF f.promises[id].state = "pending"
             THEN Hears(f, t, id, addr) ELSE t = f
          /\ Tells(f, t)
      BY <1>1, RegisterEffect
    <2> HIDE DEF t
    <2>4. Handles(f, t, now, id)
      BY <2>3, HandlesSame DEF Handles
    <2> QED BY <2>1, <2>2, <2>4 DEF t
  <1>6. CASE CreateTask(now, id)
    <2>1. PICK timeoutAt \in Deadlines, tags \in TagChoices,
               pid \in Pid, ttl \in TTLs :
              srv' = TaskCreate(f, now, id, timeoutAt, tags, pid, ttl)
      BY <1>6 DEF CreateTask, Become, f
    <2>2. timeoutAt \in Nat /\ tags \in Tags /\ ttl \in Nat
      BY NetworkAssumption
    <2> DEFINE t == TaskCreate(f, now, id, timeoutAt, tags, pid, ttl)
    <2>3. Evolves(f, t)
      BY <1>1, <2>2, TaskCreateInv
    <2>4. /\ \A i \in Id \ {id} : Keeps(f, t, i)
          /\ Keeps(f, t, id) \/ Opens(f, t, now, id, tags, timeoutAt)
          /\ Tells(f, t)
      BY <1>1, <2>2, TaskCreateEffect
    <2> HIDE DEF t
    <2>5. Handles(f, t, now, id)
      BY <2>2, <2>4 DEF Handles
    <2> QED BY <2>1, <2>3, <2>5 DEF t
  <1>7. CASE AcquireTaskRequest(now, id)
    <2>1. PICK pid \in Pid, ttl \in TTLs :
              srv' = TaskAcquire(f, now, id, pid, ttl)
      BY <1>7 DEF AcquireTaskRequest, Become, f
    <2>2. ttl \in Nat
      BY NetworkAssumption
    <2> DEFINE t == TaskAcquire(f, now, id, pid, ttl)
    <2>3. Evolves(f, t) /\ Quiet(f, t)
      BY <1>1, <2>2, TaskAcquireInv, TaskAcquireQuiet
    <2> HIDE DEF t
    <2> QED BY <2>1, <2>3, HandlesQuiet DEF t
  <1>8. CASE ReleaseTask(now, id)
    <2> DEFINE t == TaskRelease(f, now, id)
    <2>1. Evolves(f, t) /\ Quiet(f, t)
      BY <1>1, TaskReleaseInv, TaskReleaseQuiet
    <2>2. srv' = t
      BY <1>8 DEF ReleaseTask, Become, f
    <2> HIDE DEF t
    <2> QED BY <2>1, <2>2, HandlesQuiet
  <1>9. CASE FulfillTask(now, id)
    <2>1. PICK outcome \in Outcomes : srv' = TaskFulfill(f, now, id, outcome)
      BY <1>9 DEF FulfillTask, Become, f
    <2>2. outcome \in SettleState
      BY NetworkAssumption
    <2> DEFINE t == TaskFulfill(f, now, id, outcome)
    <2>3. Evolves(f, t)
      BY <1>1, <2>2, TaskFulfillInv
    <2>4. /\ \A i \in Id \ {id} : Keeps(f, t, i)
          /\ IF f.tasks[id].state = "acquired"
             THEN Closes(f, t, id, outcome, now) ELSE t = f
          /\ Tells(f, t)
      BY <1>1, <2>2, TaskFulfillEffect
    <2> HIDE DEF t
    <2>5. Handles(f, t, now, id)
      BY <2>2, <2>4, HandlesSame DEF Handles
    <2> QED BY <2>1, <2>3, <2>5 DEF t
  <1> QED BY <1>2, <1>3, <1>4, <1>5, <1>6, <1>7, <1>8, <1>9

\* A fenced request answers for the child; the others for no promise.
LEMMA WideRequestAnswers ==
    ASSUME Inv(srv), NEW now \in Nat, NEW id \in Id,
           \/ FenceTask(now, id)
           \/ SuspendTask(now, id)
           \/ HeartbeatTask(now, id)
    PROVE  \E i \in Id : Answers(Clear(srv), srv', now, i)
  <1> DEFINE f == Fresh(now, id)
  <1>1. /\ Inv(f) /\ Evolves(srv, f) /\ OnlySettles(srv, f)
        /\ Passes(Clear(srv), f, now)
    BY FreshInv, FreshPasses
  <1> HIDE DEF f
  <1>2. CASE FenceTask(now, id)
    <2>1. PICK child \in Id \ {id}, version \in grants[id] :
              LET s == TryAutoTimeout(f, now, child)
              IN  \/ \E timeoutAt \in Deadlines, tags \in TagChoices :
                        srv' = TaskFenceCreate(s, now, id, version, child,
                                               timeoutAt, tags)
                  \/ \E outcome \in Outcomes :
                        srv' = TaskFenceSettle(s, now, id, version, child,
                                               outcome)
      BY <1>2 DEF FenceTask, Become, f
    <2> DEFINE g == TryAutoTimeout(f, now, child)
    <2>2. /\ Inv(g)
          /\ g.promises[child].state = "pending"
                => now < g.promises[child].timeoutAt
      BY <1>1, FreshPairInv
    <2>3. Passes(Clear(srv), g, now)
      <3>1. Passes(f, g, now)
        BY <1>1, AutoTimeoutEffect
      <3> HIDE DEF g
      <3> QED BY <1>1, <3>1, PassesTransitive
    <2>4. \/ \E timeoutAt \in Deadlines, tags \in TagChoices :
                srv' = TaskFenceCreate(g, now, id, version, child,
                                       timeoutAt, tags)
          \/ \E outcome \in Outcomes :
                srv' = TaskFenceSettle(g, now, id, version, child, outcome)
      BY <2>1
    <2> HIDE DEF g
    <2>5. CASE srv' = g
      BY <2>2, <2>3, <2>5, EvolvesReflexive, HandlesSame, ExpireThenHandle
    <2>6. CASE \E timeoutAt \in Deadlines, tags \in TagChoices :
                  srv' = PromiseCreate(g, now, child, timeoutAt, tags)
      <3>1. PICK timeoutAt \in Deadlines, tags \in TagChoices :
                  srv' = PromiseCreate(g, now, child, timeoutAt, tags)
        BY <2>6
      <3>2. timeoutAt \in Nat /\ tags \in Tags
        BY NetworkAssumption
      <3> DEFINE t == PromiseCreate(g, now, child, timeoutAt, tags)
      <3>3. Evolves(g, t)
        BY <2>2, <3>2, PromiseCreateInv
      <3>4. /\ \A i \in Id \ {child} : Keeps(g, t, i)
            /\ IF HasPromise(g, child) THEN t = g
               ELSE Opens(g, t, now, child, tags, timeoutAt)
            /\ Tells(g, t)
        BY <2>2, <3>2, CreateEffect
      <3> HIDE DEF t
      <3>5. Handles(g, t, now, child)
        BY <3>2, <3>4, HandlesSame DEF Handles
      <3>6. Answers(Clear(srv), t, now, child)
        BY <2>3, <3>3, <3>5, ExpireThenHandle
      <3> QED BY <3>1, <3>6 DEF t
    <2>7. CASE \E outcome \in Outcomes :
                  srv' = PromiseSettle(g, now, child, outcome)
      <3>1. PICK outcome \in Outcomes :
                  srv' = PromiseSettle(g, now, child, outcome)
        BY <2>7
      <3>2. outcome \in SettleState
        BY NetworkAssumption
      <3> DEFINE t == PromiseSettle(g, now, child, outcome)
      <3>3. Evolves(g, t)
        BY <2>2, <3>2, PromiseSettleInv
      <3>4. /\ \A i \in Id \ {child} : Keeps(g, t, i)
            /\ IF g.promises[child].state = "pending"
               THEN Closes(g, t, child, outcome, now) ELSE t = g
            /\ Tells(g, t)
        BY <2>2, <3>2, PromiseSettleEffect
      <3> HIDE DEF t
      <3>5. Handles(g, t, now, child)
        BY <3>2, <3>4, HandlesSame DEF Handles
      <3>6. Answers(Clear(srv), t, now, child)
        BY <2>3, <3>3, <3>5, ExpireThenHandle
      <3> QED BY <3>1, <3>6 DEF t
    <2> QED BY <2>4, <2>5, <2>6, <2>7 DEF TaskFenceCreate, TaskFenceSettle
  <1>3. CASE SuspendTask(now, id)
    <2>1. PICK a1 \in {i \in Id \ {id} : HasPromise(srv, i)},
               a2 \in {i \in Id \ {id} : HasPromise(srv, i)} :
              srv' = TaskSuspend(
                        TryAutoTimeout(TryAutoTimeout(f, now, a1), now, a2),
                        id, {a1, a2})
      BY <1>3 DEF SuspendTask, Become, f
    <2> DEFINE g == TryAutoTimeout(f, now, a1)
               h == TryAutoTimeout(g, now, a2)
               t == TaskSuspend(h, id, {a1, a2})
    <2>2. /\ Inv(g) /\ Evolves(srv, g) /\ OnlySettles(srv, g)
          /\ Passes(f, g, now)
      BY <1>1, FreshPairInv, AutoTimeoutEffect
    <2> HIDE DEF g
    <2>3. /\ Inv(h) /\ OnlySettles(srv, h)
          /\ Passes(g, h, now)
      BY <2>2, FreshPairInv, AutoTimeoutEffect
    <2> HIDE DEF h
    <2>4. Passes(Clear(srv), h, now)
      BY <1>1, <2>2, <2>3, PassesTransitive
    <2>5. HasPromise(h, a1) /\ HasPromise(h, a2)
      BY <2>3 DEF OnlySettles
    <2>6. Evolves(h, t)
      BY <2>3, <2>5, TaskSuspendInv
    <2>7. (\A i \in Id : Keeps(h, t, i)) /\ Tells(h, t)
      BY <2>3, SuspendEffect
    <2> HIDE DEF t
    <2>8. Handles(h, t, now, id)
      BY <2>7 DEF Handles
    <2>9. Answers(Clear(srv), t, now, id)
      BY <2>4, <2>6, <2>8, ExpireThenHandle
    <2> QED BY <2>1, <2>9 DEF t, h, g
  <1>4. CASE HeartbeatTask(now, id)
    <2>1. PICK pid \in Pid, version \in grants[id] :
              srv' = TaskHeartbeat(Clear(srv), now, pid, {<<id, version>>})
      BY <1>4 DEF HeartbeatTask, Become
    <2> DEFINE c == Clear(srv)
               t == TaskHeartbeat(c, now, pid, {<<id, version>>})
    <2>2. Inv(c) /\ c \in State
      BY ClearInv DEF Inv
    <2> HIDE DEF c
    <2>3. Evolves(c, t) /\ Quiet(c, t)
      BY <2>2, HeartbeatInv, HeartbeatQuiet
    <2> HIDE DEF t
    <2>4. Passes(c, c, now)
      <3>1. Quiet(c, c)
        BY DEF Quiet
      <3> QED BY <3>1, QuietPasses
    <2>5. Answers(c, t, now, id)
      BY <2>3, <2>4, HandlesQuiet, ExpireThenHandle
    <2> QED BY <2>1, <2>5 DEF t, c
  <1> QED BY <1>2, <1>3, <1>4

\* A turn of the loop is a request that asks for nothing.
LEMMA LoopAnswers ==
    ASSUME Inv(srv), NEW now \in Nat, NEW id \in Id, TickLoop(now)
    PROVE  Answers(Clear(srv), srv', now, id)
  <1>1. Passes(Clear(srv), Tick(Clear(srv), now), now)
    BY ClearInv, TickEffect
  <1>2. srv' = Tick(Clear(srv), now)
    BY DEF TickLoop, Become
  <1> QED BY <1>1, <1>2 DEF Passes, Answers

\* Such an answer is a step of the abstract specification.
LEMMA AnswerIsRequest ==
    ASSUME Inv(srv), Inv(srv'), clock \in Nat, NEW now \in Nat, now <= clock,
           NEW id \in Id, Answers(Clear(srv), srv', now, id), clock' = clock
    PROVE  Promises!Request
  <1> DEFINE c == Clear(srv)
  <1>1. c.promises = srv.promises /\ c.outgoing = {}
    BY ClearEffect
  <1>2. Answers(c, srv', now, id)
    OBVIOUS
  <1> HIDE DEF c
  <1>3. ASSUME NEW i \in Id
        PROVE  /\ srv.promises[i].timeoutAt \in Nat
               /\ srv'.promises[i].timeoutAt \in Nat
    BY Fields DEF Inv, Promise
  <1>4. ASSUME NEW i \in Id, Keeps(c, srv', i)
        PROVE  Promises!Same(Seen(i), Seen(i)')
    BY <1>1, <1>4 DEF Keeps, Seen, Promises!Same
  <1>5. ASSUME NEW i \in Id, Lapses(c, srv', now, i)
        PROVE  Promises!TimedOut(Seen(i), Seen(i)')
    <2>1. srv.promises[i].timeoutAt <= clock
      BY <1>1, <1>3, <1>5 DEF Lapses
    <2> QED BY <1>1, <1>5, <2>1 DEF Lapses, Closes, Seen, Promises!TimedOut,
               Promises!Settled, Promises!Overdue, TimeoutState
  <1>6. ASSUME NEW timeoutAt \in Nat, NEW tags \in Tags,
               Opens(c, srv', now, id, tags, timeoutAt)
        PROVE  Promises!Asked(Seen(id), Seen(id)')
    <2>1. srv.promises[id].state = "absent"
      BY <1>1, <1>6 DEF Opens, HasPromise
    <2>2. CASE now >= timeoutAt
      <3>1. timeoutAt <= clock
        BY <2>2
      <3>2. /\ srv'.promises[id].state = TimeoutState(srv'.promises[id])
            /\ srv'.promises[id].timeoutAt = timeoutAt
            /\ srv'.promises[id].subscribers = {}
        BY <1>6, <2>2 DEF Opens
      <3>3. Promises!CreatedLate(Seen(id), Seen(id)')
        BY <2>1, <3>1, <3>2 DEF Seen, Promises!CreatedLate,
           Promises!Settled, Promises!Overdue, TimeoutState
      <3> QED BY <3>3 DEF Promises!Asked
    <2>3. CASE ~ (now >= timeoutAt)
      BY <1>6, <2>1, <2>3 DEF Opens, Seen, Promises!Asked, Promises!Created
    <2> QED BY <2>2, <2>3
  <1>7. ASSUME NEW outcome \in SettleState, Closes(c, srv', id, outcome, now)
        PROVE  Promises!Asked(Seen(id), Seen(id)')
    <2>1. outcome \in Promises!Settlement
      BY DEF SettleState, Promises!Settlement
    <2>2. Promises!SettledByRequest(Seen(id), Seen(id)')
      BY <1>1, <1>7, <2>1 DEF Closes, Seen, Promises!SettledByRequest,
         Promises!Settled
    <2> QED BY <2>2 DEF Promises!Asked
  <1>8. ASSUME NEW addr \in Addr, Hears(c, srv', id, addr)
        PROVE  Promises!Asked(Seen(id), Seen(id)')
    <2>1. Seen(id)' = [Seen(id) EXCEPT !.listeners = @ \cup {addr}]
      BY <1>1, <1>8 DEF Hears, Seen
    <2>2. Seen(id).state = "pending"
      BY <1>1, <1>8 DEF Hears, Seen
    <2>3. Promises!ListenedTo(Seen(id), Seen(id)')
      BY <2>1, <2>2 DEF Promises!ListenedTo
    <2> QED BY <2>3 DEF Promises!Asked
  <1>9. /\ \A i \in Id \ {id} : \/ Promises!Same(Seen(i), Seen(i)')
                                \/ Promises!TimedOut(Seen(i), Seen(i)')
        /\ \/ Promises!Same(Seen(id), Seen(id)')
           \/ Promises!TimedOut(Seen(id), Seen(id)')
           \/ Promises!Asked(Seen(id), Seen(id)')
    BY <1>2, <1>4, <1>5, <1>6, <1>7, <1>8 DEF Answers
  <1>10. Told' = Promises!News
    <2> DEFINE shown(m) == [id |-> m.id, addr |-> m.addr, state |-> m.state]
               notice(n) == [kind |-> "unblock", id |-> n.id, addr |-> n.addr,
                             state |-> n.state]
    <2>1. Promises!Settlement \cup {"rejected_timedout"} = Settled
      BY DEF Promises!Settlement, Settled
    <2>2. \A m \in srv'.outgoing : m.kind = "unblock" => m \in Notice
      BY DEF Inv, State, Message, Notice
    <2>3. \A m \in Notice : m \in srv'.outgoing <=>
             /\ srv.promises[m.id].state = "pending"
             /\ srv'.promises[m.id].state = m.state
             /\ m.addr \in srv.promises[m.id].subscribers
      BY <1>1, <1>2 DEF Answers, Tells
    <2>4. ASSUME NEW n \in Told' PROVE n \in Promises!News
      <3>1. PICK m \in srv'.outgoing : m.kind = "unblock" /\ n = shown(m)
        BY <2>4 DEF Told
      <3>2. m \in Notice
        BY <2>2, <3>1
      <3>3. /\ m.id \in Id /\ m.addr \in Addr /\ m.state \in Settled
            /\ srv.promises[m.id].state = "pending"
            /\ srv'.promises[m.id].state = m.state
            /\ m.addr \in srv.promises[m.id].subscribers
        BY <2>3, <3>2 DEF Notice
      <3> QED BY <2>1, <3>1, <3>3 DEF Promises!News, Seen
    <2>5. ASSUME NEW n \in Promises!News PROVE n \in Told'
      <3>1. /\ n \in [id : Id, addr : Addr, state : Settled]
            /\ srv.promises[n.id].state = "pending"
            /\ srv'.promises[n.id].state = n.state
            /\ n.addr \in srv.promises[n.id].subscribers
        BY <2>1, <2>5 DEF Promises!News, Seen
      <3>2. /\ notice(n) \in Notice
            /\ notice(n).id = n.id /\ notice(n).addr = n.addr
            /\ notice(n).state = n.state /\ notice(n).kind = "unblock"
            /\ shown(notice(n)) = n
        BY <3>1 DEF Notice
      <3> HIDE DEF notice
      <3>3. notice(n) \in srv'.outgoing
        BY <2>3, <3>1, <3>2
      <3> QED BY <3>2, <3>3 DEF Told
    <2> QED BY <2>4, <2>5
  <1> QED BY <1>9, <1>10 DEF Promises!Request

LEMMA StepAnswers ==
    ASSUME IInv, Next, ~ Advance
    PROVE  Promises!Request \/ UNCHANGED <<[i \in Id |-> Seen(i)], clock, Told>>
  <1>1. clock \in Nat /\ clock' = clock
    BY NextStep, NetworkAssumption DEF IInv, Become
  <1>2. Inv(srv) /\ Inv(srv')
    BY NextStep DEF IInv
  <1>3. \A now \in Nows : now \in Nat /\ now <= clock
    BY NetworkAssumption DEF Nows
  <1>4. CASE \E now \in Nows, id \in Id :
                \/ GetPromise(now, id)
                \/ CreatePromise(now, id)
                \/ SettlePromise(now, id)
                \/ RegisterListener(now, id)
                \/ CreateTask(now, id)
                \/ AcquireTaskRequest(now, id)
                \/ ReleaseTask(now, id)
                \/ FulfillTask(now, id)
                \/ FenceTask(now, id)
                \/ SuspendTask(now, id)
                \/ HeartbeatTask(now, id)
    <2>1. PICK now \in Nows, i \in Id : Answers(Clear(srv), srv', now, i)
      BY <1>2, <1>3, <1>4, RequestAnswers, WideRequestAnswers
    <2> QED BY <1>1, <1>2, <1>3, <2>1, AnswerIsRequest
  <1>5. CASE \E now \in Nows : TickLoop(now)
    <2>1. PICK now \in Nows : TickLoop(now)
      BY <1>5
    <2>2. CASE Id # {}
      <3>1. PICK id \in Id : TRUE
        BY <2>2
      <3>2. Answers(Clear(srv), srv', now, id)
        BY <1>2, <1>3, <2>1, LoopAnswers
      <3> QED BY <1>1, <1>2, <1>3, <3>2, AnswerIsRequest
    <2>3. CASE Id = {}
      <3>1. Told = {} /\ Told' = {}
        BY <1>2, <2>3 DEF Told, Inv, State, Message
      <3>2. [i \in Id |-> Seen(i)]' = [i \in Id |-> Seen(i)]
        BY <2>3
      <3> QED BY <1>1, <3>1, <3>2
    <2> QED BY <2>2, <2>3
  <1> QED BY <1>4, <1>5 DEF Next

LEMMA InitMaps == Init => Promises!Init
  <1> SUFFICES ASSUME Init PROVE Promises!Init
    OBVIOUS
  <1>1. \A i \in Id : Seen(i).state = "absent"
    BY DEF Init, Empty, NewPromise, Seen
  <1>2. Told = {}
    BY DEF Init, Empty, Told
  <1> QED BY <1>1, <1>2 DEF Init, Promises!Init

\* Every step of the server is one of the abstract store, or shows nothing of
\* itself: requests of any age, in any order, with the loop turning between
\* them (apply and tick of network.rs).
THEOREM ImplementsPromises == Spec => StoresPromises
  <1>1. ASSUME IInv, [Next]_vars
        PROVE  [Promises!Next]_<<[i \in Id |-> Seen(i)], clock, Told>>
    <2>1. CASE Advance
      <3>1. clock \in Nat /\ clock' = clock + 1 /\ srv' = srv
        BY <1>1, <2>1, NetworkAssumption DEF Advance, IInv
      <3>2. clock' > clock
        BY <3>1
      <3>3. Told' = Told /\ [i \in Id |-> Seen(i)]' = [i \in Id |-> Seen(i)]
        BY <3>1 DEF Told, Seen
      <3> QED BY <3>2, <3>3 DEF Promises!Next, Promises!Advance
    <2>2. CASE Next /\ ~ Advance
      BY <1>1, <2>2, StepAnswers DEF Promises!Next
    <2>3. CASE UNCHANGED vars
      BY <2>3 DEF vars, Told, Seen
    <2> QED BY <1>1, <2>1, <2>2, <2>3
  <1> QED BY <1>1, InitMaps, Inductive, PTL
          DEF Spec, StoresPromises, Promises!Spec

-----------------------------------------------------------------------------
(* What workers are told *)

LEMMA FreshAnnounces ==
    ASSUME Inv(srv), NEW now \in Nat, NEW id \in Id
    PROVE  Announces(Clear(srv), Fresh(now, id))
  BY ClearInv, AutoTimeoutAnnounces DEF Fresh

LEMMA RequestAnnounces ==
    ASSUME Inv(srv), NEW now \in Nat, NEW id \in Id,
           \/ GetPromise(now, id)
           \/ CreatePromise(now, id)
           \/ SettlePromise(now, id)
           \/ RegisterListener(now, id)
           \/ CreateTask(now, id)
           \/ AcquireTaskRequest(now, id)
           \/ ReleaseTask(now, id)
           \/ FulfillTask(now, id)
    PROVE  Announces(Clear(srv), srv')
  <1> DEFINE f == Fresh(now, id)
  <1>1. Inv(f) /\ Announces(Clear(srv), f)
    BY FreshInv, FreshAnnounces
  <1> HIDE DEF f
  <1> SUFFICES Announces(f, srv')
    BY <1>1, AnnouncesTransitive
  <1>2. Outcomes \subseteq SettleState /\ Deadlines \subseteq Nat
        /\ TagChoices \subseteq Tags
    BY NetworkAssumption
  <1>3. CASE GetPromise(now, id)
    BY <1>1, <1>3, AnnouncesSame DEF GetPromise, Become, f
  <1>4. CASE CreatePromise(now, id)
    <2>1. PICK timeoutAt \in Deadlines, tags \in TagChoices :
              srv' = PromiseCreate(f, now, id, timeoutAt, tags)
      BY <1>4 DEF CreatePromise, Become, f
    <2> QED BY <1>1, <1>2, <2>1, PromiseCreateAnnounces
  <1>5. CASE SettlePromise(now, id)
    <2>1. PICK outcome \in Outcomes : srv' = PromiseSettle(f, now, id, outcome)
      BY <1>5 DEF SettlePromise, Become, f
    <2> QED BY <1>1, <1>2, <2>1, PromiseSettleAnnounces
  <1>6. CASE RegisterListener(now, id)
    <2>1. PICK addr \in Addr : srv' = PromiseRegisterListener(f, id, addr)
      BY <1>6 DEF RegisterListener, Become, f
    <2> QED BY <1>1, <2>1, RegisterAnnounces
  <1>7. CASE CreateTask(now, id)
    <2>1. PICK timeoutAt \in Deadlines, tags \in TagChoices,
               pid \in Pid, ttl \in TTLs :
              srv' = TaskCreate(f, now, id, timeoutAt, tags, pid, ttl)
      BY <1>7 DEF CreateTask, Become, f
    <2> QED BY <1>1, <2>1, TaskCreateAnnounces
  <1>8. CASE AcquireTaskRequest(now, id)
    <2>1. PICK pid \in Pid, ttl \in TTLs :
              srv' = TaskAcquire(f, now, id, pid, ttl)
      BY <1>8 DEF AcquireTaskRequest, Become, f
    <2> QED BY <1>1, <2>1, TaskAcquireAnnounces
  <1>9. CASE ReleaseTask(now, id)
    BY <1>1, <1>9, TaskReleaseAnnounces DEF ReleaseTask, Become, f
  <1>10. CASE FulfillTask(now, id)
    <2>1. PICK outcome \in Outcomes : srv' = TaskFulfill(f, now, id, outcome)
      BY <1>10 DEF FulfillTask, Become, f
    <2> QED BY <1>1, <1>2, <2>1, TaskFulfillAnnounces
  <1> QED BY <1>3, <1>4, <1>5, <1>6, <1>7, <1>8, <1>9, <1>10

LEMMA WideRequestAnnounces ==
    ASSUME Inv(srv), NEW now \in Nat, NEW id \in Id,
           \/ FenceTask(now, id)
           \/ SuspendTask(now, id)
           \/ HeartbeatTask(now, id)
    PROVE  Announces(Clear(srv), srv')
  <1> DEFINE f == Fresh(now, id)
  <1>1. /\ Inv(f) /\ Evolves(srv, f) /\ OnlySettles(srv, f)
        /\ Announces(Clear(srv), f)
    BY FreshInv, FreshAnnounces
  <1> HIDE DEF f
  <1>2. CASE FenceTask(now, id)
    <2>1. PICK child \in Id, version \in grants[id] :
              LET s == TryAutoTimeout(f, now, child)
              IN  \/ \E timeoutAt \in Deadlines, tags \in TagChoices :
                        srv' = TaskFenceCreate(s, now, id, version, child,
                                               timeoutAt, tags)
                  \/ \E outcome \in Outcomes :
                        srv' = TaskFenceSettle(s, now, id, version, child,
                                               outcome)
      BY <1>2 DEF FenceTask, Become, f
    <2> DEFINE g == TryAutoTimeout(f, now, child)
    <2>2. Inv(g) /\ Announces(Clear(srv), g)
      BY <1>1, FreshPairInv, AutoTimeoutAnnounces, AnnouncesTransitive
    <2>3. \/ \E timeoutAt \in Deadlines, tags \in TagChoices :
                srv' = TaskFenceCreate(g, now, id, version, child,
                                       timeoutAt, tags)
          \/ \E outcome \in Outcomes :
                srv' = TaskFenceSettle(g, now, id, version, child, outcome)
      BY <2>1
    <2> HIDE DEF g
    <2>4. \/ srv' = g
          \/ \E timeoutAt \in Nat, tags \in Tags :
                srv' = PromiseCreate(g, now, child, timeoutAt, tags)
          \/ \E outcome \in SettleState :
                srv' = PromiseSettle(g, now, child, outcome)
      BY <2>3, NetworkAssumption DEF TaskFenceCreate, TaskFenceSettle
    <2>5. Announces(g, srv')
      BY <2>2, <2>4, AnnouncesSame, PromiseCreateAnnounces,
         PromiseSettleAnnounces
    <2> QED BY <2>2, <2>5, AnnouncesTransitive
  <1>3. CASE SuspendTask(now, id)
    <2>1. PICK a1 \in Id, a2 \in Id :
              srv' = TaskSuspend(
                        TryAutoTimeout(TryAutoTimeout(f, now, a1), now, a2),
                        id, {a1, a2})
      BY <1>3 DEF SuspendTask, Become, f
    <2> DEFINE g == TryAutoTimeout(f, now, a1)
               h == TryAutoTimeout(g, now, a2)
    <2>2. /\ Inv(g) /\ Evolves(srv, g) /\ OnlySettles(srv, g)
          /\ Announces(f, g)
      BY <1>1, FreshPairInv, AutoTimeoutAnnounces
    <2> HIDE DEF g
    <2>3. Inv(h) /\ Announces(g, h)
      BY <2>2, FreshPairInv, AutoTimeoutAnnounces
    <2> HIDE DEF h
    <2>4. Announces(h, TaskSuspend(h, id, {a1, a2}))
      BY <2>3, SuspendAnnounces
    <2> QED BY <1>1, <2>1, <2>2, <2>3, <2>4, AnnouncesTransitive DEF g, h
  <1>4. CASE HeartbeatTask(now, id)
    <2>1. PICK pid \in Pid, version \in grants[id] :
              srv' = TaskHeartbeat(Clear(srv), now, pid, {<<id, version>>})
      BY <1>4 DEF HeartbeatTask, Become
    <2> QED BY <2>1, ClearInv, HeartbeatAnnounces
  <1> QED BY <1>2, <1>3, <1>4

LEMMA StepAnnounces ==
    ASSUME IInv, Next
    PROVE  \/ Announces(Clear(srv), srv')
           \/ srv' = srv
  <1>1. Inv(srv) /\ \A now \in Nows : now \in Nat
    BY NetworkAssumption DEF IInv, Nows
  <1>2. CASE \E now \in Nows, id \in Id :
                \/ GetPromise(now, id)
                \/ CreatePromise(now, id)
                \/ SettlePromise(now, id)
                \/ RegisterListener(now, id)
                \/ CreateTask(now, id)
                \/ AcquireTaskRequest(now, id)
                \/ ReleaseTask(now, id)
                \/ FulfillTask(now, id)
                \/ FenceTask(now, id)
                \/ SuspendTask(now, id)
                \/ HeartbeatTask(now, id)
    BY <1>1, <1>2, RequestAnnounces, WideRequestAnnounces
  <1>3. CASE \E now \in Nows : TickLoop(now)
    BY <1>1, <1>3, ClearInv, TickAnnounces DEF TickLoop, Become
  <1>4. CASE Advance
    BY <1>4 DEF Advance
  <1> QED BY <1>2, <1>3, <1>4 DEF Next

\* Whoever gives a task up or wakes it, the step announces the task under its
\* new version (release_task, resume_awaiters and the leases of tick).
THEOREM TasksAreAnnounced == Spec => ReadyAnnounced
  <1>1. ASSUME IInv, [Next]_vars, NEW i \in Id,
               srv.tasks[i].state \in {"acquired", "suspended"},
               srv'.tasks[i].state = "pending", srv.promises[i].target
        PROVE  [kind |-> "execute", id |-> i, version |-> srv'.tasks[i].version]
                   \in srv'.outgoing
    <2> DEFINE c == Clear(srv)
    <2>1. c.tasks = srv.tasks /\ c.promises = srv.promises
      BY <1>1 DEF Clear, IInv, Inv, State
    <2>2. srv' # srv
      BY <1>1
    <2>3. Announces(c, srv')
      BY <1>1, <2>2, StepAnnounces DEF vars
    <2> HIDE DEF c
    <2>4. HasTask(c, i) /\ ~ Silent(c, i)
      BY <1>1, <2>1 DEF HasTask, Silent
    <2>5. ~ Silent(srv', i) /\ srv'.promises[i].target
      BY <1>1, <2>1, <2>3, <2>4 DEF Announces
    <2> QED BY <1>1, <2>5 DEF Silent, Execute
  <1>2. ASSUME IInv, [Next]_vars
        PROVE  [\A i \in Id :
                  /\ srv.tasks[i].state \in {"acquired", "suspended"}
                  /\ srv'.tasks[i].state = "pending"
                  /\ srv.promises[i].target
                  => [kind |-> "execute", id |-> i,
                      version |-> srv'.tasks[i].version] \in srv'.outgoing]_vars
    BY <1>1, <1>2
  <1> QED BY <1>2, Inductive, PTL DEF Spec, ReadyAnnounced

\* A turn of the loop, which collects what is due before it settles, releases
\* and retries, announces only tasks that are ready in the end (the order of
\* the phases of tick in network.rs).
THEOREM FulfilledNeverWoken == Spec => NoWakeOfFulfilled
  <1>1. ASSUME IInv, NEW now \in Nows, TickLoop(now), NEW m \in srv'.outgoing,
               m.kind = "execute"
        PROVE  /\ srv'.tasks[m.id].state = "pending"
               /\ srv'.tasks[m.id].version = m.version
    <2>1. Inv(srv) /\ now \in Nat
      BY <1>1, NetworkAssumption DEF IInv, Nows
    <2>2. Inv(srv')
      BY <1>1, <2>1, LoopStep
    <2>3. Current(srv')
      BY <1>1, <2>1, ClearInv, ClearEffect, TickAnnounces DEF TickLoop, Become
    <2>4. m \in Message
      BY <1>1, <2>2 DEF Inv, State
    <2>5. m.id \in Id /\ m.version \in Nat /\ m = Execute(m.id, m.version)
      BY <1>1, <2>4 DEF Message, Execute
    <2> QED BY <1>1, <2>3, <2>5 DEF Current
  <1>2. ASSUME IInv, [Next]_vars
        PROVE  [(\E now \in Nows : TickLoop(now)) =>
                  \A m \in srv'.outgoing : m.kind = "execute" =>
                      /\ srv'.tasks[m.id].state = "pending"
                      /\ srv'.tasks[m.id].version = m.version]_vars
    BY <1>1, <1>2
  <1> QED BY <1>2, Inductive, PTL DEF Spec, NoWakeOfFulfilled

-----------------------------------------------------------------------------
(* What a sender's result says of the server                               *)

\* No promise of ids is overdue.
NoneDue(s, now, ids) == \A n \in DOMAIN ids :
    s.promises[ids[n]].state = "pending" => now < s.promises[ids[n]].timeoutAt

\* What is not overdue does not become it when others expire.
LEMMA DueStays ==
    ASSUME NEW s, Inv(s), NEW t, Inv(t), OnlySettles(s, t), NEW i \in Id, NEW now,
           s.promises[i].state = "pending" => now < s.promises[i].timeoutAt
    PROVE  t.promises[i].state = "pending" => now < t.promises[i].timeoutAt
  BY DEF OnlySettles

LEMMA LeastNumber ==
    ASSUME NEW T, T \subseteq Nat, T # {}
    PROVE  \E x \in T : \A y \in T : x <= y
  <1>1. PICK x \in T : \A y \in T : ~ (<<y, x>> \in OpToRel(<, Nat))
    BY WFMin, NatLessThanWellFounded, Zenon
  <1>2. \A y \in T : ~ (y < x)
    BY <1>1 DEF OpToRel
  <1> QED BY <1>2

\* The states between the expirations.
Turns(s, now, ids, m) == CHOOSE g : g = [n \in 0 .. m |->
    IF n = 0 THEN s ELSE TryAutoTimeout(g[n - 1], now, ids[n])]

\* There is such a function, whatever the number of promises.
LEMMA TurnsFollow ==
    ASSUME NEW s, NEW now, NEW ids \in Seq(Id), NEW m \in Nat
    PROVE  LET f == Turns(s, now, ids, m)
           IN  /\ f[0] = s
               /\ \A n \in 1 .. m : f[n] = TryAutoTimeout(f[n - 1], now, ids[n])
  <1> DEFINE Chains(g, k) == g = [n \in 0 .. k |->
                        IF n = 0 THEN s ELSE TryAutoTimeout(g[n - 1], now, ids[n])]
             Missed == {k \in Nat : ~ \E g : Chains(g, k)}
  <1>1. Missed = {}
    <2>1. ASSUME Missed # {}
          PROVE  FALSE
      <3>1. PICK k \in Missed : \A y \in Missed : k <= y
        <4>1. Missed \subseteq Nat
          OBVIOUS
        <4> HIDE DEF Missed
        <4> QED BY <2>1, <4>1, LeastNumber
      <3>2. k \in Nat /\ \A y \in Missed : ~ (y < k)
        BY <3>1
      <3>3. CASE k = 0
        <4>1. Chains([n \in 0 .. 0 |-> s], 0)
          OBVIOUS
        <4> QED BY <3>2, <3>3, <4>1
      <3>4. CASE k # 0
        <4>1. k - 1 \in Nat /\ k - 1 \notin Missed
          BY <3>2, <3>4
        <4>2. PICK g : Chains(g, k - 1)
          BY <4>1
        <4> DEFINE last == TryAutoTimeout(g[k - 1], now, ids[k])
                   h == [n \in 0 .. k |-> IF n = k THEN last ELSE g[n]]
        <4>3. \A n \in 0 .. k - 1 : g[n] =
                  IF n = 0 THEN s ELSE TryAutoTimeout(g[n - 1], now, ids[n])
          BY <4>2
        <4>4. \A n \in 0 .. k : h[n] =
                  IF n = 0 THEN s ELSE TryAutoTimeout(h[n - 1], now, ids[n])
          <5> SUFFICES ASSUME NEW n \in 0 .. k
              PROVE  h[n] = IF n = 0 THEN s ELSE TryAutoTimeout(h[n - 1], now, ids[n])
            OBVIOUS
          <5>1. CASE n = k
            <6>1. h[n] = last /\ h[n - 1] = g[k - 1]
              BY <3>2, <3>4, <5>1
            <6> QED BY <3>4, <5>1, <6>1
          <5>2. CASE n = 0
            <6>1. h[n] = g[0] /\ g[0] = s
              BY <3>2, <3>4, <4>3, <5>2
            <6> QED BY <5>2, <6>1
          <5>3. CASE n # k /\ n # 0
            <6>1. h[n] = g[n] /\ h[n - 1] = g[n - 1] /\ n \in 0 .. k - 1
              BY <3>2, <5>3
            <6> HIDE DEF h
            <6> QED BY <4>3, <5>3, <6>1
          <5> QED BY <5>1, <5>2, <5>3
        <4>5. h = [n \in 0 .. k |-> h[n]]
          OBVIOUS
        <4> HIDE DEF h
        <4>6. Chains(h, k)
          BY <4>4, <4>5
        <4> QED BY <3>1, <4>6
      <3> QED BY <3>3, <3>4
    <2> QED BY <2>1
  <1>2. \E g : Chains(g, m)
    BY <1>1
  <1> DEFINE f == Turns(s, now, ids, m)
  <1>3. Chains(f, m)
    BY <1>2 DEF Turns
  <1> HIDE DEF f
  <1>4. \A n \in 0 .. m : f[n] =
            IF n = 0 THEN s ELSE TryAutoTimeout(f[n - 1], now, ids[n])
    BY <1>3
  <1>5. f[0] = s /\ \A n \in 1 .. m : f[n] = TryAutoTimeout(f[n - 1], now, ids[n])
    BY <1>4
  <1> QED BY <1>5 DEF f

\* The prelude leaves none of the promises it is given overdue.
LEMMA InTurn ==
    ASSUME NEW s, Inv(s), NEW now \in Nat, NEW ids \in Seq(Id)
    PROVE  LET t == ExpireInTurn(s, now, ids)
           IN  Inv(t) /\ NoneDue(t, now, ids)
  <1> DEFINE m == Len(ids)
             f == Turns(s, now, ids, m)
             Good(n) == Inv(f[n]) /\ \A k \in 1 .. n :
                f[n].promises[ids[k]].state = "pending" => now < f[n].promises[ids[k]].timeoutAt
             Bad == {n \in 0 .. m : ~ Good(n)}
  <1>1. ExpireInTurn(s, now, ids) = f[m]
    BY DEF ExpireInTurn, Turns
  <1>2. m \in Nat /\ DOMAIN ids = 1 .. m /\ \A n \in 1 .. m : ids[n] \in Id
    OBVIOUS
  <1> HIDE DEF m
  <1>3. /\ f[0] = s
        /\ \A n \in 1 .. m : f[n] = TryAutoTimeout(f[n - 1], now, ids[n])
    BY <1>2, TurnsFollow
  <1> HIDE DEF f
  <1>4. Good(0)
    BY <1>3
  <1>5. ASSUME NEW n \in 1 .. m, Good(n - 1)
        PROVE  Good(n)
    <2>1. ids[n] \in Id
      BY <1>2
    <2>2. /\ Inv(f[n]) /\ OnlySettles(f[n - 1], f[n])
          /\ f[n].promises[ids[n]].state = "pending" => now < f[n].promises[ids[n]].timeoutAt
      BY <1>3, <1>5, <2>1, AutoTimeoutInv
    <2>3. ASSUME NEW k \in 1 .. n
          PROVE  f[n].promises[ids[k]].state = "pending"
                    => now < f[n].promises[ids[k]].timeoutAt
      <3>1. CASE k = n
        BY <2>2, <3>1
      <3>2. CASE k # n
        <4>1. k \in 1 .. n - 1 /\ ids[k] \in Id
          BY <1>2, <3>2
        <4>2. f[n - 1].promises[ids[k]].state = "pending"
                    => now < f[n - 1].promises[ids[k]].timeoutAt
          BY <1>5, <4>1
        <4> QED BY <1>5, <2>2, <4>1, <4>2, DueStays
      <3> QED BY <3>1, <3>2
    <2> QED BY <2>2, <2>3
  <1>6. Bad = {}
    <2>1. ASSUME Bad # {}
          PROVE  FALSE
      <3>1. PICK n \in Bad : \A y \in Bad : n <= y
        <4>1. Bad \subseteq Nat
          BY <1>2
        <4> HIDE DEF Bad
        <4> QED BY <2>1, <4>1, LeastNumber
      <3>2. n \in 0 .. m /\ ~ Good(n)
        BY <3>1
      <3>3. n # 0
        BY <1>4, <3>2
      <3>4. n \in 1 .. m /\ n - 1 \in 0 .. m /\ n - 1 < n
        BY <1>2, <3>2, <3>3
      <3>5. n - 1 \notin Bad
        BY <3>1, <3>4
      <3>6. Good(n - 1)
        BY <3>4, <3>5
      <3> QED BY <1>5, <3>2, <3>4, <3>6
    <2> QED BY <2>1
  <1>7. Good(m)
    BY <1>2, <1>6
  <1> QED BY <1>1, <1>2, <1>7 DEF NoneDue

\* What the sender of request r is told, when the handler meets state b.
Heard(b, now, r) == Receive(r, "this",
    Response(r.kind, "this", AnswerTo(b, Handled(b, now, r), r)))

\* It is so.
Truthful(b, now, r) ==
    IF Heard(b, now, r).ok THEN Promised(Heard(b, now, r), r, Handled(b, now, r))
    ELSE Handled(b, now, r) = b

\* The answer to this very request reaches the caller as the method reads it.
LEMMA HeardResult ==
    ASSUME NEW b, NEW now, NEW r
    PROVE  Heard(b, now, r) = Result(r, AnswerTo(b, Handled(b, now, r), r))
  BY DEF Heard, Receive, Response

LEMMA StraysFail ==
    ASSUME NEW r, r.kind # "unknown", NEW answer, NEW x \in Strays(r, answer)
    PROVE  ~ Receive(r, "this", x).ok
  BY DEF Receive, Response, NotJson, Strays, Fail, Undecodable

\* A record is the record of the promise it names.
LEMMA RecordTrue ==
    ASSUME NEW s, NEW i, HasPromise(s, i)
    PROVE  /\ PromiseRecord(s, i) # {}
           /\ \A p \in PromiseRecord(s, i) :
                 /\ p.id = i /\ p.state = s.promises[i].state
                 /\ p = CHOOSE q \in PromiseRecord(s, p.id) : TRUE
  <1> DEFINE record == [id |-> i, state |-> s.promises[i].state,
                        timeoutAt |-> s.promises[i].timeoutAt,
                        settledAt |-> s.promises[i].settledAt]
  <1>1. PromiseRecord(s, i) = {record}
    BY DEF PromiseRecord
  <1>2. record.id = i /\ record.state = s.promises[i].state
    OBVIOUS
  <1> HIDE DEF record
  <1>3. record = CHOOSE q \in PromiseRecord(s, i) : TRUE
    <2>1. (CHOOSE q \in {record} : TRUE) \in {record}
      OBVIOUS
    <2> QED BY <1>1, <2>1
  <1>4. ASSUME NEW p \in PromiseRecord(s, i)
        PROVE  p = record
    BY <1>1, <1>4
  <1> QED BY <1>1, <1>2, <1>3, <1>4

\* An error is true if the handler did nothing.
LEMMA RefusalTrue ==
    ASSUME NEW b, NEW now, NEW r, Handled(b, now, r) = b,
           NEW code \in Nat, code >= 400, r.kind = "task.create" => code # 409,
           AnswerTo(b, b, r) = Refuse(code)
    PROVE  Truthful(b, now, r)
  <1> DEFINE e == SendEnvelope(Refuse(code), PassConflict(r))
  <1>1. Heard(b, now, r) = Result(r, Refuse(code))
    BY HeardResult
  <1>2. e = Fail(code)
    BY DEF SendEnvelope, PassConflict, Refuse, Answer
  <1>3. ~ Result(r, Refuse(code)).ok
    BY <1>2 DEF Result, Fail, ParsePromise, ParseTaskCreate, ParseTaskAcquire, ParseSuspend
  <1> QED BY <1>1, <1>3 DEF Truthful

\* The methods that return a promise.
PromiseKinds == {"promise.get", "promise.create", "promise.settle",
                 "promise.register_listener", "task.fulfill", "task.fence"}

\* An answer with the record of promise i is true if the handler did what the
\* method promises.
LEMMA RecordAnswerTrue ==
    ASSUME NEW b, NEW now, NEW r, NEW s, Handled(b, now, r) = s,
           r.kind \in PromiseKinds, NEW i, HasPromise(s, i),
           NEW code \in {200, 201},
           AnswerTo(b, s, r) = Answer(code, PromiseRecord(s, i), {}),
           r.kind \in {"promise.settle", "task.fulfill"} =>
                s.promises[i].state \in Settled,
           r.kind = "promise.register_listener" =>
                s.promises[i].state \in Settled \/ r.address \in s.promises[i].subscribers,
           r.kind = "task.fulfill" => s.tasks[r.id].state = "fulfilled",
           r.kind = "task.fence" => HoldsLease(s, r.id, r.version)
    PROVE  Truthful(b, now, r)
  <1> DEFINE e == Heard(b, now, r)
  <1>1. PromiseRecord(s, i) # {}
    BY RecordTrue
  <1>2. e = Result(r, Answer(code, PromiseRecord(s, i), {}))
    BY HeardResult
  <1>3. e = ParsePromise(SendEnvelope(Answer(code, PromiseRecord(s, i), {}), PassConflict(r)))
    BY <1>2 DEF Result, PromiseKinds
  <1>4. e.ok /\ e.promise = PromiseRecord(s, i) /\ e.task = {}
    BY <1>1, <1>3 DEF Answer, SendEnvelope, Success, ParsePromise
  <1> HIDE DEF e
  <1>5. \A p \in e.promise :
          /\ p.id = i /\ p.state = s.promises[i].state
          /\ p = CHOOSE q \in PromiseRecord(s, p.id) : TRUE
    BY <1>4, RecordTrue
  <1>6. Promised(e, r, s)
    BY <1>4, <1>5 DEF Promised, PromiseKinds
  <1> QED BY <1>4, <1>6 DEF Truthful, e

\* The record, if there is one.
LEMMA GetTrue ==
    ASSUME NEW b, Inv(b), NEW now, NEW i \in Id
    PROVE  Truthful(b, now, PromiseGetReq(i))
  <1> DEFINE r == PromiseGetReq(i)
  <1>1. r.kind = "promise.get" /\ r.id = i
    BY DEF PromiseGetReq
  <1> HIDE DEF r
  <1>2. Handled(b, now, r) = b
    BY <1>1 DEF Handled
  <1>3. AnswerTo(b, b, r) = PromiseAnswer(b, i, 200)
    BY <1>1 DEF AnswerTo
  <1>4. Truthful(b, now, r)
    <2>1. CASE HasPromise(b, i)
      <3>1. AnswerTo(b, b, r) = Answer(200, PromiseRecord(b, i), {})
        BY <1>3, <2>1 DEF PromiseAnswer
      <3> QED BY <1>1, <1>2, <2>1, <3>1, RecordAnswerTrue DEF PromiseKinds
    <2>2. CASE ~ HasPromise(b, i)
      <3>1. AnswerTo(b, b, r) = Refuse(404)
        BY <1>3, <2>2 DEF PromiseAnswer
      <3> QED BY <1>1, <1>2, <3>1, RefusalTrue
    <2> QED BY <2>1, <2>2
  <1> QED BY <1>4 DEF r

\* The record of what is there, new or not.
LEMMA CreateTrue ==
    ASSUME NEW b, Inv(b), NEW now \in Nat, NEW i \in Id, NEW d \in Nat, NEW tags \in Tags
    PROVE  Truthful(b, now, PromiseCreateReq(i, d, tags))
  <1> DEFINE r == PromiseCreateReq(i, d, tags)
             s == PromiseCreate(b, now, i, d, tags)
             code == IF ~ HasPromise(b, i) /\ s.promises[i].state = "pending"
                     THEN 201 ELSE 200
  <1>1. /\ r.kind = "promise.create" /\ r.id = i
        /\ r.timeoutAt = d /\ r.tags = tags
    BY DEF PromiseCreateReq
  <1> HIDE DEF r
  <1>2. Handled(b, now, r) = s
    BY <1>1 DEF Handled
  <1>3. HasPromise(s, i)
    BY CreateEffect DEF Opens, HasPromise, TimeoutState
  <1>4. AnswerTo(b, s, r) = Answer(code, PromiseRecord(s, i), {})
    BY <1>1 DEF AnswerTo, CreateAnswer
  <1> HIDE DEF s
  <1>5. Truthful(b, now, r)
    BY <1>1, <1>2, <1>3, <1>4, RecordAnswerTrue DEF PromiseKinds
  <1> QED BY <1>5 DEF r

\* A settled promise, by this request or before.
LEMMA SettleTrue ==
    ASSUME NEW b, Inv(b), NEW now \in Nat, NEW i \in Id, NEW outcome \in SettleState
    PROVE  Truthful(b, now, PromiseSettleReq(i, outcome))
  <1> DEFINE r == PromiseSettleReq(i, outcome)
             s == PromiseSettle(b, now, i, outcome)
  <1>1. r.kind = "promise.settle" /\ r.id = i /\ r.state = outcome
    BY DEF PromiseSettleReq
  <1> HIDE DEF r
  <1>2. Handled(b, now, r) = s
    BY <1>1 DEF Handled
  <1>3. AnswerTo(b, s, r) = PromiseAnswer(s, i, 200)
    BY <1>1 DEF AnswerTo
  <1>4. b.promises[i].state \in PromiseState
    BY Fields DEF Inv, Promise
  <1>5. IF b.promises[i].state = "pending" THEN Closes(b, s, i, outcome, now) ELSE s = b
    BY PromiseSettleEffect
  <1> HIDE DEF s
  <1>6. CASE b.promises[i].state = "absent"
    <2>1. s = b /\ AnswerTo(b, b, r) = Refuse(404)
      BY <1>3, <1>5, <1>6 DEF PromiseAnswer, HasPromise
    <2>2. Truthful(b, now, r)
      BY <1>1, <1>2, <2>1, RefusalTrue
    <2> QED BY <2>2 DEF r
  <1>7. CASE b.promises[i].state # "absent"
    <2>1. s.promises[i].state \in Settled
      BY <1>4, <1>5, <1>7 DEF Closes, PromiseState
    <2>2. HasPromise(s, i)
      BY <2>1 DEF HasPromise, Settled
    <2>3. AnswerTo(b, s, r) = Answer(200, PromiseRecord(s, i), {})
      BY <1>3, <2>2 DEF PromiseAnswer
    <2>4. Truthful(b, now, r)
      BY <1>1, <1>2, <2>1, <2>2, <2>3, RecordAnswerTrue DEF PromiseKinds
    <2> QED BY <2>4 DEF r
  <1> QED BY <1>6, <1>7

\* A listener is registered, or the promise is settled.
LEMMA ListenTrue ==
    ASSUME NEW b, Inv(b), NEW now \in Nat, NEW i \in Id, NEW addr \in Addr
    PROVE  Truthful(b, now, ListenerReq(i, addr))
  <1> DEFINE r == ListenerReq(i, addr)
             s == PromiseRegisterListener(b, i, addr)
  <1>1. r.kind = "promise.register_listener" /\ r.awaited = i /\ r.address = addr
    BY DEF ListenerReq
  <1> HIDE DEF r
  <1>2. Handled(b, now, r) = s
    BY <1>1 DEF Handled
  <1>3. AnswerTo(b, s, r) = PromiseAnswer(s, i, 200)
    BY <1>1 DEF AnswerTo
  <1>4. b.promises[i].state \in PromiseState
    BY Fields DEF Inv, Promise
  <1>5. IF b.promises[i].state = "pending" THEN Hears(b, s, i, addr) ELSE s = b
    BY RegisterEffect
  <1> HIDE DEF s
  <1>6. CASE b.promises[i].state = "absent"
    <2>1. s = b /\ AnswerTo(b, b, r) = Refuse(404)
      BY <1>3, <1>5, <1>6 DEF PromiseAnswer, HasPromise
    <2>2. Truthful(b, now, r)
      BY <1>1, <1>2, <2>1, RefusalTrue
    <2> QED BY <2>2 DEF r
  <1>7. CASE b.promises[i].state # "absent"
    <2>1. s.promises[i].state \in Settled \/ addr \in s.promises[i].subscribers
      BY <1>4, <1>5, <1>7 DEF Hears, PromiseState
    <2>2. HasPromise(s, i)
      BY <1>5, <1>7 DEF HasPromise, Hears
    <2>3. AnswerTo(b, s, r) = Answer(200, PromiseRecord(s, i), {})
      BY <1>3, <2>2 DEF PromiseAnswer
    <2>4. Truthful(b, now, r)
      BY <1>1, <1>2, <2>1, <2>2, <2>3, RecordAnswerTrue DEF PromiseKinds
    <2> QED BY <2>4 DEF r
  <1> QED BY <1>6, <1>7

-----------------------------------------------------------------------------

\* The answers to requests about a task one may hold.
LEMMA TaskAnswers ==
    ASSUME NEW b, NEW now, NEW r, NEW i, NEW states, NEW ok,
           AnswerTo(b, Handled(b, now, r), r) = TaskAnswer(b, i, states, ok),
           b.tasks[i].state \notin states => Handled(b, now, r) = b,
           "absent" \notin states, r.kind # "task.create"
    PROVE  \/ Truthful(b, now, r)
           \/ /\ b.tasks[i].state \in states
              /\ AnswerTo(b, Handled(b, now, r), r) = ok
  <1>1. CASE b.tasks[i].state \in states
    BY <1>1 DEF TaskAnswer, HasTask
  <1>2. CASE b.tasks[i].state \notin states
    <2>1. Handled(b, now, r) = b
      BY <1>2
    <2>2. AnswerTo(b, b, r) = Refuse(404) \/ AnswerTo(b, b, r) = Refuse(409)
      BY <1>2, <2>1 DEF TaskAnswer
    <2> QED BY <2>1, <2>2, RefusalTrue
  <1> QED BY <1>1, <1>2

\* An answer without records is true if the task is as the method says.
LEMMA DoneTrue ==
    ASSUME NEW b, NEW now, NEW r, NEW s, Handled(b, now, r) = s,
           NEW code \in {200, 300}, AnswerTo(b, s, r) = Refuse(code),
           r.kind \in {"task.release", "task.suspend"},
           r.kind = "task.release" => s.tasks[r.id].state = "pending",
           r.kind = "task.suspend" =>
              IF code = 300 THEN s.tasks[r.id].state = "acquired"
              ELSE /\ s.tasks[r.id].state = "suspended"
                   /\ HasPromise(s, r.awaited[1]) =>
                          r.id \in s.promises[r.awaited[1]].awaiters
    PROVE  Truthful(b, now, r)
  <1> DEFINE e == Heard(b, now, r)
  <1>1. e = Result(r, Refuse(code))
    BY HeardResult
  <1>2. SendEnvelope(Refuse(code), PassConflict(r)) = Success("done", Refuse(code))
    BY DEF SendEnvelope, Refuse, Answer
  <1>3. /\ e.ok /\ e.promise = {} /\ e.task = {}
        /\ r.kind = "task.suspend" => e.as = IF code = 300 THEN "redirect" ELSE "suspended"
    <2>1. CASE r.kind = "task.release"
      BY <1>1, <1>2, <2>1 DEF Result, Success, Refuse, Answer
    <2>2. CASE r.kind = "task.suspend"
      <3>1. e = ParseSuspend(Success("done", Refuse(code)))
        BY <1>1, <1>2, <2>2 DEF Result
      <3> QED BY <3>1, <2>2 DEF ParseSuspend, Success, Refuse, Answer
    <2> QED BY <2>1, <2>2
  <1> HIDE DEF e
  <1>4. Promised(e, r, s)
    BY <1>3 DEF Promised
  <1> QED BY <1>3, <1>4 DEF Truthful, e

LEMMA ReleaseTrue ==
    ASSUME NEW b, Inv(b), NEW now \in Nat, NEW i \in Id
    PROVE  Truthful(b, now, TaskReleaseReq(i, 0))
  <1> DEFINE r == TaskReleaseReq(i, 0)
             s == TaskRelease(b, now, i)
  <1>1. r.kind = "task.release" /\ r.id = i
    BY DEF TaskReleaseReq
  <1> HIDE DEF r
  <1>2. Handled(b, now, r) = s
    BY <1>1 DEF Handled
  <1>3. AnswerTo(b, s, r) = TaskAnswer(b, i, {"acquired"}, Done)
    BY <1>1 DEF AnswerTo
  <1>4. b.tasks[i].state # "acquired" => s = b
    BY DEF TaskRelease
  <1>5. ASSUME b.tasks[i].state = "acquired"
        PROVE  s.tasks[i].state = "pending"
    <2> DEFINE k == [b.tasks[i] EXCEPT !.state = "pending",
                        !.version = NextVersion(@), !.pid = NoPid, !.ttl = None]
               tk == [j \in Id |-> IF j \in {i}
                    THEN [b.tasks[j] EXCEPT !.state = "pending",
                              !.version = NextVersion(@), !.pid = NoPid, !.ttl = None]
                    ELSE b.tasks[j]]
               tt == [j \in Id |->
                    IF j \in {i} THEN [typ |-> "retry", at |-> now + RetryTTL]
                                ELSE b.tTimeouts[j]]
               u == [b EXCEPT !.tasks = tk, !.tTimeouts = tt]
    <2>1. s = SendExecuteMessage(u, {i})
      BY <1>5 DEF TaskRelease, ReleaseTasks
    <2>2. k.state = "pending" /\ tk[i] = k
      BY Fields DEF Inv, Task
    <2> HIDE DEF k, tk, tt
    <2>3. u.tasks = tk
      BY DEF Inv, State
    <2> HIDE DEF u
    <2>4. s.tasks = u.tasks
      BY <2>1 DEF SendExecuteMessage
    <2> QED BY <2>2, <2>3, <2>4
  <1> HIDE DEF s
  <1>6. ASSUME b.tasks[i].state = "acquired", AnswerTo(b, s, r) = Done
        PROVE  Truthful(b, now, r)
    BY <1>1, <1>2, <1>5, <1>6, DoneTrue DEF Done
  <1>7. Truthful(b, now, r)
    BY <1>1, <1>2, <1>3, <1>4, <1>6, TaskAnswers
  <1> QED BY <1>7 DEF r

\* The task is fulfilled and its promise settled.
LEMMA FulfillTrue ==
    ASSUME NEW b, Inv(b), NEW now \in Nat, NEW i \in Id, NEW outcome \in SettleState,
           b.promises[i].state = "pending" => now < b.promises[i].timeoutAt
    PROVE  Truthful(b, now, TaskFulfillReq(i, 0, PromiseSettleReq(i, outcome)))
  <1> DEFINE r == TaskFulfillReq(i, 0, PromiseSettleReq(i, outcome))
             s == TaskFulfill(b, now, i, outcome)
  <1>1. /\ r.kind = "task.fulfill" /\ r.id = i
        /\ r.action.id = i /\ r.action.state = outcome
    BY DEF TaskFulfillReq, PromiseSettleReq
  <1> HIDE DEF r
  <1>2. Handled(b, now, r) = s
    BY <1>1 DEF Handled
  <1>3. AnswerTo(b, s, r) =
            TaskAnswer(b, i, {"acquired"}, Answer(200, PromiseRecord(s, i), {}))
    BY <1>1 DEF AnswerTo
  <1>4. b.tasks[i].state # "acquired" => s = b
    BY DEF TaskFulfill
  <1>5. Inv(s) /\ Evolves(b, s)
    BY TaskFulfillInv
  <1>6. b.tasks[i].state = "acquired" => Closes(b, s, i, outcome, now)
    BY TaskFulfillEffect
  <1> HIDE DEF s
  <1>7. ASSUME b.tasks[i].state = "acquired",
               AnswerTo(b, s, r) = Answer(200, PromiseRecord(s, i), {})
        PROVE  Truthful(b, now, r)
    <2>1. s.promises[i].state \in Settled /\ HasPromise(s, i)
      BY <1>6, <1>7 DEF Closes, HasPromise, Settled
    <2>2. HasTask(s, i)
      <3>1. b.tasks[i] \in Task /\ s.tasks[i] \in Task
        BY <1>5, Fields DEF Inv
      <3>2. Rank(b, i) = 2 * b.tasks[i].version + 1 /\ Rank(s, i) >= Rank(b, i)
        BY <1>5, <1>7 DEF Rank, Evolves
      <3>3. ~ HasTask(s, i) => Rank(s, i) = 0
        BY <1>5 DEF Inv, AbsentFresh, Rank, HasTask
      <3> QED BY <3>1, <3>2, <3>3 DEF Task
    <2>3. s.tasks[i].state = "fulfilled"
      BY <1>5, <2>1, <2>2 DEF Inv, TasksFollowPromises
    <2> QED BY <1>1, <1>2, <1>7, <2>1, <2>3, RecordAnswerTrue DEF PromiseKinds
  <1>8. Truthful(b, now, r)
    BY <1>1, <1>2, <1>3, <1>4, <1>7, TaskAnswers
  <1> QED BY <1>8 DEF r

\* A task whose worker is told so is suspended and awaits the promise, if it is
\* there; one that is redirected stays with its worker.
LEMMA SuspendTrue ==
    ASSUME NEW b, Inv(b), NEW now, NEW i \in Id, NEW j \in Id
    PROVE  Truthful(b, now, TaskSuspendReq(i, 0, <<j>>))
  <1> DEFINE r == TaskSuspendReq(i, 0, <<j>>)
             s == TaskSuspend(b, i, {j})
  <1>1. r.kind = "task.suspend" /\ r.id = i /\ r.awaited[1] = j /\ ToSet(r.awaited) = {j}
    BY DEF TaskSuspendReq, ToSet
  <1> HIDE DEF r
  <1>2. Handled(b, now, r) = s
    BY <1>1 DEF Handled
  <1>3. AnswerTo(b, s, r) = TaskAnswer(b, i, {"acquired"}, SuspendAnswer(b, r))
    BY <1>1 DEF AnswerTo
  <1>4. b.tasks[i].state # "acquired" => s = b
    BY DEF TaskSuspend
  <1>5. ASSUME b.tasks[i].state = "acquired"
        PROVE  LET redirects == b.tasks[i].resumes # {} \/ AnySettled(b, {j})
               IN  /\ redirects => s.tasks[i].state = "acquired"
                   /\ ~ redirects =>
                        /\ s.tasks[i].state = "suspended"
                        /\ HasPromise(s, j) => i \in s.promises[j].awaiters
    <2> DEFINE pr == [k \in Id |->
                     [b.promises[k] EXCEPT !.awaiters =
                        IF k \in {j} /\ b.promises[k].state = "pending"
                        THEN @ \cup {i} ELSE @]]
               t == [b EXCEPT !.promises = pr]
    <2>1. CASE b.tasks[i].resumes # {}
      <3>1. s = PutTask(b, i, [b.tasks[i] EXCEPT !.resumes = {}])
        BY <1>5, <2>1 DEF TaskSuspend
      <3>2. s.tasks[i].state = "acquired"
        BY <1>5, <3>1, Fields DEF PutTask, Inv, State, Task
      <3> QED BY <2>1, <3>2
    <2>2. CASE b.tasks[i].resumes = {} /\ AnySettled(b, {j})
      <3>1. s = t
        BY <1>5, <2>2 DEF TaskSuspend
      <3>2. t.tasks[i] = b.tasks[i]
        BY DEF Inv, State
      <3> QED BY <1>5, <2>2, <3>1, <3>2
    <2>3. CASE b.tasks[i].resumes = {} /\ ~ AnySettled(b, {j})
      <3> DEFINE k == [b.tasks[i] EXCEPT !.state = "suspended",
                              !.pid = NoPid, !.ttl = None, !.resumes = {}]
      <3>1. s = [PutTask(t, i, k) EXCEPT !.tTimeouts = [@ EXCEPT ![i] = NoTimeout]]
        BY <1>5, <2>3 DEF TaskSuspend
      <3>2. k.state = "suspended"
        BY Fields DEF Inv, Task
      <3>3. pr[j].state = b.promises[j].state
            /\ (b.promises[j].state = "pending" => i \in pr[j].awaiters)
        BY Fields DEF Inv, Promise
      <3> HIDE DEF k, pr
      <3>4. s.tasks[i] = k /\ s.promises = pr
        BY <3>1 DEF PutTask, Inv, State
      <3>5. HasPromise(s, j) => b.promises[j].state = "pending"
        <4>1. b.promises[j].state \in PromiseState /\ b.promises[j].state \notin Settled
          BY <2>3, Fields DEF AnySettled, Inv, Promise
        <4> QED BY <3>3, <3>4, <4>1 DEF HasPromise, PromiseState
      <3> QED BY <2>3, <3>2, <3>3, <3>4, <3>5
    <2> QED BY <2>1, <2>2, <2>3
  <1> HIDE DEF s
  <1>6. ASSUME b.tasks[i].state = "acquired", AnswerTo(b, s, r) = SuspendAnswer(b, r)
        PROVE  Truthful(b, now, r)
    <2>1. CASE b.tasks[i].resumes # {} \/ AnySettled(b, {j})
      <3>1. AnswerTo(b, s, r) = Refuse(300)
        BY <1>1, <1>6, <2>1 DEF SuspendAnswer
      <3> QED BY <1>1, <1>2, <1>5, <1>6, <2>1, <3>1, DoneTrue
    <2>2. CASE ~ (b.tasks[i].resumes # {} \/ AnySettled(b, {j}))
      <3>1. AnswerTo(b, s, r) = Refuse(200)
        BY <1>1, <1>6, <2>2 DEF SuspendAnswer, Done
      <3> QED BY <1>1, <1>2, <1>5, <1>6, <2>2, <3>1, DoneTrue
    <2> QED BY <2>1, <2>2
  <1>7. Truthful(b, now, r)
    BY <1>1, <1>2, <1>3, <1>4, <1>6, TaskAnswers
  <1> QED BY <1>7 DEF r

\* Settling another promise takes no lease away.
LEMMA LeaseStays ==
    ASSUME NEW s, Inv(s), NEW now \in Nat, NEW c \in Id, NEW i \in Id, i # c,
           NEW v, HoldsLease(s, i, v)
    PROVE  /\ \A outcome \in SettleState : HoldsLease(PromiseSettle(s, now, c, outcome), i, v)
           /\ \A d \in Nat, tags \in Tags : HoldsLease(PromiseCreate(s, now, c, d, tags), i, v)
  <1> DEFINE Held(t) == t.tasks[i].state = "acquired" /\ t.tasks[i].version = v
  <1>1. ASSUME NEW u \in State, Held(u), u.promises[c].state \in Settled
        PROVE  Held(Propagate(u, {c}, now))
    <2> DEFINE t == Propagate(u, {c}, now)
    <2>1. Propagated(u, {c}, now, t)
      BY <1>1, PropagateFacts
    <2> HIDE DEF t
    <2>2. i \notin Missing(u, {c}) \cup Unfinished(u, {c}) /\ ~ AwaitsOne(u, {c}, i)
      BY <1>1 DEF Missing, Unfinished, AwaitsOne
    <2>3. Held(t)
      BY <1>1, <2>1, <2>2 DEF Propagated
    <2> QED BY <2>3 DEF t
  <1>2. ASSUME NEW outcome \in SettleState
        PROVE  Held(PromiseSettle(s, now, c, outcome))
    <2> DEFINE pr == [j \in Id |->
                      IF j \in {c}
                      THEN [s.promises[j] EXCEPT !.state = outcome, !.settledAt = now]
                      ELSE s.promises[j]]
               pt == [j \in Id |-> IF j \in {c} THEN None ELSE s.pTimeouts[j]]
               u == [s EXCEPT !.promises = pr, !.pTimeouts = pt]
    <2>1. CASE s.promises[c].state # "pending"
      BY <2>1 DEF PromiseSettle, HoldsLease
    <2>2. CASE s.promises[c].state = "pending"
      <3>1. PromiseSettle(s, now, c, outcome) = Propagate(u, {c}, now)
        BY <2>2 DEF PromiseSettle, Settle
      <3>2. pr \in [Id -> Promise] /\ pr[c].state = outcome
        <4>1. ASSUME NEW j \in Id
              PROVE  LET q == [s.promises[j] EXCEPT !.state = outcome, !.settledAt = now]
                     IN  s.promises[j] \in Promise /\ q \in Promise /\ q.state = outcome
          <5>1. s.promises[j] \in Promise
            BY Fields DEF Inv
          <5>2. outcome \in PromiseState
            BY DEF PromiseState, Settled, SettleState
          <5> QED BY <5>1, <5>2 DEF Promise
        <4> QED BY <4>1
      <3>3. pt \in [Id -> Nat \cup {None}]
        BY Fields DEF Inv
      <3> HIDE DEF pr, pt
      <3>4. u \in State /\ u.promises = pr /\ u.tasks = s.tasks
        BY <3>2, <3>3 DEF Inv, State
      <3> HIDE DEF u
      <3>5. Held(u) /\ u.promises[c].state \in Settled
        BY <3>2, <3>4 DEF HoldsLease, Settled, SettleState
      <3> QED BY <1>1, <3>1, <3>4, <3>5
    <2> QED BY <2>1, <2>2
  <1>3. ASSUME NEW d \in Nat, NEW tags \in Tags
        PROVE  Held(PromiseCreate(s, now, c, d, tags))
    <2>1. CASE HasPromise(s, c)
      BY <2>1 DEF PromiseCreate, HoldsLease
    <2>2. CASE ~ HasPromise(s, c) /\ now >= d
      <3> DEFINE p == NewPromise("absent", tags, d, d)
                 q == [p EXCEPT !.state = TimeoutState(p)]
                 u == PutPromise(s, c, q)
      <3>1. PromiseCreate(s, now, c, d, tags) = Propagate(u, {c}, now)
        BY <2>2 DEF PromiseCreate
      <3>2. q \in Promise /\ q.state \in Settled
        BY DEF NewPromise, Promise, PromiseState, Settled, TimeoutState, Tags
      <3> HIDE DEF q
      <3>3. /\ u \in State /\ u.tasks = s.tasks /\ u.promises[c] = q
        BY <3>2 DEF PutPromise, Inv, State
      <3> HIDE DEF u
      <3> QED BY <1>1, <3>1, <3>2, <3>3 DEF HoldsLease
    <2>3. CASE ~ HasPromise(s, c) /\ ~ (now >= d)
      <3> DEFINE p == NewPromise("pending", tags, d, None)
                 t == PutPromise(s, c, p)
                 at == IF now < tags.delay THEN tags.delay ELSE now + RetryTTL
                 x == PutTask(SetPTimeout(t, c, d), c, NewTask("pending", NoPid, None))
                 y == SetTTimeout(x, c, "retry", at)
                 z == PromiseCreate(s, now, c, d, tags)
      <3>1. z = t \/ z = y \/ z = SendExecuteMessage(y, {c})
        BY <2>3 DEF PromiseCreate, Schedule
      <3> HIDE DEF z, p, at
      <3>2. t.tasks = s.tasks
        BY DEF PutPromise, Inv, State
      <3>3. y.tasks = [s.tasks EXCEPT ![c] = NewTask("pending", NoPid, None)]
        BY DEF PutPromise, SetTTimeout, PutTask, SetPTimeout, Inv, State
      <3> HIDE DEF t, x, y
      <3>4. SendExecuteMessage(y, {c}).tasks = y.tasks
        BY DEF SendExecuteMessage
      <3>5. z.tasks[i] = s.tasks[i]
        <4>1. z.tasks = t.tasks \/ z.tasks = y.tasks
          BY <3>1, <3>4
        <4> QED BY <3>2, <3>3, <4>1 DEF Inv, State
      <3>6. Held(z)
        BY <3>5 DEF HoldsLease
      <3> QED BY <3>6 DEF z
    <2> QED BY <2>1, <2>2, <2>3
  <1> QED BY <1>2, <1>3 DEF HoldsLease

\* Only the holder of the lease has its creation or settlement done, and has the
\* lease still.
LEMMA FenceTrue ==
    ASSUME NEW b, Inv(b), NEW now \in Nat, NEW i \in Id, NEW v, NEW r,
           NEW c \in Id \ {i}, NEW outcome \in SettleState, NEW d \in Nat, NEW tags \in Tags,
           \/ r = TaskFenceReq(i, v, PromiseCreateReq(c, d, tags))
           \/ r = TaskFenceReq(i, v, PromiseSettleReq(c, outcome))
    PROVE  Truthful(b, now, r)
  <1> DEFINE s == Handled(b, now, r)
             create == PromiseCreate(b, now, c, d, tags)
             settle == PromiseSettle(b, now, c, outcome)
  <1>1. /\ r.kind = "task.fence" /\ r.id = i /\ r.version = v /\ r.action.id = c
        /\ \/ /\ r.action.kind = "promise.create"
              /\ r.action.timeoutAt = d /\ r.action.tags = tags
           \/ r.action.kind = "promise.settle" /\ r.action.state = outcome
    BY DEF TaskFenceReq, PromiseCreateReq, PromiseSettleReq, SubKind
  <1>2. s = IF HoldsLease(b, i, v)
            THEN IF r.action.kind = "promise.settle" THEN settle ELSE create
            ELSE b
    <2>1. s = FencedAction(b, now, r)
      BY <1>1 DEF Handled
    <2> QED BY <1>1, <2>1 DEF FencedAction, TaskFenceSettle, TaskFenceCreate
  <1>3. AnswerTo(b, s, r) = FenceAnswer(b, s, r)
    BY <1>1 DEF AnswerTo
  <1>4. HasPromise(create, c)
    BY CreateEffect DEF Opens, HasPromise, TimeoutState
  <1>5. /\ HasPromise(settle, c) <=> HasPromise(b, c)
        /\ ~ HasPromise(b, c) => settle = b
    BY PromiseSettleEffect DEF Closes, HasPromise, Settled
  <1>6. HoldsLease(b, i, v) => HoldsLease(create, i, v) /\ HoldsLease(settle, i, v)
    BY LeaseStays
  <1> HIDE DEF s, create, settle
  <1>7. CASE ~ HoldsLease(b, i, v)
    <2>1. s = b
      BY <1>2, <1>7
    <2>2. AnswerTo(b, b, r) = Refuse(404) \/ AnswerTo(b, b, r) = Refuse(409)
      BY <1>1, <1>3, <1>7, <2>1 DEF FenceAnswer
    <2> QED BY <1>1, <2>1, <2>2, RefusalTrue DEF s
  <1>8. CASE HoldsLease(b, i, v)
    <2>1. HoldsLease(s, i, v) /\ (s = create \/ s = settle)
      BY <1>2, <1>6, <1>8
    <2>2. AnswerTo(b, s, r) = Answer(200, PromiseRecord(s, c), {})
      BY <1>1, <1>3, <1>8 DEF FenceAnswer, HoldsLease, HasTask
    <2>3. CASE HasPromise(s, c)
      BY <1>1, <2>1, <2>2, <2>3, RecordAnswerTrue DEF s, PromiseKinds
    <2>4. CASE ~ HasPromise(s, c)
      <3>1. s = b
        BY <1>4, <1>5, <2>1, <2>4
      <3>2. Heard(b, now, r) = Result(r, Answer(200, {}, {}))
        BY <2>2, <2>4, HeardResult DEF PromiseRecord, s
      <3>3. ~ Heard(b, now, r).ok
        BY <1>1, <3>2 DEF Result, SendEnvelope, Success, Answer, ParsePromise, Undecodable, Fail
      <3> QED BY <3>1, <3>3 DEF Truthful, s
    <2> QED BY <2>3, <2>4
  <1> QED BY <1>7, <1>8

\* A method that returns a task and its promise, of which one says what the other
\* does, and an acquired task is the caller's.
LEMMA TaskAnswerTrue ==
    ASSUME NEW b, NEW now, NEW r, NEW s, Handled(b, now, r) = s,
           r.kind \in {"task.create", "task.acquire"}, NEW i,
           HasPromise(s, i), HasTask(s, i), NEW code \in {200, 201},
           AnswerTo(b, s, r) = Answer(code, PromiseRecord(s, i), TaskRecord(s, i)),
           IF s.tasks[i].state = "acquired" THEN s.tasks[i].pid = r.pid
           ELSE s.promises[i].state \in Settled
    PROVE  Truthful(b, now, r)
  <1> DEFINE e == Heard(b, now, r)
             record == [id |-> i, state |-> s.tasks[i].state,
                        version |-> s.tasks[i].version, pid |-> s.tasks[i].pid]
  <1>1. TaskRecord(s, i) = {record} /\ PromiseRecord(s, i) # {}
    BY RecordTrue DEF TaskRecord
  <1>2. record.id = i /\ record.state = s.tasks[i].state
        /\ record.version = s.tasks[i].version
    OBVIOUS
  <1>3. e = Result(r, Answer(code, PromiseRecord(s, i), TaskRecord(s, i)))
    BY HeardResult
  <1>4. e = ParseTaskAcquire(SendEnvelope(
                Answer(code, PromiseRecord(s, i), TaskRecord(s, i)), PassConflict(r)))
    BY <1>3 DEF Result, ParseTaskCreate, SendEnvelope, Success, Answer
  <1>5. e.ok /\ e.promise = PromiseRecord(s, i) /\ e.task = {record} /\ e.as = "done"
    <2> DEFINE P == PromiseRecord(s, i)
               T == TaskRecord(s, i)
               a == Answer(code, P, T)
               x == Success("done", a)
    <2>1. P # {} /\ T # {} /\ T = {record}
      BY <1>1
    <2> HIDE DEF P, T, record
    <2>2. a.status = code /\ a.promise = P /\ a.task = T
      BY DEF Answer
    <2> HIDE DEF a
    <2>3. x.ok /\ x.promise = P /\ x.task = T /\ x.as = "done"
      BY <2>2 DEF Success
    <2>4. SendEnvelope(a, PassConflict(r)) = x
      BY <2>2 DEF SendEnvelope
    <2> HIDE DEF x
    <2>5. ParseTaskAcquire(x) = x
      BY <2>1, <2>3 DEF ParseTaskAcquire
    <2>6. e = x
      BY <1>4, <2>4, <2>5 DEF a, P, T
    <2> HIDE DEF e
    <2> QED BY <2>1, <2>3, <2>6 DEF P
  <1> HIDE DEF e, record
  <1>6. \A p \in e.promise :
          /\ p.id = i /\ p.state = s.promises[i].state
          /\ p = CHOOSE q \in PromiseRecord(s, p.id) : TRUE
    BY <1>5, RecordTrue
  <1>7. \A t \in e.task : IF t.state = "acquired" THEN HeldBy(s, t, r.pid)
                          ELSE \A p \in e.promise : p.state \in Settled
    BY <1>2, <1>5, <1>6 DEF HeldBy
  <1>8. Promised(e, r, s)
    BY <1>5, <1>6, <1>7 DEF Promised
  <1> QED BY <1>5, <1>8 DEF Truthful, e

\* A pending task that is acquired is the caller's.
LEMMA AcquireFacts ==
    ASSUME NEW b, Inv(b), NEW now, NEW i \in Id, NEW pid, NEW ttl
    PROVE  LET s == AcquireTask(b, now, i, pid, ttl)
           IN  /\ s.promises = b.promises
               /\ s.tasks[i].state = "acquired" /\ s.tasks[i].pid = pid
  <1> DEFINE k == Hold(b.tasks[i], pid, ttl)
             s == AcquireTask(b, now, i, pid, ttl)
  <1>1. k.state = "acquired" /\ k.pid = pid
    BY Fields DEF Hold, Inv, Task
  <1> HIDE DEF k
  <1>2. s.promises = b.promises /\ s.tasks[i] = k
    BY DEF AcquireTask, SetTTimeout, PutTask, Inv, State, k
  <1> QED BY <1>1, <1>2

LEMMA AcquireTrue ==
    ASSUME NEW b, Inv(b), NEW now, NEW i \in Id, NEW pid, NEW ttl
    PROVE  Truthful(b, now, TaskAcquireReq(i, 0, pid, ttl))
  <1> DEFINE r == TaskAcquireReq(i, 0, pid, ttl)
             s == TaskAcquire(b, now, i, pid, ttl)
  <1>1. r.kind = "task.acquire" /\ r.id = i /\ r.pid = pid /\ r.ttl = ttl
    BY DEF TaskAcquireReq
  <1> HIDE DEF r
  <1>2. Handled(b, now, r) = s
    BY <1>1 DEF Handled
  <1>3. AnswerTo(b, s, r) = TaskAnswer(b, i, {"pending"},
            Answer(200, PromiseRecord(s, i), TaskRecord(s, i)))
    BY <1>1 DEF AnswerTo
  <1>4. b.tasks[i].state # "pending" => s = b
    BY DEF TaskAcquire
  <1>5. b.tasks[i].state = "pending" =>
          /\ s.promises = b.promises
          /\ s.tasks[i].state = "acquired" /\ s.tasks[i].pid = pid
    BY AcquireFacts DEF TaskAcquire
  <1> HIDE DEF s
  <1>6. ASSUME b.tasks[i].state = "pending",
               AnswerTo(b, s, r) = Answer(200, PromiseRecord(s, i), TaskRecord(s, i))
        PROVE  Truthful(b, now, r)
    <2>1. HasPromise(s, i) /\ HasTask(s, i)
      BY <1>5, <1>6 DEF HasPromise, HasTask, Inv, TasksFollowPromises
    <2> QED BY <1>1, <1>2, <1>5, <1>6, <2>1, TaskAnswerTrue
  <1>7. Truthful(b, now, r)
    BY <1>1, <1>2, <1>3, <1>4, <1>6, TaskAnswers
  <1> QED BY <1>7 DEF r

\* What a handle's creator learns: the task is its own, the promise is settled, or
\* there is a promise of somebody else to listen to.
LEMMA TaskCreateTrue ==
    ASSUME NEW b, Inv(b), NEW now \in Nat, NEW i \in Id, NEW d \in Nat, NEW tags \in Tags,
           NEW pid, NEW ttl
    PROVE  Truthful(b, now, TaskCreateReq(pid, ttl, PromiseCreateReq(i, d, tags)))
  <1> DEFINE r == TaskCreateReq(pid, ttl, PromiseCreateReq(i, d, tags))
             s == TaskCreate(b, now, i, d, tags, pid, ttl)
  <1>1. /\ r.kind = "task.create" /\ r.pid = pid /\ r.ttl = ttl
        /\ r.action.id = i /\ r.action.timeoutAt = d /\ r.action.tags = tags
    BY DEF TaskCreateReq, PromiseCreateReq
  <1> HIDE DEF r
  <1>2. Handled(b, now, r) = s
    BY <1>1 DEF Handled
  <1>3. AnswerTo(b, s, r) = TaskCreateAnswer(b, s, i)
    BY <1>1 DEF AnswerTo
  <1>4. b.tasks[i].state \in TaskState
    BY Fields DEF Inv, Task
  <1>5. CASE b.tasks[i].state = "pending"
    <2>1. s = AcquireTask(b, now, i, pid, ttl)
      BY <1>5 DEF TaskCreate, HasTask
    <2>2. /\ s.promises = b.promises
          /\ s.tasks[i].state = "acquired" /\ s.tasks[i].pid = pid
      BY <2>1, AcquireFacts
    <2> HIDE DEF s
    <2>3. HasPromise(s, i) /\ HasTask(s, i)
      BY <1>5, <2>2 DEF HasPromise, HasTask, Inv, TasksFollowPromises
    <2>4. AnswerTo(b, s, r) = Answer(200, PromiseRecord(s, i), TaskRecord(s, i))
      BY <1>3, <1>5, <2>2 DEF TaskCreateAnswer, HasTask, PromiseRecord, HasPromise
    <2>5. Truthful(b, now, r)
      BY <1>1, <1>2, <2>2, <2>3, <2>4, TaskAnswerTrue
    <2> QED BY <2>5 DEF r
  <1>6. CASE b.tasks[i].state = "fulfilled"
    <2>1. s = b
      BY <1>6 DEF TaskCreate, HasTask
    <2> HIDE DEF s
    <2>2. HasPromise(s, i) /\ HasTask(s, i) /\ s.promises[i].state \in Settled
      BY <1>6, <2>1 DEF HasTask, Inv, TasksFollowPromises
    <2>3. AnswerTo(b, s, r) = Answer(200, PromiseRecord(s, i), TaskRecord(s, i))
      BY <1>3, <1>6, <2>1 DEF TaskCreateAnswer, HasTask
    <2>4. Truthful(b, now, r)
      BY <1>1, <1>2, <1>6, <2>1, <2>2, <2>3, TaskAnswerTrue
    <2> QED BY <2>4 DEF r
  <1>7. CASE b.tasks[i].state \in {"acquired", "suspended"}
                \/ (~ HasTask(b, i) /\ HasPromise(b, i))
    <2>1. s = b /\ HasPromise(b, i)
      BY <1>7 DEF TaskCreate, HasTask, Inv, TasksFollowPromises
    <2> HIDE DEF s
    <2>2. AnswerTo(b, s, r) = Refuse(409)
      BY <1>3, <1>7 DEF TaskCreateAnswer, HasTask
    <2> DEFINE e == Heard(b, now, r)
    <2>3. e = Result(r, Refuse(409))
      BY <1>2, <2>2, HeardResult
    <2>4. e.ok /\ e.as = "conflict" /\ e.promise = {} /\ e.task = {}
      BY <1>1, <2>3 DEF Result, PassConflict, SendEnvelope, Refuse, Answer, Success,
                        ParseTaskCreate
    <2> HIDE DEF e
    <2>5. Promised(e, r, s)
      BY <1>1, <2>1, <2>4 DEF Promised
    <2>6. Truthful(b, now, r)
      BY <1>2, <2>4, <2>5 DEF Truthful, e
    <2> QED BY <2>6 DEF r
  <1>8. CASE ~ HasTask(b, i) /\ ~ HasPromise(b, i)
    <2> DEFINE p == NewPromise("absent", tags, d, d)
               q == [p EXCEPT !.state = TimeoutState(p)]
               n == NewPromise("pending", tags, d, None)
               k == NewTask("fulfilled", NoPid, None)
               h == NewTask("acquired", pid, ttl)
    <2>1. q.state \in Settled /\ n.state = "pending"
          /\ k.state = "fulfilled" /\ h.state = "acquired" /\ h.pid = pid
      BY DEF NewPromise, NewTask, TimeoutState, Settled
    <2> HIDE DEF q, n, k, h
    <2>2. \/ s.promises[i] = q /\ s.tasks[i] = k
          \/ s.promises[i] = n /\ s.tasks[i] = h
      <3>1. CASE now >= d
        <4>1. s = PutTask(PutPromise(b, i, q), i, k)
          BY <1>8, <3>1 DEF TaskCreate, q, k
        <4> QED BY <4>1 DEF PutTask, PutPromise, Inv, State
      <3>2. CASE ~ (now >= d)
        <4> DEFINE x == PutPromise(b, i, n)
                   y == IF tags.target THEN SetPTimeout(x, i, d) ELSE x
        <4>1. s = SetTTimeout(PutTask(y, i, h), i, "lease", SaturatingAdd(now, ttl))
          BY <1>8, <3>2 DEF TaskCreate, n, h
        <4>2. y.promises[i] = n /\ i \in DOMAIN y.tasks
          BY DEF PutPromise, SetPTimeout, Inv, State
        <4> HIDE DEF y
        <4>3. s.promises = y.promises /\ s.tasks[i] = h
          BY <4>1, <4>2 DEF SetTTimeout, PutTask
        <4> QED BY <4>2, <4>3
      <3> QED BY <3>1, <3>2
    <2> DEFINE code == IF s.tasks[i].state = "acquired" THEN 201 ELSE 200
    <2>3. AnswerTo(b, s, r) = Answer(code, PromiseRecord(s, i), TaskRecord(s, i))
      BY <1>3, <1>8 DEF TaskCreateAnswer
    <2> HIDE DEF s
    <2>4. HasPromise(s, i) /\ HasTask(s, i)
      BY <2>1, <2>2 DEF HasPromise, HasTask, Settled
    <2>5. Truthful(b, now, r)
      BY <1>1, <1>2, <2>1, <2>2, <2>3, <2>4, TaskAnswerTrue
    <2> QED BY <2>5 DEF r
  <1> QED BY <1>4, <1>5, <1>6, <1>7, <1>8 DEF TaskState, HasTask

\* The local server refuses what it has no handler for.
Unhandled == {"task.get", "task.halt", "task.continue", "task.search",
              "promise.search", "promise.register_callback"}

LEMMA UnhandledTrue ==
    ASSUME NEW b, NEW now, NEW r, r.kind \in Unhandled
    PROVE  Truthful(b, now, r)
  <1>1. Handled(b, now, r) = b
    BY DEF Handled, Unhandled
  <1>2. AnswerTo(b, b, r) = Refuse(400)
    BY DEF AnswerTo, Unhandled
  <1> QED BY <1>1, <1>2, RefusalTrue DEF Unhandled

-----------------------------------------------------------------------------
(* Every request in every reachable state *)

LEMMA PreludeInv ==
    ASSUME NEW s, Inv(s), NEW now \in Nat, NEW r, Named(r) \in Seq(Id)
    PROVE  Inv(Prelude(s, now, r)) /\ NoneDue(Prelude(s, now, r), now, Named(r))
  BY ClearInv, InTurn DEF Prelude

LEMMA CreatesAre ==
    ASSUME NEW r \in Creates
    PROVE  \E i \in Id, d \in Deadlines, tags \in TagChoices : r = PromiseCreateReq(i, d, tags)
  BY DEF Creates, PromiseRequests, PromiseGetReq, PromiseSettleReq, ListenerReq

LEMMA SettlesAre ==
    ASSUME NEW r \in Settles
    PROVE  \E i \in Id, outcome \in Outcomes : r = PromiseSettleReq(i, outcome)
  BY DEF Settles, PromiseRequests, PromiseGetReq, PromiseCreateReq, ListenerReq

LEMMA PromiseRequestTrue ==
    ASSUME NEW s, Inv(s), NEW now \in Nat, NEW r \in PromiseRequests
    PROVE  Truthful(Prelude(s, now, r), now, r) /\ r.kind # "unknown"
  <1> DEFINE b == Prelude(s, now, r)
  <1>1. ASSUME NEW i \in Id, Named(r) = <<i>>
        PROVE  Inv(b)
    BY <1>1, PreludeInv
  <1> HIDE DEF b
  <1>2. ASSUME NEW i \in Id, r = PromiseGetReq(i)
        PROVE  Truthful(b, now, r) /\ r.kind # "unknown"
    <2>1. r.kind = "promise.get" /\ Named(r) = <<i>>
      BY <1>2 DEF PromiseGetReq, Named
    <2> QED BY <1>1, <1>2, <2>1, GetTrue
  <1>3. ASSUME NEW i \in Id, NEW d \in Deadlines, NEW tags \in TagChoices,
               r = PromiseCreateReq(i, d, tags)
        PROVE  Truthful(b, now, r) /\ r.kind # "unknown"
    <2>1. r.kind = "promise.create" /\ Named(r) = <<i>>
      BY <1>3 DEF PromiseCreateReq, Named
    <2>2. d \in Nat /\ tags \in Tags
      BY NetworkAssumption
    <2> QED BY <1>1, <1>3, <2>1, <2>2, CreateTrue
  <1>4. ASSUME NEW i \in Id, NEW outcome \in Outcomes, r = PromiseSettleReq(i, outcome)
        PROVE  Truthful(b, now, r) /\ r.kind # "unknown"
    <2>1. r.kind = "promise.settle" /\ Named(r) = <<i>>
      BY <1>4 DEF PromiseSettleReq, Named
    <2>2. outcome \in SettleState
      BY NetworkAssumption
    <2> QED BY <1>1, <1>4, <2>1, <2>2, SettleTrue
  <1>5. ASSUME NEW i \in Id, NEW addr \in Addr, r = ListenerReq(i, addr)
        PROVE  Truthful(b, now, r) /\ r.kind # "unknown"
    <2>1. r.kind = "promise.register_listener" /\ Named(r) = <<i>>
      BY <1>5 DEF ListenerReq, Named
    <2> QED BY <1>1, <1>5, <2>1, ListenTrue
  <1>6. \/ \E i \in Id : r = PromiseGetReq(i)
        \/ \E i \in Id, d \in Deadlines, tags \in TagChoices : r = PromiseCreateReq(i, d, tags)
        \/ \E i \in Id, outcome \in Outcomes : r = PromiseSettleReq(i, outcome)
        \/ \E i \in Id, addr \in Addr : r = ListenerReq(i, addr)
    BY DEF PromiseRequests
  <1> QED BY <1>2, <1>3, <1>4, <1>5, <1>6 DEF b

LEMMA TaskRequestTrue ==
    ASSUME NEW s, Inv(s), NEW now \in Nat, NEW r \in TaskRequests, r \in Requests
    PROVE  Truthful(Prelude(s, now, r), now, r) /\ r.kind # "unknown"
  <1> DEFINE b == Prelude(s, now, r)
             Fine == Truthful(b, now, r) /\ r.kind # "unknown"
  <1>1. ASSUME Named(r) \in Seq(Id)
        PROVE  Inv(b) /\ NoneDue(b, now, Named(r))
    BY <1>1, PreludeInv
  <1>0. ASSUME NEW i \in Id, Named(r) = <<i>>
        PROVE  Inv(b)
    <2>1. Named(r) \in Seq(Id)
      BY <1>0
    <2> QED BY <1>1, <2>1
  <1>2. /\ r.kind = "task.fence" => r.action.id # r.id
        /\ r.kind = "task.suspend" => r.awaited[1] # r.id
    BY DEF Requests
  <1> HIDE DEF b
  <1>3. ASSUME NEW pid \in Pid, NEW ttl \in TTLs, NEW q \in Creates,
               r = TaskCreateReq(pid, ttl, q)
        PROVE  Fine
    <2>1. PICK i \in Id, d \in Deadlines, tags \in TagChoices : q = PromiseCreateReq(i, d, tags)
      BY CreatesAre
    <2>2. d \in Nat /\ tags \in Tags
      BY NetworkAssumption
    <2>3. r.kind = "task.create" /\ r.action.id = i
      BY <1>3, <2>1 DEF TaskCreateReq, PromiseCreateReq
    <2>4. Named(r) = <<i>>
      BY <2>3 DEF Named
    <2> QED BY <1>0, <1>3, <2>1, <2>2, <2>3, <2>4, TaskCreateTrue
  <1>4. ASSUME NEW i \in Id, NEW pid \in Pid, NEW ttl \in TTLs,
               r = TaskAcquireReq(i, 0, pid, ttl)
        PROVE  Fine
    <2>1. r.kind = "task.acquire" /\ Named(r) = <<i>>
      BY <1>4 DEF TaskAcquireReq, Named
    <2> QED BY <1>0, <1>4, <2>1, AcquireTrue
  <1>5. ASSUME NEW i \in Id, r = TaskReleaseReq(i, 0)
        PROVE  Fine
    <2>1. r.kind = "task.release" /\ Named(r) = <<i>>
      BY <1>5 DEF TaskReleaseReq, Named
    <2> QED BY <1>0, <1>5, <2>1, ReleaseTrue
  <1>6. ASSUME NEW q \in Settles, r = TaskFulfillReq(q.id, 0, q)
        PROVE  Fine
    <2>1. PICK i \in Id, outcome \in Outcomes : q = PromiseSettleReq(i, outcome)
      BY SettlesAre
    <2>2. outcome \in SettleState
      BY NetworkAssumption
    <2>3. r = TaskFulfillReq(i, 0, PromiseSettleReq(i, outcome))
      BY <1>6, <2>1 DEF PromiseSettleReq
    <2>4. r.kind = "task.fulfill" /\ Named(r) = <<i>>
      BY <2>3 DEF TaskFulfillReq, Named
    <2>5. Inv(b) /\ (b.promises[i].state = "pending" => now < b.promises[i].timeoutAt)
      BY <1>1, <2>4 DEF NoneDue
    <2> QED BY <2>2, <2>3, <2>4, <2>5, FulfillTrue
  <1>7. ASSUME NEW i \in Id, NEW j \in Id, r = TaskSuspendReq(i, 0, <<j>>)
        PROVE  Fine
    <2>1. r.kind = "task.suspend" /\ r.id = i /\ r.awaited = <<j>>
      BY <1>7 DEF TaskSuspendReq
    <2>2. Named(r) \in Seq(Id)
      BY <2>1 DEF Named
    <2> QED BY <1>1, <1>7, <2>1, <2>2, SuspendTrue
  <1>8. ASSUME NEW i \in Id, NEW v \in Versions, NEW q \in Creates \cup Settles,
               r = TaskFenceReq(i, v, q)
        PROVE  Fine
    <2>1. r.kind = "task.fence" /\ r.id = i
      BY <1>8 DEF TaskFenceReq
    <2>2. CASE q \in Creates
      <3>1. PICK c \in Id, d \in Deadlines, tags \in TagChoices : q = PromiseCreateReq(c, d, tags)
        BY <2>2, CreatesAre
      <3>2. d \in Nat /\ tags \in Tags
        BY NetworkAssumption
      <3>3. r.action.id = c
        BY <1>8, <3>1 DEF TaskFenceReq, PromiseCreateReq
      <3>4. Named(r) = <<i, c>> /\ c # i
        BY <1>2, <2>1, <3>3 DEF Named
      <3>5. r = TaskFenceReq(i, v, PromiseCreateReq(c, d, tags))
        BY <1>8, <3>1
      <3>6. Inv(b)
        BY <1>1, <3>4
      <3>7. Truthful(b, now, r)
        BY <3>2, <3>4, <3>5, <3>6, FenceTrue DEF SettleState
      <3> QED BY <2>1, <3>7
    <2>3. CASE q \in Settles
      <3>1. PICK c \in Id, outcome \in Outcomes : q = PromiseSettleReq(c, outcome)
        BY <2>3, SettlesAre
      <3>2. outcome \in SettleState
        BY NetworkAssumption
      <3>3. r.action.id = c
        BY <1>8, <3>1 DEF TaskFenceReq, PromiseSettleReq
      <3>4. Named(r) = <<i, c>> /\ c # i
        BY <1>2, <2>1, <3>3 DEF Named
      <3>5. r = TaskFenceReq(i, v, PromiseSettleReq(c, outcome))
        BY <1>8, <3>1
      <3>6. Inv(b)
        BY <1>1, <3>4
      <3>7. Truthful(b, now, r)
        <4>1. [target |-> FALSE, timer |-> FALSE, delay |-> 0] \in Tags
          BY DEF Tags
        <4> QED BY <3>2, <3>4, <3>5, <3>6, <4>1, FenceTrue
      <3> QED BY <2>1, <3>7
    <2> QED BY <1>8, <2>2, <2>3
  <1>9. ASSUME r.kind \in Unhandled
        PROVE  Fine
    BY <1>9, UnhandledTrue DEF Unhandled
  <1>10. \/ \E pid \in Pid, ttl \in TTLs, q \in Creates : r = TaskCreateReq(pid, ttl, q)
         \/ \E i \in Id, pid \in Pid, ttl \in TTLs : r = TaskAcquireReq(i, 0, pid, ttl)
         \/ \E i \in Id : r = TaskReleaseReq(i, 0)
         \/ \E q \in Settles : r = TaskFulfillReq(q.id, 0, q)
         \/ \E i, j \in Id : r = TaskSuspendReq(i, 0, <<j>>)
         \/ \E i \in Id, v \in Versions, q \in Creates \cup Settles : r = TaskFenceReq(i, v, q)
         \/ r.kind \in Unhandled
    BY DEF TaskRequests, Unhandled, TaskGetReq, TaskHaltReq, TaskContinueReq, TaskSearchReq,
           PromiseSearchReq, RegisterCallbackReq
  <1> HIDE DEF Fine
  <1>11. Fine
    BY <1>3, <1>4, <1>5, <1>6, <1>7, <1>8, <1>9, <1>10
  <1> QED BY <1>11 DEF Fine, b

\* The prelude's expirations, then the handler of whichever request it is.
LEMMA StateAnswers == Inv(srv) /\ clock \in 0 .. MaxClock => AnswersAreTrue
  <1> SUFFICES ASSUME Inv(srv), clock \in 0 .. MaxClock,
                      NEW now \in Nows, NEW r \in Requests
      PROVE  LET b == Prelude(srv, now, r)
                 a == Handled(b, now, r)
                 answer == AnswerTo(b, a, r)
                 e == Receive(r, "this", Response(r.kind, "this", answer))
             IN  /\ IF e.ok THEN Promised(e, r, a) ELSE a = b
                 /\ \A x \in Strays(r, answer) : ~Receive(r, "this", x).ok
    BY DEF AnswersAreTrue
  <1> DEFINE b == Prelude(srv, now, r)
  <1>1. now \in Nat
    BY NetworkAssumption DEF Nows
  <1>2. r \in PromiseRequests \/ r \in TaskRequests
    BY DEF Requests
  <1>3. Truthful(b, now, r) /\ r.kind # "unknown"
    BY <1>1, <1>2, PromiseRequestTrue, TaskRequestTrue
  <1> HIDE DEF b
  <1>4. \A x \in Strays(r, AnswerTo(b, Handled(b, now, r), r)) : ~Receive(r, "this", x).ok
    BY <1>3, StraysFail
  <1> QED BY <1>3, <1>4 DEF Truthful, Heard, b

\* What the methods of the Sender return is so: what a caller takes for the state of
\* the server is its state, a request that failed changed nothing, and what is no
\* answer to the request is an error (Sender's methods in send.rs, Transport::send).
THEOREM ResultsAreTrue == Spec => []AnswersAreTrue
  <1>1. IInv => AnswersAreTrue
    BY StateAnswers DEF IInv
  <1> QED BY <1>1, Inductive, PTL
=============================================================================
