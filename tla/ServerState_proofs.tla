------------------------- MODULE ServerState_proofs -------------------------
(***************************************************************************)
(* What each operator of ServerState preserves, for every set of promises, *)
(* processes and listeners.  Inv is the conjunction of the predicates at   *)
(* the end of ServerState; Evolves relates the state before and after.     *)
(***************************************************************************)
EXTENDS ServerState, TLAPS

\* A key the task map does not hold says nothing.
AbsentFresh(s) == \A i \in Id : ~ HasTask(s, i) => s.tasks[i].version = 0

Inv(s) ==
    /\ s \in State
    /\ AbsentFresh(s)
    /\ TasksFollowPromises(s)
    /\ TimeoutsScheduled(s)
    /\ AwaitersLive(s)
    /\ SuspendedAwaitsPending(s)
    /\ SettledInTime(s)

\* How far the task of promise i has come: it can be acquired at an even rank
\* only, and every handler leaves the rank as it is or raises it.
Rank(s, i) ==
    IF s.tasks[i].state \in {"absent", "pending"}
    THEN 2 * s.tasks[i].version ELSE 2 * s.tasks[i].version + 1

\* Outcomes are final, ranks never fall, and a task becomes acquired only by a
\* rise of its rank.
Evolves(s, t) == \A i \in Id :
    /\ s.promises[i].state \in Settled =>
          /\ t.promises[i].state = s.promises[i].state
          /\ t.promises[i].settledAt = s.promises[i].settledAt
    /\ t.tasks[i].version >= s.tasks[i].version
    /\ Rank(t, i) >= Rank(s, i)
    /\ t.tasks[i].state = "acquired" /\ Rank(t, i) = Rank(s, i) =>
          s.tasks[i].state = "acquired"

-----------------------------------------------------------------------------
(* Helpers *)

LEMMA Fields ==
    ASSUME NEW s \in State, NEW i \in Id
    PROVE  /\ s.promises[i] \in Promise
           /\ s.tasks[i] \in Task
           /\ s.pTimeouts[i] \in Nat \cup {None}
           /\ s.tTimeouts[i] \in TTimeout
  BY DEF State

\* Announcing tasks changes the outgoing batch only.
LEMMA SendFacts ==
    ASSUME NEW s \in State, NEW S \in SUBSET Id
    PROVE  LET t == SendExecuteMessage(s, S)
           IN  /\ t \in State
               /\ t.promises = s.promises
               /\ t.tasks = s.tasks
               /\ t.pTimeouts = s.pTimeouts
               /\ t.tTimeouts = s.tTimeouts
  <1> DEFINE to == {i \in S : s.promises[i].target}
             new == {[kind |-> "execute", id |-> i,
                      version |-> s.tasks[i].version] : i \in to}
  <1>1. new \subseteq Message
    BY DEF State, Message, Task
  <1> QED BY <1>1 DEF SendExecuteMessage, State

LEMMA EnqueueFacts ==
    ASSUME NEW s \in State, NEW S \in SUBSET Id
    PROVE  LET t == EnqueueSettle(s, S)
           IN  /\ t \in State
               /\ t.pTimeouts = s.pTimeouts
               /\ t.outgoing = s.outgoing
               /\ \A i \in Id :
                    /\ t.promises[i] = [s.promises[i] EXCEPT
                                           !.awaiters = @ \ Unfinished(s, S)]
                    /\ t.tasks[i] =
                         CASE i \in Missing(s, S) ->
                                NewTask("fulfilled", NoPid, None)
                           [] i \in Unfinished(s, S) -> Finish(s.tasks[i])
                           [] OTHER -> s.tasks[i]
                    /\ t.tTimeouts[i] = IF i \in Unfinished(s, S)
                                        THEN NoTimeout ELSE s.tTimeouts[i]
  <1> DEFINE tk(i) == CASE i \in Missing(s, S) ->
                             NewTask("fulfilled", NoPid, None)
                        [] i \in Unfinished(s, S) -> Finish(s.tasks[i])
                        [] OTHER -> s.tasks[i]
  <1>1. ASSUME NEW i \in Id PROVE tk(i) \in Task
    <2>1. s.tasks[i] \in Task
      BY Fields
    <2>2. NewTask("fulfilled", NoPid, None) \in Task
      BY DEF NewTask, Task, TaskState, None
    <2>3. Finish(s.tasks[i]) \in Task
      BY <2>1 DEF Finish, Task, TaskState, None
    <2> QED BY <2>1, <2>2, <2>3
  <1>2. ASSUME NEW i \in Id
        PROVE  [s.promises[i] EXCEPT !.awaiters = @ \ Unfinished(s, S)]
                   \in Promise
    <2>1. s.promises[i] \in Promise
      BY Fields
    <2> QED BY <2>1 DEF Promise
  <1>3. ASSUME NEW i \in Id
        PROVE  (IF i \in Unfinished(s, S) THEN NoTimeout ELSE s.tTimeouts[i])
                   \in TTimeout
    BY Fields DEF NoTimeout, TTimeout
  <1> HIDE DEF tk
  <1> QED BY <1>1, <1>2, <1>3 DEF EnqueueSettle, State, tk

\* What ResumeAwaiters changes beside the outgoing batch.
Resumed(s, S, now, t) ==
    /\ t \in State
    /\ t.pTimeouts = s.pTimeouts
    /\ \A i \in Id :
         /\ t.promises[i] = [s.promises[i] EXCEPT
                !.awaiters = IF i \in S THEN {} ELSE @]
         /\ t.tasks[i] =
              CASE i \in Woken(s, S) -> Wake(s.tasks[i], WokenBy(s, S, i))
                [] s.tasks[i].state \in {"pending", "acquired"} ->
                     [s.tasks[i] EXCEPT !.resumes = @ \cup WokenBy(s, S, i)]
                [] OTHER -> s.tasks[i]
         /\ t.tTimeouts[i] = IF i \in Woken(s, S)
                THEN [typ |-> "retry", at |-> now + RetryTTL]
                ELSE s.tTimeouts[i]

LEMMA ResumeFacts ==
    ASSUME NEW s \in State, NEW S \in SUBSET Id, NEW now \in Nat
    PROVE  Resumed(s, S, now, ResumeAwaiters(s, S, now))
  <1> DEFINE tk(i) == CASE i \in Woken(s, S) ->
                             Wake(s.tasks[i], WokenBy(s, S, i))
                        [] s.tasks[i].state \in {"pending", "acquired"} ->
                             [s.tasks[i] EXCEPT
                                 !.resumes = @ \cup WokenBy(s, S, i)]
                        [] OTHER -> s.tasks[i]
             pr(i) == [s.promises[i] EXCEPT
                          !.awaiters = IF i \in S THEN {} ELSE @]
             tt(i) == IF i \in Woken(s, S)
                      THEN [typ |-> "retry", at |-> now + RetryTTL]
                      ELSE s.tTimeouts[i]
             u == [s EXCEPT !.tasks = [i \in Id |-> tk(i)],
                            !.tTimeouts = [i \in Id |-> tt(i)],
                            !.promises = [i \in Id |-> pr(i)]]
  <1>1. ASSUME NEW i \in Id PROVE tk(i) \in Task
    <2>1. s.tasks[i] \in Task
      BY Fields
    <2>2. WokenBy(s, S, i) \in SUBSET Id
      BY DEF WokenBy
    <2>3. Wake(s.tasks[i], WokenBy(s, S, i)) \in Task
      <3>1. s.tasks[i].version + 1 \in Nat
        BY <2>1 DEF Task
      <3>2. Wake(s.tasks[i], WokenBy(s, S, i)) =
                [s.tasks[i] EXCEPT !.state = "pending",
                                   !.version = s.tasks[i].version + 1,
                                   !.resumes = WokenBy(s, S, i)]
        BY DEF Wake, NextVersion
      <3> HIDE DEF WokenBy
      <3> QED BY <2>1, <2>2, <3>1, <3>2 DEF Task, TaskState
    <2>4. [s.tasks[i] EXCEPT !.resumes = @ \cup WokenBy(s, S, i)] \in Task
      BY <2>1, <2>2 DEF Task
    <2> QED BY <2>1, <2>3, <2>4
  <1>2. ASSUME NEW i \in Id PROVE pr(i) \in Promise
    <2>1. s.promises[i] \in Promise
      BY Fields
    <2> QED BY <2>1 DEF Promise
  <1>3. ASSUME NEW i \in Id PROVE tt(i) \in TTimeout
    BY Fields, ServerAssumption DEF TTimeout
  <1>4. ResumeAwaiters(s, S, now) = SendExecuteMessage(u, Woken(s, S))
    BY DEF ResumeAwaiters
  <1> HIDE DEF tk, pr, tt
  <1>5. /\ u \in State
        /\ u.pTimeouts = s.pTimeouts
        /\ \A i \in Id : /\ u.promises[i] = pr(i)
                         /\ u.tasks[i] = tk(i)
                         /\ u.tTimeouts[i] = tt(i)
    BY <1>1, <1>2, <1>3 DEF State
  <1>6. Woken(s, S) \in SUBSET Id
    BY DEF Woken
  <1> HIDE DEF u
  <1> QED BY <1>4, <1>5, <1>6, SendFacts DEF tk, pr, tt, Resumed

LEMMA NotifyFacts ==
    ASSUME NEW s \in State, NEW S \in SUBSET Id,
           \A i \in S : s.promises[i].state \in Settled
    PROVE  LET t == NotifySubscribers(s, S)
           IN  /\ t \in State
               /\ t.tasks = s.tasks
               /\ t.pTimeouts = s.pTimeouts
               /\ t.tTimeouts = s.tTimeouts
               /\ \A i \in Id : t.promises[i] = [s.promises[i] EXCEPT
                      !.subscribers = IF i \in S THEN {} ELSE @]
  <1>1. \A i \in S : {[kind |-> "unblock", id |-> i, addr |-> a,
                       state |-> s.promises[i].state] :
                          a \in s.promises[i].subscribers} \subseteq Message
    BY DEF Message, State, Promise
  <1>2. ASSUME NEW i \in Id
        PROVE  [s.promises[i] EXCEPT
                   !.subscribers = IF i \in S THEN {} ELSE @] \in Promise
    <2>1. s.promises[i] \in Promise
      BY Fields
    <2> QED BY <2>1 DEF Promise
  <1>3. UNION {{[kind |-> "unblock", id |-> i, addr |-> a,
                 state |-> s.promises[i].state] :
                    a \in s.promises[i].subscribers} : i \in S}
            \subseteq Message
    BY <1>1
  <1> QED BY <1>2, <1>3 DEF NotifySubscribers, State

\* The task of promise i is suspended and awaits one of the promises S.
AwaitsOne(s, S, i) == /\ i \notin S
                      /\ s.tasks[i].state = "suspended"
                      /\ \E p \in S : i \in s.promises[p].awaiters

\* The fields Propagate may change, once the promises S are settled.
Propagated(s, S, now, t) ==
    /\ t \in State
    /\ t.pTimeouts = s.pTimeouts
    /\ \A i \in Id :
         /\ t.promises[i].state = s.promises[i].state
         /\ t.promises[i].target = s.promises[i].target
         /\ t.promises[i].timer = s.promises[i].timer
         /\ t.promises[i].timeoutAt = s.promises[i].timeoutAt
         /\ t.promises[i].settledAt = s.promises[i].settledAt
         /\ t.promises[i].awaiters =
              IF i \in S THEN {} ELSE s.promises[i].awaiters \ Unfinished(s, S)
         /\ t.promises[i].subscribers =
              IF i \in S THEN {} ELSE s.promises[i].subscribers
         /\ t.tasks[i].state =
              IF i \in Missing(s, S) \cup Unfinished(s, S) THEN "fulfilled"
              ELSE IF AwaitsOne(s, S, i) THEN "pending" ELSE s.tasks[i].state
         /\ t.tasks[i].version =
              IF i \in Missing(s, S) THEN 0
              ELSE IF AwaitsOne(s, S, i) THEN s.tasks[i].version + 1
              ELSE s.tasks[i].version
         /\ t.tasks[i].pid =
              IF i \in Missing(s, S) \cup Unfinished(s, S) THEN NoPid
              ELSE s.tasks[i].pid
         /\ t.tasks[i].ttl =
              IF i \in Missing(s, S) \cup Unfinished(s, S) THEN None
              ELSE s.tasks[i].ttl
         /\ t.tTimeouts[i] =
              IF i \in Unfinished(s, S) THEN NoTimeout
              ELSE IF AwaitsOne(s, S, i)
              THEN [typ |-> "retry", at |-> now + RetryTTL]
              ELSE s.tTimeouts[i]

LEMMA PropagateFacts ==
    ASSUME NEW s \in State, NEW S \in SUBSET Id, NEW now \in Nat,
           \A i \in S : s.promises[i].state \in Settled
    PROVE  Propagated(s, S, now, Propagate(s, S, now))
  <1> DEFINE e == EnqueueSettle(s, S)
             r == ResumeAwaiters(e, S, now)
             t == NotifySubscribers(r, S)
  <1>1. /\ e \in State
        /\ e.pTimeouts = s.pTimeouts
        /\ \A i \in Id :
             /\ e.promises[i] = [s.promises[i] EXCEPT
                                    !.awaiters = @ \ Unfinished(s, S)]
             /\ e.tasks[i] =
                  CASE i \in Missing(s, S) -> NewTask("fulfilled", NoPid, None)
                    [] i \in Unfinished(s, S) -> Finish(s.tasks[i])
                    [] OTHER -> s.tasks[i]
             /\ e.tTimeouts[i] = IF i \in Unfinished(s, S)
                                 THEN NoTimeout ELSE s.tTimeouts[i]
    BY EnqueueFacts
  <1> HIDE DEF e
  <1>2. Resumed(e, S, now, r)
    BY <1>1, ResumeFacts
  <1> HIDE DEF r
  <1>3. ASSUME NEW i \in Id
        PROVE  /\ e.promises[i].state = s.promises[i].state
               /\ e.promises[i].target = s.promises[i].target
               /\ e.promises[i].timer = s.promises[i].timer
               /\ e.promises[i].timeoutAt = s.promises[i].timeoutAt
               /\ e.promises[i].settledAt = s.promises[i].settledAt
               /\ e.promises[i].subscribers = s.promises[i].subscribers
               /\ e.promises[i].awaiters =
                    s.promises[i].awaiters \ Unfinished(s, S)
               /\ r.promises[i].state = s.promises[i].state
               /\ r.promises[i].target = s.promises[i].target
               /\ r.promises[i].timer = s.promises[i].timer
               /\ r.promises[i].timeoutAt = s.promises[i].timeoutAt
               /\ r.promises[i].settledAt = s.promises[i].settledAt
               /\ r.promises[i].subscribers = s.promises[i].subscribers
               /\ r.promises[i].awaiters =
                    IF i \in S THEN {}
                    ELSE s.promises[i].awaiters \ Unfinished(s, S)
    <2>1. s.promises[i] \in Promise /\ e.promises[i] \in Promise
      BY <1>1, Fields
    <2>2. e.promises[i] = [s.promises[i] EXCEPT
                              !.awaiters = @ \ Unfinished(s, S)]
      BY <1>1
    <2>3. r.promises[i] = [e.promises[i] EXCEPT
                              !.awaiters = IF i \in S THEN {} ELSE @]
      BY <1>2 DEF Resumed
    <2> HIDE DEF Unfinished
    <2> QED BY <2>1, <2>2, <2>3 DEF Promise
  <1>4. /\ t \in State
        /\ t.tasks = r.tasks
        /\ t.pTimeouts = r.pTimeouts
        /\ t.tTimeouts = r.tTimeouts
        /\ \A i \in Id : t.promises[i] = [r.promises[i] EXCEPT
               !.subscribers = IF i \in S THEN {} ELSE @]
    <2>1. r \in State
      BY <1>2 DEF Resumed
    <2>2. \A i \in S : r.promises[i].state \in Settled
      <3> TAKE i \in S
      <3>1. i \in Id /\ s.promises[i].state \in Settled
        OBVIOUS
      <3>2. r.promises[i].state = s.promises[i].state
        BY <1>3, <3>1
      <3> QED BY <3>1, <3>2
    <2> QED BY <2>1, <2>2, NotifyFacts
  <1>5. Propagate(s, S, now) = t
    BY DEF Propagate, e, r
  <1> HIDE DEF t
  <1>6. ASSUME NEW i \in Id
        PROVE  i \in Woken(e, S) <=> AwaitsOne(s, S, i)
    <2>1. s.tasks[i] \in Task
      BY Fields
    <2>2. e.tasks[i].state = "suspended" <=>
             i \notin S /\ s.tasks[i].state = "suspended"
      <3>1. CASE i \in Missing(s, S)
        <4>1. e.tasks[i] = NewTask("fulfilled", NoPid, None)
          BY <1>1, <3>1 DEF Missing, Unfinished
        <4> QED BY <3>1, <4>1 DEF NewTask, Missing
      <3>2. CASE i \in Unfinished(s, S)
        <4>1. e.tasks[i] = Finish(s.tasks[i])
          BY <1>1, <3>2 DEF Missing, Unfinished
        <4> QED BY <2>1, <3>2, <4>1 DEF Finish, Task, Unfinished
      <3>3. CASE i \notin Missing(s, S) \cup Unfinished(s, S)
        <4>1. e.tasks[i] = s.tasks[i]
          BY <1>1, <3>3
        <4> QED BY <3>3, <4>1 DEF Unfinished
      <3> QED BY <3>1, <3>2, <3>3
    <2>3. ASSUME i \notin S
          PROVE  WokenBy(e, S, i) # {}
                     <=> \E p \in S : i \in s.promises[p].awaiters
      BY <1>3, <2>3 DEF WokenBy, Unfinished
    <2> QED BY <2>2, <2>3 DEF Woken, AwaitsOne
  <1>7. ASSUME NEW i \in Id
        PROVE  /\ t.promises[i].state = s.promises[i].state
               /\ t.promises[i].target = s.promises[i].target
               /\ t.promises[i].timer = s.promises[i].timer
               /\ t.promises[i].timeoutAt = s.promises[i].timeoutAt
               /\ t.promises[i].settledAt = s.promises[i].settledAt
               /\ t.promises[i].awaiters =
                    IF i \in S THEN {}
                    ELSE s.promises[i].awaiters \ Unfinished(s, S)
               /\ t.promises[i].subscribers =
                    IF i \in S THEN {} ELSE s.promises[i].subscribers
    <2>1. r.promises[i] \in Promise
      BY <1>2, Fields DEF Resumed
    <2> QED BY <1>3, <1>4, <2>1 DEF Promise
  <1>8. ASSUME NEW i \in Id
        PROVE  /\ t.tasks[i].state =
                    IF i \in Missing(s, S) \cup Unfinished(s, S)
                    THEN "fulfilled"
                    ELSE IF AwaitsOne(s, S, i) THEN "pending"
                    ELSE s.tasks[i].state
               /\ t.tasks[i].version =
                    IF i \in Missing(s, S) THEN 0
                    ELSE IF AwaitsOne(s, S, i) THEN s.tasks[i].version + 1
                    ELSE s.tasks[i].version
               /\ t.tasks[i].pid =
                    IF i \in Missing(s, S) \cup Unfinished(s, S) THEN NoPid
                    ELSE s.tasks[i].pid
               /\ t.tasks[i].ttl =
                    IF i \in Missing(s, S) \cup Unfinished(s, S) THEN None
                    ELSE s.tasks[i].ttl
    <2>1. s.tasks[i] \in Task /\ e.tasks[i] \in Task
      BY <1>1, Fields
    <2>2. CASE i \in Missing(s, S)
      <3>1. e.tasks[i] = NewTask("fulfilled", NoPid, None)
        BY <1>1, <2>2 DEF Missing, Unfinished
      <3>2. t.tasks[i] = e.tasks[i]
        <4>1. e.tasks[i].state = "fulfilled"
          BY <3>1 DEF NewTask
        <4>2. ~ AwaitsOne(s, S, i)
          BY <2>2 DEF AwaitsOne, Missing
        <4> QED BY <1>2, <1>4, <1>6, <4>1, <4>2 DEF Resumed
      <3> QED BY <2>2, <3>1, <3>2 DEF NewTask
    <2>3. CASE i \in Unfinished(s, S) /\ i \notin Missing(s, S)
      <3>1. e.tasks[i] = Finish(s.tasks[i])
        BY <1>1, <2>3
      <3>2. /\ e.tasks[i].state = "fulfilled"
            /\ e.tasks[i].version = s.tasks[i].version
            /\ e.tasks[i].pid = NoPid
            /\ e.tasks[i].ttl = None
        BY <2>1, <3>1 DEF Finish, Task
      <3>3. ~ AwaitsOne(s, S, i)
        BY <2>3 DEF AwaitsOne, Unfinished
      <3>4. t.tasks[i] = e.tasks[i]
        BY <1>2, <1>4, <1>6, <3>2, <3>3 DEF Resumed
      <3> QED BY <2>3, <3>2, <3>3, <3>4
    <2>4. CASE i \notin Missing(s, S) \cup Unfinished(s, S)
      <3>1. e.tasks[i] = s.tasks[i]
        BY <1>1, <2>4
      <3>2. CASE AwaitsOne(s, S, i)
        <4>1. t.tasks[i] = Wake(s.tasks[i], WokenBy(e, S, i))
          BY <1>2, <1>4, <1>6, <3>1, <3>2 DEF AwaitsOne, Resumed
        <4> QED BY <2>1, <2>4, <3>2, <4>1 DEF Wake, NextVersion, Task
      <3>3. CASE ~ AwaitsOne(s, S, i)
        <4>1. \/ t.tasks[i] = s.tasks[i]
              \/ t.tasks[i] = [s.tasks[i] EXCEPT
                                  !.resumes = @ \cup WokenBy(e, S, i)]
          BY <1>2, <1>4, <1>6, <3>1, <3>3 DEF Resumed
        <4> QED BY <2>1, <2>4, <3>3, <4>1 DEF Task
      <3> QED BY <3>2, <3>3
    <2> QED BY <2>2, <2>3, <2>4
  <1>9. ASSUME NEW i \in Id
        PROVE  t.tTimeouts[i] =
                 IF i \in Unfinished(s, S) THEN NoTimeout
                 ELSE IF AwaitsOne(s, S, i)
                 THEN [typ |-> "retry", at |-> now + RetryTTL]
                 ELSE s.tTimeouts[i]
    <2>1. i \in Unfinished(s, S) => ~ AwaitsOne(s, S, i)
      BY DEF AwaitsOne, Unfinished
    <2> QED BY <1>1, <1>2, <1>4, <1>6, <2>1 DEF Resumed
  <1>10. t.pTimeouts = s.pTimeouts
    BY <1>1, <1>2, <1>4 DEF Resumed
  <1> QED BY <1>4, <1>5, <1>7, <1>8, <1>9, <1>10 DEF Propagated

-----------------------------------------------------------------------------
(* Settlement *)

\* A settlement of promise p with this outcome at this time is in time.
InTime(p, outcome, at) ==
    \/ at = p.timeoutAt /\ outcome = TimeoutState(p)
    \/ at < p.timeoutAt /\ outcome # "rejected_timedout"

\* Settlements create no promise, move no deadline and revive nothing.
OnlySettles(s, t) == \A i \in Id :
    /\ HasPromise(t, i) <=> HasPromise(s, i)
    /\ t.promises[i].timeoutAt = s.promises[i].timeoutAt
    /\ t.promises[i].state = "pending" => s.promises[i].state = "pending"

\* Settling pending promises in time keeps the invariant: their tasks are
\* fulfilled, their awaiters woken and their deadlines dropped.
LEMMA SettleInv ==
    ASSUME NEW s, Inv(s), NEW S \in SUBSET Id, NEW outcome, NEW at,
           NEW now \in Nat,
           \A i \in S : /\ s.promises[i].state = "pending"
                        /\ outcome[i] \in Settled
                        /\ at[i] \in Nat
                        /\ InTime(s.promises[i], outcome[i], at[i])
    PROVE  LET t == Settle(s, S, outcome, at, now)
           IN  /\ Inv(t) /\ Evolves(s, t) /\ OnlySettles(s, t)
               /\ \A i \in S : t.promises[i].state = outcome[i]
  <1> DEFINE pr(i) == IF i \in S
                      THEN [s.promises[i] EXCEPT !.state = outcome[i],
                                                 !.settledAt = at[i]]
                      ELSE s.promises[i]
             u == [s EXCEPT !.promises = [i \in Id |-> pr(i)],
                            !.pTimeouts = [i \in Id |->
                                IF i \in S THEN None ELSE s.pTimeouts[i]]]
             t == Propagate(u, S, now)
  <1>1. Settle(s, S, outcome, at, now) = t
    BY DEF Settle
  <1>2. ASSUME NEW i \in Id
        PROVE  /\ pr(i) \in Promise
               /\ pr(i).state = IF i \in S THEN outcome[i]
                                ELSE s.promises[i].state
               /\ pr(i).settledAt = IF i \in S THEN at[i]
                                    ELSE s.promises[i].settledAt
               /\ pr(i).target = s.promises[i].target
               /\ pr(i).timer = s.promises[i].timer
               /\ pr(i).timeoutAt = s.promises[i].timeoutAt
               /\ pr(i).awaiters = s.promises[i].awaiters
               /\ pr(i).subscribers = s.promises[i].subscribers
    <2>1. s.promises[i] \in Promise
      BY Fields DEF Inv
    <2> QED BY <2>1 DEF Promise, PromiseState
  <1> HIDE DEF pr
  <1>3. /\ u \in State
        /\ u.tasks = s.tasks
        /\ u.tTimeouts = s.tTimeouts
        /\ \A i \in Id : /\ u.promises[i] = pr(i)
                         /\ u.pTimeouts[i] = IF i \in S THEN None
                                             ELSE s.pTimeouts[i]
    <2>1. \A i \in Id : (IF i \in S THEN None ELSE s.pTimeouts[i])
                            \in Nat \cup {None}
      BY Fields DEF Inv
    <2> QED BY <1>2, <2>1 DEF Inv, State
  <1> HIDE DEF u
  <1>4. Propagated(u, S, now, t)
    <2>1. \A i \in S : u.promises[i].state \in Settled
      BY <1>2, <1>3
    <2> QED BY <1>3, <2>1, PropagateFacts
  <1> HIDE DEF t
  <1>5. ASSUME NEW i \in Id
        PROVE  /\ Missing(u, S) = {}
               /\ i \in Unfinished(u, S) <=> i \in S /\ HasTask(s, i)
               /\ AwaitsOne(u, S, i) <=> AwaitsOne(s, S, i)
    <2>1. Missing(u, S) = {}
      BY <1>2, <1>3 DEF Missing, Inv, TasksFollowPromises, HasPromise, HasTask
    <2>2. i \in Unfinished(u, S) <=> i \in S /\ HasTask(s, i)
      BY <1>3 DEF Unfinished, HasTask, Inv, TasksFollowPromises, Settled
    <2>3. AwaitsOne(u, S, i) <=> AwaitsOne(s, S, i)
      BY <1>2, <1>3 DEF AwaitsOne
    <2> QED BY <2>1, <2>2, <2>3
  \* The fields of the result, in terms of the state before.
  <1>6. ASSUME NEW i \in Id
        PROVE  /\ t.promises[i].state = IF i \in S THEN outcome[i]
                                        ELSE s.promises[i].state
               /\ t.promises[i].settledAt = IF i \in S THEN at[i]
                                            ELSE s.promises[i].settledAt
               /\ t.promises[i].target = s.promises[i].target
               /\ t.promises[i].timer = s.promises[i].timer
               /\ t.promises[i].timeoutAt = s.promises[i].timeoutAt
               /\ \A a \in Id : a \in t.promises[i].awaiters <=>
                    /\ i \notin S
                    /\ a \in s.promises[i].awaiters
                    /\ ~ (a \in S /\ HasTask(s, a))
               /\ t.promises[i].subscribers =
                    IF i \in S THEN {} ELSE s.promises[i].subscribers
               /\ t.pTimeouts[i] = IF i \in S THEN None ELSE s.pTimeouts[i]
    <2>1. u.promises[i] = pr(i)
      BY <1>3
    <2>2. /\ t.promises[i].state = u.promises[i].state
          /\ t.promises[i].target = u.promises[i].target
          /\ t.promises[i].timer = u.promises[i].timer
          /\ t.promises[i].timeoutAt = u.promises[i].timeoutAt
          /\ t.promises[i].settledAt = u.promises[i].settledAt
          /\ t.promises[i].awaiters = IF i \in S THEN {}
                ELSE u.promises[i].awaiters \ Unfinished(u, S)
          /\ t.promises[i].subscribers =
                IF i \in S THEN {} ELSE u.promises[i].subscribers
          /\ t.pTimeouts[i] = u.pTimeouts[i]
      BY <1>4 DEF Propagated
    <2>3. \A a \in Id : a \in t.promises[i].awaiters <=>
             /\ i \notin S
             /\ a \in s.promises[i].awaiters
             /\ ~ (a \in S /\ HasTask(s, a))
      BY <1>2, <1>5, <2>1, <2>2
    <2> QED BY <1>2, <1>3, <2>1, <2>2, <2>3
  <1>7. ASSUME NEW i \in Id
        PROVE  /\ t.tasks[i].state =
                    IF i \in S /\ HasTask(s, i) THEN "fulfilled"
                    ELSE IF AwaitsOne(s, S, i) THEN "pending"
                    ELSE s.tasks[i].state
               /\ t.tasks[i].version =
                    IF AwaitsOne(s, S, i) THEN s.tasks[i].version + 1
                    ELSE s.tasks[i].version
               /\ t.tasks[i].pid = IF i \in S /\ HasTask(s, i) THEN NoPid
                                   ELSE s.tasks[i].pid
               /\ t.tasks[i].ttl = IF i \in S /\ HasTask(s, i) THEN None
                                   ELSE s.tasks[i].ttl
               /\ t.tTimeouts[i] =
                    IF i \in S /\ HasTask(s, i) THEN NoTimeout
                    ELSE IF AwaitsOne(s, S, i)
                    THEN [typ |-> "retry", at |-> now + RetryTTL]
                    ELSE s.tTimeouts[i]
    <2>1. /\ t.tasks[i].state =
               IF i \in Missing(u, S) \cup Unfinished(u, S) THEN "fulfilled"
               ELSE IF AwaitsOne(u, S, i) THEN "pending" ELSE u.tasks[i].state
          /\ t.tasks[i].version =
               IF i \in Missing(u, S) THEN 0
               ELSE IF AwaitsOne(u, S, i) THEN u.tasks[i].version + 1
               ELSE u.tasks[i].version
          /\ t.tasks[i].pid =
               IF i \in Missing(u, S) \cup Unfinished(u, S) THEN NoPid
               ELSE u.tasks[i].pid
          /\ t.tasks[i].ttl =
               IF i \in Missing(u, S) \cup Unfinished(u, S) THEN None
               ELSE u.tasks[i].ttl
          /\ t.tTimeouts[i] =
               IF i \in Unfinished(u, S) THEN NoTimeout
               ELSE IF AwaitsOne(u, S, i)
               THEN [typ |-> "retry", at |-> now + RetryTTL]
               ELSE u.tTimeouts[i]
      BY <1>4 DEF Propagated
    <2> QED BY <1>3, <1>5, <2>1
  <1>8. t \in State
    BY <1>4 DEF Propagated
  <1>9. \A i \in Id : /\ s.promises[i] \in Promise /\ s.tasks[i] \in Task
                      /\ t.promises[i] \in Promise /\ t.tasks[i] \in Task
    BY <1>8, Fields DEF Inv
  <1>10. TasksFollowPromises(t)
    <2> SUFFICES ASSUME NEW i \in Id
        PROVE  /\ HasTask(t, i) => HasPromise(t, i)
               /\ HasPromise(t, i) /\ t.promises[i].target => HasTask(t, i)
               /\ HasTask(t, i) => (t.tasks[i].state = "fulfilled"
                                       <=> t.promises[i].state \in Settled)
      BY DEF TasksFollowPromises
    <2>1. /\ HasTask(s, i) => HasPromise(s, i)
          /\ HasPromise(s, i) /\ s.promises[i].target => HasTask(s, i)
          /\ HasTask(s, i) => (s.tasks[i].state = "fulfilled"
                                  <=> s.promises[i].state \in Settled)
      BY DEF Inv, TasksFollowPromises
    <2>2. CASE i \in S
      BY <1>6, <1>7, <2>1, <2>2 DEF HasPromise, HasTask, Settled, AwaitsOne
    <2>3. CASE i \notin S
      BY <1>6, <1>7, <2>1, <2>3 DEF HasPromise, HasTask, Settled, AwaitsOne
    <2> QED BY <2>2, <2>3
  <1>11. TimeoutsScheduled(t)
    <2> SUFFICES ASSUME NEW i \in Id
        PROVE  /\ t.pTimeouts[i] =
                     IF t.promises[i].state = "pending" /\ t.promises[i].target
                     THEN t.promises[i].timeoutAt ELSE None
               /\ t.tTimeouts[i].typ =
                     CASE t.tasks[i].state = "pending"  -> "retry"
                       [] t.tasks[i].state = "acquired" -> "lease"
                       [] OTHER                         -> "none"
               /\ t.tasks[i].state = "acquired" <=> t.tasks[i].pid # NoPid
               /\ t.tasks[i].state = "acquired" <=> t.tasks[i].ttl # None
      BY DEF TimeoutsScheduled
    <2>1. t.pTimeouts[i] =
             IF t.promises[i].state = "pending" /\ t.promises[i].target
             THEN t.promises[i].timeoutAt ELSE None
      BY <1>6 DEF Inv, TimeoutsScheduled, Settled
    <2>2. CASE i \in S /\ HasTask(s, i)
      BY <1>7, <2>1, <2>2 DEF NoTimeout
    <2>3. CASE AwaitsOne(s, S, i)
      <3>1. /\ t.tasks[i].state = "pending"
            /\ t.tasks[i].pid = s.tasks[i].pid
            /\ t.tasks[i].ttl = s.tasks[i].ttl
            /\ t.tTimeouts[i].typ = "retry"
            /\ s.tasks[i].state = "suspended"
        BY <1>7, <2>3 DEF AwaitsOne
      <3> QED BY <2>1, <3>1 DEF Inv, TimeoutsScheduled
    <2>4. CASE ~ (i \in S /\ HasTask(s, i)) /\ ~ AwaitsOne(s, S, i)
      BY <1>7, <2>1, <2>4 DEF Inv, TimeoutsScheduled
    <2> QED BY <2>2, <2>3, <2>4
  <1>12. AwaitersLive(t)
    <2> SUFFICES ASSUME NEW i \in Id
        PROVE  /\ t.promises[i].state # "pending" =>
                     /\ t.promises[i].awaiters = {}
                     /\ t.promises[i].subscribers = {}
               /\ \A a \in t.promises[i].awaiters :
                     t.tasks[a].state \in {"pending", "acquired", "suspended"}
      BY DEF AwaitersLive
    <2>1. t.promises[i].awaiters \subseteq Id
      BY <1>9 DEF Promise
    <2>2. /\ s.promises[i].awaiters \subseteq Id
          /\ s.promises[i].state # "pending" =>
                /\ s.promises[i].awaiters = {}
                /\ s.promises[i].subscribers = {}
      BY <1>9 DEF Inv, AwaitersLive, Promise
    <2>3. t.promises[i].state # "pending" =>
                /\ t.promises[i].awaiters = {}
                /\ t.promises[i].subscribers = {}
      BY <1>6, <2>1, <2>2
    <2>4. ASSUME NEW a \in t.promises[i].awaiters
          PROVE  t.tasks[a].state \in {"pending", "acquired", "suspended"}
      <3>1. a \in Id /\ a \in s.promises[i].awaiters
              /\ ~ (a \in S /\ HasTask(s, a))
        BY <1>6, <2>1
      <3>2. s.tasks[a].state \in {"pending", "acquired", "suspended"}
        BY <3>1 DEF Inv, AwaitersLive
      <3> QED BY <1>7, <3>1, <3>2
    <2> QED BY <2>3, <2>4
  <1>13. SuspendedAwaitsPending(t)
    <2> SUFFICES ASSUME NEW a \in Id, t.tasks[a].state = "suspended"
                 PROVE  \E i \in Id : /\ t.promises[i].state = "pending"
                                      /\ a \in t.promises[i].awaiters
      BY DEF SuspendedAwaitsPending
    <2>1. /\ s.tasks[a].state = "suspended"
          /\ ~ (a \in S /\ HasTask(s, a))
          /\ ~ AwaitsOne(s, S, a)
      BY <1>7
    <2>2. a \notin S
      BY <2>1 DEF HasTask
    <2>3. PICK i \in Id : /\ s.promises[i].state = "pending"
                          /\ a \in s.promises[i].awaiters
      BY <2>1 DEF Inv, SuspendedAwaitsPending
    <2>4. i \notin S
      BY <2>1, <2>2, <2>3 DEF AwaitsOne
    <2> QED BY <1>6, <2>2, <2>3, <2>4
  <1>14. SettledInTime(t)
    <2> SUFFICES ASSUME NEW i \in Id
        PROVE  LET p == t.promises[i]
               IN  /\ p.state \in Settled <=> p.settledAt # None
                   /\ p.state \in Settled =>
                         \/ /\ p.settledAt = p.timeoutAt
                            /\ p.state = TimeoutState(p)
                         \/ /\ p.settledAt < p.timeoutAt
                            /\ p.state # "rejected_timedout"
      BY DEF SettledInTime
    <2>1. CASE i \in S
      BY <1>6, <2>1 DEF InTime, TimeoutState, None
    <2>2. CASE i \notin S
      BY <1>6, <2>2 DEF Inv, SettledInTime, TimeoutState
    <2> QED BY <2>1, <2>2
  <1>15. Evolves(s, t)
    <2> SUFFICES ASSUME NEW i \in Id
        PROVE  /\ s.promises[i].state \in Settled =>
                     /\ t.promises[i].state = s.promises[i].state
                     /\ t.promises[i].settledAt = s.promises[i].settledAt
               /\ t.tasks[i].version >= s.tasks[i].version
               /\ Rank(t, i) >= Rank(s, i)
               /\ t.tasks[i].state = "acquired" /\ Rank(t, i) = Rank(s, i)
                     => s.tasks[i].state = "acquired"
      BY DEF Evolves
    <2>1. s.promises[i].state \in Settled => i \notin S
      BY DEF Settled
    <2>2. s.tasks[i].version \in Nat
      BY <1>9 DEF Task
    <2>3. Rank(t, i) >= Rank(s, i)
      BY <1>7, <2>2 DEF Rank, AwaitsOne, HasTask
    <2> QED BY <1>6, <1>7, <2>1, <2>2, <2>3
  <1>16. OnlySettles(s, t)
    BY <1>6 DEF OnlySettles, HasPromise, Settled
  <1>17. AbsentFresh(t)
    BY <1>7 DEF AbsentFresh, Inv, HasTask, AwaitsOne
  <1> QED BY <1>1, <1>6, <1>8, <1>10, <1>11, <1>12, <1>13, <1>14, <1>15, <1>16,
             <1>17 DEF Inv

-----------------------------------------------------------------------------
(* Composition *)

LEMMA RankNat ==
    ASSUME NEW s, Inv(s), NEW i \in Id
    PROVE  Rank(s, i) \in Nat
  <1>1. s.tasks[i].version \in Nat
    BY Fields DEF Inv, Task
  <1> QED BY <1>1 DEF Rank

LEMMA EvolvesReflexive ==
    ASSUME NEW s, Inv(s)
    PROVE  Evolves(s, s)
  <1> SUFFICES ASSUME NEW i \in Id
               PROVE  /\ s.tasks[i].version >= s.tasks[i].version
                      /\ Rank(s, i) >= Rank(s, i)
    BY DEF Evolves
  <1>1. Rank(s, i) \in Nat
    BY RankNat
  <1>2. s.tasks[i].version \in Nat
    BY Fields DEF Inv, Task
  <1> QED BY <1>1, <1>2

LEMMA EvolvesTransitive ==
    ASSUME NEW s, NEW t, NEW u, Inv(s), Inv(t), Inv(u),
           Evolves(s, t), Evolves(t, u)
    PROVE  Evolves(s, u)
  <1> SUFFICES ASSUME NEW i \in Id
      PROVE  /\ s.promises[i].state \in Settled =>
                  /\ u.promises[i].state = s.promises[i].state
                  /\ u.promises[i].settledAt = s.promises[i].settledAt
             /\ u.tasks[i].version >= s.tasks[i].version
             /\ Rank(u, i) >= Rank(s, i)
             /\ u.tasks[i].state = "acquired" /\ Rank(u, i) = Rank(s, i) =>
                  s.tasks[i].state = "acquired"
    BY DEF Evolves
  <1>1. /\ s.tasks[i].version \in Nat
        /\ t.tasks[i].version \in Nat
        /\ u.tasks[i].version \in Nat
    BY Fields DEF Inv, Task
  <1>2. Rank(s, i) \in Nat /\ Rank(t, i) \in Nat /\ Rank(u, i) \in Nat
    BY RankNat
  <1> QED BY <1>1, <1>2 DEF Evolves

\* The server starts with nothing.
LEMMA EmptyInv == Inv(Empty) /\ Empty.outgoing = {}
  <1> DEFINE p == NewPromise("absent",
                     [target |-> FALSE, timer |-> FALSE, delay |-> None],
                     0, None)
             k == NewTask("absent", NoPid, None)
             s == Empty
  <1>1. /\ p \in Promise
        /\ p.state = "absent" /\ p.target = FALSE /\ p.settledAt = None
        /\ p.awaiters = {} /\ p.subscribers = {}
    BY DEF NewPromise, Promise, PromiseState
  <1>2. /\ k \in Task
        /\ k.state = "absent" /\ k.version = 0
        /\ k.pid = NoPid /\ k.ttl = None
    BY DEF NewTask, Task, TaskState
  <1>3. NoTimeout \in TTimeout /\ NoTimeout.typ = "none"
    BY DEF NoTimeout, TTimeout
  <1>4. s = [promises  |-> [i \in Id |-> p],
             tasks     |-> [i \in Id |-> k],
             pTimeouts |-> [i \in Id |-> None],
             tTimeouts |-> [i \in Id |-> NoTimeout],
             outgoing  |-> {}]
    BY DEF Empty
  <1> HIDE DEF p, k, s
  <1>5. s \in State /\ s.outgoing = {}
    BY <1>1, <1>2, <1>3, <1>4 DEF State
  <1>6. \A i \in Id : /\ s.promises[i] = p
                      /\ s.tasks[i] = k
                      /\ s.pTimeouts[i] = None
                      /\ s.tTimeouts[i] = NoTimeout
    BY <1>4
  <1>7. AbsentFresh(s) /\ TasksFollowPromises(s)
    BY <1>1, <1>2, <1>6
       DEF AbsentFresh, TasksFollowPromises, HasTask, HasPromise, Settled
  <1>8. TimeoutsScheduled(s)
    BY <1>1, <1>2, <1>3, <1>6 DEF TimeoutsScheduled
  <1>9. AwaitersLive(s) /\ SuspendedAwaitsPending(s) /\ SettledInTime(s)
    BY <1>1, <1>2, <1>6
       DEF AwaitersLive, SuspendedAwaitsPending, SettledInTime, Settled
  <1> QED BY <1>5, <1>7, <1>8, <1>9 DEF Inv, s

LEMMA ClearInv ==
    ASSUME NEW s, Inv(s)
    PROVE  Inv(Clear(s)) /\ Evolves(s, Clear(s)) /\ OnlySettles(s, Clear(s))
  <1> DEFINE t == Clear(s)
  <1>1. /\ t \in State
        /\ t.promises = s.promises
        /\ t.tasks = s.tasks
        /\ t.pTimeouts = s.pTimeouts
        /\ t.tTimeouts = s.tTimeouts
    BY DEF Clear, Inv, State
  <1> HIDE DEF t
  <1>2. Inv(t)
    BY <1>1 DEF Inv, AbsentFresh, TasksFollowPromises, TimeoutsScheduled, AwaitersLive,
                SuspendedAwaitsPending, SettledInTime, HasPromise, HasTask
  <1>3. Evolves(s, t)
    <2>1. Evolves(s, s)
      BY EvolvesReflexive
    <2> QED BY <1>1, <2>1 DEF Evolves, Rank
  <1>4. OnlySettles(s, t)
    BY <1>1 DEF OnlySettles, HasPromise
  <1> QED BY <1>2, <1>3, <1>4 DEF t

LEMMA ExpireInv ==
    ASSUME NEW s, Inv(s), NEW now \in Nat, NEW S \in SUBSET Id,
           \A i \in S : s.promises[i].state = "pending"
    PROVE  LET t == Expire(s, S, now)
           IN  /\ Inv(t) /\ Evolves(s, t) /\ OnlySettles(s, t)
               /\ \A i \in S : t.promises[i].state \in Settled
  <1> DEFINE outcome == [i \in Id |-> TimeoutState(s.promises[i])]
             at == [i \in Id |-> s.promises[i].timeoutAt]
  <1>1. \A i \in S : /\ outcome[i] \in Settled
                     /\ at[i] \in Nat
                     /\ InTime(s.promises[i], outcome[i], at[i])
    BY Fields DEF Inv, Promise, InTime, TimeoutState, Settled
  <1>2. Expire(s, S, now) = Settle(s, S, outcome, at, now)
    BY DEF Expire
  <1> HIDE DEF outcome, at
  <1> QED BY <1>1, <1>2, SettleInv

\* A promise that a request expires first is not overdue for its handler.
LEMMA AutoTimeoutInv ==
    ASSUME NEW s, Inv(s), NEW now \in Nat, NEW id \in Id
    PROVE  LET t == TryAutoTimeout(s, now, id)
           IN  /\ Inv(t) /\ Evolves(s, t) /\ OnlySettles(s, t)
               /\ t.promises[id].state = "pending"
                     => now < t.promises[id].timeoutAt
  <1>1. CASE id \in Due(s, now)
    <2> DEFINE t == Expire(s, {id}, now)
    <2>1. \A i \in {id} : s.promises[i].state = "pending"
      BY <1>1 DEF Due
    <2>2. /\ Inv(t) /\ Evolves(s, t) /\ OnlySettles(s, t)
          /\ \A i \in {id} : t.promises[i].state \in Settled
      BY <2>1, ExpireInv
    <2>3. TryAutoTimeout(s, now, id) = t
      BY <1>1 DEF TryAutoTimeout
    <2> HIDE DEF t
    <2> QED BY <2>2, <2>3 DEF Settled
  <1>2. CASE id \notin Due(s, now)
    <2>1. TryAutoTimeout(s, now, id) = s
      BY <1>2 DEF TryAutoTimeout
    <2>2. s.promises[id].timeoutAt \in Nat
      BY Fields DEF Inv, Promise
    <2>3. OnlySettles(s, s)
      BY DEF OnlySettles
    <2> QED BY <1>2, <2>1, <2>2, <2>3, EvolvesReflexive DEF Due
  <1> QED BY <1>1, <1>2

-----------------------------------------------------------------------------
(* Promise requests *)

\* What holds of a promise that was just created for an id nobody used.
LEMMA NewPromiseType ==
    ASSUME NEW state \in PromiseState, NEW tags \in Tags,
           NEW timeoutAt \in Nat, NEW settledAt \in Nat \cup {None}
    PROVE  LET p == NewPromise(state, tags, timeoutAt, settledAt)
           IN  /\ p \in Promise
               /\ p.state = state
               /\ p.target = tags.target
               /\ p.timer = tags.timer
               /\ p.timeoutAt = timeoutAt
               /\ p.settledAt = settledAt
               /\ p.awaiters = {} /\ p.subscribers = {}
  BY DEF NewPromise, Promise, Tags

LEMMA NewTaskType ==
    ASSUME NEW state \in TaskState, NEW pid \in Pid \cup {NoPid},
           NEW ttl \in Nat \cup {None}
    PROVE  LET k == NewTask(state, pid, ttl)
           IN  /\ k \in Task
               /\ k.state = state /\ k.version = 0
               /\ k.pid = pid /\ k.ttl = ttl
  BY DEF NewTask, Task

\* Nothing Inv speaks of changes about promise i and its task.
Same(s, t, i) ==
    /\ t.promises[i].state = s.promises[i].state
    /\ t.promises[i].target = s.promises[i].target
    /\ t.promises[i].timer = s.promises[i].timer
    /\ t.promises[i].timeoutAt = s.promises[i].timeoutAt
    /\ t.promises[i].settledAt = s.promises[i].settledAt
    /\ t.promises[i].awaiters = s.promises[i].awaiters
    /\ t.promises[i].subscribers = s.promises[i].subscribers
    /\ t.tasks[i].state = s.tasks[i].state
    /\ t.tasks[i].version = s.tasks[i].version
    /\ t.tasks[i].pid = s.tasks[i].pid
    /\ t.tasks[i].ttl = s.tasks[i].ttl
    /\ t.pTimeouts[i] = s.pTimeouts[i]
    /\ t.tTimeouts[i].typ = s.tTimeouts[i].typ

\* Adding the promise id, and perhaps its task, keeps the invariant if the new
\* entries satisfy it on their own.
LEMMA AddInv ==
    ASSUME NEW s, Inv(s), NEW t, t \in State, NEW id \in Id,
           ~ HasPromise(s, id), HasPromise(t, id),
           \A i \in Id \ {id} : Same(s, t, i),
           t.promises[id].awaiters = {}, t.promises[id].subscribers = {},
           t.promises[id].target => HasTask(t, id),
           HasTask(t, id) => (t.tasks[id].state = "fulfilled"
                                 <=> t.promises[id].state \in Settled),
           t.tasks[id].state # "suspended",
           t.pTimeouts[id] =
              IF t.promises[id].state = "pending" /\ t.promises[id].target
              THEN t.promises[id].timeoutAt ELSE None,
           t.tTimeouts[id].typ =
              CASE t.tasks[id].state = "pending"  -> "retry"
                [] t.tasks[id].state = "acquired" -> "lease"
                [] OTHER                          -> "none",
           t.tasks[id].state = "acquired" <=> t.tasks[id].pid # NoPid,
           t.tasks[id].state = "acquired" <=> t.tasks[id].ttl # None,
           t.tasks[id].version = 0,
           t.promises[id].state \in Settled <=> t.promises[id].settledAt # None,
           t.promises[id].state \in Settled =>
              InTime(t.promises[id], t.promises[id].state,
                     t.promises[id].settledAt)
    PROVE  Inv(t) /\ Evolves(s, t)
  <1>1. ~ HasTask(s, id)
    BY DEF Inv, TasksFollowPromises
  <1>2. TasksFollowPromises(t) /\ AbsentFresh(t)
    <2> SUFFICES ASSUME NEW i \in Id
        PROVE  /\ HasTask(t, i) => HasPromise(t, i)
               /\ HasPromise(t, i) /\ t.promises[i].target => HasTask(t, i)
               /\ HasTask(t, i) => (t.tasks[i].state = "fulfilled"
                                       <=> t.promises[i].state \in Settled)
               /\ ~ HasTask(t, i) => t.tasks[i].version = 0
      BY DEF TasksFollowPromises, AbsentFresh
    <2>1. CASE i = id
      BY <2>1
    <2>2. CASE i # id
      <3>1. Same(s, t, i)
        BY <2>2
      <3> QED BY <3>1 DEF Inv, TasksFollowPromises, AbsentFresh, HasPromise,
                          HasTask, Same
    <2> QED BY <2>1, <2>2
  <1>3. TimeoutsScheduled(t)
    <2> SUFFICES ASSUME NEW i \in Id
        PROVE  /\ t.pTimeouts[i] =
                     IF t.promises[i].state = "pending" /\ t.promises[i].target
                     THEN t.promises[i].timeoutAt ELSE None
               /\ t.tTimeouts[i].typ =
                     CASE t.tasks[i].state = "pending"  -> "retry"
                       [] t.tasks[i].state = "acquired" -> "lease"
                       [] OTHER                         -> "none"
               /\ t.tasks[i].state = "acquired" <=> t.tasks[i].pid # NoPid
               /\ t.tasks[i].state = "acquired" <=> t.tasks[i].ttl # None
      BY DEF TimeoutsScheduled
    <2>1. CASE i = id
      BY <2>1
    <2>2. CASE i # id
      BY <2>2 DEF Inv, TimeoutsScheduled, Same
    <2> QED BY <2>1, <2>2
  <1>4. AwaitersLive(t)
    <2> SUFFICES ASSUME NEW i \in Id
        PROVE  /\ t.promises[i].state # "pending" =>
                     /\ t.promises[i].awaiters = {}
                     /\ t.promises[i].subscribers = {}
               /\ \A a \in t.promises[i].awaiters :
                     t.tasks[a].state \in {"pending", "acquired", "suspended"}
      BY DEF AwaitersLive
    <2>1. CASE i = id
      BY <2>1
    <2>2. CASE i # id
      <3>1. /\ s.promises[i].awaiters \subseteq Id
            /\ Same(s, t, i)
        BY <2>2, Fields DEF Inv, Promise
      <3>2. \A a \in s.promises[i].awaiters :
               /\ a # id
               /\ s.tasks[a].state \in {"pending", "acquired", "suspended"}
        BY <1>1, <3>1 DEF Inv, AwaitersLive, HasTask
      <3> QED BY <3>1, <3>2 DEF Inv, AwaitersLive, Same
    <2> QED BY <2>1, <2>2
  <1>5. SuspendedAwaitsPending(t)
    <2> SUFFICES ASSUME NEW a \in Id, t.tasks[a].state = "suspended"
                 PROVE  \E i \in Id : /\ t.promises[i].state = "pending"
                                      /\ a \in t.promises[i].awaiters
      BY DEF SuspendedAwaitsPending
    <2>1. PICK i \in Id : /\ s.promises[i].state = "pending"
                          /\ a \in s.promises[i].awaiters
      BY DEF Inv, SuspendedAwaitsPending, Same
    <2>2. i # id
      BY <2>1 DEF HasPromise
    <2> QED BY <2>1, <2>2 DEF Same
  <1>6. SettledInTime(t)
    <2> SUFFICES ASSUME NEW i \in Id
        PROVE  LET p == t.promises[i]
               IN  /\ p.state \in Settled <=> p.settledAt # None
                   /\ p.state \in Settled =>
                         \/ /\ p.settledAt = p.timeoutAt
                            /\ p.state = TimeoutState(p)
                         \/ /\ p.settledAt < p.timeoutAt
                            /\ p.state # "rejected_timedout"
      BY DEF SettledInTime
    <2>1. CASE i = id
      BY <2>1 DEF InTime
    <2>2. CASE i # id
      BY <2>2 DEF Inv, SettledInTime, Same, TimeoutState
    <2> QED BY <2>1, <2>2
  <1>7. Evolves(s, t)
    <2> SUFFICES ASSUME NEW i \in Id
        PROVE  /\ s.promises[i].state \in Settled =>
                     /\ t.promises[i].state = s.promises[i].state
                     /\ t.promises[i].settledAt = s.promises[i].settledAt
               /\ t.tasks[i].version >= s.tasks[i].version
               /\ Rank(t, i) >= Rank(s, i)
               /\ t.tasks[i].state = "acquired" /\ Rank(t, i) = Rank(s, i)
                     => s.tasks[i].state = "acquired"
      BY DEF Evolves
    <2>1. s.tasks[i].version \in Nat
      BY Fields DEF Inv, Task
    <2>2. CASE i = id
      BY <1>1, <2>1, <2>2 DEF Rank, HasTask, HasPromise, Settled, Inv,
                               AbsentFresh
    <2>3. CASE i # id
      <3>1. Evolves(s, s)
        BY EvolvesReflexive
      <3> QED BY <2>3, <3>1 DEF Evolves, Rank, Same
    <2> QED BY <2>2, <2>3
  <1> QED BY <1>2, <1>3, <1>4, <1>5, <1>6, <1>7 DEF Inv

LEMMA PromiseCreateInv ==
    ASSUME NEW s, Inv(s), NEW now \in Nat, NEW id \in Id,
           NEW timeoutAt \in Nat, NEW tags \in Tags
    PROVE  LET t == PromiseCreate(s, now, id, timeoutAt, tags)
           IN  Inv(t) /\ Evolves(s, t)
  <1> DEFINE t == PromiseCreate(s, now, id, timeoutAt, tags)
  <1>1. CASE HasPromise(s, id)
    BY <1>1, EvolvesReflexive DEF PromiseCreate
  <1>2. CASE ~ HasPromise(s, id) /\ now >= timeoutAt
    <2> DEFINE p == NewPromise("absent", tags, timeoutAt, timeoutAt)
               q == [p EXCEPT !.state = TimeoutState(p)]
               u == PutPromise(s, id, q)
    <2>1. ~ HasTask(s, id)
      BY <1>2 DEF Inv, TasksFollowPromises
    <2>2. /\ q \in Promise
          /\ q.state = TimeoutState(q) /\ q.state \in Settled
          /\ q.target = tags.target
          /\ q.timeoutAt = timeoutAt /\ q.settledAt = timeoutAt
          /\ q.awaiters = {} /\ q.subscribers = {}
      <3>1. "absent" \in PromiseState /\ timeoutAt \in Nat \cup {None}
        BY DEF PromiseState
      <3>2. /\ p \in Promise
            /\ p.target = tags.target
            /\ p.timeoutAt = timeoutAt /\ p.settledAt = timeoutAt
            /\ p.awaiters = {} /\ p.subscribers = {}
        BY <3>1, NewPromiseType
      <3> HIDE DEF p
      <3> QED BY <3>2 DEF Promise, PromiseState, TimeoutState, Settled
    <2> HIDE DEF q
    <2>3. /\ u \in State
          /\ u.promises[id] = q
          /\ \A i \in Id \ {id} : u.promises[i] = s.promises[i]
          /\ u.tasks = s.tasks
          /\ u.pTimeouts = s.pTimeouts
          /\ u.tTimeouts = s.tTimeouts
      BY <2>2 DEF PutPromise, Inv, State
    <2>4. t = Propagate(u, {id}, now)
      BY <1>2 DEF PromiseCreate, q
    <2> HIDE DEF u, t
    <2>5. Propagated(u, {id}, now, t)
      BY <2>2, <2>3, <2>4, PropagateFacts
    <2>6. /\ Unfinished(u, {id}) = {}
          /\ \A i \in Id : ~ AwaitsOne(u, {id}, i)
          /\ Missing(u, {id}) = IF tags.target THEN {id} ELSE {}
      BY <2>1, <2>2, <2>3 DEF Unfinished, AwaitsOne, Missing, HasTask
    <2>7. ASSUME NEW i \in Id \ {id} PROVE Same(s, t, i)
      <3>1. /\ i \notin Missing(u, {id}) \cup Unfinished(u, {id})
            /\ Unfinished(u, {id}) = {}
            /\ ~ AwaitsOne(u, {id}, i)
        BY <2>6
      <3>2. t.pTimeouts = u.pTimeouts
        BY <2>5 DEF Propagated
      <3>3. /\ t.promises[i].state = u.promises[i].state
            /\ t.promises[i].target = u.promises[i].target
            /\ t.promises[i].timer = u.promises[i].timer
            /\ t.promises[i].timeoutAt = u.promises[i].timeoutAt
            /\ t.promises[i].settledAt = u.promises[i].settledAt
            /\ t.promises[i].awaiters =
                  u.promises[i].awaiters \ Unfinished(u, {id})
            /\ t.promises[i].subscribers = u.promises[i].subscribers
        BY <2>5 DEF Propagated
      <3>4. /\ t.tasks[i].state = u.tasks[i].state
            /\ t.tasks[i].version = u.tasks[i].version
            /\ t.tasks[i].pid = u.tasks[i].pid
            /\ t.tasks[i].ttl = u.tasks[i].ttl
            /\ t.tTimeouts[i] = u.tTimeouts[i]
        BY <2>5, <3>1 DEF Propagated
      <3> QED BY <2>3, <3>1, <3>2, <3>3, <3>4 DEF Same
    <2>8. /\ t \in State
          /\ t.promises[id].state = q.state
          /\ t.promises[id].target = tags.target
          /\ t.promises[id].timer = q.timer
          /\ t.promises[id].timeoutAt = timeoutAt
          /\ t.promises[id].settledAt = timeoutAt
          /\ t.promises[id].awaiters = {}
          /\ t.promises[id].subscribers = {}
      BY <2>2, <2>3, <2>5 DEF Propagated
    <2>9. /\ t.pTimeouts[id] = s.pTimeouts[id]
          /\ t.tTimeouts[id] = s.tTimeouts[id]
          /\ t.tasks[id].state = IF tags.target THEN "fulfilled" ELSE "absent"
          /\ t.tasks[id].version = 0
          /\ t.tasks[id].pid = IF tags.target THEN NoPid ELSE s.tasks[id].pid
          /\ t.tasks[id].ttl = IF tags.target THEN None ELSE s.tasks[id].ttl
      <3>1. /\ ~ AwaitsOne(u, {id}, id)
            /\ id \notin Unfinished(u, {id})
            /\ id \in Missing(u, {id}) <=> tags.target
        BY <2>6
      <3>2. t.pTimeouts = u.pTimeouts
        BY <2>5 DEF Propagated
      <3>3. /\ t.tasks[id].state = IF id \in Missing(u, {id}) THEN "fulfilled"
                                   ELSE u.tasks[id].state
            /\ t.tasks[id].version = IF id \in Missing(u, {id}) THEN 0
                                     ELSE u.tasks[id].version
            /\ t.tasks[id].pid = IF id \in Missing(u, {id}) THEN NoPid
                                 ELSE u.tasks[id].pid
            /\ t.tasks[id].ttl = IF id \in Missing(u, {id}) THEN None
                                 ELSE u.tasks[id].ttl
            /\ t.tTimeouts[id] = u.tTimeouts[id]
        BY <2>5, <3>1 DEF Propagated
      <3> QED BY <2>1, <2>3, <3>1, <3>2, <3>3 DEF HasTask, Inv, AbsentFresh
    <2>10. /\ s.pTimeouts[id] = None
           /\ s.tTimeouts[id].typ = "none"
           /\ s.tasks[id].pid = NoPid
           /\ s.tasks[id].ttl = None
      BY <1>2, <2>1 DEF Inv, TimeoutsScheduled, HasPromise, HasTask
    <2>11. Inv(t) /\ Evolves(s, t)
      <3>1. /\ HasPromise(t, id)
            /\ t.promises[id].state \in Settled
            /\ t.promises[id].state # "pending"
            /\ t.promises[id].settledAt # None
        BY <2>2, <2>8 DEF HasPromise, Settled, None
      <3>2. InTime(t.promises[id], t.promises[id].state,
                   t.promises[id].settledAt)
        BY <2>2, <2>8 DEF InTime, TimeoutState
      <3>3. /\ t.promises[id].target => HasTask(t, id)
            /\ HasTask(t, id) => t.tasks[id].state = "fulfilled"
            /\ t.tasks[id].state \in {"absent", "fulfilled"}
            /\ t.tasks[id].pid = NoPid /\ t.tasks[id].ttl = None
            /\ t.pTimeouts[id] = None
            /\ t.tTimeouts[id].typ = "none"
            /\ t.tasks[id].version = 0
        BY <2>8, <2>9, <2>10 DEF HasTask
      <3> QED BY <1>2, <2>7, <2>8, <3>1, <3>2, <3>3, AddInv
    <2> QED BY <2>11 DEF t
  <1>3. CASE ~ HasPromise(s, id) /\ ~ (now >= timeoutAt)
    <2> DEFINE q == NewPromise("pending", tags, timeoutAt, None)
               u == PutPromise(s, id, q)
    <2>1. ~ HasTask(s, id)
      BY <1>3 DEF Inv, TasksFollowPromises
    <2>2. /\ q \in Promise
          /\ q.state = "pending"
          /\ q.target = tags.target
          /\ q.timeoutAt = timeoutAt /\ q.settledAt = None
          /\ q.awaiters = {} /\ q.subscribers = {}
      <3>1. "pending" \in PromiseState /\ None \in Nat \cup {None}
        BY DEF PromiseState
      <3> QED BY <3>1 DEF NewPromise, Promise, Tags
    <2> HIDE DEF q
    <2>3. /\ u \in State
          /\ u.promises[id] = q
          /\ \A i \in Id \ {id} : u.promises[i] = s.promises[i]
          /\ u.tasks = s.tasks
          /\ u.pTimeouts = s.pTimeouts
          /\ u.tTimeouts = s.tTimeouts
      BY <2>2 DEF PutPromise, Inv, State
    <2>4. t = IF tags.target THEN Schedule(u, now, id, tags, timeoutAt) ELSE u
      BY <1>3 DEF PromiseCreate, q
    <2>5. /\ s.pTimeouts[id] = None
          /\ s.tTimeouts[id].typ = "none"
          /\ s.tasks[id].pid = NoPid
          /\ s.tasks[id].ttl = None
          /\ s.tasks[id].version = 0
      BY <1>3, <2>1 DEF Inv, TimeoutsScheduled, AbsentFresh, HasPromise, HasTask
    <2>6. /\ HasPromise(u, id)
          /\ u.promises[id].state \notin Settled
          /\ \A i \in Id \ {id} : Same(s, u, i)
      BY <2>2, <2>3 DEF HasPromise, Settled, Same
    <2>7. CASE ~ tags.target
      <3>1. t = u
        BY <2>4, <2>7
      <3>2. /\ ~ HasTask(u, id)
            /\ ~ u.promises[id].target
            /\ u.tasks[id].state = "absent"
        BY <2>1, <2>2, <2>3, <2>7 DEF HasTask
      <3> HIDE DEF u, t
      <3>3. Inv(u) /\ Evolves(s, u)
        BY <1>3, <2>2, <2>3, <2>5, <2>6, <3>2, AddInv DEF HasTask
      <3> QED BY <3>1, <3>3 DEF t
    <2>8. CASE tags.target
      <3> DEFINE at == IF now < tags.delay THEN tags.delay ELSE now + RetryTTL
                 k == NewTask("pending", NoPid, None)
                 v == SetTTimeout(PutTask(SetPTimeout(u, id, timeoutAt), id, k),
                                  id, "retry", at)
      <3>1. /\ k \in Task
            /\ k.state = "pending" /\ k.version = 0
            /\ k.pid = NoPid /\ k.ttl = None
        BY DEF NewTask, Task, TaskState
      <3>2. [typ |-> "retry", at |-> at] \in TTimeout
        BY ServerAssumption DEF TTimeout, Tags
      <3>3. t = IF now < tags.delay THEN v ELSE SendExecuteMessage(v, {id})
        BY <2>4, <2>8 DEF Schedule
      <3> HIDE DEF u, k, at
      <3>4. /\ v \in State
            /\ v.promises = u.promises
            /\ v.tasks[id] = k
            /\ v.pTimeouts[id] = timeoutAt
            /\ v.tTimeouts[id].typ = "retry"
            /\ \A i \in Id \ {id} : /\ v.tasks[i] = u.tasks[i]
                                    /\ v.pTimeouts[i] = u.pTimeouts[i]
                                    /\ v.tTimeouts[i] = u.tTimeouts[i]
        BY <2>3, <3>1, <3>2 DEF SetTTimeout, PutTask, SetPTimeout, State
      <3> HIDE DEF v, t
      <3>5. /\ t \in State
            /\ t.promises = v.promises
            /\ t.tasks = v.tasks
            /\ t.pTimeouts = v.pTimeouts
            /\ t.tTimeouts = v.tTimeouts
        BY <3>3, <3>4, SendFacts
      <3>6. \A i \in Id \ {id} : Same(s, t, i)
        <4> TAKE i \in Id \ {id}
        <4>1. /\ t.promises[i] = u.promises[i]
              /\ t.tasks[i] = u.tasks[i]
              /\ t.pTimeouts[i] = u.pTimeouts[i]
              /\ t.tTimeouts[i] = u.tTimeouts[i]
          BY <3>4, <3>5
        <4> QED BY <2>6, <4>1 DEF Same
      <3>7. /\ HasPromise(t, id)
            /\ t.promises[id].state = "pending"
            /\ t.promises[id].state \notin Settled
            /\ t.promises[id].settledAt = None
            /\ t.promises[id].awaiters = {}
            /\ t.promises[id].subscribers = {}
            /\ t.pTimeouts[id] = t.promises[id].timeoutAt
            /\ t.promises[id].target
            /\ HasTask(t, id)
            /\ t.tasks[id].state = "pending"
            /\ t.tasks[id].version = 0
            /\ t.tasks[id].pid = NoPid
            /\ t.tasks[id].ttl = None
            /\ t.tTimeouts[id].typ = "retry"
        <4>1. t.promises[id] = q /\ t.tasks[id] = k
          BY <2>3, <3>4, <3>5
        <4>2. t.pTimeouts[id] = timeoutAt /\ t.tTimeouts[id].typ = "retry"
          BY <3>4, <3>5
        <4> QED BY <2>2, <2>8, <3>1, <4>1, <4>2
                DEF HasPromise, HasTask, Settled
      <3>8. Inv(t) /\ Evolves(s, t)
        BY <1>3, <3>5, <3>6, <3>7, AddInv
      <3> QED BY <3>8 DEF t
    <2> QED BY <2>7, <2>8
  <1> QED BY <1>1, <1>2, <1>3

LEMMA PromiseSettleInv ==
    ASSUME NEW s, Inv(s), NEW now \in Nat, NEW id \in Id,
           NEW outcome \in SettleState,
           s.promises[id].state = "pending" => now < s.promises[id].timeoutAt
    PROVE  LET t == PromiseSettle(s, now, id, outcome)
           IN  Inv(t) /\ Evolves(s, t)
  <1>1. CASE s.promises[id].state = "pending"
    <2> DEFINE o == [i \in Id |-> outcome]
               at == [i \in Id |-> now]
               t == Settle(s, {id}, o, at, now)
    <2>1. \A i \in {id} : /\ s.promises[i].state = "pending"
                          /\ o[i] \in Settled
                          /\ at[i] \in Nat
                          /\ InTime(s.promises[i], o[i], at[i])
      BY <1>1 DEF InTime, SettleState, Settled
    <2>2. PromiseSettle(s, now, id, outcome) = t
      BY <1>1 DEF PromiseSettle
    <2> HIDE DEF o, at
    <2>3. Inv(t) /\ Evolves(s, t)
      BY <2>1, SettleInv
    <2> HIDE DEF t
    <2> QED BY <2>2, <2>3
  <1>2. CASE s.promises[id].state # "pending"
    BY <1>2, EvolvesReflexive DEF PromiseSettle
  <1> QED BY <1>1, <1>2

LEMMA RegisterListenerInv ==
    ASSUME NEW s, Inv(s), NEW id \in Id, NEW addr \in Addr
    PROVE  LET t == PromiseRegisterListener(s, id, addr)
           IN  Inv(t) /\ Evolves(s, t)
  <1>1. CASE s.promises[id].state = "pending"
    <2> DEFINE q == [s.promises[id] EXCEPT !.subscribers = @ \cup {addr}]
               t == PutPromise(s, id, q)
    <2>1. PromiseRegisterListener(s, id, addr) = t
      BY <1>1 DEF PromiseRegisterListener
    <2>2. s.promises[id] \in Promise
      BY Fields DEF Inv
    <2>3. /\ q \in Promise
          /\ q.state = s.promises[id].state
          /\ q.target = s.promises[id].target
          /\ q.timer = s.promises[id].timer
          /\ q.timeoutAt = s.promises[id].timeoutAt
          /\ q.settledAt = s.promises[id].settledAt
          /\ q.awaiters = s.promises[id].awaiters
      BY <2>2 DEF Promise
    <2> HIDE DEF q
    <2>4. /\ t \in State
          /\ t.promises[id] = q
          /\ \A i \in Id \ {id} : t.promises[i] = s.promises[i]
          /\ t.tasks = s.tasks
          /\ t.pTimeouts = s.pTimeouts
          /\ t.tTimeouts = s.tTimeouts
      BY <2>3 DEF PutPromise, Inv, State
    <2> HIDE DEF t
    <2>5. \A i \in Id : /\ t.promises[i].state = s.promises[i].state
                        /\ t.promises[i].target = s.promises[i].target
                        /\ t.promises[i].timer = s.promises[i].timer
                        /\ t.promises[i].timeoutAt = s.promises[i].timeoutAt
                        /\ t.promises[i].settledAt = s.promises[i].settledAt
                        /\ t.promises[i].awaiters = s.promises[i].awaiters
                        /\ s.promises[i].state # "pending" =>
                             t.promises[i].subscribers = s.promises[i].subscribers
      BY <1>1, <2>3, <2>4
    <2>6. Inv(t)
      BY <2>4, <2>5 DEF Inv, AbsentFresh, TasksFollowPromises,
         TimeoutsScheduled, AwaitersLive, SuspendedAwaitsPending,
         SettledInTime, TimeoutState, HasPromise, HasTask
    <2>7. Evolves(s, t)
      <3>1. Evolves(s, s)
        BY EvolvesReflexive
      <3> QED BY <2>4, <2>5, <3>1 DEF Evolves, Rank
    <2> QED BY <2>1, <2>6, <2>7
  <1>2. CASE s.promises[id].state # "pending"
    BY <1>2, EvolvesReflexive DEF PromiseRegisterListener
  <1> QED BY <1>1, <1>2

-----------------------------------------------------------------------------
(* Task requests *)

\* The lease of task i is as it was.
KeepsTask(s, t, i) ==
    /\ t.tasks[i].state = s.tasks[i].state
    /\ t.tasks[i].version = s.tasks[i].version
    /\ t.tasks[i].pid = s.tasks[i].pid
    /\ t.tasks[i].ttl = s.tasks[i].ttl
    /\ t.tTimeouts[i].typ = s.tTimeouts[i].typ

\* A pending task is acquired under its version.
Acquires(s, t, i) ==
    /\ s.tasks[i].state = "pending" /\ t.tasks[i].state = "acquired"
    /\ t.tasks[i].version = s.tasks[i].version
    /\ t.tasks[i].pid # NoPid /\ t.tasks[i].ttl # None
    /\ t.tTimeouts[i].typ = "lease"

\* An acquired task is given up: the next version is pending.
GivesUp(s, t, i) ==
    /\ s.tasks[i].state = "acquired" /\ t.tasks[i].state = "pending"
    /\ t.tasks[i].version = s.tasks[i].version + 1
    /\ t.tasks[i].pid = NoPid /\ t.tasks[i].ttl = None
    /\ t.tTimeouts[i].typ = "retry"

\* Steps that change no promise and only acquire tasks and give them up.
LEMMA LeaseInv ==
    ASSUME NEW s, Inv(s), NEW t, t \in State,
           t.promises = s.promises, t.pTimeouts = s.pTimeouts,
           \A i \in Id :
              KeepsTask(s, t, i) \/ Acquires(s, t, i) \/ GivesUp(s, t, i)
    PROVE  Inv(t) /\ Evolves(s, t)
  <1>1. ASSUME NEW i \in Id
        PROVE  /\ s.tasks[i].version \in Nat
               /\ HasTask(t, i) <=> HasTask(s, i)
               /\ HasPromise(t, i) <=> HasPromise(s, i)
               /\ t.tasks[i].state = "fulfilled"
                     <=> s.tasks[i].state = "fulfilled"
               /\ t.tasks[i].state = "suspended"
                     <=> s.tasks[i].state = "suspended"
               /\ ~ HasTask(t, i) => t.tasks[i].version = s.tasks[i].version
    <2>1. s.tasks[i] \in Task
      BY Fields DEF Inv
    <2> QED BY <2>1 DEF Task, HasTask, HasPromise, KeepsTask, Acquires, GivesUp
  <1>2. TasksFollowPromises(t)
    BY <1>1 DEF Inv, TasksFollowPromises
  <1>3. AbsentFresh(t)
    BY <1>1 DEF Inv, AbsentFresh
  <1>4. TimeoutsScheduled(t)
    <2> SUFFICES ASSUME NEW i \in Id
        PROVE  /\ t.pTimeouts[i] =
                     IF t.promises[i].state = "pending" /\ t.promises[i].target
                     THEN t.promises[i].timeoutAt ELSE None
               /\ t.tTimeouts[i].typ =
                     CASE t.tasks[i].state = "pending"  -> "retry"
                       [] t.tasks[i].state = "acquired" -> "lease"
                       [] OTHER                         -> "none"
               /\ t.tasks[i].state = "acquired" <=> t.tasks[i].pid # NoPid
               /\ t.tasks[i].state = "acquired" <=> t.tasks[i].ttl # None
      BY DEF TimeoutsScheduled
    <2>1. CASE KeepsTask(s, t, i)
      BY <2>1 DEF Inv, TimeoutsScheduled, KeepsTask
    <2>2. CASE Acquires(s, t, i)
      BY <2>2 DEF Inv, TimeoutsScheduled, Acquires
    <2>3. CASE GivesUp(s, t, i)
      BY <2>3 DEF Inv, TimeoutsScheduled, GivesUp
    <2> QED BY <2>1, <2>2, <2>3
  <1>5. AwaitersLive(t)
    <2> SUFFICES ASSUME NEW i \in Id, NEW a \in t.promises[i].awaiters
        PROVE  t.tasks[a].state \in {"pending", "acquired", "suspended"}
      BY DEF AwaitersLive, Inv
    <2>1. a \in Id /\ a \in s.promises[i].awaiters
      BY Fields DEF Inv, Promise
    <2>2. s.tasks[a].state \in {"pending", "acquired", "suspended"}
      BY <2>1 DEF Inv, AwaitersLive
    <2> QED BY <2>1, <2>2 DEF KeepsTask, Acquires, GivesUp
  <1>6. SuspendedAwaitsPending(t) /\ SettledInTime(t)
    BY <1>1 DEF Inv, SuspendedAwaitsPending, SettledInTime
  <1>7. Evolves(s, t)
    <2> SUFFICES ASSUME NEW i \in Id
        PROVE  /\ t.tasks[i].version >= s.tasks[i].version
               /\ Rank(t, i) >= Rank(s, i)
               /\ t.tasks[i].state = "acquired" /\ Rank(t, i) = Rank(s, i) =>
                     s.tasks[i].state = "acquired"
      BY DEF Evolves
    <2>1. s.tasks[i].version \in Nat
      BY <1>1
    <2>2. CASE KeepsTask(s, t, i)
      BY <2>1, <2>2 DEF Rank, KeepsTask
    <2>3. CASE Acquires(s, t, i)
      BY <2>1, <2>3 DEF Rank, Acquires
    <2>4. CASE GivesUp(s, t, i)
      BY <2>1, <2>4 DEF Rank, GivesUp
    <2> QED BY <2>2, <2>3, <2>4
  <1> QED BY <1>2, <1>3, <1>4, <1>5, <1>6, <1>7 DEF Inv

LEMMA SaturatingNat ==
    ASSUME NEW a \in Nat, NEW b \in Nat
    PROVE  SaturatingAdd(a, b) \in Nat
  BY ServerAssumption DEF SaturatingAdd

LEMMA AcquireInv ==
    ASSUME NEW s, Inv(s), NEW now \in Nat, NEW id \in Id, NEW pid \in Pid,
           NEW ttl \in Nat, s.tasks[id].state = "pending"
    PROVE  LET t == AcquireTask(s, now, id, pid, ttl)
           IN  Inv(t) /\ Evolves(s, t)
  <1> DEFINE k == Hold(s.tasks[id], pid, ttl)
             at == SaturatingAdd(now, ttl)
             t == SetTTimeout(PutTask(s, id, k), id, "lease", at)
  <1>1. /\ k \in Task
        /\ k.state = "acquired"
        /\ k.version = s.tasks[id].version
        /\ k.pid = pid /\ k.ttl = ttl
    <2>1. s.tasks[id] \in Task
      BY Fields DEF Inv
    <2> QED BY <2>1 DEF Hold, Task, TaskState
  <1>2. [typ |-> "lease", at |-> at] \in TTimeout
    BY SaturatingNat DEF TTimeout
  <1>3. AcquireTask(s, now, id, pid, ttl) = t
    BY DEF AcquireTask
  <1> HIDE DEF k, at
  <1>4. /\ t \in State
        /\ t.promises = s.promises
        /\ t.pTimeouts = s.pTimeouts
        /\ t.tasks[id] = k
        /\ t.tTimeouts[id].typ = "lease"
        /\ \A i \in Id \ {id} : /\ t.tasks[i] = s.tasks[i]
                                /\ t.tTimeouts[i] = s.tTimeouts[i]
    BY <1>1, <1>2 DEF SetTTimeout, PutTask, Inv, State
  <1> HIDE DEF t
  <1>5. pid # NoPid /\ ttl # None
    BY ServerAssumption DEF None
  <1>6. ASSUME NEW i \in Id
        PROVE  KeepsTask(s, t, i) \/ Acquires(s, t, i)
    BY <1>1, <1>4, <1>5 DEF KeepsTask, Acquires
  <1> QED BY <1>3, <1>4, <1>6, LeaseInv

LEMMA ReleaseInv ==
    ASSUME NEW s, Inv(s), NEW now \in Nat, NEW S \in SUBSET Id,
           \A i \in S : s.tasks[i].state = "acquired"
    PROVE  LET t == ReleaseTasks(s, S, now)
           IN  Inv(t) /\ Evolves(s, t)
  <1> DEFINE tk(i) == IF i \in S
                      THEN [s.tasks[i] EXCEPT !.state = "pending",
                                !.version = NextVersion(@), !.pid = NoPid,
                                !.ttl = None]
                      ELSE s.tasks[i]
             tt(i) == IF i \in S THEN [typ |-> "retry", at |-> now + RetryTTL]
                                 ELSE s.tTimeouts[i]
             u == [s EXCEPT !.tasks = [i \in Id |-> tk(i)],
                            !.tTimeouts = [i \in Id |-> tt(i)]]
             t == SendExecuteMessage(u, S)
  <1>1. ReleaseTasks(s, S, now) = t
    BY DEF ReleaseTasks
  <1>2. ASSUME NEW i \in Id
        PROVE  /\ tk(i) \in Task
               /\ i \in S => /\ tk(i).state = "pending"
                             /\ tk(i).version = s.tasks[i].version + 1
                             /\ tk(i).pid = NoPid /\ tk(i).ttl = None
               /\ i \notin S => tk(i) = s.tasks[i]
    <2>1. s.tasks[i] \in Task /\ s.tasks[i].version + 1 \in Nat
      BY Fields DEF Inv, Task
    <2>2. tk(i) = IF i \in S
                  THEN [s.tasks[i] EXCEPT !.state = "pending",
                            !.version = s.tasks[i].version + 1,
                            !.pid = NoPid, !.ttl = None]
                  ELSE s.tasks[i]
      BY DEF NextVersion
    <2> HIDE DEF tk
    <2> QED BY <2>1, <2>2 DEF Task, TaskState
  <1>3. ASSUME NEW i \in Id
        PROVE  /\ tt(i) \in TTimeout
               /\ tt(i).typ = IF i \in S THEN "retry" ELSE s.tTimeouts[i].typ
    BY Fields, ServerAssumption DEF Inv, TTimeout
  <1> HIDE DEF tk, tt
  <1>4. /\ u \in State
        /\ u.promises = s.promises
        /\ u.pTimeouts = s.pTimeouts
        /\ \A i \in Id : u.tasks[i] = tk(i) /\ u.tTimeouts[i] = tt(i)
    BY <1>2, <1>3 DEF Inv, State
  <1> HIDE DEF u
  <1>5. /\ t \in State
        /\ t.promises = s.promises
        /\ t.pTimeouts = s.pTimeouts
        /\ \A i \in Id : t.tasks[i] = tk(i) /\ t.tTimeouts[i] = tt(i)
    BY <1>4, SendFacts
  <1> HIDE DEF t
  <1>6. ASSUME NEW i \in Id
        PROVE  KeepsTask(s, t, i) \/ GivesUp(s, t, i)
    BY <1>2, <1>3, <1>5 DEF KeepsTask, GivesUp
  <1> QED BY <1>1, <1>5, <1>6, LeaseInv

\* A step that moves the timers of pending and acquired tasks, and announces
\* tasks, changes nothing else.
LEMMA TimersInv ==
    ASSUME NEW s, Inv(s), NEW t, t \in State,
           t.promises = s.promises, t.pTimeouts = s.pTimeouts,
           t.tasks = s.tasks,
           \A i \in Id : t.tTimeouts[i].typ = s.tTimeouts[i].typ
    PROVE  Inv(t) /\ Evolves(s, t)
  <1>1. \A i \in Id : KeepsTask(s, t, i)
    BY DEF KeepsTask
  <1> QED BY <1>1, LeaseInv

LEMMA RetryInv ==
    ASSUME NEW s, Inv(s), NEW now \in Nat, NEW S \in SUBSET Id,
           \A i \in S : s.tasks[i].state = "pending"
    PROVE  LET t == RetryTasks(s, S, now)
           IN  Inv(t) /\ Evolves(s, t)
  <1> DEFINE tt(i) == IF i \in S THEN [typ |-> "retry", at |-> now + RetryTTL]
                                 ELSE s.tTimeouts[i]
             u == [s EXCEPT !.tTimeouts = [i \in Id |-> tt(i)]]
             t == SendExecuteMessage(u, S)
  <1>1. RetryTasks(s, S, now) = t
    BY DEF RetryTasks
  <1>2. ASSUME NEW i \in Id
        PROVE  tt(i) \in TTimeout /\ tt(i).typ = s.tTimeouts[i].typ
    BY Fields, ServerAssumption DEF Inv, TTimeout, TimeoutsScheduled
  <1> HIDE DEF tt
  <1>3. /\ u \in State
        /\ u.promises = s.promises
        /\ u.tasks = s.tasks
        /\ u.pTimeouts = s.pTimeouts
        /\ \A i \in Id : u.tTimeouts[i] = tt(i)
    BY <1>2 DEF Inv, State
  <1> HIDE DEF u
  <1>4. /\ t \in State
        /\ t.promises = s.promises
        /\ t.tasks = s.tasks
        /\ t.pTimeouts = s.pTimeouts
        /\ \A i \in Id : t.tTimeouts[i] = tt(i)
    BY <1>3, SendFacts
  <1> HIDE DEF t
  <1> QED BY <1>1, <1>2, <1>4, TimersInv

LEMMA TaskAcquireInv ==
    ASSUME NEW s, Inv(s), NEW now \in Nat, NEW id \in Id, NEW pid \in Pid,
           NEW ttl \in Nat
    PROVE  LET t == TaskAcquire(s, now, id, pid, ttl)
           IN  Inv(t) /\ Evolves(s, t)
  <1> DEFINE least == IF ttl < 1 THEN 1 ELSE ttl
  <1>1. least \in Nat
    OBVIOUS
  <1>2. TaskAcquire(s, now, id, pid, ttl) =
            IF s.tasks[id].state = "pending"
            THEN AcquireTask(s, now, id, pid, least) ELSE s
    BY DEF TaskAcquire
  <1> HIDE DEF least
  <1> QED BY <1>1, <1>2, AcquireInv, EvolvesReflexive

LEMMA TaskReleaseInv ==
    ASSUME NEW s, Inv(s), NEW now \in Nat, NEW id \in Id
    PROVE  LET t == TaskRelease(s, now, id)
           IN  Inv(t) /\ Evolves(s, t)
  <1>1. CASE s.tasks[id].state = "acquired"
    <2>1. TaskRelease(s, now, id) = ReleaseTasks(s, {id}, now)
      BY <1>1 DEF TaskRelease
    <2>2. {id} \in SUBSET Id /\ \A i \in {id} : s.tasks[i].state = "acquired"
      BY <1>1
    <2> QED BY <2>1, <2>2, ReleaseInv
  <1>2. CASE s.tasks[id].state # "acquired"
    BY <1>2, EvolvesReflexive DEF TaskRelease
  <1> QED BY <1>1, <1>2

\* The promise of an acquired task is pending: the branch that finds it settled
\* is dead.
LEMMA AcquiredPending ==
    ASSUME NEW s, Inv(s), NEW id \in Id, s.tasks[id].state = "acquired"
    PROVE  s.promises[id].state = "pending"
  <1>1. s.promises[id] \in Promise
    BY Fields DEF Inv
  <1> QED BY <1>1 DEF Inv, TasksFollowPromises, HasTask, HasPromise, Promise,
                      PromiseState

LEMMA TaskFulfillInv ==
    ASSUME NEW s, Inv(s), NEW now \in Nat, NEW id \in Id,
           NEW outcome \in SettleState,
           s.promises[id].state = "pending" => now < s.promises[id].timeoutAt
    PROVE  LET t == TaskFulfill(s, now, id, outcome)
           IN  Inv(t) /\ Evolves(s, t)
  <1>1. CASE s.tasks[id].state = "acquired"
    <2>1. TaskFulfill(s, now, id, outcome) = PromiseSettle(s, now, id, outcome)
      BY <1>1, AcquiredPending DEF TaskFulfill
    <2> QED BY <2>1, PromiseSettleInv
  <1>2. CASE s.tasks[id].state # "acquired"
    BY <1>2, EvolvesReflexive DEF TaskFulfill
  <1> QED BY <1>1, <1>2

LEMMA FenceCreateInv ==
    ASSUME NEW s, Inv(s), NEW now \in Nat, NEW id \in Id, NEW version,
           NEW child \in Id, NEW timeoutAt \in Nat, NEW tags \in Tags
    PROVE  LET t == TaskFenceCreate(s, now, id, version, child, timeoutAt, tags)
           IN  Inv(t) /\ Evolves(s, t)
  BY PromiseCreateInv, EvolvesReflexive DEF TaskFenceCreate

LEMMA FenceSettleInv ==
    ASSUME NEW s, Inv(s), NEW now \in Nat, NEW id \in Id, NEW version,
           NEW child \in Id, NEW outcome \in SettleState,
           s.promises[child].state = "pending"
              => now < s.promises[child].timeoutAt
    PROVE  LET t == TaskFenceSettle(s, now, id, version, child, outcome)
           IN  Inv(t) /\ Evolves(s, t)
  BY PromiseSettleInv, EvolvesReflexive DEF TaskFenceSettle

LEMMA HeartbeatInv ==
    ASSUME NEW s, Inv(s), NEW now \in Nat, NEW pid, NEW refs
    PROVE  LET t == TaskHeartbeat(s, now, pid, refs)
           IN  Inv(t) /\ Evolves(s, t)
  <1> DEFINE beats(i) == /\ s.tasks[i].state = "acquired"
                         /\ <<i, s.tasks[i].version>> \in refs
                         /\ s.tasks[i].pid = pid
             tt(i) == IF beats(i)
                      THEN [typ |-> "lease",
                            at |-> SaturatingAdd(now, s.tasks[i].ttl)]
                      ELSE s.tTimeouts[i]
             t == [s EXCEPT !.tTimeouts = [i \in Id |-> tt(i)]]
  <1>1. ASSUME NEW i \in Id
        PROVE  tt(i) \in TTimeout /\ tt(i).typ = s.tTimeouts[i].typ
    <2>1. CASE beats(i)
      <3>1. s.tasks[i].ttl \in Nat
        BY <2>1, Fields DEF Inv, TimeoutsScheduled, Task
      <3>2. SaturatingAdd(now, s.tasks[i].ttl) \in Nat
        BY <3>1, SaturatingNat
      <3>3. s.tTimeouts[i].typ = "lease"
        BY <2>1 DEF Inv, TimeoutsScheduled
      <3> QED BY <2>1, <3>2, <3>3 DEF TTimeout
    <2>2. CASE ~ beats(i)
      BY <2>2, Fields DEF Inv
    <2> QED BY <2>1, <2>2
  <1>2. TaskHeartbeat(s, now, pid, refs) = t
    BY DEF TaskHeartbeat
  <1> HIDE DEF tt
  <1>3. /\ t \in State
        /\ t.promises = s.promises
        /\ t.tasks = s.tasks
        /\ t.pTimeouts = s.pTimeouts
        /\ \A i \in Id : t.tTimeouts[i] = tt(i)
    BY <1>1 DEF Inv, State
  <1> HIDE DEF t
  <1> QED BY <1>1, <1>2, <1>3, TimersInv

\* What a suspension changes of promise i: the task id may await it now.
Awaits(s, t, id, i) ==
    /\ t.promises[i].state = s.promises[i].state
    /\ t.promises[i].target = s.promises[i].target
    /\ t.promises[i].timer = s.promises[i].timer
    /\ t.promises[i].timeoutAt = s.promises[i].timeoutAt
    /\ t.promises[i].settledAt = s.promises[i].settledAt
    /\ t.promises[i].subscribers = s.promises[i].subscribers
    /\ s.promises[i].awaiters \subseteq t.promises[i].awaiters
    /\ t.promises[i].awaiters \subseteq s.promises[i].awaiters \cup {id}
    /\ s.promises[i].state # "pending" =>
          t.promises[i].awaiters = s.promises[i].awaiters

\* An acquired task is suspended.
Suspends(s, t, id) ==
    /\ t.tasks[id].state = "suspended"
    /\ t.tasks[id].version = s.tasks[id].version
    /\ t.tasks[id].pid = NoPid /\ t.tasks[id].ttl = None
    /\ t.tTimeouts[id].typ = "none"
    /\ \E i \in Id : /\ t.promises[i].state = "pending"
                     /\ id \in t.promises[i].awaiters

\* The acquired task id is made an awaiter of pending promises; it stays as it
\* is, or it is suspended and awaits one of them.
LEMMA AwaitInv ==
    ASSUME NEW s, Inv(s), NEW t, t \in State, NEW id \in Id,
           s.tasks[id].state = "acquired",
           t.pTimeouts = s.pTimeouts,
           \A i \in Id : Awaits(s, t, id, i),
           \A i \in Id \ {id} : KeepsTask(s, t, i),
           KeepsTask(s, t, id) \/ Suspends(s, t, id)
    PROVE  Inv(t) /\ Evolves(s, t)
  <1>1. ASSUME NEW i \in Id
        PROVE  /\ s.tasks[i].version \in Nat
               /\ s.promises[i].awaiters \subseteq Id
               /\ t.promises[i].awaiters \subseteq Id
               /\ HasTask(t, i) <=> HasTask(s, i)
               /\ HasPromise(t, i) <=> HasPromise(s, i)
               /\ t.tasks[i].version = s.tasks[i].version
               /\ t.tasks[i].state = "fulfilled"
                     <=> s.tasks[i].state = "fulfilled"
               /\ t.tasks[i].state = "suspended" /\ i # id
                     => s.tasks[i].state = "suspended"
               /\ s.tasks[i].state \in {"pending", "acquired", "suspended"}
                     => t.tasks[i].state \in {"pending", "acquired", "suspended"}
    <2>1. /\ s.tasks[i] \in Task
          /\ s.promises[i] \in Promise /\ t.promises[i] \in Promise
      BY Fields DEF Inv
    <2>2. HasPromise(t, i) <=> HasPromise(s, i)
      BY DEF HasPromise, Awaits
    <2>3. /\ s.tasks[i].version \in Nat
          /\ s.promises[i].awaiters \subseteq Id
          /\ t.promises[i].awaiters \subseteq Id
      BY <2>1 DEF Task, Promise
    <2>4. CASE KeepsTask(s, t, i)
      BY <2>2, <2>3, <2>4 DEF HasTask, KeepsTask
    <2>5. CASE i = id /\ Suspends(s, t, id)
      BY <2>2, <2>3, <2>5 DEF HasTask, Suspends
    <2> QED BY <2>4, <2>5
  <1>2. TasksFollowPromises(t)
    BY <1>1 DEF Inv, TasksFollowPromises, Awaits
  <1>3. AbsentFresh(t)
    BY <1>1 DEF Inv, AbsentFresh
  <1>4. TimeoutsScheduled(t)
    <2> SUFFICES ASSUME NEW i \in Id
        PROVE  /\ t.pTimeouts[i] =
                     IF t.promises[i].state = "pending" /\ t.promises[i].target
                     THEN t.promises[i].timeoutAt ELSE None
               /\ t.tTimeouts[i].typ =
                     CASE t.tasks[i].state = "pending"  -> "retry"
                       [] t.tasks[i].state = "acquired" -> "lease"
                       [] OTHER                         -> "none"
               /\ t.tasks[i].state = "acquired" <=> t.tasks[i].pid # NoPid
               /\ t.tasks[i].state = "acquired" <=> t.tasks[i].ttl # None
      BY DEF TimeoutsScheduled
    <2>1. t.pTimeouts[i] =
             IF t.promises[i].state = "pending" /\ t.promises[i].target
             THEN t.promises[i].timeoutAt ELSE None
      BY DEF Inv, TimeoutsScheduled, Awaits
    <2>2. CASE KeepsTask(s, t, i)
      BY <2>1, <2>2 DEF Inv, TimeoutsScheduled, KeepsTask
    <2>3. CASE i = id /\ Suspends(s, t, id)
      BY <2>1, <2>3 DEF Suspends
    <2> QED BY <2>2, <2>3
  <1>5. AwaitersLive(t)
    <2>1. ASSUME NEW i \in Id, t.promises[i].state # "pending"
          PROVE  t.promises[i].awaiters = {} /\ t.promises[i].subscribers = {}
      BY <2>1 DEF Inv, AwaitersLive, Awaits
    <2>2. ASSUME NEW i \in Id, NEW a \in t.promises[i].awaiters
          PROVE  t.tasks[a].state \in {"pending", "acquired", "suspended"}
      <3>1. a \in Id /\ (a \in s.promises[i].awaiters \/ a = id)
        BY <1>1 DEF Awaits
      <3>2. s.tasks[a].state \in {"pending", "acquired", "suspended"}
        BY <3>1 DEF Inv, AwaitersLive
      <3> QED BY <1>1, <3>1, <3>2
    <2> QED BY <2>1, <2>2 DEF AwaitersLive
  <1>6. SuspendedAwaitsPending(t)
    <2> SUFFICES ASSUME NEW a \in Id, t.tasks[a].state = "suspended"
        PROVE  \E i \in Id : /\ t.promises[i].state = "pending"
                             /\ a \in t.promises[i].awaiters
      BY DEF SuspendedAwaitsPending
    <2>1. CASE a # id
      BY <1>1, <2>1 DEF Inv, SuspendedAwaitsPending, Awaits
    <2>2. CASE a = id
      BY <2>2 DEF KeepsTask, Suspends
    <2> QED BY <2>1, <2>2
  <1>7. SettledInTime(t)
    <2> SUFFICES ASSUME NEW i \in Id
        PROVE  LET p == t.promises[i]
               IN  /\ p.state \in Settled <=> p.settledAt # None
                   /\ p.state \in Settled =>
                         \/ p.settledAt = p.timeoutAt /\ p.state = TimeoutState(p)
                         \/ /\ p.settledAt < p.timeoutAt
                            /\ p.state # "rejected_timedout"
      BY DEF SettledInTime
    <2>1. Awaits(s, t, id, i)
      OBVIOUS
    <2>2. TimeoutState(t.promises[i]) = TimeoutState(s.promises[i])
      BY <2>1 DEF Awaits, TimeoutState
    <2> QED BY <2>1, <2>2 DEF Inv, SettledInTime, Awaits
  <1>8. Evolves(s, t)
    <2> SUFFICES ASSUME NEW i \in Id
        PROVE  /\ t.promises[i].state = s.promises[i].state
               /\ t.promises[i].settledAt = s.promises[i].settledAt
               /\ t.tasks[i].version >= s.tasks[i].version
               /\ Rank(t, i) >= Rank(s, i)
               /\ t.tasks[i].state = "acquired" => s.tasks[i].state = "acquired"
      BY DEF Evolves
    <2>1. s.tasks[i].version \in Nat
      BY <1>1
    <2>2. CASE KeepsTask(s, t, i)
      BY <2>1, <2>2 DEF Rank, KeepsTask, Awaits
    <2>3. CASE i = id /\ Suspends(s, t, id)
      BY <2>1, <2>3 DEF Rank, Suspends, Awaits
    <2> QED BY <2>2, <2>3
  <1> QED BY <1>2, <1>3, <1>4, <1>5, <1>6, <1>7, <1>8 DEF Inv

LEMMA TaskSuspendInv ==
    ASSUME NEW s, Inv(s), NEW id \in Id, NEW awaited \in SUBSET (Id \ {id}),
           awaited # {}, \A i \in awaited : HasPromise(s, i)
    PROVE  LET t == TaskSuspend(s, id, awaited)
           IN  Inv(t) /\ Evolves(s, t)
  <1> USE DEF Inv
  <1>1. s.tasks[id] \in Task
    BY Fields
  <1>2. CASE s.tasks[id].state # "acquired"
    BY <1>2, EvolvesReflexive DEF TaskSuspend
  <1>3. CASE s.tasks[id].state = "acquired" /\ s.tasks[id].resumes # {}
    <2> DEFINE k == [s.tasks[id] EXCEPT !.resumes = {}]
               t == PutTask(s, id, k)
    <2>1. TaskSuspend(s, id, awaited) = t
      BY <1>3 DEF TaskSuspend
    <2>2. /\ k \in Task
          /\ k.state = s.tasks[id].state /\ k.version = s.tasks[id].version
          /\ k.pid = s.tasks[id].pid /\ k.ttl = s.tasks[id].ttl
      BY <1>1 DEF Task
    <2> HIDE DEF k
    <2>3. /\ t \in State
          /\ t.promises = s.promises
          /\ t.pTimeouts = s.pTimeouts
          /\ t.tTimeouts = s.tTimeouts
          /\ t.tasks[id] = k
          /\ \A i \in Id \ {id} : t.tasks[i] = s.tasks[i]
      BY <2>2 DEF PutTask, State
    <2> HIDE DEF t
    <2>4. \A i \in Id : KeepsTask(s, t, i)
      BY <2>2, <2>3 DEF KeepsTask
    <2>5. Inv(t) /\ Evolves(s, t)
      BY <2>3, <2>4, LeaseInv
    <2> QED BY <2>1, <2>5
  <1>4. CASE s.tasks[id].state = "acquired" /\ s.tasks[id].resumes = {}
    <2> DEFINE pr(i) == [s.promises[i] EXCEPT !.awaiters =
                            IF i \in awaited /\ s.promises[i].state = "pending"
                            THEN @ \cup {id} ELSE @]
               u == [s EXCEPT !.promises = [i \in Id |-> pr(i)]]
               k == [s.tasks[id] EXCEPT !.state = "suspended", !.pid = NoPid,
                                        !.ttl = None, !.resumes = {}]
               v == [PutTask(u, id, k)
                        EXCEPT !.tTimeouts = [@ EXCEPT ![id] = NoTimeout]]
    <2>1. TaskSuspend(s, id, awaited) =
             IF AnySettled(s, awaited) THEN u ELSE v
      BY <1>4 DEF TaskSuspend
    <2>2. ASSUME NEW i \in Id
          PROVE  /\ pr(i) \in Promise
                 /\ pr(i).state = s.promises[i].state
                 /\ pr(i).target = s.promises[i].target
                 /\ pr(i).timer = s.promises[i].timer
                 /\ pr(i).timeoutAt = s.promises[i].timeoutAt
                 /\ pr(i).settledAt = s.promises[i].settledAt
                 /\ pr(i).subscribers = s.promises[i].subscribers
                 /\ pr(i).awaiters =
                      IF i \in awaited /\ s.promises[i].state = "pending"
                      THEN s.promises[i].awaiters \cup {id}
                      ELSE s.promises[i].awaiters
      <3>1. s.promises[i] \in Promise
        BY Fields
      <3> QED BY <3>1 DEF Promise
    <2> HIDE DEF pr, k, v
    <2>3. /\ u \in State
          /\ \A i \in Id : u.promises[i] = pr(i)
          /\ u.tasks = s.tasks
          /\ u.pTimeouts = s.pTimeouts
          /\ u.tTimeouts = s.tTimeouts
      BY <2>2 DEF State
    <2> HIDE DEF u
    <2>4. \A i \in Id : Awaits(s, u, id, i)
      <3> TAKE i \in Id
      <3>1. u.promises[i] = pr(i)
        BY <2>3
      <3> QED BY <2>2, <3>1 DEF Awaits
    <2>5. CASE AnySettled(s, awaited)
      <3>1. \A i \in Id : KeepsTask(s, u, i)
        BY <2>3 DEF KeepsTask
      <3>2. Inv(u) /\ Evolves(s, u)
        BY <1>4, <2>3, <2>4, <3>1, AwaitInv
      <3> QED BY <2>1, <2>5, <3>2
    <2>6. CASE ~ AnySettled(s, awaited)
      <3>1. /\ k \in Task
            /\ k.state = "suspended" /\ k.version = s.tasks[id].version
            /\ k.pid = NoPid /\ k.ttl = None
        BY <1>1 DEF Task, TaskState, k
      <3>2. NoTimeout \in TTimeout /\ NoTimeout.typ = "none"
        BY DEF NoTimeout, TTimeout
      <3>3. /\ v \in State
            /\ v.promises = u.promises
            /\ v.pTimeouts = u.pTimeouts
            /\ v.tasks[id] = k
            /\ v.tTimeouts[id] = NoTimeout
            /\ \A i \in Id \ {id} : /\ v.tasks[i] = u.tasks[i]
                                    /\ v.tTimeouts[i] = u.tTimeouts[i]
        BY <2>3, <3>1, <3>2 DEF PutTask, State, v
      <3>4. \A i \in Id : Awaits(s, v, id, i)
        <4> TAKE i \in Id
        <4>1. v.promises[i] = u.promises[i] /\ Awaits(s, u, id, i)
          BY <2>4, <3>3
        <4> QED BY <4>1 DEF Awaits
      <3>5. \A i \in Id \ {id} : KeepsTask(s, v, i)
        BY <2>3, <3>3 DEF KeepsTask
      <3>6. PICK i \in awaited : TRUE
        OBVIOUS
      <3>7. s.promises[i].state = "pending"
        <4>1. i \in Id /\ s.promises[i] \in Promise
          BY Fields
        <4> QED BY <2>6, <4>1 DEF AnySettled, HasPromise, Promise, PromiseState
      <3>8. v.promises[i].state = "pending" /\ id \in v.promises[i].awaiters
        <4>1. i \in Id /\ v.promises[i] = pr(i)
          BY <2>3, <3>3
        <4> QED BY <2>2, <3>7, <4>1
      <3>9. Suspends(s, v, id)
        BY <3>1, <3>2, <3>3, <3>8 DEF Suspends
      <3>10. Inv(v) /\ Evolves(s, v)
        BY <1>4, <2>3, <3>3, <3>4, <3>5, <3>9, AwaitInv
      <3> QED BY <2>1, <2>6, <3>10
    <2> QED BY <2>5, <2>6
  <1> QED BY <1>2, <1>3, <1>4

LEMMA TaskCreateInv ==
    ASSUME NEW s, Inv(s), NEW now \in Nat, NEW id \in Id,
           NEW timeoutAt \in Nat, NEW tags \in Tags,
           NEW pid \in Pid, NEW ttl \in Nat
    PROVE  LET t == TaskCreate(s, now, id, timeoutAt, tags, pid, ttl)
           IN  Inv(t) /\ Evolves(s, t)
  <1> DEFINE t == TaskCreate(s, now, id, timeoutAt, tags, pid, ttl)
  <1>1. CASE HasTask(s, id) /\ s.tasks[id].state = "pending"
    <2>1. t = AcquireTask(s, now, id, pid, ttl)
      BY <1>1 DEF TaskCreate
    <2> QED BY <1>1, <2>1, AcquireInv
  <1>2. CASE \/ HasTask(s, id) /\ s.tasks[id].state # "pending"
             \/ ~ HasTask(s, id) /\ HasPromise(s, id)
    BY <1>2, EvolvesReflexive DEF TaskCreate
  <1>3. CASE ~ HasTask(s, id) /\ ~ HasPromise(s, id) /\ now >= timeoutAt
    <2> DEFINE p == NewPromise("absent", tags, timeoutAt, timeoutAt)
               q == [p EXCEPT !.state = TimeoutState(p)]
               k == NewTask("fulfilled", NoPid, None)
               u == PutTask(PutPromise(s, id, q), id, k)
    <2>1. t = u
      BY <1>3 DEF TaskCreate
    <2>2. /\ q \in Promise
          /\ q.state = TimeoutState(q) /\ q.state \in Settled
          /\ q.state # "absent" /\ q.state # "pending"
          /\ q.timeoutAt = timeoutAt /\ q.settledAt = timeoutAt
          /\ q.awaiters = {} /\ q.subscribers = {}
      <3>1. "absent" \in PromiseState /\ timeoutAt \in Nat \cup {None}
        BY DEF PromiseState
      <3>2. /\ p \in Promise
            /\ p.timeoutAt = timeoutAt /\ p.settledAt = timeoutAt
            /\ p.awaiters = {} /\ p.subscribers = {}
        BY <3>1, NewPromiseType
      <3> HIDE DEF p
      <3> QED BY <3>2 DEF Promise, PromiseState, TimeoutState, Settled
    <2>3. /\ k \in Task
          /\ k.state = "fulfilled" /\ k.version = 0
          /\ k.pid = NoPid /\ k.ttl = None
      BY DEF NewTask, Task, TaskState
    <2> HIDE DEF q, k
    <2>4. /\ u \in State
          /\ u.promises[id] = q
          /\ u.tasks[id] = k
          /\ \A i \in Id \ {id} : /\ u.promises[i] = s.promises[i]
                                  /\ u.tasks[i] = s.tasks[i]
          /\ u.pTimeouts = s.pTimeouts
          /\ u.tTimeouts = s.tTimeouts
      BY <2>2, <2>3 DEF PutTask, PutPromise, Inv, State
    <2> HIDE DEF u
    <2>5. \A i \in Id \ {id} : Same(s, u, i)
      BY <2>4 DEF Same
    <2>6. s.pTimeouts[id] = None /\ s.tTimeouts[id].typ = "none"
      BY <1>3 DEF Inv, TimeoutsScheduled, HasPromise, HasTask
    <2>7. /\ HasPromise(u, id) /\ HasTask(u, id)
          /\ u.tasks[id].state = "fulfilled"
          /\ u.tasks[id].version = 0
          /\ u.tasks[id].pid = NoPid /\ u.tasks[id].ttl = None
          /\ u.promises[id].state \in Settled
          /\ u.promises[id].state # "pending"
          /\ u.promises[id].settledAt = timeoutAt
          /\ u.promises[id].awaiters = {} /\ u.promises[id].subscribers = {}
          /\ u.pTimeouts[id] = None /\ u.tTimeouts[id].typ = "none"
      BY <2>2, <2>3, <2>4, <2>6 DEF HasPromise, HasTask
    <2>8. InTime(u.promises[id], u.promises[id].state,
                 u.promises[id].settledAt)
      BY <2>2, <2>4 DEF InTime
    <2>9. timeoutAt # None
      BY DEF None
    <2>10. Inv(u) /\ Evolves(s, u)
      BY <1>3, <2>4, <2>5, <2>7, <2>8, <2>9, AddInv
    <2> HIDE DEF t
    <2> QED BY <2>1, <2>10 DEF t
  <1>4. CASE ~ HasTask(s, id) /\ ~ HasPromise(s, id) /\ ~ now >= timeoutAt
    <2> DEFINE q == NewPromise("pending", tags, timeoutAt, None)
               a == PutPromise(s, id, q)
               b == IF tags.target THEN SetPTimeout(a, id, timeoutAt) ELSE a
               k == NewTask("acquired", pid, ttl)
               at == SaturatingAdd(now, ttl)
               u == SetTTimeout(PutTask(b, id, k), id, "lease", at)
    <2>1. t = u
      BY <1>4 DEF TaskCreate
    <2>2. /\ q \in Promise
          /\ q.state = "pending"
          /\ q.target = tags.target
          /\ q.timeoutAt = timeoutAt /\ q.settledAt = None
          /\ q.awaiters = {} /\ q.subscribers = {}
      BY NewPromiseType DEF PromiseState
    <2>3. /\ k \in Task
          /\ k.state = "acquired" /\ k.version = 0
          /\ k.pid = pid /\ k.ttl = ttl
      BY NewTaskType DEF TaskState
    <2>4. [typ |-> "lease", at |-> at] \in TTimeout
      BY SaturatingNat DEF TTimeout
    <2> HIDE DEF q, k, at
    <2>5. /\ a \in State
          /\ a.promises[id] = q
          /\ \A i \in Id \ {id} : a.promises[i] = s.promises[i]
          /\ a.tasks = s.tasks
          /\ a.pTimeouts = s.pTimeouts
          /\ a.tTimeouts = s.tTimeouts
      BY <2>2 DEF PutPromise, Inv, State
    <2> HIDE DEF a
    <2>6. s.pTimeouts[id] = None
      BY <1>4 DEF Inv, TimeoutsScheduled, HasPromise
    <2>7. /\ b \in State
          /\ b.promises = a.promises
          /\ b.tasks = s.tasks
          /\ b.tTimeouts = s.tTimeouts
          /\ b.pTimeouts[id] = IF tags.target THEN timeoutAt ELSE None
          /\ \A i \in Id \ {id} : b.pTimeouts[i] = s.pTimeouts[i]
      BY <2>5, <2>6 DEF SetPTimeout, State
    <2> HIDE DEF b
    <2>8. /\ u \in State
          /\ u.promises = b.promises
          /\ u.pTimeouts = b.pTimeouts
          /\ u.tasks[id] = k
          /\ u.tTimeouts[id].typ = "lease"
          /\ \A i \in Id \ {id} : /\ u.tasks[i] = b.tasks[i]
                                  /\ u.tTimeouts[i] = b.tTimeouts[i]
      BY <2>3, <2>4, <2>7 DEF SetTTimeout, PutTask, State
    <2> HIDE DEF u
    <2>9. \A i \in Id \ {id} : Same(s, u, i)
      <3> TAKE i \in Id \ {id}
      <3>1. /\ u.promises[i] = s.promises[i]
            /\ u.tasks[i] = s.tasks[i]
            /\ u.pTimeouts[i] = s.pTimeouts[i]
            /\ u.tTimeouts[i] = s.tTimeouts[i]
        BY <2>5, <2>7, <2>8
      <3> QED BY <3>1 DEF Same
    <2>10. u.promises[id] = q /\ u.tasks[id] = k
           /\ u.pTimeouts[id] = IF tags.target THEN timeoutAt ELSE None
      BY <2>5, <2>7, <2>8
    <2>11. /\ HasPromise(u, id) /\ HasTask(u, id)
           /\ u.tasks[id].state = "acquired"
           /\ u.tasks[id].version = 0
           /\ u.tasks[id].pid # NoPid /\ u.tasks[id].ttl # None
           /\ u.promises[id].state = "pending"
           /\ u.promises[id].state \notin Settled
           /\ u.promises[id].settledAt = None
           /\ u.promises[id].awaiters = {} /\ u.promises[id].subscribers = {}
           /\ u.pTimeouts[id] = IF u.promises[id].target
                                THEN u.promises[id].timeoutAt ELSE None
           /\ u.tTimeouts[id].typ = "lease"
      BY <2>2, <2>3, <2>8, <2>10, ServerAssumption
         DEF HasPromise, HasTask, None, Settled
    <2>12. Inv(u) /\ Evolves(s, u)
      BY <1>4, <2>8, <2>9, <2>11, AddInv
    <2> HIDE DEF t
    <2> QED BY <2>1, <2>12 DEF t
  <1> QED BY <1>1, <1>2, <1>3, <1>4

-----------------------------------------------------------------------------
(* The background loop *)

LEMMA TickInv ==
    ASSUME NEW s, Inv(s), NEW now \in Nat
    PROVE  Inv(Tick(s, now)) /\ Evolves(s, Tick(s, now))
  <1> DEFINE ripe(typ, state) ==
                 {i \in Id : /\ s.tTimeouts[i].typ = typ
                             /\ s.tTimeouts[i].at <= now
                             /\ s.tasks[i].state = state}
             overdue == {i \in Id : /\ s.pTimeouts[i] # None
                                    /\ s.pTimeouts[i] <= now
                                    /\ s.promises[i].state = "pending"}
             t == Expire(s, overdue, now)
             expired == {i \in ripe("lease", "acquired") :
                             HoldsLease(t, i, s.tasks[i].version)}
             u == ReleaseTasks(t, expired, now)
             silent == {i \in ripe("retry", "pending") :
                             u.tasks[i].state = "pending"}
             v == RetryTasks(u, silent, now)
  <1>1. Tick(s, now) = v
    BY DEF Tick
  <1>2. /\ overdue \in SUBSET Id
        /\ \A i \in overdue : s.promises[i].state = "pending"
    OBVIOUS
  <1> HIDE DEF overdue
  <1>3. Inv(t) /\ Evolves(s, t)
    BY <1>2, ExpireInv
  <1> HIDE DEF t
  <1>4. /\ expired \in SUBSET Id
        /\ \A i \in expired : t.tasks[i].state = "acquired"
    BY DEF HoldsLease
  <1> HIDE DEF expired
  <1>5. Inv(u) /\ Evolves(t, u)
    BY <1>3, <1>4, ReleaseInv
  <1> HIDE DEF u
  <1>6. /\ silent \in SUBSET Id
        /\ \A i \in silent : u.tasks[i].state = "pending"
    OBVIOUS
  <1> HIDE DEF silent
  <1>7. Inv(v) /\ Evolves(u, v)
    BY <1>5, <1>6, RetryInv
  <1> HIDE DEF v
  <1>8. Evolves(s, v)
    BY <1>3, <1>5, <1>7, EvolvesTransitive
  <1> QED BY <1>1, <1>7, <1>8

-----------------------------------------------------------------------------
(* What clients see of a step                                              *)
(*                                                                         *)
(* Inv says which states are sound; here is what becomes of each promise,  *)
(* and which listeners are told.                                           *)

\* The notices listeners can get.
Notice == [kind : {"unblock"}, id : Id, addr : Addr, state : Settled]

\* To its clients promise i is as it was.
Keeps(s, t, i) ==
    /\ t.promises[i].state = s.promises[i].state
    /\ t.promises[i].target = s.promises[i].target
    /\ t.promises[i].timer = s.promises[i].timer
    /\ t.promises[i].timeoutAt = s.promises[i].timeoutAt
    /\ t.promises[i].settledAt = s.promises[i].settledAt
    /\ t.promises[i].subscribers = s.promises[i].subscribers

\* Pending promise i settles with this outcome at this time.
Closes(s, t, i, outcome, at) ==
    /\ s.promises[i].state = "pending"
    /\ outcome \in Settled
    /\ t.promises[i].state = outcome
    /\ t.promises[i].settledAt = at
    /\ t.promises[i].target = s.promises[i].target
    /\ t.promises[i].timer = s.promises[i].timer
    /\ t.promises[i].timeoutAt = s.promises[i].timeoutAt
    /\ t.promises[i].subscribers = {}

\* Promise i is settled by its deadline, which has passed.
Lapses(s, t, now, i) ==
    /\ now >= s.promises[i].timeoutAt
    /\ Closes(s, t, i, TimeoutState(s.promises[i]), s.promises[i].timeoutAt)

\* Promise i is created, settled if its deadline has passed already.
Opens(s, t, now, i, tags, timeoutAt) ==
    /\ ~ HasPromise(s, i)
    /\ t.promises[i].target = tags.target
    /\ t.promises[i].timer = tags.timer
    /\ t.promises[i].timeoutAt = timeoutAt
    /\ t.promises[i].subscribers = {}
    /\ t.promises[i].state = IF now >= timeoutAt
                             THEN TimeoutState(t.promises[i]) ELSE "pending"
    /\ t.promises[i].settledAt = IF now >= timeoutAt THEN timeoutAt ELSE None

\* A listener is added to pending promise i.
Hears(s, t, i, addr) ==
    /\ s.promises[i].state = "pending"
    /\ t.promises[i].state = "pending"
    /\ t.promises[i].target = s.promises[i].target
    /\ t.promises[i].timer = s.promises[i].timer
    /\ t.promises[i].timeoutAt = s.promises[i].timeoutAt
    /\ t.promises[i].settledAt = s.promises[i].settledAt
    /\ t.promises[i].subscribers = s.promises[i].subscribers \cup {addr}

\* Those who listen to a promise that settles are told its outcome, and nobody
\* is told anything else.
Tells(s, t) == \A m \in Notice :
    m \in t.outgoing <=> \/ m \in s.outgoing
                         \/ /\ s.promises[m.id].state = "pending"
                            /\ t.promises[m.id].state = m.state
                            /\ m.addr \in s.promises[m.id].subscribers

\* No promise is awaited by more tasks than before.
Forgets(s, t) == \A i \in Id :
    t.promises[i].awaiters \subseteq s.promises[i].awaiters

\* Promises run into their deadlines, and no more.
Passes(s, t, now) ==
    /\ \A i \in Id : Keeps(s, t, i) \/ Lapses(s, t, now, i)
    /\ Tells(s, t)
    /\ Forgets(s, t)

\* No promise changes, and nobody is told anything.
Quiet(s, t) ==
    /\ t.promises = s.promises
    /\ \A m \in Notice : m \in t.outgoing <=> m \in s.outgoing

LEMMA QuietPasses ==
    ASSUME NEW s, NEW t, Quiet(s, t), NEW now
    PROVE  /\ Passes(s, t, now)
           /\ \A i \in Id : Keeps(s, t, i)
  <1>1. \A i \in Id : Keeps(s, t, i)
    BY DEF Quiet, Keeps
  <1>2. Tells(s, t)
    BY DEF Quiet, Tells, Notice, Settled
  <1>3. Forgets(s, t)
    BY DEF Quiet, Forgets
  <1> QED BY <1>1, <1>2, <1>3 DEF Passes

\* What settled in a first step keeps its outcome in the second, and what is told
\* in the second is told to those who listened before the first.
LEMMA PassesThen ==
    ASSUME NEW s, NEW t, NEW u, NEW now, Passes(s, t, now), Tells(t, u),
           \A i \in Id : t.promises[i].state \in Settled =>
                            u.promises[i].state = t.promises[i].state
    PROVE  Tells(s, u)
  <1> SUFFICES ASSUME NEW m \in Notice
      PROVE  m \in u.outgoing <=>
                \/ m \in s.outgoing
                \/ /\ s.promises[m.id].state = "pending"
                   /\ u.promises[m.id].state = m.state
                   /\ m.addr \in s.promises[m.id].subscribers
    BY DEF Tells
  <1>1. m.id \in Id /\ m.state \in Settled
    BY DEF Notice
  <1>2. m \in u.outgoing <=>
           \/ m \in t.outgoing
           \/ /\ t.promises[m.id].state = "pending"
              /\ u.promises[m.id].state = m.state
              /\ m.addr \in t.promises[m.id].subscribers
    BY DEF Tells
  <1>3. m \in t.outgoing <=>
           \/ m \in s.outgoing
           \/ /\ s.promises[m.id].state = "pending"
              /\ t.promises[m.id].state = m.state
              /\ m.addr \in s.promises[m.id].subscribers
    BY DEF Passes, Tells
  <1>4. CASE Keeps(s, t, m.id)
    BY <1>1, <1>2, <1>3, <1>4 DEF Keeps, Settled
  <1>5. CASE Lapses(s, t, now, m.id)
    <2>1. /\ t.promises[m.id].state \in Settled
          /\ u.promises[m.id].state = t.promises[m.id].state
      BY <1>1, <1>5 DEF Lapses, Closes
    <2> QED BY <1>1, <1>2, <1>3, <1>5, <2>1 DEF Settled, Lapses, Closes
  <1> QED BY <1>1, <1>4, <1>5 DEF Passes

\* Deadlines that pass in two steps pass in one.
LEMMA PassesTransitive ==
    ASSUME NEW s, NEW t, NEW u, NEW now, Passes(s, t, now), Passes(t, u, now)
    PROVE  Passes(s, u, now)
  <1>1. ASSUME NEW i \in Id
        PROVE  Keeps(s, u, i) \/ Lapses(s, u, now, i)
    <2>1. CASE Keeps(s, t, i)
      <3>1. TimeoutState(t.promises[i]) = TimeoutState(s.promises[i])
        BY <2>1 DEF Keeps, TimeoutState
      <3> QED BY <2>1, <3>1 DEF Passes, Keeps, Lapses, Closes
    <2>2. CASE Lapses(s, t, now, i)
      <3>1. t.promises[i].state \in Settled
        BY <2>2 DEF Lapses, Closes
      <3>2. Keeps(t, u, i)
        BY <3>1 DEF Passes, Lapses, Closes, Settled
      <3> QED BY <2>2, <3>2 DEF Keeps, Lapses, Closes
    <2> QED BY <2>1, <2>2 DEF Passes
  <1>2. \A i \in Id : t.promises[i].state \in Settled =>
                         u.promises[i].state = t.promises[i].state
    BY DEF Passes, Keeps, Lapses, Closes, Settled
  <1>3. Tells(s, u)
    BY <1>2, PassesThen DEF Passes
  <1>4. Forgets(s, u)
    BY DEF Passes, Forgets
  <1> QED BY <1>1, <1>3, <1>4 DEF Passes

\* Announcing tasks tells listeners nothing.
LEMMA SendQuiet ==
    ASSUME NEW s \in State, NEW S
    PROVE  Quiet(s, SendExecuteMessage(s, S))
  <1> DEFINE to == {i \in S : s.promises[i].target}
             new == {[kind |-> "execute", id |-> i,
                      version |-> s.tasks[i].version] : i \in to}
             old == {m \in s.outgoing : m.kind = "execute" => m.id \notin to}
             t == SendExecuteMessage(s, S)
  <1>1. t.outgoing = old \cup new /\ t.promises = s.promises
    BY DEF SendExecuteMessage, State
  <1> HIDE DEF t
  <1>2. ASSUME NEW m \in Notice
        PROVE  m \in t.outgoing <=> m \in s.outgoing
    <2>1. m.kind = "unblock"
      BY DEF Notice
    <2>2. m \notin new
      BY <2>1
    <2> HIDE DEF new, to
    <2> QED BY <1>1, <2>1, <2>2
  <1> QED BY <1>1, <1>2 DEF Quiet, t

\* Waking tasks tells listeners nothing.
LEMMA ResumeNotices ==
    ASSUME NEW s \in State, NEW S \in SUBSET Id, NEW now \in Nat
    PROVE  \A m \in Notice : m \in ResumeAwaiters(s, S, now).outgoing
                                <=> m \in s.outgoing
  <1> DEFINE tk == [a \in Id |->
                CASE a \in Woken(s, S) -> Wake(s.tasks[a], WokenBy(s, S, a))
                  [] s.tasks[a].state \in {"pending", "acquired"} ->
                        [s.tasks[a] EXCEPT !.resumes = @ \cup WokenBy(s, S, a)]
                  [] OTHER -> s.tasks[a]]
             tt == [a \in Id |-> IF a \in Woken(s, S)
                                 THEN [typ |-> "retry", at |-> now + RetryTTL]
                                 ELSE s.tTimeouts[a]]
             pr == [i \in Id |-> [s.promises[i] EXCEPT
                                     !.awaiters = IF i \in S THEN {} ELSE @]]
             u == [s EXCEPT !.tasks = tk, !.tTimeouts = tt, !.promises = pr]
             r == ResumeAwaiters(s, S, now)
             to == {i \in Woken(s, S) : u.promises[i].target}
             new == {[kind |-> "execute", id |-> i,
                      version |-> u.tasks[i].version] : i \in to}
             old == {m \in u.outgoing : m.kind = "execute" => m.id \notin to}
  <1>1. r = SendExecuteMessage(u, Woken(s, S))
    BY DEF ResumeAwaiters
  <1>2. u.outgoing = s.outgoing
    BY DEF State
  <1>3. r.outgoing = old \cup new
    <2> HIDE DEF u
    <2> QED BY <1>1 DEF SendExecuteMessage
  <1> HIDE DEF u, r
  <1> SUFFICES ASSUME NEW m \in Notice
               PROVE  m \in r.outgoing <=> m \in s.outgoing
    BY DEF r
  <1>4. m.kind = "unblock"
    BY DEF Notice
  <1>5. m \notin new
    BY <1>4
  <1> HIDE DEF new, to
  <1> QED BY <1>2, <1>3, <1>4, <1>5

\* The listeners of settled promises are told their states, nobody else is.
LEMMA PropagateNotices ==
    ASSUME NEW s \in State, NEW S \in SUBSET Id, NEW now \in Nat,
           \A i \in S : s.promises[i].state \in Settled
    PROVE  \A m \in Notice : m \in Propagate(s, S, now).outgoing <=>
                \/ m \in s.outgoing
                \/ /\ m.id \in S
                   /\ s.promises[m.id].state = m.state
                   /\ m.addr \in s.promises[m.id].subscribers
  <1> DEFINE e == EnqueueSettle(s, S)
             r == ResumeAwaiters(e, S, now)
             notice(i) == {[kind |-> "unblock", id |-> i, addr |-> a,
                            state |-> r.promises[i].state] :
                               a \in r.promises[i].subscribers}
  <1>1. /\ e \in State /\ e.outgoing = s.outgoing
        /\ \A i \in Id : e.promises[i] = [s.promises[i] EXCEPT
                                             !.awaiters = @ \ Unfinished(s, S)]
    BY EnqueueFacts
  <1> HIDE DEF e
  <1>2. Resumed(e, S, now, r)
    BY <1>1, ResumeFacts
  <1>3. \A m \in Notice : m \in r.outgoing <=> m \in s.outgoing
    BY <1>1, ResumeNotices
  <1>4. r \in State
    BY <1>2 DEF Resumed
  <1> HIDE DEF r
  <1>5. ASSUME NEW i \in Id
        PROVE  /\ r.promises[i].state = s.promises[i].state
               /\ r.promises[i].subscribers = s.promises[i].subscribers
    <2>1. s.promises[i] \in Promise /\ e.promises[i] \in Promise
      BY <1>1, Fields
    <2>2. e.promises[i] = [s.promises[i] EXCEPT
                              !.awaiters = @ \ Unfinished(s, S)]
      BY <1>1
    <2>3. r.promises[i] = [e.promises[i] EXCEPT
                              !.awaiters = IF i \in S THEN {} ELSE @]
      BY <1>2 DEF Resumed
    <2> QED BY <2>1, <2>2, <2>3 DEF Promise
  <1>6. Propagate(s, S, now).outgoing = r.outgoing \cup UNION {notice(i) : i \in S}
    <2>1. Propagate(s, S, now) = NotifySubscribers(r, S)
      BY DEF Propagate, r, e
    <2> QED BY <1>4, <2>1 DEF NotifySubscribers, State
  <1> SUFFICES ASSUME NEW m \in Notice
      PROVE  m \in Propagate(s, S, now).outgoing <=>
                \/ m \in s.outgoing
                \/ /\ m.id \in S
                   /\ s.promises[m.id].state = m.state
                   /\ m.addr \in s.promises[m.id].subscribers
    OBVIOUS
  <1>7. ASSUME NEW i \in S
        PROVE  m \in notice(i) <=> /\ m.id = i
                                   /\ s.promises[i].state = m.state
                                   /\ m.addr \in s.promises[i].subscribers
    <2>1. m = [kind |-> "unblock", id |-> m.id, addr |-> m.addr,
               state |-> m.state]
      BY DEF Notice
    <2>2. /\ r.promises[i].state = s.promises[i].state
          /\ r.promises[i].subscribers = s.promises[i].subscribers
      BY <1>5
    <2>3. ASSUME m \in notice(i)
          PROVE  /\ m.id = i
                 /\ s.promises[i].state = m.state
                 /\ m.addr \in s.promises[i].subscribers
      BY <2>2, <2>3
    <2>4. ASSUME m.id = i, s.promises[i].state = m.state,
                 m.addr \in s.promises[i].subscribers
          PROVE  m \in notice(i)
      BY <2>1, <2>2, <2>4
    <2> QED BY <2>3, <2>4
  <1>8. m \in UNION {notice(i) : i \in S} <=> \E i \in S : m \in notice(i)
    OBVIOUS
  <1> HIDE DEF notice
  <1> QED BY <1>3, <1>6, <1>7, <1>8

\* Settling pending promises touches no other, and tells their listeners.
LEMMA SettleEffect ==
    ASSUME NEW s, Inv(s), NEW S \in SUBSET Id, NEW outcome, NEW at,
           NEW now \in Nat,
           \A i \in S : /\ s.promises[i].state = "pending"
                        /\ outcome[i] \in Settled
                        /\ at[i] \in Nat
    PROVE  LET t == Settle(s, S, outcome, at, now)
           IN  /\ \A i \in Id \ S : Keeps(s, t, i)
               /\ \A i \in S : Closes(s, t, i, outcome[i], at[i])
               /\ Tells(s, t)
               /\ Forgets(s, t)
  <1> DEFINE pr(i) == IF i \in S
                      THEN [s.promises[i] EXCEPT !.state = outcome[i],
                                                 !.settledAt = at[i]]
                      ELSE s.promises[i]
             u == [s EXCEPT !.promises = [i \in Id |-> pr(i)],
                            !.pTimeouts = [i \in Id |->
                                IF i \in S THEN None ELSE s.pTimeouts[i]]]
             t == Propagate(u, S, now)
  <1>1. Settle(s, S, outcome, at, now) = t
    BY DEF Settle
  <1>2. ASSUME NEW i \in Id
        PROVE  /\ pr(i) \in Promise
               /\ pr(i).state = IF i \in S THEN outcome[i]
                                ELSE s.promises[i].state
               /\ pr(i).settledAt = IF i \in S THEN at[i]
                                    ELSE s.promises[i].settledAt
               /\ pr(i).target = s.promises[i].target
               /\ pr(i).timer = s.promises[i].timer
               /\ pr(i).timeoutAt = s.promises[i].timeoutAt
               /\ pr(i).awaiters = s.promises[i].awaiters
               /\ pr(i).subscribers = s.promises[i].subscribers
    <2>1. s.promises[i] \in Promise
      BY Fields DEF Inv
    <2> QED BY <2>1 DEF Promise, PromiseState
  <1> HIDE DEF pr
  <1>3. /\ u \in State
        /\ u.outgoing = s.outgoing
        /\ \A i \in Id : u.promises[i] = pr(i)
    <2>1. \A i \in Id : (IF i \in S THEN None ELSE s.pTimeouts[i])
                            \in Nat \cup {None}
      BY Fields DEF Inv
    <2> QED BY <1>2, <2>1 DEF Inv, State
  <1> HIDE DEF u
  <1>4. \A i \in S : u.promises[i].state \in Settled
    BY <1>2, <1>3
  <1>5. Propagated(u, S, now, t)
    BY <1>3, <1>4, PropagateFacts
  <1>6. ASSUME NEW m \in Notice
        PROVE  m \in t.outgoing <=>
                  \/ m \in u.outgoing
                  \/ /\ m.id \in S
                     /\ u.promises[m.id].state = m.state
                     /\ m.addr \in u.promises[m.id].subscribers
    BY <1>3, <1>4, PropagateNotices
  <1> HIDE DEF t
  <1>7. ASSUME NEW i \in Id
        PROVE  /\ t.promises[i].state = pr(i).state
               /\ t.promises[i].target = pr(i).target
               /\ t.promises[i].timer = pr(i).timer
               /\ t.promises[i].timeoutAt = pr(i).timeoutAt
               /\ t.promises[i].settledAt = pr(i).settledAt
               /\ t.promises[i].subscribers =
                    IF i \in S THEN {} ELSE pr(i).subscribers
               /\ t.promises[i].awaiters \subseteq pr(i).awaiters
    <2>1. u.promises[i] = pr(i)
      BY <1>3
    <2>2. t.promises[i].awaiters =
             IF i \in S THEN {} ELSE u.promises[i].awaiters \ Unfinished(u, S)
      BY <1>5 DEF Propagated
    <2>3. /\ t.promises[i].state = u.promises[i].state
          /\ t.promises[i].target = u.promises[i].target
          /\ t.promises[i].timer = u.promises[i].timer
          /\ t.promises[i].timeoutAt = u.promises[i].timeoutAt
          /\ t.promises[i].settledAt = u.promises[i].settledAt
          /\ t.promises[i].subscribers =
               IF i \in S THEN {} ELSE u.promises[i].subscribers
      BY <1>5 DEF Propagated
    <2> QED BY <2>1, <2>2, <2>3
  <1>8. \A i \in Id \ S : Keeps(s, t, i)
    BY <1>2, <1>7 DEF Keeps
  <1>9. \A i \in S : Closes(s, t, i, outcome[i], at[i])
    BY <1>2, <1>7 DEF Closes
  <1>10. Forgets(s, t)
    BY <1>2, <1>7 DEF Forgets
  <1>11. Tells(s, t)
    <2> SUFFICES ASSUME NEW m \in Notice
        PROVE  m \in t.outgoing <=>
                  \/ m \in s.outgoing
                  \/ /\ s.promises[m.id].state = "pending"
                     /\ t.promises[m.id].state = m.state
                     /\ m.addr \in s.promises[m.id].subscribers
      BY DEF Tells
    <2>1. m.id \in Id /\ m.state \in Settled
      BY DEF Notice
    <2>2. /\ u.promises[m.id] = pr(m.id)
          /\ t.promises[m.id].state = pr(m.id).state
      BY <1>3, <1>7, <2>1
    <2>3. CASE m.id \in S
      BY <1>2, <1>3, <1>6, <2>1, <2>2, <2>3
    <2>4. CASE m.id \notin S
      <3>1. t.promises[m.id].state = s.promises[m.id].state
        BY <1>2, <2>1, <2>2, <2>4
      <3> QED BY <1>3, <1>6, <2>1, <2>4, <3>1 DEF Settled
    <2> QED BY <2>3, <2>4
  <1> QED BY <1>1, <1>8, <1>9, <1>10, <1>11

LEMMA ExpireEffect ==
    ASSUME NEW s, Inv(s), NEW now \in Nat, NEW S \in SUBSET Due(s, now)
    PROVE  LET t == Expire(s, S, now)
           IN  /\ Passes(s, t, now)
               /\ \A i \in Id \ S : Keeps(s, t, i)
               /\ \A i \in S : Lapses(s, t, now, i)
  <1> DEFINE outcome == [i \in Id |-> TimeoutState(s.promises[i])]
             at == [i \in Id |-> s.promises[i].timeoutAt]
             t == Settle(s, S, outcome, at, now)
  <1>1. /\ S \in SUBSET Id
        /\ \A i \in S : /\ s.promises[i].state = "pending"
                        /\ now >= s.promises[i].timeoutAt
                        /\ outcome[i] = TimeoutState(s.promises[i])
                        /\ at[i] = s.promises[i].timeoutAt
                        /\ outcome[i] \in Settled /\ at[i] \in Nat
    BY Fields DEF Due, Inv, Promise, TimeoutState, Settled
  <1>2. Expire(s, S, now) = t
    BY DEF Expire
  <1> HIDE DEF outcome, at
  <1>3. /\ \A i \in Id \ S : Keeps(s, t, i)
        /\ \A i \in S : Closes(s, t, i, outcome[i], at[i])
        /\ Tells(s, t)
        /\ Forgets(s, t)
    BY <1>1, SettleEffect
  <1> HIDE DEF t
  <1>4. \A i \in S : Lapses(s, t, now, i)
    BY <1>1, <1>3 DEF Lapses
  <1> QED BY <1>2, <1>3, <1>4 DEF Passes

LEMMA AutoTimeoutEffect ==
    ASSUME NEW s, Inv(s), NEW now \in Nat, NEW id \in Id
    PROVE  LET t == TryAutoTimeout(s, now, id)
           IN  Passes(s, t, now) /\ \A i \in Id \ {id} : Keeps(s, t, i)
  <1>1. CASE id \in Due(s, now)
    <2>1. {id} \in SUBSET Due(s, now)
      BY <1>1
    <2>2. TryAutoTimeout(s, now, id) = Expire(s, {id}, now)
      BY <1>1 DEF TryAutoTimeout
    <2> QED BY <2>1, <2>2, ExpireEffect
  <1>2. CASE id \notin Due(s, now)
    <2>1. TryAutoTimeout(s, now, id) = s /\ Quiet(s, s)
      BY <1>2 DEF TryAutoTimeout, Quiet
    <2> QED BY <2>1, QuietPasses
  <1> QED BY <1>1, <1>2

LEMMA PromiseSettleEffect ==
    ASSUME NEW s, Inv(s), NEW now \in Nat, NEW id \in Id,
           NEW outcome \in SettleState
    PROVE  LET t == PromiseSettle(s, now, id, outcome)
           IN  /\ \A i \in Id \ {id} : Keeps(s, t, i)
               /\ IF s.promises[id].state = "pending"
                  THEN Closes(s, t, id, outcome, now)
                  ELSE t = s
               /\ Tells(s, t)
               /\ Forgets(s, t)
  <1> DEFINE o == [i \in Id |-> outcome]
             at == [i \in Id |-> now]
             t == Settle(s, {id}, o, at, now)
  <1>1. CASE s.promises[id].state = "pending"
    <2>1. \A i \in {id} : /\ s.promises[i].state = "pending"
                          /\ o[i] = outcome /\ at[i] = now
                          /\ o[i] \in Settled /\ at[i] \in Nat
      BY <1>1 DEF SettleState, Settled
    <2>2. PromiseSettle(s, now, id, outcome) = t
      BY <1>1 DEF PromiseSettle
    <2> HIDE DEF o, at
    <2>3. /\ \A i \in Id \ {id} : Keeps(s, t, i)
          /\ \A i \in {id} : Closes(s, t, i, o[i], at[i])
          /\ Tells(s, t)
          /\ Forgets(s, t)
      BY <2>1, SettleEffect
    <2> HIDE DEF t
    <2> QED BY <1>1, <2>1, <2>2, <2>3
  <1>2. CASE s.promises[id].state # "pending"
    <2>1. PromiseSettle(s, now, id, outcome) = s /\ Quiet(s, s)
      BY <1>2 DEF PromiseSettle, Quiet
    <2>2. Passes(s, s, now) /\ \A i \in Id : Keeps(s, s, i)
      BY <2>1, QuietPasses
    <2> QED BY <1>2, <2>1, <2>2 DEF Passes
  <1> QED BY <1>1, <1>2

\* A worker that holds the task settles its promise.
LEMMA TaskFulfillEffect ==
    ASSUME NEW s, Inv(s), NEW now \in Nat, NEW id \in Id,
           NEW outcome \in SettleState
    PROVE  LET t == TaskFulfill(s, now, id, outcome)
           IN  /\ \A i \in Id \ {id} : Keeps(s, t, i)
               /\ IF s.tasks[id].state = "acquired"
                  THEN Closes(s, t, id, outcome, now)
                  ELSE t = s
               /\ Tells(s, t)
               /\ Forgets(s, t)
  <1>1. CASE s.tasks[id].state = "acquired"
    <2>1. s.promises[id].state = "pending"
      BY <1>1, AcquiredPending
    <2>2. TaskFulfill(s, now, id, outcome) = PromiseSettle(s, now, id, outcome)
      BY <1>1, <2>1 DEF TaskFulfill
    <2> QED BY <1>1, <2>1, <2>2, PromiseSettleEffect
  <1>2. CASE s.tasks[id].state # "acquired"
    <2>1. TaskFulfill(s, now, id, outcome) = s /\ Quiet(s, s)
      BY <1>2 DEF TaskFulfill, Quiet
    <2>2. Passes(s, s, now) /\ \A i \in Id : Keeps(s, s, i)
      BY <2>1, QuietPasses
    <2> QED BY <1>2, <2>1, <2>2 DEF Passes
  <1> QED BY <1>1, <1>2

LEMMA RegisterEffect ==
    ASSUME NEW s, Inv(s), NEW id \in Id, NEW addr \in Addr
    PROVE  LET t == PromiseRegisterListener(s, id, addr)
           IN  /\ \A i \in Id \ {id} : Keeps(s, t, i)
               /\ IF s.promises[id].state = "pending"
                  THEN Hears(s, t, id, addr)
                  ELSE t = s
               /\ Tells(s, t)
  <1> DEFINE q == [s.promises[id] EXCEPT !.subscribers = @ \cup {addr}]
             t == PutPromise(s, id, q)
  <1>1. CASE s.promises[id].state = "pending"
    <2>1. /\ q.state = "pending"
          /\ q.target = s.promises[id].target
          /\ q.timer = s.promises[id].timer
          /\ q.timeoutAt = s.promises[id].timeoutAt
          /\ q.settledAt = s.promises[id].settledAt
          /\ q.subscribers = s.promises[id].subscribers \cup {addr}
      BY <1>1, Fields DEF Inv, Promise
    <2>2. PromiseRegisterListener(s, id, addr) = t
      BY <1>1 DEF PromiseRegisterListener
    <2> HIDE DEF q
    <2>3. /\ t.outgoing = s.outgoing
          /\ t.promises[id] = q
          /\ \A i \in Id \ {id} : t.promises[i] = s.promises[i]
      BY DEF PutPromise, Inv, State
    <2> HIDE DEF t
    <2>4. \A i \in Id \ {id} : Keeps(s, t, i)
      BY <2>3 DEF Keeps
    <2>5. Tells(s, t)
      BY <1>1, <2>1, <2>3 DEF Tells, Notice, Settled
    <2> QED BY <1>1, <2>1, <2>2, <2>3, <2>4, <2>5 DEF Hears
  <1>2. CASE s.promises[id].state # "pending"
    <2>1. PromiseRegisterListener(s, id, addr) = s /\ Quiet(s, s)
      BY <1>2 DEF PromiseRegisterListener, Quiet
    <2>2. Passes(s, s, 0) /\ \A i \in Id : Keeps(s, s, i)
      BY <2>1, QuietPasses
    <2> QED BY <1>2, <2>1, <2>2 DEF Passes
  <1> QED BY <1>1, <1>2

\* A promise is created as the request says, for an id nobody used.
LEMMA CreateEffect ==
    ASSUME NEW s, Inv(s), NEW now \in Nat, NEW id \in Id,
           NEW timeoutAt \in Nat, NEW tags \in Tags
    PROVE  LET t == PromiseCreate(s, now, id, timeoutAt, tags)
           IN  /\ \A i \in Id \ {id} : Keeps(s, t, i)
               /\ IF HasPromise(s, id) THEN t = s
                  ELSE Opens(s, t, now, id, tags, timeoutAt)
               /\ Tells(s, t)
               /\ Forgets(s, t)
  <1> DEFINE t == PromiseCreate(s, now, id, timeoutAt, tags)
  <1>0. s.promises[id] \in Promise /\ s.promises[id].state \in PromiseState
    BY Fields DEF Inv, Promise
  <1>1. CASE HasPromise(s, id)
    <2>1. t = s /\ Quiet(s, s)
      BY <1>1 DEF PromiseCreate, Quiet
    <2>2. Passes(s, s, now) /\ \A i \in Id : Keeps(s, s, i)
      BY <2>1, QuietPasses
    <2> QED BY <1>1, <2>1, <2>2 DEF Passes
  <1>2. CASE ~ HasPromise(s, id) /\ now >= timeoutAt
    <2> DEFINE p == NewPromise("absent", tags, timeoutAt, timeoutAt)
               q == [p EXCEPT !.state = TimeoutState(p)]
               u == PutPromise(s, id, q)
    <2>1. /\ q \in Promise
          /\ q.state \in Settled
          /\ q.state = TimeoutState(q)
          /\ q.target = tags.target /\ q.timer = tags.timer
          /\ q.timeoutAt = timeoutAt /\ q.settledAt = timeoutAt
          /\ q.awaiters = {} /\ q.subscribers = {}
      <3>1. "absent" \in PromiseState /\ timeoutAt \in Nat \cup {None}
        BY DEF PromiseState
      <3>2. /\ p \in Promise
            /\ p.target = tags.target /\ p.timer = tags.timer
            /\ p.timeoutAt = timeoutAt /\ p.settledAt = timeoutAt
            /\ p.awaiters = {} /\ p.subscribers = {}
        BY <3>1, NewPromiseType
      <3> HIDE DEF p
      <3> QED BY <3>2 DEF Promise, PromiseState, TimeoutState, Settled
    <2> HIDE DEF q
    <2>2. /\ u \in State
          /\ u.outgoing = s.outgoing
          /\ u.promises[id] = q
          /\ \A i \in Id \ {id} : u.promises[i] = s.promises[i]
      BY <2>1 DEF PutPromise, Inv, State
    <2>3. t = Propagate(u, {id}, now)
      BY <1>2 DEF PromiseCreate, q
    <2> HIDE DEF u, t
    <2>4. \A i \in {id} : u.promises[i].state \in Settled
      BY <2>1, <2>2
    <2>5. Propagated(u, {id}, now, t)
      BY <2>2, <2>3, <2>4, PropagateFacts
    <2>6. ASSUME NEW i \in Id
          PROVE  /\ t.promises[i].state = u.promises[i].state
                 /\ t.promises[i].target = u.promises[i].target
                 /\ t.promises[i].timer = u.promises[i].timer
                 /\ t.promises[i].timeoutAt = u.promises[i].timeoutAt
                 /\ t.promises[i].settledAt = u.promises[i].settledAt
                 /\ t.promises[i].subscribers =
                      IF i = id THEN {} ELSE u.promises[i].subscribers
                 /\ t.promises[i].awaiters \subseteq u.promises[i].awaiters
      <3>1. t.promises[i].awaiters = IF i \in {id} THEN {}
               ELSE u.promises[i].awaiters \ Unfinished(u, {id})
        BY <2>5 DEF Propagated
      <3> HIDE DEF Unfinished
      <3> QED BY <2>5, <3>1 DEF Propagated
    <2>7. \A i \in Id \ {id} : Keeps(s, t, i)
      BY <2>2, <2>6 DEF Keeps
    <2>8. TimeoutState(t.promises[id]) = TimeoutState(q)
      BY <2>2, <2>6 DEF TimeoutState
    <2>9. Opens(s, t, now, id, tags, timeoutAt)
      BY <1>2, <2>1, <2>2, <2>6, <2>8 DEF Opens
    <2>10. Forgets(s, t)
      <3> SUFFICES ASSUME NEW i \in Id
                   PROVE  t.promises[i].awaiters \subseteq s.promises[i].awaiters
        BY DEF Forgets
      <3> QED BY <2>1, <2>2, <2>6
    <2>11. Tells(s, t)
      <3> SUFFICES ASSUME NEW m \in Notice
          PROVE  m \in t.outgoing <=>
                    \/ m \in s.outgoing
                    \/ /\ s.promises[m.id].state = "pending"
                       /\ t.promises[m.id].state = m.state
                       /\ m.addr \in s.promises[m.id].subscribers
        BY DEF Tells
      <3>1. m.id \in Id /\ m.state \in Settled
        BY DEF Notice
      <3>2. m \in t.outgoing <=>
               \/ m \in s.outgoing
               \/ /\ m.id \in {id}
                  /\ u.promises[m.id].state = m.state
                  /\ m.addr \in u.promises[m.id].subscribers
        BY <2>2, <2>3, <2>4, PropagateNotices
      <3>3. CASE m.id = id
        BY <1>2, <2>1, <2>2, <3>2, <3>3 DEF HasPromise
      <3>4. CASE m.id # id
        BY <2>2, <2>6, <3>1, <3>2, <3>4 DEF Settled
      <3> QED BY <3>3, <3>4
    <2> QED BY <1>2, <2>7, <2>9, <2>10, <2>11 DEF t
  <1>3. CASE ~ HasPromise(s, id) /\ ~ (now >= timeoutAt)
    <2> DEFINE q == NewPromise("pending", tags, timeoutAt, None)
               u == PutPromise(s, id, q)
    <2>1. /\ q \in Promise
          /\ q.state = "pending"
          /\ q.target = tags.target /\ q.timer = tags.timer
          /\ q.timeoutAt = timeoutAt /\ q.settledAt = None
          /\ q.awaiters = {} /\ q.subscribers = {}
      <3>1. "pending" \in PromiseState /\ None \in Nat \cup {None}
        BY DEF PromiseState
      <3> QED BY <3>1 DEF NewPromise, Promise, Tags
    <2>2. t = IF tags.target THEN Schedule(u, now, id, tags, timeoutAt) ELSE u
      BY <1>3 DEF PromiseCreate
    <2> HIDE DEF q
    <2>3. /\ u \in State
          /\ u.outgoing = s.outgoing
          /\ u.promises[id] = q
          /\ \A i \in Id \ {id} : u.promises[i] = s.promises[i]
      BY <2>1 DEF PutPromise, Inv, State
    <2>4. Quiet(u, t)
      <3> DEFINE at == IF now < tags.delay THEN tags.delay ELSE now + RetryTTL
                 k == NewTask("pending", NoPid, None)
                 v == SetTTimeout(PutTask(SetPTimeout(u, id, timeoutAt), id, k),
                                  id, "retry", at)
      <3>1. k \in Task
        BY NewTaskType DEF TaskState
      <3>2. [typ |-> "retry", at |-> at] \in TTimeout
        BY ServerAssumption DEF TTimeout, Tags
      <3>3. t = IF tags.target
                THEN IF now < tags.delay THEN v ELSE SendExecuteMessage(v, {id})
                ELSE u
        BY <2>2 DEF Schedule
      <3> HIDE DEF u, k, at
      <3>4. v \in State /\ v.promises = u.promises /\ v.outgoing = u.outgoing
        BY <2>3, <3>1, <3>2 DEF SetTTimeout, PutTask, SetPTimeout, State
      <3> HIDE DEF v, t
      <3>5. Quiet(v, SendExecuteMessage(v, {id}))
        BY <3>4, SendQuiet
      <3> QED BY <3>3, <3>4, <3>5 DEF Quiet
    <2> HIDE DEF u, t
    <2>5. \A i \in Id \ {id} : Keeps(s, t, i)
      BY <2>3, <2>4 DEF Keeps, Quiet
    <2>6. Opens(s, t, now, id, tags, timeoutAt)
      BY <1>3, <2>1, <2>3, <2>4 DEF Opens, Quiet
    <2>7. Forgets(s, t)
      <3> SUFFICES ASSUME NEW i \in Id
                   PROVE  t.promises[i].awaiters \subseteq s.promises[i].awaiters
        BY DEF Forgets
      <3> QED BY <2>1, <2>3, <2>4 DEF Quiet
    <2>8. Tells(s, t)
      <3> SUFFICES ASSUME NEW m \in Notice
          PROVE  m \in t.outgoing <=>
                    \/ m \in s.outgoing
                    \/ /\ s.promises[m.id].state = "pending"
                       /\ t.promises[m.id].state = m.state
                       /\ m.addr \in s.promises[m.id].subscribers
        BY DEF Tells
      <3>1. m.id \in Id /\ m.state \in Settled
        BY DEF Notice
      <3>2. m \in t.outgoing <=> m \in s.outgoing
        BY <2>3, <2>4 DEF Quiet
      <3>3. s.promises[m.id].state = "pending" =>
               t.promises[m.id].state # m.state
        BY <1>3, <2>3, <2>4, <3>1 DEF Quiet, HasPromise, Settled
      <3> QED BY <3>2, <3>3
    <2> QED BY <1>3, <2>5, <2>6, <2>7, <2>8 DEF t
  <1> QED BY <1>1, <1>2, <1>3

LEMMA AcquireQuiet ==
    ASSUME NEW s \in State, NEW now, NEW id, NEW pid, NEW ttl
    PROVE  Quiet(s, AcquireTask(s, now, id, pid, ttl))
  BY DEF AcquireTask, SetTTimeout, PutTask, Quiet, State

LEMMA TaskAcquireQuiet ==
    ASSUME NEW s \in State, NEW now, NEW id, NEW pid, NEW ttl
    PROVE  Quiet(s, TaskAcquire(s, now, id, pid, ttl))
  <1>1. Quiet(s, s)
    BY DEF Quiet
  <1> QED BY <1>1, AcquireQuiet DEF TaskAcquire

LEMMA ReleaseQuiet ==
    ASSUME NEW s, Inv(s), NEW now \in Nat, NEW S \in SUBSET Id
    PROVE  Quiet(s, ReleaseTasks(s, S, now))
  <1> DEFINE tk(i) == IF i \in S
                      THEN [s.tasks[i] EXCEPT !.state = "pending",
                                !.version = NextVersion(@), !.pid = NoPid,
                                !.ttl = None]
                      ELSE s.tasks[i]
             tt(i) == IF i \in S THEN [typ |-> "retry", at |-> now + RetryTTL]
                                 ELSE s.tTimeouts[i]
             u == [s EXCEPT !.tasks = [i \in Id |-> tk(i)],
                            !.tTimeouts = [i \in Id |-> tt(i)]]
  <1>1. ReleaseTasks(s, S, now) = SendExecuteMessage(u, S)
    BY DEF ReleaseTasks
  <1>2. ASSUME NEW i \in Id PROVE tk(i) \in Task
    <2>1. s.tasks[i] \in Task /\ s.tasks[i].version + 1 \in Nat
      BY Fields DEF Inv, Task
    <2>2. tk(i) = IF i \in S
                  THEN [s.tasks[i] EXCEPT !.state = "pending",
                            !.version = s.tasks[i].version + 1,
                            !.pid = NoPid, !.ttl = None]
                  ELSE s.tasks[i]
      BY DEF NextVersion
    <2> HIDE DEF tk
    <2> QED BY <2>1, <2>2 DEF Task, TaskState
  <1>3. ASSUME NEW i \in Id PROVE tt(i) \in TTimeout
    BY Fields, ServerAssumption DEF Inv, TTimeout
  <1> HIDE DEF tk, tt
  <1>4. u \in State /\ u.promises = s.promises /\ u.outgoing = s.outgoing
    BY <1>2, <1>3 DEF Inv, State
  <1> HIDE DEF u
  <1>5. Quiet(u, SendExecuteMessage(u, S))
    BY <1>4, SendQuiet
  <1> QED BY <1>1, <1>4, <1>5 DEF Quiet

LEMMA TaskReleaseQuiet ==
    ASSUME NEW s, Inv(s), NEW now \in Nat, NEW id \in Id
    PROVE  Quiet(s, TaskRelease(s, now, id))
  <1>1. Quiet(s, s)
    BY DEF Quiet
  <1> QED BY <1>1, ReleaseQuiet DEF TaskRelease

LEMMA RetryQuiet ==
    ASSUME NEW s, Inv(s), NEW now \in Nat, NEW S \in SUBSET Id
    PROVE  Quiet(s, RetryTasks(s, S, now))
  <1> DEFINE u == [s EXCEPT !.tTimeouts = [i \in Id |->
                      IF i \in S THEN [typ |-> "retry", at |-> now + RetryTTL]
                                 ELSE s.tTimeouts[i]]]
  <1>1. RetryTasks(s, S, now) = SendExecuteMessage(u, S)
    BY DEF RetryTasks
  <1>2. \A i \in Id : (IF i \in S THEN [typ |-> "retry", at |-> now + RetryTTL]
                       ELSE s.tTimeouts[i]) \in TTimeout
    BY Fields, ServerAssumption DEF Inv, TTimeout
  <1>3. u \in State /\ u.promises = s.promises /\ u.outgoing = s.outgoing
    BY <1>2 DEF Inv, State
  <1> HIDE DEF u
  <1>4. Quiet(u, SendExecuteMessage(u, S))
    BY <1>3, SendQuiet
  <1> QED BY <1>1, <1>3, <1>4 DEF Quiet

LEMMA HeartbeatQuiet ==
    ASSUME NEW s \in State, NEW now, NEW pid, NEW refs
    PROVE  Quiet(s, TaskHeartbeat(s, now, pid, refs))
  BY DEF TaskHeartbeat, Quiet, State

\* A suspension shows to no client; only what the task awaits gains an awaiter.
LEMMA SuspendEffect ==
    ASSUME NEW s, Inv(s), NEW id \in Id, NEW awaited \in SUBSET Id
    PROVE  LET t == TaskSuspend(s, id, awaited)
           IN  /\ \A i \in Id : Keeps(s, t, i)
               /\ Tells(s, t)
               /\ \A i \in Id \ awaited : t.promises[i] = s.promises[i]
  <1> DEFINE t == TaskSuspend(s, id, awaited)
             pr(i) == [s.promises[i] EXCEPT !.awaiters =
                          IF i \in awaited /\ s.promises[i].state = "pending"
                          THEN @ \cup {id} ELSE @]
  <1>1. \A m \in Notice : m \in t.outgoing <=> m \in s.outgoing
    BY DEF TaskSuspend, PutTask, Inv, State
  <1>2. \/ t.promises = s.promises
        \/ t.promises = [i \in Id |-> pr(i)]
    BY DEF TaskSuspend, PutTask, Inv, State
  <1>3. ASSUME NEW i \in Id
        PROVE  /\ t.promises[i] = s.promises[i] \/ t.promises[i] = pr(i)
               /\ i \notin awaited => t.promises[i] = s.promises[i]
    <2>1. s.promises[i] \in Promise
      BY Fields DEF Inv
    <2>2. i \notin awaited => pr(i) = s.promises[i]
      BY <2>1 DEF Promise
    <2> HIDE DEF pr, t
    <2> QED BY <1>2, <2>2
  <1> HIDE DEF t
  <1>4. ASSUME NEW i \in Id PROVE Keeps(s, t, i)
    <2>1. s.promises[i] \in Promise
      BY Fields DEF Inv
    <2>2. /\ pr(i).state = s.promises[i].state
          /\ pr(i).target = s.promises[i].target
          /\ pr(i).timer = s.promises[i].timer
          /\ pr(i).timeoutAt = s.promises[i].timeoutAt
          /\ pr(i).settledAt = s.promises[i].settledAt
          /\ pr(i).subscribers = s.promises[i].subscribers
      BY <2>1 DEF Promise
    <2> HIDE DEF pr
    <2> QED BY <1>3, <2>2 DEF Keeps
  <1>5. Tells(s, t)
    BY <1>1, <1>4 DEF Tells, Keeps, Notice, Settled
  <1> QED BY <1>3, <1>4, <1>5 DEF t

\* A turn of the loop settles nothing but what is overdue.
LEMMA TickEffect ==
    ASSUME NEW s, Inv(s), NEW now \in Nat
    PROVE  Passes(s, Tick(s, now), now)
  <1> DEFINE ripe(typ, state) ==
                 {i \in Id : /\ s.tTimeouts[i].typ = typ
                             /\ s.tTimeouts[i].at <= now
                             /\ s.tasks[i].state = state}
             overdue == {i \in Id : /\ s.pTimeouts[i] # None
                                    /\ s.pTimeouts[i] <= now
                                    /\ s.promises[i].state = "pending"}
             t == Expire(s, overdue, now)
             expired == {i \in ripe("lease", "acquired") :
                             HoldsLease(t, i, s.tasks[i].version)}
             u == ReleaseTasks(t, expired, now)
             silent == {i \in ripe("retry", "pending") :
                             u.tasks[i].state = "pending"}
             v == RetryTasks(u, silent, now)
  <1>1. Tick(s, now) = v
    BY DEF Tick
  <1>2. overdue \in SUBSET Due(s, now) /\ overdue \in SUBSET Id
    <2>1. \A i \in Id : s.promises[i].timeoutAt \in Nat
      BY Fields DEF Inv, Promise
    <2> QED BY <2>1 DEF Due, Inv, TimeoutsScheduled
  <1> HIDE DEF overdue
  <1>3. Inv(t) /\ Passes(s, t, now)
    <2>1. \A i \in overdue : s.promises[i].state = "pending"
      BY <1>2 DEF Due
    <2> QED BY <1>2, <2>1, ExpireInv, ExpireEffect
  <1> HIDE DEF t
  <1>4. /\ expired \in SUBSET Id
        /\ \A i \in expired : t.tasks[i].state = "acquired"
    BY DEF HoldsLease
  <1> HIDE DEF expired
  <1>5. Inv(u) /\ Quiet(t, u)
    BY <1>3, <1>4, ReleaseInv, ReleaseQuiet
  <1> HIDE DEF u
  <1>6. silent \in SUBSET Id
    OBVIOUS
  <1> HIDE DEF silent
  <1>7. Quiet(u, v)
    BY <1>5, <1>6, RetryQuiet
  <1> HIDE DEF v
  <1>8. v.promises = t.promises
        /\ \A m \in Notice : m \in v.outgoing <=> m \in t.outgoing
    BY <1>5, <1>7 DEF Quiet
  <1> QED BY <1>1, <1>3, <1>8 DEF Passes, Keeps, Lapses, Closes, Tells, Forgets

\* A task is created with its promise, or acquired, or nothing happens.
LEMMA TaskCreateEffect ==
    ASSUME NEW s, Inv(s), NEW now \in Nat, NEW id \in Id,
           NEW timeoutAt \in Nat, NEW tags \in Tags,
           NEW pid \in Pid, NEW ttl \in Nat
    PROVE  LET t == TaskCreate(s, now, id, timeoutAt, tags, pid, ttl)
           IN  /\ \A i \in Id \ {id} : Keeps(s, t, i)
               /\ Keeps(s, t, id) \/ Opens(s, t, now, id, tags, timeoutAt)
               /\ Tells(s, t)
  <1> DEFINE t == TaskCreate(s, now, id, timeoutAt, tags, pid, ttl)
  <1>1. CASE HasTask(s, id) \/ HasPromise(s, id)
    <2>1. Quiet(s, t)
      <3>1. Quiet(s, s)
        BY DEF Quiet
      <3>2. s \in State
        BY DEF Inv
      <3>3. t = s \/ t = AcquireTask(s, now, id, pid, ttl)
        BY <1>1 DEF TaskCreate
      <3> HIDE DEF t
      <3> QED BY <3>1, <3>2, <3>3, AcquireQuiet
    <2> HIDE DEF t
    <2>2. Passes(s, t, now) /\ \A i \in Id : Keeps(s, t, i)
      BY <2>1, QuietPasses
    <2> QED BY <2>2 DEF Passes, t
  <1>2. CASE ~ HasTask(s, id) /\ ~ HasPromise(s, id)
    <2> DEFINE late == now >= timeoutAt
               p == NewPromise("absent", tags, timeoutAt, timeoutAt)
               q == IF late THEN [p EXCEPT !.state = TimeoutState(p)]
                    ELSE NewPromise("pending", tags, timeoutAt, None)
    <2>1. /\ q.state = IF late THEN TimeoutState(q) ELSE "pending"
          /\ q.target = tags.target /\ q.timer = tags.timer
          /\ q.timeoutAt = timeoutAt
          /\ q.settledAt = IF late THEN timeoutAt ELSE None
          /\ q.subscribers = {}
      BY DEF NewPromise, TimeoutState
    <2>2. t.promises = [s.promises EXCEPT ![id] = q]
      BY <1>2 DEF TaskCreate, PutPromise, PutTask, SetPTimeout, SetTTimeout,
                  Inv, State
    <2>3. t.outgoing = s.outgoing
      BY <1>2 DEF TaskCreate, PutPromise, PutTask, SetPTimeout, SetTTimeout,
                  Inv, State
    <2> HIDE DEF q, t
    <2>4. /\ t.promises[id] = q
          /\ \A i \in Id \ {id} : t.promises[i] = s.promises[i]
      BY <2>2 DEF Inv, State
    <2>5. \A i \in Id \ {id} : Keeps(s, t, i)
      BY <2>4 DEF Keeps
    <2>6. TimeoutState(t.promises[id]) = TimeoutState(q)
      BY <2>4
    <2>7. Opens(s, t, now, id, tags, timeoutAt)
      BY <1>2, <2>1, <2>4, <2>6 DEF Opens
    <2>8. Tells(s, t)
      BY <1>2, <2>3, <2>4 DEF Tells, Notice, HasPromise, Settled
    <2> QED BY <2>5, <2>7, <2>8 DEF t
  <1> QED BY <1>1, <1>2

LEMMA ClearEffect ==
    ASSUME NEW s, Inv(s)
    PROVE  /\ Clear(s).promises = s.promises
           /\ Clear(s).outgoing = {}
  BY DEF Clear, Inv, State

-----------------------------------------------------------------------------
(* What workers are told                                                   *)

Execute(i, v) == [kind |-> "execute", id |-> i, version |-> v]

\* The task of promise i is ready and has an address, and the batch does not
\* announce it.
Silent(s, i) == /\ s.tasks[i].state = "pending"
                /\ s.promises[i].target
                /\ Execute(i, s.tasks[i].version) \notin s.outgoing

\* No task is forgotten or loses its address, and none falls silent.
Announces(s, t) == \A i \in Id : HasTask(s, i) =>
    /\ HasTask(t, i)
    /\ t.promises[i].target = s.promises[i].target
    /\ Silent(t, i) => Silent(s, i)

\* A task comes to be only for a promise with an address.
Tracks(s, t) == \A i \in Id :
    HasTask(t, i) => HasTask(s, i) \/ t.promises[i].target

\* Nobody gains a lease.
NoNewLease(s, t) == \A i \in Id : \A v :
    HoldsLease(t, i, v) => HoldsLease(s, i, v)

\* What is announced is ready, under the version the message names.
Current(s) == \A i \in Id : \A v \in Nat :
    Execute(i, v) \in s.outgoing =>
        s.tasks[i].state = "pending" /\ s.tasks[i].version = v

LEMMA AnnouncesSame ==
    ASSUME NEW s
    PROVE  Announces(s, s) /\ Tracks(s, s)
  BY DEF Announces, Tracks

LEMMA AnnouncesTransitive ==
    ASSUME NEW s, NEW t, NEW u, Announces(s, t), Announces(t, u)
    PROVE  Announces(s, u)
  BY DEF Announces

\* An announcement reaches the batch for each task of S with an address, once
\* and under its version.
LEMMA SendMessages ==
    ASSUME NEW s \in State, NEW S \in SUBSET Id, NEW i \in Id, NEW v
    PROVE  Execute(i, v) \in SendExecuteMessage(s, S).outgoing <=>
              IF i \in S /\ s.promises[i].target
              THEN v = s.tasks[i].version
              ELSE Execute(i, v) \in s.outgoing
  <1> DEFINE to == {j \in S : s.promises[j].target}
             new == {[kind |-> "execute", id |-> j,
                      version |-> s.tasks[j].version] : j \in to}
             old == {m \in s.outgoing : m.kind = "execute" => m.id \notin to}
             x == Execute(i, v)
  <1>1. SendExecuteMessage(s, S).outgoing = old \cup new
    BY DEF SendExecuteMessage, State
  <1>2. x.kind = "execute" /\ x.id = i /\ x.version = v
    BY DEF Execute
  <1>3. x \in old <=> x \in s.outgoing /\ i \notin to
    BY <1>2
  <1>4. x \in new <=> i \in to /\ v = s.tasks[i].version
    <2>1. ASSUME x \in new PROVE i \in to /\ v = s.tasks[i].version
      <3>1. PICK j \in to : x = [kind |-> "execute", id |-> j,
                                 version |-> s.tasks[j].version]
        BY <2>1
      <3>2. x.id = j /\ x.version = s.tasks[j].version
        BY <3>1
      <3> QED BY <1>2, <3>1, <3>2
    <2>2. ASSUME i \in to, v = s.tasks[i].version PROVE x \in new
      BY <2>2 DEF Execute
    <2> QED BY <2>1, <2>2
  <1> HIDE DEF x, old, new
  <1> QED BY <1>1, <1>3, <1>4 DEF x

LEMMA SendAnnounces ==
    ASSUME NEW s \in State, NEW S \in SUBSET Id
    PROVE  LET t == SendExecuteMessage(s, S)
           IN  \A i \in Id : Silent(t, i) <=> Silent(s, i) /\ i \notin S
  <1> DEFINE t == SendExecuteMessage(s, S)
  <1>1. t.tasks = s.tasks /\ t.promises = s.promises
    BY SendFacts
  <1> SUFFICES ASSUME NEW i \in Id
               PROVE  Silent(t, i) <=> Silent(s, i) /\ i \notin S
    OBVIOUS
  <1>2. Execute(i, s.tasks[i].version) \in t.outgoing <=>
           IF i \in S /\ s.promises[i].target
           THEN s.tasks[i].version = s.tasks[i].version
           ELSE Execute(i, s.tasks[i].version) \in s.outgoing
    BY SendMessages
  <1> HIDE DEF t
  <1> QED BY <1>1, <1>2 DEF Silent

\* Tasks that are woken are announced under their new versions; the messages
\* about other tasks stay.
LEMMA PropagateMessages ==
    ASSUME NEW s \in State, NEW S \in SUBSET Id, NEW now \in Nat,
           \A i \in S : s.promises[i].state \in Settled,
           NEW i \in Id, NEW v
    PROVE  Execute(i, v) \in Propagate(s, S, now).outgoing <=>
              IF AwaitsOne(s, S, i) /\ s.promises[i].target
              THEN v = s.tasks[i].version + 1
              ELSE Execute(i, v) \in s.outgoing
  <1> DEFINE e == EnqueueSettle(s, S)
             tk == [a \in Id |->
                CASE a \in Woken(e, S) -> Wake(e.tasks[a], WokenBy(e, S, a))
                  [] e.tasks[a].state \in {"pending", "acquired"} ->
                        [e.tasks[a] EXCEPT !.resumes = @ \cup WokenBy(e, S, a)]
                  [] OTHER -> e.tasks[a]]
             tt == [a \in Id |-> IF a \in Woken(e, S)
                                 THEN [typ |-> "retry", at |-> now + RetryTTL]
                                 ELSE e.tTimeouts[a]]
             pr == [a \in Id |-> [e.promises[a] EXCEPT
                                     !.awaiters = IF a \in S THEN {} ELSE @]]
             u == [e EXCEPT !.tasks = tk, !.tTimeouts = tt, !.promises = pr]
             r == SendExecuteMessage(u, Woken(e, S))
  <1>1. /\ e \in State /\ e.outgoing = s.outgoing
        /\ \A a \in Id :
             /\ e.promises[a] = [s.promises[a] EXCEPT
                                    !.awaiters = @ \ Unfinished(s, S)]
             /\ e.tasks[a] =
                  CASE a \in Missing(s, S) -> NewTask("fulfilled", NoPid, None)
                    [] a \in Unfinished(s, S) -> Finish(s.tasks[a])
                    [] OTHER -> s.tasks[a]
    BY EnqueueFacts
  <1> HIDE DEF e
  <1>2. Resumed(e, S, now, r)
    <2>1. r = ResumeAwaiters(e, S, now)
      BY DEF ResumeAwaiters
    <2> HIDE DEF r
    <2> QED BY <1>1, <2>1, ResumeFacts
  <1>3. ASSUME NEW a \in Id
        PROVE  a \in Woken(e, S) <=> AwaitsOne(s, S, a)
    <2>1. s.tasks[a] \in Task
      BY Fields
    <2>2. e.tasks[a].state = "suspended" <=>
             a \notin S /\ s.tasks[a].state = "suspended"
      <3>1. CASE a \in Missing(s, S)
        <4>1. e.tasks[a] = NewTask("fulfilled", NoPid, None)
          BY <1>1, <3>1 DEF Missing, Unfinished
        <4> QED BY <3>1, <4>1 DEF NewTask, Missing
      <3>2. CASE a \in Unfinished(s, S)
        <4>1. e.tasks[a] = Finish(s.tasks[a])
          BY <1>1, <3>2 DEF Missing, Unfinished
        <4> QED BY <2>1, <3>2, <4>1 DEF Finish, Task, Unfinished
      <3>3. CASE a \notin Missing(s, S) \cup Unfinished(s, S)
        <4>1. e.tasks[a] = s.tasks[a]
          BY <1>1, <3>3
        <4> QED BY <3>3, <4>1 DEF Unfinished
      <3> QED BY <3>1, <3>2, <3>3
    <2>3. ASSUME NEW p \in Id
          PROVE  e.promises[p].awaiters = s.promises[p].awaiters \ Unfinished(s, S)
      <3>1. s.promises[p] \in Promise
        BY Fields
      <3> QED BY <1>1, <3>1 DEF Promise
    <2>4. ASSUME a \notin S
          PROVE  WokenBy(e, S, a) # {}
                     <=> \E p \in S : a \in s.promises[p].awaiters
      BY <2>3, <2>4 DEF WokenBy, Unfinished
    <2> QED BY <2>2, <2>4 DEF Woken, AwaitsOne
  <1>4. /\ u \in State
        /\ u.outgoing = s.outgoing
        /\ u.promises[i].target = s.promises[i].target
        /\ AwaitsOne(s, S, i) => u.tasks[i].version = s.tasks[i].version + 1
    <2>1. r.tasks = tk /\ r.promises = pr /\ r.tTimeouts = tt
      <3> HIDE DEF tk, tt, pr
      <3> QED BY <1>1 DEF SendExecuteMessage, State
    <2>2. tk \in [Id -> Task] /\ pr \in [Id -> Promise] /\ tt \in [Id -> TTimeout]
      <3>1. r \in State
        BY <1>2 DEF Resumed
      <3> HIDE DEF r, tk, tt, pr
      <3> QED BY <2>1, <3>1 DEF State
    <2> HIDE DEF tk, tt, pr
    <2>3. u.tasks = tk /\ u.promises = pr /\ u.outgoing = e.outgoing
      BY <1>1 DEF State
    <2>4. u \in State
      BY <1>1, <2>2 DEF State
    <2> HIDE DEF u, r
    <2>5. u.promises[i].target = s.promises[i].target
      <3>1. s.promises[i] \in Promise /\ e.promises[i] \in Promise
        BY <1>1, Fields
      <3>2. r.promises[i] = [e.promises[i] EXCEPT
                                !.awaiters = IF i \in S THEN {} ELSE @]
        BY <1>2 DEF Resumed
      <3>3. e.promises[i] = [s.promises[i] EXCEPT
                                !.awaiters = @ \ Unfinished(s, S)]
        BY <1>1
      <3> HIDE DEF Unfinished
      <3> QED BY <2>1, <2>3, <3>1, <3>2, <3>3 DEF Promise
    <2>6. ASSUME AwaitsOne(s, S, i)
          PROVE  u.tasks[i].version = s.tasks[i].version + 1
      <3>1. s.tasks[i] \in Task
        BY Fields
      <3>2. e.tasks[i] = s.tasks[i]
        BY <1>1, <2>6 DEF AwaitsOne, Missing, Unfinished
      <3>3. i \in Woken(e, S)
        BY <1>3, <2>6
      <3>4. e.tasks[i].state = "suspended"
        BY <3>3 DEF Woken
      <3>5. r.tasks[i] = Wake(e.tasks[i], WokenBy(e, S, i))
        BY <1>2, <3>3, <3>4 DEF Resumed
      <3> QED BY <2>1, <2>3, <3>1, <3>2, <3>5 DEF Wake, NextVersion, Task
    <2> QED BY <1>1, <2>3, <2>4, <2>5, <2>6
  <1>5. r \in State /\ Propagate(s, S, now) = NotifySubscribers(r, S)
    BY <1>2 DEF Resumed, Propagate, ResumeAwaiters, e
  <1> HIDE DEF u
  <1>6. Execute(i, v) \in r.outgoing <=>
           IF i \in Woken(e, S) /\ u.promises[i].target
           THEN v = u.tasks[i].version
           ELSE Execute(i, v) \in u.outgoing
    <2>1. Woken(e, S) \in SUBSET Id
      BY DEF Woken
    <2> QED BY <1>4, <2>1, SendMessages
  <1> HIDE DEF r
  <1>7. Execute(i, v) \in NotifySubscribers(r, S).outgoing <=>
           Execute(i, v) \in r.outgoing
    <2> DEFINE notice(j) == {[kind |-> "unblock", id |-> j, addr |-> a,
                              state |-> r.promises[j].state] :
                                 a \in r.promises[j].subscribers}
    <2>1. NotifySubscribers(r, S).outgoing =
             r.outgoing \cup UNION {notice(j) : j \in S}
      BY <1>5 DEF NotifySubscribers, State
    <2>2. \A j \in S : Execute(i, v) \notin notice(j)
      BY DEF Execute
    <2> HIDE DEF notice
    <2> QED BY <2>1, <2>2
  <1> QED BY <1>3, <1>4, <1>5, <1>6, <1>7

LEMMA PropagateAnnounces ==
    ASSUME NEW s \in State, NEW S \in SUBSET Id, NEW now \in Nat,
           \A i \in S : s.promises[i].state \in Settled
    PROVE  LET t == Propagate(s, S, now)
           IN  /\ Announces(s, t) /\ Tracks(s, t) /\ NoNewLease(s, t)
               /\ s.outgoing = {} => Current(t)
  <1> DEFINE t == Propagate(s, S, now)
  <1>1. Propagated(s, S, now, t)
    BY PropagateFacts
  <1>2. ASSUME NEW i \in Id, NEW v
        PROVE  Execute(i, v) \in t.outgoing <=>
                  IF AwaitsOne(s, S, i) /\ s.promises[i].target
                  THEN v = s.tasks[i].version + 1
                  ELSE Execute(i, v) \in s.outgoing
    BY PropagateMessages
  <1> HIDE DEF t
  <1>3. ASSUME NEW i \in Id
        PROVE  /\ t.promises[i].target = s.promises[i].target
               /\ t.tasks[i].state =
                    IF i \in Missing(s, S) \cup Unfinished(s, S) THEN "fulfilled"
                    ELSE IF AwaitsOne(s, S, i) THEN "pending" ELSE s.tasks[i].state
               /\ t.tasks[i].version =
                    IF i \in Missing(s, S) THEN 0
                    ELSE IF AwaitsOne(s, S, i) THEN s.tasks[i].version + 1
                    ELSE s.tasks[i].version
    BY <1>1 DEF Propagated
  <1>4. ASSUME NEW i \in Id, HasTask(s, i)
        PROVE  HasTask(t, i) /\ (Silent(t, i) => Silent(s, i))
    <2>1. HasTask(t, i)
      BY <1>3, <1>4 DEF HasTask
    <2>2. ASSUME AwaitsOne(s, S, i), Silent(t, i) PROVE FALSE
      <3>1. t.tasks[i].version = s.tasks[i].version + 1
        BY <1>3, <2>2 DEF Silent, AwaitsOne, Missing
      <3>2. s.promises[i].target /\ Execute(i, s.tasks[i].version + 1) \notin t.outgoing
        BY <1>3, <2>2, <3>1 DEF Silent
      <3> QED BY <1>2, <2>2, <3>2
    <2>3. CASE ~ AwaitsOne(s, S, i)
      BY <1>2, <1>3, <2>1, <2>3 DEF Silent, Missing
    <2> QED BY <2>1, <2>2, <2>3
  <1>5. Tracks(s, t)
    <2> SUFFICES ASSUME NEW i \in Id, ~ HasTask(s, i), HasTask(t, i)
                 PROVE  s.promises[i].target
      BY <1>3 DEF Tracks
    <2> QED BY <1>3 DEF HasTask, AwaitsOne, Missing, Unfinished
  <1>6. ASSUME s.outgoing = {}, NEW i \in Id, NEW v \in Nat,
               Execute(i, v) \in t.outgoing
        PROVE  t.tasks[i].state = "pending" /\ t.tasks[i].version = v
    <2>1. AwaitsOne(s, S, i) /\ v = s.tasks[i].version + 1
      BY <1>2, <1>6
    <2>2. i \notin Missing(s, S) \cup Unfinished(s, S)
      BY <2>1 DEF AwaitsOne, Missing, Unfinished
    <2> QED BY <1>3, <2>1, <2>2
  <1>7. NoNewLease(s, t)
    BY <1>3 DEF NoNewLease, HoldsLease, Missing
  <1> QED BY <1>3, <1>4, <1>5, <1>6, <1>7 DEF Announces, Current, t

\* A step that readies no task and drops no message about one.
LEMMA AnnouncesKept ==
    ASSUME NEW s, NEW t,
           \A i \in Id : HasTask(s, i) =>
              /\ HasTask(t, i)
              /\ t.promises[i].target = s.promises[i].target
              /\ t.tasks[i].state = "pending" =>
                    /\ s.tasks[i].state = "pending"
                    /\ t.tasks[i].version = s.tasks[i].version
                    /\ Execute(i, s.tasks[i].version) \in s.outgoing =>
                          Execute(i, s.tasks[i].version) \in t.outgoing
    PROVE  Announces(s, t)
  BY DEF Announces, Silent

LEMMA SettleAnnounces ==
    ASSUME NEW s, Inv(s), NEW S \in SUBSET Id, NEW outcome, NEW at,
           NEW now \in Nat,
           \A i \in S : outcome[i] \in Settled /\ at[i] \in Nat
    PROVE  LET t == Settle(s, S, outcome, at, now)
           IN  /\ Announces(s, t) /\ Tracks(s, t) /\ NoNewLease(s, t)
               /\ s.outgoing = {} => Current(t)
  <1> DEFINE pr(i) == IF i \in S
                      THEN [s.promises[i] EXCEPT !.state = outcome[i],
                                                 !.settledAt = at[i]]
                      ELSE s.promises[i]
             u == [s EXCEPT !.promises = [i \in Id |-> pr(i)],
                            !.pTimeouts = [i \in Id |->
                                IF i \in S THEN None ELSE s.pTimeouts[i]]]
  <1>1. Settle(s, S, outcome, at, now) = Propagate(u, S, now)
    BY DEF Settle
  <1>2. ASSUME NEW i \in Id
        PROVE  /\ pr(i) \in Promise
               /\ i \in S => pr(i).state \in Settled
               /\ pr(i).target = s.promises[i].target
    <2>1. s.promises[i] \in Promise
      BY Fields DEF Inv
    <2> QED BY <2>1 DEF Promise, PromiseState
  <1> HIDE DEF pr
  <1>3. /\ u \in State
        /\ u.outgoing = s.outgoing
        /\ u.tasks = s.tasks
        /\ \A i \in Id : u.promises[i] = pr(i)
    <2>1. \A i \in Id : (IF i \in S THEN None ELSE s.pTimeouts[i])
                            \in Nat \cup {None}
      BY Fields DEF Inv
    <2> QED BY <1>2, <2>1 DEF Inv, State
  <1> HIDE DEF u
  <1>4. Announces(s, u)
    BY <1>2, <1>3, AnnouncesKept DEF HasTask
  <1>5. \A i \in S : u.promises[i].state \in Settled
    BY <1>2, <1>3
  <1>6. /\ Announces(u, Propagate(u, S, now))
        /\ Tracks(u, Propagate(u, S, now))
        /\ NoNewLease(u, Propagate(u, S, now))
        /\ u.outgoing = {} => Current(Propagate(u, S, now))
    BY <1>3, <1>5, PropagateAnnounces
  <1>7. Tracks(s, Propagate(u, S, now)) /\ NoNewLease(s, Propagate(u, S, now))
    BY <1>3, <1>6 DEF Tracks, HasTask, NoNewLease, HoldsLease
  <1> QED BY <1>1, <1>3, <1>4, <1>6, <1>7, AnnouncesTransitive

LEMMA ExpireAnnounces ==
    ASSUME NEW s, Inv(s), NEW now \in Nat, NEW S \in SUBSET Id
    PROVE  LET t == Expire(s, S, now)
           IN  /\ Announces(s, t) /\ Tracks(s, t) /\ NoNewLease(s, t)
               /\ s.outgoing = {} => Current(t)
  <1> DEFINE outcome == [i \in Id |-> TimeoutState(s.promises[i])]
             at == [i \in Id |-> s.promises[i].timeoutAt]
  <1>1. \A i \in S : outcome[i] \in Settled /\ at[i] \in Nat
    BY Fields DEF Inv, Promise, TimeoutState, Settled
  <1>2. Expire(s, S, now) = Settle(s, S, outcome, at, now)
    BY DEF Expire
  <1> HIDE DEF outcome, at
  <1> QED BY <1>1, <1>2, SettleAnnounces

LEMMA AutoTimeoutAnnounces ==
    ASSUME NEW s, Inv(s), NEW now \in Nat, NEW id \in Id
    PROVE  LET t == TryAutoTimeout(s, now, id)
           IN  Announces(s, t) /\ Tracks(s, t)
  <1>1. {id} \in SUBSET Id
    OBVIOUS
  <1> QED BY <1>1, ExpireAnnounces, AnnouncesSame DEF TryAutoTimeout

LEMMA PromiseSettleAnnounces ==
    ASSUME NEW s, Inv(s), NEW now \in Nat, NEW id \in Id,
           NEW outcome \in SettleState
    PROVE  LET t == PromiseSettle(s, now, id, outcome)
           IN  Announces(s, t) /\ Tracks(s, t)
  <1> DEFINE o == [i \in Id |-> outcome]
             at == [i \in Id |-> now]
  <1>1. {id} \in SUBSET Id /\ \A i \in {id} : o[i] \in Settled /\ at[i] \in Nat
    BY DEF SettleState, Settled
  <1> HIDE DEF o, at
  <1>2. /\ Announces(s, Settle(s, {id}, o, at, now))
        /\ Tracks(s, Settle(s, {id}, o, at, now))
    BY <1>1, SettleAnnounces
  <1> QED BY <1>2, AnnouncesSame DEF PromiseSettle, o, at

LEMMA TaskFulfillAnnounces ==
    ASSUME NEW s, Inv(s), NEW now \in Nat, NEW id \in Id,
           NEW outcome \in SettleState
    PROVE  LET t == TaskFulfill(s, now, id, outcome)
           IN  Announces(s, t) /\ Tracks(s, t)
  <1>1. s.tasks[id].state = "acquired" => s.promises[id].state = "pending"
    BY AcquiredPending
  <1> QED BY <1>1, PromiseSettleAnnounces, AnnouncesSame DEF TaskFulfill

LEMMA RegisterAnnounces ==
    ASSUME NEW s, Inv(s), NEW id \in Id, NEW addr \in Addr
    PROVE  Announces(s, PromiseRegisterListener(s, id, addr))
  <1> DEFINE q == [s.promises[id] EXCEPT !.subscribers = @ \cup {addr}]
             t == PutPromise(s, id, q)
  <1>1. q.target = s.promises[id].target
    BY Fields DEF Inv, Promise
  <1>2. PromiseRegisterListener(s, id, addr) \in {s, t}
    BY DEF PromiseRegisterListener
  <1> HIDE DEF q
  <1>3. /\ t.tasks = s.tasks /\ t.outgoing = s.outgoing
        /\ \A i \in Id : t.promises[i].target = s.promises[i].target
    BY <1>1 DEF PutPromise, Inv, State
  <1> HIDE DEF t
  <1>4. Announces(s, t)
    BY <1>3, AnnouncesKept DEF HasTask
  <1> QED BY <1>2, <1>4, AnnouncesSame

\* A step that concerns a promise nobody used says nothing of other tasks.
LEMMA AnnouncesOther ==
    ASSUME NEW s, Inv(s), NEW id \in Id, ~ HasPromise(s, id), NEW t,
           \A i \in Id \ {id} : /\ t.tasks[i] = s.tasks[i]
                                /\ t.promises[i] = s.promises[i],
           \A i \in Id \ {id} : \A v \in Nat :
              Execute(i, v) \in s.outgoing => Execute(i, v) \in t.outgoing
    PROVE  Announces(s, t)
  <1>1. ~ HasTask(s, id)
    BY DEF Inv, TasksFollowPromises
  <1>2. \A i \in Id : s.tasks[i].version \in Nat
    BY Fields DEF Inv, Task
  <1> QED BY <1>1, <1>2, AnnouncesKept DEF HasTask

LEMMA PromiseCreateAnnounces ==
    ASSUME NEW s, Inv(s), NEW now \in Nat, NEW id \in Id,
           NEW timeoutAt \in Nat, NEW tags \in Tags
    PROVE  LET t == PromiseCreate(s, now, id, timeoutAt, tags)
           IN  Announces(s, t) /\ Tracks(s, t)
  <1> DEFINE t == PromiseCreate(s, now, id, timeoutAt, tags)
  <1>1. CASE HasPromise(s, id)
    BY <1>1, AnnouncesSame DEF PromiseCreate
  <1>2. CASE ~ HasPromise(s, id) /\ now >= timeoutAt
    <2> DEFINE p == NewPromise("absent", tags, timeoutAt, timeoutAt)
               q == [p EXCEPT !.state = TimeoutState(p)]
               u == PutPromise(s, id, q)
    <2>1. q \in Promise /\ q.state \in Settled
      <3>1. "absent" \in PromiseState /\ timeoutAt \in Nat \cup {None}
        BY DEF PromiseState
      <3>2. p \in Promise
        BY <3>1, NewPromiseType
      <3> HIDE DEF p
      <3> QED BY <3>2 DEF Promise, PromiseState, TimeoutState, Settled
    <2> HIDE DEF q
    <2>2. /\ u \in State
          /\ u.outgoing = s.outgoing /\ u.tasks = s.tasks
          /\ u.promises[id] = q
          /\ \A i \in Id \ {id} : u.promises[i] = s.promises[i]
      BY <2>1 DEF PutPromise, Inv, State
    <2>3. t = Propagate(u, {id}, now)
      BY <1>2 DEF PromiseCreate, q
    <2> HIDE DEF u, t
    <2>4. Announces(s, u)
      BY <1>2, <2>2, AnnouncesOther
    <2>5. {id} \in SUBSET Id /\ \A i \in {id} : u.promises[i].state \in Settled
      BY <2>1, <2>2
    <2>6. Announces(u, t) /\ Tracks(u, t)
      BY <2>2, <2>3, <2>5, PropagateAnnounces
    <2>7. Tracks(s, t)
      BY <2>2, <2>6 DEF Tracks, HasTask
    <2> QED BY <2>4, <2>6, <2>7, AnnouncesTransitive DEF t
  <1>3. CASE ~ HasPromise(s, id) /\ ~ (now >= timeoutAt)
    <2> DEFINE q == NewPromise("pending", tags, timeoutAt, None)
               u == PutPromise(s, id, q)
               k == NewTask("pending", NoPid, None)
               at == IF now < tags.delay THEN tags.delay ELSE now + RetryTTL
               v == SetTTimeout(PutTask(SetPTimeout(u, id, timeoutAt), id, k),
                                id, "retry", at)
               w == SendExecuteMessage(v, {id})
    <2>1. q \in Promise /\ q.target = tags.target
      <3>1. "pending" \in PromiseState /\ None \in Nat \cup {None}
        BY DEF PromiseState
      <3> QED BY <3>1 DEF NewPromise, Promise, Tags
    <2>2. k \in Task /\ [typ |-> "retry", at |-> at] \in TTimeout
      <3>1. k \in Task
        BY NewTaskType DEF TaskState
      <3>2. [typ |-> "retry", at |-> at] \in TTimeout
        BY ServerAssumption DEF TTimeout, Tags
      <3> QED BY <3>1, <3>2
    <2>3. t = IF tags.target THEN IF now < tags.delay THEN v ELSE w ELSE u
      BY <1>3 DEF PromiseCreate, Schedule
    <2> HIDE DEF q, k, at
    <2>4. /\ u \in State
          /\ u.outgoing = s.outgoing /\ u.tasks = s.tasks
          /\ u.promises[id].target = tags.target
          /\ \A i \in Id \ {id} : u.promises[i] = s.promises[i]
      BY <2>1 DEF PutPromise, Inv, State
    <2> HIDE DEF u
    <2>5. /\ v \in State
          /\ v.outgoing = s.outgoing /\ v.promises = u.promises
          /\ \A i \in Id \ {id} : v.tasks[i] = s.tasks[i]
      BY <2>2, <2>4 DEF SetTTimeout, PutTask, SetPTimeout, State
    <2> HIDE DEF v
    <2>6. /\ w.tasks = v.tasks /\ w.promises = v.promises
          /\ \A i \in Id \ {id} : \A n \in Nat :
                Execute(i, n) \in w.outgoing <=> Execute(i, n) \in v.outgoing
      BY <2>5, SendFacts, SendMessages
    <2> HIDE DEF w
    <2>7. Announces(s, u)
      BY <1>3, <2>4, AnnouncesOther
    <2>8. Announces(s, v)
      BY <1>3, <2>4, <2>5, AnnouncesOther
    <2>9. Announces(s, w)
      <3>1. /\ \A i \in Id \ {id} : /\ w.tasks[i] = s.tasks[i]
                                    /\ w.promises[i] = s.promises[i]
            /\ \A i \in Id \ {id} : \A n \in Nat :
                  Execute(i, n) \in s.outgoing => Execute(i, n) \in w.outgoing
        BY <2>4, <2>5, <2>6
      <3> QED BY <1>3, <3>1, AnnouncesOther
    <2>10. /\ Tracks(s, u)
           /\ tags.target => Tracks(s, v) /\ Tracks(s, w)
      BY <2>4, <2>5, <2>6 DEF Tracks, HasTask
    <2> HIDE DEF t
    <2> QED BY <2>3, <2>7, <2>8, <2>9, <2>10 DEF t
  <1> QED BY <1>1, <1>2, <1>3

LEMMA AcquireAnnounces ==
    ASSUME NEW s, Inv(s), NEW now, NEW id \in Id, NEW pid, NEW ttl,
           HasTask(s, id)
    PROVE  LET t == AcquireTask(s, now, id, pid, ttl)
           IN  Announces(s, t) /\ Tracks(s, t)
  <1> DEFINE k == Hold(s.tasks[id], pid, ttl)
             t == AcquireTask(s, now, id, pid, ttl)
  <1>1. k.state = "acquired"
    BY Fields DEF Hold, Inv, Task
  <1> HIDE DEF k
  <1>2. /\ t.promises = s.promises /\ t.outgoing = s.outgoing
        /\ \A i \in Id : t.tasks[i] = IF i = id THEN k ELSE s.tasks[i]
    BY DEF AcquireTask, SetTTimeout, PutTask, Inv, State, k
  <1> HIDE DEF t
  <1>3. Announces(s, t) /\ Tracks(s, t)
    BY <1>1, <1>2, AnnouncesKept DEF HasTask, Tracks
  <1> QED BY <1>3 DEF t

LEMMA TaskAcquireAnnounces ==
    ASSUME NEW s, Inv(s), NEW now, NEW id \in Id, NEW pid, NEW ttl
    PROVE  LET t == TaskAcquire(s, now, id, pid, ttl)
           IN  Announces(s, t) /\ Tracks(s, t)
  BY AcquireAnnounces, AnnouncesSame DEF TaskAcquire, HasTask

LEMMA TaskCreateAnnounces ==
    ASSUME NEW s, Inv(s), NEW now \in Nat, NEW id \in Id,
           NEW timeoutAt, NEW tags, NEW pid, NEW ttl
    PROVE  Announces(s, TaskCreate(s, now, id, timeoutAt, tags, pid, ttl))
  <1> DEFINE t == TaskCreate(s, now, id, timeoutAt, tags, pid, ttl)
  <1>1. CASE HasTask(s, id) \/ HasPromise(s, id)
    <2>1. t = IF HasTask(s, id) /\ s.tasks[id].state = "pending"
              THEN AcquireTask(s, now, id, pid, ttl) ELSE s
      BY <1>1 DEF TaskCreate
    <2> HIDE DEF t
    <2> QED BY <2>1, AcquireAnnounces, AnnouncesSame DEF t
  <1>2. CASE ~ HasTask(s, id) /\ ~ HasPromise(s, id)
    <2>1. \E p, k : /\ t.promises = [s.promises EXCEPT ![id] = p]
                    /\ t.tasks = [s.tasks EXCEPT ![id] = k]
                    /\ t.outgoing = s.outgoing
      BY <1>2 DEF TaskCreate, PutPromise, PutTask, SetPTimeout, SetTTimeout,
                  Inv, State
    <2> HIDE DEF t
    <2>2. /\ t.outgoing = s.outgoing
          /\ \A i \in Id \ {id} : /\ t.tasks[i] = s.tasks[i]
                                  /\ t.promises[i] = s.promises[i]
      BY <2>1 DEF Inv, State
    <2>3. Announces(s, t)
      BY <1>2, <2>2, AnnouncesOther
    <2> QED BY <2>3 DEF t
  <1> QED BY <1>1, <1>2

\* Tasks that are given up are announced under their new versions.
LEMMA ReleaseAnnounces ==
    ASSUME NEW s, Inv(s), NEW now \in Nat, NEW S \in SUBSET Id,
           \A i \in S : s.tasks[i].state = "acquired"
    PROVE  LET t == ReleaseTasks(s, S, now)
           IN  /\ Announces(s, t) /\ Tracks(s, t)
               /\ Current(s) => Current(t)
  <1> DEFINE tk(i) == IF i \in S
                      THEN [s.tasks[i] EXCEPT !.state = "pending",
                                !.version = NextVersion(@), !.pid = NoPid,
                                !.ttl = None]
                      ELSE s.tasks[i]
             tt(i) == IF i \in S THEN [typ |-> "retry", at |-> now + RetryTTL]
                                 ELSE s.tTimeouts[i]
             u == [s EXCEPT !.tasks = [i \in Id |-> tk(i)],
                            !.tTimeouts = [i \in Id |-> tt(i)]]
             t == SendExecuteMessage(u, S)
  <1>1. ReleaseTasks(s, S, now) = t
    BY DEF ReleaseTasks
  <1>2. ASSUME NEW i \in Id
        PROVE  /\ tk(i) \in Task
               /\ IF i \in S THEN tk(i).state = "pending" ELSE tk(i) = s.tasks[i]
    <2>1. s.tasks[i] \in Task /\ s.tasks[i].version + 1 \in Nat
      BY Fields DEF Inv, Task
    <2>2. tk(i) = IF i \in S
                  THEN [s.tasks[i] EXCEPT !.state = "pending",
                            !.version = s.tasks[i].version + 1,
                            !.pid = NoPid, !.ttl = None]
                  ELSE s.tasks[i]
      BY DEF NextVersion
    <2> HIDE DEF tk
    <2> QED BY <2>1, <2>2 DEF Task, TaskState
  <1>3. ASSUME NEW i \in Id PROVE tt(i) \in TTimeout
    BY Fields, ServerAssumption DEF Inv, TTimeout
  <1> HIDE DEF tk, tt
  <1>4. /\ u \in State /\ u.promises = s.promises /\ u.outgoing = s.outgoing
        /\ \A i \in Id : u.tasks[i] = tk(i)
    BY <1>2, <1>3 DEF Inv, State
  <1> HIDE DEF u
  <1>5. t.tasks = u.tasks /\ t.promises = u.promises
    BY <1>4, SendFacts
  <1>6. ASSUME NEW i \in Id
        PROVE  Silent(t, i) <=> Silent(u, i) /\ i \notin S
    BY <1>4, SendAnnounces
  <1>7. ASSUME NEW i \in Id, NEW v
        PROVE  Execute(i, v) \in t.outgoing <=>
                  IF i \in S /\ u.promises[i].target
                  THEN v = u.tasks[i].version
                  ELSE Execute(i, v) \in u.outgoing
    BY <1>4, SendMessages
  <1> HIDE DEF t
  <1>8. Announces(s, t)
    <2> SUFFICES ASSUME NEW i \in Id, HasTask(s, i)
        PROVE  /\ HasTask(t, i)
               /\ t.promises[i].target = s.promises[i].target
               /\ Silent(t, i) => Silent(s, i)
      BY DEF Announces
    <2>1. HasTask(t, i)
      BY <1>2, <1>4, <1>5 DEF HasTask
    <2>2. i \notin S => (Silent(u, i) <=> Silent(s, i))
      BY <1>2, <1>4 DEF Silent
    <2> QED BY <1>4, <1>5, <1>6, <2>1, <2>2
  <1>9. ASSUME Current(s) PROVE Current(t)
    <2> SUFFICES ASSUME NEW i \in Id, NEW v \in Nat, Execute(i, v) \in t.outgoing
        PROVE  t.tasks[i].state = "pending" /\ t.tasks[i].version = v
      BY DEF Current
    <2>1. CASE i \in S /\ u.promises[i].target
      BY <1>2, <1>4, <1>5, <1>7, <2>1
    <2>2. CASE ~ (i \in S /\ u.promises[i].target)
      <3>1. s.tasks[i].state = "pending" /\ s.tasks[i].version = v
        <4>1. Execute(i, v) \in s.outgoing
          BY <1>4, <1>7, <2>2
        <4> QED BY <1>9, <4>1 DEF Current
      <3>2. i \notin S
        BY <3>1
      <3> QED BY <1>2, <1>4, <1>5, <3>1, <3>2
    <2> QED BY <2>1, <2>2
  <1>10. Tracks(s, t)
    BY <1>2, <1>4, <1>5 DEF Tracks, HasTask
  <1> QED BY <1>1, <1>8, <1>9, <1>10 DEF t

LEMMA TaskReleaseAnnounces ==
    ASSUME NEW s, Inv(s), NEW now \in Nat, NEW id \in Id
    PROVE  LET t == TaskRelease(s, now, id)
           IN  Announces(s, t) /\ Tracks(s, t)
  <1>1. CASE s.tasks[id].state = "acquired"
    <2>1. {id} \in SUBSET Id /\ \A i \in {id} : s.tasks[i].state = "acquired"
      BY <1>1
    <2> QED BY <1>1, <2>1, ReleaseAnnounces DEF TaskRelease
  <1>2. CASE s.tasks[id].state # "acquired"
    BY <1>2, AnnouncesSame DEF TaskRelease
  <1> QED BY <1>1, <1>2

LEMMA RetryAnnounces ==
    ASSUME NEW s, Inv(s), NEW now \in Nat, NEW S \in SUBSET Id,
           \A i \in S : s.tasks[i].state = "pending"
    PROVE  LET t == RetryTasks(s, S, now)
           IN  /\ Announces(s, t) /\ Tracks(s, t)
               /\ Current(s) => Current(t)
  <1> DEFINE u == [s EXCEPT !.tTimeouts = [i \in Id |->
                      IF i \in S THEN [typ |-> "retry", at |-> now + RetryTTL]
                                 ELSE s.tTimeouts[i]]]
             t == SendExecuteMessage(u, S)
  <1>1. RetryTasks(s, S, now) = t
    BY DEF RetryTasks
  <1>2. \A i \in Id : (IF i \in S THEN [typ |-> "retry", at |-> now + RetryTTL]
                       ELSE s.tTimeouts[i]) \in TTimeout
    BY Fields, ServerAssumption DEF Inv, TTimeout
  <1>3. /\ u \in State /\ u.promises = s.promises /\ u.outgoing = s.outgoing
        /\ u.tasks = s.tasks
    BY <1>2 DEF Inv, State
  <1> HIDE DEF u
  <1>4. t.tasks = s.tasks /\ t.promises = s.promises
    BY <1>3, SendFacts
  <1>5. ASSUME NEW i \in Id
        PROVE  Silent(t, i) <=> Silent(u, i) /\ i \notin S
    BY <1>3, SendAnnounces
  <1>6. ASSUME NEW i \in Id, NEW v
        PROVE  Execute(i, v) \in t.outgoing <=>
                  IF i \in S /\ u.promises[i].target
                  THEN v = u.tasks[i].version
                  ELSE Execute(i, v) \in u.outgoing
    BY <1>3, SendMessages
  <1> HIDE DEF t
  <1>7. Announces(s, t)
    BY <1>3, <1>4, <1>5 DEF Announces, HasTask, Silent
  <1>8. Current(s) => Current(t)
    BY <1>3, <1>4, <1>6 DEF Current
  <1>9. Tracks(s, t)
    BY <1>4 DEF Tracks, HasTask
  <1> QED BY <1>1, <1>7, <1>8, <1>9 DEF t

LEMMA HeartbeatAnnounces ==
    ASSUME NEW s, Inv(s), NEW now, NEW pid, NEW refs
    PROVE  Announces(s, TaskHeartbeat(s, now, pid, refs))
  <1> DEFINE t == TaskHeartbeat(s, now, pid, refs)
  <1>1. t.tasks = s.tasks /\ t.promises = s.promises /\ t.outgoing = s.outgoing
    BY DEF TaskHeartbeat, Inv, State
  <1> HIDE DEF t
  <1>2. Announces(s, t)
    BY <1>1, AnnouncesKept DEF HasTask
  <1> QED BY <1>2 DEF t

LEMMA SuspendAnnounces ==
    ASSUME NEW s, Inv(s), NEW id \in Id, NEW awaited \in SUBSET Id
    PROVE  LET t == TaskSuspend(s, id, awaited)
           IN  Announces(s, t) /\ Tracks(s, t)
  <1> DEFINE t == TaskSuspend(s, id, awaited)
             idle == [s.tasks[id] EXCEPT !.resumes = {}]
             held == [s.tasks[id] EXCEPT !.state = "suspended",
                              !.pid = NoPid, !.ttl = None, !.resumes = {}]
  <1>1. \A i \in Id : t.promises[i].target = s.promises[i].target
    <2>1. \A i \in Id : Keeps(s, t, i)
      BY SuspendEffect
    <2> QED BY <2>1 DEF Keeps
  <1>2. CASE s.tasks[id].state = "acquired"
    <2>1. t.outgoing = s.outgoing
      BY DEF TaskSuspend, PutTask, Inv, State
    <2>2. \/ t.tasks = s.tasks
          \/ t.tasks = [s.tasks EXCEPT ![id] = idle]
          \/ t.tasks = [s.tasks EXCEPT ![id] = held]
      BY <1>2 DEF TaskSuspend, PutTask, Inv, State
    <2>3. idle.state = "acquired" /\ held.state = "suspended"
      BY <1>2, Fields DEF Inv, Task
    <2> HIDE DEF t, idle, held
    <2>4. /\ t.tasks[id].state \in {"acquired", "suspended"}
          /\ \A i \in Id \ {id} : t.tasks[i] = s.tasks[i]
      BY <1>2, <2>2, <2>3 DEF Inv, State
    <2>5. Announces(s, t) /\ Tracks(s, t)
      BY <1>1, <1>2, <2>1, <2>4, AnnouncesKept DEF HasTask, Tracks
    <2> QED BY <2>5 DEF t
  <1>3. CASE s.tasks[id].state # "acquired"
    BY <1>3, AnnouncesSame DEF TaskSuspend
  <1> QED BY <1>2, <1>3

\* A turn of the loop that starts with an empty batch announces what is ready.
LEMMA TickAnnounces ==
    ASSUME NEW s, Inv(s), NEW now \in Nat
    PROVE  /\ Announces(s, Tick(s, now)) /\ Tracks(s, Tick(s, now))
           /\ s.outgoing = {} => Current(Tick(s, now))
  <1> DEFINE ripe(typ, state) ==
                 {i \in Id : /\ s.tTimeouts[i].typ = typ
                             /\ s.tTimeouts[i].at <= now
                             /\ s.tasks[i].state = state}
             overdue == {i \in Id : /\ s.pTimeouts[i] # None
                                    /\ s.pTimeouts[i] <= now
                                    /\ s.promises[i].state = "pending"}
             t == Expire(s, overdue, now)
             expired == {i \in ripe("lease", "acquired") :
                             HoldsLease(t, i, s.tasks[i].version)}
             u == ReleaseTasks(t, expired, now)
             silent == {i \in ripe("retry", "pending") :
                             u.tasks[i].state = "pending"}
             v == RetryTasks(u, silent, now)
  <1>1. Tick(s, now) = v
    BY DEF Tick
  <1>2. overdue \in SUBSET Id /\ \A i \in overdue : s.promises[i].state = "pending"
    OBVIOUS
  <1> HIDE DEF overdue
  <1>3. /\ Inv(t) /\ Announces(s, t) /\ Tracks(s, t)
        /\ s.outgoing = {} => Current(t)
    BY <1>2, ExpireInv, ExpireAnnounces
  <1> HIDE DEF t
  <1>4. /\ expired \in SUBSET Id
        /\ \A i \in expired : t.tasks[i].state = "acquired"
    BY DEF HoldsLease
  <1> HIDE DEF expired
  <1>5. /\ Inv(u) /\ Announces(t, u) /\ Tracks(t, u)
        /\ u.promises = t.promises
        /\ Current(t) => Current(u)
    BY <1>3, <1>4, ReleaseInv, ReleaseAnnounces, ReleaseQuiet DEF Quiet
  <1> HIDE DEF u
  <1>6. silent \in SUBSET Id /\ \A i \in silent : u.tasks[i].state = "pending"
    OBVIOUS
  <1> HIDE DEF silent
  <1>7. /\ Announces(u, v) /\ Tracks(u, v)
        /\ v.promises = u.promises
        /\ Current(u) => Current(v)
    BY <1>5, <1>6, RetryAnnounces, RetryQuiet DEF Quiet
  <1> HIDE DEF v
  <1>8. Tracks(s, v)
    BY <1>3, <1>5, <1>7 DEF Tracks
  <1> QED BY <1>1, <1>3, <1>5, <1>7, <1>8, AnnouncesTransitive
=============================================================================
