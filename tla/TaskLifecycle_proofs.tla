------------------------ MODULE TaskLifecycle_proofs ------------------------
(***************************************************************************)
(* The safety of TaskLifecycle for every set of workflows, executions and  *)
(* faults: what the server keeps of the promises workflows create, what    *)
(* each execution may rely on, and what every step preserves of both.      *)
(***************************************************************************)
EXTENDS TaskLifecycle, ServerState_proofs

Execs == [phase : Phase, id : Id, version : Nat, pos : Nat, known : SUBSET Id,
          done : SUBSET Id, todos : SUBSET Id, failed : BOOLEAN]

\* Promises are as their parents create them.
Tagged(s) == \A i \in Id : HasPromise(s, i) =>
    /\ s.promises[i].target <=> i \notin Local
    /\ s.promises[i].timer <=> i \in Timer
    /\ s.promises[i].timeoutAt = DeadlineOf(i)

\* Local children have no task, and no task awaits them.
LocalHidden(s) == \A i \in Id :
    /\ HasTask(s, i) => i \notin Local
    /\ i \in Local => s.promises[i].awaiters = {}

\* Sleeps end at their deadlines.
SleepsLast(s, now) == \A i \in Timer :
    s.promises[i].state \in Settled =>
        now = 1 /\ s.promises[i].settledAt = DeadlineOf(i)

Sound(s, now) ==
    /\ Inv(s)
    /\ Tagged(s)
    /\ LocalHidden(s)
    /\ SleepsLast(s, now)

\* The children e passed on its way; a replay that goes on, or ends without
\* failure and without todos, passed none that is still to settle.
Passed(e) == {Calls[e.id][n] : n \in 1 .. e.pos - 1}
PassedOver(e, s) ==
    e.phase # "release" /\ ~ e.failed /\ e.todos = {} =>
        \A c \in Passed(e) \ Local : s.promises[c].state \in Settled

\* What an execution under way may rely on.
Fits(e, s) ==
    /\ e.phase # "idle"
    /\ e.id \notin Local \cup Timer
    /\ e.pos \in 1 .. Len(Calls[e.id]) + 1
    /\ e.phase = "settle" => ~ Replayed(e) /\ Calls[e.id][e.pos] \in Local
    /\ e.failed => Replayed(e)
    /\ e.known \subseteq Local
    /\ e.todos \subseteq Children(e.id) \ Local
    /\ \A c \in e.todos : HasPromise(s, c)
    /\ 2 * e.version + 1 <= Rank(s, e.id)
    /\ PassedOver(e, s)

IInv ==
    /\ Sound(srv, clock)
    /\ mail \subseteq Id \X Nat
    /\ exec \in [Execution -> Execs]
    /\ \A w \in Execution : exec[w] # Idle => Fits(exec[w], srv)
    /\ OneExecutionPerVersion
    /\ NoRemoteLeftBehind
    /\ clock \in {0, 1}
    /\ faults \in 0 .. MaxFaults

-----------------------------------------------------------------------------
(* What the server keeps *)

\* What a request or a turn of the loop does to promise i: only local children
\* and the promises X may be settled by request.
Changes(s, t, now, i, X) ==
    \/ Keeps(s, t, i)
    \/ Lapses(s, t, now, i)
    \/ Opens(s, t, now, i, TagsOf(i), DeadlineOf(i))
    \/ i \in Local \cup X /\ \E outcome : Closes(s, t, i, outcome, now)

\* Promises stay, and beside X none of a workflow is resolved.
Follows(s, t, X) ==
    /\ Evolves(s, t)
    /\ \A i \in Id : HasPromise(s, i) => HasPromise(t, i)
    /\ \A i \in Id \ (Local \cup Timer \cup X) :
          t.promises[i].state = "resolved" => s.promises[i].state = "resolved"

LocalSame(s, t) == \A c \in Local : t.promises[c] = s.promises[c]

LEMMA FollowsSame ==
    ASSUME NEW s, Inv(s), NEW X
    PROVE  Follows(s, s, X)
  BY EvolvesReflexive DEF Follows

LEMMA FollowsTransitive ==
    ASSUME NEW s, NEW t, NEW u, NEW X, NEW Y \in SUBSET X, NEW Z \in SUBSET X,
           Inv(s), Inv(t), Inv(u), Follows(s, t, Y), Follows(t, u, Z)
    PROVE  Follows(s, u, X)
  BY EvolvesTransitive DEF Follows

LEMMA TagsType ==
    ASSUME NEW i \in Id
    PROVE  TagsOf(i) \in Tags /\ DeadlineOf(i) \in Nat
  BY DEF TagsOf, Tags, DeadlineOf, None

LEMMA SoundStep ==
    ASSUME NEW now \in {0, 1}, NEW s, Sound(s, now), NEW X, X \cap Timer = {},
           NEW t, Inv(t), Evolves(s, t), Tracks(s, t),
           \A i \in Id : Changes(s, t, now, i, X),
           \A i \in Local : t.promises[i].awaiters = {}
    PROVE  Sound(t, now) /\ Follows(s, t, X)
  <1>1. Timer \cap Local = {} /\ Local \subseteq Id /\ Timer \subseteq Id
    BY LifecycleAssumption
  <1>2. ASSUME NEW i \in Id
        PROVE  \/ ~ HasPromise(t, i) /\ ~ HasPromise(s, i)
               \/ /\ HasPromise(t, i)
                  /\ t.promises[i].target <=> i \notin Local
                  /\ t.promises[i].timer <=> i \in Timer
                  /\ t.promises[i].timeoutAt = DeadlineOf(i)
    <2>1. HasPromise(s, i) =>
             /\ s.promises[i].target <=> i \notin Local
             /\ s.promises[i].timer <=> i \in Timer
             /\ s.promises[i].timeoutAt = DeadlineOf(i)
      BY DEF Sound, Tagged
    <2>2. CASE Keeps(s, t, i)
      BY <2>1, <2>2 DEF Keeps, HasPromise
    <2>3. CASE \E outcome, at : Closes(s, t, i, outcome, at)
      BY <2>1, <2>3 DEF Closes, HasPromise, Settled
    <2>4. CASE Opens(s, t, now, i, TagsOf(i), DeadlineOf(i))
      BY <2>4 DEF Opens, HasPromise, TagsOf, TimeoutState
    <2> QED BY <2>2, <2>3, <2>4 DEF Changes, Lapses
  <1>3. Tagged(t)
    BY <1>2 DEF Tagged
  <1>4. \A i \in Id : HasPromise(s, i) => HasPromise(t, i)
    BY <1>2
  <1>5. LocalHidden(t)
    <2> SUFFICES ASSUME NEW i \in Id, HasTask(t, i) PROVE i \notin Local
      BY DEF LocalHidden
    <2>1. CASE HasTask(s, i)
      BY <2>1 DEF Sound, LocalHidden
    <2>2. CASE t.promises[i].target
      <3>1. HasPromise(t, i)
        BY DEF Inv, TasksFollowPromises
      <3> QED BY <1>3, <2>2, <3>1 DEF Tagged
    <2> QED BY <2>1, <2>2 DEF Tracks
  <1>6. SleepsLast(t, now)
    <2> SUFFICES ASSUME NEW i \in Timer, t.promises[i].state \in Settled
                 PROVE  now = 1 /\ t.promises[i].settledAt = DeadlineOf(i)
      BY DEF SleepsLast
    <2>1. i \in Id /\ i \notin Local \cup X /\ DeadlineOf(i) = 1
      BY <1>1 DEF DeadlineOf
    <2>2. CASE Keeps(s, t, i)
      BY <2>2 DEF Keeps, Sound, SleepsLast
    <2>3. CASE Lapses(s, t, now, i)
      <3>1. HasPromise(s, i) /\ now >= s.promises[i].timeoutAt
            /\ t.promises[i].settledAt = s.promises[i].timeoutAt
        BY <2>3 DEF Lapses, Closes, HasPromise
      <3> QED BY <2>1, <3>1 DEF Sound, Tagged
    <2>4. CASE Opens(s, t, now, i, TagsOf(i), DeadlineOf(i))
      BY <2>1, <2>4 DEF Opens, Settled
    <2> QED BY <2>1, <2>2, <2>3, <2>4 DEF Changes
  <1>7. ASSUME NEW i \in Id \ (Local \cup Timer \cup X),
               t.promises[i].state = "resolved"
        PROVE  s.promises[i].state = "resolved"
    <2>1. CASE Keeps(s, t, i)
      BY <1>7, <2>1 DEF Keeps
    <2>2. CASE Lapses(s, t, now, i)
      <3>1. ~ s.promises[i].timer
        BY <2>2 DEF Lapses, Closes, Sound, Tagged, HasPromise
      <3> QED BY <1>7, <2>2, <3>1 DEF Lapses, Closes, TimeoutState
    <2>3. CASE Opens(s, t, now, i, TagsOf(i), DeadlineOf(i))
      BY <1>7, <2>3 DEF Opens, TagsOf, TimeoutState
    <2> QED BY <2>1, <2>2, <2>3 DEF Changes
  <1> QED BY <1>3, <1>4, <1>5, <1>6, <1>7 DEF Sound, Follows

\* No deadline of a local child passes, and nobody awaits or listens to one.
LEMMA LocalStays ==
    ASSUME NEW now \in {0, 1}, NEW s, Sound(s, now), NEW t, Sound(t, now),
           NEW c \in Local, Keeps(s, t, c) \/ Lapses(s, t, now, c)
    PROVE  t.promises[c] = s.promises[c]
  <1>1. c \in Id /\ c \notin Timer
    BY LifecycleAssumption
  <1>2. Keeps(s, t, c)
    <2> SUFFICES ASSUME Lapses(s, t, now, c) PROVE FALSE
      OBVIOUS
    <2>1. s.promises[c].timeoutAt = 2 /\ now >= s.promises[c].timeoutAt
      BY <1>1 DEF Lapses, Closes, HasPromise, Sound, Tagged, DeadlineOf
    <2> QED BY <2>1
  <1>3. s.promises[c] \in Promise /\ t.promises[c] \in Promise
    BY <1>1, Fields DEF Sound, Inv
  <1>4. s.promises[c].awaiters = t.promises[c].awaiters
    BY <1>1 DEF Sound, LocalHidden
  <1> QED BY <1>2, <1>3, <1>4 DEF Keeps, Promise

LEMMA ExpireSound ==
    ASSUME NEW now \in {0, 1}, NEW s, Sound(s, now), NEW S \in SUBSET Due(s, now)
    PROVE  LET t == Expire(s, S, now)
           IN  /\ Sound(t, now) /\ Follows(s, t, {}) /\ LocalSame(s, t)
               /\ NoNewLease(s, t)
               /\ \A i \in S : t.promises[i].state \in Settled
  <1> DEFINE t == Expire(s, S, now)
  <1>1. /\ S \in SUBSET Id /\ \A i \in S : s.promises[i].state = "pending"
        /\ Inv(s) /\ Local \subseteq Id /\ now \in Nat
    BY LifecycleAssumption DEF Due, Sound
  <1>2. /\ Inv(t) /\ Evolves(s, t)
        /\ \A i \in S : t.promises[i].state \in Settled
    BY <1>1, ExpireInv
  <1>3. Passes(s, t, now)
    BY <1>1, ExpireEffect
  <1>4. Tracks(s, t) /\ NoNewLease(s, t)
    BY <1>1, ExpireAnnounces
  <1> HIDE DEF t
  <1>5. /\ \A i \in Id : Changes(s, t, now, i, {})
        /\ \A i \in Local : t.promises[i].awaiters = {}
    BY <1>1, <1>3 DEF Passes, Changes, Forgets, Sound, LocalHidden
  <1>6. Sound(t, now) /\ Follows(s, t, {})
    BY <1>2, <1>4, <1>5, SoundStep
  <1>7. LocalSame(s, t)
    BY <1>1, <1>3, <1>6, LocalStays DEF LocalSame, Passes
  <1> QED BY <1>2, <1>4, <1>6, <1>7 DEF t

-----------------------------------------------------------------------------
(* The requests of an execution *)

LEMMA QuietSound ==
    ASSUME NEW now \in {0, 1}, NEW s, Sound(s, now), NEW t, Inv(t),
           Evolves(s, t), Tracks(s, t), t.promises = s.promises
    PROVE  Sound(t, now) /\ Follows(s, t, {}) /\ LocalSame(s, t)
  <1>1. Local \subseteq Id
    BY LifecycleAssumption
  <1>2. /\ \A i \in Id : Changes(s, t, now, i, {})
        /\ \A i \in Local : t.promises[i].awaiters = {}
    BY <1>1 DEF Changes, Keeps, Sound, LocalHidden
  <1>3. Sound(t, now) /\ Follows(s, t, {})
    BY <1>2, SoundStep
  <1> QED BY <1>3 DEF LocalSame

\* Before it handles a request the server expires what the request names.
LEMMA FreshSound ==
    ASSUME clock \in {0, 1}, Sound(srv, clock), NEW S \in SUBSET Id
    PROVE  LET t == FreshAll(S)
           IN  /\ Sound(t, clock) /\ Follows(srv, t, {}) /\ LocalSame(srv, t)
               /\ NoNewLease(srv, t)
               /\ \A i \in S : t.promises[i].state = "pending" =>
                                  clock < t.promises[i].timeoutAt
  <1> DEFINE D == S \cap Due(srv, clock)
             t == Expire(srv, D, clock)
  <1>1. \A i \in Id \ Due(srv, clock) : srv.promises[i].state = "pending" =>
            clock < srv.promises[i].timeoutAt
    <2> SUFFICES ASSUME NEW i \in Id \ Due(srv, clock),
                        srv.promises[i].state = "pending"
                 PROVE  clock < srv.promises[i].timeoutAt
      OBVIOUS
    <2>1. srv.promises[i].timeoutAt \in Nat
      BY Fields DEF Sound, Inv, Promise
    <2> QED BY <2>1 DEF Due
  <1>2. CASE D = {}
    <2>1. FreshAll(S) = srv
      BY <1>2 DEF FreshAll
    <2>2. Follows(srv, srv, {}) /\ LocalSame(srv, srv) /\ NoNewLease(srv, srv)
      BY FollowsSame DEF Sound, LocalSame, NoNewLease
    <2>3. \A i \in S : i \in Id \ Due(srv, clock)
      BY <1>2
    <2> QED BY <1>1, <2>1, <2>2, <2>3
  <1>3. CASE D # {}
    <2>1. FreshAll(S) = t
      BY <1>3 DEF FreshAll
    <2>2. D \in SUBSET Due(srv, clock)
      OBVIOUS
    <2>3. /\ Sound(t, clock) /\ Follows(srv, t, {}) /\ LocalSame(srv, t)
          /\ NoNewLease(srv, t)
          /\ \A i \in D : t.promises[i].state \in Settled
      BY <2>2, ExpireSound
    <2>4. Passes(srv, t, clock) /\ clock \in Nat /\ Inv(srv)
      BY <2>2, ExpireEffect DEF Sound
    <2> HIDE DEF t
    <2>5. ASSUME NEW i \in S, t.promises[i].state = "pending"
          PROVE  clock < t.promises[i].timeoutAt
      <3>1. i \notin D /\ i \in Id \ Due(srv, clock)
        BY <2>3, <2>5 DEF Settled
      <3>2. Keeps(srv, t, i)
        BY <2>4, <2>5, <3>1 DEF Passes, Lapses, Closes, Settled
      <3> QED BY <1>1, <2>5, <3>1, <3>2 DEF Keeps
    <2> QED BY <2>1, <2>3, <2>5
  <1> QED BY <1>2, <1>3

LEMMA FreshOne ==
    ASSUME NEW i
    PROVE  Fresh(i) = FreshAll({i})
  <1>1. CASE i \in Due(srv, clock)
    <2>1. {i} \cap Due(srv, clock) = {i}
      BY <1>1
    <2> QED BY <1>1, <2>1 DEF Fresh, FreshAll, TryAutoTimeout
  <1>2. CASE i \notin Due(srv, clock)
    <2>1. {i} \cap Due(srv, clock) = {}
      BY <1>2
    <2> QED BY <1>2, <2>1 DEF Fresh, FreshAll, TryAutoTimeout
  <1> QED BY <1>1, <1>2

LEMMA AcquireSound ==
    ASSUME NEW now \in {0, 1}, NEW s, Sound(s, now), NEW id \in Id,
           NEW pid \in Pid
    PROVE  LET t == TaskAcquire(s, now, id, pid, 1)
           IN  /\ Sound(t, now) /\ Follows(s, t, {}) /\ LocalSame(s, t)
               /\ s.tasks[id].state = "pending" => Acquires(s, t, id)
  <1> DEFINE t == TaskAcquire(s, now, id, pid, 1)
  <1>1. Inv(s) /\ now \in Nat /\ s \in State
    BY DEF Sound, Inv
  <1>2. Inv(t) /\ Evolves(s, t)
    BY <1>1, TaskAcquireInv
  <1>3. Tracks(s, t)
    BY <1>1, TaskAcquireAnnounces
  <1>4. t.promises = s.promises
    BY <1>1, TaskAcquireQuiet DEF Quiet
  <1>5. s.tasks[id].state = "pending" => Acquires(s, t, id)
    <2> SUFFICES ASSUME s.tasks[id].state = "pending"
                 PROVE  Acquires(s, t, id)
      OBVIOUS
    <2>1. t = AcquireTask(s, now, id, pid, 1)
      BY DEF TaskAcquire
    <2>2. s.tasks[id] \in Task /\ s.tasks \in [Id -> Task]
          /\ s.tTimeouts \in [Id -> TTimeout]
      BY <1>1 DEF State
    <2>3. t.tasks[id] = Hold(s.tasks[id], pid, 1)
      BY <1>1, <2>1, <2>2 DEF AcquireTask, SetTTimeout, PutTask, State
    <2>4. t.tTimeouts[id].typ = "lease"
      <3>1. t.tTimeouts = [s.tTimeouts EXCEPT ![id] =
                              [typ |-> "lease", at |-> SaturatingAdd(now, 1)]]
        BY <1>1, <2>1 DEF AcquireTask, SetTTimeout, PutTask, State
      <3> QED BY <2>2, <3>1
    <2>5. /\ t.tasks[id].state = "acquired"
          /\ t.tasks[id].version = s.tasks[id].version
          /\ t.tasks[id].pid = pid /\ t.tasks[id].ttl = 1
      BY <2>2, <2>3 DEF Hold, Task
    <2> QED BY <2>4, <2>5, ServerAssumption DEF Acquires, None
  <1> HIDE DEF t
  <1>6. Sound(t, now) /\ Follows(s, t, {}) /\ LocalSame(s, t)
    BY <1>2, <1>3, <1>4, QuietSound
  <1> QED BY <1>5, <1>6 DEF t

LEMMA FenceCreateSound ==
    ASSUME NEW now \in {0, 1}, NEW s, Sound(s, now), NEW id \in Id, NEW version,
           NEW c \in Id
    PROVE  LET t == TaskFenceCreate(s, now, id, version, c, DeadlineOf(c),
                                    TagsOf(c))
           IN  /\ Sound(t, now) /\ Follows(s, t, {})
               /\ IF HoldsLease(s, id, version) THEN HasPromise(t, c) ELSE t = s
  <1> DEFINE t == PromiseCreate(s, now, c, DeadlineOf(c), TagsOf(c))
  <1>1. /\ Inv(s) /\ now \in Nat /\ TagsOf(c) \in Tags /\ DeadlineOf(c) \in Nat
        /\ Local \subseteq Id
    BY TagsType, LifecycleAssumption DEF Sound
  <1>2. Inv(t) /\ Evolves(s, t)
    BY <1>1, PromiseCreateInv
  <1>3. Tracks(s, t)
    BY <1>1, PromiseCreateAnnounces
  <1>4. /\ \A i \in Id \ {c} : Keeps(s, t, i)
        /\ IF HasPromise(s, c) THEN t = s
           ELSE Opens(s, t, now, c, TagsOf(c), DeadlineOf(c))
        /\ Forgets(s, t)
    BY <1>1, CreateEffect
  <1> HIDE DEF t
  <1>5. /\ \A i \in Id : Changes(s, t, now, i, {})
        /\ \A i \in Local : t.promises[i].awaiters = {}
    BY <1>1, <1>4 DEF Changes, Keeps, Forgets, Sound, LocalHidden
  <1>6. Sound(t, now) /\ Follows(s, t, {})
    BY <1>2, <1>3, <1>5, SoundStep
  <1>7. HasPromise(t, c)
    BY <1>4 DEF HasPromise, Opens, TimeoutState
  <1>8. CASE HoldsLease(s, id, version)
    <2>1. TaskFenceCreate(s, now, id, version, c, DeadlineOf(c), TagsOf(c)) = t
      BY <1>8 DEF TaskFenceCreate, t
    <2> QED BY <1>6, <1>7, <1>8, <2>1
  <1>9. CASE ~ HoldsLease(s, id, version)
    <2>1. TaskFenceCreate(s, now, id, version, c, DeadlineOf(c), TagsOf(c)) = s
      BY <1>9 DEF TaskFenceCreate
    <2> QED BY <1>1, <1>9, <2>1, FollowsSame
  <1> QED BY <1>8, <1>9

LEMMA FenceSettleSound ==
    ASSUME NEW now \in {0, 1}, NEW s, Sound(s, now), NEW id \in Id, NEW version,
           NEW c \in Local,
           s.promises[c].state = "pending" => now < s.promises[c].timeoutAt
    PROVE  LET t == TaskFenceSettle(s, now, id, version, c, "resolved")
           IN  /\ Sound(t, now) /\ Follows(s, t, {})
               /\ ~ HoldsLease(s, id, version) => t = s
  <1> DEFINE t == PromiseSettle(s, now, c, "resolved")
  <1>1. Inv(s) /\ now \in Nat /\ c \in Id /\ Local \subseteq Id
        /\ "resolved" \in SettleState
    BY LifecycleAssumption DEF Sound, SettleState
  <1>2. Inv(t) /\ Evolves(s, t)
    BY <1>1, PromiseSettleInv
  <1>3. Tracks(s, t)
    BY <1>1, PromiseSettleAnnounces
  <1>4. /\ \A i \in Id \ {c} : Keeps(s, t, i)
        /\ IF s.promises[c].state = "pending" THEN Closes(s, t, c, "resolved", now)
           ELSE t = s
        /\ Forgets(s, t)
    BY <1>1, PromiseSettleEffect
  <1> HIDE DEF t
  <1>5. /\ \A i \in Id : Changes(s, t, now, i, {})
        /\ \A i \in Local : t.promises[i].awaiters = {}
    BY <1>1, <1>4 DEF Changes, Keeps, Forgets, Sound, LocalHidden
  <1>6. Sound(t, now) /\ Follows(s, t, {})
    BY <1>2, <1>3, <1>5, SoundStep
  <1>8. CASE HoldsLease(s, id, version)
    <2>1. TaskFenceSettle(s, now, id, version, c, "resolved") = t
      BY <1>8 DEF TaskFenceSettle, t
    <2> QED BY <1>6, <1>8, <2>1
  <1>9. CASE ~ HoldsLease(s, id, version)
    <2>1. TaskFenceSettle(s, now, id, version, c, "resolved") = s
      BY <1>9 DEF TaskFenceSettle
    <2> QED BY <1>1, <1>9, <2>1, FollowsSame
  <1> QED BY <1>8, <1>9

LEMMA FulfillSound ==
    ASSUME NEW now \in {0, 1}, NEW s, Sound(s, now),
           NEW id \in Id \ (Local \cup Timer), NEW outcome \in SettleState,
           s.promises[id].state = "pending" => now < s.promises[id].timeoutAt
    PROVE  LET t == TaskFulfill(s, now, id, outcome)
           IN  /\ Sound(t, now) /\ Follows(s, t, {id}) /\ LocalSame(s, t)
               /\ IF s.tasks[id].state = "acquired"
                  THEN t.promises[id].state = outcome ELSE t = s
  <1> DEFINE t == TaskFulfill(s, now, id, outcome)
  <1>1. Inv(s) /\ now \in Nat /\ id \in Id /\ id \notin Local /\ Local \subseteq Id
        /\ {id} \cap Timer = {}
    BY LifecycleAssumption DEF Sound
  <1>2. Inv(t) /\ Evolves(s, t)
    BY <1>1, TaskFulfillInv
  <1>3. Tracks(s, t)
    BY <1>1, TaskFulfillAnnounces
  <1>4. /\ \A i \in Id \ {id} : Keeps(s, t, i)
        /\ IF s.tasks[id].state = "acquired" THEN Closes(s, t, id, outcome, now)
           ELSE t = s
        /\ Forgets(s, t)
    BY <1>1, TaskFulfillEffect
  <1> HIDE DEF t
  <1>5. /\ \A i \in Id : Changes(s, t, now, i, {id})
        /\ \A i \in Local : t.promises[i].awaiters = {}
    BY <1>1, <1>4 DEF Changes, Keeps, Forgets, Sound, LocalHidden
  <1>6. Sound(t, now) /\ Follows(s, t, {id})
    BY <1>1, <1>2, <1>3, <1>5, SoundStep
  <1>7. LocalSame(s, t)
    BY <1>1, <1>4, <1>6, LocalStays DEF LocalSame
  <1>8. IF s.tasks[id].state = "acquired"
        THEN t.promises[id].state = outcome ELSE t = s
    BY <1>4 DEF Closes
  <1> QED BY <1>6, <1>7, <1>8 DEF t

LEMMA SuspendSound ==
    ASSUME NEW now \in {0, 1}, NEW s, Sound(s, now), NEW id \in Id,
           NEW awaited \in SUBSET (Id \ {id}), awaited # {},
           awaited \cap Local = {}, \A i \in awaited : HasPromise(s, i)
    PROVE  LET t == TaskSuspend(s, id, awaited)
           IN  Sound(t, now) /\ Follows(s, t, {}) /\ LocalSame(s, t)
  <1> DEFINE t == TaskSuspend(s, id, awaited)
  <1>1. Inv(s) /\ Local \subseteq Id /\ awaited \in SUBSET Id
    BY LifecycleAssumption DEF Sound
  <1>2. Inv(t) /\ Evolves(s, t)
    BY <1>1, TaskSuspendInv
  <1>3. Tracks(s, t)
    BY <1>1, SuspendAnnounces
  <1>4. /\ \A i \in Id : Keeps(s, t, i)
        /\ \A i \in Id \ awaited : t.promises[i] = s.promises[i]
    BY <1>1, SuspendEffect
  <1> HIDE DEF t
  <1>5. LocalSame(s, t)
    BY <1>1, <1>4 DEF LocalSame
  <1>6. /\ \A i \in Id : Changes(s, t, now, i, {})
        /\ \A i \in Local : t.promises[i].awaiters = {}
    BY <1>1, <1>4, <1>5 DEF Changes, Sound, LocalHidden, LocalSame
  <1>7. Sound(t, now) /\ Follows(s, t, {})
    BY <1>2, <1>3, <1>6, SoundStep
  <1> QED BY <1>5, <1>7 DEF t

LEMMA ReleaseSound ==
    ASSUME NEW now \in {0, 1}, NEW s, Sound(s, now), NEW id \in Id
    PROVE  LET t == TaskRelease(s, now, id)
           IN  Sound(t, now) /\ Follows(s, t, {}) /\ LocalSame(s, t)
  <1>1. Inv(s) /\ now \in Nat
    BY DEF Sound
  <1> DEFINE t == TaskRelease(s, now, id)
  <1>2. Inv(t) /\ Evolves(s, t)
    BY <1>1, TaskReleaseInv
  <1>3. Tracks(s, t)
    BY <1>1, TaskReleaseAnnounces
  <1>4. t.promises = s.promises
    BY <1>1, TaskReleaseQuiet DEF Quiet
  <1> HIDE DEF t
  <1>5. Sound(t, now) /\ Follows(s, t, {}) /\ LocalSame(s, t)
    BY <1>2, <1>3, <1>4, QuietSound
  <1> QED BY <1>5 DEF t

LEMMA TickSound ==
    ASSUME NEW now \in {0, 1}, NEW s, Sound(s, now)
    PROVE  LET t == Tick(s, now)
           IN  Sound(t, now) /\ Follows(s, t, {}) /\ LocalSame(s, t)
  <1> DEFINE t == Tick(s, now)
  <1>1. Inv(s) /\ now \in Nat /\ Local \subseteq Id
    BY LifecycleAssumption DEF Sound
  <1>2. Inv(t) /\ Evolves(s, t)
    BY <1>1, TickInv
  <1>3. Tracks(s, t)
    BY <1>1, TickAnnounces
  <1>4. Passes(s, t, now)
    BY <1>1, TickEffect
  <1> HIDE DEF t
  <1>5. /\ \A i \in Id : Changes(s, t, now, i, {})
        /\ \A i \in Local : t.promises[i].awaiters = {}
    BY <1>1, <1>4 DEF Passes, Changes, Forgets, Sound, LocalHidden
  <1>6. Sound(t, now) /\ Follows(s, t, {})
    BY <1>2, <1>3, <1>5, SoundStep
  <1>7. LocalSame(s, t)
    BY <1>1, <1>4, <1>6, LocalStays DEF LocalSame, Passes
  <1> QED BY <1>6, <1>7 DEF t

\* The timers of the model keep their kind only, and every batch is sent.
LEMMA RetimedSound ==
    ASSUME NEW now \in {0, 1}, NEW s, Sound(s, now), NEW t, t \in State,
           t.promises = s.promises, t.pTimeouts = s.pTimeouts,
           t.tasks = s.tasks,
           \A i \in Id : t.tTimeouts[i].typ = s.tTimeouts[i].typ
    PROVE  Sound(t, now) /\ Follows(s, t, {}) /\ LocalSame(s, t)
  <1>1. Inv(t) /\ Evolves(s, t)
    BY TimersInv DEF Sound
  <1>2. Tracks(s, t)
    BY DEF Tracks, HasTask
  <1> QED BY <1>1, <1>2, QuietSound

LEMMA UntimedSound ==
    ASSUME NEW now \in {0, 1}, NEW s, Sound(s, now)
    PROVE  LET t == [Clear(s) EXCEPT !.tTimeouts =
                        [i \in Id |-> [typ |-> s.tTimeouts[i].typ, at |-> 0]]]
           IN  /\ Sound(t, now) /\ Follows(s, t, {}) /\ LocalSame(s, t)
               /\ t.promises = s.promises /\ t.tasks = s.tasks
  <1> DEFINE T == [i \in Id |-> [typ |-> s.tTimeouts[i].typ, at |-> 0]]
             t == [Clear(s) EXCEPT !.tTimeouts = T]
  <1>1. s \in State
    BY DEF Sound, Inv
  <1>2. T \in [Id -> TTimeout] /\ \A i \in Id : T[i].typ = s.tTimeouts[i].typ
    BY <1>1, Fields DEF TTimeout
  <1> HIDE DEF T
  <1>3. /\ t \in State
        /\ t.promises = s.promises /\ t.pTimeouts = s.pTimeouts
        /\ t.tasks = s.tasks /\ t.tTimeouts = T
    BY <1>1, <1>2 DEF Clear, State
  <1> HIDE DEF t
  <1>4. Sound(t, now) /\ Follows(s, t, {}) /\ LocalSame(s, t)
    BY <1>2, <1>3, RetimedSound
  <1> QED BY <1>3, <1>4 DEF t, T

LEMMA AnnouncedType ==
    ASSUME NEW s, s \in State
    PROVE  Announced(s) \subseteq Id \X Nat
  <1> SUFFICES ASSUME NEW m \in s.outgoing, m.kind = "execute"
               PROVE  <<m.id, m.version>> \in Id \X Nat
    BY DEF Announced
  <1>1. m \in Message
    BY DEF State
  <1>2. m \in [kind : {"execute"}, id : Id, version : Nat]
    BY <1>1 DEF Message
  <1> QED BY <1>2

LEMMA BecomeSound ==
    ASSUME NEW new, NEW handled, Become(new, handled), clock \in {0, 1},
           Sound(new, clock), mail \subseteq Id \X Nat
    PROVE  /\ Sound(srv', clock) /\ Follows(new, srv', {})
           /\ LocalSame(new, srv')
           /\ srv'.promises = new.promises /\ srv'.tasks = new.tasks
           /\ mail' \subseteq Id \X Nat
           /\ clock' = clock
  <1>1. mail' \subseteq Id \X Nat /\ clock' = clock
    BY AnnouncedType DEF Become, Sound, Inv
  <1> DEFINE t == [Clear(new) EXCEPT !.tTimeouts =
                      [i \in Id |-> [typ |-> new.tTimeouts[i].typ, at |-> 0]]]
  <1>2. /\ Sound(t, clock) /\ Follows(new, t, {}) /\ LocalSame(new, t)
        /\ t.promises = new.promises /\ t.tasks = new.tasks
    BY UntimedSound
  <1>3. srv' = t
    BY DEF Become
  <1> HIDE DEF t
  <1> QED BY <1>1, <1>2, <1>3

-----------------------------------------------------------------------------
(* The steps of a replay *)

LEMMA CallsFacts ==
    ASSUME NEW i \in Id
    PROVE  /\ Calls[i] \in Seq(Id)
           /\ Len(Calls[i]) \in Nat
           /\ Children(i) = {Calls[i][n] : n \in 1 .. Len(Calls[i])}
           /\ Children(i) \subseteq Id \ {i}
  <1>1. Calls[i] \in Seq(Id)
    BY LifecycleAssumption
  <1>2. Len(Calls[i]) \in Nat /\ DOMAIN Calls[i] = 1 .. Len(Calls[i])
    BY <1>1
  <1>3. \A n \in DOMAIN Calls[i] : Calls[i][n] \in Id /\ Calls[i][n] # i
    BY <1>1, <1>2, LifecycleAssumption
  <1> QED BY <1>1, <1>2, <1>3 DEF Children

LEMMA PassedChildren ==
    ASSUME NEW e \in Execs, e.pos \in 1 .. Len(Calls[e.id]) + 1
    PROVE  /\ Passed(e) \subseteq Children(e.id)
           /\ Replayed(e) => Passed(e) = Children(e.id)
  <1>1. e.id \in Id /\ e.pos \in Nat
    BY DEF Execs
  <1>2. Len(Calls[e.id]) \in Nat
        /\ Children(e.id) = {Calls[e.id][n] : n \in 1 .. Len(Calls[e.id])}
    BY <1>1, CallsFacts
  <1>3. 1 .. e.pos - 1 \subseteq 1 .. Len(Calls[e.id])
    BY <1>1, <1>2
  <1>4. Replayed(e) => 1 .. e.pos - 1 = 1 .. Len(Calls[e.id])
    BY <1>1, <1>2 DEF Replayed
  <1> QED BY <1>2, <1>3, <1>4 DEF Passed

\* What an execution relies on stays true.
LEMMA FitsFollows ==
    ASSUME NEW e \in Execs, NEW s, NEW t, NEW X, Inv(s), Inv(t),
           Fits(e, s), Follows(s, t, X)
    PROVE  Fits(e, t)
  <1>1. e.id \in Id /\ e.todos \subseteq Id /\ e.version \in Nat
    BY DEF Execs
  <1>2. \A c \in e.todos : HasPromise(t, c)
    BY <1>1 DEF Fits, Follows
  <1>3. 2 * e.version + 1 <= Rank(t, e.id)
    <2>1. Rank(s, e.id) \in Nat /\ Rank(t, e.id) \in Nat
      BY <1>1, RankNat
    <2>2. Rank(t, e.id) >= Rank(s, e.id) /\ 2 * e.version + 1 <= Rank(s, e.id)
      BY <1>1 DEF Fits, Follows, Evolves
    <2> QED BY <1>1, <2>1, <2>2
  <1>4. PassedOver(e, t)
    <2>1. Passed(e) \subseteq Id
      BY <1>1, PassedChildren, CallsFacts DEF Fits
    <2> QED BY <2>1 DEF Fits, PassedOver, Follows, Evolves
  <1> QED BY <1>2, <1>3, <1>4 DEF Fits

\* e stays on its task and its lease.
Stays(e, f) == f.id = e.id /\ f.version = e.version

LEMMA ReleaseFits ==
    ASSUME NEW e \in Execs, NEW s, Fits(e, s)
    PROVE  Release(e) \in Execs /\ Fits(Release(e), s) /\ Stays(e, Release(e))
  <1> DEFINE f == Release(e)
  <1>1. /\ f \in Execs /\ f.phase = "release" /\ Stays(e, f)
        /\ f.pos = e.pos /\ f.failed = e.failed
        /\ f.known = e.known /\ f.todos = e.todos
    BY DEF Release, Execs, Phase, Stays
  <1> HIDE DEF f
  <1>2. Fits(f, s)
    BY <1>1 DEF Fits, Stays, Replayed, PassedOver
  <1> QED BY <1>1, <1>2 DEF f

LEMMA FailFits ==
    ASSUME NEW e \in Execs, NEW s, Fits(e, s)
    PROVE  Fail(e) \in Execs /\ Fits(Fail(e), s) /\ Stays(e, Fail(e))
  <1> DEFINE f == Fail(e)
  <1>1. e.id \in Id /\ Len(Calls[e.id]) \in Nat
    BY CallsFacts DEF Execs
  <1>2. /\ f \in Execs /\ f.phase = "run" /\ Stays(e, f)
        /\ f.pos = Len(Calls[e.id]) + 1 /\ f.failed = TRUE
        /\ f.known = e.known /\ f.todos = e.todos
    <2> DEFINE p == Len(Calls[e.id]) + 1
    <2>1. p \in Nat
      BY <1>1
    <2> HIDE DEF p
    <2>2. f = [e EXCEPT !.phase = "run", !.pos = p, !.failed = TRUE]
      BY DEF Fail, p
    <2>3. f.pos = p
      BY <2>2 DEF Execs
    <2> QED BY <2>1, <2>2, <2>3 DEF Execs, Phase, Stays, p
  <1> HIDE DEF f
  <1>3. Fits(f, s)
    BY <1>1, <1>2 DEF Fits, Stays, Replayed, PassedOver
  <1> QED BY <1>2, <1>3 DEF f

\* A call is passed once its child needs no waiting for.
LEMMA StepFits ==
    ASSUME NEW e \in Execs, NEW s, Fits(e, s), ~ Replayed(e),
           e.phase # "release",
           \/ Calls[e.id][e.pos] \in Local
           \/ s.promises[Calls[e.id][e.pos]].state \in Settled
    PROVE  Step(e) \in Execs /\ Fits(Step(e), s) /\ Stays(e, Step(e))
  <1> DEFINE f == Step(e)
  <1>1. e.id \in Id /\ Len(Calls[e.id]) \in Nat /\ e.pos \in Nat
    BY CallsFacts DEF Execs
  <1>2. /\ f \in Execs /\ f.phase = "run" /\ Stays(e, f)
        /\ f.pos = e.pos + 1 /\ f.failed = e.failed
        /\ f.known = e.known /\ f.todos = e.todos
    <2> DEFINE p == e.pos + 1
    <2>1. p \in Nat
      BY <1>1
    <2> HIDE DEF p
    <2>2. f = [e EXCEPT !.phase = "run", !.pos = p]
      BY DEF Step, p
    <2>3. f.pos = p
      BY <2>2 DEF Execs
    <2> QED BY <2>1, <2>2, <2>3 DEF Execs, Phase, Stays, p
  <1> HIDE DEF f
  <1>3. ~ e.failed /\ e.pos <= Len(Calls[e.id]) /\ e.pos >= 1
    BY <1>1 DEF Fits, Replayed
  <1>4. f.pos \in 1 .. Len(Calls[f.id]) + 1
    BY <1>1, <1>2, <1>3 DEF Stays
  <1>5. Passed(f) = Passed(e) \cup {Calls[e.id][e.pos]}
    <2>1. 1 .. f.pos - 1 = (1 .. e.pos - 1) \cup {e.pos}
      BY <1>1, <1>2, <1>3
    <2> QED BY <1>2, <2>1 DEF Passed, Stays
  <1>6. PassedOver(f, s)
    BY <1>2, <1>5 DEF Fits, PassedOver
  <1>7. Fits(f, s)
    BY <1>2, <1>3, <1>4, <1>6 DEF Fits, Stays
  <1> QED BY <1>2, <1>7 DEF f

LEMMA RunLocalFits ==
    ASSUME NEW e \in Execs, NEW s, Fits(e, s), ~ Replayed(e),
           e.phase # "release", Calls[e.id][e.pos] \in Local
    PROVE  RunLocal(e) \in Execs /\ Fits(RunLocal(e), s) /\ Stays(e, RunLocal(e))
  <1> DEFINE f == RunLocal(e)
  <1>1. /\ f \in Execs /\ f.phase = "settle" /\ Stays(e, f)
        /\ f.pos = e.pos /\ f.failed = e.failed
        /\ f.known = e.known /\ f.todos = e.todos
    BY DEF RunLocal, Execs, Phase, Stays
  <1> HIDE DEF f
  <1>2. Fits(f, s)
    BY <1>1 DEF Fits, Stays, Replayed, PassedOver, Passed
  <1> QED BY <1>1, <1>2 DEF f

\* A call is passed while its child is still to settle: the child is a todo.
LEMMA TodoFits ==
    ASSUME NEW e \in Execs, NEW s, Fits(e, s), ~ Replayed(e), NEW f \in Execs,
           f.phase = "run", Stays(e, f), f.failed = e.failed,
           f.pos \in {e.pos + 1, Len(Calls[e.id]) + 1},
           f.known = e.known, f.todos = e.todos \cup {Calls[e.id][e.pos]},
           Calls[e.id][e.pos] \notin Local,
           HasPromise(s, Calls[e.id][e.pos])
    PROVE  Fits(f, s)
  <1>1. e.id \in Id /\ Len(Calls[e.id]) \in Nat /\ e.pos \in Nat
        /\ Children(e.id) = {Calls[e.id][n] : n \in 1 .. Len(Calls[e.id])}
    BY CallsFacts DEF Execs
  <1>2. ~ e.failed /\ e.pos <= Len(Calls[e.id]) /\ e.pos >= 1
    BY <1>1 DEF Fits, Replayed
  <1>3. f.pos \in 1 .. Len(Calls[f.id]) + 1
    BY <1>1, <1>2 DEF Stays
  <1>4. Calls[e.id][e.pos] \in Children(e.id)
    BY <1>1, <1>2
  <1> QED BY <1>2, <1>3, <1>4 DEF Fits, Stays, PassedOver

LEMMA BlockFits ==
    ASSUME NEW e \in Execs, NEW s, Fits(e, s), ~ Replayed(e), e.phase = "run",
           NEW c, c = Calls[e.id][e.pos], c \notin Local, HasPromise(s, c)
    PROVE  /\ Block(e, c) \in Execs /\ Fits(Block(e, c), s)
           /\ Stays(e, Block(e, c))
           /\ Todo(e, c) \in Execs /\ Fits(Todo(e, c), s)
           /\ Stays(e, Todo(e, c))
  <1>1. e.id \in Id /\ Len(Calls[e.id]) \in Nat /\ e.pos \in Nat
        /\ Children(e.id) = {Calls[e.id][n] : n \in 1 .. Len(Calls[e.id])}
        /\ Children(e.id) \subseteq Id
    BY CallsFacts DEF Execs
  <1>2. c \in Id
    <2>1. e.pos \in 1 .. Len(Calls[e.id])
      BY <1>1 DEF Fits, Replayed
    <2> QED BY <1>1, <2>1
  <1> DEFINE p == Len(Calls[e.id]) + 1
             q == e.pos + 1
             T == e.todos \cup {c}
  <1>3. p \in Nat /\ q \in Nat /\ T \in SUBSET Id
    BY <1>1, <1>2 DEF Execs
  <1> HIDE DEF p, q, T
  <1>4. ASSUME NEW n \in {p, q},
               NEW f, f = [e EXCEPT !.phase = "run", !.pos = n, !.todos = T]
        PROVE  f \in Execs /\ Fits(f, s) /\ Stays(e, f)
    <2>1. f \in Execs /\ f.phase = "run" /\ Stays(e, f)
          /\ f.pos = n /\ f.failed = e.failed
          /\ f.known = e.known /\ f.todos = T
      BY <1>3, <1>4 DEF Execs, Phase, Stays
    <2>2. Fits(f, s)
      BY <2>1, TodoFits DEF p, q, T
    <2> QED BY <2>1, <2>2
  <1>5. Block(e, c) = [e EXCEPT !.phase = "run", !.pos = p, !.todos = T]
    BY DEF Block, p, T, Execs
  <1>6. Todo(e, c) = [e EXCEPT !.phase = "run", !.pos = q, !.todos = T]
    BY DEF Todo, Step, q, T, Execs
  <1> QED BY <1>4, <1>5, <1>6

\* What the server knows of local children joins the cache.
LEMMA AbsorbFits ==
    ASSUME NEW e \in Execs, NEW s, Fits(e, s), NEW new
    PROVE  LET f == Absorb(e, new)
           IN  /\ f \in Execs /\ Fits(f, s) /\ Stays(e, f)
               /\ f.phase = e.phase /\ f.pos = e.pos
  <1> DEFINE P == Preload(new, e.id)
             K == e.known \cup P
             D == e.done \cup Over(new, P)
             f == Absorb(e, new)
  <1>1. P \subseteq Local /\ Local \subseteq Id /\ Over(new, P) \subseteq P
    BY LifecycleAssumption DEF Preload, Over
  <1>2. K \in SUBSET Id /\ D \in SUBSET Id /\ K \subseteq Local
    BY <1>1 DEF Execs, Fits
  <1>3. f = [e EXCEPT !.known = K, !.done = D]
    BY DEF Absorb
  <1> HIDE DEF f, K, D
  <1>4. /\ f \in Execs /\ f.phase = e.phase /\ Stays(e, f)
        /\ f.pos = e.pos /\ f.failed = e.failed
        /\ f.known = K /\ f.todos = e.todos
    BY <1>2, <1>3 DEF Execs, Stays
  <1>5. Fits(f, s)
    BY <1>2, <1>4 DEF Fits, Stays, Replayed, PassedOver, Passed
  <1> QED BY <1>4, <1>5 DEF f

\* How an execution may go on.
Goes(e, f, s) == f \in Execs /\ (f # Idle => Fits(f, s) /\ Stays(e, f))

LEMMA IdleType == Idle \in Execs /\ Idle.phase = "idle"
  BY LifecycleAssumption DEF Idle, Execs, Phase

LEMMA AfterFits ==
    ASSUME NEW e \in Execs, NEW s, Fits(e, s), ~ Replayed(e), e.phase = "run",
           NEW c, c = Calls[e.id][e.pos],
           NEW state \in {"pending"} \cup Settled,
           c \notin Local => state = s.promises[c].state
    PROVE  Goes(e, After(e, c, state), s)
  <1>1. CASE state = "pending" /\ c \in Local
    <2>1. After(e, c, state) = RunLocal(e)
      BY <1>1 DEF After
    <2> QED BY <1>1, <2>1, RunLocalFits DEF Goes
  <1>2. CASE state = "pending" /\ c \notin Local
    <2>1. After(e, c, state) = IF c \in Spawned THEN Todo(e, c) ELSE Block(e, c)
      BY <1>2 DEF After
    <2>2. HasPromise(s, c)
      BY <1>2 DEF HasPromise
    <2> QED BY <1>2, <2>1, <2>2, BlockFits DEF Goes
  <1>3. CASE state # "pending" /\ c \notin Spawned /\ state # "resolved"
    <2>1. After(e, c, state) = Fail(e)
      BY <1>3 DEF After
    <2> QED BY <2>1, FailFits DEF Goes
  <1>4. CASE state # "pending" /\ ~ (c \notin Spawned /\ state # "resolved")
    <2>1. After(e, c, state) = Step(e)
      BY <1>4 DEF After
    <2>2. c \in Local \/ s.promises[c].state \in Settled
      BY <1>4
    <2> QED BY <2>1, <2>2, StepFits DEF Goes
  <1> QED BY <1>1, <1>2, <1>3, <1>4

LEMMA FailedFits ==
    ASSUME NEW e \in Execs, NEW s, Fits(e, s)
    PROVE  Goes(e, Failed(e), s)
  <1> DEFINE c == Calls[e.id][e.pos]
  <1>1. CASE e.phase = "release"
    <2>1. Failed(e) = Idle
      BY <1>1 DEF Failed
    <2> QED BY <2>1, IdleType DEF Goes
  <1>2. CASE e.phase = "run" /\ Replayed(e)
    <2>1. Failed(e) = Release(e)
      BY <1>2 DEF Failed
    <2> QED BY <2>1, ReleaseFits DEF Goes
  <1>3. CASE e.phase # "release" /\ ~ (e.phase = "run" /\ Replayed(e))
    <2>1. Failed(e) = IF c \notin Spawned THEN Fail(e)
                      ELSE IF e.phase = "settle" THEN Step(e) ELSE Release(e)
      BY <1>3 DEF Failed
    <2>2. e.phase = "settle" => ~ Replayed(e) /\ c \in Local
      BY DEF Fits
    <2>3. e.phase = "settle" => Step(e) \in Execs /\ Fits(Step(e), s) /\ Stays(e, Step(e))
      BY <1>3, <2>2, StepFits
    <2> QED BY <2>1, <2>3, FailFits, ReleaseFits DEF Goes
  <1> QED BY <1>1, <1>2, <1>3

LEMMA FirstType ==
    ASSUME NEW i \in Id, NEW v \in Nat, NEW P \in SUBSET Id, NEW D \in SUBSET Id
    PROVE  [phase |-> "run", id |-> i, version |-> v, pos |-> 1, known |-> P,
            done |-> D, todos |-> {}, failed |-> FALSE] \in Execs
  BY DEF Execs, Phase

\* A run starts from the first call.
LEMMA RunFits ==
    ASSUME NEW s, Inv(s), NEW i \in Id \ (Local \cup Timer),
           NEW v \in Nat, 2 * v + 1 <= Rank(s, i),
           NEW e, e = [phase |-> "run", id |-> i, version |-> v, pos |-> 1,
                       known |-> Preload(s, i),
                       done |-> Over(s, Preload(s, i)),
                       todos |-> {}, failed |-> FALSE]
    PROVE  e \in Execs /\ Fits(e, s) /\ e.id = i /\ e.version = v
  <1> DEFINE P == Preload(s, i)
             D == Over(s, P)
  <1>1. P \subseteq Local /\ P \in SUBSET Id /\ D \in SUBSET Id
    BY LifecycleAssumption DEF Preload, Over
  <1>2. e = [phase |-> "run", id |-> i, version |-> v, pos |-> 1, known |-> P,
             done |-> D, todos |-> {}, failed |-> FALSE]
    OBVIOUS
  <1> HIDE DEF P, D
  <1>3. /\ e \in Execs /\ e.phase = "run" /\ e.id = i /\ e.pos = 1
        /\ e.version = v /\ e.known \subseteq Local /\ e.todos = {} /\ ~ e.failed
    <2>1. e \in Execs
      <3>1. i \in Id /\ v \in Nat
        OBVIOUS
      <3>2. [phase |-> "run", id |-> i, version |-> v, pos |-> 1, known |-> P,
             done |-> D, todos |-> {}, failed |-> FALSE] \in Execs
        BY <1>1, <3>1, FirstType
      <3> QED BY <1>2, <3>2
    <2>2. /\ e.phase = "run" /\ e.id = i /\ e.pos = 1
          /\ e.version = v /\ e.known = P /\ e.todos = {} /\ e.failed = FALSE
      BY <1>2
    <2> QED BY <1>1, <2>1, <2>2
  <1>4. Len(Calls[i]) \in Nat
    BY CallsFacts
  <1>5. Passed(e) = {}
    BY <1>3 DEF Passed
  <1>6. e.pos \in 1 .. Len(Calls[e.id]) + 1 /\ 2 * e.version + 1 <= Rank(s, e.id)
    BY <1>3, <1>4
  <1>7. PassedOver(e, s)
    BY <1>5 DEF PassedOver
  <1>8. e.phase # "idle" /\ e.phase # "settle" /\ e.id \notin Local \cup Timer
    BY <1>3
  <1> QED BY <1>3, <1>6, <1>7, <1>8 DEF Fits

-----------------------------------------------------------------------------
(* The invariant *)

\* Workflow i left nothing behind if it was resolved.
Complete(s, i) == s.promises[i].state = "resolved" =>
    \A c \in Children(i) \ Local : s.promises[c].state \in Settled

\* No other execution works on the task of f under its version.
Alone(w, f) == \A v \in Execution \ {w} :
    Active(v) /\ exec[v].id = f.id => exec[v].version # f.version

\* One execution moves at a time; the others rely on what the server keeps.
LEMMA StepInv ==
    ASSUME IInv, NEW X, NEW w, Sound(srv', clock'), Follows(srv, srv', X),
           \A i \in X : Complete(srv', i),
           mail' \subseteq Id \X Nat, clock' \in {0, 1},
           faults' \in 0 .. MaxFaults, exec' \in [Execution -> Execs],
           \A v \in Execution : v # w => exec'[v] = exec[v],
           w \in Execution /\ exec'[w] # exec[w] /\ exec'[w] # Idle =>
              Fits(exec'[w], srv') /\ Alone(w, exec'[w])
    PROVE  IInv'
  <1>1. Inv(srv) /\ Inv(srv')
    BY DEF IInv, Sound
  <1>2. ASSUME NEW v \in Execution, exec'[v] # Idle
        PROVE  Fits(exec'[v], srv')
    <2>1. CASE exec'[v] = exec[v]
      <3>1. exec[v] \in Execs /\ Fits(exec[v], srv)
        BY <1>2, <2>1 DEF IInv
      <3> QED BY <1>1, <2>1, <3>1, FitsFollows
    <2>2. CASE exec'[v] # exec[v]
      BY <1>2, <2>2
    <2> QED BY <2>1, <2>2
  <1>3. ASSUME NEW u \in Execution, NEW v \in Execution, u # v,
               exec'[u].phase # "idle", exec'[v].phase # "idle",
               exec'[u].id = exec'[v].id
        PROVE  exec'[u].version # exec'[v].version
    <2>1. CASE exec'[u] = exec[u] /\ exec'[v] = exec[v]
      BY <1>3, <2>1 DEF IInv, OneExecutionPerVersion, Active
    <2>2. exec'[u] # Idle /\ exec'[v] # Idle
      BY <1>3, IdleType
    <2>3. CASE exec'[u] # exec[u]
      <3>1. u = w /\ exec'[v] = exec[v]
        BY <1>3, <2>3
      <3> QED BY <1>3, <2>3, <2>2, <3>1 DEF Alone, Active
    <2>4. CASE exec'[v] # exec[v]
      <3>1. v = w /\ exec'[u] = exec[u]
        BY <1>3, <2>4
      <3> QED BY <1>3, <2>4, <2>2, <3>1 DEF Alone, Active
    <2> QED BY <2>1, <2>3, <2>4
  <1>4. ASSUME NEW i \in Id \ (Local \cup Timer),
               srv'.promises[i].state = "resolved", NEW c \in Children(i) \ Local
        PROVE  srv'.promises[c].state \in Settled
    <2>1. c \in Id
      BY CallsFacts
    <2>2. CASE i \in X
      BY <1>4, <2>2 DEF Complete
    <2>3. CASE i \notin X
      <3>1. srv.promises[i].state = "resolved"
        BY <1>4, <2>3 DEF Follows
      <3>2. srv.promises[c].state \in Settled
        BY <3>1 DEF IInv, NoRemoteLeftBehind
      <3> QED BY <2>1, <3>2 DEF Follows, Evolves
    <2> QED BY <2>2, <2>3
  <1>5. OneExecutionPerVersion'
    BY <1>3 DEF OneExecutionPerVersion, Active
  <1>6. NoRemoteLeftBehind'
    BY <1>4 DEF NoRemoteLeftBehind
  <1> QED BY <1>2, <1>5, <1>6 DEF IInv

LEMMA GoesFollows ==
    ASSUME NEW e, NEW f, NEW s, NEW t, NEW X, Inv(s), Inv(t),
           Goes(e, f, s), Follows(s, t, X)
    PROVE  Goes(e, f, t)
  BY FitsFollows DEF Goes

\* An execution goes on under its lease.
LEMMA GoesInv ==
    ASSUME IInv, NEW X, NEW w \in Execution, Active(w),
           Sound(srv', clock'), Follows(srv, srv', X),
           \A i \in X : Complete(srv', i),
           mail' \subseteq Id \X Nat, clock' \in {0, 1},
           faults' \in 0 .. MaxFaults,
           NEW f, Goes(exec[w], f, srv'), exec' = [exec EXCEPT ![w] = f]
    PROVE  IInv'
  <1>1. exec \in [Execution -> Execs] /\ f \in Execs
    BY DEF IInv, Goes
  <1>2. /\ exec' \in [Execution -> Execs] /\ exec'[w] = f
        /\ \A v \in Execution : v # w => exec'[v] = exec[v]
    BY <1>1
  <1>3. f # Idle => Fits(f, srv') /\ Alone(w, f)
    BY DEF Fits, Goes, Stays, Alone, IInv, OneExecutionPerVersion
  <1> HIDE DEF IInv
  <1> QED BY <1>2, <1>3, StepInv

\* A request is answered, or its answer is lost.
LEMMA ContinueInv ==
    ASSUME IInv, NEW X, NEW w \in Execution, Active(w),
           NEW new, Sound(new, clock), Follows(srv, new, X),
           \A i \in X : Complete(new, i), Become(new, {}),
           NEW f, Goes(exec[w], f, new), Continue(w, f)
    PROVE  IInv'
  <1>1. /\ clock \in {0, 1} /\ mail \subseteq Id \X Nat
        /\ exec \in [Execution -> Execs] /\ faults \in 0 .. MaxFaults
        /\ Fits(exec[w], srv) /\ Inv(srv) /\ Inv(new)
    BY IdleType DEF IInv, Sound, Active
  <1>2. /\ Sound(srv', clock) /\ Follows(new, srv', {})
        /\ srv'.promises = new.promises
        /\ mail' \subseteq Id \X Nat /\ clock' = clock
    BY <1>1, BecomeSound
  <1>3. Inv(srv')
    BY <1>2 DEF Sound
  <1>4. Follows(srv, srv', X)
    <2>1. X \in SUBSET X /\ {} \in SUBSET X
      OBVIOUS
    <2> QED BY <1>1, <1>2, <1>3, <2>1, FollowsTransitive
  <1>5. \A i \in X : Complete(srv', i)
    BY <1>2 DEF Complete
  <1>6. Goes(exec[w], f, srv')
    BY <1>1, <1>2, <1>3, GoesFollows
  <1>7. Goes(exec[w], Failed(exec[w]), srv')
    <2>1. exec[w] \in Execs
      BY <1>1
    <2>2. Fits(exec[w], srv')
      BY <1>1, <1>3, <1>4, <2>1, FitsFollows
    <2> QED BY <2>1, <2>2, FailedFits
  <1>8. faults' \in 0 .. MaxFaults /\ faults' \in Nat
    BY <1>1, LifecycleAssumption DEF Continue, Fault
  <1>9. \E g : Goes(exec[w], g, srv') /\ exec' = [exec EXCEPT ![w] = g]
    BY <1>6, <1>7 DEF Continue
  <1> HIDE DEF IInv
  <1> QED BY <1>1, <1>2, <1>4, <1>5, <1>8, <1>9, GoesInv

-----------------------------------------------------------------------------
(* The steps of an execution *)

LEMMA ActiveFits ==
    ASSUME IInv, NEW w \in Execution, Active(w)
    PROVE  /\ exec[w] \in Execs /\ Fits(exec[w], srv) /\ exec[w].phase # "idle"
           /\ exec[w].id \in Id \ (Local \cup Timer)
           /\ Children(exec[w].id) \subseteq Id \ {exec[w].id}
           /\ ~ Replayed(exec[w]) =>
                 Calls[exec[w].id][exec[w].pos] \in Children(exec[w].id)
           /\ Sound(srv, clock) /\ Inv(srv) /\ clock \in {0, 1}
  <1> DEFINE e == exec[w]
  <1>1. e \in Execs /\ Fits(e, srv) /\ e.phase # "idle"
        /\ Sound(srv, clock) /\ Inv(srv) /\ clock \in {0, 1}
    BY IdleType DEF IInv, Sound, Active
  <1> HIDE DEF e
  <1>2. e.id \in Id /\ e.pos \in Nat /\ Len(Calls[e.id]) \in Nat
        /\ Children(e.id) = {Calls[e.id][n] : n \in 1 .. Len(Calls[e.id])}
        /\ Children(e.id) \subseteq Id \ {e.id}
    BY <1>1, CallsFacts DEF Execs
  <1>3. e.id \notin Local \cup Timer
    BY <1>1 DEF Fits
  <1>4. ASSUME ~ Replayed(e)
        PROVE  Calls[e.id][e.pos] \in Children(e.id)
    <2>1. e.pos \in 1 .. Len(Calls[e.id])
      BY <1>1, <1>2, <1>4 DEF Fits, Replayed
    <2> QED BY <1>2, <2>1
  <1> QED BY <1>1, <1>2, <1>3, <1>4 DEF e

\* The request of a step names what it may touch; the server expires it first.
LEMMA FreshFits ==
    ASSUME IInv, NEW w \in Execution, Active(w), NEW S \in SUBSET Id
    PROVE  LET s == FreshAll(S)
           IN  /\ Sound(s, clock) /\ Inv(s) /\ Follows(srv, s, {})
               /\ LocalSame(srv, s) /\ NoNewLease(srv, s)
               /\ Fits(exec[w], s)
               /\ \A i \in S : s.promises[i].state = "pending" =>
                                  clock < s.promises[i].timeoutAt
  <1> DEFINE s == FreshAll(S)
  <1>1. exec[w] \in Execs /\ Fits(exec[w], srv) /\ Inv(srv)
        /\ Sound(srv, clock) /\ clock \in {0, 1}
    BY ActiveFits
  <1>2. /\ Sound(s, clock) /\ Follows(srv, s, {})
        /\ LocalSame(srv, s) /\ NoNewLease(srv, s)
        /\ \A i \in S : s.promises[i].state = "pending" =>
                           clock < s.promises[i].timeoutAt
    BY <1>1, FreshSound
  <1> HIDE DEF s
  <1>3. Inv(s)
    BY <1>2 DEF Sound
  <1>4. Fits(exec[w], s)
    BY <1>1, <1>2, <1>3, FitsFollows
  <1> QED BY <1>2, <1>3, <1>4 DEF s

\* An execution goes on without the server.
LEMMA GoesAloneInv ==
    ASSUME IInv, NEW w \in Execution, Active(w), UNCHANGED <<srv, mail, clock>>,
           faults' = faults \/ \E kind : Fault(kind),
           NEW f, Goes(exec[w], f, srv), exec' = [exec EXCEPT ![w] = f]
    PROVE  IInv'
  <1>1. Inv(srv) /\ Sound(srv, clock)
    BY ActiveFits
  <1>2. Follows(srv, srv', {})
    BY <1>1, FollowsSame
  <1>3. faults' \in 0 .. MaxFaults
    BY LifecycleAssumption DEF IInv, Fault
  <1>4. mail' \subseteq Id \X Nat /\ clock' \in {0, 1}
    BY DEF IInv
  <1> DEFINE X == {}
  <1>5. \A i \in X : Complete(srv', i)
    OBVIOUS
  <1>6. Sound(srv', clock') /\ Follows(srv, srv', X) /\ Goes(exec[w], f, srv')
    BY <1>1, <1>2
  <1> HIDE DEF IInv, X
  <1> QED BY <1>3, <1>4, <1>5, <1>6, GoesInv

LEMMA CachedInv ==
    ASSUME IInv, NEW w \in Execution, Active(w), exec[w].phase = "run",
           ~ Replayed(exec[w]),
           NEW c, c = Calls[exec[w].id][exec[w].pos], c \in exec[w].known,
           NEW state \in {"pending", "resolved"},
           exec' = [exec EXCEPT ![w] = After(exec[w], c, state)],
           UNCHANGED <<srv, mail, clock, faults>>
    PROVE  IInv'
  <1>1. exec[w] \in Execs /\ Fits(exec[w], srv)
    BY ActiveFits
  <1>2. c \in Local /\ state \in {"pending"} \cup Settled
    BY <1>1 DEF Fits, Settled
  <1>3. Goes(exec[w], After(exec[w], c, state), srv)
    BY <1>1, <1>2, AfterFits
  <1> HIDE DEF IInv
  <1> QED BY <1>3, GoesAloneInv

LEMMA CallInv ==
    ASSUME IInv, NEW w \in Execution, Call(w)
    PROVE  IInv'
  <1> DEFINE e == exec[w]
             c == Calls[e.id][e.pos]
             s == FreshAll({e.id, c})
             new == TaskFenceCreate(s, clock, e.id, e.version, c, DeadlineOf(c),
                                    TagsOf(c))
             f == Absorb(e, new)
             g == IF HoldsLease(s, e.id, e.version)
                  THEN After(f, c, new.promises[c].state) ELSE Failed(e)
  <1>1. e.phase = "run" /\ ~ Replayed(e) /\ Active(w)
    BY DEF Call, Active
  <1>2. /\ e \in Execs /\ e.id \in Id /\ c \in Id /\ clock \in {0, 1}
        /\ e.version \in Nat /\ Inv(srv)
    BY <1>1, ActiveFits DEF Execs
  <1>3. CASE c \in e.known
    <2> DEFINE state == IF c \in e.done THEN "resolved" ELSE "pending"
    <2>1. state \in {"pending", "resolved"}
      OBVIOUS
    <2>2. /\ exec' = [exec EXCEPT ![w] = After(e, c, state)]
          /\ UNCHANGED <<srv, mail, clock, faults>>
      BY <1>3 DEF Call
    <2> HIDE DEF state
    <2> QED BY <1>1, <1>3, <2>1, <2>2, CachedInv
  <1>4. CASE c \notin e.known
    <2>1. Become(new, {}) /\ Continue(w, g)
      BY <1>4 DEF Call
    <2>2. Sound(s, clock) /\ Inv(s) /\ Follows(srv, s, {}) /\ Fits(e, s)
      BY <1>1, <1>2, FreshFits
    <2> HIDE DEF s
    <2>3. /\ Sound(new, clock) /\ Follows(s, new, {})
          /\ HoldsLease(s, e.id, e.version) => HasPromise(new, c)
      BY <1>2, <2>2, FenceCreateSound
    <2> HIDE DEF new
    <2>4. Inv(new)
      BY <2>3 DEF Sound
    <2>5. Follows(srv, new, {})
      BY <1>2, <2>2, <2>3, <2>4, FollowsTransitive
    <2>6. Fits(e, new)
      BY <1>2, <2>2, <2>3, <2>4, FitsFollows
    <2>7. Goes(e, g, new)
      <3>1. CASE HoldsLease(s, e.id, e.version)
        <4>1. new.promises[c].state \in {"pending"} \cup Settled
          <5>1. new.promises[c] \in Promise
            BY <1>2, <2>4, Fields DEF Inv
          <5> QED BY <2>3, <3>1, <5>1 DEF Promise, PromiseState, HasPromise
        <4>2. f \in Execs /\ Fits(f, new) /\ Stays(e, f) /\ f.phase = e.phase
              /\ f.pos = e.pos
          BY <1>2, <2>6, AbsorbFits
        <4>3. c = Calls[f.id][f.pos] /\ ~ Replayed(f)
          BY <1>1, <4>2 DEF Replayed, Stays
        <4> HIDE DEF f, c
        <4>4. Goes(f, After(f, c, new.promises[c].state), new)
          BY <1>1, <4>1, <4>2, <4>3, AfterFits
        <4>5. g = After(f, c, new.promises[c].state)
          BY <3>1
        <4> QED BY <4>2, <4>4, <4>5 DEF Goes, Stays
      <3>2. CASE ~ HoldsLease(s, e.id, e.version)
        <4>1. g = Failed(e)
          BY <3>2
        <4> HIDE DEF g
        <4> QED BY <1>1, <1>2, <2>6, <4>1, FailedFits
      <3> QED BY <3>1, <3>2
    <2> HIDE DEF g, IInv
    <2> DEFINE X == {}
    <2>8. Follows(srv, new, X) /\ \A i \in X : Complete(new, i)
      BY <2>5
    <2> HIDE DEF X
    <2> QED BY <1>1, <2>1, <2>3, <2>7, <2>8, ContinueInv
  <1> QED BY <1>3, <1>4

LEMMA SettleChildInv ==
    ASSUME IInv, NEW w \in Execution, SettleChild(w)
    PROVE  IInv'
  <1> DEFINE e == exec[w]
             c == Calls[e.id][e.pos]
             s == FreshAll({e.id, c})
             new == TaskFenceSettle(s, clock, e.id, e.version, c, "resolved")
             f == Absorb(e, new)
             g == IF HoldsLease(s, e.id, e.version) THEN Step(f) ELSE Failed(e)
  <1>1. e.phase = "settle" /\ Active(w) /\ Become(new, {}) /\ Continue(w, g)
    BY DEF SettleChild, Active
  <1>2. ~ Replayed(e) /\ c \in Local
    BY <1>1, ActiveFits DEF Fits
  <1>3. /\ e \in Execs /\ e.id \in Id /\ c \in Id /\ clock \in {0, 1}
        /\ e.version \in Nat /\ Inv(srv)
    BY <1>1, <1>2, ActiveFits DEF Execs
  <1>4. /\ Sound(s, clock) /\ Inv(s) /\ Follows(srv, s, {}) /\ Fits(e, s)
        /\ s.promises[c].state = "pending" => clock < s.promises[c].timeoutAt
    BY <1>1, <1>3, FreshFits
  <1> HIDE DEF s
  <1>5. Sound(new, clock) /\ Follows(s, new, {})
    BY <1>2, <1>3, <1>4, FenceSettleSound
  <1> HIDE DEF new
  <1>6. Inv(new)
    BY <1>5 DEF Sound
  <1>7. Follows(srv, new, {})
    BY <1>3, <1>4, <1>5, <1>6, FollowsTransitive
  <1>8. Fits(e, new)
    BY <1>3, <1>4, <1>5, <1>6, FitsFollows
  <1>9. Goes(e, g, new)
    <2>1. CASE HoldsLease(s, e.id, e.version)
      <3>1. f \in Execs /\ Fits(f, new) /\ Stays(e, f) /\ f.phase = e.phase
            /\ f.pos = e.pos
        BY <1>3, <1>8, AbsorbFits
      <3>2. c = Calls[f.id][f.pos] /\ ~ Replayed(f)
        BY <1>2, <3>1 DEF Replayed, Stays
      <3> HIDE DEF f, c
      <3>3. Step(f) \in Execs /\ Fits(Step(f), new) /\ Stays(f, Step(f))
        BY <1>1, <1>2, <3>1, <3>2, StepFits
      <3>4. g = Step(f)
        BY <2>1
      <3> QED BY <3>1, <3>3, <3>4 DEF Goes, Stays
    <2>2. CASE ~ HoldsLease(s, e.id, e.version)
      <3>1. g = Failed(e)
        BY <2>2
      <3> HIDE DEF g
      <3> QED BY <1>1, <1>3, <1>8, <3>1, FailedFits
    <2> QED BY <2>1, <2>2
  <1> DEFINE X == {}
  <1>10. Follows(srv, new, X) /\ \A i \in X : Complete(new, i)
    BY <1>7
  <1> HIDE DEF g, X, IInv
  <1> QED BY <1>1, <1>5, <1>9, <1>10, ContinueInv

LEMMA FulfillInv ==
    ASSUME IInv, NEW w \in Execution, Fulfill(w)
    PROVE  IInv'
  <1> DEFINE e == exec[w]
             s == FreshAll({e.id})
             new == TaskFulfill(s, clock, e.id, Outcome(e))
             g == IF s.tasks[e.id].state = "acquired" THEN Idle ELSE Failed(e)
  <1>1. /\ e.phase = "run" /\ Replayed(e) /\ e.todos = {} /\ Active(w)
        /\ Become(new, {}) /\ Continue(w, g)
    BY FreshOne DEF Fulfill, Active
  <1>2. /\ e \in Execs /\ e.id \in Id \ (Local \cup Timer) /\ clock \in {0, 1}
        /\ Inv(srv) /\ Children(e.id) \subseteq Id
    BY <1>1, ActiveFits DEF Execs
  <1>3. /\ Sound(s, clock) /\ Inv(s) /\ Follows(srv, s, {}) /\ Fits(e, s)
        /\ s.promises[e.id].state = "pending" =>
              clock < s.promises[e.id].timeoutAt
    BY <1>1, <1>2, FreshFits
  <1> HIDE DEF s
  <1>4. Outcome(e) \in SettleState
    BY DEF Outcome, SettleState
  <1>5. /\ Sound(new, clock) /\ Follows(s, new, {e.id})
        /\ IF s.tasks[e.id].state = "acquired"
           THEN new.promises[e.id].state = Outcome(e) ELSE new = s
    <2> DEFINE i == e.id
               outcome == Outcome(e)
    <2>1. /\ i \in Id \ (Local \cup Timer) /\ outcome \in SettleState
          /\ s.promises[i].state = "pending" => clock < s.promises[i].timeoutAt
      BY <1>2, <1>3, <1>4
    <2> HIDE DEF i, outcome
    <2>2. LET t == TaskFulfill(s, clock, i, outcome)
          IN  /\ Sound(t, clock) /\ Follows(s, t, {i})
              /\ IF s.tasks[i].state = "acquired"
                 THEN t.promises[i].state = outcome ELSE t = s
      BY <1>2, <1>3, <2>1, FulfillSound
    <2> QED BY <2>2 DEF i, outcome
  <1> HIDE DEF new
  <1>6. Inv(new)
    BY <1>5 DEF Sound
  <1>7. Follows(srv, new, {e.id})
    <2>1. {} \in SUBSET {e.id} /\ {e.id} \in SUBSET {e.id}
      OBVIOUS
    <2> QED BY <1>2, <1>3, <1>5, <1>6, <2>1, FollowsTransitive
  <1>8. Fits(e, new)
    BY <1>2, <1>3, <1>5, <1>6, FitsFollows
  <1>9. Goes(e, g, new)
    <2>1. Goes(e, Failed(e), new)
      BY <1>1, <1>2, <1>8, FailedFits
    <2>2. Goes(e, Idle, new)
      BY IdleType DEF Goes
    <2> QED BY <2>1, <2>2
  <1>10. Complete(new, e.id)
    <2> SUFFICES ASSUME new.promises[e.id].state = "resolved",
                        NEW c \in Children(e.id) \ Local
                 PROVE  new.promises[c].state \in Settled
      BY DEF Complete
    <2>1. s.promises[c].state \in Settled
      <3>1. CASE s.tasks[e.id].state = "acquired"
        <4>1. ~ e.failed
          BY <1>5, <3>1 DEF Outcome
        <4>2. c \in Passed(e)
          BY <1>1, <1>2, <1>3, PassedChildren DEF Fits
        <4> QED BY <1>1, <1>3, <4>1, <4>2 DEF Fits, PassedOver
      <3>2. CASE s.tasks[e.id].state # "acquired"
        <4>1. s.promises[e.id].state = "resolved"
          BY <1>5, <3>2
        <4>2. srv.promises[e.id].state = "resolved"
          BY <1>2, <1>3, <4>1 DEF Follows
        <4>3. srv.promises[c].state \in Settled
          BY <1>2, <4>2 DEF IInv, NoRemoteLeftBehind
        <4> QED BY <1>2, <1>3, <4>3 DEF Follows, Evolves
      <3> QED BY <3>1, <3>2
    <2> QED BY <1>2, <1>5, <2>1 DEF Follows, Evolves
  <1> DEFINE X == {e.id}
  <1>11. Follows(srv, new, X) /\ \A i \in X : Complete(new, i)
    BY <1>7, <1>10
  <1> HIDE DEF g, X, IInv
  <1> QED BY <1>1, <1>5, <1>9, <1>11, ContinueInv

LEMMA SuspendInv ==
    ASSUME IInv, NEW w \in Execution, Suspend(w)
    PROVE  IInv'
  <1> DEFINE e == exec[w]
             s == FreshAll({e.id} \cup e.todos)
             new == TaskSuspend(s, e.id, e.todos)
             again == [Run(new, e.id) EXCEPT !.version = e.version]
             g == CASE s.tasks[e.id].state # "acquired" -> Failed(e)
                    [] new.tasks[e.id].state = "suspended" -> Idle
                    [] OTHER -> again
  <1>1. /\ e.phase = "run" /\ e.todos # {} /\ Active(w)
        /\ Become(new, {}) /\ Continue(w, g)
    BY DEF Suspend, Active
  <1>2. /\ e \in Execs /\ e.id \in Id \ (Local \cup Timer) /\ clock \in {0, 1}
        /\ Inv(srv) /\ Children(e.id) \subseteq Id \ {e.id} /\ e.version \in Nat
        /\ {e.id} \cup e.todos \in SUBSET Id
    BY <1>1, ActiveFits DEF Execs
  <1>3. Sound(s, clock) /\ Inv(s) /\ Follows(srv, s, {}) /\ Fits(e, s)
    BY <1>1, <1>2, FreshFits
  <1> HIDE DEF s
  <1>4. /\ e.todos \in SUBSET (Id \ {e.id}) /\ e.todos \cap Local = {}
        /\ \A c \in e.todos : HasPromise(s, c)
    BY <1>2, <1>3 DEF Fits
  <1>5. Sound(new, clock) /\ Follows(s, new, {})
    BY <1>1, <1>2, <1>3, <1>4, SuspendSound
  <1> HIDE DEF new
  <1>6. Inv(new)
    BY <1>5 DEF Sound
  <1>7. Follows(srv, new, {})
    BY <1>2, <1>3, <1>5, <1>6, FollowsTransitive
  <1>8. Fits(e, new)
    BY <1>2, <1>3, <1>5, <1>6, FitsFollows
  <1>9. Goes(e, g, new)
    <2>1. Goes(e, Failed(e), new)
      BY <1>1, <1>2, <1>8, FailedFits
    <2>2. Goes(e, Idle, new)
      BY IdleType DEF Goes
    <2>3. Goes(e, again, new)
      <3> DEFINE i == e.id
                 v == e.version
      <3>1. 2 * v + 1 <= Rank(new, i)
        BY <1>8 DEF Fits
      <3>2. i \in Id \ (Local \cup Timer) /\ v \in Nat
        BY <1>2
      <3> HIDE DEF i, v
      <3>3. again = [phase |-> "run", id |-> i, version |-> v, pos |-> 1,
                     known |-> Preload(new, i),
                     done |-> Over(new, Preload(new, i)),
                     todos |-> {}, failed |-> FALSE]
        <4>1. again = [Run(new, i) EXCEPT !.version = v]
          BY DEF again, i, v
        <4> HIDE DEF again
        <4> QED BY <4>1 DEF Run
      <3> HIDE DEF again
      <3>4. /\ again \in Execs /\ Fits(again, new)
            /\ again.id = i /\ again.version = v
        BY <1>6, <3>1, <3>2, <3>3, RunFits
      <3> QED BY <3>4 DEF Goes, Stays, i, v
    <2>4. g = Failed(e) \/ g = Idle \/ g = again
      OBVIOUS
    <2> HIDE DEF g, again
    <2> QED BY <2>1, <2>2, <2>3, <2>4
  <1> DEFINE X == {}
  <1>10. Follows(srv, new, X) /\ \A i \in X : Complete(new, i)
    BY <1>7
  <1> HIDE DEF g, X, IInv
  <1> QED BY <1>1, <1>5, <1>9, <1>10, ContinueInv

LEMMA ReleaseTaskInv ==
    ASSUME IInv, NEW w \in Execution, ReleaseTask(w)
    PROVE  IInv'
  <1> DEFINE e == exec[w]
             s == FreshAll({e.id})
             new == TaskRelease(s, clock, e.id)
  <1>1. e.phase = "release" /\ Active(w) /\ Become(new, {}) /\ Continue(w, Idle)
    BY FreshOne DEF ReleaseTask, Active, Continue
  <1>2. e.id \in Id /\ clock \in {0, 1} /\ Inv(srv)
    BY <1>1, ActiveFits
  <1>3. Sound(s, clock) /\ Inv(s) /\ Follows(srv, s, {})
    BY <1>1, <1>2, FreshFits
  <1> HIDE DEF s
  <1>4. Sound(new, clock) /\ Follows(s, new, {})
    BY <1>2, <1>3, ReleaseSound
  <1> HIDE DEF new
  <1>5. Inv(new)
    BY <1>4 DEF Sound
  <1>6. Follows(srv, new, {})
    BY <1>2, <1>3, <1>4, <1>5, FollowsTransitive
  <1>7. Goes(e, Idle, new)
    BY IdleType DEF Goes
  <1> DEFINE X == {}
  <1>8. Follows(srv, new, X) /\ \A i \in X : Complete(new, i)
    BY <1>6
  <1> HIDE DEF X, IInv
  <1> QED BY <1>1, <1>4, <1>7, <1>8, ContinueInv

LEMMA FaultsInv ==
    ASSUME IInv, NEW w \in Execution, Lose(w) \/ Break(w) \/ Crash(w)
    PROVE  IInv'
  <1>1. Active(w) /\ UNCHANGED <<srv, mail, clock>> /\ \E kind : Fault(kind)
    BY DEF Lose, Break, Crash, Active
  <1>2. exec[w] \in Execs /\ Fits(exec[w], srv) /\ exec[w].phase # "idle"
    BY <1>1, ActiveFits
  <1>3. Goes(exec[w], Failed(exec[w]), srv)
    BY <1>2, FailedFits
  <1>4. Goes(exec[w], Release(exec[w]), srv)
    BY <1>2, ReleaseFits DEF Goes
  <1>5. Goes(exec[w], Idle, srv)
    BY IdleType DEF Goes
  <1>6. \E f : Goes(exec[w], f, srv) /\ exec' = [exec EXCEPT ![w] = f]
    BY <1>3, <1>4, <1>5 DEF Lose, Break, Crash
  <1> HIDE DEF IInv
  <1> QED BY <1>1, <1>6, GoesAloneInv

-----------------------------------------------------------------------------
(* The other steps *)

LEMMA StillInv ==
    ASSUME IInv, Sound(srv', clock'), Follows(srv, srv', {}), UNCHANGED exec,
           mail' \subseteq Id \X Nat, clock' \in {0, 1},
           faults' = faults \/ \E kind : Fault(kind)
    PROVE  IInv'
  <1>1. faults' \in 0 .. MaxFaults
    BY LifecycleAssumption DEF IInv, Fault
  <1>2. exec' \in [Execution -> Execs]
    BY DEF IInv
  <1> DEFINE X == {}
  <1>3. Follows(srv, srv', X) /\ \A i \in X : Complete(srv', i)
    OBVIOUS
  <1> HIDE DEF IInv, X
  <1> QED BY <1>1, <1>2, <1>3, StepInv

LEMMA MissInv ==
    ASSUME IInv, NEW m \in mail, Miss(m)
    PROVE  IInv'
  <1>1. Sound(srv', clock') /\ mail' \subseteq Id \X Nat /\ clock' \in {0, 1}
    BY DEF IInv, Miss
  <1>2. Follows(srv, srv', {})
    BY FollowsSame DEF IInv, Sound, Miss
  <1>3. UNCHANGED exec /\ \E kind : Fault(kind)
    BY DEF Miss
  <1> HIDE DEF IInv
  <1> QED BY <1>1, <1>2, <1>3, StillInv

LEMMA AdvanceInv ==
    ASSUME IInv, Advance
    PROVE  IInv'
  <1>1. Sound(srv', clock')
    BY DEF IInv, Advance, Sound, SleepsLast
  <1>2. Follows(srv, srv', {})
    BY FollowsSame DEF IInv, Sound, Advance
  <1>3. /\ mail' \subseteq Id \X Nat /\ clock' \in {0, 1}
        /\ UNCHANGED exec /\ faults' = faults
    BY DEF IInv, Advance
  <1> HIDE DEF IInv
  <1> QED BY <1>1, <1>2, <1>3, StillInv

LEMMA RunOutSound ==
    ASSUME clock \in {0, 1}, Sound(srv, clock), NEW due
    PROVE  LET s == [srv EXCEPT !.tTimeouts = [i \in Id |->
                        [@[i] EXCEPT !.at = IF i \in due THEN 0 ELSE clock + 1]]]
           IN  Sound(s, clock) /\ Follows(srv, s, {}) /\ LocalSame(srv, s)
  <1> DEFINE T == [i \in Id |-> [srv.tTimeouts[i] EXCEPT !.at =
                                    IF i \in due THEN 0 ELSE clock + 1]]
             s == [srv EXCEPT !.tTimeouts = T]
  <1>1. srv \in State
    BY DEF Sound, Inv
  <1>2. ASSUME NEW i \in Id
        PROVE  T[i] \in TTimeout /\ T[i].typ = srv.tTimeouts[i].typ
    <2> DEFINE at == IF i \in due THEN 0 ELSE clock + 1
    <2>1. srv.tTimeouts[i] \in TTimeout /\ at \in Nat
      BY <1>1, Fields
    <2>2. T[i] = [srv.tTimeouts[i] EXCEPT !.at = at]
      OBVIOUS
    <2> HIDE DEF at, T
    <2> QED BY <2>1, <2>2 DEF TTimeout
  <1>3. T \in [Id -> TTimeout] /\ \A i \in Id : T[i].typ = srv.tTimeouts[i].typ
    BY <1>2
  <1> HIDE DEF T
  <1>4. /\ s \in State
        /\ s.promises = srv.promises /\ s.pTimeouts = srv.pTimeouts
        /\ s.tasks = srv.tasks /\ s.tTimeouts = T
    BY <1>1, <1>3 DEF State
  <1> HIDE DEF s
  <1>5. Sound(s, clock) /\ Follows(srv, s, {}) /\ LocalSame(srv, s)
    BY <1>3, <1>4, RetimedSound
  <1> QED BY <1>5 DEF s, T

LEMMA TickLoopInv ==
    ASSUME IInv, NEW due, TickLoop(due)
    PROVE  IInv' /\ LocalSame(srv, srv')
  <1> DEFINE s == [srv EXCEPT !.tTimeouts = [i \in Id |->
                      [@[i] EXCEPT !.at = IF i \in due THEN 0 ELSE clock + 1]]]
             new == Tick(s, clock)
  <1>1. clock \in {0, 1} /\ Sound(srv, clock) /\ mail \subseteq Id \X Nat
    BY DEF IInv
  <1>2. Become(new, {})
    BY DEF TickLoop
  <1>3. Sound(s, clock) /\ Follows(srv, s, {}) /\ LocalSame(srv, s)
    BY <1>1, RunOutSound
  <1> HIDE DEF s
  <1>4. Sound(new, clock) /\ Follows(s, new, {}) /\ LocalSame(s, new)
    BY <1>1, <1>3, TickSound
  <1> HIDE DEF new
  <1>5. /\ Sound(srv', clock') /\ Follows(new, srv', {}) /\ LocalSame(new, srv')
        /\ mail' \subseteq Id \X Nat /\ clock' \in {0, 1}
    BY <1>1, <1>2, <1>4, BecomeSound
  <1>6. Inv(srv) /\ Inv(s) /\ Inv(new) /\ Inv(srv')
    BY <1>1, <1>3, <1>4, <1>5 DEF Sound
  <1>7. Follows(srv, new, {})
    BY <1>3, <1>4, <1>6, FollowsTransitive
  <1>8. Follows(srv, srv', {})
    BY <1>5, <1>6, <1>7, FollowsTransitive
  <1>9. UNCHANGED exec /\ (faults' = faults \/ \E kind : Fault(kind))
    BY DEF TickLoop
  <1>10. LocalSame(srv, srv')
    BY <1>3, <1>4, <1>5 DEF LocalSame
  <1> HIDE DEF IInv
  <1> QED BY <1>5, <1>8, <1>9, <1>10, StillInv

\* The version a task is acquired under is new: whoever worked on it did so
\* under an earlier one.
LEMMA BeginFits ==
    ASSUME IInv, NEW i \in Id, NEW s, Sound(s, clock), Follows(srv, s, {}),
           s.tasks[i].state = "pending",
           NEW new, Sound(new, clock), Acquires(s, new, i),
           NEW w \in Execution
    PROVE  LET f == Begin(new, i)
           IN  f \in Execs /\ (f # Idle => Fits(f, new) /\ Alone(w, f))
  <1> DEFINE f == Begin(new, i)
             v == new.tasks[i].version
             r == Run(new, i)
  <1>1. Inv(srv) /\ Inv(s) /\ Inv(new)
    BY DEF IInv, Sound
  <1>2. new.tasks[i].state = "acquired" /\ v = s.tasks[i].version /\ v \in Nat
    <2>1. new.tasks[i] \in Task
      BY <1>1, Fields DEF Inv
    <2> QED BY <2>1 DEF Acquires, Task
  <1>3. new.promises[i].state = "pending"
    BY <1>1, <1>2, AcquiredPending
  <1>4. f = IF new.promises[i].timer THEN Idle ELSE r
    BY <1>3 DEF Begin
  <1>5. CASE new.promises[i].timer
    BY <1>4, <1>5, IdleType
  <1>6. CASE ~ new.promises[i].timer
    <2>1. i \notin Timer
      BY <1>3, <1>6 DEF Sound, Tagged, HasPromise
    <2>2. i \notin Local
      BY <1>2 DEF Sound, LocalHidden, HasTask
    <2>3. r = [phase |-> "run", id |-> i, version |-> v, pos |-> 1,
               known |-> Preload(new, i), done |-> Over(new, Preload(new, i)),
               todos |-> {}, failed |-> FALSE]
      BY DEF Run
    <2>4. Rank(new, i) = 2 * v + 1 /\ Rank(s, i) = 2 * v
      BY <1>2 DEF Rank
    <2>5. r \in Execs /\ Fits(r, new) /\ r.id = i /\ r.version = v
      <3> HIDE DEF r, v
      <3>1. 2 * v + 1 <= Rank(new, i) /\ v \in Nat
        BY <1>2, <2>4
      <3> QED BY <1>1, <2>1, <2>2, <2>3, <3>1, RunFits
    <2>6. ASSUME NEW u \in Execution, Active(u), exec[u].id = i
          PROVE  exec[u].version # v
      <3>1. Fits(exec[u], srv) /\ exec[u].version \in Nat
        BY <2>6, ActiveFits DEF Execs
      <3>2. Rank(srv, i) \in Nat /\ Rank(s, i) >= Rank(srv, i)
            /\ 2 * exec[u].version + 1 <= Rank(srv, i)
        BY <1>1, <2>6, <3>1, RankNat DEF Follows, Evolves, Fits
      <3> HIDE DEF v
      <3> QED BY <1>2, <2>4, <3>1, <3>2
    <2>7. Alone(w, r)
      BY <2>5, <2>6 DEF Alone
    <2> HIDE DEF r
    <2> QED BY <1>4, <1>6, <2>5, <2>7
  <1> QED BY <1>5, <1>6

LEMMA ReceiveInv ==
    ASSUME IInv, NEW w \in Execution, NEW m \in mail, Receive(w, m)
    PROVE  IInv' /\ LocalSame(srv, srv')
  <1> DEFINE i == m[1]
             s == FreshAll({i})
             ready == s.tasks[i].state = "pending"
  <1>1. /\ clock \in {0, 1} /\ Sound(srv, clock) /\ mail \subseteq Id \X Nat
        /\ exec \in [Execution -> Execs] /\ i \in Id
    BY DEF IInv
  <1>2. PICK pid \in Pid :
          LET new == TaskAcquire(s, clock, i, pid, 1)
          IN  /\ Become(new, {m})
              /\ \/ /\ exec' = [exec EXCEPT ![w] =
                                   IF ready THEN Begin(new, i) ELSE Idle]
                    /\ UNCHANGED faults
                 \/ Fault("missed") /\ UNCHANGED exec
    BY FreshOne DEF Receive
  <1> DEFINE new == TaskAcquire(s, clock, i, pid, 1)
             g == IF ready THEN Begin(new, i) ELSE Idle
  <1>3. Sound(s, clock) /\ Follows(srv, s, {}) /\ LocalSame(srv, s)
    BY <1>1, FreshSound
  <1> HIDE DEF s, i
  <1>4. /\ Sound(new, clock) /\ Follows(s, new, {}) /\ LocalSame(s, new)
        /\ ready => Acquires(s, new, i)
    BY <1>1, <1>3, AcquireSound
  <1>5. /\ Become(new, {m})
        /\ \/ exec' = [exec EXCEPT ![w] = g] /\ UNCHANGED faults
           \/ Fault("missed") /\ UNCHANGED exec
    BY <1>2
  <1> HIDE DEF new
  <1>6. /\ Sound(srv', clock') /\ Follows(new, srv', {}) /\ LocalSame(new, srv')
        /\ mail' \subseteq Id \X Nat /\ clock' \in {0, 1}
    BY <1>1, <1>4, <1>5, BecomeSound
  <1>7. Inv(srv) /\ Inv(s) /\ Inv(new) /\ Inv(srv')
    BY <1>1, <1>3, <1>4, <1>6 DEF Sound
  <1>8. Follows(srv, new, {})
    BY <1>3, <1>4, <1>7, FollowsTransitive
  <1>9. Follows(srv, srv', {})
    BY <1>6, <1>7, <1>8, FollowsTransitive
  <1>10. LocalSame(srv, srv')
    BY <1>3, <1>4, <1>6 DEF LocalSame
  <1>11. g \in Execs /\ (g # Idle => Fits(g, new) /\ Alone(w, g))
    <2>1. CASE ready
      <3>1. g = Begin(new, i)
        BY <2>1
      <3> QED BY <1>1, <1>3, <1>4, <2>1, <3>1, BeginFits
    <2>2. CASE ~ ready
      <3>1. g = Idle
        BY <2>2
      <3> QED BY <3>1, IdleType
    <2> QED BY <2>1, <2>2
  <1> HIDE DEF g, ready
  <1>12. g # Idle => Fits(g, srv')
    BY <1>6, <1>7, <1>11, FitsFollows
  <1>13. CASE exec' = [exec EXCEPT ![w] = g] /\ UNCHANGED faults
    <2>1. /\ exec' \in [Execution -> Execs] /\ exec'[w] = g
          /\ \A v \in Execution : v # w => exec'[v] = exec[v]
      BY <1>1, <1>11, <1>13
    <2>2. faults' \in 0 .. MaxFaults
      BY <1>13 DEF IInv
    <2> DEFINE X == {}
    <2>3. Follows(srv, srv', X) /\ \A j \in X : Complete(srv', j)
      BY <1>9
    <2> HIDE DEF IInv, X
    <2> QED BY <1>6, <1>10, <1>11, <1>12, <2>1, <2>2, <2>3, StepInv
  <1>14. CASE Fault("missed") /\ UNCHANGED exec
    <2> HIDE DEF IInv
    <2> QED BY <1>6, <1>9, <1>10, <1>14, StillInv
  <1> QED BY <1>5, <1>13, <1>14

-----------------------------------------------------------------------------
(* The first state *)

\* The root is all there is.
LEMMA BornSound ==
    ASSUME NEW t, Inv(t), Evolves(Empty, t),
           \A i \in Id \ {Root} : Keeps(Empty, t, i),
           \/ Keeps(Empty, t, Root)
           \/ Opens(Empty, t, 0, Root, TagsOf(Root), 2)
    PROVE  /\ Sound(t, 0)
           /\ \A i \in Id : t.promises[i].state \in {"absent", "pending"}
  <1>1. Root \in Id /\ Root \notin Local /\ Root \notin Timer
        /\ Local \subseteq Id /\ Timer \subseteq Id
    BY LifecycleAssumption
  <1>2. \A i \in Id : ~ HasPromise(Empty, i)
    BY DEF Empty, HasPromise, NewPromise
  <1>3. \A i \in Id \ {Root} : ~ HasPromise(t, i)
    BY <1>2 DEF Keeps, HasPromise
  <1>4. \/ ~ HasPromise(t, Root)
        \/ /\ t.promises[Root].state = "pending"
           /\ t.promises[Root].target = TagsOf(Root).target
           /\ t.promises[Root].timer = TagsOf(Root).timer
           /\ t.promises[Root].timeoutAt = 2
    BY <1>1, <1>2 DEF Keeps, HasPromise, Opens
  <1>5. \A i \in Id : t.promises[i].state \in {"absent", "pending"}
    BY <1>3, <1>4 DEF HasPromise
  <1>6. Tagged(t)
    BY <1>1, <1>3, <1>4 DEF Tagged, TagsOf, DeadlineOf
  <1>7. LocalHidden(t)
    <2>1. \A i \in Id : HasTask(t, i) => i = Root
      BY <1>3 DEF Inv, TasksFollowPromises
    <2>2. \A i \in Local : t.promises[i].awaiters = {}
      BY <1>1, <1>3 DEF Inv, AwaitersLive, HasPromise
    <2> QED BY <1>1, <2>1, <2>2 DEF LocalHidden
  <1>8. SleepsLast(t, 0)
    BY <1>1, <1>5 DEF SleepsLast, Settled
  <1> QED BY <1>5, <1>6, <1>7, <1>8 DEF Sound

LEMMA RootTags ==
    /\ Root \in Id \ (Local \cup Timer) /\ TagsOf(Root) \in Tags
  BY LifecycleAssumption, TagsType

\* Root was created, and the executions are those of an initial state.
LEMMA FirstInv ==
    ASSUME NEW s, Sound(s, 0),
           \A i \in Id : s.promises[i].state \in {"absent", "pending"},
           srv = [Clear(s) EXCEPT !.tTimeouts =
                     [i \in Id |-> [typ |-> s.tTimeouts[i].typ, at |-> 0]]],
           mail \subseteq Id \X Nat, clock = 0, faults = 0,
           NEW f \in Execs, f # Idle => Fits(f, s),
           NEW w, exec = [v \in Execution |-> IF v = w THEN f ELSE Idle]
    PROVE  IInv
  <1>1. Sound(srv, 0) /\ Follows(s, srv, {}) /\ srv.promises = s.promises
    BY UntimedSound
  <1>2. Inv(s) /\ Inv(srv)
    BY <1>1 DEF Sound
  <1>3. exec \in [Execution -> Execs]
    BY IdleType
  <1>4. \A v \in Execution : exec[v] # Idle => Fits(exec[v], srv)
    BY <1>1, <1>2, FitsFollows
  <1>5. OneExecutionPerVersion
    <2>1. \A v \in Execution : Active(v) => v = w
      BY IdleType DEF Active
    <2> QED BY <2>1 DEF OneExecutionPerVersion
  <1>6. NoRemoteLeftBehind
    BY <1>1 DEF NoRemoteLeftBehind
  <1>7. Sound(srv, clock) /\ clock \in {0, 1} /\ faults \in 0 .. MaxFaults
    BY <1>1, LifecycleAssumption
  <1> QED BY <1>3, <1>4, <1>5, <1>6, <1>7 DEF IInv

LEMMA RpcInv ==
    ASSUME clock = 0, faults = 0,
           srv = [Clear(PromiseCreate(Empty, 0, Root, 2, TagsOf(Root)))
                     EXCEPT !.tTimeouts = [i \in Id |->
                  [typ |-> PromiseCreate(Empty, 0, Root, 2, TagsOf(Root)).tTimeouts[i].typ,
                   at |-> 0]]],
           mail = Announced(PromiseCreate(Empty, 0, Root, 2, TagsOf(Root))),
           exec = [w \in Execution |-> Idle]
    PROVE  IInv
  <1> DEFINE s == PromiseCreate(Empty, 0, Root, 2, TagsOf(Root))
  <1>1. Inv(Empty) /\ Root \in Id /\ TagsOf(Root) \in Tags /\ 0 \in Nat /\ 2 \in Nat
    BY EmptyInv, RootTags
  <1>2. Inv(s) /\ Evolves(Empty, s)
    BY <1>1, PromiseCreateInv
  <1>3. ~ HasPromise(Empty, Root)
    BY <1>1 DEF Empty, HasPromise, NewPromise
  <1>4. /\ \A i \in Id \ {Root} : Keeps(Empty, s, i)
        /\ Opens(Empty, s, 0, Root, TagsOf(Root), 2)
    BY <1>1, <1>3, CreateEffect
  <1> HIDE DEF s
  <1>5. /\ Sound(s, 0)
        /\ \A i \in Id : s.promises[i].state \in {"absent", "pending"}
    BY <1>2, <1>4, BornSound
  <1>6. mail \subseteq Id \X Nat
    BY <1>2, AnnouncedType DEF Inv, s
  <1>7. exec = [v \in Execution |-> IF v = Root THEN Idle ELSE Idle]
    OBVIOUS
  <1>8. srv = [Clear(s) EXCEPT !.tTimeouts =
                  [i \in Id |-> [typ |-> s.tTimeouts[i].typ, at |-> 0]]]
    BY DEF s
  <1> QED BY <1>5, <1>6, <1>7, <1>8, IdleType, FirstInv

LEMMA TaskRunInv ==
    ASSUME NEW pid \in Pid, NEW w \in Execution, clock = 0, faults = 0,
           NEW s, s = TaskCreate(Empty, 0, Root, 2, TagsOf(Root), pid, 1),
           srv = [Clear(s) EXCEPT !.tTimeouts =
                     [i \in Id |-> [typ |-> s.tTimeouts[i].typ, at |-> 0]]],
           mail = {},
           exec = [v \in Execution |-> IF v = w THEN Run(s, Root) ELSE Idle]
    PROVE  IInv
  <1>1. /\ Inv(Empty) /\ Root \in Id \ (Local \cup Timer) /\ TagsOf(Root) \in Tags
        /\ 0 \in Nat /\ 1 \in Nat /\ 2 \in Nat /\ Root \in Id
    BY EmptyInv, RootTags
  <1>2. Inv(s) /\ Evolves(Empty, s)
    BY <1>1, TaskCreateInv
  <1>3. /\ \A i \in Id \ {Root} : Keeps(Empty, s, i)
        /\ Keeps(Empty, s, Root) \/ Opens(Empty, s, 0, Root, TagsOf(Root), 2)
    BY <1>1, TaskCreateEffect
  <1>4. /\ Sound(s, 0)
        /\ \A i \in Id : s.promises[i].state \in {"absent", "pending"}
    BY <1>2, <1>3, BornSound
  <1>5. s.tasks[Root] = NewTask("acquired", pid, 1)
    <2>1. ~ HasTask(Empty, Root) /\ ~ HasPromise(Empty, Root)
      BY <1>1 DEF Empty, HasTask, HasPromise, NewTask, NewPromise
    <2> DEFINE p == PutPromise(Empty, Root,
                               NewPromise("pending", TagsOf(Root), 2, None))
               q == IF TagsOf(Root).target THEN SetPTimeout(p, Root, 2) ELSE p
    <2>2. s = SetTTimeout(PutTask(q, Root, NewTask("acquired", pid, 1)),
                          Root, "lease", SaturatingAdd(0, 1))
      BY <2>1 DEF TaskCreate
    <2>3. q.tasks = Empty.tasks /\ q \in State
      <3>1. NewPromise("pending", TagsOf(Root), 2, None) \in Promise
        BY <1>1, NewPromiseType DEF PromiseState
      <3>2. p \in State /\ p.tasks = Empty.tasks
        BY <1>1, <3>1 DEF PutPromise, Inv, State
      <3> HIDE DEF p
      <3>3. SetPTimeout(p, Root, 2) \in State
            /\ SetPTimeout(p, Root, 2).tasks = p.tasks
        BY <1>1, <3>2 DEF SetPTimeout, State
      <3> QED BY <3>2, <3>3
    <2> HIDE DEF q
    <2>4. s.tasks = [q.tasks EXCEPT ![Root] = NewTask("acquired", pid, 1)]
      BY <2>2, <2>3 DEF SetTTimeout, PutTask, State
    <2>5. Empty.tasks \in [Id -> Task]
      BY <1>1 DEF Inv, State
    <2> QED BY <1>1, <2>3, <2>4, <2>5
  <1> DEFINE f == Run(s, Root)
             v == s.tasks[Root].version
  <1>6. 2 * v + 1 <= Rank(s, Root) /\ v \in Nat
    BY <1>5 DEF Rank, NewTask
  <1>7. f = [phase |-> "run", id |-> Root, version |-> v, pos |-> 1,
             known |-> Preload(s, Root), done |-> Over(s, Preload(s, Root)),
             todos |-> {}, failed |-> FALSE]
    BY DEF Run
  <1>8. f \in Execs /\ Fits(f, s)
    <2> HIDE DEF f, v
    <2> QED BY <1>1, <1>2, <1>6, <1>7, RunFits
  <1>9. mail \subseteq Id \X Nat
    OBVIOUS
  <1> HIDE DEF f
  <1>10. exec = [u \in Execution |-> IF u = w THEN f ELSE Idle]
    BY DEF f
  <1> QED BY <1>4, <1>8, <1>9, <1>10, FirstInv

LEMMA InitInv == Init => IInv
  <1> SUFFICES ASSUME Init PROVE IInv
    OBVIOUS
  <1> DEFINE untimed(s) == [Clear(s) EXCEPT !.tTimeouts =
                               [i \in Id |-> [typ |-> s.tTimeouts[i].typ, at |-> 0]]]
             rpc == PromiseCreate(Empty, 0, Root, 2, TagsOf(Root))
             run(pid) == TaskCreate(Empty, 0, Root, 2, TagsOf(Root), pid, 1)
  <1>1. \/ /\ srv = untimed(rpc) /\ mail = Announced(rpc)
           /\ exec = [w \in Execution |-> Idle]
        \/ \E pid \in Pid, w \in Execution :
              /\ srv = untimed(run(pid)) /\ mail = {}
              /\ exec = [v \in Execution |->
                            IF v = w THEN Run(run(pid), Root) ELSE Idle]
    BY DEF Init
  <1>2. clock = 0 /\ faults = 0
    BY DEF Init
  <1>3. CASE /\ srv = untimed(rpc) /\ mail = Announced(rpc)
             /\ exec = [w \in Execution |-> Idle]
    BY <1>2, <1>3, RpcInv
  <1>4. CASE \E pid \in Pid, w \in Execution :
                /\ srv = untimed(run(pid)) /\ mail = {}
                /\ exec = [v \in Execution |->
                              IF v = w THEN Run(run(pid), Root) ELSE Idle]
    <2>1. PICK pid \in Pid, w \in Execution :
                /\ srv = untimed(run(pid)) /\ mail = {}
                /\ exec = [v \in Execution |->
                              IF v = w THEN Run(run(pid), Root) ELSE Idle]
      BY <1>4
    <2> DEFINE s == run(pid)
    <2>2. /\ s = TaskCreate(Empty, 0, Root, 2, TagsOf(Root), pid, 1)
          /\ srv = untimed(s) /\ mail = {}
          /\ exec = [v \in Execution |-> IF v = w THEN Run(s, Root) ELSE Idle]
      BY <2>1
    <2> HIDE DEF s
    <2> QED BY <1>2, <2>2, TaskRunInv
  <1> QED BY <1>1, <1>3, <1>4

-----------------------------------------------------------------------------
(* The fence *)

\* A fenced request of an execution that lost its lease does nothing.
LEMMA FenceHolds ==
    ASSUME IInv, NEW w \in Execution, Call(w) \/ SettleChild(w),
           ~ HoldsLease(srv, exec[w].id, exec[w].version)
    PROVE  LocalSame(srv, srv')
  <1> DEFINE e == exec[w]
             c == Calls[e.id][e.pos]
             s == FreshAll({e.id, c})
             create == TaskFenceCreate(s, clock, e.id, e.version, c,
                                       DeadlineOf(c), TagsOf(c))
             settle == TaskFenceSettle(s, clock, e.id, e.version, c, "resolved")
  <1>1. /\ Active(w) /\ ~ Replayed(e)
    <2>1. Active(w)
      BY DEF Call, SettleChild, Active
    <2>2. e.phase = "settle" => ~ Replayed(e)
      BY <2>1, ActiveFits DEF Fits
    <2> QED BY <2>1, <2>2 DEF Call, SettleChild
  <1>2. /\ e.id \in Id /\ c \in Id /\ clock \in {0, 1}
        /\ mail \subseteq Id \X Nat
    BY <1>1, ActiveFits DEF IInv
  <1>3. Sound(s, clock) /\ LocalSame(srv, s) /\ NoNewLease(srv, s)
    BY <1>1, <1>2, FreshFits
  <1>4. ~ HoldsLease(s, e.id, e.version)
    BY <1>2, <1>3 DEF NoNewLease
  <1>5. create = s /\ settle = s
    BY <1>4 DEF TaskFenceCreate, TaskFenceSettle
  <1>6. UNCHANGED srv \/ Become(create, {}) \/ Become(settle, {})
    BY DEF Call, SettleChild
  <1> HIDE DEF s, create, settle
  <1>7. UNCHANGED srv \/ Become(s, {})
    BY <1>5, <1>6
  <1>8. CASE Become(s, {})
    BY <1>2, <1>3, <1>8, BecomeSound DEF LocalSame
  <1>9. CASE UNCHANGED srv
    BY <1>9 DEF LocalSame
  <1> QED BY <1>7, <1>8, <1>9

\* Ending an execution touches no local child.
LEMMA EndSame ==
    ASSUME IInv, NEW w \in Execution, Fulfill(w) \/ Suspend(w) \/ ReleaseTask(w)
    PROVE  LocalSame(srv, srv')
  <1> DEFINE e == exec[w]
             s == FreshAll({e.id})
             r == FreshAll({e.id} \cup e.todos)
             fulfill == TaskFulfill(s, clock, e.id, Outcome(e))
             suspend == TaskSuspend(r, e.id, e.todos)
             release == TaskRelease(s, clock, e.id)
  <1>1. Active(w)
    BY DEF Fulfill, Suspend, ReleaseTask, Active
  <1>2. /\ e.id \in Id \ (Local \cup Timer) /\ clock \in {0, 1}
        /\ Children(e.id) \subseteq Id \ {e.id}
        /\ e.todos \in SUBSET Id /\ {e.id} \cup e.todos \in SUBSET Id
        /\ mail \subseteq Id \X Nat
    BY <1>1, ActiveFits DEF IInv, Execs
  <1>3. /\ Sound(s, clock) /\ LocalSame(srv, s)
        /\ s.promises[e.id].state = "pending" =>
              clock < s.promises[e.id].timeoutAt
    BY <1>1, <1>2, FreshFits
  <1>4. Sound(r, clock) /\ LocalSame(srv, r) /\ Fits(e, r)
    BY <1>1, <1>2, FreshFits
  <1>5. \/ Become(fulfill, {})
        \/ e.todos # {} /\ Become(suspend, {})
        \/ Become(release, {})
    BY FreshOne DEF Fulfill, Suspend, ReleaseTask
  <1> HIDE DEF s, r
  <1>6. CASE Become(fulfill, {})
    <2> DEFINE i == e.id
               outcome == Outcome(e)
               new == TaskFulfill(s, clock, i, outcome)
    <2>1. /\ i \in Id \ (Local \cup Timer) /\ outcome \in SettleState
          /\ s.promises[i].state = "pending" => clock < s.promises[i].timeoutAt
      BY <1>2, <1>3 DEF Outcome, SettleState
    <2>2. Become(new, {})
      BY <1>6
    <2> HIDE DEF i, outcome
    <2>3. Sound(new, clock) /\ LocalSame(s, new)
      BY <1>2, <1>3, <2>1, FulfillSound
    <2> HIDE DEF new
    <2>4. LocalSame(new, srv')
      BY <1>2, <2>2, <2>3, BecomeSound
    <2> QED BY <1>3, <2>3, <2>4 DEF LocalSame
  <1>7. CASE e.todos # {} /\ Become(suspend, {})
    <2>1. /\ e.todos \in SUBSET (Id \ {e.id}) /\ e.todos \cap Local = {}
          /\ \A c \in e.todos : HasPromise(r, c)
      BY <1>2, <1>4 DEF Fits
    <2>2. Sound(suspend, clock) /\ LocalSame(r, suspend)
      BY <1>2, <1>4, <1>7, <2>1, SuspendSound
    <2> HIDE DEF suspend
    <2>3. LocalSame(suspend, srv')
      BY <1>2, <1>7, <2>2, BecomeSound
    <2> QED BY <1>4, <2>2, <2>3 DEF LocalSame
  <1>8. CASE Become(release, {})
    <2>1. Sound(release, clock) /\ LocalSame(s, release)
      BY <1>2, <1>3, ReleaseSound
    <2> HIDE DEF release
    <2>2. LocalSame(release, srv')
      BY <1>2, <1>8, <2>1, BecomeSound
    <2> QED BY <1>3, <2>1, <2>2 DEF LocalSame
  <1> QED BY <1>5, <1>6, <1>7, <1>8

-----------------------------------------------------------------------------
(* Every step, and the theorems *)

LEMMA NextInv ==
    ASSUME IInv, [Next]_vars
    PROVE  IInv'
  <1>1. CASE UNCHANGED vars
    BY <1>1 DEF vars, IInv, OneExecutionPerVersion, NoRemoteLeftBehind, Active
  <1>2. CASE \E i \in Id : Take(i)
    <2> HIDE DEF IInv
    <2> QED BY <1>2, ReceiveInv DEF Take
  <1>3. CASE \E m \in mail : Miss(m)
    BY <1>3, MissInv
  <1>4. ASSUME NEW w \in Execution, Work(w) \/ Lose(w) \/ Break(w) \/ Crash(w)
        PROVE  IInv'
    BY <1>4, CallInv, SettleChildInv, FulfillInv, SuspendInv, ReleaseTaskInv,
       FaultsInv DEF Work
  <1>5. CASE \E due \in SUBSET Id : TickLoop(due)
    BY <1>5, TickLoopInv
  <1>6. CASE Advance
    BY <1>6, AdvanceInv
  <1> QED BY <1>1, <1>2, <1>3, <1>4, <1>5, <1>6 DEF Next

LEMMA AlwaysIInv == Spec => []IInv
  <1>1. Init => IInv
    BY InitInv
  <1>2. IInv /\ [Next]_vars => IInv'
    BY NextInv
  <1> QED BY <1>1, <1>2, PTL DEF Spec

\* Type correctness: whatever workflows, faults and interleavings, the server
\* keeps its shape, a replay stays within the calls of its workflow, only local
\* children are settled by it, and only remote ones become todos.
THEOREM TypeCorrect == Spec => []TypeOK
  <1>1. IInv => TypeOK
    <2> SUFFICES ASSUME IInv PROVE TypeOK
      OBVIOUS
    <2>1. /\ srv \in State /\ mail \subseteq Id \X Nat
          /\ exec \in [Execution -> Execs]
          /\ clock \in {0, 1} /\ faults \in 0 .. MaxFaults
      BY DEF IInv, Sound, Inv
    <2>2. ASSUME NEW w \in Execution
          PROVE  LET e == exec[w] IN
                   /\ e.pos <= Len(Calls[e.id]) + 1
                   /\ e.phase = "settle" => Calls[e.id][e.pos] \in Local
                   /\ e.todos \subseteq Children(e.id) \ Local
                   /\ e.failed => Replayed(e)
      <3>1. CASE exec[w] = Idle
        <4>1. Len(Calls[Root]) \in Nat
          BY CallsFacts, LifecycleAssumption
        <4>2. /\ Idle.pos = 0 /\ Idle.id = Root /\ Idle.phase = "idle"
              /\ Idle.todos = {} /\ ~ Idle.failed
          BY DEF Idle
        <4> QED BY <3>1, <4>1, <4>2
      <3>2. CASE exec[w] # Idle
        <4>1. Fits(exec[w], srv) /\ exec[w] \in Execs
          BY <2>1, <3>2 DEF IInv
        <4>2. exec[w].id \in Id /\ exec[w].pos \in Nat
          BY <4>1 DEF Execs
        <4>3. Len(Calls[exec[w].id]) \in Nat
          BY <4>2, CallsFacts
        <4> QED BY <4>1, <4>2, <4>3 DEF Fits
      <3> QED BY <3>1, <3>2
    <2> QED BY <2>1, <2>2 DEF TypeOK, Execs
  <1> QED BY <1>1, AlwaysIInv, PTL

\* No two executions ever work on one task under the same version: the version
\* an execution fences its writes with is its own, however messages are
\* duplicated, leases lapse and workers crash.
THEOREM VersionsAreExclusive == Spec => []OneExecutionPerVersion
  <1>1. IInv => OneExecutionPerVersion
    BY DEF IInv
  <1> QED BY <1>1, AlwaysIInv, PTL

\* A workflow that resolves has left no remote child and no sleep unsettled,
\* in whatever run of the function each of them was created.
THEOREM NothingLeftBehind == Spec => []NoRemoteLeftBehind
  <1>1. IInv => NoRemoteLeftBehind
    BY DEF IInv
  <1> QED BY <1>1, AlwaysIInv, PTL

\* No worker and no request ends a durable sleep before its deadline.
THEOREM SleepsLastTheirTime == Spec => []SleepNotCutShort
  <1>1. IInv => SleepNotCutShort
    BY DEF IInv, Sound, SleepsLast, SleepNotCutShort
  <1> QED BY <1>1, AlwaysIInv, PTL

\* An execution whose lease is lost neither creates nor settles a local child in
\* any step it takes, whatever it still believes.
THEOREM FencedWritesHold == Spec => FencedWrites
  <1> DEFINE Fenced == \A w \in Execution :
                (/\ exec[w].phase \in {"run", "settle"}
                 /\ exec'[w] # exec[w]
                 /\ ~ HoldsLease(srv, exec[w].id, exec[w].version))
                => \A c \in Local : srv'.promises[c] = srv.promises[c]
  <1>1. ASSUME IInv, [Next]_vars
        PROVE  [Fenced]_vars
    <2> SUFFICES ASSUME NEW w \in Execution, exec'[w] # exec[w],
                        ~ HoldsLease(srv, exec[w].id, exec[w].version)
                 PROVE  LocalSame(srv, srv')
      BY DEF LocalSame
    <2>1. UNCHANGED srv => LocalSame(srv, srv')
      BY DEF LocalSame
    <2>2. CASE UNCHANGED vars
      BY <2>1, <2>2 DEF vars
    <2>3. CASE \E i \in Id : Take(i)
      BY <1>1, <2>3, ReceiveInv DEF Take
    <2>4. CASE (\E m \in mail : Miss(m)) \/ Advance
      BY <2>1, <2>4 DEF Miss, Advance
    <2>5. ASSUME NEW v \in Execution,
                 Work(v) \/ Lose(v) \/ Break(v) \/ Crash(v)
          PROVE  LocalSame(srv, srv')
      <3>1. CASE Lose(v) \/ Break(v) \/ Crash(v)
        BY <2>1, <3>1 DEF Lose, Break, Crash
      <3>2. CASE Fulfill(v) \/ Suspend(v) \/ ReleaseTask(v)
        BY <1>1, <3>2, EndSame
      <3>3. CASE Call(v) \/ SettleChild(v)
        <4>1. \E f : exec' = [exec EXCEPT ![v] = f]
          BY <3>3 DEF Call, SettleChild, Continue
        <4>2. v = w
          BY <1>1, <4>1 DEF IInv
        <4> QED BY <1>1, <3>3, <4>2, FenceHolds
      <3> QED BY <2>5, <3>1, <3>2, <3>3 DEF Work
    <2>6. CASE \E due \in SUBSET Id : TickLoop(due)
      BY <1>1, <2>6, TickLoopInv
    <2> QED BY <1>1, <2>2, <2>3, <2>4, <2>5, <2>6 DEF Next
  <1>2. IInv /\ [Next]_vars => [Fenced]_vars
    BY <1>1
  <1> HIDE DEF Fenced
  <1>3. Spec => [][Fenced]_vars
    BY <1>2, AlwaysIInv, PTL DEF Spec
  <1> QED BY <1>3 DEF FencedWrites, Fenced
=============================================================================
