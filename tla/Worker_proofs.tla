---------------------------- MODULE Worker_proofs ----------------------------
(***************************************************************************)
(* The safety properties of the two small components of a worker process,  *)
(* for any number of ops, attempts, tasks and executions.                  *)
(*                                                                         *)
(* CreationSequencer: the inductive invariant adds what the properties     *)
(* leave out: a request on its way has its predecessors on the server, and *)
(* only an inline op, or an op of an attempt that panicked, is ever        *)
(* dropped.  Heartbeat: the table names only leases under execution, and   *)
(* the loop is never leaked.                                               *)
(***************************************************************************)
EXTENDS CreationSequencer, Heartbeat, TLAPS

RequestsInOrder == \A i \in requests : \A j \in Slot : j < i => j \in server
DroppedInline ==
    \A i \in Slot : state[i] = "dropped" => kind[i] = "inline" \/ mode = "failed"
FinishedCreated ==
    mode = "finished" => \A i \in Slot : kind[i] = "spawn" => state[i] = "created"

IInv ==
    /\ TypeOK
    /\ CallOrderPrefix
    /\ SuccessGated
    /\ IdConfirmed
    /\ RequestsInOrder
    /\ DroppedInline
    /\ FinishedCreated

\* The first state satisfies the inductive invariant.
LEMMA InitIInv == Init => IInv
  BY SequencerAssumption, SMT DEF Init, IInv, TypeOK, CallOrderPrefix, SuccessGated,
     IdConfirmed, RequestsInOrder, DroppedInline, FinishedCreated, Claimed,
     Slot, Kind, SlotState, Mode

\* Dropping futures changes no slot that is created.
LEMMA DropAllFacts ==
    ASSUME TypeOK, NEW S, DropAll(S)
    PROVE  /\ state' \in [Slot -> SlotState]
           /\ \A i \in Slot : /\ state'[i] \in {state[i], "dropped"}
                              /\ state[i] = "created" => state'[i] = "created"
                              /\ state'[i] # state[i] => i \in S
                              /\ Claimed(i) <=> Claimed(i)'
  BY DEF TypeOK, DropAll, Open, SlotState, Claimed

\* A step that only lets futures go preserves the inductive invariant, if it
\* drops nothing that was spawned, or fails the attempt.
LEMMA DropInv ==
    ASSUME IInv, NEW S, DropAll(S), mode = "running", mode' \in Mode \ {"finished"},
           (\A i \in S : kind[i] = "inline") \/ mode' = "failed",
           UNCHANGED <<kind, on, requests, server, attempt>>
    PROVE  IInv'
<1>1. /\ state' \in [Slot -> SlotState]
      /\ \A i \in Slot : /\ state'[i] \in {state[i], "dropped"}
                         /\ state[i] = "created" => state'[i] = "created"
                         /\ state'[i] # state[i] => i \in S
                         /\ Claimed(i) <=> Claimed(i)'
  BY DropAllFacts DEF IInv
<1>2. TypeOK'
  BY <1>1 DEF IInv, TypeOK
<1>3. CallOrderPrefix' /\ RequestsInOrder'
  BY DEF IInv, CallOrderPrefix, RequestsInOrder
<1>4. SuccessGated' /\ IdConfirmed'
  BY <1>1 DEF IInv, SuccessGated, IdConfirmed
<1>5. DroppedInline' /\ FinishedCreated'
  BY <1>1 DEF IInv, DroppedInline, FinishedCreated
<1> QED
  BY <1>2, <1>3, <1>4, <1>5 DEF IInv

\* Every step of the function, of a slot, of the network preserves it.
LEMMA NextIInv == IInv /\ [Next]_vars => IInv'
<1> SUFFICES ASSUME IInv, [Next]_vars PROVE IInv'
  OBVIOUS
<1> USE SequencerAssumption
<1>1. ASSUME NEW i \in Slot, Claim(i) PROVE IInv'
  <2>1. PICK k \in {"spawn", "inline"} : kind' = [kind EXCEPT ![i] = k]
    BY <1>1 DEF Claim
  <2>2. /\ TypeOK
        /\ state' = [state EXCEPT ![i] = "inflight"]
        /\ state[i] = "unclaimed" /\ mode = "running"
        /\ UNCHANGED <<mode, on, requests, server, attempt>>
    BY <1>1 DEF Claim, Claimed, IInv
  <2>3. TypeOK'
    BY <2>1, <2>2 DEF TypeOK, Claimed, Kind, SlotState
  <2>4. CallOrderPrefix' /\ RequestsInOrder'
    BY <2>2 DEF IInv, CallOrderPrefix, RequestsInOrder
  <2>5. SuccessGated'
    BY <2>2 DEF IInv, SuccessGated, TypeOK
  <2>6. IdConfirmed' /\ DroppedInline' /\ FinishedCreated'
    BY <2>1, <2>2 DEF IInv, IdConfirmed, DroppedInline, FinishedCreated, TypeOK
  <2> QED
    BY <2>3, <2>4, <2>5, <2>6 DEF IInv
<1>2. ASSUME NEW S \in SUBSET Slot, Await(S) PROVE IInv'
  BY <1>2 DEF Await, IInv, TypeOK, Claimed, CallOrderPrefix, SuccessGated,
     IdConfirmed,
     RequestsInOrder, DroppedInline, FinishedCreated, Mode
<1>3. CASE Resume
  BY <1>3 DEF Resume, IInv, TypeOK, Claimed, CallOrderPrefix, SuccessGated,
     IdConfirmed,
     RequestsInOrder, DroppedInline, FinishedCreated, Mode
<1>4. CASE Return
  <2>1. DropAll({j \in Slot : kind[j] = "inline"})
    BY <1>4 DEF Return
  <2>2. /\ mode = "running" /\ mode' = "flushing"
        /\ UNCHANGED <<kind, on, requests, server, attempt>>
    BY <1>4 DEF Return
  <2> QED
    BY <2>1, <2>2, DropInv DEF Mode
<1>5. CASE Panic
  BY <1>5, DropInv DEF Panic, Mode
<1>6. CASE Flush
  <2>1. /\ mode = "flushing"
        /\ \A j \in Slot : kind[j] = "spawn" => ~Open(j)
        /\ mode' = FlushResult
        /\ UNCHANGED <<kind, state, on, requests, server, attempt>>
    BY <1>6 DEF Flush
  <2>2. TypeOK'
    BY <2>1 DEF IInv, TypeOK, Claimed, FlushResult, Mode
  <2>3. CallOrderPrefix' /\ RequestsInOrder' /\ SuccessGated' /\ IdConfirmed'
    BY <2>1 DEF IInv, CallOrderPrefix, RequestsInOrder, SuccessGated, IdConfirmed
  <2>4. DroppedInline'
    BY <2>1 DEF IInv, DroppedInline
  <2>5. FinishedCreated'
    <3> SUFFICES ASSUME mode' = "finished", NEW j \in Slot, kind[j] = "spawn"
                 PROVE  state[j] = "created"
      BY <2>1 DEF FinishedCreated
    <3>1. state[j] # "failed"
      BY <2>1 DEF FlushResult
    <3>2. state[j] # "dropped" /\ state[j] # "unclaimed"
      BY <2>1 DEF IInv, DroppedInline, TypeOK, Claimed
    <3> QED
      BY <2>1, <3>1, <3>2 DEF IInv, TypeOK, SlotState, Open
  <2> QED
    BY <2>2, <2>3, <2>4, <2>5 DEF IInv
<1>7. CASE Retry
  BY <1>7 DEF Retry, IInv, TypeOK, Claimed, CallOrderPrefix, SuccessGated,
     IdConfirmed,
     RequestsInOrder, DroppedInline, FinishedCreated, Kind, SlotState, Mode
<1>8. ASSUME NEW i \in Slot, Drop(i) PROVE IInv'
  BY <1>8, DropInv DEF Drop, Mode
<1>9. ASSUME NEW i \in Slot, Call(i) PROVE IInv'
  <2>1. /\ TypeOK
        /\ state[i] = "inflight"
        /\ state' = [state EXCEPT ![i] = "calling"]
        /\ requests' = requests \cup {i}
        /\ UNCHANGED <<kind, mode, on, server, attempt>>
    BY <1>9 DEF Call, IInv
  <2>2. \A j \in Slot : j < i => state[j] = "created"
    <3>1. CASE i = 1
      BY <3>1 DEF Slot
    <3>2. CASE i # 1
      <4>1. i - 1 \in Slot /\ state[i - 1] = "created"
        BY <3>2, <1>9 DEF Call, Predecessor, Slot
      <4> QED
        BY <4>1 DEF IInv, SuccessGated, Slot
    <3> QED
      BY <3>1, <3>2
  <2>3. TypeOK'
    BY <2>1 DEF TypeOK, Claimed, SlotState
  <2>4. CallOrderPrefix' /\ IdConfirmed'
    BY <2>1 DEF IInv, CallOrderPrefix, IdConfirmed, TypeOK
  <2>5. SuccessGated'
    BY <2>1, <2>2 DEF IInv, SuccessGated, TypeOK
  <2>6. RequestsInOrder'
    BY <2>1, <2>2 DEF IInv, RequestsInOrder, IdConfirmed
  <2>7. DroppedInline' /\ FinishedCreated'
    BY <2>1 DEF IInv, DroppedInline, FinishedCreated, TypeOK
  <2> QED
    BY <2>3, <2>4, <2>5, <2>6, <2>7 DEF IInv
<1>10. ASSUME NEW i \in Slot, NEW new \in {"failed", "created"},
              state[i] \in {"inflight", "calling"},
              new = "created" => state[i] = "calling" /\ i \in server,
              state' = [state EXCEPT ![i] = new],
              UNCHANGED <<kind, mode, on, requests, server, attempt>>
       PROVE  IInv'
  <2>1. TypeOK /\ TypeOK'
    BY <1>10 DEF IInv, TypeOK, Claimed, SlotState
  <2>2. CallOrderPrefix' /\ RequestsInOrder'
    BY <1>10 DEF IInv, CallOrderPrefix, RequestsInOrder
  <2>3. SuccessGated' /\ IdConfirmed'
    BY <2>1, <1>10 DEF IInv, SuccessGated, IdConfirmed, TypeOK
  <2>4. DroppedInline' /\ FinishedCreated'
    BY <2>1, <1>10 DEF IInv, DroppedInline, FinishedCreated, TypeOK
  <2> QED
    BY <2>1, <2>2, <2>3, <2>4 DEF IInv
<1>11. ASSUME NEW i \in Slot, AbortSlot(i) PROVE IInv'
  BY <1>10, <1>11 DEF AbortSlot
<1>12. ASSUME NEW i \in Slot, Answer(i) PROVE IInv'
  BY <1>10, <1>12 DEF Answer, Confirmed
<1>13. ASSUME NEW i \in Slot, Fail(i) PROVE IInv'
  BY <1>10, <1>13 DEF Fail
<1>14. ASSUME NEW i \in Slot, Arrive(i) PROVE IInv'
  BY <1>14 DEF Arrive, IInv, TypeOK, Claimed, CallOrderPrefix, SuccessGated,
     IdConfirmed,
     RequestsInOrder, DroppedInline, FinishedCreated
<1>15. ASSUME NEW i \in Slot, Lose(i) PROVE IInv'
  BY <1>15 DEF Lose, IInv, TypeOK, Claimed, CallOrderPrefix, SuccessGated,
     IdConfirmed,
     RequestsInOrder, DroppedInline, FinishedCreated
<1>16. CASE UNCHANGED vars
  BY <1>16 DEF vars, IInv, TypeOK, Claimed, CallOrderPrefix, SuccessGated,
     IdConfirmed,
     RequestsInOrder, DroppedInline, FinishedCreated
<1>17. CASE Function
  BY <1>17, <1>1, <1>2, <1>3, <1>4, <1>6 DEF Function
<1> QED
  BY <1>17, <1>5, <1>7, <1>8, <1>9, <1>11, <1>12, <1>13, <1>14, <1>15, <1>16
  DEF Next, Gate, Reply

\* Every reachable state satisfies the inductive invariant.
THEOREM Inductive == Spec => []IInv
  BY InitIInv, NextIInv, PTL DEF Spec

\* Slots keep their shape, and exactly the claimed ones have a kind.
THEOREM TypeCorrect == Spec => []TypeOK
<1>1. IInv => TypeOK
  BY DEF IInv
<1> QED
  BY Inductive, <1>1, PTL

\* The promises a workflow created are a prefix of its calls, over all attempts
\* and whatever was lost, late or aborted (the comment of create).
THEOREM PrefixKept == Spec => []CallOrderPrefix
<1>1. IInv => CallOrderPrefix
  BY DEF IInv
<1> QED
  BY Inductive, <1>1, PTL

\* No slot calls the server after a slot that is not created.
THEOREM OnlyAfterSuccess == Spec => []SuccessGated
<1>1. IInv => SuccessGated
  BY DEF IInv
<1> QED
  BY Inductive, <1>1, PTL

\* A handle's id names a promise that exists.
THEOREM IdsConfirmed == Spec => []IdConfirmed
<1>1. IInv => IdConfirmed
  BY DEF IInv
<1> QED
  BY Inductive, <1>1, PTL

\* No attempt settles or suspends with a spawned promise that does not exist.
THEOREM SpawnsNeverLost == Spec => []NoLostSpawn
<1>1. IInv => NoLostSpawn
  BY DEF IInv, NoLostSpawn, FinishedCreated, IdConfirmed
<1> QED
  BY Inductive, <1>1, PTL

-----------------------------------------------------------------------------
(* Heartbeat *)

\* The loop runs only while some execution is between start and the end of stop.
LoopNeeded ==
    loop => \E w \in Execution : exec[w].phase \in {"starting", "running", "stopping"}

\* No two executions work on one task under one version.
OwnVersion ==
    \A v, w \in Execution :
        /\ v # w
        /\ exec[v].phase # "idle" /\ exec[w].phase # "idle"
        /\ exec[v].task = exec[w].task
        => exec[v].version # exec[w].version

HeartbeatInv ==
    /\ HBTypeOK /\ TrackedIsExecuting /\ EntryKept
    /\ LoopNeeded /\ OwnVersion

\* The first state satisfies the inductive invariant.
LEMMA HeartbeatInit == HBInit => HeartbeatInv
<1> SUFFICES ASSUME HBInit PROVE HeartbeatInv
  OBVIOUS
<1>1. \A w \in Execution : exec[w].phase = "idle"
  BY DEF HBInit
<1>2. exec \in [Execution -> [phase : Phase, task : Task, version : Nat]]
  BY DEF HBInit, Phase
<1>0. issued = [t \in Task |-> 0] /\ tracked = [t \in Task |-> -1]
  BY DEF HBInit, None
<1>3. issued \in [Task -> 0 .. MaxVersion] /\ tracked \in [Task -> Nat \cup {None}]
  BY <1>0, HeartbeatAssumption DEF None
<1>4. \A t \in Task : tracked[t] < issued[t]
  <2> SUFFICES ASSUME NEW t \in Task PROVE tracked[t] < issued[t]
    OBVIOUS
  <2>1. tracked[t] = -1 /\ issued[t] = 0
    BY <1>0
  <2> QED
    BY <2>1
<1>5. loop = FALSE /\ shut = "open"
  BY DEF HBInit
<1>6. HBTypeOK
  BY <1>1, <1>2, <1>3, <1>4, <1>5 DEF HBTypeOK
<1>7. TrackedIsExecuting /\ LoopNeeded
  BY <1>5 DEF HBInit, TrackedIsExecuting, LoopNeeded
<1>8. OwnVersion /\ EntryKept
  BY <1>1 DEF OwnVersion, EntryKept
<1> QED
  BY <1>6, <1>7, <1>8 DEF HeartbeatInv

\* Every call of start, stop and shutdown preserves it.
LEMMA HeartbeatNext == HeartbeatInv /\ [HBNext]_hbVars => HeartbeatInv'
<1> SUFFICES ASSUME HeartbeatInv, [HBNext]_hbVars PROVE HeartbeatInv'
  OBVIOUS
<1> USE HeartbeatAssumption DEF Phase, None, Goto
<1>1. ASSUME NEW w \in Execution, NEW t \in Task, Acquire(w, t) PROVE HeartbeatInv'
  <2>1. HBTypeOK'
    BY <1>1 DEF Acquire, HeartbeatInv, HBTypeOK
  <2>2. TrackedIsExecuting' /\ LoopNeeded'
    BY <1>1 DEF Acquire, HeartbeatInv, HBTypeOK, TrackedIsExecuting,
       LoopNeeded
  <2>8. OwnVersion'
    BY <1>1 DEF Acquire, HeartbeatInv, HBTypeOK, OwnVersion
  <2>9. EntryKept'
    BY <1>1, <2>8 DEF Acquire, HeartbeatInv, HBTypeOK, OwnVersion, EntryKept
  <2> QED
    BY <2>1, <2>2, <2>8, <2>9 DEF HeartbeatInv
<1>2. ASSUME NEW w \in Execution, StartInsert(w) PROVE HeartbeatInv'
  <2>1. HBTypeOK'
    BY <1>2 DEF StartInsert, Track, HeartbeatInv, HBTypeOK
  <2>2. TrackedIsExecuting' /\ LoopNeeded'
    BY <1>2 DEF StartInsert, Track, HeartbeatInv, HBTypeOK,
       TrackedIsExecuting, LoopNeeded
  <2>8. OwnVersion'
    BY <1>2 DEF StartInsert, HeartbeatInv, HBTypeOK, OwnVersion
  <2>9. EntryKept'
    BY <1>2, <2>8 DEF StartInsert, Track, HeartbeatInv, HBTypeOK,
       OwnVersion, EntryKept
  <2> QED
    BY <2>1, <2>2, <2>8, <2>9 DEF HeartbeatInv
<1>3. ASSUME NEW w \in Execution, StartLoop(w) PROVE HeartbeatInv'
  <2>1. HBTypeOK'
    BY <1>3 DEF StartLoop, HeartbeatInv, HBTypeOK
  <2>2. TrackedIsExecuting' /\ LoopNeeded'
    BY <1>3 DEF StartLoop, HeartbeatInv, HBTypeOK, TrackedIsExecuting,
       LoopNeeded
  <2>8. OwnVersion'
    BY <1>3 DEF StartLoop, HeartbeatInv, HBTypeOK, OwnVersion
  <2>9. EntryKept'
    BY <1>3, <2>8 DEF StartLoop, HeartbeatInv, HBTypeOK, OwnVersion, EntryKept
  <2> QED
    BY <2>1, <2>2, <2>8, <2>9 DEF HeartbeatInv
<1>4. ASSUME NEW w \in Execution, StopRemove(w) PROVE HeartbeatInv'
  <2>1. /\ HBTypeOK
        /\ exec[w].phase = "running" /\ exec[w].task \in Task
        /\ tracked' = [tracked EXCEPT ![exec[w].task] = -1]
        /\ exec' = [exec EXCEPT ![w].phase =
                       IF StopsLoop(w) THEN "stopping" ELSE "idle"]
        /\ UNCHANGED <<issued, loop, shut>>
    BY <1>4 DEF StopRemove, Untrack, HeartbeatInv, HBTypeOK
  <2>2. HBTypeOK'
    BY <2>1 DEF HBTypeOK
  <2>3. TrackedIsExecuting'
    BY <2>1 DEF HeartbeatInv, HBTypeOK, TrackedIsExecuting
  <2>4. LoopNeeded'
    <3>1. CASE StopsLoop(w)
      BY <2>1, <3>1 DEF HBTypeOK, LoopNeeded
    <3>2. CASE ~StopsLoop(w)
      <4>1. PICK t \in Task : t # exec[w].task /\ tracked[t] # -1
        BY <3>2 DEF StopsLoop
      <4>2. PICK v \in Execution : /\ exec[v].phase \in {"starting", "running"}
                                   /\ exec[v].task = t
        BY <4>1 DEF HeartbeatInv, TrackedIsExecuting
      <4>3. v # w /\ exec'[v].phase \in {"starting", "running"}
        BY <2>1, <4>1, <4>2 DEF HBTypeOK
      <4> QED
        BY <4>3 DEF LoopNeeded
    <3> QED
      BY <3>1, <3>2
  <2>8. OwnVersion'
    BY <1>4 DEF StopRemove, HeartbeatInv, HBTypeOK, OwnVersion
  <2>9. EntryKept'
    BY <1>4, <2>8 DEF StopRemove, Untrack, HeartbeatInv, HBTypeOK,
       OwnVersion, EntryKept
  <2> QED
    BY <2>2, <2>3, <2>4, <2>8, <2>9 DEF HeartbeatInv
<1>5. ASSUME NEW w \in Execution, StopLoop(w) PROVE HeartbeatInv'
  <2>1. HBTypeOK'
    BY <1>5 DEF StopLoop, HeartbeatInv, HBTypeOK
  <2>2. TrackedIsExecuting' /\ LoopNeeded'
    BY <1>5 DEF StopLoop, HeartbeatInv, HBTypeOK, TrackedIsExecuting,
       LoopNeeded
  <2>8. OwnVersion'
    BY <1>5 DEF StopLoop, HeartbeatInv, HBTypeOK, OwnVersion
  <2>9. EntryKept'
    BY <1>5, <2>8 DEF StopLoop, HeartbeatInv, HBTypeOK, OwnVersion, EntryKept
  <2> QED
    BY <2>1, <2>2, <2>8, <2>9 DEF HeartbeatInv
<1>6. CASE ShutdownClear
  BY <1>6 DEF ShutdownClear, HeartbeatInv, HBTypeOK, TrackedIsExecuting,
     LoopNeeded, OwnVersion, EntryKept
<1>7. CASE ShutdownLoop
  <2>1. HBTypeOK' /\ TrackedIsExecuting' /\ LoopNeeded'
    BY <1>7 DEF ShutdownLoop, HeartbeatInv, HBTypeOK, TrackedIsExecuting,
       LoopNeeded
  <2>2. OwnVersion' /\ EntryKept'
    BY <1>7 DEF ShutdownLoop, HeartbeatInv, OwnVersion, EntryKept
  <2> QED
    BY <2>1, <2>2 DEF HeartbeatInv
<1>8. CASE UNCHANGED hbVars
  BY <1>8 DEF hbVars, HeartbeatInv, HBTypeOK, TrackedIsExecuting, LoopNeeded,
     OwnVersion, EntryKept
<1> QED
  BY <1>1, <1>2, <1>3, <1>4, <1>5, <1>6, <1>7, <1>8 DEF HBNext

\* Every reachable state satisfies the inductive invariant.
THEOREM HeartbeatInductive == HBSpec => []HeartbeatInv
  BY HeartbeatInit, HeartbeatNext, PTL DEF HBSpec

\* No entry of the table outlives the execution that made it: a lease is never
\* kept alive for nobody.
THEOREM OnlyExecutingTracked == HBSpec => []TrackedIsExecuting
<1>1. HeartbeatInv => TrackedIsExecuting
  BY DEF HeartbeatInv
<1> QED
  BY HeartbeatInductive, <1>1, PTL

\* Starting and stopping a task never touches the entry of another one: the
\* entry of a task's only execution is there until that execution stops.
THEOREM EntriesDoNotInterfere == HBSpec => []EntryKept
<1>1. HeartbeatInv => EntryKept
  BY DEF HeartbeatInv
<1> QED
  BY HeartbeatInductive, <1>1, PTL

\* No loop is leaked, however start, stop and shutdown overlap.
THEOREM LoopNotLeaked == HBSpec => []LoopEndsWithWork
<1>1. HeartbeatInv => LoopEndsWithWork
  BY DEF HeartbeatInv, LoopNeeded, LoopEndsWithWork
<1> QED
  BY HeartbeatInductive, <1>1, PTL
=============================================================================
