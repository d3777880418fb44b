--------------------------- MODULE Networks_proofs ---------------------------
(***************************************************************************)
(* For every choice of transports, events, rows and bounds: stopping is    *)
(* final, no unblock row is forgotten, and the events of a stream arrive.  *)
(* The first invariant tells the three transports apart: what belongs to   *)
(* one that was not picked never moves, and from the call of stop on the   *)
(* tasks of the one picked only end.                                       *)
(***************************************************************************)
EXTENDS Networks, SequenceTheorems, WellFoundedInduction, TLAPS

PumpEnds == pump \in {"none", "check", "ended", "ending", "aborted"}
TasksEnded ==
    /\ spawned = {}
    /\ tick # "running"
    /\ sse \in {"none", "ending", "aborted"}

Bystanders ==
    /\ kind # "local" => tick = "none" /\ "recv" \notin spawned
    /\ kind # "http" => sse = "none"
    /\ kind # "postgres" => pump = "none"

Stopping ==
    /\ stop \in {"no", "under way", "done"}
    /\ stop # "no" => PumpEnds
    /\ stop # "no" /\ ~hasty => TasksEnded

Silence ==
    /\ stop # "done" => ~heard
    /\ stop = "done" /\ (hasty => kind = "postgres") => ~callback /\ ~heard

FInv == Bystanders /\ Stopping /\ Silence

-----------------------------------------------------------------------------

LEMMA InitFInv == Init => FInv
  BY DEF Init, NewLife, HttpInit, PostgresInit, FInv, Bystanders, Stopping, Silence,
         PumpEnds, TasksEnded

\* The steps of the life they share; what the transport does in them is given.
LEMMA LaunchStep ==
    ASSUME FInv, Launch, kind \in {"local", "http"},
           kind = "local" => sse' = sse, kind = "http" => tick' = tick, pump' = pump
    PROVE  FInv'
  <1>1. stop # "no" => hasty
    BY DEF Launch, FInv, Stopping, TasksEnded
  <1> QED
    BY <1>1 DEF Launch, FInv, Bystanders, Stopping, Silence, PumpEnds, TasksEnded

LEMMA StoreStep ==
    ASSUME FInv, Store, tick' = tick, sse' = sse, pump' = pump
    PROVE  FInv'
  BY DEF Store, FInv, Bystanders, Stopping, Silence, PumpEnds, TasksEnded

LEMMA ClearStep ==
    ASSUME FInv, ClearCallbacks, tick' = tick, sse' = sse, pump' = pump
    PROVE  FInv'
  BY DEF ClearCallbacks, FInv, Bystanders, Stopping, Silence, PumpEnds, TasksEnded

LEMMA HearStep ==
    ASSUME FInv, Hear \/ UNCHANGED lifeVars, Bystanders',
           stop # "no" => PumpEnds',
           stop # "no" /\ ~hasty => TasksEnded'
    PROVE  FInv'
  <1>1. stop' = stop /\ hasty' = hasty /\ kind' = kind /\ callback' = callback
    BY DEF Hear, lifeVars
  <1>2. Stopping'
    BY <1>1 DEF FInv, Stopping
  <1>3. heard' => heard \/ (callback /\ stop = "done")
    BY DEF Hear, lifeVars
  <1>4. Silence'
    BY <1>1, <1>3, Zenon DEF FInv, Silence
  <1> QED BY <1>2, <1>4 DEF FInv

LEMMA StopStep ==
    ASSUME FInv, StopTasks, Bystanders', PumpEnds', spawned = {} => TasksEnded'
    PROVE  FInv'
  BY DEF StopTasks, FInv, Stopping, Silence

-----------------------------------------------------------------------------

LEMMA LocalStep ==
    ASSUME FInv, kind = "local", LocalNext, UNCHANGED <<httpVars, pgVars>>
    PROVE  FInv'
  <1>1. sse = "none" /\ pump = "none" /\ sse' = sse /\ pump' = pump
    BY DEF FInv, Bystanders, httpVars, pgVars
  <1>2. CASE LocalStart
    BY <1>1, <1>2, LaunchStep DEF LocalStart
  <1>3. CASE Dispatch \/ RunBatch
    <2>1. tick' = tick /\ (Hear \/ UNCHANGED lifeVars)
      BY <1>3 DEF Dispatch, RunBatch
    <2>2. kind' = kind /\ spawned' = spawned
      BY <2>1 DEF Hear, lifeVars
    <2> QED BY <1>1, <2>1, <2>2, HearStep DEF FInv, Bystanders, Stopping, PumpEnds, TasksEnded
  <1>4. CASE LocalStop
    <2>1. kind' = kind /\ spawned' = spawned
      BY <1>4 DEF LocalStop, StopTasks
    <2>2. Bystanders' /\ PumpEnds'
      BY <1>1, <2>1 DEF Bystanders, PumpEnds
    <2>3. spawned = {} => TasksEnded'
      BY <1>1, <1>4, <2>1 DEF LocalStop, TasksEnded
    <2> QED BY <1>4, <2>2, <2>3, StopStep DEF LocalStop
  <1>5. CASE Register /\ UNCHANGED localVars
    <2>1. stop # "no" => hasty
      BY <1>5 DEF Register, FInv, Stopping, TasksEnded
    <2> QED
      BY <1>1, <1>5, <2>1
      DEF Register, localVars, FInv, Bystanders, Stopping, Silence, PumpEnds, TasksEnded
  <1>6. CASE (Store \/ ClearCallbacks) /\ UNCHANGED localVars
    BY <1>1, <1>6, StoreStep, ClearStep DEF localVars
  <1> QED BY <1>2, <1>3, <1>4, <1>5, <1>6 DEF LocalNext

LEMMA HttpStep ==
    ASSUME FInv, kind = "http", HttpNext, UNCHANGED <<localVars, pgVars>>
    PROVE  FInv'
  <1>1. tick = "none" /\ pump = "none" /\ tick' = tick /\ pump' = pump
    BY DEF FInv, Bystanders, localVars, pgVars
  <1>2. CASE HttpStart
    BY <1>1, <1>2, LaunchStep DEF HttpStart
  <1>3. CASE HttpStop
    <2>1. kind' = kind /\ spawned' = spawned
      BY <1>3 DEF HttpStop, StopTasks
    <2>2. Bystanders' /\ PumpEnds'
      BY <1>1, <2>1 DEF FInv, Bystanders, PumpEnds
    <2>3. spawned = {} => TasksEnded'
      BY <1>1, <1>3, <2>1 DEF HttpStop, TasksEnded
    <2> QED BY <1>3, <2>2, <2>3, StopStep DEF HttpStop
  <1>4. CASE (Store \/ ClearCallbacks) /\ UNCHANGED httpVars
    BY <1>1, <1>4, StoreStep, ClearStep DEF httpVars
  <1>5. CASE \/ Connect \/ Refused \/ Disconnect \/ Retry
             \/ \E e \in Event : ServerSends(e)
             \/ \E n \in 1 .. Len(line) : Receive(n)
    <2>1. Hear \/ UNCHANGED lifeVars
      BY <1>5 DEF Connect, Refused, Disconnect, Retry, ServerSends, Receive
    <2>2. sse \in {"ending", "aborted"} => sse' \in {"ending", "aborted"}
      BY <1>5 DEF Connect, Refused, Disconnect, Retry, ServerSends, Receive
    <2>3. sse # "none"
      BY <1>5 DEF Connect, Refused, Disconnect, Retry, ServerSends, Receive
    <2>4. kind' = kind /\ spawned' = spawned
      BY <2>1 DEF Hear, lifeVars
    <2> QED
      BY <1>1, <2>1, <2>2, <2>3, <2>4, HearStep
      DEF FInv, Bystanders, Stopping, PumpEnds, TasksEnded
  <1> QED BY <1>2, <1>3, <1>4, <1>5 DEF HttpNext

\* Once stop was called, the pump only ends.
LEMMA PumpDrainsOut ==
    ASSUME stop # "no", PumpEnds,
           PumpStep \/ ListenStep \/ ClientStep \/ (\E l \in Lanes : EnqueueExecute(l))
             \/ (\E u \in Unblocks : EnqueueUnblock(u))
    PROVE  PumpEnds'
  <1>1. CASE PumpCheck
    BY <1>1 DEF PumpCheck, PumpEnds
  <1>2. CASE \E l \in Lanes : LastRow(l)
    BY <1>2 DEF LastRow, PumpEnds
  <1>3. ~(Drain \/ DrainFails \/ Joined \/ Notified \/ Tick)
    BY DEF Drain, DrainFails, Joined, Notified, Tick, PumpEnds
  <1>4. ~ \E l \in Lanes : Ask(l) \/ Answer(l) \/ LaneFails(l) \/ LaneDies(l)
    BY DEF Ask, Answer, LaneFails, LaneDies, Abandon, PumpEnds
  <1>5. CASE \/ ListenStep \/ ClientStep
             \/ \E l \in Lanes : EnqueueExecute(l)
             \/ \E u \in Unblocks : EnqueueUnblock(u)
    BY <1>5 DEF ListenStep, ListenCheck, Established, ListenBreaks, ListenAgain,
                ClientStep, ConnectionDies, Send, EnqueueExecute, EnqueueUnblock, pumpVars, PumpEnds
  <1> QED BY <1>1, <1>2, <1>3, <1>4, <1>5 DEF PumpStep

LEMMA PostgresStep ==
    ASSUME FInv, kind = "postgres", PostgresNext, UNCHANGED <<localVars, httpVars>>
    PROVE  FInv'
  <1>1. tick = "none" /\ sse = "none" /\ tick' = tick /\ sse' = sse
    BY DEF FInv, Bystanders, localVars, httpVars
  <1>2. CASE PostgresStart
    BY <1>1, <1>2
    DEF PostgresStart, FInv, Bystanders, Stopping, Silence, PumpEnds, TasksEnded
  <1>3. CASE PostgresStop
    <2>1. kind' = kind /\ spawned' = spawned
      BY <1>3 DEF PostgresStop, StopTasks
    <2>2. Bystanders'
      BY <1>1, <2>1 DEF FInv, Bystanders
    <2>3. PumpEnds'
      BY <1>3 DEF PostgresStop, PumpEnds
    <2>4. spawned = {} => TasksEnded'
      BY <1>1, <2>1 DEF TasksEnded
    <2> QED BY <1>3, <2>2, <2>3, <2>4, StopStep DEF PostgresStop
  <1>4. CASE PostgresForgets
    BY <1>1, <1>4, ClearStep DEF PostgresForgets, pumpVars
  <1>5. CASE \/ PumpStep \/ ListenStep \/ ClientStep
             \/ \E l \in Lanes : EnqueueExecute(l)
             \/ \E u \in Unblocks : EnqueueUnblock(u)
    <2>1. Hear \/ UNCHANGED lifeVars
      BY <1>5 DEF PumpStep, PumpCheck, Drain, DrainFails, Joined, Notified, Tick, Ask,
                  Answer, LaneFails, LaneDies, Abandon, LastRow, ClientStep,
                  ConnectionDies, Send, ListenStep, ListenCheck, Established,
                  ListenBreaks, ListenAgain, EnqueueExecute, EnqueueUnblock
    <2>2. kind' = kind /\ spawned' = spawned
      BY <2>1 DEF Hear, lifeVars
    <2>3. stop # "no" => PumpEnds'
      BY <1>5, PumpDrainsOut DEF FInv, Stopping
    <2> QED
      BY <1>1, <2>1, <2>2, <2>3, HearStep DEF FInv, Bystanders, Stopping, TasksEnded
  <1> QED BY <1>2, <1>3, <1>4, <1>5 DEF PostgresNext

LEMMA StepFInv == FInv /\ [Next]_vars => FInv'
  <1> SUFFICES ASSUME FInv, [Next]_vars PROVE FInv'
    OBVIOUS
  <1>1. CASE Next
    BY <1>1, LocalStep, HttpStep, PostgresStep DEF Next
  <1>2. CASE UNCHANGED vars
    BY <1>2 DEF vars, lifeVars, localVars, httpVars, pgVars, FInv, Bystanders, Stopping,
                Silence, PumpEnds, TasksEnded
  <1> QED BY <1>1, <1>2

\* Whatever was under way when stop was called, once it returned no callback is
\* called and no task of the transport goes on (stop of the three transports, with
\* the tasks Resonate::new spawned finished, or a PostgresNetwork).
THEOREM StopHolds == Spec => []StopIsFinal
  <1>1. FInv => StopIsFinal
    BY DEF FInv, Bystanders, Stopping, Silence, PumpEnds, TasksEnded, StopIsFinal
  <1> QED BY <1>1, InitFInv, StepFInv, PTL DEF Spec

-----------------------------------------------------------------------------
(* No unblock row is forgotten                                             *)
(*                                                                         *)
(* While nothing failed and nobody stopped the network, rows are under way *)
(* only between a query and its answer.                                    *)

Row == Unblocks \cup {"execute"}

RowsTyped ==
    /\ given \in Seq(Row)
    /\ queue \in [Lanes -> Seq(Row)] /\ flight \in [Lanes -> Seq(Row)]
    /\ lane \in [Lanes -> {"ask", "asked", "done"}]
    /\ faults \in Nat

Orderly ==
    /\ "start" \in spawned => pump = "none"
    /\ stop = "no" => pump # "ending"
    /\ stop = "no" /\ faults = 0 =>
          /\ ~stale
          /\ pump # "lanes" \/ lane["unblock"] # "asked" => flight["unblock"] = <<>>

RInv == RowsTyped /\ Orderly /\ UnblocksAccounted

\* What holds of the rows is a matter of where they are all told.
LEMMA AccountedSame ==
    ASSUME UnblocksAccounted, Rows' = Rows, made' = made,
           stop' = "no" => stop = "no", faults' = 0 => faults = 0
    PROVE  UnblocksAccounted'
  BY DEF UnblocksAccounted

LEMMA QueueSplit ==
    ASSUME NEW S, NEW q \in Seq(S), NEW n \in 0 .. Len(q)
    PROVE  /\ SubSeq(q, 1, n) \in Seq(S) /\ SubSeq(q, n + 1, Len(q)) \in Seq(S)
           /\ SubSeq(q, 1, n) \o SubSeq(q, n + 1, Len(q)) = q
  <1>1. Len(q) \in Nat
    BY LenProperties
  <1>2. SubSeq(q, 1, n) \o SubSeq(q, n + 1, Len(q)) = SubSeq(q, 1, Len(q))
    <2>1. /\ 1 \in 1 .. Len(q) + 1 /\ n \in 1 - 1 .. Len(q)
          /\ Len(q) \in n .. Len(q)
      BY <1>1
    <2> QED BY <2>1, ConcatAdjacentSubSeq
  <1>3. SubSeq(q, 1, Len(q)) = q
    BY SubSeqFull
  <1>4. \A i \in 1 .. Len(q) : q[i] \in S
    BY ElementOfSeq
  <1>5. SubSeq(q, 1, n) \in Seq(S)
    BY <1>1, <1>4, SubSeqProperties
  <1>6. SubSeq(q, n + 1, Len(q)) \in Seq(S)
    BY <1>1, <1>4, SubSeqProperties
  <1> QED BY <1>2, <1>3, <1>5, <1>6

\* A row more.
LEMMA AppendRow ==
    ASSUME NEW S, NEW r \in Seq(S), NEW u \in S, NEW M,
           \A m, n \in DOMAIN r : r[m] = r[n] => m = n,
           {r[n] : n \in DOMAIN r} = M, u \notin M
    PROVE  LET t == Append(r, u)
           IN  /\ \A m, n \in DOMAIN t : t[m] = t[n] => m = n
               /\ {t[n] : n \in DOMAIN t} = M \cup {u}
  <1> DEFINE t == Append(r, u)
  <1>1. /\ t \in Seq(S) /\ Len(t) = Len(r) + 1 /\ t[Len(r) + 1] = u
        /\ \A i \in 1 .. Len(r) : t[i] = r[i]
    BY AppendProperties
  <1>2. Len(r) \in Nat /\ DOMAIN r = 1 .. Len(r)
    BY LenProperties
  <1>3. DOMAIN t = 1 .. Len(t)
    BY <1>1, LenProperties
  <1> HIDE DEF t
  <1>4. \A i \in DOMAIN r : r[i] # u
    OBVIOUS
  <1>5. ASSUME NEW i \in DOMAIN t, NEW j \in DOMAIN t, t[i] = t[j]
        PROVE  i = j
    <2>1. (i \in DOMAIN r \/ i = Len(r) + 1) /\ (j \in DOMAIN r \/ j = Len(r) + 1)
      BY <1>1, <1>2, <1>3
    <2> QED BY <1>1, <1>2, <1>4, <1>5, <2>1
  <1>6. \A i \in DOMAIN t : i \in DOMAIN r \/ i = Len(r) + 1
    BY <1>1, <1>2, <1>3
  <1>7. DOMAIN r \subseteq DOMAIN t /\ Len(r) + 1 \in DOMAIN t
    BY <1>1, <1>2, <1>3
  <1>8. {t[n] : n \in DOMAIN t} = M \cup {u}
    BY <1>1, <1>2, <1>6, <1>7
  <1> QED BY <1>5, <1>8 DEF t

\* A step that leaves the rows where they are.
LEMMA RowsStay ==
    ASSUME RInv, UNCHANGED <<given, made, faults>>,
           queue'["unblock"] = queue["unblock"], flight'["unblock"] = flight["unblock"],
           stop' = "no" => stop = "no",
           queue' \in [Lanes -> Seq(Row)], flight' \in [Lanes -> Seq(Row)],
           lane' \in [Lanes -> {"ask", "asked", "done"}], Orderly'
    PROVE  RInv'
  <1>1. Rows' = Rows
    BY DEF Rows
  <1>2. RowsTyped'
    BY DEF RInv, RowsTyped
  <1> QED BY <1>1, <1>2, AccountedSame DEF RInv

\* Rows may be anywhere once something failed or stop was called.
LEMMA RowsExcused ==
    ASSUME RInv, faults' # 0 \/ stop' # "no", RowsTyped',
           "start" \in spawned' => pump' = "none",
           stop' = "no" => pump' # "ending"
    PROVE  RInv'
  BY DEF RInv, Orderly, UnblocksAccounted

LEMMA EnqueueRows ==
    ASSUME RInv, NEW u \in Unblocks, EnqueueUnblock(u)
    PROVE  RInv'
  <1> DEFINE f == given \o flight["unblock"]
             q == queue["unblock"]
  <1>1. /\ u \notin made /\ made' = made \cup {u}
        /\ queue' = [queue EXCEPT !["unblock"] = Append(@, u)]
        /\ UNCHANGED <<stale, pump, lane, flight, given, faults, stop, spawned>>
    BY DEF EnqueueUnblock, conn, pumpVars, lifeVars
  <1>2. /\ given \in Seq(Row) /\ flight["unblock"] \in Seq(Row) /\ q \in Seq(Row)
        /\ u \in Row
    BY DEF RInv, RowsTyped, Lanes, Row
  <1>3. f \in Seq(Row)
    BY <1>2, ConcatProperties
  <1>4. Append(q, u) = q \o <<u>> /\ Append(q, u) \in Seq(Row) /\ <<u>> \in Seq(Row)
    BY <1>2, AppendIsConcat, AppendProperties
  <1>5. queue' \in [Lanes -> Seq(Row)] /\ queue'["unblock"] = Append(q, u)
    BY <1>1, <1>4 DEF RInv, RowsTyped, Lanes
  <1> HIDE DEF q
  <1>6. Rows' = f \o Append(q, u)
    BY <1>1, <1>5 DEF Rows
  <1>7. Rows = f \o q
    BY DEF Rows, q
  <1> HIDE DEF f
  <1>8. Rows' = (f \o q) \o <<u>>
    BY <1>2, <1>3, <1>4, <1>6, ConcatAssociative
  <1>9. f \o q \in Seq(Row)
    BY <1>2, <1>3, ConcatProperties
  <1>10. Rows' = Append(Rows, u) /\ Rows \in Seq(Row)
    BY <1>2, <1>7, <1>8, <1>9, AppendIsConcat
  <1>11. UnblocksAccounted'
    <2> SUFFICES ASSUME stop = "no", faults = 0
                 PROVE  /\ \A m, n \in DOMAIN Rows' : Rows'[m] = Rows'[n] => m = n
                        /\ {Rows'[n] : n \in DOMAIN Rows'} = made'
      BY <1>1 DEF UnblocksAccounted
    <2>1. /\ \A m, n \in DOMAIN Rows : Rows[m] = Rows[n] => m = n
          /\ {Rows[n] : n \in DOMAIN Rows} = made
      BY DEF RInv, UnblocksAccounted
    <2> DEFINE r == Rows
    <2> HIDE DEF r
    <2>2. LET t == Append(r, u)
          IN  /\ \A m, n \in DOMAIN t : t[m] = t[n] => m = n
              /\ {t[n] : n \in DOMAIN t} = made \cup {u}
      BY <1>1, <1>2, <1>10, <2>1, AppendRow DEF r
    <2> QED BY <1>1, <1>10, <2>2 DEF r
  <1>12. RowsTyped' /\ Orderly'
    BY <1>1, <1>5 DEF RInv, RowsTyped, Orderly
  <1> QED BY <1>11, <1>12 DEF RInv

\* The database takes a batch out of the table of a lane.
LEMMA AskRows ==
    ASSUME RInv, NEW l \in Lanes, Ask(l)
    PROVE  RInv'
  <1> DEFINE n == IF Len(queue[l]) < Limit THEN Len(queue[l]) ELSE Limit
             batch == SubSeq(queue[l], 1, n)
             rest == SubSeq(queue[l], n + 1, Len(queue[l]))
  <1>1. /\ pump = "lanes" /\ lane[l] = "ask"
        /\ flight' = [flight EXCEPT ![l] = batch]
        /\ queue' = [queue EXCEPT ![l] = rest]
        /\ lane' = [lane EXCEPT ![l] = "asked"]
        /\ UNCHANGED <<stale, pump, given, made, faults, stop, spawned>>
    BY DEF Ask, conn, history, lifeVars
  <1>2. /\ queue[l] \in Seq(Row) /\ queue \in [Lanes -> Seq(Row)]
        /\ flight \in [Lanes -> Seq(Row)]
        /\ lane \in [Lanes -> {"ask", "asked", "done"}]
        /\ "unblock" \in Lanes
    BY DEF RInv, RowsTyped, Lanes
  <1>3. Len(queue[l]) \in Nat /\ Limit \in Nat /\ given \in Seq(Row)
    BY <1>2, LenProperties, PostgresAssumption DEF RInv, RowsTyped
  <1>4. n \in 0 .. Len(queue[l])
    BY <1>3
  <1> HIDE DEF n
  <1>5. batch \in Seq(Row) /\ rest \in Seq(Row) /\ batch \o rest = queue[l]
    BY <1>2, <1>4, QueueSplit
  <1> HIDE DEF batch, rest
  <1>6. RowsTyped'
    BY <1>1, <1>2, <1>5 DEF RInv, RowsTyped
  <1>7. Orderly'
    BY <1>1, <1>2 DEF RInv, Orderly
  <1>8. CASE l # "unblock"
    <2>1. /\ queue'["unblock"] = queue["unblock"]
          /\ flight'["unblock"] = flight["unblock"]
      BY <1>1, <1>2, <1>8
    <2> QED BY <1>1, <1>6, <1>7, <2>1, RowsStay DEF RowsTyped
  <1>9. CASE l = "unblock"
    <2>1. flight'["unblock"] = batch /\ queue'["unblock"] = rest
      BY <1>1, <1>2, <1>9
    <2>2. Rows' = (given \o batch) \o rest
      BY <1>1, <2>1 DEF Rows
    <2>3. (given \o batch) \o rest = given \o (batch \o rest)
      <3> DEFINE b == batch
                 r == rest
      <3>1. b \in Seq(Row) /\ r \in Seq(Row)
        BY <1>5
      <3> HIDE DEF b, r
      <3>2. (given \o b) \o r = given \o (b \o r)
        BY <1>3, <3>1, ConcatAssociative
      <3> QED BY <3>2 DEF b, r
    <2>4. CASE stop = "no" /\ faults = 0
      <3>1. flight["unblock"] = <<>>
        BY <1>1, <1>9, <2>4 DEF RInv, Orderly
      <3>2. given \o <<>> = given
        BY ConcatEmptySeq DEF RInv, RowsTyped
      <3>3. Rows = given \o queue["unblock"]
        BY <3>1, <3>2 DEF Rows
      <3>4. Rows' = Rows
        BY <1>5, <1>9, <2>2, <2>3, <3>3
      <3> QED BY <1>1, <1>6, <1>7, <3>4, AccountedSame DEF RInv
    <2>5. CASE ~ (stop = "no" /\ faults = 0)
      BY <1>1, <1>6, <1>7, <2>5 DEF RInv, UnblocksAccounted
    <2> QED BY <2>4, <2>5
  <1> QED BY <1>8, <1>9

\* The answer hands the batch on.
LEMMA AnswerRows ==
    ASSUME RInv, NEW l \in Lanes, Answer(l)
    PROVE  RInv'
  <1> DEFINE next == IF Len(flight[l]) = Limit THEN "ask" ELSE "done"
  <1>1. /\ pump = "lanes" /\ lane[l] = "asked"
        /\ lane' = [lane EXCEPT ![l] = next]
        /\ flight' = [flight EXCEPT ![l] = <<>>]
        /\ given' = IF l = "unblock" THEN given \o flight[l] ELSE given
        /\ UNCHANGED <<stale, pump, queue, made, faults>>
    BY DEF Answer, conn, history
  <1>2. UNCHANGED <<stop, spawned>>
    BY DEF Answer, Hear, lifeVars
  <1>3. /\ flight \in [Lanes -> Seq(Row)] /\ given \in Seq(Row)
        /\ lane \in [Lanes -> {"ask", "asked", "done"}]
        /\ "unblock" \in Lanes /\ <<>> \in Seq(Row)
    BY EmptySeq DEF RInv, RowsTyped, Lanes
  <1>4. next \in {"ask", "asked", "done"}
    OBVIOUS
  <1> HIDE DEF next
  <1>5. given \o flight[l] \in Seq(Row)
    BY <1>3, ConcatProperties
  <1>6. RowsTyped'
    BY <1>1, <1>3, <1>4, <1>5 DEF RInv, RowsTyped
  <1>7. Orderly'
    BY <1>1, <1>2, <1>3 DEF RInv, Orderly
  <1>8. Rows' = Rows
    <2>1. CASE l = "unblock"
      <3>1. given' = given \o flight["unblock"] /\ flight'["unblock"] = <<>>
        BY <1>1, <1>3, <2>1
      <3>2. (given \o flight["unblock"]) \o <<>> = given \o flight["unblock"]
        BY <1>5, <2>1, ConcatEmptySeq
      <3> QED BY <1>1, <3>1, <3>2 DEF Rows
    <2>2. CASE l # "unblock"
      <3>1. given' = given /\ flight'["unblock"] = flight["unblock"]
        BY <1>1, <1>3, <2>2
      <3> QED BY <1>1, <3>1 DEF Rows
    <2> QED BY <2>1, <2>2
  <1> QED BY <1>1, <1>2, <1>6, <1>7, <1>8, AccountedSame DEF RInv

LEMMA LastRowRows ==
    ASSUME RInv, NEW l \in Lanes, LastRow(l)
    PROVE  RInv'
  <1>1. /\ pump = "ending" /\ flight[l] # <<>> /\ pump' = "aborted"
        /\ flight' = [flight EXCEPT ![l] = Tail(@)]
        /\ given' = IF l = "unblock" /\ callback
                    THEN Append(given, Head(flight[l])) ELSE given
        /\ UNCHANGED <<lane, queue, faults, stop, spawned>>
    BY DEF LastRow, Hear, conn
  <1>2. stop # "no" /\ "start" \notin spawned
    BY <1>1 DEF RInv, Orderly
  <1>3. /\ flight \in [Lanes -> Seq(Row)] /\ given \in Seq(Row)
        /\ flight[l] \in Seq(Row)
    BY DEF RInv, RowsTyped
  <1>4. Head(flight[l]) \in Row /\ Tail(flight[l]) \in Seq(Row)
    BY <1>1, <1>3, HeadTailProperties
  <1>5. Append(given, Head(flight[l])) \in Seq(Row)
    BY <1>3, <1>4, AppendProperties
  <1>6. RowsTyped'
    BY <1>1, <1>3, <1>4, <1>5 DEF RInv, RowsTyped
  <1> QED BY <1>1, <1>2, <1>6, RowsExcused

\* A lane fails or dies: neither happens before the first failure.
LEMMA AbandonRows ==
    ASSUME RInv, NEW l \in Lanes, LaneFails(l) \/ LaneDies(l)
    PROVE  RInv'
  <1>1. /\ pump = "lanes" /\ pump' = "wait" /\ lane' = Idle /\ flight' = Nothing
        /\ UNCHANGED <<queue, given, stop, spawned>>
    BY DEF LaneFails, LaneDies, Abandon, conn, history, lifeVars
  <1>2. faults' \in Nat /\ (faults' # 0 \/ stop' # "no")
    BY <1>1 DEF LaneFails, LaneDies, Fault, RInv, RowsTyped, Orderly
  <1>3. /\ Nothing \in [Lanes -> Seq(Row)]
        /\ Idle \in [Lanes -> {"ask", "asked", "done"}]
    BY EmptySeq DEF Nothing, Idle
  <1>4. RowsTyped'
    BY <1>1, <1>2, <1>3 DEF RInv, RowsTyped
  <1> QED BY <1>1, <1>2, <1>4, RowsExcused DEF RInv, Orderly

\* The other failures.
LEMMA FaultRows ==
    ASSUME RInv, DrainFails \/ ListenBreaks \/ ConnectionDies
    PROVE  RInv'
  <1>1. /\ UNCHANGED <<lane, flight, queue, given, stop, spawned>>
        /\ faults' = faults + 1 /\ (pump' = pump \/ (pump = "drain" /\ pump' = "wait"))
    BY DEF DrainFails, ListenBreaks, ConnectionDies, Fault, pumpVars, history, lifeVars
  <1>2. faults' \in Nat /\ faults' # 0
    BY <1>1 DEF RInv, RowsTyped
  <1>3. RowsTyped'
    BY <1>1, <1>2 DEF RInv, RowsTyped
  <1> QED BY <1>1, <1>2, <1>3, RowsExcused DEF RInv, Orderly

\* The steps of the pump between two drains, the listener, and other requests.
LEMMA QuietRows ==
    ASSUME RInv, UNCHANGED <<flight, queue, given, made, faults, stop>>,
           lane' = lane \/ (pump = "drain" /\ pump' = "lanes" /\
                               lane' = [l \in Lanes |-> "ask"]),
           "start" \in spawned' => pump' = "none",
           stop' = "no" => pump' # "ending",
           stop = "no" /\ faults = 0 => ~ stale',
           pump' = pump \/ pump \notin {"lanes"} \/ lane["unblock"] = "done"
    PROVE  RInv'
  <1>1. lane' \in [Lanes -> {"ask", "asked", "done"}]
    BY DEF RInv, RowsTyped
  <1>2. stop = "no" /\ faults = 0 =>
           (pump' # "lanes" \/ lane'["unblock"] # "asked" => flight["unblock"] = <<>>)
    BY DEF RInv, Orderly
  <1>3. Orderly'
    BY <1>2 DEF RInv, Orderly
  <1> QED BY <1>1, <1>3, RowsStay DEF RInv, RowsTyped

LEMMA PumpRows ==
    ASSUME RInv, PumpStep
    PROVE  RInv'
  <1>1. CASE PumpCheck \/ Notified \/ Tick
    BY <1>1, QuietRows
       DEF PumpCheck, Notified, Tick, conn, history, lifeVars, RInv, Orderly
  <1>2. CASE Drain
    BY <1>2, QuietRows DEF Drain, Connected, conn, history, lifeVars, RInv, Orderly
  <1>3. CASE Joined
    <2>1. lane["unblock"] = "done"
      BY <1>3 DEF Joined, Idle, Lanes
    <2> QED BY <1>3, <2>1, QuietRows DEF Joined, conn, history, lifeVars, RInv, Orderly
  <1>4. CASE DrainFails
    BY <1>4, FaultRows
  <1>5. CASE \E l \in Lanes : Ask(l) \/ Answer(l) \/ LaneFails(l) \/ LaneDies(l) \/ LastRow(l)
    BY <1>5, AskRows, AnswerRows, AbandonRows, LastRowRows
  <1> QED BY <1>1, <1>2, <1>3, <1>4, <1>5 DEF PumpStep

LEMMA ExecuteRows ==
    ASSUME RInv, NEW l \in Lanes, EnqueueExecute(l)
    PROVE  RInv'
  <1>1. /\ l # "unblock"
        /\ queue' = [queue EXCEPT ![l] = Append(@, "execute")]
        /\ UNCHANGED <<stale, pump, lane, flight, given, made, faults, stop, spawned>>
    BY DEF EnqueueExecute, conn, pumpVars, lifeVars
  <1>2. queue \in [Lanes -> Seq(Row)] /\ queue[l] \in Seq(Row) /\ "unblock" \in Lanes
    BY DEF RInv, RowsTyped, Lanes
  <1>3. Append(queue[l], "execute") \in Seq(Row)
    BY <1>2, AppendProperties DEF Row
  <1>4. queue' \in [Lanes -> Seq(Row)] /\ queue'["unblock"] = queue["unblock"]
    BY <1>1, <1>2, <1>3
  <1>5. Orderly'
    BY <1>1 DEF RInv, Orderly
  <1> QED BY <1>1, <1>4, <1>5, RowsStay DEF RInv, RowsTyped

LEMMA PostgresRows ==
    ASSUME RInv, PostgresNext
    PROVE  RInv'
  <1>1. CASE PostgresStart
    <2>1. /\ UNCHANGED <<flight, queue, given, made, faults, stop, lane, stale>>
          /\ "start" \in spawned /\ "start" \notin spawned' /\ pump' = "check"
      BY <1>1 DEF PostgresStart, conn, history
    <2>2. pump = "none"
      BY <2>1 DEF RInv, Orderly
    <2> QED BY <2>1, <2>2, QuietRows DEF RInv, Orderly
  <1>2. CASE PostgresStop
    <2>1. /\ stop' # "no"
          /\ UNCHANGED <<lane, flight, queue, given, faults, spawned>>
          /\ pump = "none" => pump' = "none"
      BY <1>2 DEF PostgresStop, StopTasks
    <2>2. RowsTyped'
      BY <2>1 DEF RInv, RowsTyped
    <2> QED BY <2>1, <2>2, RowsExcused DEF RInv, Orderly
  <1>3. CASE PostgresForgets
    <2>1. /\ stop' # "no"
          /\ UNCHANGED <<pump, lane, flight, queue, given, faults, spawned>>
      BY <1>3 DEF PostgresForgets, ClearCallbacks, pumpVars
    <2>2. RowsTyped'
      BY <2>1 DEF RInv, RowsTyped
    <2> QED BY <2>1, <2>2, RowsExcused DEF RInv, Orderly
  <1>4. CASE PumpStep
    BY <1>4, PumpRows
  <1>5. CASE ListenBreaks \/ ConnectionDies
    BY <1>5, FaultRows
  <1>6. CASE ListenCheck \/ Established \/ ListenAgain \/ Send
    <2>1. UNCHANGED <<flight, queue, given, made, faults, stop, lane, stale, pump, spawned>>
      BY <1>6 DEF ListenCheck, Established, ListenAgain, Send, conn, pumpVars, history, lifeVars
    <2> QED BY <2>1, QuietRows DEF RInv, Orderly
  <1>7. CASE \E l \in Lanes : EnqueueExecute(l)
    BY <1>7, ExecuteRows
  <1>8. CASE \E u \in Unblocks : EnqueueUnblock(u)
    BY <1>8, EnqueueRows
  <1> QED BY <1>1, <1>2, <1>3, <1>4, <1>5, <1>6, <1>7, <1>8
          DEF PostgresNext, ListenStep, ClientStep

\* A network that is not a PostgresNetwork has no pump.
LEMMA OthersRows ==
    ASSUME FInv, RInv, kind # "postgres", LocalNext \/ HttpNext, UNCHANGED pgVars
    PROVE  RInv'
  <1>1. pump = "none"
    BY DEF FInv, Bystanders
  <1>2. UNCHANGED <<flight, queue, given, made, faults, lane, stale, pump>>
    BY DEF pgVars, conn, history
  <1>3. stop' = "no" => stop = "no"
    BY DEF LocalNext, HttpNext, LocalStart, HttpStart, Launch, Dispatch, RunBatch, Hear,
           LocalStop, HttpStop, StopTasks, Register, Store, ClearCallbacks, Connect,
           Refused, Disconnect, Retry, ServerSends, Receive, lifeVars
  <1>4. RowsTyped'
    BY <1>2 DEF RInv, RowsTyped
  <1>5. Orderly'
    BY <1>1, <1>2, <1>3 DEF RInv, Orderly
  <1> QED BY <1>2, <1>3, <1>4, <1>5, RowsStay DEF RInv, RowsTyped

LEMMA InitRows == Init => RInv
  <1> SUFFICES ASSUME Init PROVE RInv
    OBVIOUS
  <1>1. /\ pump = "none" /\ lane = Idle /\ flight = Nothing /\ queue = Nothing
        /\ stale = FALSE /\ given = <<>> /\ made = {} /\ faults = 0
    BY DEF Init, PostgresInit
  <1>2. Nothing \in [Lanes -> Seq(Row)] /\ <<>> \in Seq(Row) /\ Nothing["unblock"] = <<>>
    BY EmptySeq DEF Nothing, Lanes
  <1>3. Idle \in [Lanes -> {"ask", "asked", "done"}]
    BY DEF Idle
  <1>4. RowsTyped /\ Orderly
    BY <1>1, <1>2, <1>3 DEF RowsTyped, Orderly
  <1>5. Rows = <<>>
    BY <1>1, <1>2, ConcatEmptySeq DEF Rows
  <1>6. UnblocksAccounted
    BY <1>1, <1>5 DEF UnblocksAccounted
  <1> QED BY <1>4, <1>6 DEF RInv

LEMMA StepRows == FInv /\ RInv /\ [Next]_vars => RInv'
  <1> SUFFICES ASSUME FInv, RInv, [Next]_vars PROVE RInv'
    OBVIOUS
  <1>1. CASE Next
    <2>1. CASE kind = "postgres" /\ PostgresNext
      BY <2>1, PostgresRows
    <2>2. CASE kind # "postgres" /\ (LocalNext \/ HttpNext) /\ UNCHANGED pgVars
      BY <2>2, OthersRows
    <2> QED BY <1>1, <2>1, <2>2 DEF Next
  <1>2. CASE UNCHANGED vars
    <2>1. /\ UNCHANGED <<flight, queue, given, made, faults, lane, stale, pump>>
          /\ UNCHANGED <<stop, spawned>>
      BY <1>2 DEF vars, lifeVars, pgVars, pumpVars, conn, history
    <2> QED BY <2>1, QuietRows DEF RInv, Orderly
  <1> QED BY <1>1, <1>2

\* As long as nothing failed and nobody stopped the network, every unblock row is in
\* the table, under way or handed on, in one of the places and once, for any number
\* of rows and any batch size (drain_unblocks and pump_task of PostgresNetwork).
THEOREM RowsAccounted == Spec => []UnblocksAccounted
  <1>1. RInv => UnblocksAccounted
    BY DEF RInv
  <1> QED BY <1>1, InitFInv, StepFInv, InitRows, StepRows, PTL DEF Spec

-----------------------------------------------------------------------------
(* However the event stream is cut, its events arrive                      *)

\* A set of numbers has a least one.
LEMMA LeastNumber ==
    ASSUME NEW T, T \subseteq Nat, T # {}
    PROVE  \E x \in T : \A y \in T : x <= y
  <1>1. PICK x \in T : \A y \in T : ~ (<<y, x>> \in OpToRel(<, Nat))
    BY WFMin, NatLessThanWellFounded, Zenon
  <1>2. \A y \in T : ~ (y < x)
    BY <1>1 DEF OpToRel
  <1> QED BY <1>2

\* f goes from a start through the states that m steps lead to.
Leads(f, S, start, m, step) ==
    /\ f \in [0 .. m -> S] /\ f[0] = start
    /\ \A n \in 1 .. m : f[n] = step[n][f[n - 1]]

LEMMA Recursion ==
    ASSUME NEW S, NEW start \in S, NEW m \in Nat, NEW step \in [1 .. m -> [S -> S]]
    PROVE  \E f : Leads(f, S, start, m, step)
  <1> DEFINE Path(f, k) == /\ f \in [0 .. k -> S] /\ f[0] = start
                           /\ \A n \in 1 .. k : f[n] = step[n][f[n - 1]]
             Missed == {k \in 0 .. m : ~ \E f : Path(f, k)}
  <1>1. ASSUME Missed # {}
        PROVE  FALSE
    <2>1. PICK k \in Missed : \A y \in Missed : k <= y
      <3>1. Missed \subseteq Nat
        OBVIOUS
      <3> HIDE DEF Missed
      <3> QED BY <1>1, <3>1, LeastNumber
    <2>2. CASE k = 0
      <3>1. Path([n \in 0 .. 0 |-> start], 0)
        OBVIOUS
      <3> QED BY <2>1, <2>2, <3>1
    <2>3. CASE k # 0
      <3>1. k \in 1 .. m /\ k - 1 \in 0 .. m /\ k - 1 \notin Missed
        BY <2>1, <2>3
      <3>2. PICK f : Path(f, k - 1)
        BY <3>1
      <3> DEFINE h == [n \in 0 .. k |-> IF n = k THEN step[k][f[k - 1]] ELSE f[n]]
      <3>3. f[k - 1] \in S /\ step[k] \in [S -> S]
        BY <3>1, <3>2
      <3>4. \A n \in 0 .. k - 1 : f[n] \in S
        BY <3>2
      <3>5. h \in [0 .. k -> S]
        BY <3>1, <3>3, <3>4
      <3>6. h[0] = start /\ h[k] = step[k][f[k - 1]]
            /\ \A n \in 0 .. k - 1 : h[n] = f[n]
        BY <3>1, <3>2
      <3> HIDE DEF h
      <3>7. \A n \in 1 .. k : h[n] = step[n][h[n - 1]]
        <4> SUFFICES ASSUME NEW n \in 1 .. k PROVE h[n] = step[n][h[n - 1]]
          OBVIOUS
        <4>1. h[n - 1] = f[n - 1]
          BY <3>1, <3>6
        <4>2. CASE n = k
          BY <3>6, <4>1, <4>2
        <4>3. CASE n # k
          BY <3>1, <3>2, <3>6, <4>1, <4>3
        <4> QED BY <4>2, <4>3
      <3>8. Path(h, k)
        BY <3>5, <3>6, <3>7
      <3> QED BY <2>1, <3>8
    <2> QED BY <2>2, <2>3
  <1>2. m \in 0 .. m
    OBVIOUS
  <1>3. Missed = {}
    <2> HIDE DEF Missed
    <2> QED BY <1>1
  <1>4. \E f : Path(f, m)
    BY <1>2, <1>3
  <1> QED BY <1>4 DEF Leads

\* What a text ends with.
LEMMA SuffixIs ==
    ASSUME NEW T, NEW s \in Seq(T), NEW t \in Seq(T)
    PROVE  IsSuffix(s, t) <=>
             /\ Len(s) <= Len(t)
             /\ \A i \in 1 .. Len(s) : s[i] = t[Len(t) - Len(s) + i]
  <1> DEFINE n == Len(s)
             m == Len(t)
             u == Reverse(s)
             v == Reverse(t)
  <1>1. n \in Nat /\ m \in Nat
        /\ (\A i \in 1 .. n : s[i] \in T) /\ (\A i \in 1 .. m : t[i] \in T)
    BY LenProperties, ElementOfSeq
  <1>2. /\ u \in Seq(T) /\ Len(u) = n /\ \A i \in 1 .. n : u[i] = s[n - i + 1]
        /\ v \in Seq(T) /\ Len(v) = m /\ \A i \in 1 .. m : v[i] = t[m - i + 1]
    BY <1>1 DEF Reverse
  <1>3. IsSuffix(s, t) <=> n <= m /\ SubSeq(u, 1, n) = SubSeq(v, 1, n)
    BY <1>2 DEF IsSuffix, IsPrefix
  <1> HIDE DEF n, m, u, v
  <1>4. CASE n <= m
    <2> DEFINE x == SubSeq(u, 1, n)
               y == SubSeq(v, 1, n)
    <2>1. \A i \in 1 .. n : u[i] \in T /\ v[i] \in T
      BY <1>1, <1>2, <1>4, ElementOfSeq
    <2>2. x \in Seq(T) /\ Len(x) = n /\ \A i \in 1 .. n : x[i] = u[i]
      <3>1. /\ x \in Seq(T) /\ Len(x) = IF 1 <= n THEN n - 1 + 1 ELSE 0
            /\ \A i \in 1 .. n - 1 + 1 : x[i] = u[1 + i - 1]
        BY <1>1, <2>1, SubSeqProperties
      <3> HIDE DEF x
      <3> QED BY <1>1, <3>1
    <2>3. y \in Seq(T) /\ Len(y) = n /\ \A i \in 1 .. n : y[i] = v[i]
      <3>1. /\ y \in Seq(T) /\ Len(y) = IF 1 <= n THEN n - 1 + 1 ELSE 0
            /\ \A i \in 1 .. n - 1 + 1 : y[i] = v[1 + i - 1]
        BY <1>1, <2>1, SubSeqProperties
      <3> HIDE DEF y
      <3> QED BY <1>1, <3>1
    <2> HIDE DEF x, y
    <2>4. x = y <=> \A i \in 1 .. n : u[i] = v[i]
      <3>1. ASSUME \A i \in 1 .. n : u[i] = v[i]
            PROVE  x = y
        BY <2>2, <2>3, <3>1, SeqEqual
      <3> QED BY <2>2, <2>3, <3>1
    <2>5. ASSUME NEW i \in 1 .. n
          PROVE  /\ n - i + 1 \in 1 .. n
                 /\ u[n - i + 1] = s[i] /\ v[n - i + 1] = t[m - n + i]
                 /\ u[i] = s[n - i + 1] /\ v[i] = t[m - n + (n - i + 1)]
      <3>1. n - i + 1 \in 1 .. n /\ n - i + 1 \in 1 .. m /\ i \in 1 .. m
        BY <1>1, <1>4
      <3>2. /\ n - (n - i + 1) + 1 = i /\ m - (n - i + 1) + 1 = m - n + i
            /\ m - i + 1 = m - n + (n - i + 1)
        BY <1>1
      <3> QED BY <1>2, <3>1, <3>2
    <2>6. (\A i \in 1 .. n : u[i] = v[i]) <=> \A i \in 1 .. n : s[i] = t[m - n + i]
      BY <2>5
    <2> QED BY <1>3, <1>4, <2>4, <2>6 DEF x, y, n, m
  <1>5. CASE ~ (n <= m)
    BY <1>3, <1>5 DEF n, m
  <1> QED BY <1>4, <1>5

\* What the wire carries.
Token == (Event \X {1, 2}) \cup {NL}
Body(e) == <<<<e, 1>>, <<e, 2>>>>

LEMMA TokensAre ==
    ASSUME NEW e \in Event
    PROVE  /\ <<e, 1>> \in Token /\ <<e, 2>> \in Token /\ NL \in Token
           /\ <<e, 1>> # NL /\ <<e, 2>> # NL
           /\ Len(Tokens(e)) = 4 /\ Tokens(e) \in Seq(Token)
           /\ Tokens(e)[1] = <<e, 1>> /\ Tokens(e)[2] = <<e, 2>>
           /\ Tokens(e)[3] = NL /\ Tokens(e)[4] = NL
           /\ Body(e) \in Seq(Token) /\ Len(Body(e)) = 2
           /\ Body(e)[1] = <<e, 1>> /\ Body(e)[2] = <<e, 2>>
  <1>1. <<e, 1>> \in Token /\ <<e, 2>> \in Token /\ NL \in Token
    BY DEF Token
  <1>2. <<e, 1>> # NL /\ <<e, 2>> # NL
    BY DEF NL
  <1> QED BY <1>1, <1>2 DEF Tokens, Body

\* The text is what the events of ev spell on the wire, or the beginning of it.
Spells(text, ev) ==
    /\ Len(text) <= 4 * Len(ev)
    /\ \A k \in 1 .. Len(ev), j \in 1 .. 4 :
          4 * (k - 1) + j <= Len(text) => text[4 * (k - 1) + j] = Tokens(ev[k])[j]

-----------------------------------------------------------------------------
(* Splitting it *)

Splits == [pieces : Seq(Seq(Token)), rest : Seq(Token)]

LEMMA CutType ==
    ASSUME NEW s \in Splits, NEW token \in Token, NEW sep \in Seq(Token)
    PROVE  Cut(s, token, sep) \in Splits
  <1> DEFINE r == Append(s.rest, token)
             n == Len(r) - Len(sep)
  <1>1. s.pieces \in Seq(Seq(Token)) /\ s.rest \in Seq(Token)
    BY DEF Splits
  <1>2. r \in Seq(Token)
    BY <1>1, AppendProperties
  <1>3. CASE IsSuffix(sep, r)
    <2>1. n \in 0 .. Len(r)
      <3> HIDE DEF r
      <3>1. Len(sep) <= Len(r) /\ Len(sep) \in Nat /\ Len(r) \in Nat
        BY <1>2, <1>3, SuffixIs, LenProperties
      <3> QED BY <3>1
    <2>2. SubSeq(r, 1, n) \in Seq(Token)
      <3> HIDE DEF r, n
      <3> QED BY <1>2, <2>1, QueueSplit
    <2>3. Cut(s, token, sep) = [pieces |-> Append(s.pieces, SubSeq(r, 1, n)), rest |-> <<>>]
      BY <1>3 DEF Cut
    <2> HIDE DEF r, n
    <2>4. Append(s.pieces, SubSeq(r, 1, n)) \in Seq(Seq(Token))
      BY <1>1, <2>2, AppendProperties
    <2> QED BY <2>3, <2>4, EmptySeq DEF Splits
  <1>4. CASE ~ IsSuffix(sep, r)
    <2>1. Cut(s, token, sep) = [s EXCEPT !.rest = r]
      BY <1>4 DEF Cut
    <2> HIDE DEF r
    <2> QED BY <1>2, <2>1 DEF Splits
  <1> QED BY <1>3, <1>4

\* Split takes one token after the other.
LEMMA SplitSteps ==
    ASSUME NEW text \in Seq(Token), NEW sep \in Seq(Token)
    PROVE  \E after \in [0 .. Len(text) -> Splits] :
             /\ after[0] = Unsplit
             /\ \A n \in 1 .. Len(text) : after[n] = Cut(after[n - 1], text[n], sep)
             /\ Split(text, sep) = after[Len(text)]
  <1> DEFINE m == Len(text)
             step == [n \in 1 .. m |-> [s \in Splits |-> Cut(s, text[n], sep)]]
             Path(g) == g = [n \in 0 .. m |-> IF n = 0 THEN Unsplit
                                              ELSE Cut(g[n - 1], text[n], sep)]
             after == CHOOSE g : Path(g)
  <1>1. m \in Nat /\ \A n \in 1 .. m : text[n] \in Token
    BY LenProperties, ElementOfSeq
  <1>2. Unsplit \in Splits
    BY EmptySeq DEF Unsplit, Splits
  <1>3. step \in [1 .. m -> [Splits -> Splits]]
    BY <1>1, CutType
  <1>4. \A n \in 1 .. m, s \in Splits : step[n][s] = Cut(s, text[n], sep)
    OBVIOUS
  <1>5. Split(text, sep) = after[m]
    BY DEF Split
  <1> HIDE DEF step, m
  <1>6. PICK f : Leads(f, Splits, Unsplit, m, step)
    BY <1>1, <1>2, <1>3, Recursion
  <1>7. /\ f \in [0 .. m -> Splits] /\ f[0] = Unsplit
         /\ \A n \in 1 .. m : f[n] = step[n][f[n - 1]]
    BY <1>6 DEF Leads
  <1>8. \A n \in 1 .. m : f[n - 1] \in Splits
    BY <1>1, <1>7
  <1>9. \A n \in 1 .. m : f[n] = Cut(f[n - 1], text[n], sep)
    BY <1>4, <1>7, <1>8
  <1>10. Path(f)
    BY <1>1, <1>7, <1>9
  <1>11. Path(after)
    BY <1>10
  <1> HIDE DEF after
  <1>12. /\ after[0] = Unsplit
         /\ \A n \in 1 .. m : after[n] = Cut(after[n - 1], text[n], sep)
         /\ DOMAIN after = 0 .. m
         /\ after = [n \in 0 .. m |-> after[n]]
    <2>1. after = [n \in 0 .. m |-> IF n = 0 THEN Unsplit
                                    ELSE Cut(after[n - 1], text[n], sep)]
      BY <1>11
    <2>2. \A n \in 0 .. m : after[n] = IF n = 0 THEN Unsplit
                                        ELSE Cut(after[n - 1], text[n], sep)
      BY <2>1
    <2>3. DOMAIN after = 0 .. m /\ after = [n \in 0 .. m |-> after[n]]
      BY <2>1
    <2>4. 0 \in 0 .. m /\ \A n \in 1 .. m : n \in 0 .. m /\ n # 0
      BY <1>1
    <2> QED BY <2>2, <2>3, <2>4
  <1>13. \A n \in 0 .. m : after[n] \in Splits
    <2> DEFINE Bad == {n \in 0 .. m : after[n] \notin Splits}
    <2>1. ASSUME Bad # {} PROVE FALSE
      <3>1. PICK n \in Bad : \A k \in Bad : n <= k
        <4>1. Bad \subseteq Nat
          OBVIOUS
        <4> HIDE DEF Bad
        <4> QED BY <2>1, <4>1, LeastNumber
      <3>2. n \in 1 .. m /\ n - 1 \in 0 .. m
        BY <1>1, <1>2, <1>12, <3>1
      <3>3. after[n - 1] \in Splits
        BY <3>1, <3>2
      <3>4. after[n] \in Splits
        BY <1>1, <1>12, <3>2, <3>3, CutType
      <3> QED BY <3>1, <3>4
    <2> QED BY <2>1
  <1>14. after \in [0 .. m -> Splits]
    BY <1>12, <1>13
  <1> QED BY <1>5, <1>12, <1>14 DEF m

\* How far Split is after n tokens of what ev spells: a piece for each event that is
\* complete, and the tokens of the next one.
Parsed(s, ev, n) ==
    /\ s \in Splits
    /\ n = 4 * Len(s.pieces) + Len(s.rest) /\ Len(s.rest) <= 3
    /\ \A i \in 1 .. Len(s.pieces) : s.pieces[i] = Body(ev[i])
    /\ \A j \in 1 .. Len(s.rest) : s.rest[j] = Tokens(ev[Len(s.pieces) + 1])[j]

LEMMA ParseStep ==
    ASSUME NEW text \in Seq(Token), NEW ev \in Seq(Event), Spells(text, ev),
           NEW s, NEW n \in 0 .. Len(text) - 1, Parsed(s, ev, n)
    PROVE  Parsed(Cut(s, text[n + 1], <<NL, NL>>), ev, n + 1)
  <1> DEFINE q == Len(s.pieces)
             J == Len(s.rest)
             e == ev[q + 1]
             token == text[n + 1]
             r == Append(s.rest, token)
             sep == <<NL, NL>>
             t == Cut(s, token, sep)
  <1>1. /\ s.pieces \in Seq(Seq(Token)) /\ s.rest \in Seq(Token)
        /\ q \in Nat /\ J \in 0 .. 3 /\ n = 4 * q + J /\ Len(text) \in Nat
        /\ Len(ev) \in Nat
    <2>1. s.pieces \in Seq(Seq(Token)) /\ s.rest \in Seq(Token)
      BY DEF Parsed, Splits
    <2>2. q \in Nat /\ J \in Nat /\ Len(text) \in Nat /\ Len(ev) \in Nat
      BY <2>1, LenProperties
    <2>3. n = 4 * q + J /\ J <= 3
      BY DEF Parsed
    <2> HIDE DEF q, J
    <2> QED BY <2>1, <2>2, <2>3
  <1>2. q + 1 \in 1 .. Len(ev) /\ J + 1 \in 1 .. 4
    <2>1. Len(text) <= 4 * Len(ev)
      BY DEF Spells
    <2> HIDE DEF q, J
    <2> QED BY <1>1, <2>1
  <1>3. e \in Event
    BY <1>2, ElementOfSeq
  <1>4. token = Tokens(e)[J + 1]
    <2> HIDE DEF q, J
    <2>1. 4 * ((q + 1) - 1) + (J + 1) = n + 1 /\ n + 1 <= Len(text)
      BY <1>1
    <2>2. \A k \in 1 .. Len(ev), j \in 1 .. 4 :
             4 * (k - 1) + j <= Len(text) => text[4 * (k - 1) + j] = Tokens(ev[k])[j]
      BY DEF Spells
    <2>3. text[4 * ((q + 1) - 1) + (J + 1)] = Tokens(ev[q + 1])[J + 1]
      BY <1>2, <2>1, <2>2
    <2> QED BY <2>1, <2>3
  <1>5. \A j \in 1 .. J : s.rest[j] = Tokens(e)[j]
    BY DEF Parsed
  <1>6. token \in Token /\ sep \in Seq(Token) /\ Len(sep) = 2 /\ sep[1] = NL /\ sep[2] = NL
    <2>1. NL \in Token
      BY DEF Token
    <2>2. sep \in Seq(Token) /\ Len(sep) = 2 /\ sep[1] = NL /\ sep[2] = NL
      BY <2>1
    <2>3. n + 1 \in 1 .. Len(text)
      <3> HIDE DEF q, J
      <3> QED BY <1>1
    <2>4. token \in Token
      BY <2>3, ElementOfSeq
    <2> QED BY <2>2, <2>4
  <1>7. /\ r \in Seq(Token) /\ Len(r) = J + 1
        /\ r[J + 1] = token /\ \A j \in 1 .. J : r[j] = s.rest[j]
    <2>1. s.rest \in Seq(Token) /\ token \in Token
      BY <1>1, <1>6
    <2> HIDE DEF token
    <2> QED BY <2>1, AppendProperties
  <1>8. t \in Splits
    <2> HIDE DEF token, sep
    <2> QED BY <1>6, CutType DEF Parsed
  <1>9. IsSuffix(sep, r) <=> /\ 2 <= Len(r)
                             /\ \A i \in 1 .. 2 : sep[i] = r[Len(r) - 2 + i]
    <2>1. sep \in Seq(Token) /\ r \in Seq(Token) /\ Len(sep) = 2
      BY <1>6, <1>7
    <2> HIDE DEF sep, r
    <2>2. IsSuffix(sep, r) <=> /\ Len(sep) <= Len(r)
                               /\ \A i \in 1 .. Len(sep) : sep[i] = r[Len(r) - Len(sep) + i]
      BY <2>1, SuffixIs
    <2> QED BY <2>1, <2>2
  <1>10. /\ IsSuffix(sep, r) =>
              t = [pieces |-> Append(s.pieces, SubSeq(r, 1, Len(r) - Len(sep))), rest |-> <<>>]
         /\ ~ IsSuffix(sep, r) => t = [s EXCEPT !.rest = r]
    BY DEF Cut
  <1>11. \A j \in 1 .. J + 1 : r[j] = Tokens(e)[j]
    BY <1>1, <1>4, <1>5, <1>7
  <1>12. \A i \in 1 .. q : s.pieces[i] = Body(ev[i])
    BY DEF Parsed
  <1>13. /\ <<e, 1>> \in Token /\ <<e, 2>> \in Token /\ <<e, 1>> # NL /\ <<e, 2>> # NL
         /\ Tokens(e)[1] = <<e, 1>> /\ Tokens(e)[2] = <<e, 2>>
         /\ Tokens(e)[3] = NL /\ Tokens(e)[4] = NL
         /\ Body(e) \in Seq(Token) /\ Len(Body(e)) = 2
         /\ Body(e)[1] = <<e, 1>> /\ Body(e)[2] = <<e, 2>>
    <2> HIDE DEF e
    <2> QED BY <1>3, TokensAre
  <1>14. e = ev[q + 1] /\ s \in Splits
    BY DEF Parsed
  <1> HIDE DEF r, token, sep, e, q, J, t
  <1>15. ASSUME J = 3
         PROVE  Parsed(t, ev, n + 1)
    <2>1. Len(r) = 4 /\ r[1] = <<e, 1>> /\ r[2] = <<e, 2>> /\ r[3] = NL /\ r[4] = NL
      BY <1>7, <1>11, <1>15, <1>13
    <2>2. IsSuffix(sep, r)
      <3>1. \A i \in 1 .. 2 : sep[i] = r[4 - 2 + i]
        BY <1>6, <2>1
      <3> QED BY <1>9, <2>1, <3>1
    <2> DEFINE b == SubSeq(r, 1, 2)
    <2>3. b \in Seq(Token) /\ Len(b) = 2 /\ \A i \in 1 .. 2 : b[i] = r[i]
      <3>0. \A i \in 1 .. 2 : i = 1 \/ i = 2
        OBVIOUS
      <3>1. \A i \in 1 .. 2 : r[i] \in Token
        BY <1>13, <2>1, <3>0, Zenon
      <3>2. /\ b \in Seq(Token) /\ Len(b) = IF 1 <= 2 THEN 2 - 1 + 1 ELSE 0
            /\ \A i \in 1 .. 2 - 1 + 1 : b[i] = r[1 + i - 1]
        BY <3>1, SubSeqProperties
      <3> HIDE DEF b
      <3> QED BY <3>2
    <2>4. t = [pieces |-> Append(s.pieces, b), rest |-> <<>>]
      <3>1. Len(r) - Len(sep) = 2
        BY <1>6, <2>1
      <3> QED BY <1>10, <2>2, <3>1
    <2> HIDE DEF b
    <2>5. b = Body(e)
      <3>0. \A i \in 1 .. 2 : i = 1 \/ i = 2
        OBVIOUS
      <3>1. \A i \in 1 .. 2 : b[i] = Body(e)[i]
        BY <1>13, <2>1, <2>3, <3>0, Zenon
      <3> QED BY <1>13, <2>3, <3>1, SeqEqual
    <2> DEFINE a == Append(s.pieces, b)
    <2>6. Len(a) = q + 1 /\ a[q + 1] = b /\ \A i \in 1 .. q : a[i] = s.pieces[i]
      BY <1>1, <2>3, AppendProperties DEF q
    <2>7. t.pieces = a /\ t.rest = <<>> /\ Len(<<>>) = 0
      BY <2>4
    <2> HIDE DEF a
    <2>8. \A i \in 1 .. q + 1 : a[i] = Body(ev[i])
      <3> SUFFICES ASSUME NEW i \in 1 .. q + 1 PROVE a[i] = Body(ev[i])
        OBVIOUS
      <3>1. CASE i = q + 1
        BY <1>14, <2>5, <2>6, <3>1
      <3>2. CASE i # q + 1
        <4>1. i \in 1 .. q
          BY <1>1, <3>2
        <4> QED BY <1>12, <2>6, <4>1
      <3> QED BY <3>1, <3>2
    <2>9. n + 1 = 4 * (q + 1) + 0
      BY <1>1, <1>15
    <2>10. Len(t.pieces) = q + 1 /\ Len(t.rest) = 0
      BY <2>6, <2>7
    <2>11. \A i \in 1 .. Len(t.pieces) : t.pieces[i] = Body(ev[i])
      BY <2>7, <2>8, <2>10
    <2>12. \A j \in 1 .. Len(t.rest) : t.rest[j] = Tokens(ev[Len(t.pieces) + 1])[j]
      BY <2>10
    <2>13. n + 1 = 4 * Len(t.pieces) + Len(t.rest) /\ Len(t.rest) <= 3
      BY <1>1, <2>9, <2>10
    <2> QED BY <1>8, <2>11, <2>12, <2>13 DEF Parsed
  <1>16. ASSUME J # 3
         PROVE  Parsed(t, ev, n + 1)
    <2>1. ~ IsSuffix(sep, r)
      <3>1. CASE J = 0
        BY <1>7, <1>9, <3>1
      <3>2. CASE J = 1 \/ J = 2
        <4>1. r[2] = <<e, 2>> /\ r[2] # NL
          <5>1. 2 \in 1 .. J + 1
            BY <3>2
          <5>2. r[2] = Tokens(e)[2]
            BY <1>11, <5>1
          <5> QED BY <1>13, <5>2, Zenon
        <4>2. \E i \in 1 .. 2 : Len(r) - 2 + i = 2
          <5>1. CASE J = 1
            BY <1>7, <5>1
          <5>2. CASE J = 2
            BY <1>7, <5>2
          <5> QED BY <3>2, <5>1, <5>2
        <4>3. PICK i \in 1 .. 2 : Len(r) - 2 + i = 2
          BY <4>2
        <4>4. sep[i] = NL
          BY <1>6
        <4> QED BY <1>9, <4>1, <4>3, <4>4
      <3> QED BY <1>1, <1>16, <3>1, <3>2
    <2>2. t.pieces = s.pieces /\ t.rest = r
      BY <1>10, <1>14, <2>1 DEF Splits
    <2>3. Len(t.pieces) = q /\ Len(t.rest) = J + 1
      BY <1>7, <2>2 DEF q
    <2>4. \A j \in 1 .. Len(t.rest) : t.rest[j] = Tokens(ev[Len(t.pieces) + 1])[j]
      BY <1>11, <1>14, <2>2, <2>3
    <2>5. \A i \in 1 .. Len(t.pieces) : t.pieces[i] = Body(ev[i])
      BY <1>12, <2>2, <2>3
    <2>6. n + 1 = 4 * Len(t.pieces) + Len(t.rest) /\ Len(t.rest) <= 3
      BY <1>1, <1>16, <2>3
    <2> QED BY <1>8, <2>4, <2>5, <2>6 DEF Parsed
  <1>17. Parsed(t, ev, n + 1)
    BY <1>15, <1>16
  <1> QED BY <1>17 DEF t, token, sep

LEMMA ParseStream ==
    ASSUME NEW text \in Seq(Token), NEW ev \in Seq(Event), Spells(text, ev)
    PROVE  Parsed(Parse(text), ev, Len(text))
  <1> DEFINE sep == <<NL, NL>>
             m == Len(text)
  <1>1. m \in Nat /\ sep \in Seq(Token)
    BY LenProperties DEF Token
  <1>2. PICK after \in [0 .. m -> Splits] :
             /\ after[0] = Unsplit
             /\ \A n \in 1 .. m : after[n] = Cut(after[n - 1], text[n], sep)
             /\ Split(text, sep) = after[m]
    <2> HIDE DEF sep
    <2> QED BY <1>1, SplitSteps
  <1>3. Parsed(Unsplit, ev, 0)
    <2>1. Unsplit \in Splits /\ Unsplit.pieces = <<>> /\ Unsplit.rest = <<>>
      BY EmptySeq DEF Unsplit, Splits
    <2> QED BY <2>1 DEF Parsed
  <1> DEFINE Bad == {n \in 0 .. m : ~ Parsed(after[n], ev, n)}
  <1>4. ASSUME Bad # {} PROVE FALSE
    <2>1. PICK n \in Bad : \A k \in Bad : n <= k
      <3>1. Bad \subseteq Nat
        OBVIOUS
      <3> HIDE DEF Bad
      <3> QED BY <1>4, <3>1, LeastNumber
    <2>2. n \in 1 .. m /\ n - 1 \in 0 .. m - 1 /\ n - 1 \in 0 .. m
      BY <1>1, <1>2, <1>3, <2>1
    <2>3. Parsed(after[n - 1], ev, n - 1)
      BY <2>1, <2>2
    <2>4. (n - 1) + 1 = n
      BY <2>2
    <2>5. Parsed(Cut(after[n - 1], text[n], sep), ev, n)
      BY <2>2, <2>3, <2>4, ParseStep
    <2> QED BY <1>2, <2>1, <2>2, <2>5
  <1>5. Parsed(after[m], ev, m)
    BY <1>1, <1>4
  <1> QED BY <1>2, <1>5 DEF Parse

\* Short sequences.
LEMMA Short ==
    ASSUME NEW T, NEW x \in T, NEW y \in T
    PROVE  /\ <<x>> \in Seq(T) /\ Len(<<x>>) = 1 /\ <<x>>[1] = x
           /\ Append(<<>>, x) = <<x>> /\ Append(<<x>>, y) = <<x, y>>
  <1>1. <<x>> \in Seq(T) /\ Len(<<x>>) = 1 /\ <<x>>[1] = x
    OBVIOUS
  <1>2. Append(<<>>, x) = <<x>>
    OBVIOUS
  <1>3. Append(<<x>>, y) = <<x, y>>
    <2> DEFINE s == <<x>>
               a == Append(s, y)
               b == <<x, y>>
    <2>1. s \in Seq(T) /\ Len(s) = 1 /\ s[1] = x
      BY <1>1
    <2> HIDE DEF s
    <2>2. a \in Seq(T) /\ Len(a) = 2 /\ a[1] = x /\ a[2] = y
      <3>1. /\ a \in Seq(T) /\ Len(a) = Len(s) + 1
            /\ \A i \in 1 .. Len(s) : a[i] = s[i]
            /\ a[Len(s) + 1] = y
        <4>1. s \in Seq(T) /\ y \in T
          BY <2>1
        <4> QED BY <4>1, AppendProperties
      <3> HIDE DEF a
      <3>2. 1 \in 1 .. Len(s) /\ Len(s) + 1 = 2
        BY <2>1
      <3> QED BY <2>1, <3>1, <3>2
    <2>3. b \in Seq(T) /\ Len(b) = 2 /\ b[1] = x /\ b[2] = y
      OBVIOUS
    <2> HIDE DEF a, b
    <2>4. \A i \in 1 .. 2 : a[i] = b[i]
      <3>1. \A i \in 1 .. 2 : i = 1 \/ i = 2
        OBVIOUS
      <3> QED BY <2>2, <2>3, <3>1
    <2>5. a = b
      BY <2>2, <2>3, <2>4, SeqEqual
    <2> QED BY <2>5 DEF a, b, s
  <1> QED BY <1>1, <1>2, <1>3

\* A block of one event has this event as its message.
LEMMA MessageOf ==
    ASSUME NEW e \in Event
    PROVE  Messages(Body(e)) = <<e>>
  <1> DEFINE b == Body(e)
             sep == <<NL>>
             s1 == [pieces |-> <<>>, rest |-> <<<<e, 1>>>>]
             s2 == [pieces |-> <<>>, rest |-> b]
             lines == Append(Split(b, sep).pieces, Split(b, sep).rest)
             Path(g) == g = [n \in 0 .. Len(lines) |->
                                IF n = 0 THEN <<>>
                                ELSE IF IsMessage(lines[n]) THEN Append(g[n - 1], lines[n][1][1])
                                ELSE g[n - 1]]
             taken == CHOOSE g : Path(g)
  <1>1. /\ b \in Seq(Token) /\ Len(b) = 2 /\ b[1] = <<e, 1>> /\ b[2] = <<e, 2>>
        /\ <<e, 1>> # NL /\ <<e, 2>> # NL /\ <<e, 1>> \in Token
    BY TokensAre
  <1>2. sep \in Seq(Token) /\ Len(sep) = 1 /\ sep[1] = NL
    BY DEF Token
  <1>3. Split(b, sep) = s2
    <2> HIDE DEF sep
    <2>1. PICK after \in [0 .. 2 -> Splits] :
             /\ after[0] = Unsplit
             /\ \A n \in 1 .. 2 : after[n] = Cut(after[n - 1], b[n], sep)
             /\ Split(b, sep) = after[2]
      <3>1. \E after \in [0 .. Len(b) -> Splits] :
             /\ after[0] = Unsplit
             /\ \A n \in 1 .. Len(b) : after[n] = Cut(after[n - 1], b[n], sep)
             /\ Split(b, sep) = after[Len(b)]
        BY <1>1, <1>2, SplitSteps
      <3> QED BY <1>1, <3>1
    <2>2. after[1] = s1
      <3> DEFINE r == Append(Unsplit.rest, <<e, 1>>)
      <3>1. r = <<<<e, 1>>>>
        BY DEF Unsplit
      <3>2. r \in Seq(Token) /\ Len(r) = 1 /\ r[1] = <<e, 1>>
        <4> DEFINE x == <<e, 1>>
        <4>1. x \in Token /\ r = <<x>>
          BY <1>1, <3>1
        <4> HIDE DEF x, r
        <4>2. r \in Seq(Token) /\ Len(r) = 1 /\ r[1] = x
          BY <4>1, Short
        <4> QED BY <4>2 DEF x
      <3>3. ~ IsSuffix(sep, r)
        <4> HIDE DEF r
        <4>1. IsSuffix(sep, r) => \A i \in 1 .. Len(sep) : sep[i] = r[Len(r) - Len(sep) + i]
          BY <1>2, <3>2, SuffixIs
        <4>2. 1 \in 1 .. Len(sep) /\ Len(r) - Len(sep) + 1 = 1
          BY <1>2, <3>2
        <4> QED BY <1>1, <1>2, <3>2, <4>1, <4>2
      <3>4. Cut(Unsplit, <<e, 1>>, sep) = [Unsplit EXCEPT !.rest = r]
        BY <3>3 DEF Cut
      <3>5. after[1] = Cut(Unsplit, <<e, 1>>, sep)
        <4>1. after[1] = Cut(after[1 - 1], b[1], sep)
          BY <2>1
        <4> QED BY <1>1, <2>1, <4>1
      <3> QED BY <3>1, <3>4, <3>5 DEF Unsplit
    <2>3. after[2] = s2
      <3> DEFINE r == Append(s1.rest, <<e, 2>>)
      <3>1. r = b
        <4> DEFINE x == <<e, 1>>
                   y == <<e, 2>>
        <4>1. x \in Token /\ y \in Token /\ r = Append(<<x>>, y) /\ b = <<x, y>>
          BY TokensAre DEF Body
        <4> HIDE DEF x, y, r, b
        <4> QED BY <4>1, Short
      <3>2. r \in Seq(Token) /\ Len(r) = 2 /\ r[2] = <<e, 2>>
        BY <1>1, <3>1
      <3>3. ~ IsSuffix(sep, r)
        <4> HIDE DEF r
        <4>1. IsSuffix(sep, r) => \A i \in 1 .. Len(sep) : sep[i] = r[Len(r) - Len(sep) + i]
          BY <1>2, <3>2, SuffixIs
        <4>2. 1 \in 1 .. Len(sep) /\ Len(r) - Len(sep) + 1 = 2
          BY <1>2, <3>2
        <4> QED BY <1>1, <1>2, <3>2, <4>1, <4>2
      <3>4. Cut(s1, <<e, 2>>, sep) = [s1 EXCEPT !.rest = r]
        BY <3>3 DEF Cut
      <3>5. after[2] = Cut(s1, <<e, 2>>, sep)
        <4>1. 2 \in 1 .. 2 /\ 2 - 1 = 1
          OBVIOUS
        <4>2. after[2] = Cut(after[1], b[2], sep)
          BY <2>1, <4>1
        <4> HIDE DEF s1, b
        <4> QED BY <1>1, <2>2, <4>2, Zenon
      <3> QED BY <3>1, <3>4, <3>5
    <2> QED BY <2>1, <2>3
  <1>4. lines = <<b>>
    <2>1. s2.pieces = <<>> /\ s2.rest = b
      OBVIOUS
    <2> HIDE DEF s2, b
    <2>2. lines = Append(<<>>, b)
      BY <1>3, <2>1
    <2> QED BY <1>1, <2>2, Short
  <1>5. Messages(b) = taken[Len(lines)]
    BY DEF Messages
  <1>6. Len(lines) = 1 /\ lines[1] = b
    <2> HIDE DEF b, lines
    <2> QED BY <1>1, <1>4, Short
  <1> HIDE DEF lines
  <1>7. IsMessage(b) /\ b[1][1] = e
    BY <1>1 DEF IsMessage
  <1> HIDE DEF b
  <1>8. Path([n \in 0 .. 1 |-> IF n = 0 THEN <<>> ELSE <<e>>])
    <2> DEFINE g == [n \in 0 .. 1 |-> IF n = 0 THEN <<>> ELSE <<e>>]
    <2>1. g[0] = <<>> /\ g[1] = <<e>> /\ g[1] = Append(g[0], e)
      OBVIOUS
    <2>2. \A n \in 0 .. 1 : n = 0 \/ n = 1
      OBVIOUS
    <2>3. g = [n \in 0 .. 1 |-> IF n = 0 THEN <<>>
                                ELSE IF IsMessage(lines[n]) THEN Append(g[n - 1], lines[n][1][1])
                                ELSE g[n - 1]]
      BY <1>6, <1>7, <2>1, <2>2
    <2> QED BY <1>6, <2>3
  <1>9. Path(taken)
    BY <1>8
  <1> HIDE DEF taken
  <1>10. taken[0] = <<>> /\ taken[1] = Append(taken[0], e)
    <2>1. \A n \in 0 .. 1 : taken[n] = IF n = 0 THEN <<>>
                         ELSE IF IsMessage(lines[n]) THEN Append(taken[n - 1], lines[n][1][1])
                         ELSE taken[n - 1]
      BY <1>6, <1>9
    <2>2. taken[0] = <<>>
      BY <2>1
    <2>3. taken[1] = IF IsMessage(lines[1]) THEN Append(taken[0], lines[1][1][1])
                     ELSE taken[0]
      BY <2>1
    <2> QED BY <1>6, <1>7, <2>2, <2>3, Zenon
  <1>11. Append(<<>>, e) = <<e>>
    BY Short
  <1> QED BY <1>5, <1>6, <1>10, <1>11 DEF b

\* The messages of such blocks are handed on in their order.
LEMMA HandedOn ==
    ASSUME NEW before \in Seq(Event), NEW blocks, NEW ev \in Seq(Event),
           Len(blocks) = Len(ev), \A i \in 1 .. Len(ev) : blocks[i] = Body(ev[i])
    PROVE  HandOn(before, blocks) = before \o ev
  <1> DEFINE m == Len(ev)
             Some(n) == before \o SubSeq(ev, 1, n)
             Path(g) == g = [n \in 0 .. Len(blocks) |-> IF n = 0 THEN before
                                              ELSE g[n - 1] \o Messages(blocks[n])]
             all == CHOOSE g : Path(g)
  <1>1. m \in Nat /\ \A i \in 1 .. m : ev[i] \in Event
    BY LenProperties, ElementOfSeq
  <1>2. HandOn(before, blocks) = all[m]
    BY DEF HandOn
  <1>3. \A n \in 1 .. m : Messages(blocks[n]) = <<ev[n]>>
    BY <1>1, MessageOf
  <1>4. Some(0) = before /\ Some(m) = before \o ev
    <2>1. SubSeq(ev, 1, 0) = <<>> /\ SubSeq(ev, 1, m) = ev
      BY <1>1
    <2> QED BY <2>1
  <1>5. ASSUME NEW n \in 1 .. m
        PROVE  Some(n) = Some(n - 1) \o <<ev[n]>>
    <2> DEFINE a == SubSeq(ev, 1, n - 1)
    <2>1. a \in Seq(Event)
      BY <1>1, QueueSplit
    <2>2. SubSeq(ev, 1, n) = a \o <<ev[n]>>
      BY <1>1
    <2>3. <<ev[n]>> \in Seq(Event)
      BY <1>1
    <2> HIDE DEF a
    <2>4. before \o (a \o <<ev[n]>>) = (before \o a) \o <<ev[n]>>
      BY <2>1, <2>3, ConcatAssociative
    <2> QED BY <2>2, <2>4 DEF a
  <1> HIDE DEF Some, m
  <1>6. Path([n \in 0 .. m |-> Some(n)])
    <2> DEFINE g == [n \in 0 .. m |-> Some(n)]
    <2>0. \A n \in 0 .. m : g[n] = Some(n)
      OBVIOUS
    <2>1. \A n \in 1 .. m : g[n] = g[n - 1] \o Messages(blocks[n])
      <3> SUFFICES ASSUME NEW n \in 1 .. m
                   PROVE  g[n] = g[n - 1] \o Messages(blocks[n])
        OBVIOUS
      <3>1. n \in 0 .. m /\ n - 1 \in 0 .. m
        BY <1>1
      <3>2. g[n] = Some(n) /\ g[n - 1] = Some(n - 1)
        BY <2>0, <3>1
      <3> HIDE DEF g
      <3> QED BY <1>3, <1>5, <3>2
    <2>2. g[0] = before
      BY <1>1, <1>4
    <2>3. \A n \in 0 .. m : g[n] = IF n = 0 THEN before ELSE g[n - 1] \o Messages(blocks[n])
      BY <1>1, <2>1, <2>2
    <2>4. Len(blocks) = m
      BY DEF m
    <2> QED BY <2>3, <2>4
  <1>7. Path(all)
    BY <1>6
  <1> HIDE DEF all
  <1>8. /\ all[0] = before
        /\ \A n \in 1 .. m : all[n] = all[n - 1] \o <<ev[n]>>
    <2>0. Len(blocks) = m
      BY DEF m
    <2>1. \A n \in 0 .. m : all[n] = IF n = 0 THEN before
                                     ELSE all[n - 1] \o Messages(blocks[n])
      BY <1>7, <2>0
    <2>2. 0 \in 0 .. m /\ \A n \in 1 .. m : n \in 0 .. m /\ n # 0
      BY <1>1
    <2>3. \A n \in 1 .. m : all[n] = all[n - 1] \o Messages(blocks[n])
      BY <2>1, <2>2
    <2> QED BY <1>3, <2>1, <2>2, <2>3
  <1> DEFINE Bad == {n \in 0 .. m : all[n] # Some(n)}
  <1>9. ASSUME Bad # {} PROVE FALSE
    <2>1. PICK n \in Bad : \A k \in Bad : n <= k
      <3>1. Bad \subseteq Nat
        OBVIOUS
      <3> HIDE DEF Bad
      <3> QED BY <1>9, <3>1, LeastNumber
    <2>2. n \in 1 .. m /\ n - 1 \in 0 .. m
      BY <1>1, <1>4, <1>8, <2>1
    <2>3. all[n - 1] = Some(n - 1)
      BY <2>1, <2>2
    <2> QED BY <1>5, <1>8, <2>1, <2>2, <2>3
  <1>10. all[m] = Some(m)
    BY <1>1, <1>9
  <1> QED BY <1>2, <1>4, <1>10

-----------------------------------------------------------------------------
(* What is under way *)

\* On an open connection whose characters were not cut, the events that were not
\* handed on are in the buffer and on the line; the buffer has no whole event.
Ahead(left) ==
    /\ got \in Seq(Event) /\ left \in Seq(Event) /\ sent = got \o left
    /\ buffer \in Seq(Token) /\ line \in Seq(Token)
    /\ Len(buffer) <= 3
    /\ Len(buffer) + Len(line) = 4 * Len(left)
    /\ Spells(buffer \o line, left)

HInv == sse = "open" /\ ~torn => \E left : Ahead(left)

\* Joining two sequences.
LEMMA JoinIs ==
    ASSUME NEW T, NEW s \in Seq(T), NEW t \in Seq(T)
    PROVE  /\ s \o t \in Seq(T) /\ Len(s \o t) = Len(s) + Len(t)
           /\ Len(s) \in Nat /\ Len(t) \in Nat
           /\ \A i \in 1 .. Len(s) : (s \o t)[i] = s[i]
           /\ \A i \in 1 .. Len(t) : (s \o t)[Len(s) + i] = t[i]
  <1>1. /\ s \o t \in Seq(T) /\ Len(s \o t) = Len(s) + Len(t)
        /\ Len(s) \in Nat /\ Len(t) \in Nat
        /\ \A i \in 1 .. Len(s) + Len(t) :
              (s \o t)[i] = IF i <= Len(s) THEN s[i] ELSE t[i - Len(s)]
    BY ConcatProperties, LenProperties
  <1> DEFINE n == Len(s)
             m == Len(t)
             u == s \o t
  <1> HIDE DEF n, m, u
  <1>2. n \in Nat /\ m \in Nat /\ \A i \in 1 .. n + m : u[i] = IF i <= n THEN s[i] ELSE t[i - n]
    BY <1>1 DEF n, m, u
  <1>3. \A i \in 1 .. n : u[i] = s[i]
    BY <1>2
  <1>4. \A i \in 1 .. m : u[n + i] = t[i]
    <2> SUFFICES ASSUME NEW i \in 1 .. m PROVE u[n + i] = t[i]
      OBVIOUS
    <2>1. n + i \in 1 .. n + m /\ ~ (n + i <= n) /\ n + i - n = i
      BY <1>2
    <2> QED BY <1>2, <2>1
  <1> QED BY <1>1, <1>3, <1>4 DEF n, m, u

\* Cutting one in two.
LEMMA CutIs ==
    ASSUME NEW T, NEW s \in Seq(T), NEW n \in 0 .. Len(s)
    PROVE  LET a == SubSeq(s, 1, n)
               b == SubSeq(s, n + 1, Len(s))
           IN  /\ a \in Seq(T) /\ Len(a) = n /\ \A i \in 1 .. n : a[i] = s[i]
               /\ b \in Seq(T) /\ Len(b) = Len(s) - n
               /\ \A i \in 1 .. Len(s) - n : b[i] = s[n + i]
               /\ a \o b = s
  <1> DEFINE a == SubSeq(s, 1, n)
             b == SubSeq(s, n + 1, Len(s))
             m == Len(s)
  <1>1. a \in Seq(T) /\ b \in Seq(T) /\ a \o b = s
    BY QueueSplit
  <1>2. m \in Nat /\ n \in 0 .. m /\ \A i \in 1 .. m : s[i] \in T
    BY LenProperties, ElementOfSeq
  <1>3. Len(a) = n /\ \A i \in 1 .. n : a[i] = s[i]
    <2>1. \A i \in 1 .. n : s[i] \in T
      BY <1>2
    <2>2. /\ Len(a) = IF 1 <= n THEN n - 1 + 1 ELSE 0
          /\ \A i \in 1 .. n - 1 + 1 : a[i] = s[1 + i - 1]
      BY <1>2, <2>1, SubSeqProperties
    <2> HIDE DEF a
    <2> QED BY <1>2, <2>2
  <1>4. Len(b) = m - n /\ \A i \in 1 .. m - n : b[i] = s[n + i]
    <2> DEFINE k == n + 1
    <2>0. k \in Nat /\ k = n + 1
      BY <1>2
    <2>1. \A i \in k .. m : s[i] \in T
      BY <1>2
    <2>2. b = SubSeq(s, k, m)
      OBVIOUS
    <2> HIDE DEF b, k
    <2>3. /\ Len(b) = IF k <= m THEN m - k + 1 ELSE 0
          /\ \A i \in 1 .. m - k + 1 : b[i] = s[k + i - 1]
      <3> HIDE DEF m
      <3> QED BY <1>2, <2>0, <2>1, <2>2, SubSeqProperties
    <2> HIDE DEF m
    <2>4. \A i \in 1 .. m - n : k + i - 1 = n + i
      BY <1>2, <2>0
    <2>5. m - k + 1 = m - n
      BY <1>2, <2>0
    <2> QED BY <1>2, <2>0, <2>3, <2>4, <2>5
  <1> QED BY <1>1, <1>3, <1>4 DEF m

LEMMA ConnectAhead ==
    ASSUME Connect
    PROVE  Ahead(<<>>)'
  <1>1. sent' = <<>> /\ got' = <<>> /\ buffer' = <<>> /\ line' = <<>>
    BY DEF Connect
  <1>2. /\ \A T : <<>> \in Seq(T)
        /\ Len(<<>>) = 0 /\ <<>> \o <<>> = <<>>
    BY EmptySeq
  <1>3. Spells(<<>>, <<>>)
    BY <1>2 DEF Spells
  <1>4. Spells(buffer' \o line', <<>>)
    BY <1>1, <1>2, <1>3
  <1> QED BY <1>1, <1>2, <1>4 DEF Ahead

\* What the server sends comes after what is under way.
LEMMA SendAhead ==
    ASSUME NEW left, Ahead(left), NEW e \in Event, ServerSends(e)
    PROVE  Ahead(Append(left, e))'
  <1> DEFINE more == Append(left, e)
             four == Tokens(e)
             text == buffer \o line
             next == text \o four
             n == Len(left)
  <1>1. /\ got \in Seq(Event) /\ left \in Seq(Event) /\ sent = got \o left
        /\ buffer \in Seq(Token) /\ line \in Seq(Token) /\ Len(buffer) <= 3
        /\ Len(buffer) + Len(line) = 4 * n /\ Spells(text, left)
    BY DEF Ahead
  <1>2. four \in Seq(Token) /\ Len(four) = 4
    BY TokensAre
  <1>3. line' = line \o four /\ buffer' = buffer /\ got' = got /\ sent' = Append(sent, e)
    BY DEF ServerSends, parser
  <1>4. /\ more \in Seq(Event) /\ Len(more) = n + 1 /\ more[n + 1] = e
        /\ \A i \in 1 .. n : more[i] = left[i]
        /\ n \in Nat
    BY <1>1, AppendProperties, LenProperties
  <1> HIDE DEF four
  <1>5. sent' = got' \o more
    <2>1. Append(got \o left, e) = got \o Append(left, e)
      <3>1. <<e>> \in Seq(Event)
        OBVIOUS
      <3>2. got \o left \in Seq(Event)
        BY <1>1, JoinIs, Zenon
      <3>3. /\ Append(got \o left, e) = (got \o left) \o <<e>>
            /\ Append(left, e) = left \o <<e>>
        BY <1>1, <3>2, AppendIsConcat, Zenon
      <3>4. (got \o left) \o <<e>> = got \o (left \o <<e>>)
        <4> DEFINE one == <<e>>
        <4>1. got \in Seq(Event) /\ left \in Seq(Event) /\ one \in Seq(Event)
          BY <1>1, <3>1
        <4> HIDE DEF one
        <4>2. (got \o left) \o one = got \o (left \o one)
          BY <4>1, ConcatAssociative
        <4> QED BY <4>2 DEF one
      <3> QED BY <3>3, <3>4, Zenon
    <2> QED BY <1>1, <1>3, <2>1
  <1>6. /\ line' \in Seq(Token) /\ Len(line') = Len(line) + 4
        /\ Len(line) \in Nat /\ Len(buffer) \in Nat
    <2>1. /\ line \o four \in Seq(Token) /\ Len(line \o four) = Len(line) + Len(four)
          /\ Len(line) \in Nat
      BY <1>1, <1>2, JoinIs, Zenon
    <2>2. Len(buffer) \in Nat
      BY <1>1, LenProperties, Zenon
    <2> QED BY <1>2, <1>3, <2>1, <2>2, Zenon
  <1>7. buffer' \o line' = next
    <2>1. (buffer \o line) \o four = buffer \o (line \o four)
      <3>1. buffer \in Seq(Token) /\ line \in Seq(Token) /\ four \in Seq(Token)
        BY <1>1, <1>2
      <3> QED BY <3>1, ConcatAssociative
    <2> QED BY <1>3, <2>1, Zenon
  <1>8. text \in Seq(Token) /\ Len(text) = 4 * n
    BY <1>1, JoinIs
  <1> HIDE DEF text
  <1>9. /\ Len(next) = 4 * n + 4
        /\ \A i \in 1 .. 4 * n : next[i] = text[i]
        /\ \A i \in 1 .. 4 : next[4 * n + i] = four[i]
    <2>1. /\ Len(next) = Len(text) + Len(four)
          /\ \A i \in 1 .. Len(text) : next[i] = text[i]
          /\ \A i \in 1 .. Len(four) : next[Len(text) + i] = four[i]
      <3>1. text \in Seq(Token) /\ four \in Seq(Token)
        BY <1>2, <1>8
      <3> QED BY <3>1, JoinIs
    <2> HIDE DEF next
    <2> QED BY <1>2, <1>8, <2>1
  <1> HIDE DEF next, more, n
  <1>10. ASSUME NEW k \in 1 .. n + 1, NEW j \in 1 .. 4
         PROVE  next[4 * (k - 1) + j] = Tokens(more[k])[j]
    <2>1. CASE k = n + 1
      <3>1. 4 * (k - 1) + j = 4 * n + j
        BY <1>4, <2>1
      <3>2. next[4 * n + j] = four[j]
        BY <1>9
      <3> QED BY <1>4, <2>1, <3>1, <3>2 DEF four
    <2>2. CASE k # n + 1
      <3>1. k \in 1 .. n /\ 4 * (k - 1) + j \in 1 .. 4 * n
        BY <1>4, <2>2
      <3>2. text[4 * (k - 1) + j] = Tokens(left[k])[j]
        <4>1. \A x \in 1 .. n, y \in 1 .. 4 :
                 4 * (x - 1) + y <= Len(text) => text[4 * (x - 1) + y] = Tokens(left[x])[y]
          BY <1>1 DEF Spells, n
        <4>2. 4 * (k - 1) + j <= Len(text)
          <5>1. Len(text) = 4 * n
            BY <1>8 DEF n
          <5> QED BY <3>1, <5>1
        <4> QED BY <3>1, <4>1, <4>2
      <3>3. next[4 * (k - 1) + j] = text[4 * (k - 1) + j]
        BY <1>9, <3>1
      <3> QED BY <1>4, <3>1, <3>2, <3>3
    <2> QED BY <2>1, <2>2
  <1>11. 4 * (n + 1) = 4 * n + 4
    BY <1>4
  <1>12. Spells(next, more)
    BY <1>4, <1>9, <1>10, <1>11 DEF Spells
  <1>13. Len(buffer') + Len(line') = 4 * Len(more)
    <2>1. Len(buffer) + (Len(line) + 4) = (Len(buffer) + Len(line)) + 4
      BY <1>6
    <2> QED BY <1>1, <1>3, <1>4, <1>6, <1>11, <2>1 DEF n
  <1> QED BY <1>1, <1>3, <1>4, <1>5, <1>6, <1>7, <1>12, <1>13 DEF Ahead, more

\* The events a chunk completes are handed on; the rest stays ahead.
LEMMA ReceiveAhead ==
    ASSUME NEW left, Ahead(left), NEW n \in 1 .. Len(line), Receive(n),
           Utf8(SubSeq(line, 1, n))
    PROVE  \E more : Ahead(more)'
  <1> DEFINE chunk == SubSeq(line, 1, n)
             tail == SubSeq(line, n + 1, Len(line))
             text == buffer \o chunk
             p == Parse(text)
             K == Len(p.pieces)
             R == Len(p.rest)
             B == Len(buffer)
             L == Len(line)
             M == Len(left)
             first == SubSeq(left, 1, K)
             more == SubSeq(left, K + 1, Len(left))
  <1>1. /\ got \in Seq(Event) /\ left \in Seq(Event) /\ sent = got \o left
        /\ buffer \in Seq(Token) /\ line \in Seq(Token) /\ B <= 3
        /\ B + L = 4 * M /\ Spells(buffer \o line, left)
    BY DEF Ahead
  <1>2. /\ line' = tail /\ buffer' = p.rest /\ got' = HandOn(got, p.pieces)
        /\ sent' = sent
    BY DEF Receive
  <1>3. L \in Nat /\ B \in Nat /\ M \in Nat /\ n \in 1 .. L
    BY <1>1, LenProperties
  <1>4. /\ chunk \in Seq(Token) /\ Len(chunk) = n /\ \A i \in 1 .. n : chunk[i] = line[i]
        /\ tail \in Seq(Token) /\ Len(tail) = L - n
        /\ \A i \in 1 .. L - n : tail[i] = line[n + i]
    BY <1>1, <1>3, CutIs
  <1> HIDE DEF chunk, tail
  <1>5. /\ text \in Seq(Token) /\ Len(text) = B + n
        /\ \A i \in 1 .. B : text[i] = buffer[i]
        /\ \A i \in 1 .. n : text[B + i] = line[i]
    <2>1. buffer \in Seq(Token) /\ chunk \in Seq(Token)
      BY <1>1, <1>4
    <2>2. /\ text \in Seq(Token) /\ Len(text) = Len(buffer) + Len(chunk)
          /\ \A i \in 1 .. Len(buffer) : text[i] = buffer[i]
          /\ \A i \in 1 .. Len(chunk) : text[Len(buffer) + i] = chunk[i]
      BY <2>1, JoinIs
    <2> HIDE DEF text
    <2> QED BY <1>4, <2>2
  <1> HIDE DEF text
  <1> DEFINE whole == buffer \o line
  <1>6. /\ Len(whole) = 4 * M
        /\ \A i \in 1 .. B : whole[i] = buffer[i]
        /\ \A i \in 1 .. L : whole[B + i] = line[i]
    BY <1>1, JoinIs
  <1>7. Spells(whole, left)
    BY <1>1
  <1> HIDE DEF whole
  <1>8. \A i \in 1 .. B + n : text[i] = whole[i]
    <2> SUFFICES ASSUME NEW i \in 1 .. B + n PROVE text[i] = whole[i]
      OBVIOUS
    <2> HIDE DEF B, L
    <2>1. CASE i <= B
      <3>1. i \in 1 .. B
        BY <1>3, <2>1
      <3> QED BY <1>5, <1>6, <3>1
    <2>2. CASE ~ (i <= B)
      <3>1. i - B \in 1 .. n /\ i - B \in 1 .. L /\ B + (i - B) = i
        BY <1>3, <2>2
      <3>2. text[B + (i - B)] = line[i - B] /\ whole[B + (i - B)] = line[i - B]
        BY <1>5, <1>6, <3>1
      <3> QED BY <3>1, <3>2
    <2> QED BY <2>1, <2>2
  <1>9. \A k \in 1 .. M, j \in 1 .. 4 :
           4 * (k - 1) + j \in 1 .. 4 * M /\ whole[4 * (k - 1) + j] = Tokens(left[k])[j]
    <2> SUFFICES ASSUME NEW k \in 1 .. M, NEW j \in 1 .. 4
                 PROVE  4 * (k - 1) + j \in 1 .. 4 * M
                        /\ whole[4 * (k - 1) + j] = Tokens(left[k])[j]
      OBVIOUS
    <2> HIDE DEF M
    <2>1. 4 * (k - 1) + j \in 1 .. 4 * M
      BY <1>3
    <2>2. 4 * (k - 1) + j <= 4 * M
      BY <1>3, <2>1
    <2> QED BY <1>6, <1>7, <2>1, <2>2 DEF Spells, M
  <1>10. Spells(text, left)
    <2>1. B + n <= 4 * M
      <3> HIDE DEF B, L, M
      <3> QED BY <1>1, <1>3
    <2>2. ASSUME NEW k \in 1 .. M, NEW j \in 1 .. 4, 4 * (k - 1) + j <= B + n
          PROVE  text[4 * (k - 1) + j] = Tokens(left[k])[j]
      <3>1. 4 * (k - 1) + j \in 1 .. B + n
        <4>1. 4 * (k - 1) + j \in Nat \ {0}
          BY <1>3, <1>9
        <4> HIDE DEF B
        <4> QED BY <1>3, <2>2, <4>1
      <3> QED BY <1>8, <1>9, <3>1
    <2> QED BY <1>5, <2>1, <2>2 DEF Spells
  <1>11. /\ p.pieces \in Seq(Seq(Token)) /\ p.rest \in Seq(Token)
         /\ B + n = 4 * K + R /\ R <= 3
         /\ \A i \in 1 .. K : p.pieces[i] = Body(left[i])
         /\ \A j \in 1 .. R : p.rest[j] = Tokens(left[K + 1])[j]
    BY <1>1, <1>5, <1>10, ParseStream DEF Parsed, Splits
  <1> HIDE DEF p
  <1>12. K \in Nat /\ R \in Nat
    BY <1>11, LenProperties
  <1>13. K \in 0 .. M
    <2> HIDE DEF B, L, M, K, R
    <2> QED BY <1>1, <1>3, <1>11, <1>12
  <1>14. /\ first \in Seq(Event) /\ Len(first) = K /\ \A i \in 1 .. K : first[i] = left[i]
         /\ more \in Seq(Event) /\ Len(more) = M - K
         /\ \A i \in 1 .. M - K : more[i] = left[K + i]
         /\ first \o more = left
    <2> HIDE DEF K
    <2> QED BY <1>1, <1>13, CutIs
  <1> HIDE DEF first, more
  <1>15. got' = got \o first
    <2>1. \A i \in 1 .. Len(first) : p.pieces[i] = Body(first[i])
      BY <1>11, <1>14
    <2> QED BY <1>1, <1>2, <1>14, <2>1, HandedOn
  <1>16. got' \in Seq(Event) /\ sent' = got' \o more
    <2>1. got \o first \in Seq(Event)
      BY <1>1, <1>14, JoinIs
    <2>2. got \o (first \o more) = (got \o first) \o more
      <3>1. got \in Seq(Event) /\ first \in Seq(Event) /\ more \in Seq(Event)
        BY <1>1, <1>14
      <3> QED BY <3>1, ConcatAssociative
    <2> QED BY <1>1, <1>2, <1>14, <1>15, <2>1, <2>2
  <1> DEFINE after == p.rest \o tail
  <1>17. /\ Len(after) = R + (L - n)
         /\ \A i \in 1 .. R : after[i] = p.rest[i]
         /\ \A i \in 1 .. L - n : after[R + i] = line[n + i]
    <2> DEFINE rest == p.rest
    <2>1. rest \in Seq(Token) /\ tail \in Seq(Token) /\ R = Len(rest) /\ after = rest \o tail
      BY <1>4, <1>11
    <2>2. /\ Len(rest \o tail) = Len(rest) + Len(tail)
          /\ \A i \in 1 .. Len(rest) : (rest \o tail)[i] = rest[i]
          /\ \A i \in 1 .. Len(tail) : (rest \o tail)[Len(rest) + i] = tail[i]
      <3> HIDE DEF rest
      <3> QED BY <2>1, JoinIs
    <2>3. Len(after) = R + Len(tail) /\ \A i \in 1 .. Len(tail) : after[R + i] = tail[i]
      BY <2>2
    <2>4. \A i \in 1 .. R : after[i] = p.rest[i]
      BY <2>2
    <2> HIDE DEF after, rest, R
    <2> QED BY <1>4, <2>3, <2>4
  <1> HIDE DEF after
  <1>18. R + (L - n) = 4 * (M - K)
    <2> HIDE DEF B, L, M, K, R
    <2> QED BY <1>1, <1>3, <1>11, <1>12
  <1>19. ASSUME NEW i \in 1 .. 4 * (M - K)
         PROVE  after[i] = whole[4 * K + i]
    <2> HIDE DEF B, L, M, K, R
    <2>1. CASE i <= R
      <3>1. i \in 1 .. R /\ i \in 1 .. 4 /\ K + 1 \in 1 .. M /\ 4 * ((K + 1) - 1) + i = 4 * K + i
        BY <1>3, <1>11, <1>12, <1>13, <2>1
      <3>2. whole[4 * ((K + 1) - 1) + i] = Tokens(left[K + 1])[i]
        BY <1>9, <3>1
      <3> QED BY <1>11, <1>17, <3>1, <3>2
    <2>2. CASE ~ (i <= R)
      <3>1. i - R \in 1 .. L - n /\ R + (i - R) = i
        BY <1>3, <1>12, <1>13, <1>18, <2>2
      <3>2. n + (i - R) \in 1 .. L /\ B + (n + (i - R)) = 4 * K + i
        BY <1>3, <1>11, <1>12, <1>13, <3>1
      <3>3. after[R + (i - R)] = line[n + (i - R)]
        BY <1>17, <3>1
      <3>4. whole[B + (n + (i - R))] = line[n + (i - R)]
        BY <1>6, <3>2
      <3> QED BY <3>1, <3>2, <3>3, <3>4
    <2> QED BY <2>1, <2>2
  <1>20. Spells(after, more)
    <2>1. ASSUME NEW k \in 1 .. M - K, NEW j \in 1 .. 4
          PROVE  after[4 * (k - 1) + j] = Tokens(more[k])[j]
      <3> HIDE DEF M, K
      <3>1. /\ 4 * (k - 1) + j \in 1 .. 4 * (M - K) /\ K + k \in 1 .. M
            /\ 4 * K + (4 * (k - 1) + j) = 4 * ((K + k) - 1) + j
        BY <1>3, <1>13
      <3>2. after[4 * (k - 1) + j] = whole[4 * ((K + k) - 1) + j]
        BY <1>19, <3>1
      <3>3. whole[4 * ((K + k) - 1) + j] = Tokens(left[K + k])[j]
        BY <1>9, <3>1
      <3> QED BY <1>14, <3>2, <3>3
    <2>2. Len(after) = 4 * Len(more)
      BY <1>14, <1>17, <1>18
    <2>3. 4 * Len(more) \in Nat
      <3> HIDE DEF M, K
      <3> QED BY <1>3, <1>13, <1>14
    <2> QED BY <1>14, <2>1, <2>2, <2>3 DEF Spells
  <1>21. Len(buffer') + Len(line') = 4 * Len(more) /\ Len(buffer') <= 3
    BY <1>2, <1>4, <1>11, <1>14, <1>18
  <1>22. buffer' \in Seq(Token) /\ line' \in Seq(Token) /\ more \in Seq(Event)
    BY <1>2, <1>4, <1>11, <1>14
  <1>23. Spells(buffer' \o line', more)
    BY <1>2, <1>20 DEF after
  <1>24. PICK coming : coming = more
    OBVIOUS
  <1>25. Ahead(coming)'
    <2> HIDE DEF chunk, B, L, M, K, R
    <2> QED BY <1>16, <1>21, <1>22, <1>23, <1>24 DEF Ahead
  <1> QED BY <1>25

LEMMA InitHInv == Init => HInv
  BY DEF Init, HttpInit, HInv

\* The connection is as it was, or it is not open.
LEMMA QuietHInv ==
    ASSUME HInv, UNCHANGED <<line, sent, parser>>, sse' = "open" => sse = "open"
    PROVE  HInv'
  <1>1. UNCHANGED <<line, sent, buffer, got, torn>>
    BY DEF parser
  <1>2. CASE sse' = "open" /\ ~ torn'
    <2>1. PICK left : Ahead(left)
      BY <1>1, <1>2 DEF HInv
    <2>2. Ahead(left)'
      BY <1>1, <2>1 DEF Ahead
    <2> QED BY <2>2 DEF HInv
  <1>3. CASE ~ (sse' = "open" /\ ~ torn')
    BY <1>3 DEF HInv
  <1> QED BY <1>2, <1>3

LEMMA StepHInv == HInv /\ [Next]_vars => HInv'
  <1> SUFFICES ASSUME HInv, [Next]_vars PROVE HInv'
    OBVIOUS
  <1>1. CASE UNCHANGED httpVars
    <2>1. UNCHANGED <<line, sent, parser>> /\ sse' = sse
      BY <1>1 DEF httpVars, parser
    <2> QED BY <2>1, QuietHInv
  <1>2. CASE HttpStop \/ Refused \/ Disconnect \/ Retry
    <2>1. UNCHANGED <<line, sent, parser>> /\ (sse' = "open" => sse = "open")
      BY <1>2 DEF HttpStop, Refused, Disconnect, Retry
    <2> QED BY <2>1, QuietHInv
  <1>3. CASE HttpStart
    BY <1>3 DEF HttpStart, HInv
  <1>4. CASE Connect
    BY <1>4, ConnectAhead DEF HInv
  <1>5. ASSUME NEW e \in Event, ServerSends(e) PROVE HInv'
    <2>1. sse = "open" /\ torn' = torn
      BY <1>5 DEF ServerSends, parser
    <2>2. CASE ~ torn
      <3>1. PICK left : Ahead(left)
        BY <2>1, <2>2 DEF HInv
      <3> QED BY <1>5, <3>1, SendAhead DEF HInv
    <2>3. CASE torn
      BY <2>1, <2>3 DEF HInv
    <2> QED BY <2>2, <2>3
  <1>6. ASSUME NEW n \in 1 .. Len(line), Receive(n) PROVE HInv'
    <2>1. /\ sse' = "open" => sse = "open"
          /\ ~ torn' => ~ torn /\ Utf8(SubSeq(line, 1, n))
      BY <1>6 DEF Receive
    <2>2. CASE sse' = "open" /\ ~ torn'
      <3>1. PICK left : Ahead(left)
        BY <2>1, <2>2 DEF HInv
      <3> QED BY <1>6, <2>1, <2>2, <3>1, ReceiveAhead DEF HInv
    <2>3. CASE ~ (sse' = "open" /\ ~ torn')
      BY <2>3 DEF HInv
    <2> QED BY <2>2, <2>3
  <1>7. CASE HttpNext
    BY <1>1, <1>2, <1>3, <1>4, <1>5, <1>6, <1>7 DEF HttpNext
  <1> QED BY <1>1, <1>7 DEF Next, vars

\* However the stream is cut into chunks, and whenever connections end and start
\* again, the events of a connection reach the callback once each, in order, and no
\* later than with the last of their bytes, unless a cut went through a character
\* (the buffer of stream_sse).
THEOREM StreamsAreFaithful == Spec => []StreamFaithful
  <1>1. HInv => StreamFaithful
    <2> SUFFICES ASSUME HInv, sse = "open", ~ torn
                 PROVE  IF line = <<>> THEN got = sent ELSE IsPrefix(got, sent)
      BY DEF StreamFaithful
    <2>1. PICK left : Ahead(left)
      BY DEF HInv
    <2>2. /\ got \in Seq(Event) /\ left \in Seq(Event) /\ sent = got \o left
          /\ Len(buffer) \in Nat /\ Len(line) \in Nat /\ Len(left) \in Nat
          /\ Len(buffer) <= 3 /\ Len(buffer) + Len(line) = 4 * Len(left)
      BY <2>1, LenProperties DEF Ahead
    <2>3. CASE line = <<>>
      <3>1. Len(line) = 0
        BY <2>3
      <3>2. Len(left) = 0
        BY <2>2, <3>1
      <3>3. left = <<>>
        BY <2>2, <3>2, EmptySeq
      <3>4. got \o <<>> = got
        BY <2>2
      <3> QED BY <2>2, <2>3, <3>3, <3>4
    <2>4. CASE line # <<>>
      <3>1. Len(got) <= Len(sent) /\ SubSeq(got, 1, Len(got)) = SubSeq(sent, 1, Len(got))
        <4> DEFINE n == Len(got)
                   a == SubSeq(got, 1, n)
                   b == SubSeq(sent, 1, n)
        <4>1. /\ sent \in Seq(Event) /\ n \in Nat /\ n \in 0 .. Len(sent)
              /\ n \in 0 .. Len(got)
              /\ \A i \in 1 .. n : sent[i] = got[i]
          BY <2>2, JoinIs
        <4>2. a \in Seq(Event) /\ Len(a) = n /\ \A i \in 1 .. n : a[i] = got[i]
          BY <2>2, <4>1, CutIs
        <4>3. b \in Seq(Event) /\ Len(b) = n /\ \A i \in 1 .. n : b[i] = sent[i]
          <5> HIDE DEF n
          <5> QED BY <4>1, CutIs
        <4> HIDE DEF a, b
        <4>4. a = b
          BY <4>1, <4>2, <4>3, SeqEqual
        <4> QED BY <4>1, <4>4 DEF a, b
      <3> QED BY <2>4, <3>1 DEF IsPrefix
    <2> QED BY <2>3, <2>4
  <1> QED BY <1>1, InitHInv, StepHInv, PTL DEF Spec
=============================================================================
