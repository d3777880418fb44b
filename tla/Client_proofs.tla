---------------------------- MODULE Client_proofs ----------------------------
(***************************************************************************)
(* The properties of Client, for any processes, calls, functions, values,  *)
(* settlements, schedules, and bounds.  IInv is the inductive invariant;   *)
(* what the server does is told by the lemmas of ServerState_proofs.       *)
(***************************************************************************)
EXTENDS Client, ServerState_proofs, SequenceTheorems, FiniteSetTheorems

\* No promise of the facade is a timer, and every task is that of a promise with
\* an address.
Untimed(s) == \A i \in Id : s.promises[i].timer = FALSE
Aimed(s) == \A i \in Id : HasTask(s, i) => s.promises[i].target

Tables ==
    /\ DOMAIN param = Id /\ DOMAIN value = Id
    /\ DOMAIN asked = Id /\ DOMAIN outcome = Id

\* Between two requests nothing waits to be sent.
Sound(s) == Inv(s) /\ s.outgoing = {} /\ Untimed(s) /\ Aimed(s)
ServerSound == Sound(srv) /\ clock \in Nat

\* A promise with an address has the param that names the function asked for; so
\* have the promises a schedule is going to make.
ParamsAsked == \A i \in Id :
    HasPromise(srv, i) /\ srv.promises[i].target => param[i] = Param(asked[i])
SchedulesAsked ==
    /\ DOMAIN schedules = RootId
    /\ \A n \in RootId :
          schedules[n] # NoSchedule => schedules[n].param = Param(schedules[n].func)

\* A handle that gets this record returns what was meant.
Reads(state, json, meaning) == DecodeResult(state, ValueToWire(Deserialize(json))) = meaning
ValuesMeant == \A i \in Id :
    srv.promises[i].state \in SettleState =>
        Reads(srv.promises[i].state, value[i], outcome[i])

\* This is the record of promise i, and final.
IsRecord(i, state, json) ==
    /\ srv.promises[i].state \in Settled
    /\ state = srv.promises[i].state /\ json = value[i]

MessagesTrue == \A m \in messages :
    /\ m.id \in Id
    /\ m.kind = "unblock" => IsRecord(m.id, m.state, m.value)

EntryTrue(e, i) ==
    \/ e \in {NoEntry, Waiting}
    \/ /\ srv.promises[i].state \in Settled
       /\ e = EntryOf(srv.promises[i].state, value[i])
EntriesTrue ==
    /\ DOMAIN subs = Pid
    /\ \A p \in Pid : DOMAIN subs[p] = Id /\ \A i \in Id : EntryTrue(subs[p][i], i)

\* A version under which something started is behind the rank of its task.
StartsBehind == \A x \in started :
    x.id \in Id /\ x.version \in Nat /\ 2 * x.version + 1 <= Rank(srv, x.id)

Calling ==
    /\ call \in [Call -> [phase : {"idle", "look", "held", "failed"},
                          pid : Pid \cup {NoPid}, id : Id \cup {<<>>}]]
    /\ \A c \in Call : call[c].phase = "look" => call[c].pid \in Pid /\ call[c].id \in Id

IInv ==
    /\ Tables /\ ServerSound
    /\ ParamsAsked /\ SchedulesAsked /\ ValuesMeant
    /\ MessagesTrue /\ EntriesTrue
    /\ StartsBehind /\ RunsWhatWasAsked
    /\ Calling
    /\ \A x \in exec : x.id \in Id

-----------------------------------------------------------------------------
(* The way of a value through codec and handle *)

\* A JSON value that got a head.
LEMMA Headed ==
    ASSUME NEW S, NEW h \in S, NEW d \in Seq(S)
    PROVE  LET j == <<h>> \o d
           IN  /\ j \in Seq(S) /\ j # <<>>
               /\ Len(j) = Len(d) + 1 /\ j[1] = h
               /\ Head(j) = h /\ Tail(j) = d
  <1> DEFINE j == <<h>> \o d
  <1>1. <<h>> \in Seq(S) /\ Len(<<h>>) = 1 /\ <<h>>[1] = h
    OBVIOUS
  <1>2. Len(d) \in Nat
    OBVIOUS
  <1>3. /\ j \in Seq(S) /\ Len(j) = 1 + Len(d)
        /\ \A k \in 1 .. 1 + Len(d) : j[k] = IF k <= 1 THEN h ELSE d[k - 1]
    <2>1. /\ j \in Seq(S) /\ Len(j) = Len(<<h>>) + Len(d)
          /\ \A k \in 1 .. Len(<<h>>) + Len(d) :
                j[k] = IF k <= Len(<<h>>) THEN <<h>>[k] ELSE d[k - Len(<<h>>)]
      BY <1>1, ConcatProperties
    <2> HIDE DEF j
    <2> QED BY <1>1, <1>2, <2>1
  <1> HIDE DEF j
  <1>4. j # <<>> /\ j[1] = h
    BY <1>2, <1>3
  <1>5. Head(j) = h
    BY <1>4 DEF Head
  <1>6. Tail(j) = d
    <2>1. /\ Tail(j) \in Seq(S) /\ Len(Tail(j)) = Len(j) - 1
          /\ \A k \in 1 .. Len(Tail(j)) : Tail(j)[k] = j[k + 1]
      BY <1>3, <1>4, HeadTailProperties
    <2>2. Len(Tail(j)) = Len(d)
      BY <1>2, <1>3, <2>1
    <2>3. \A k \in 1 .. Len(Tail(j)) : Tail(j)[k] = d[k]
      BY <1>2, <1>3, <2>1, <2>2
    <2> QED BY <2>1, <2>2, <2>3, SeqEqual
  <1> QED BY <1>2, <1>3, <1>4, <1>5, <1>6 DEF j

\* What Encode makes of a value, Decode undoes.
LEMMA Encoded ==
    ASSUME NEW S, {"null", "empty", "b64"} \subseteq S, NEW d \in Seq(S)
    PROVE  LET e == Encode(d)
           IN  /\ e \in Seq(S) /\ e # <<>>
               /\ e = EmptyString \/ e[1] = "b64"
               /\ Decode(e) = d
  <1> DEFINE e == Encode(d)
             j == <<"b64">> \o d
  <1>1. CASE d = Null
    <2>1. e = EmptyString
      BY <1>1 DEF Encode
    <2>2. EmptyString \in Seq(S) /\ EmptyString # <<>> /\ EmptyString # Null
      BY DEF EmptyString, Null
    <2> HIDE DEF e
    <2>3. Head(EmptyString) # "b64"
      BY DEF EmptyString
    <2>4. DecodeString(EmptyString) = Null
      BY <2>3 DEF DecodeString
    <2>5. Decode(e) = d
      BY <1>1, <2>1, <2>2, <2>4 DEF Decode
    <2> QED BY <2>1, <2>2, <2>5 DEF e
  <1>2. CASE d # Null
    <2>1. e = j
      BY <1>2 DEF Encode
    <2>2. /\ j \in Seq(S) /\ j # <<>> /\ j[1] = "b64"
          /\ Head(j) = "b64" /\ Tail(j) = d
      BY Headed
    <2> HIDE DEF j
    <2>3. j # Null /\ j # EmptyString
      BY <2>2 DEF Null, EmptyString
    <2> QED BY <2>1, <2>2, <2>3 DEF Decode, DecodeString
  <1> QED BY <1>1, <1>2

\* What is stored for a value reads as the value, on a worker and for a handle.
LEMMA RoundTrip ==
    ASSUME NEW S, {"null", "empty", "b64", "object"} \subseteq S, NEW d \in Seq(S)
    PROVE  LET json == Serialize({Encode(d)})
           IN  /\ Decoded(json) = d
               /\ DecodeValue(ValueToWire(Deserialize(json))) = d
  <1> DEFINE e == Encode(d)
             j == <<"object">> \o e
  <1>1. /\ e \in Seq(S) /\ e # <<>>
        /\ e = EmptyString \/ e[1] = "b64"
        /\ Decode(e) = d
    BY Encoded
  <1> HIDE DEF e
  <1>2. DataOrNull({e}) = e
    BY DEF DataOrNull
  <1>3. Serialize({e}) = j
    BY <1>2 DEF Serialize
  <1>4. /\ j \in Seq(S) /\ j # <<>> /\ Len(j) = Len(e) + 1 /\ j[1] = "object"
        /\ Head(j) = "object" /\ Tail(j) = e
    BY <1>1, Headed
  <1> HIDE DEF j
  <1>5. j # Null
    BY <1>4 DEF Null
  <1>6. Deserialize(j) = {e}
    BY <1>1, <1>4, <1>5 DEF Deserialize
  <1>7. Decoded(j) = d
    BY <1>1, <1>2, <1>6 DEF Decoded
  <1>8. ValueToWire({e}) = j
    BY <1>2 DEF ValueToWire, j
  <1>9. Len(e) \in Nat \ {0} /\ Len(j) # 1
    BY <1>1, <1>4
  <1>10. e # EmptyString => j[2] = "b64"
    <2>1. Tail(j)[1] = j[2]
      BY <1>1, <1>4, <1>9, HeadTailProperties
    <2> QED BY <1>1, <1>4, <2>1
  <1>11. DecodeValue(j) = d
    BY <1>1, <1>4, <1>9, <1>10 DEF DecodeValue
  <1> QED BY <1>3, <1>6, <1>7, <1>8, <1>11 DEF e

-----------------------------------------------------------------------------
(* What a request, with the expirations before it, makes of the server *)

\* Of the promises only those of S are settled otherwise than by their deadlines,
\* and only those of N are created.
Follows(s, t, S, N) ==
    /\ Inv(t) /\ Evolves(s, t) /\ Tells(s, t)
    /\ Untimed(t) /\ Aimed(t)
    /\ \A i \in Id : HasPromise(s, i) =>
          HasPromise(t, i) /\ t.promises[i].target = s.promises[i].target
    /\ \A i \in Id \ S : t.promises[i].state \in SettleState =>
                            s.promises[i].state = t.promises[i].state
    /\ \A i \in Id \ N : HasPromise(t, i) => HasPromise(s, i)

\* What was followed by deadlines is followed by what a handler then does.
LEMMA FollowsThen ==
    ASSUME NEW s, NEW b, NEW t, NEW S, NEW N, NEW now, Inv(s),
           Follows(s, b, {}, {}), Passes(s, b, now), Follows(b, t, S, N)
    PROVE  Follows(s, t, S, N)
  <1>1. Inv(b) /\ Inv(t) /\ Untimed(t) /\ Aimed(t)
    BY DEF Follows
  <1>2. Evolves(s, t)
    BY <1>1, EvolvesTransitive DEF Follows
  <1>3. \A i \in Id : b.promises[i].state \in Settled =>
                         t.promises[i].state = b.promises[i].state
    BY DEF Follows, Evolves
  <1>4. Tells(s, t)
    BY <1>3, PassesThen DEF Follows
  <1>5. \A i \in Id : HasPromise(s, i) =>
          HasPromise(t, i) /\ t.promises[i].target = s.promises[i].target
    BY DEF Follows
  <1>6. \A i \in Id \ S : t.promises[i].state \in SettleState =>
                             s.promises[i].state = t.promises[i].state
    BY DEF Follows
  <1>7. \A i \in Id \ N : HasPromise(t, i) => HasPromise(s, i)
    BY DEF Follows
  <1> QED BY <1>1, <1>2, <1>4, <1>5, <1>6, <1>7 DEF Follows

\* Where each promise is kept or runs into its deadline, no other happens.
LEMMA PassesFollows ==
    ASSUME NEW s, NEW t, NEW now, Inv(t), Untimed(s), Aimed(s),
           Evolves(s, t), Tells(s, t), Tracks(s, t),
           \A i \in Id : Keeps(s, t, i) \/ Lapses(s, t, now, i)
    PROVE  Follows(s, t, {}, {})
  <1>1. ASSUME NEW i \in Id
        PROVE  /\ t.promises[i].timer = FALSE
               /\ HasTask(t, i) => t.promises[i].target
               /\ HasPromise(t, i) <=> HasPromise(s, i)
               /\ t.promises[i].target = s.promises[i].target
               /\ t.promises[i].state \in SettleState =>
                     s.promises[i].state = t.promises[i].state
    <2>1. s.promises[i].timer = FALSE
      BY DEF Untimed
    <2>2. CASE Keeps(s, t, i)
      BY <2>1, <2>2 DEF Keeps, HasPromise, Aimed, Tracks
    <2>3. CASE Lapses(s, t, now, i)
      <3>1. TimeoutState(s.promises[i]) = "rejected_timedout"
        BY <2>1 DEF TimeoutState
      <3> QED BY <2>1, <2>3, <3>1 DEF Lapses, Closes, HasPromise, Aimed, Tracks, SettleState
    <2> QED BY <2>2, <2>3
  <1> QED BY <1>1 DEF Follows, Untimed, Aimed

\* There is nothing to clear.
LEMMA ClearSame ==
    ASSUME NEW s, Inv(s), s.outgoing = {}
    PROVE  Clear(s) = s
  <1>1. s \in State
    BY DEF Inv
  <1> QED BY <1>1 DEF Clear, State

\* Most requests name one promise, which may be due.
LEMMA OneTurn ==
    ASSUME NEW s, NEW now, NEW i
    PROVE  ExpireInTurn(s, now, <<i>>) = TryAutoTimeout(s, now, i)
  <1> DEFINE u == TryAutoTimeout(s, now, i)
             g == [n \in 0 .. 1 |-> IF n = 0 THEN s ELSE u]
             Chains(h) == h = [n \in 0 .. 1 |->
                IF n = 0 THEN s ELSE TryAutoTimeout(h[n - 1], now, <<i>>[n])]
             f == CHOOSE h : Chains(h)
  <1>1. Len(<<i>>) = 1 /\ <<i>>[1] = i
    OBVIOUS
  <1>2. g[0] = s /\ g[1] = u
    OBVIOUS
  <1>3. Chains(g)
    <2>1. \A n \in 0 .. 1 : g[n] = IF n = 0 THEN s ELSE TryAutoTimeout(g[n - 1], now, <<i>>[n])
      <3> SUFFICES ASSUME NEW n \in 0 .. 1
          PROVE  g[n] = IF n = 0 THEN s ELSE TryAutoTimeout(g[n - 1], now, <<i>>[n])
        OBVIOUS
      <3>1. n = 0 \/ n = 1
        OBVIOUS
      <3> HIDE DEF g
      <3>2. CASE n = 0
        BY <1>2, <3>2
      <3>3. CASE n = 1
        <4>1. g[n - 1] = s /\ <<i>>[n] = i
          BY <1>1, <1>2, <3>3
        <4> QED BY <1>2, <3>3, <4>1
      <3> QED BY <3>1, <3>2, <3>3
    <2>2. g = [n \in 0 .. 1 |-> g[n]]
      OBVIOUS
    <2> HIDE DEF g
    <2> QED BY <2>1, <2>2
  <1>4. Chains(f)
    BY <1>3
  <1>5. ExpireInTurn(s, now, <<i>>) = f[1]
    BY <1>1 DEF ExpireInTurn
  <1> HIDE DEF f
  <1>6. \A n \in 0 .. 1 : f[n] = IF n = 0 THEN s ELSE TryAutoTimeout(f[n - 1], now, <<i>>[n])
    BY <1>4
  <1>7. f[0] = s
    BY <1>6
  <1>8. f[1] = u
    BY <1>1, <1>6, <1>7
  <1> QED BY <1>5, <1>8

\* Before the handler of a request about promise i nothing is settled but by its
\* deadline, and the deadline of i lies ahead.
LEMMA PreludeFollows ==
    ASSUME NEW s, Sound(s), NEW now \in Nat, NEW r, NEW i \in Id, Named(r) = <<i>>
    PROVE  LET b == Prelude(s, now, r)
           IN  /\ Follows(s, b, {}, {}) /\ Passes(s, b, now)
               /\ b.promises[i].state = "pending" => now < b.promises[i].timeoutAt
  <1> DEFINE b == TryAutoTimeout(s, now, i)
  <1>1. Prelude(s, now, r) = b
    BY ClearSame, OneTurn DEF Prelude, Sound
  <1>2. /\ Inv(b) /\ Evolves(s, b)
        /\ b.promises[i].state = "pending" => now < b.promises[i].timeoutAt
    BY AutoTimeoutInv DEF Sound
  <1>3. Passes(s, b, now)
    BY AutoTimeoutEffect DEF Sound
  <1>4. Tracks(s, b)
    BY AutoTimeoutAnnounces DEF Sound
  <1> HIDE DEF b
  <1>5. Follows(s, b, {}, {})
    BY <1>2, <1>3, <1>4, PassesFollows DEF Sound, Passes
  <1> QED BY <1>1, <1>2, <1>3, <1>5

\* The loop settles nothing but what is due.
LEMMA TickFollows ==
    ASSUME NEW s, Sound(s), NEW now \in Nat
    PROVE  Follows(s, Tick(s, now), {}, {})
  <1> DEFINE t == Tick(s, now)
  <1>1. /\ Inv(t) /\ Evolves(s, t) /\ Passes(s, t, now) /\ Tracks(s, t)
    BY TickInv, TickEffect, TickAnnounces DEF Sound
  <1> HIDE DEF t
  <1>2. Follows(s, t, {}, {})
    BY <1>1, PassesFollows DEF Sound, Passes
  <1> QED BY <1>2 DEF t

\* What leaves the promises alone.
LEMMA QuietFollows ==
    ASSUME NEW s, NEW t, Untimed(s), Aimed(s), Inv(t),
           Evolves(s, t), Quiet(s, t), Tracks(s, t)
    PROVE  Follows(s, t, {}, {})
  <1>1. Passes(s, t, 0) /\ \A i \in Id : Keeps(s, t, i)
    BY QuietPasses
  <1> QED BY <1>1, PassesFollows DEF Passes

LEMMA SameFollows ==
    ASSUME NEW s, Inv(s), Untimed(s), Aimed(s)
    PROVE  Follows(s, s, {}, {})
  <1>1. Quiet(s, s) /\ Tracks(s, s)
    BY DEF Quiet, Tracks
  <1> QED BY <1>1, EvolvesReflexive, QuietFollows

\* A promise that a request settles, and no other.
LEMMA ClosesFollows ==
    ASSUME NEW b, NEW a, Inv(b), Untimed(b), Aimed(b), NEW i \in Id, NEW state, NEW at,
           Inv(a), Evolves(b, a), Tells(b, a), Tracks(b, a),
           \A j \in Id \ {i} : Keeps(b, a, j),
           Closes(b, a, i, state, at) \/ a = b
    PROVE  Follows(b, a, {i}, {})
  <1>1. CASE a = b
    <2>1. Follows(b, b, {}, {})
      BY SameFollows
    <2> QED BY <1>1, <2>1 DEF Follows
  <1>2. CASE Closes(b, a, i, state, at)
    <2>1. ASSUME NEW j \in Id
          PROVE  /\ a.promises[j].timer = FALSE
                 /\ HasPromise(a, j) <=> HasPromise(b, j)
                 /\ a.promises[j].target = b.promises[j].target
                 /\ HasTask(a, j) => a.promises[j].target
                 /\ j # i => a.promises[j].state = b.promises[j].state
      <3>1. CASE j = i
        BY <1>2, <3>1 DEF Closes, Untimed, Aimed, HasPromise, Settled, Tracks
      <3>2. CASE j # i
        <4>1. Keeps(b, a, j)
          BY <3>2
        <4> QED BY <3>2, <4>1 DEF Keeps, Untimed, Aimed, HasPromise, Tracks
      <3> QED BY <3>1, <3>2
    <2> QED BY <2>1 DEF Follows, Untimed, Aimed
  <1> QED BY <1>1, <1>2

\* The methods that return a promise, here.
PromiseKinds == {"promise.settle", "promise.register_listener", "task.fulfill"}

\* An answer with the record they want is no error.
LEMMA RecordResult ==
    ASSUME NEW r, r.kind \in PromiseKinds, NEW s, NEW i, HasPromise(s, i)
    PROVE  Result(r, Answer(200, PromiseRecord(s, i), {})).ok
  <1> DEFINE x == Answer(200, PromiseRecord(s, i), {})
  <1>1. PromiseRecord(s, i) # {}
    BY DEF PromiseRecord
  <1>2. Result(r, x) = ParsePromise(SendEnvelope(x, PassConflict(r)))
    BY DEF Result, PromiseKinds
  <1>3. SendEnvelope(x, PassConflict(r)) = Success("done", x)
    BY DEF SendEnvelope, Answer
  <1>4. Success("done", x).ok /\ Success("done", x).promise # {}
    BY <1>1 DEF Success, Answer
  <1> HIDE DEF x
  <1>5. Result(r, x) = Success("done", x)
    BY <1>2, <1>3, <1>4 DEF ParsePromise
  <1> QED BY <1>4, <1>5 DEF x

\* A refusal is one.
LEMMA RefusedResult ==
    ASSUME NEW r, r.kind \in PromiseKinds \cup {"task.acquire"}, NEW code \in {404, 409}
    PROVE  ~ Result(r, Refuse(code)).ok
  <1>1. SendEnvelope(Refuse(code), PassConflict(r)) = Fail(code)
    BY DEF SendEnvelope, PassConflict, Refuse, Answer, PromiseKinds
  <1> QED BY <1>1 DEF Result, PromiseKinds, Fail, ParsePromise, ParseTaskAcquire

-----------------------------------------------------------------------------
(* What the handler makes of it, and the caller gets; b is the state after *)
(* the expirations.                                                        *)

\* A promise comes to be, with the address it is given, and no timer.
LEMMA CreateFollows ==
    ASSUME NEW b, Inv(b), Untimed(b), Aimed(b), NEW now \in Nat, NEW i \in Id,
           NEW d \in Nat, NEW tags \in Tags, tags.timer = FALSE
    PROVE  LET a == Handled(b, now, PromiseCreateReq(i, d, tags))
           IN  /\ Follows(b, a, {}, {i})
               /\ a.promises[i].target => HasPromise(b, i) \/ tags.target
  <1> DEFINE r == PromiseCreateReq(i, d, tags)
             a == PromiseCreate(b, now, i, d, tags)
  <1>1. /\ r.kind = "promise.create" /\ r.id = i
        /\ r.timeoutAt = d /\ r.tags = tags
    BY DEF PromiseCreateReq
  <1>2. Handled(b, now, r) = a
    <2> HIDE DEF r
    <2> QED BY <1>1 DEF Handled
  <1> HIDE DEF r
  <1>3. /\ \A j \in Id \ {i} : Keeps(b, a, j)
        /\ IF HasPromise(b, i) THEN a = b ELSE Opens(b, a, now, i, tags, d)
        /\ Tells(b, a)
    BY CreateEffect
  <1>4. Inv(a) /\ Evolves(b, a) /\ Tracks(b, a)
    BY PromiseCreateInv, PromiseCreateAnnounces
  <1> HIDE DEF a
  <1>5. Follows(b, a, {}, {i}) /\ (a.promises[i].target => HasPromise(b, i) \/ tags.target)
    <2>1. CASE HasPromise(b, i)
      <3>1. Follows(b, b, {}, {})
        BY SameFollows
      <3> QED BY <1>3, <2>1, <3>1 DEF Follows
    <2>2. CASE ~ HasPromise(b, i)
      <3>1. TimeoutState(a.promises[i]) = "rejected_timedout"
        BY <1>3, <2>2 DEF Opens, TimeoutState
      <3>2. a.promises[i].state \notin SettleState
        BY <1>3, <2>2, <3>1 DEF Opens, SettleState
      <3>3. a.promises[i].target = tags.target /\ a.promises[i].timer = FALSE
        BY <1>3, <2>2 DEF Opens
      <3>4. ASSUME NEW j \in Id \ {i}
            PROVE  /\ a.promises[j].timer = FALSE
                   /\ HasPromise(a, j) <=> HasPromise(b, j)
                   /\ a.promises[j].target = b.promises[j].target
                   /\ a.promises[j].state = b.promises[j].state
        BY <1>3 DEF Keeps, Untimed, HasPromise
      <3>5. Untimed(a)
        BY <3>3, <3>4 DEF Untimed
      <3>6. Aimed(a)
        <4> SUFFICES ASSUME NEW j \in Id, HasTask(a, j)
            PROVE  a.promises[j].target
          BY DEF Aimed
        <4>1. HasTask(b, j) \/ a.promises[j].target
          BY <1>4 DEF Tracks
        <4>2. CASE HasTask(b, j)
          <5>1. HasPromise(b, j)
            BY <4>2 DEF Inv, TasksFollowPromises
          <5> QED BY <2>2, <3>4, <4>2, <5>1 DEF Aimed
        <4> QED BY <4>1, <4>2
      <3> QED BY <1>3, <1>4, <2>2, <3>2, <3>3, <3>4, <3>5, <3>6 DEF Follows
    <2> QED BY <2>1, <2>2
  <1> QED BY <1>2, <1>5 DEF r

\* A settlement reaches the caller if it took place.
LEMMA SettleFollows ==
    ASSUME NEW b, Inv(b), Untimed(b), Aimed(b), NEW now \in Nat, NEW i \in Id,
           NEW state \in SettleState,
           b.promises[i].state = "pending" => now < b.promises[i].timeoutAt
    PROVE  LET r == PromiseSettleReq(i, state)
               a == Handled(b, now, r)
           IN  /\ Follows(b, a, {i}, {})
               /\ b.promises[i].state = "pending" =>
                     /\ Result(r, AnswerTo(b, a, r)).ok
                     /\ a.promises[i].state = state
  <1> DEFINE r == PromiseSettleReq(i, state)
             a == PromiseSettle(b, now, i, state)
  <1>1. r.kind = "promise.settle" /\ r.id = i /\ r.state = state
    BY DEF PromiseSettleReq
  <1> HIDE DEF r
  <1>2. Handled(b, now, r) = a /\ AnswerTo(b, a, r) = PromiseAnswer(a, i, 200)
    BY <1>1 DEF Handled, AnswerTo
  <1>3. /\ \A j \in Id \ {i} : Keeps(b, a, j)
        /\ IF b.promises[i].state = "pending" THEN Closes(b, a, i, state, now) ELSE a = b
        /\ Tells(b, a)
    BY PromiseSettleEffect
  <1>4. Inv(a) /\ Evolves(b, a) /\ Tracks(b, a)
    BY PromiseSettleInv, PromiseSettleAnnounces
  <1> HIDE DEF a
  <1>5. Follows(b, a, {i}, {})
    BY <1>3, <1>4, ClosesFollows
  <1>6. b.promises[i].state = "pending" =>
          /\ Result(r, AnswerTo(b, a, r)).ok
          /\ a.promises[i].state = state
    <2> SUFFICES ASSUME b.promises[i].state = "pending"
        PROVE  Result(r, AnswerTo(b, a, r)).ok /\ a.promises[i].state = state
      OBVIOUS
    <2>1. a.promises[i].state = state /\ HasPromise(a, i)
      BY <1>3 DEF Closes, HasPromise, Settled
    <2>2. AnswerTo(b, a, r) = Answer(200, PromiseRecord(a, i), {})
      BY <1>2, <2>1 DEF PromiseAnswer
    <2> QED BY <1>1, <2>1, <2>2, RecordResult DEF PromiseKinds
  <1> QED BY <1>2, <1>5, <1>6 DEF r

\* A task is fulfilled, and the caller told, if somebody holds it.
LEMMA FulfillFollows ==
    ASSUME NEW b, Inv(b), Untimed(b), Aimed(b), NEW now \in Nat, NEW i \in Id,
           NEW v, NEW state \in SettleState,
           b.promises[i].state = "pending" => now < b.promises[i].timeoutAt
    PROVE  LET r == TaskFulfillReq(i, v, PromiseSettleReq(i, state))
               a == Handled(b, now, r)
           IN  /\ Follows(b, a, {i}, {})
               /\ b.promises[i].state = "pending" /\ a.promises[i].state \in SettleState =>
                     /\ Result(r, AnswerTo(b, a, r)).ok
                     /\ a.promises[i].state = state
  <1> DEFINE r == TaskFulfillReq(i, v, PromiseSettleReq(i, state))
             a == TaskFulfill(b, now, i, state)
  <1>1. /\ r.kind = "task.fulfill" /\ r.id = i
        /\ r.action.id = i /\ r.action.state = state
    BY DEF TaskFulfillReq, PromiseSettleReq
  <1> HIDE DEF r
  <1>2. /\ Handled(b, now, r) = a
        /\ AnswerTo(b, a, r) = TaskAnswer(b, i, {"acquired"}, Answer(200, PromiseRecord(a, i), {}))
    BY <1>1 DEF Handled, AnswerTo
  <1>3. /\ \A j \in Id \ {i} : Keeps(b, a, j)
        /\ IF b.tasks[i].state = "acquired" THEN Closes(b, a, i, state, now) ELSE a = b
        /\ Tells(b, a)
    BY TaskFulfillEffect
  <1>4. Inv(a) /\ Evolves(b, a) /\ Tracks(b, a)
    BY TaskFulfillInv, TaskFulfillAnnounces
  <1> HIDE DEF a
  <1>5. Follows(b, a, {i}, {})
    BY <1>3, <1>4, ClosesFollows
  <1>6. ASSUME b.promises[i].state = "pending", a.promises[i].state \in SettleState
        PROVE  Result(r, AnswerTo(b, a, r)).ok /\ a.promises[i].state = state
    <2>1. b.tasks[i].state = "acquired"
      BY <1>3, <1>6 DEF SettleState
    <2>2. a.promises[i].state = state /\ HasPromise(a, i)
      BY <1>3, <2>1 DEF Closes, HasPromise, Settled
    <2>3. AnswerTo(b, a, r) = Answer(200, PromiseRecord(a, i), {})
      BY <1>2, <2>1 DEF TaskAnswer, HasTask
    <2> QED BY <1>1, <2>2, <2>3, RecordResult DEF PromiseKinds
  <1> QED BY <1>2, <1>5, <1>6 DEF r

LEMMA ReleaseFollows ==
    ASSUME NEW b, Inv(b), Untimed(b), Aimed(b), NEW now \in Nat, NEW i \in Id, NEW v
    PROVE  Follows(b, Handled(b, now, TaskReleaseReq(i, v)), {}, {})
  <1> DEFINE r == TaskReleaseReq(i, v)
             a == TaskRelease(b, now, i)
  <1>1. r.kind = "task.release" /\ r.id = i
    BY DEF TaskReleaseReq
  <1> HIDE DEF r
  <1>2. Handled(b, now, r) = a
    BY <1>1 DEF Handled
  <1>3. Inv(a) /\ Evolves(b, a) /\ Quiet(b, a) /\ Tracks(b, a)
    BY TaskReleaseInv, TaskReleaseQuiet, TaskReleaseAnnounces
  <1> HIDE DEF a
  <1>4. Follows(b, a, {}, {})
    BY <1>3, QuietFollows
  <1> QED BY <1>2, <1>4 DEF r

\* A listener learns of no promise that is not there.
LEMMA ListenFollows ==
    ASSUME NEW b, Inv(b), Untimed(b), Aimed(b), NEW now \in Nat, NEW i \in Id, NEW addr \in Addr
    PROVE  LET r == ListenerReq(i, addr)
               a == Handled(b, now, r)
           IN  /\ Follows(b, a, {}, {})
               /\ Result(r, AnswerTo(b, a, r)).ok => HasPromise(a, i)
  <1> DEFINE r == ListenerReq(i, addr)
             a == PromiseRegisterListener(b, i, addr)
  <1>1. r.kind = "promise.register_listener" /\ r.awaited = i /\ r.address = addr
    BY DEF ListenerReq
  <1> HIDE DEF r
  <1>2. Handled(b, now, r) = a /\ AnswerTo(b, a, r) = PromiseAnswer(a, i, 200)
    BY <1>1 DEF Handled, AnswerTo
  <1>3. /\ \A j \in Id \ {i} : Keeps(b, a, j)
        /\ IF b.promises[i].state = "pending" THEN Hears(b, a, i, addr) ELSE a = b
        /\ Tells(b, a)
    BY RegisterEffect
  <1>4. Inv(a) /\ Evolves(b, a)
    BY RegisterListenerInv
  <1>5. a.tasks = b.tasks
    BY DEF PromiseRegisterListener, PutPromise, Inv, State
  <1> HIDE DEF a
  <1>6. Follows(b, a, {}, {})
    <2>1. ASSUME NEW j \in Id
          PROVE  /\ a.promises[j].timer = FALSE
                 /\ a.promises[j].state = b.promises[j].state
                 /\ a.promises[j].target = b.promises[j].target
                 /\ HasTask(a, j) => a.promises[j].target
      BY <1>3, <1>5 DEF Keeps, Hears, Untimed, Aimed, HasTask
    <2> QED BY <1>3, <1>4, <2>1 DEF Follows, Untimed, Aimed, HasPromise
  <1>7. Result(r, AnswerTo(b, a, r)).ok => HasPromise(a, i)
    BY <1>1, <1>2, RefusedResult DEF PromiseAnswer, PromiseKinds
  <1> QED BY <1>2, <1>6, <1>7 DEF r

-----------------------------------------------------------------------------
(* What a process learns of the tasks it may execute *)

\* The task is the caller's, and was nobody's at this rank.
Leased(task, b, a, i, pid) ==
    /\ task.id = i /\ task.version \in Nat
    /\ Rank(b, i) <= 2 * task.version
    /\ HoldsLease(a, i, task.version) /\ a.tasks[i].pid = pid

LEMMA AcquireFacts ==
    ASSUME NEW b, Inv(b), NEW now, NEW i \in Id, NEW pid, NEW ttl,
           b.tasks[i].state = "pending"
    PROVE  LET a == AcquireTask(b, now, i, pid, ttl)
           IN  /\ a.promises = b.promises
               /\ a.tasks[i].state = "acquired" /\ a.tasks[i].pid = pid
               /\ a.tasks[i].version \in Nat /\ Rank(b, i) <= 2 * a.tasks[i].version
               /\ \A j \in Id : HasTask(a, j) => HasTask(b, j)
  <1> DEFINE k == Hold(b.tasks[i], pid, ttl)
             a == AcquireTask(b, now, i, pid, ttl)
  <1>1. /\ k.state = "acquired" /\ k.pid = pid
        /\ k.version = b.tasks[i].version /\ b.tasks[i].version \in Nat
    BY Fields DEF Hold, Inv, Task
  <1> HIDE DEF k
  <1>2. a.promises = b.promises /\ a.tasks = [b.tasks EXCEPT ![i] = k]
    BY DEF AcquireTask, SetTTimeout, PutTask, Inv, State, k
  <1> HIDE DEF a
  <1>3. a.tasks[i] = k /\ \A j \in Id \ {i} : a.tasks[j] = b.tasks[j]
    BY <1>2 DEF Inv, State
  <1>4. \A j \in Id : HasTask(a, j) => HasTask(b, j)
    BY <1>3 DEF HasTask
  <1>5. Rank(b, i) <= 2 * a.tasks[i].version
    BY <1>1, <1>3 DEF Rank
  <1> QED BY <1>1, <1>2, <1>3, <1>4, <1>5 DEF a

\* A record is the record of the task it names.
LEMMA TaskRecordIs ==
    ASSUME NEW a, NEW b, NEW i, NEW pid, a.tasks[i].state = "acquired",
           a.tasks[i].pid = pid, a.tasks[i].version \in Nat,
           Rank(b, i) <= 2 * a.tasks[i].version
    PROVE  /\ TaskRecord(a, i) # {}
           /\ \A task \in TaskRecord(a, i) : Leased(task, b, a, i, pid)
  <1> DEFINE record == [id |-> i, state |-> a.tasks[i].state,
                        version |-> a.tasks[i].version, pid |-> a.tasks[i].pid]
  <1>1. TaskRecord(a, i) = {record}
    BY DEF TaskRecord, HasTask
  <1>2. record.id = i /\ record.version = a.tasks[i].version
    OBVIOUS
  <1> HIDE DEF record
  <1>3. Leased(record, b, a, i, pid)
    BY <1>2 DEF Leased, HoldsLease
  <1> QED BY <1>1, <1>3

LEMMA AcquireFollows ==
    ASSUME NEW b, Inv(b), Untimed(b), Aimed(b), NEW now \in Nat, NEW i \in Id,
           NEW v, NEW pid \in Pid
    PROVE  LET r == TaskAcquireReq(i, v, pid, TTL)
               a == Handled(b, now, r)
               e == Result(r, AnswerTo(b, a, r))
           IN  /\ Follows(b, a, {}, {})
               /\ e.ok => e.task # {} /\ \A task \in e.task : Leased(task, b, a, i, pid)
  <1> DEFINE r == TaskAcquireReq(i, v, pid, TTL)
             a == TaskAcquire(b, now, i, pid, TTL)
             e == Result(r, AnswerTo(b, a, r))
             P == PromiseRecord(a, i)
             T == TaskRecord(a, i)
  <1>1. r.kind = "task.acquire" /\ r.id = i /\ r.pid = pid /\ r.ttl = TTL
    BY DEF TaskAcquireReq
  <1> HIDE DEF r
  <1>2. /\ Handled(b, now, r) = a
        /\ AnswerTo(b, a, r) = TaskAnswer(b, i, {"pending"}, Answer(200, P, T))
    BY <1>1 DEF Handled, AnswerTo
  <1>3. TTL \in Nat /\ b \in State
    BY DEF TTL, Inv
  <1>4. Inv(a) /\ Evolves(b, a) /\ Quiet(b, a) /\ Tracks(b, a)
    BY <1>3, TaskAcquireInv, TaskAcquireQuiet, TaskAcquireAnnounces
  <1>5. ASSUME b.tasks[i].state = "pending"
        PROVE  /\ a.tasks[i].state = "acquired" /\ a.tasks[i].pid = pid
               /\ a.tasks[i].version \in Nat /\ Rank(b, i) <= 2 * a.tasks[i].version
    <2> DEFINE t == IF TTL < 1 THEN 1 ELSE TTL
    <2>1. a = AcquireTask(b, now, i, pid, t)
      BY <1>5 DEF TaskAcquire
    <2> HIDE DEF a, t
    <2> QED BY <1>5, <2>1, AcquireFacts
  <1> HIDE DEF a
  <1>6. Follows(b, a, {}, {})
    BY <1>4, QuietFollows
  <1>7. ASSUME e.ok
        PROVE  e.task # {} /\ \A task \in e.task : Leased(task, b, a, i, pid)
    <2>1. b.tasks[i].state = "pending"
      BY <1>1, <1>2, <1>7, RefusedResult DEF TaskAnswer
    <2>2. AnswerTo(b, a, r) = Answer(200, P, T)
      BY <1>2, <2>1 DEF TaskAnswer, HasTask
    <2>3. SendEnvelope(Answer(200, P, T), PassConflict(r)) = Success("done", Answer(200, P, T))
      BY DEF SendEnvelope, Answer
    <2>4. e = ParseTaskAcquire(Success("done", Answer(200, P, T)))
      BY <1>1, <2>2, <2>3 DEF Result
    <2>5. e = Success("done", Answer(200, P, T))
      BY <1>7, <2>4 DEF ParseTaskAcquire, Undecodable, Fail
    <2>6. e.task = T
      <3> HIDE DEF T, P, e
      <3> QED BY <2>5 DEF Success, Answer
    <2> HIDE DEF e
    <2>7. T # {} /\ \A task \in T : Leased(task, b, a, i, pid)
      BY <1>5, <2>1, TaskRecordIs
    <2> QED BY <2>6, <2>7
  <1> QED BY <1>2, <1>6, <1>7 DEF r

LEMMA TaskCreateFollows ==
    ASSUME NEW b, Inv(b), Untimed(b), Aimed(b), NEW now \in Nat, NEW i \in Id,
           NEW d \in Nat, NEW tags \in Tags, tags.timer = FALSE, tags.target,
           NEW pid \in Pid
    PROVE  LET r == TaskCreateReq(pid, TTL, PromiseCreateReq(i, d, tags))
               a == Handled(b, now, r)
               e == Result(r, AnswerTo(b, a, r))
           IN  /\ Follows(b, a, {}, {i})
               /\ \A task \in e.task : Starts(task) => Leased(task, b, a, i, pid)
  <1> DEFINE r == TaskCreateReq(pid, TTL, PromiseCreateReq(i, d, tags))
             a == TaskCreate(b, now, i, d, tags, pid, TTL)
             e == Result(r, AnswerTo(b, a, r))
  <1>1. /\ r.kind = "task.create" /\ r.pid = pid /\ r.ttl = TTL
        /\ r.action.id = i /\ r.action.timeoutAt = d /\ r.action.tags = tags
    BY DEF TaskCreateReq, PromiseCreateReq
  <1> HIDE DEF r
  <1>2. Handled(b, now, r) = a /\ AnswerTo(b, a, r) = TaskCreateAnswer(b, a, i)
    BY <1>1 DEF Handled, AnswerTo
  <1>3. TTL \in Nat /\ b.tasks[i].state \in TaskState
    BY Fields DEF TTL, Inv, Task
  <1>4. Inv(a) /\ Evolves(b, a)
    BY <1>3, TaskCreateInv
  <1>5. /\ \A j \in Id \ {i} : Keeps(b, a, j)
        /\ Keeps(b, a, i) \/ Opens(b, a, now, i, tags, d)
        /\ Tells(b, a)
    BY <1>3, TaskCreateEffect
  <1>6. /\ \A j \in Id \ {i} : HasTask(a, j) => HasTask(b, j)
        /\ a.tasks[i].state = "acquired" /\ b.tasks[i].state \in {"absent", "pending"} =>
              /\ a.tasks[i].pid = pid /\ a.tasks[i].version \in Nat
              /\ Rank(b, i) <= 2 * a.tasks[i].version
    <2>1. CASE b.tasks[i].state = "pending"
      <3>1. a = AcquireTask(b, now, i, pid, TTL)
        BY <2>1 DEF TaskCreate, HasTask
      <3> HIDE DEF a
      <3> QED BY <2>1, <3>1, AcquireFacts
    <2>2. CASE b.tasks[i].state # "absent" /\ b.tasks[i].state # "pending"
      <3>1. a = b
        BY <2>2 DEF TaskCreate, HasTask
      <3> HIDE DEF a
      <3> QED BY <2>2, <3>1
    <2>3. CASE b.tasks[i].state = "absent" /\ HasPromise(b, i)
      <3>1. a = b
        BY <2>3 DEF TaskCreate, HasTask
      <3> HIDE DEF a
      <3> QED BY <2>3, <3>1
    <2>4. CASE b.tasks[i].state = "absent" /\ ~ HasPromise(b, i)
      <3> DEFINE h == NewTask("acquired", pid, TTL)
                 k == NewTask("fulfilled", NoPid, None)
      <3>1. /\ h.state = "acquired" /\ h.pid = pid /\ h.version = 0
            /\ k.state = "fulfilled"
        BY DEF NewTask
      <3>2. \/ a.tasks = [b.tasks EXCEPT ![i] = h]
            \/ a.tasks = [b.tasks EXCEPT ![i] = k]
        BY <2>4 DEF TaskCreate, HasTask, PutPromise, PutTask, SetPTimeout, SetTTimeout,
                    Inv, State
      <3> HIDE DEF h, k, a
      <3>3. a.tasks[i] = h \/ a.tasks[i] = k
        BY <3>2 DEF Inv, State
      <3>4. \A j \in Id \ {i} : a.tasks[j] = b.tasks[j]
        BY <3>2 DEF Inv, State
      <3>5. Rank(b, i) = 0
        BY <2>4 DEF Rank, Inv, AbsentFresh, HasTask
      <3>6. \A j \in Id \ {i} : HasTask(a, j) => HasTask(b, j)
        BY <3>4 DEF HasTask
      <3> QED BY <3>1, <3>3, <3>5, <3>6
    <2> QED BY <2>1, <2>2, <2>3, <2>4
  <1>7. e.task \in {TaskRecord(a, i), {}}
        /\ (e.task # {} => b.tasks[i].state \in {"absent", "pending", "fulfilled"})
    <2> DEFINE P == PromiseRecord(a, i)
               Q == PromiseRecord(b, i)
               T == TaskRecord(a, i)
               x == AnswerTo(b, a, r)
    <2>1. /\ x.task \in {T, {}}
          /\ x.task # {} => b.tasks[i].state \in {"absent", "pending", "fulfilled"}
      <3> HIDE DEF P, Q, T, a
      <3> QED BY <1>2 DEF TaskCreateAnswer, Refuse, Answer, HasTask, T
    <2>2. e = ParseTaskCreate(SendEnvelope(x, PassConflict(r)))
      BY <1>1 DEF Result
    <2>3. SendEnvelope(x, PassConflict(r)).task \in {x.task, {}}
      <3> HIDE DEF x
      <3> QED BY DEF SendEnvelope, Success, Fail
    <2>4. e.task \in {x.task, {}}
      <3> DEFINE y == SendEnvelope(x, PassConflict(r))
      <3>1. y.task \in {x.task, {}} /\ e = ParseTaskCreate(y)
        BY <2>2, <2>3
      <3>2. y = Fail(x.status) \/ y = Success("done", x)
        <4> HIDE DEF x
        <4> QED BY DEF SendEnvelope
      <3>3. [y EXCEPT !.as = "conflict"].task = y.task
        <4> HIDE DEF x
        <4>1. CASE y = Fail(x.status)
          BY <4>1 DEF Fail
        <4>2. CASE y = Success("done", x)
          BY <4>2 DEF Success
        <4> QED BY <3>2, <4>1, <4>2
      <3>4. e \in {[y EXCEPT !.as = "conflict"], y, Undecodable}
        <4> HIDE DEF y, e
        <4> QED BY <3>1 DEF ParseTaskCreate, ParseTaskAcquire
      <3>5. Undecodable.task = {}
        BY DEF Undecodable, Fail
      <3> HIDE DEF y, e
      <3> QED BY <3>1, <3>3, <3>4, <3>5
    <2> HIDE DEF e, x, T
    <2> QED BY <2>1, <2>4 DEF T
  <1> HIDE DEF a
  <1>8. Follows(b, a, {}, {i})
    <2>1. ASSUME NEW j \in Id
          PROVE  /\ a.promises[j].timer = FALSE
                 /\ HasTask(a, j) => a.promises[j].target
                 /\ HasPromise(b, j) =>
                       HasPromise(a, j) /\ a.promises[j].target = b.promises[j].target
                 /\ a.promises[j].state \in SettleState =>
                       b.promises[j].state = a.promises[j].state
                 /\ j # i => (HasPromise(a, j) => HasPromise(b, j))
      <3>1. CASE j # i
        <4>1. Keeps(b, a, j)
          BY <1>5, <3>1
        <4> QED BY <1>6, <3>1, <4>1 DEF Keeps, Untimed, Aimed, HasPromise
      <3>2. CASE j = i /\ Keeps(b, a, i) /\ (HasTask(b, i) \/ ~ HasTask(a, i))
        BY <3>2 DEF Keeps, Untimed, Aimed, HasPromise
      <3>3. CASE j = i /\ Opens(b, a, now, i, tags, d)
        <4>1. TimeoutState(a.promises[i]) = "rejected_timedout"
          BY <3>3 DEF Opens, TimeoutState
        <4> QED BY <3>3, <4>1 DEF Opens, SettleState
      <3>4. Keeps(b, a, i) => HasTask(b, i) \/ ~ HasTask(a, i)
        <4> SUFFICES ASSUME Keeps(b, a, i), ~ HasTask(b, i), HasTask(a, i)
            PROVE  FALSE
          OBVIOUS
        <4>1. HasPromise(a, i)
          BY <1>4 DEF Inv, TasksFollowPromises
        <4>2. HasPromise(b, i)
          BY <4>1 DEF Keeps, HasPromise
        <4> QED BY <4>2 DEF TaskCreate, a, HasTask
      <3> QED BY <1>5, <3>1, <3>2, <3>3, <3>4
    <2> QED BY <1>4, <1>5, <2>1 DEF Follows, Untimed, Aimed
  <1>9. ASSUME NEW task \in e.task, Starts(task)
        PROVE  Leased(task, b, a, i, pid)
    <2> HIDE DEF e
    <2>1. e.task = TaskRecord(a, i) /\ b.tasks[i].state \in {"absent", "pending", "fulfilled"}
      BY <1>7, <1>9
    <2>2. a.tasks[i].state = "acquired"
      BY <1>9, <2>1 DEF TaskRecord, Starts, HasTask
    <2>3. b.tasks[i].state # "fulfilled"
      BY <2>2 DEF TaskCreate, a, HasTask
    <2>4. /\ a.tasks[i].pid = pid /\ a.tasks[i].version \in Nat
          /\ Rank(b, i) <= 2 * a.tasks[i].version
      BY <1>6, <2>1, <2>2, <2>3
    <2> QED BY <1>9, <2>1, <2>2, <2>4, TaskRecordIs
  <1> QED BY <1>2, <1>8, <1>9 DEF r

-----------------------------------------------------------------------------
(* What a step of the server keeps *)

\* The payloads and names filed with a new promise, and with a settlement.
ParamsFiled(new, params) ==
    /\ DOMAIN params = Id /\ DOMAIN asked' = Id
    /\ \A i \in Id : HasPromise(srv, i) => params[i] = param[i] /\ asked'[i] = asked[i]
    /\ \A i \in Id : ~ HasPromise(srv, i) /\ HasPromise(new, i) /\ new.promises[i].target =>
                        params[i] = Param(asked'[i])
ValuesFiled(new, values) ==
    /\ DOMAIN values = Id /\ DOMAIN outcome' = Id
    /\ \A i \in Id : srv.promises[i].state \in Settled =>
                        values[i] = value[i] /\ outcome'[i] = outcome[i]
    /\ \A i \in Id : srv.promises[i].state \notin Settled
                        /\ new.promises[i].state \in SettleState =>
                        Reads(new.promises[i].state, values[i], outcome'[i])

\* What is told stays true, and what has started stays behind.
Kept(new) ==
    /\ Tables' /\ ServerSound' /\ ParamsAsked' /\ ValuesMeant' /\ MessagesTrue'
    /\ srv'.promises = new.promises /\ srv'.tasks = new.tasks
    /\ \A i \in Id : srv.promises[i].state \in Settled =>
          srv'.promises[i].state = srv.promises[i].state /\ value'[i] = value[i]
    /\ \A i \in Id : HasPromise(srv, i) => asked'[i] = asked[i]
    /\ \A i \in Id : Rank(srv, i) <= Rank(srv', i)

LEMMA ClearFollows ==
    ASSUME NEW s, NEW new, NEW S, NEW N, Follows(s, new, S, N)
    PROVE  /\ Sound(Clear(new))
           /\ Clear(new).promises = new.promises /\ Clear(new).tasks = new.tasks
  <1> DEFINE t == Clear(new)
  <1>1. Inv(new) /\ Untimed(new) /\ Aimed(new)
    BY DEF Follows
  <1>2. t.promises = new.promises /\ t.tasks = new.tasks /\ t.outgoing = {}
    BY <1>1 DEF Clear, Inv, State
  <1>3. Inv(t)
    BY <1>1, ClearInv
  <1> HIDE DEF t
  <1>4. Untimed(t) /\ Aimed(t)
    BY <1>1, <1>2 DEF Untimed, Aimed, HasTask
  <1> QED BY <1>2, <1>3, <1>4 DEF Sound, t

LEMMA BecomeKeeps ==
    ASSUME IInv, NEW new, NEW params, NEW values, NEW handled, NEW S, NEW N,
           Follows(srv, new, S, N), Become(new, params, values, handled),
           ParamsFiled(new, params), ValuesFiled(new, values), UNCHANGED clock
    PROVE  Kept(new)
  <1>1. srv' = Clear(new) /\ param' = params /\ value' = values
    BY DEF Become
  <1>2. Sound(srv') /\ srv'.promises = new.promises /\ srv'.tasks = new.tasks
    BY <1>1, ClearFollows
  <1>3. Tables'
    BY <1>1 DEF Tables, ParamsFiled, ValuesFiled
  <1>4. ServerSound'
    BY <1>2 DEF ServerSound, IInv
  <1>5. ParamsAsked'
    <2> SUFFICES ASSUME NEW i \in Id, HasPromise(srv', i), srv'.promises[i].target
        PROVE  params[i] = Param(asked'[i])
      BY <1>1 DEF ParamsAsked
    <2>1. HasPromise(new, i) /\ new.promises[i].target
      BY <1>2 DEF HasPromise
    <2>2. CASE HasPromise(srv, i)
      <3>1. srv.promises[i].target
        BY <2>1, <2>2 DEF Follows
      <3>2. param[i] = Param(asked[i])
        BY <2>2, <3>1 DEF IInv, ParamsAsked
      <3>3. params[i] = param[i] /\ asked'[i] = asked[i]
        BY <2>2 DEF ParamsFiled
      <3> QED BY <3>2, <3>3
    <2>3. CASE ~ HasPromise(srv, i)
      BY <2>1, <2>3 DEF ParamsFiled
    <2> QED BY <2>2, <2>3
  <1>6. \A i \in Id : srv.promises[i].state \in Settled =>
          srv'.promises[i].state = srv.promises[i].state /\ value'[i] = value[i]
    BY <1>1, <1>2 DEF Follows, Evolves, ValuesFiled
  <1>7. ValuesMeant'
    <2> SUFFICES ASSUME NEW i \in Id, srv'.promises[i].state \in SettleState
        PROVE  Reads(srv'.promises[i].state, values[i], outcome'[i])
      BY <1>1 DEF ValuesMeant, Reads
    <2>1. CASE srv.promises[i].state \in Settled
      <3>1. srv.promises[i].state \in SettleState
        BY <1>6, <2>1
      <3>2. Reads(srv.promises[i].state, value[i], outcome[i])
        BY <3>1 DEF IInv, ValuesMeant
      <3>3. values[i] = value[i] /\ outcome'[i] = outcome[i]
        BY <2>1 DEF ValuesFiled
      <3> QED BY <1>6, <2>1, <3>2, <3>3
    <2>2. CASE srv.promises[i].state \notin Settled
      <3>1. new.promises[i].state \in SettleState
        BY <1>2
      <3> QED BY <1>2, <2>2, <3>1 DEF ValuesFiled
    <2> QED BY <2>1, <2>2
  <1>8. MessagesTrue'
    <2> SUFFICES ASSUME NEW m \in messages'
        PROVE  /\ m.id \in Id
               /\ m.kind = "unblock" =>
                     /\ srv'.promises[m.id].state \in Settled
                     /\ m.state = srv'.promises[m.id].state /\ m.value = value'[m.id]
      BY DEF MessagesTrue, IsRecord
    <2>1. new.outgoing \subseteq Message
      BY DEF Follows, Inv, State
    <2> DEFINE E(y) == [kind |-> "execute", id |-> y.id, version |-> y.version]
               U(y) == [kind |-> "unblock", pid |-> y.addr, id |-> y.id,
                        state |-> y.state, value |-> values[y.id]]
    <2>2. \/ m \in messages
          \/ \E y \in new.outgoing : y.kind = "execute" /\ m = E(y)
          \/ \E y \in new.outgoing : y.kind = "unblock" /\ m = U(y)
      BY DEF Become
    <2>3. CASE m \in messages
      <3>1. m.id \in Id /\ (m.kind = "unblock" => IsRecord(m.id, m.state, m.value))
        BY <2>3 DEF IInv, MessagesTrue
      <3> QED BY <1>6, <3>1 DEF IsRecord
    <2>4. ASSUME NEW y \in new.outgoing, y.kind = "execute", m = E(y)
          PROVE  m.id \in Id /\ m.kind # "unblock"
      <3>1. y.id \in Id
        BY <2>1, <2>4 DEF Message
      <3> QED BY <2>4, <3>1
    <2>5. ASSUME NEW y \in new.outgoing, y.kind = "unblock", m = U(y)
          PROVE  /\ m.id \in Id
                 /\ srv'.promises[m.id].state \in Settled
                 /\ m.state = srv'.promises[m.id].state /\ m.value = value'[m.id]
      <3>1. y \in Notice /\ y.id \in Id /\ y.state \in Settled
        BY <2>1, <2>5 DEF Message, Notice
      <3>2. y \notin srv.outgoing
        BY DEF IInv, ServerSound, Sound
      <3>3. new.promises[y.id].state = y.state
        BY <3>1, <3>2 DEF Follows, Tells
      <3>4. m.id = y.id /\ m.state = y.state /\ m.value = values[y.id]
        BY <2>5
      <3> QED BY <1>1, <1>2, <3>1, <3>3, <3>4
    <2> HIDE DEF E, U
    <2> QED BY <2>2, <2>3, <2>4, <2>5
  <1>9. \A i \in Id : HasPromise(srv, i) => asked'[i] = asked[i]
    BY DEF ParamsFiled
  <1>10. \A i \in Id : Rank(srv, i) <= Rank(srv', i)
    <2> SUFFICES ASSUME NEW i \in Id
        PROVE  Rank(srv, i) <= Rank(srv', i)
      OBVIOUS
    <2>1. Inv(srv) /\ Inv(new)
      BY DEF IInv, ServerSound, Sound, Follows
    <2>2. Rank(srv, i) \in Nat /\ Rank(new, i) \in Nat
      BY <2>1, RankNat
    <2>3. Rank(new, i) >= Rank(srv, i)
      BY DEF Follows, Evolves
    <2>4. Rank(srv', i) = Rank(new, i)
      BY <1>2 DEF Rank
    <2> QED BY <2>2, <2>3, <2>4
  <1> QED BY <1>2, <1>3, <1>4, <1>5, <1>6, <1>7, <1>8, <1>9, <1>10 DEF Kept

\* The entries are true of whatever is kept.
LEMMA EntriesKept ==
    ASSUME IInv, NEW new, Kept(new), UNCHANGED subs
    PROVE  EntriesTrue'
  <1>1. \A p \in Pid : \A i \in Id : EntryTrue(subs[p][i], i)
    BY DEF IInv, EntriesTrue
  <1>2. ASSUME NEW p \in Pid, NEW i \in Id
        PROVE  \/ subs'[p][i] \in {NoEntry, Waiting}
               \/ /\ srv'.promises[i].state \in Settled
                  /\ subs'[p][i] = EntryOf(srv'.promises[i].state, value'[i])
    BY <1>1 DEF EntryTrue, Kept
  <1> QED BY <1>2 DEF IInv, EntriesTrue, EntryTrue

\* What has started has a promise.
LEMMA StartedPromise ==
    ASSUME IInv, NEW x \in started
    PROVE  HasPromise(srv, x.id)
  <1>1. x.id \in Id /\ x.version \in Nat /\ 2 * x.version + 1 <= Rank(srv, x.id)
    BY DEF IInv, StartsBehind
  <1>2. Inv(srv)
    BY DEF IInv, ServerSound, Sound
  <1>3. Rank(srv, x.id) # 0
    BY <1>1, <1>2, RankNat
  <1>4. HasTask(srv, x.id)
    BY <1>1, <1>2, <1>3 DEF Rank, Inv, AbsentFresh, HasTask
  <1> QED BY <1>1, <1>2, <1>4 DEF Inv, TasksFollowPromises

LEMMA StartKept ==
    ASSUME IInv, NEW new, Kept(new), NEW x \in started
    PROVE  /\ x.id \in Id /\ x.version \in Nat /\ 2 * x.version + 1 <= Rank(srv', x.id)
           /\ x.func \in {asked'[x.id], "none"}
  <1>1. x.id \in Id /\ x.version \in Nat /\ 2 * x.version + 1 <= Rank(srv, x.id)
    BY DEF IInv, StartsBehind
  <1>2. Rank(srv, x.id) \in Nat /\ Rank(srv', x.id) \in Nat
        /\ Rank(srv, x.id) <= Rank(srv', x.id)
    BY <1>1, RankNat DEF Kept, IInv, ServerSound, Sound
  <1>3. 2 * x.version + 1 <= Rank(srv', x.id)
    BY <1>1, <1>2
  <1>4. asked'[x.id] = asked[x.id]
    BY <1>1, StartedPromise DEF Kept
  <1>5. x.func \in {asked[x.id], "none"}
    BY DEF IInv, RunsWhatWasAsked
  <1> QED BY <1>1, <1>3, <1>4, <1>5

LEMMA StartsKept ==
    ASSUME IInv, NEW new, Kept(new), UNCHANGED started
    PROVE  (StartsBehind /\ RunsWhatWasAsked)'
  BY StartKept DEF StartsBehind, RunsWhatWasAsked

\* What a worker decodes is what the creator encoded.
LEMMA ParamDecoded ==
    ASSUME NEW f
    PROVE  Decoded(Param(f)) = TaskData(f)
  <1> DEFINE S == {"null", "empty", "b64", "object", "call", f}
             d == TaskData(f)
  <1>1. d \in Seq(S)
    BY DEF TaskData
  <1>2. {"null", "empty", "b64", "object"} \subseteq S
    OBVIOUS
  <1> HIDE DEF S, d
  <1>3. Decoded(Serialize({Encode(d)})) = d
    BY <1>1, <1>2, RoundTrip
  <1> QED BY <1>3 DEF d, Param

\* So it is the function that was asked for, if the process knows it.
LEMMA RunsFound ==
    ASSUME NEW p, NEW f
    PROVE  Runs(p, Decoded(Param(f))) \in {f, "none"}
  <1> DEFINE d == TaskData(f)
  <1>1. Head(d) = "call" /\ d[2] = f
    BY DEF TaskData
  <1>2. Decoded(Param(f)) = d
    BY ParamDecoded
  <1> HIDE DEF d
  <1>3. CASE f \notin registry[p]
    BY <1>1, <1>2, <1>3 DEF Runs
  <1>4. CASE f \in registry[p]
    BY <1>1, <1>2, <1>4 DEF Runs
  <1> QED BY <1>3, <1>4

\* A task a process acquired: what starts holds its lease, is asked for, and is the
\* first under this version.
LEMMA Launched ==
    ASSUME IInv, NEW new, Kept(new), NEW b, Inv(b), NEW i \in Id, NEW p, NEW task,
           Leased(task, b, new, i, p), Rank(srv, i) <= Rank(b, i),
           Launch(p, task, param'[i])
    PROVE  /\ (StartsBehind /\ RunsWhatWasAsked)'
           /\ \A x \in exec' : x.id \in Id
           /\ \A x \in started' \ started :
                 /\ HoldsLease(srv', x.id, x.version) /\ srv'.tasks[x.id].pid = x.pid
                 /\ x.nth = 1
  <1> DEFINE func == Runs(p, Decoded(param'[i]))
             x == [pid |-> p, id |-> task.id, version |-> task.version, func |-> func]
             before == {y \in started : y.id = x.id /\ y.version = x.version}
             n == Cardinality(before) + 1
             z == [pid |-> p, id |-> x.id, version |-> x.version,
                   func |-> x.func, nth |-> n]
  <1>1. /\ exec' = IF Decoded(param'[i]) = Garbled THEN exec ELSE exec \cup {x}
        /\ started' = started \cup {z}
    BY DEF Launch
  <1>2. /\ task.id = i /\ task.version \in Nat
        /\ Rank(b, i) <= 2 * task.version
        /\ HoldsLease(new, i, task.version) /\ new.tasks[i].pid = p
    BY DEF Leased
  <1>3. HoldsLease(srv', i, task.version) /\ srv'.tasks[i].pid = p /\ Inv(srv') /\ Aimed(srv')
    BY <1>2 DEF Kept, HoldsLease, ServerSound, Sound
  <1>4. Rank(srv', i) = 2 * task.version + 1
    BY <1>3 DEF HoldsLease, Rank
  <1>5. HasPromise(srv', i) /\ srv'.promises[i].target
    BY <1>3 DEF HoldsLease, HasTask, Aimed, Inv, TasksFollowPromises
  <1>6. param'[i] = Param(asked'[i])
    BY <1>5 DEF Kept, ParamsAsked
  <1>7. func \in {asked'[i], "none"}
    BY <1>6, RunsFound
  <1> HIDE DEF func
  <1>8. /\ x.pid = p /\ x.id = i /\ x.version = task.version /\ x.func = func
        /\ z.pid = p /\ z.id = i /\ z.version = task.version /\ z.func = func
        /\ z.nth = n
    <2> HIDE DEF n
    <2> QED BY <1>2
  <1>9. n = 1
    <2>1. before = {}
      <3> SUFFICES ASSUME NEW y \in started, y.id = i, y.version = task.version
          PROVE  FALSE
        BY <1>8
      <3>1. 2 * task.version + 1 <= Rank(srv, i)
        BY DEF IInv, StartsBehind
      <3>2. Rank(srv, i) \in Nat /\ Rank(b, i) \in Nat
        BY RankNat DEF IInv, ServerSound, Sound
      <3> QED BY <1>2, <3>1, <3>2
    <2> HIDE DEF before
    <2>2. Cardinality(before) = 0
      BY <2>1, FS_EmptySet DEF Cardinality
    <2> QED BY <2>2
  <1> HIDE DEF x, z, n
  <1>10. (StartsBehind /\ RunsWhatWasAsked)'
    <2> SUFFICES ASSUME NEW y \in started'
        PROVE  /\ y.id \in Id /\ y.version \in Nat /\ 2 * y.version + 1 <= Rank(srv', y.id)
               /\ y.func \in {asked'[y.id], "none"}
      BY DEF StartsBehind, RunsWhatWasAsked
    <2>1. CASE y \in started
      BY <2>1, StartKept
    <2>2. CASE y = z
      BY <1>2, <1>4, <1>7, <1>8, <2>2
    <2> QED BY <1>1, <2>1, <2>2
  <1>11. \A y \in exec' : y.id \in Id
    BY <1>1, <1>8 DEF IInv
  <1>12. \A y \in started' \ started : y = z
    BY <1>1
  <1> QED BY <1>2, <1>3, <1>8, <1>9, <1>10, <1>11, <1>12

\* A request about promise i, between the deadlines before it and the handler.
LEMMA Replied ==
    ASSUME IInv, NEW r, NEW i \in Id, Named(r) = <<i>>
    PROVE  LET b == Reply(r).before
           IN  /\ Inv(b) /\ Untimed(b) /\ Aimed(b)
               /\ Follows(srv, b, {}, {}) /\ Passes(srv, b, clock)
               /\ b.promises[i].state = "pending" => clock < b.promises[i].timeoutAt
               /\ \A j \in Id : HasPromise(b, j) <=> HasPromise(srv, j)
               /\ Rank(srv, i) <= Rank(b, i)
               /\ Reply(r).after = Handled(b, clock, r)
               /\ Reply(r).result = Result(r, AnswerTo(b, Handled(b, clock, r), r))
  <1> DEFINE b == Prelude(srv, clock, r)
  <1>1. /\ Reply(r).before = b
        /\ Reply(r).after = Handled(b, clock, r)
        /\ Reply(r).result = Result(r, AnswerTo(b, Handled(b, clock, r), r))
    BY DEF Reply
  <1>2. Sound(srv) /\ clock \in Nat
    BY DEF IInv, ServerSound
  <1>3. /\ Follows(srv, b, {}, {}) /\ Passes(srv, b, clock)
        /\ b.promises[i].state = "pending" => clock < b.promises[i].timeoutAt
    BY <1>2, PreludeFollows
  <1> HIDE DEF b
  <1>4. Inv(b) /\ Untimed(b) /\ Aimed(b)
    BY <1>3 DEF Follows
  <1>5. \A j \in Id : HasPromise(b, j) <=> HasPromise(srv, j)
    BY <1>3 DEF Follows
  <1>6. Rank(srv, i) <= Rank(b, i)
    <2>1. Rank(srv, i) \in Nat /\ Rank(b, i) \in Nat
      BY <1>2, <1>4, RankNat DEF Sound
    <2>2. Rank(b, i) >= Rank(srv, i)
      BY <1>3 DEF Follows, Evolves
    <2> QED BY <2>1, <2>2
  <1> QED BY <1>1, <1>3, <1>4, <1>5, <1>6

-----------------------------------------------------------------------------
(* The server's part of a step *)

\* Payloads stay with promises none of which is created or settled by hand.
LEMMA Unfiled ==
    ASSUME IInv, NEW new, Follows(srv, new, {}, {}), UNCHANGED <<asked, outcome>>
    PROVE  ParamsFiled(new, param) /\ ValuesFiled(new, value)
  <1>1. Tables
    BY DEF IInv
  <1>2. ParamsFiled(new, param)
    BY <1>1 DEF ParamsFiled, Tables, Follows
  <1>3. ValuesFiled(new, value)
    BY <1>1 DEF ValuesFiled, Tables, Follows, SettleState, Settled
  <1> QED BY <1>2, <1>3

\* A request that only reads, or moves tasks.
LEMMA ServeKeeps ==
    ASSUME IInv, NEW r, NEW i \in Id, Named(r) = <<i>>, NEW handled,
           Follows(Reply(r).before, Reply(r).after, {}, {}),
           Serve(Reply(r), handled), UNCHANGED <<clock, asked, outcome>>
    PROVE  Kept(Reply(r).after)
  <1> DEFINE b == Reply(r).before
             a == Reply(r).after
  <1>1. Follows(srv, b, {}, {}) /\ Passes(srv, b, clock) /\ Inv(srv)
    BY Replied DEF IInv, ServerSound, Sound
  <1>2. Become(a, param, value, handled)
    BY DEF Serve
  <1> HIDE DEF a, b
  <1>3. Follows(srv, a, {}, {})
    BY <1>1, FollowsThen DEF a, b
  <1>4. ParamsFiled(a, param) /\ ValuesFiled(a, value)
    BY <1>3, Unfiled
  <1>5. Kept(a)
    BY <1>2, <1>3, <1>4, BecomeKeeps
  <1> QED BY <1>5 DEF a

\* A request that may create promise i.
LEMMA ServeCreateKeeps ==
    ASSUME IInv, NEW r, NEW i \in Id, Named(r) = <<i>>, NEW json, NEW func,
           Follows(Reply(r).before, Reply(r).after, {}, {i}),
           ~ HasPromise(Reply(r).before, i) /\ Reply(r).after.promises[i].target =>
                json = Param(func),
           ServeCreate(Reply(r), i, json, func), UNCHANGED <<clock, outcome>>
    PROVE  Kept(Reply(r).after)
  <1> DEFINE b == Reply(r).before
             a == Reply(r).after
             params == IF HasPromise(b, i) THEN param ELSE [param EXCEPT ![i] = json]
  <1>1. /\ Follows(srv, b, {}, {}) /\ Passes(srv, b, clock) /\ Inv(srv)
        /\ HasPromise(b, i) <=> HasPromise(srv, i)
    BY Replied DEF IInv, ServerSound, Sound
  <1>2. /\ Become(a, params, value, {})
        /\ asked' = IF HasPromise(b, i) THEN asked ELSE [asked EXCEPT ![i] = func]
    BY DEF ServeCreate
  <1>3. Follows(srv, a, {}, {i})
    BY <1>1, FollowsThen
  <1>4. ~ HasPromise(b, i) /\ a.promises[i].target => json = Param(func)
    OBVIOUS
  <1> HIDE DEF a, b
  <1>5. Tables
    BY DEF IInv
  <1>6. ParamsFiled(a, params)
    <2>1. CASE HasPromise(b, i)
      <3>1. params = param /\ asked' = asked
        BY <1>2, <2>1
      <3> HIDE DEF params
      <3> QED BY <1>1, <1>3, <1>5, <2>1, <3>1 DEF ParamsFiled, Tables, Follows
    <2>2. CASE ~ HasPromise(b, i)
      <3>1. params = [param EXCEPT ![i] = json] /\ asked' = [asked EXCEPT ![i] = func]
        BY <1>2, <2>2
      <3> HIDE DEF params
      <3>2. /\ DOMAIN params = Id /\ DOMAIN asked' = Id
            /\ params[i] = json /\ asked'[i] = func
            /\ \A j \in Id \ {i} : params[j] = param[j] /\ asked'[j] = asked[j]
        BY <1>5, <3>1 DEF Tables
      <3> QED BY <1>1, <1>3, <1>4, <2>2, <3>2 DEF ParamsFiled, Follows
    <2> QED BY <2>1, <2>2
  <1>7. ValuesFiled(a, value)
    BY <1>3, <1>5 DEF ValuesFiled, Tables, Follows, SettleState, Settled
  <1> HIDE DEF params
  <1>8. Kept(a)
    BY <1>2, <1>3, <1>6, <1>7, BecomeKeeps
  <1> QED BY <1>8 DEF a

\* A request that may settle promise i, of which a handle reads what is meant.
LEMMA ServeSettleKeeps ==
    ASSUME IInv, NEW r, NEW i \in Id, Named(r) = <<i>>, NEW json, NEW meaning, NEW state,
           Follows(Reply(r).before, Reply(r).after, {i}, {}),
           Reply(r).before.promises[i].state = "pending"
                /\ Reply(r).after.promises[i].state \in SettleState =>
                    Reply(r).result.ok /\ Reply(r).after.promises[i].state = state,
           Reads(state, json, meaning),
           ServeSettle(Reply(r), i, json, meaning), UNCHANGED <<clock, asked>>
    PROVE  Kept(Reply(r).after)
  <1> DEFINE b == Reply(r).before
             a == Reply(r).after
             ok == Reply(r).result.ok
             stored == IF ok THEN Stored(b, i, value[i], json) ELSE value[i]
             values == [value EXCEPT ![i] = stored]
  <1>1. /\ Follows(srv, b, {}, {}) /\ Passes(srv, b, clock) /\ Inv(srv) /\ Inv(b)
        /\ HasPromise(b, i) <=> HasPromise(srv, i)
    BY Replied DEF IInv, ServerSound, Sound
  <1>2. /\ Become(a, param, values, {})
        /\ outcome' = IF ok /\ b.promises[i].state = "pending"
                      THEN [outcome EXCEPT ![i] = meaning] ELSE outcome
    BY DEF ServeSettle
  <1>3. Follows(srv, a, {i}, {})
    BY <1>1, FollowsThen
  <1>4. b.promises[i].state = "pending" /\ a.promises[i].state \in SettleState =>
            ok /\ a.promises[i].state = state
    OBVIOUS
  <1>5. stored = IF ok /\ b.promises[i].state = "pending" THEN json ELSE value[i]
    BY DEF Stored
  <1>6. Follows(b, a, {i}, {})
    OBVIOUS
  <1> HIDE DEF a, b, ok, stored
  <1>7. Tables
    BY DEF IInv
  <1>8. ParamsFiled(a, param)
    BY <1>3, <1>7 DEF ParamsFiled, Tables, Follows
  <1>9. /\ DOMAIN values = Id /\ values[i] = stored
        /\ \A j \in Id \ {i} : values[j] = value[j]
    BY <1>7 DEF Tables
  <1> HIDE DEF values
  <1>10. /\ DOMAIN outcome' = Id
         /\ \A j \in Id \ {i} : outcome'[j] = outcome[j]
         /\ outcome'[i] = IF ok /\ b.promises[i].state = "pending" THEN meaning ELSE outcome[i]
    BY <1>2, <1>7 DEF Tables
  <1>11. srv.promises[i].state \in Settled => b.promises[i].state # "pending"
    BY <1>1 DEF Follows, Evolves, Settled
  <1>12. ASSUME srv.promises[i].state \notin Settled, a.promises[i].state \in SettleState
         PROVE  b.promises[i].state = "pending"
    <2>1. b.promises[i].state \in PromiseState
      BY <1>1, Fields DEF Inv, Promise
    <2>2. b.promises[i].state \notin SettleState
      BY <1>1, <1>12 DEF Follows, SettleState, Settled
    <2>3. b.promises[i].state # "rejected_timedout"
      BY <1>6, <1>12 DEF Follows, Evolves, SettleState, Settled
    <2>4. b.promises[i].state # "absent"
      BY <1>1, <1>3, <1>12 DEF Follows, HasPromise, SettleState
    <2> QED BY <2>1, <2>2, <2>3, <2>4 DEF PromiseState, Settled, SettleState
  <1>13. ValuesFiled(a, values)
    <2> SUFFICES ASSUME NEW j \in Id
        PROVE  /\ srv.promises[j].state \in Settled =>
                        values[j] = value[j] /\ outcome'[j] = outcome[j]
               /\ srv.promises[j].state \notin Settled /\ a.promises[j].state \in SettleState =>
                        Reads(a.promises[j].state, values[j], outcome'[j])
      BY <1>9, <1>10 DEF ValuesFiled
    <2>1. CASE j # i
      BY <1>3, <1>9, <1>10, <2>1 DEF Follows, SettleState, Settled
    <2>2. CASE j = i
      <3>1. srv.promises[j].state \in Settled =>
                        values[j] = value[j] /\ outcome'[j] = outcome[j]
        BY <1>5, <1>9, <1>10, <1>11, <2>2
      <3>2. ASSUME srv.promises[j].state \notin Settled, a.promises[j].state \in SettleState
            PROVE  /\ a.promises[j].state = state /\ values[j] = json
                   /\ outcome'[j] = meaning
        BY <1>4, <1>5, <1>9, <1>10, <1>12, <2>2, <3>2
      <3> QED BY <3>1, <3>2
    <2> QED BY <2>1, <2>2
  <1>14. Kept(a)
    BY <1>2, <1>3, <1>8, <1>13, BecomeKeeps
  <1> QED BY <1>14 DEF a

\* Where the server does not move, messages are only consumed.
LEMMA StillKeeps ==
    ASSUME IInv, UNCHANGED <<srv, param, value, asked, outcome>>,
           messages' \subseteq messages, clock' \in Nat
    PROVE  Kept(srv)
  <1>1. Tables' /\ ServerSound' /\ ParamsAsked' /\ ValuesMeant'
    BY DEF IInv, Tables, ServerSound, ParamsAsked, ValuesMeant
  <1>2. MessagesTrue'
    BY DEF IInv, MessagesTrue, IsRecord
  <1>3. \A i \in Id : Rank(srv, i) <= Rank(srv', i)
    <2>1. \A i \in Id : Rank(srv, i) \in Nat
      BY RankNat DEF IInv, ServerSound, Sound
    <2> QED BY <2>1
  <1> QED BY <1>1, <1>2, <1>3 DEF Kept

-----------------------------------------------------------------------------
(* What a settlement means to a handle *)

LEMMA ReadsData ==
    ASSUME NEW d \in Json
    PROVE  DecodeValue(ValueToWire(Deserialize(Serialize({Encode(d)})))) = d
  <1>1. d \in Seq(Text) /\ {"null", "empty", "b64", "object"} \subseteq Text
    BY ClientAssumption DEF Json
  <1> QED BY <1>1, RoundTrip

LEMMA DataJson ==
    ASSUME NEW v, v \subseteq Json
    PROVE  DataOrNull(v) \in Json
  <1>1. CASE v = {}
    BY <1>1, ClientAssumption DEF DataOrNull, Null, Json
  <1>2. CASE v # {}
    <2>1. (CHOOSE d \in v : TRUE) \in v
      BY <1>2
    <2> QED BY <1>2, <2>1 DEF DataOrNull
  <1> QED BY <1>1, <1>2

LEMMA ReadsMeaning ==
    ASSUME NEW state \in SettleState, NEW d \in Json
    PROVE  Reads(state, Serialize({Encode(d)}), Meaning(state, d))
  <1> DEFINE json == ValueToWire(Deserialize(Serialize({Encode(d)})))
  <1>1. DecodeValue(json) = d
    BY ReadsData
  <1> HIDE DEF json
  <1>2. DecodeResult(state, json) = Meaning(state, d)
    <2>1. CASE state = "resolved"
      BY <1>1, <2>1 DEF DecodeResult, Meaning
    <2>2. CASE state = "rejected"
      BY <1>1, <2>2 DEF DecodeResult, Meaning, DeserializeError
    <2>3. CASE state = "rejected_canceled"
      BY <2>3 DEF DecodeResult, Meaning
    <2> QED BY <2>1, <2>2, <2>3 DEF SettleState
  <1> QED BY <1>2 DEF Reads, json

\* The error of a function arrives with its message.
LEMMA ReadsError ==
    Reads("rejected", Serialize({Encode(EncodeError("failed"))}), <<"err", "failed">>)
  <1> DEFINE d == EncodeError("failed")
             x == <<"err">> \o <<"failed">>
  <1>1. d \in Json /\ Head(d) = "error" /\ Tail(d) = <<"failed">>
    BY ClientAssumption DEF EncodeError, Json
  <1>2. x = <<"err", "failed">>
    <2> DEFINE S == {"err", "failed"}
               h == <<"err">>
               t == <<"failed">>
               y == <<"err", "failed">>
    <2>1. /\ h \in Seq(S) /\ Len(h) = 1 /\ h[1] = "err"
          /\ t \in Seq(S) /\ Len(t) = 1 /\ t[1] = "failed"
          /\ y \in Seq(S) /\ Len(y) = 2 /\ y[1] = "err" /\ y[2] = "failed"
      OBVIOUS
    <2> HIDE DEF S, h, t, y
    <2>2. /\ h \o t \in Seq(S) /\ Len(h \o t) = Len(h) + Len(t)
          /\ \A k \in 1 .. Len(h) + Len(t) :
                (h \o t)[k] = IF k <= Len(h) THEN h[k] ELSE t[k - Len(h)]
      BY <2>1, ConcatProperties
    <2>3. \A k \in 1 .. Len(h \o t) : (h \o t)[k] = y[k]
      BY <2>1, <2>2
    <2>4. h \o t = y
      BY <2>1, <2>2, <2>3, SeqEqual
    <2> QED BY <2>4 DEF h, t, y
  <1> HIDE DEF d, x
  <1>3. "rejected" \in SettleState
    BY DEF SettleState
  <1>4. Meaning("rejected", d) = x
    BY <1>1 DEF Meaning, x
  <1>5. Reads("rejected", Serialize({Encode(d)}), Meaning("rejected", d))
    BY <1>1, <1>3, ReadsMeaning
  <1> QED BY <1>2, <1>4, <1>5 DEF d

-----------------------------------------------------------------------------
(* The steps *)

\* What StartsHoldLease says of a step.
StartHolds(x) ==
    /\ HoldsLease(srv', x.id, x.version) /\ srv'.tasks[x.id].pid = x.pid
    /\ x.nth = 1
StartsHeld == \A x \in started' \ started : StartHolds(x)

Steps == IInv' /\ StartsHeld

LEMMA Assembled ==
    ASSUME IInv, NEW new, Kept(new), UNCHANGED started, UNCHANGED schedules,
           EntriesTrue', Calling', \A x \in exec' : x.id \in Id
    PROVE  Steps
  <1>1. SchedulesAsked'
    BY DEF IInv, SchedulesAsked
  <1>2. (StartsBehind /\ RunsWhatWasAsked)'
    BY StartsKept
  <1>3. StartsHeld
    BY DEF StartsHeld
  <1> QED BY <1>1, <1>2, <1>3 DEF Steps, IInv, Kept

LEMMA CallingKept ==
    ASSUME IInv, UNCHANGED call
    PROVE  Calling'
  BY DEF IInv, Calling

LEMMA BeginsCalling ==
    ASSUME IInv, NEW c \in Call, NEW p \in Pid, NEW i \in Id, Begins(c, p, i)
    PROVE  Calling'
  <1> DEFINE k == [phase |-> "look", pid |-> p, id |-> i]
             K == [phase : {"idle", "look", "held", "failed"},
                   pid : Pid \cup {NoPid}, id : Id \cup {<<>>}]
  <1>1. call' = [call EXCEPT ![c] = k]
    BY DEF Begins
  <1>2. k \in K /\ k.pid = p /\ k.id = i
    OBVIOUS
  <1>3. call \in [Call -> K]
    BY DEF IInv, Calling
  <1> HIDE DEF k, K
  <1>4. call' \in [Call -> K]
    BY <1>1, <1>2, <1>3
  <1>5. ASSUME NEW d \in Call, call'[d].phase = "look"
        PROVE  call'[d].pid \in Pid /\ call'[d].id \in Id
    <2>1. CASE d = c
      <3>1. call'[d] = k
        BY <1>1, <1>3, <2>1
      <3> QED BY <1>2, <3>1
    <2>2. CASE d # c
      <3>1. call'[d] = call[d]
        BY <1>1, <1>3, <2>2
      <3> QED BY <1>5, <3>1 DEF IInv, Calling
    <2> QED BY <2>1, <2>2
  <1> QED BY <1>4, <1>5 DEF Calling, K

LEMMA RootIds ==
    /\ RootId \subseteq Id
    /\ RootTags \in Tags /\ RootTags.timer = FALSE /\ RootTags.target
    /\ Bare \in Tags /\ Bare.timer = FALSE /\ ~ Bare.target
    /\ Deadline \in Nat
  BY ClientAssumption DEF RootTags, Bare, Tags, None

LEMMA RegisterStep ==
    ASSUME IInv, NEW p \in Pid, NEW f \in Func, Register(p, f)
    PROVE  Steps
  <1>1. Kept(srv)
    BY StillKeeps DEF Register, server, IInv, ServerSound
  <1>2. EntriesTrue'
    BY <1>1, EntriesKept DEF Register
  <1>3. Calling'
    BY CallingKept DEF Register
  <1> QED BY <1>1, <1>2, <1>3, Assembled DEF Register, server, work, IInv

\* The call of a function is a request for a promise with an address.
LEMMA CreateReplied ==
    ASSUME IInv, NEW i \in Id, NEW tags \in {RootTags, Bare}, NEW json, NEW func,
           tags = RootTags => json = Param(func),
           ServeCreate(Reply(CreateReq(i, tags)), i, json, func), UNCHANGED <<clock, outcome>>
    PROVE  Kept(Reply(CreateReq(i, tags)).after)
  <1> DEFINE r == CreateReq(i, tags)
             b == Reply(r).before
             a == Reply(r).after
  <1>1. r = PromiseCreateReq(i, Deadline, tags) /\ Deadline \in Nat
    BY RootIds DEF CreateReq
  <1>2. Named(r) = <<i>>
    BY DEF CreateReq, PromiseCreateReq, Named
  <1>3. clock \in Nat
    BY DEF IInv, ServerSound
  <1>4. Inv(b) /\ Untimed(b) /\ Aimed(b) /\ a = Handled(b, clock, r)
    BY <1>2, Replied
  <1>5. ServeCreate(Reply(r), i, json, func)
    OBVIOUS
  <1> HIDE DEF b, r
  <1>6. /\ Follows(b, a, {}, {i})
        /\ a.promises[i].target => HasPromise(b, i) \/ tags.target
    <2>0. tags \in Tags /\ tags.timer = FALSE
      BY RootIds
    <2> DEFINE t == Handled(b, clock, PromiseCreateReq(i, Deadline, tags))
    <2>1. /\ Follows(b, t, {}, {i})
          /\ t.promises[i].target => HasPromise(b, i) \/ tags.target
      BY <1>1, <1>3, <1>4, <2>0, CreateFollows
    <2>2. a = t
      BY <1>1, <1>4
    <2> HIDE DEF a, t
    <2> QED BY <2>1, <2>2
  <1>7. ~ HasPromise(b, i) /\ a.promises[i].target => json = Param(func)
    <2>1. tags.target => tags = RootTags
      BY RootIds
    <2> QED BY <1>6, <2>1
  <1>8. Kept(a)
    BY <1>2, <1>5, <1>6, <1>7, ServeCreateKeeps DEF b
  <1> QED BY <1>8 DEF r

LEMMA RpcCallStep ==
    ASSUME IInv, NEW c \in Call, NEW p \in Pid, NEW i \in RootId, NEW f \in Func,
           RpcCall(c, p, i, f)
    PROVE  Steps
  <1>1. i \in Id
    BY RootIds
  <1> DEFINE a == Reply(CreateReq(i, RootTags)).after
  <1>2. Kept(a)
    BY <1>1, RootIds, CreateReplied DEF RpcCall
  <1> HIDE DEF a
  <1>3. EntriesTrue'
    BY <1>2, EntriesKept DEF RpcCall
  <1>4. Calling'
    BY <1>1, BeginsCalling DEF RpcCall
  <1> QED BY <1>2, <1>3, <1>4, Assembled DEF RpcCall, work, IInv

LEMMA GetCallStep ==
    ASSUME IInv, NEW c \in Call, NEW p \in Pid, NEW i \in Id, GetCall(c, p, i)
    PROVE  Steps
  <1>1. Kept(srv)
    BY StillKeeps DEF GetCall, server, IInv, ServerSound
  <1>2. EntriesTrue'
    BY <1>1, EntriesKept DEF GetCall
  <1>3. Calling'
    BY BeginsCalling DEF GetCall
  <1> QED BY <1>1, <1>2, <1>3, Assembled DEF GetCall, server, work, IInv

LEMMA CreateStep ==
    ASSUME IInv, NEW i \in RootId, Create(i)
    PROVE  Steps
  <1>1. i \in Id
    BY RootIds
  <1> DEFINE a == Reply(CreateReq(i, Bare)).after
  <1>2. Kept(a)
    <2> DEFINE json == Serialize(EncodeValue({}))
    <2>1. ServeCreate(Reply(CreateReq(i, Bare)), i, json, "none")
      BY DEF Create
    <2> HIDE DEF json
    <2> QED BY <1>1, <2>1, RootIds, CreateReplied DEF Create
  <1> HIDE DEF a
  <1>3. EntriesTrue'
    BY <1>2, EntriesKept DEF Create, client
  <1>4. Calling'
    BY CallingKept DEF Create, client
  <1> QED BY <1>2, <1>3, <1>4, Assembled DEF Create, work, IInv

LEMMA FireStep ==
    ASSUME IInv, NEW n \in RootId, NEW t \in Timestamp, Fire(n, t)
    PROVE  Steps
  <1> DEFINE i == FiredId(n, t)
             a == Reply(CreateReq(i, RootTags)).after
  <1>1. i \in Id
    BY ClientAssumption
  <1>2. schedules[n].param = Param(schedules[n].func)
    BY DEF IInv, SchedulesAsked, Fire
  <1>3. ServeCreate(Reply(CreateReq(i, RootTags)), i, schedules[n].param, schedules[n].func)
    BY DEF Fire
  <1> HIDE DEF i
  <1>4. Kept(a)
    BY <1>1, <1>2, <1>3, RootIds, CreateReplied DEF Fire
  <1> HIDE DEF a
  <1>5. EntriesTrue'
    BY <1>4, EntriesKept DEF Fire, client
  <1>6. Calling'
    BY CallingKept DEF Fire, client
  <1> QED BY <1>4, <1>5, <1>6, Assembled DEF Fire, work, IInv

\* run begins like rpc, and may find that the task is its own.
LEMMA RunCallStep ==
    ASSUME IInv, NEW c \in Call, NEW p \in Pid, NEW i \in RootId, NEW f \in Func,
           RunCall(c, p, i, f)
    PROVE  Steps
  <1> DEFINE action == CreateReq(i, RootTags)
             r == TaskCreateReq(p, TTL, action)
             b == Reply(r).before
             a == Reply(r).after
             e == Reply(r).result
             acquired == {task \in e.task : Starts(task)}
  <1>1. i \in Id /\ clock \in Nat
    BY RootIds DEF IInv, ServerSound
  <1>2. Named(r) = <<i>>
    BY DEF CreateReq, PromiseCreateReq, TaskCreateReq, Named
  <1>3. r = TaskCreateReq(p, TTL, PromiseCreateReq(i, Deadline, RootTags))
    BY DEF CreateReq
  <1>4. /\ ServeCreate(Reply(r), i, Param(f), f)
        /\ IF acquired = {} THEN UNCHANGED work
           ELSE \A task \in acquired : Launch(p, task, param'[i])
        /\ UNCHANGED <<clock, schedules, registry, subs, outcome>>
        /\ Begins(c, p, i)
    BY DEF RunCall
  <1> HIDE DEF r
  <1>5. /\ Inv(b) /\ Untimed(b) /\ Aimed(b)
        /\ a = Handled(b, clock, r) /\ e = Result(r, AnswerTo(b, Handled(b, clock, r), r))
        /\ Rank(srv, i) <= Rank(b, i)
    BY <1>1, <1>2, Replied
  <1> HIDE DEF b, e
  <1>6. /\ Follows(b, a, {}, {i})
        /\ \A task \in e.task : Starts(task) => Leased(task, b, a, i, p)
    BY <1>1, <1>3, <1>5, RootIds, TaskCreateFollows
  <1>7. Kept(a)
    BY <1>1, <1>2, <1>4, <1>6, ServeCreateKeeps DEF b
  <1> HIDE DEF a
  <1>8. EntriesTrue'
    BY <1>4, <1>7, EntriesKept
  <1>9. Calling'
    BY <1>1, <1>4, BeginsCalling
  <1>10. CASE acquired = {}
    <2>1. UNCHANGED work
      BY <1>4, <1>10
    <2> QED BY <1>4, <1>7, <1>8, <1>9, <2>1, Assembled DEF work, IInv
  <1>11. CASE acquired # {}
    <2>1. PICK task \in acquired : TRUE
      BY <1>11
    <2>2. Launch(p, task, param'[i])
      BY <1>4, <1>11, <2>1
    <2>3. Leased(task, b, a, i, p)
      BY <1>6, <2>1
    <2>4. /\ (StartsBehind /\ RunsWhatWasAsked)'
          /\ \A x \in exec' : x.id \in Id
          /\ StartsHeld
      BY <1>1, <1>5, <1>7, <2>2, <2>3, Launched DEF StartsHeld, StartHolds
    <2>5. SchedulesAsked'
      BY <1>4 DEF IInv, SchedulesAsked
    <2> QED BY <1>7, <1>8, <1>9, <2>4, <2>5 DEF Steps, IInv, Kept
  <1> QED BY <1>10, <1>11

LEMMA OnMessageStep ==
    ASSUME IInv, NEW p \in Pid, NEW m \in messages, OnMessage(p, m)
    PROVE  Steps
  <1> DEFINE i == m.id
             r == TaskAcquireReq(i, m.version, p, TTL)
             b == Reply(r).before
             a == Reply(r).after
             e == Reply(r).result
  <1>1. i \in Id /\ clock \in Nat
    BY DEF IInv, MessagesTrue, ServerSound
  <1>2. Named(r) = <<i>>
    BY DEF TaskAcquireReq, Named
  <1>3. /\ Serve(Reply(r), {m})
        /\ IF e.ok THEN \A task \in e.task : Launch(p, task, param[i]) ELSE UNCHANGED work
        /\ UNCHANGED <<clock, schedules, client, asked, outcome>>
    BY DEF OnMessage
  <1>4. param' = param
    BY <1>3 DEF Serve, Become
  <1>5. r = TaskAcquireReq(i, m.version, p, TTL)
    OBVIOUS
  <1> HIDE DEF r, i
  <1>6. /\ Inv(b) /\ Untimed(b) /\ Aimed(b)
        /\ a = Handled(b, clock, r) /\ e = Result(r, AnswerTo(b, Handled(b, clock, r), r))
        /\ Rank(srv, i) <= Rank(b, i)
    BY <1>1, <1>2, Replied
  <1> HIDE DEF b, e
  <1>7. /\ Follows(b, a, {}, {})
        /\ e.ok => e.task # {} /\ \A task \in e.task : Leased(task, b, a, i, p)
    BY <1>1, <1>5, <1>6, AcquireFollows
  <1>8. Kept(a)
    BY <1>1, <1>2, <1>3, <1>7, ServeKeeps DEF b
  <1> HIDE DEF a
  <1>9. EntriesTrue' /\ Calling'
    BY <1>3, <1>8, EntriesKept, CallingKept DEF client
  <1>10. CASE ~ e.ok
    <2>1. UNCHANGED work
      BY <1>3, <1>10
    <2> QED BY <1>3, <1>8, <1>9, <2>1, Assembled DEF work, IInv
  <1>11. CASE e.ok
    <2>1. PICK task \in e.task : Leased(task, b, a, i, p)
      BY <1>7, <1>11
    <2>2. Launch(p, task, param'[i])
      BY <1>3, <1>4, <1>11, <2>1
    <2>3. /\ (StartsBehind /\ RunsWhatWasAsked)'
          /\ \A x \in exec' : x.id \in Id
          /\ StartsHeld
      BY <1>1, <1>6, <1>8, <2>1, <2>2, Launched DEF StartsHeld, StartHolds
    <2>4. SchedulesAsked'
      BY <1>3 DEF IInv, SchedulesAsked
    <2> QED BY <1>8, <1>9, <2>3, <2>4 DEF Steps, IInv, Kept
  <1> QED BY <1>10, <1>11

LEMMA ReturnStep ==
    ASSUME IInv, NEW x \in exec, NEW state \in SettleState, NEW json, NEW meaning,
           Reads(state, Serialize({Encode(json)}), meaning),
           Return(x, state, json, meaning)
    PROVE  Steps
  <1> DEFINE i == x.id
             r == TaskFulfillReq(i, x.version, PromiseSettleReq(i, state))
             b == Reply(r).before
             a == Reply(r).after
             e == Reply(r).result
             stored == Serialize({Encode(json)})
  <1>1. i \in Id /\ clock \in Nat
    BY DEF IInv, ServerSound
  <1>2. Named(r) = <<i>>
    BY DEF TaskFulfillReq, Named
  <1>3. /\ ServeSettle(Reply(r), i, stored, meaning)
        /\ exec' = (exec \ {x}) \cup IF e.ok THEN {} ELSE {[x EXCEPT !.func = "none"]}
        /\ UNCHANGED <<clock, schedules, client, started, releases, asked>>
    BY DEF Return
  <1>4. r = TaskFulfillReq(i, x.version, PromiseSettleReq(i, state)) /\ Reads(state, stored, meaning)
    OBVIOUS
  <1>5. [x EXCEPT !.func = "none"].id = i
    OBVIOUS
  <1> HIDE DEF r, i, stored
  <1>6. /\ Inv(b) /\ Untimed(b) /\ Aimed(b)
        /\ a = Handled(b, clock, r) /\ e = Result(r, AnswerTo(b, Handled(b, clock, r), r))
        /\ b.promises[i].state = "pending" => clock < b.promises[i].timeoutAt
    BY <1>1, <1>2, Replied
  <1> HIDE DEF b, e
  <1>7. /\ Follows(b, a, {i}, {})
        /\ b.promises[i].state = "pending" /\ a.promises[i].state \in SettleState =>
              e.ok /\ a.promises[i].state = state
    BY <1>1, <1>4, <1>6, FulfillFollows
  <1>8. Kept(a)
    BY <1>1, <1>2, <1>3, <1>4, <1>7, ServeSettleKeeps DEF b, e
  <1> HIDE DEF a
  <1>9. EntriesTrue' /\ Calling'
    BY <1>3, <1>8, EntriesKept, CallingKept DEF client
  <1>10. \A y \in exec' : y.id \in Id
    BY <1>1, <1>3, <1>5 DEF IInv
  <1> QED BY <1>3, <1>8, <1>9, <1>10, Assembled

LEMMA ReleaseTaskStep ==
    ASSUME IInv, NEW x \in exec, ReleaseTask(x)
    PROVE  Steps
  <1> DEFINE i == x.id
             r == TaskReleaseReq(i, x.version)
             b == Reply(r).before
             a == Reply(r).after
  <1>1. i \in Id /\ clock \in Nat
    BY DEF IInv, ServerSound
  <1>2. Named(r) = <<i>>
    BY DEF TaskReleaseReq, Named
  <1>3. /\ Serve(Reply(r), {}) /\ exec' = exec \ {x}
        /\ UNCHANGED <<clock, schedules, client, started, asked, outcome>>
    BY DEF ReleaseTask
  <1>4. r = TaskReleaseReq(i, x.version)
    OBVIOUS
  <1> HIDE DEF r, i
  <1>5. Inv(b) /\ Untimed(b) /\ Aimed(b) /\ a = Handled(b, clock, r)
    BY <1>1, <1>2, Replied
  <1> HIDE DEF b
  <1>6. Follows(b, a, {}, {})
    BY <1>1, <1>4, <1>5, ReleaseFollows
  <1>7. Kept(a)
    BY <1>1, <1>2, <1>3, <1>6, ServeKeeps DEF b
  <1> HIDE DEF a
  <1>8. EntriesTrue' /\ Calling'
    BY <1>3, <1>7, EntriesKept, CallingKept DEF client
  <1>9. \A y \in exec' : y.id \in Id
    BY <1>3 DEF IInv
  <1> QED BY <1>3, <1>7, <1>8, <1>9, Assembled

\* An entry is made of the record of the answer, or is as it was.
LEMMA ListenStep ==
    ASSUME IInv, NEW p \in Pid, NEW i \in Id, NEW received \in BOOLEAN,
           Listen(p, i, Reply(ListenerReq(i, p)), received)
    PROVE  Kept(Reply(ListenerReq(i, p)).after) /\ EntriesTrue'
  <1> DEFINE r == ListenerReq(i, p)
             b == Reply(r).before
             a == Reply(r).after
             ok == Reply(r).result.ok
             state == a.promises[i].state
             settled == ok /\ state # "pending"
             old == subs[p][i]
             new == CASE settled /\ received -> EntryOf(state, value[i])
                      [] old = NoEntry       -> Waiting
                      [] OTHER               -> old
  <1>1. clock \in Nat /\ p \in Addr
    BY ClientAssumption DEF IInv, ServerSound
  <1>2. Named(r) = <<i>>
    BY DEF ListenerReq, Named
  <1>3. /\ Serve(Reply(r), {})
        /\ subs' = [subs EXCEPT ![p] = [subs[p] EXCEPT ![i] = new]]
        /\ UNCHANGED <<clock, asked, outcome>>
    BY DEF Listen
  <1>4. new \in {old, Waiting} \/ (settled /\ new = EntryOf(state, value[i]))
    <2> HIDE DEF settled, state, old
    <2>1. CASE settled /\ received
      <3>1. CASE old = NoEntry
        BY <2>1, <3>1
      <3>2. CASE old # NoEntry
        BY <2>1, <3>2
      <3> QED BY <3>1, <3>2
    <2>2. CASE ~ (settled /\ received)
      BY <2>2
    <2> QED BY <2>1, <2>2
  <1>5. r = ListenerReq(i, p)
    OBVIOUS
  <1> HIDE DEF r, new
  <1>6. /\ Inv(b) /\ Untimed(b) /\ Aimed(b)
        /\ a = Handled(b, clock, r)
        /\ ok = Result(r, AnswerTo(b, Handled(b, clock, r), r)).ok
    BY <1>2, Replied
  <1> HIDE DEF b, ok
  <1>7. Follows(b, a, {}, {}) /\ (ok => HasPromise(a, i))
    BY <1>1, <1>5, <1>6, ListenFollows
  <1>8. Kept(a)
    BY <1>2, <1>3, <1>7, ServeKeeps DEF b
  <1>9. Inv(a)
    BY <1>7 DEF Follows
  <1> HIDE DEF a
  <1>10. settled => state \in Settled
    BY <1>7, <1>9, Fields DEF HasPromise, Inv, Promise, PromiseState
  <1>11. srv'.promises[i].state = state /\ value' = value
    BY <1>3, <1>8 DEF Kept, Serve, Become
  <1> HIDE DEF state, settled
  <1>12. EntriesTrue
    BY DEF IInv
  <1>13. /\ DOMAIN subs' = Pid
         /\ \A q \in Pid : DOMAIN subs'[q] = Id
         /\ subs'[p][i] = new
         /\ \A q \in Pid, j \in Id : q # p \/ j # i => subs'[q][j] = subs[q][j]
    <2> HIDE DEF old
    <2> QED BY <1>3, <1>12 DEF EntriesTrue
  <1>14. ASSUME NEW q \in Pid, NEW j \in Id
         PROVE  \/ subs'[q][j] \in {NoEntry, Waiting}
                \/ /\ srv'.promises[j].state \in Settled
                   /\ subs'[q][j] = EntryOf(srv'.promises[j].state, value'[j])
    <2>1. \/ subs[q][j] \in {NoEntry, Waiting}
          \/ /\ srv'.promises[j].state \in Settled
             /\ subs[q][j] = EntryOf(srv'.promises[j].state, value'[j])
      BY <1>8, <1>12 DEF EntriesTrue, EntryTrue, Kept
    <2>2. CASE q # p \/ j # i
      BY <1>13, <2>1, <2>2
    <2>3. CASE q = p /\ j = i
      BY <1>4, <1>10, <1>11, <1>13, <2>1, <2>3
    <2> QED BY <2>2, <2>3
  <1>15. EntriesTrue'
    BY <1>13, <1>14 DEF EntriesTrue, EntryTrue
  <1> QED BY <1>8, <1>15 DEF a, r

LEMMA HandleStep ==
    ASSUME IInv, NEW c \in Call, Handle(c)
    PROVE  Steps
  <1> DEFINE p == call[c].pid
             i == call[c].id
             reply == Reply(ListenerReq(i, p))
             phase == IF subs[p][i] = NoEntry /\ ~reply.result.ok THEN "failed" ELSE "held"
             K == [phase : {"idle", "look", "held", "failed"},
                   pid : Pid \cup {NoPid}, id : Id \cup {<<>>}]
  <1>1. p \in Pid /\ i \in Id
    BY DEF IInv, Calling, Handle
  <1>2. Calling'
    <2>1. phase \in {"failed", "held"}
      <3> HIDE DEF p, i, reply
      <3> QED OBVIOUS
    <2>2. call' = [call EXCEPT ![c].phase = phase]
      BY DEF Handle
    <2> HIDE DEF phase, p, i, reply, K
    <2>3. call \in [Call -> K]
      BY DEF IInv, Calling, K
    <2>4. call'[c] \in K /\ call'[c].phase = phase
      BY <2>1, <2>2, <2>3 DEF K
    <2>5. DOMAIN call' = Call /\ \A d \in Call \ {c} : call'[d] = call[d]
      BY <2>2, <2>3
    <2>6. call' \in [Call -> K]
      BY <2>2, <2>3, <2>4, <2>5
    <2>7. \A d \in Call : call'[d].phase = "look" => call'[d].pid \in Pid /\ call'[d].id \in Id
      BY <2>1, <2>4, <2>5 DEF IInv, Calling
    <2> QED BY <2>6, <2>7 DEF Calling, K
  <1>3. CASE subs[p][i] = NoEntry
    <2>1. Listen(p, i, reply, TRUE)
      BY <1>3 DEF Handle
    <2>2. Kept(reply.after) /\ EntriesTrue'
      BY <1>1, <2>1, ListenStep
    <2>3. UNCHANGED <<started, schedules, exec>>
      BY <2>1 DEF Listen, work
    <2> HIDE DEF p, i, reply
    <2> QED BY <1>2, <2>2, <2>3, Assembled DEF IInv
  <1>4. CASE subs[p][i] # NoEntry
    <2>1. UNCHANGED <<server, clock, messages, registry, subs, work, asked, outcome>>
      BY <1>4 DEF Handle
    <2> HIDE DEF p, i, reply
    <2>2. Kept(srv)
      BY <2>1, StillKeeps DEF server, IInv, ServerSound
    <2>3. EntriesTrue'
      BY <2>1, <2>2, EntriesKept
    <2> QED BY <1>2, <2>1, <2>2, <2>3, Assembled DEF server, work, IInv
  <1> QED BY <1>3, <1>4

LEMMA RefreshStep ==
    ASSUME IInv, NEW p \in Pid, NEW i \in Id, Refresh(p, i)
    PROVE  Steps
  <1> DEFINE reply == Reply(ListenerReq(i, p))
  <1>1. Received(p, i) \in BOOLEAN
    BY DEF Received
  <1>2. Listen(p, i, reply, Received(p, i)) /\ UNCHANGED call
    BY DEF Refresh
  <1>3. Kept(reply.after) /\ EntriesTrue'
    BY <1>1, <1>2, ListenStep
  <1>4. UNCHANGED <<started, schedules, exec>>
    BY <1>2 DEF Listen, work
  <1> HIDE DEF reply
  <1> QED BY <1>2, <1>3, <1>4, Assembled, CallingKept DEF IInv

\* A message carries the record of its promise, which is final.
LEMMA UnblockStep ==
    ASSUME IInv, NEW m \in messages, Unblock(m)
    PROVE  Steps
  <1> DEFINE p == m.pid
             i == m.id
             new == IF subs[p][i] = NoEntry \/ Received(p, i)
                    THEN EntryOf(m.state, m.value) ELSE subs[p][i]
  <1>1. /\ m.kind = "unblock" /\ messages' = messages \ {m}
        /\ subs' = [subs EXCEPT ![p] = [subs[p] EXCEPT ![i] = new]]
        /\ UNCHANGED <<server, clock, registry, call, work, asked, outcome>>
    BY DEF Unblock
  <1>2. Kept(srv)
    BY <1>1, StillKeeps DEF server, IInv, ServerSound
  <1>3. IsRecord(i, m.state, m.value)
    BY <1>1 DEF IInv, MessagesTrue
  <1>4. new = subs[p][i] \/ new = EntryOf(srv.promises[i].state, value[i])
    BY <1>3 DEF IsRecord
  <1> HIDE DEF new
  <1>5. srv' = srv /\ value' = value
    BY <1>1 DEF server
  <1>6. EntriesTrue
    BY DEF IInv
  <1>7. /\ DOMAIN subs' = Pid
        /\ \A q \in Pid : DOMAIN subs'[q] = Id
        /\ \A q \in Pid, j \in Id :
              subs'[q][j] = subs[q][j] \/ (q = p /\ j = i /\ subs'[q][j] = new)
    <2> HIDE DEF p, i
    <2>1. DOMAIN subs' = Pid /\ \A q \in Pid \ {p} : subs'[q] = subs[q]
      BY <1>1, <1>6 DEF EntriesTrue
    <2>2. CASE p \in Pid
      <3>1. subs'[p] = [subs[p] EXCEPT ![i] = new]
        BY <1>1, <1>6, <2>2 DEF EntriesTrue
      <3> QED BY <1>6, <2>1, <3>1 DEF EntriesTrue
    <2>3. CASE p \notin Pid
      BY <1>6, <2>1, <2>3 DEF EntriesTrue
    <2> QED BY <2>2, <2>3
  <1>8. ASSUME NEW q \in Pid, NEW j \in Id
        PROVE  \/ subs'[q][j] \in {NoEntry, Waiting}
               \/ /\ srv'.promises[j].state \in Settled
                  /\ subs'[q][j] = EntryOf(srv'.promises[j].state, value'[j])
    <2>1. \/ subs[q][j] \in {NoEntry, Waiting}
          \/ /\ srv.promises[j].state \in Settled
             /\ subs[q][j] = EntryOf(srv.promises[j].state, value[j])
      BY <1>6 DEF EntriesTrue, EntryTrue
    <2>2. CASE subs'[q][j] = subs[q][j]
      BY <1>5, <2>1, <2>2
    <2>3. CASE q = p /\ j = i /\ subs'[q][j] = new
      <3>1. CASE new = subs[p][i]
        BY <1>5, <2>1, <2>3, <3>1
      <3>2. CASE new = EntryOf(srv.promises[i].state, value[i])
        BY <1>3, <1>5, <2>3, <3>2 DEF IsRecord
      <3> QED BY <1>4, <3>1, <3>2
    <2> QED BY <1>7, <2>2, <2>3
  <1>9. EntriesTrue'
    BY <1>7, <1>8 DEF EntriesTrue, EntryTrue
  <1> HIDE DEF p, i
  <1> QED BY <1>1, <1>2, <1>9, Assembled, CallingKept DEF server, work, IInv

LEMMA SettleCallStep ==
    ASSUME IInv, NEW i \in Id, NEW x \in Settlements, SettleCall(i, x[1], x[2])
    PROVE  Steps
  <1> DEFINE state == x[1]
             d == DataOrNull(x[2])
             stored == Serialize({Encode(d)})
             meaning == Meaning(state, d)
             r == PromiseSettleReq(i, state)
             b == Reply(r).before
             a == Reply(r).after
             e == Reply(r).result
  <1>1. state \in SettleState /\ d \in Json /\ clock \in Nat
    BY ClientAssumption, DataJson DEF IInv, ServerSound
  <1>2. Named(r) = <<i>>
    BY DEF PromiseSettleReq, Named
  <1>3. Serialize(EncodeValue(x[2])) = stored
    BY DEF EncodeValue
  <1>4. /\ ServeSettle(Reply(r), i, stored, meaning)
        /\ UNCHANGED <<clock, schedules, client, work, asked>>
    BY <1>3 DEF SettleCall
  <1>5. Reads(state, stored, meaning)
    BY <1>1, ReadsMeaning
  <1>6. r = PromiseSettleReq(i, state)
    OBVIOUS
  <1> HIDE DEF r, d, state, stored, meaning
  <1>7. /\ Inv(b) /\ Untimed(b) /\ Aimed(b)
        /\ a = Handled(b, clock, r) /\ e = Result(r, AnswerTo(b, Handled(b, clock, r), r))
        /\ b.promises[i].state = "pending" => clock < b.promises[i].timeoutAt
    BY <1>2, Replied
  <1> HIDE DEF b, e
  <1>8. /\ Follows(b, a, {i}, {})
        /\ b.promises[i].state = "pending" => e.ok /\ a.promises[i].state = state
    BY <1>1, <1>6, <1>7, SettleFollows
  <1>9. Kept(a)
    BY <1>2, <1>4, <1>5, <1>8, ServeSettleKeeps DEF b, e
  <1> HIDE DEF a
  <1>10. EntriesTrue' /\ Calling'
    BY <1>4, <1>9, EntriesKept, CallingKept DEF client
  <1> QED BY <1>4, <1>9, <1>10, Assembled DEF work, IInv

LEMMA ReturnOkStep ==
    ASSUME IInv, NEW x \in exec, NEW v \in Payload, ReturnOk(x, v)
    PROVE  Steps
  <1>1. v \in Json /\ "resolved" \in SettleState
    BY ClientAssumption DEF SettleState
  <1>2. Meaning("resolved", v) = <<"ok">> \o v
    BY DEF Meaning
  <1>3. Reads("resolved", Serialize({Encode(v)}), <<"ok">> \o v)
    BY <1>1, <1>2, ReadsMeaning
  <1> QED BY <1>1, <1>3, ReturnStep DEF ReturnOk

LEMMA ReturnErrStep ==
    ASSUME IInv, NEW x \in exec, ReturnErr(x)
    PROVE  Steps
  <1>1. "rejected" \in SettleState
    BY DEF SettleState
  <1> QED BY <1>1, ReadsError, ReturnStep DEF ReturnErr

\* What the builder of a schedule hands in is encoded once.
LEMMA ScheduleCallStep ==
    ASSUME IInv, NEW n \in RootId, NEW f \in Func, ScheduleCall(n, f)
    PROVE  Steps
  <1> DEFINE d == TaskData(f)
             stored == Serialize(EncodeValue({d}))
             new == [func |-> f, param |-> stored]
  <1>1. stored = Param(f)
    <2>1. DataOrNull({d}) = d
      BY DEF DataOrNull
    <2> HIDE DEF d
    <2>2. EncodeValue({d}) = {Encode(d)}
      BY <2>1 DEF EncodeValue
    <2> QED BY <2>2 DEF Param, d
  <1>2. /\ schedules' = IF schedules[n] = NoSchedule
                        THEN [schedules EXCEPT ![n] = new] ELSE schedules
        /\ UNCHANGED <<srv, param, value, clock, messages, client, work, asked, outcome>>
    BY DEF ScheduleCall, SchedulesCreate, ScheduleCreate, ScheduleParam
  <1> HIDE DEF stored
  <1>3. new.param = Param(new.func)
    BY <1>1
  <1> HIDE DEF new
  <1>4. SchedulesAsked'
    BY <1>2, <1>3 DEF IInv, SchedulesAsked
  <1>5. Kept(srv)
    BY <1>2, StillKeeps DEF IInv, ServerSound
  <1>6. EntriesTrue' /\ Calling'
    BY <1>2, <1>5, EntriesKept, CallingKept DEF client
  <1>7. (StartsBehind /\ RunsWhatWasAsked)' /\ StartsHeld
    BY <1>2, <1>5, StartsKept DEF work, StartsHeld
  <1>8. \A x \in exec' : x.id \in Id
    BY <1>2 DEF work, IInv
  <1> QED BY <1>4, <1>5, <1>6, <1>7, <1>8 DEF Steps, IInv, Kept

LEMMA ScheduleDeleteStep ==
    ASSUME IInv, NEW n \in RootId, ScheduleDelete(n)
    PROVE  Steps
  <1>1. /\ schedules' = [schedules EXCEPT ![n] = NoSchedule]
        /\ UNCHANGED <<srv, param, value, clock, messages, client, work, asked, outcome>>
    BY DEF ScheduleDelete
  <1>2. SchedulesAsked'
    BY <1>1 DEF IInv, SchedulesAsked
  <1>3. Kept(srv)
    BY <1>1, StillKeeps DEF IInv, ServerSound
  <1>4. EntriesTrue' /\ Calling'
    BY <1>1, <1>3, EntriesKept, CallingKept DEF client
  <1>5. (StartsBehind /\ RunsWhatWasAsked)' /\ StartsHeld
    BY <1>1, <1>3, StartsKept DEF work, StartsHeld
  <1>6. \A x \in exec' : x.id \in Id
    BY <1>1 DEF work, IInv
  <1> QED BY <1>2, <1>3, <1>4, <1>5, <1>6 DEF Steps, IInv, Kept

LEMMA TickLoopStep ==
    ASSUME IInv, TickLoop
    PROVE  Steps
  <1> DEFINE new == Tick(srv, clock)
  <1>1. /\ Become(new, param, value, {})
        /\ UNCHANGED <<clock, schedules, client, work, asked, outcome>>
    BY DEF TickLoop
  <1>2. Follows(srv, new, {}, {})
    BY TickFollows DEF IInv, ServerSound
  <1> HIDE DEF new
  <1>3. ParamsFiled(new, param) /\ ValuesFiled(new, value)
    BY <1>1, <1>2, Unfiled
  <1>4. Kept(new)
    BY <1>1, <1>2, <1>3, BecomeKeeps
  <1>5. EntriesTrue' /\ Calling'
    BY <1>1, <1>4, EntriesKept, CallingKept DEF client
  <1> QED BY <1>1, <1>4, <1>5, Assembled DEF work, IInv

LEMMA AdvanceStep ==
    ASSUME IInv, Advance
    PROVE  Steps
  <1>1. clock' \in Nat /\ UNCHANGED <<server, messages, client, work, asked, outcome>>
    BY DEF Advance, IInv, ServerSound
  <1>2. Kept(srv)
    BY <1>1, StillKeeps DEF server
  <1>3. EntriesTrue' /\ Calling'
    BY <1>1, <1>2, EntriesKept, CallingKept DEF client
  <1> QED BY <1>1, <1>2, <1>3, Assembled DEF server, work, IInv

LEMMA StutterStep ==
    ASSUME IInv, UNCHANGED vars
    PROVE  Steps
  <1>1. UNCHANGED <<server, clock, messages, client, work, asked, outcome>>
    BY DEF vars
  <1>2. Kept(srv)
    BY <1>1, StillKeeps DEF server, IInv, ServerSound
  <1>3. EntriesTrue' /\ Calling'
    BY <1>1, <1>2, EntriesKept, CallingKept DEF client
  <1> QED BY <1>1, <1>2, <1>3, Assembled DEF server, work, IInv

LEMMA NextStep ==
    ASSUME IInv, [Next]_vars
    PROVE  Steps
  <1>1. ASSUME NEW p \in Pid, NEW f \in Func, Register(p, f)
        PROVE  Steps
    BY <1>1, RegisterStep
  <1>2. ASSUME NEW c \in Call, NEW p \in Pid, NEW i \in RootId, NEW f \in Func,
               RunCall(c, p, i, f) \/ RpcCall(c, p, i, f)
        PROVE  Steps
    BY <1>2, RunCallStep, RpcCallStep
  <1>3. ASSUME NEW c \in Call, NEW p \in Pid, NEW i \in Id, GetCall(c, p, i)
        PROVE  Steps
    BY <1>3, GetCallStep
  <1>4. ASSUME NEW c \in Call, Handle(c)
        PROVE  Steps
    BY <1>4, HandleStep
  <1>5. ASSUME NEW p \in Pid, NEW m \in messages, OnMessage(p, m)
        PROVE  Steps
    BY <1>5, OnMessageStep
  <1>6. ASSUME NEW m \in messages, Unblock(m)
        PROVE  Steps
    BY <1>6, UnblockStep
  <1>7. ASSUME NEW x \in exec,
               ReturnErr(x) \/ ReleaseTask(x) \/ \E v \in Payload : ReturnOk(x, v)
        PROVE  Steps
    BY <1>7, ReturnErrStep, ReleaseTaskStep, ReturnOkStep
  <1>8. ASSUME NEW p \in Pid, NEW i \in Id, Refresh(p, i)
        PROVE  Steps
    BY <1>8, RefreshStep
  <1>9. ASSUME NEW i \in RootId, Create(i) \/ ScheduleDelete(i)
        PROVE  Steps
    BY <1>9, CreateStep, ScheduleDeleteStep
  <1>10. ASSUME NEW i \in RootId, NEW f \in Func, ScheduleCall(i, f)
         PROVE  Steps
    BY <1>10, ScheduleCallStep
  <1>11. ASSUME NEW i \in RootId, NEW t \in Timestamp, Fire(i, t)
         PROVE  Steps
    BY <1>11, FireStep
  <1>12. ASSUME NEW i \in Id, NEW x \in Settlements, SettleCall(i, x[1], x[2])
         PROVE  Steps
    BY <1>12, SettleCallStep
  <1>13. ASSUME TickLoop \/ Advance \/ UNCHANGED vars
         PROVE  Steps
    BY <1>13, TickLoopStep, AdvanceStep, StutterStep
  <1> QED BY <1>1, <1>2, <1>3, <1>4, <1>5, <1>6, <1>7, <1>8, <1>9, <1>10, <1>11,
             <1>12, <1>13 DEF Next

LEMMA InitIInv == Init => IInv
  <1> SUFFICES ASSUME Init
      PROVE  IInv
    OBVIOUS
  <1>1. srv = Empty /\ clock = 0
    BY DEF Init
  <1>2. /\ Inv(srv) /\ srv.outgoing = {}
    BY <1>1, EmptyInv
  <1>3. ASSUME NEW i \in Id
        PROVE  /\ srv.promises[i].state = "absent" /\ srv.promises[i].timer = FALSE
               /\ ~ HasTask(srv, i)
    <2> DEFINE tags == [target |-> FALSE, timer |-> FALSE, delay |-> None]
               o == NewPromise("absent", tags, 0, None)
               k == NewTask("absent", NoPid, None)
    <2>1. o.state = "absent" /\ o.timer = FALSE /\ k.state = "absent"
      BY DEF NewPromise, NewTask
    <2>2. srv.promises[i] = o /\ srv.tasks[i] = k
      BY <1>1 DEF Empty
    <2> HIDE DEF o, k
    <2> QED BY <2>1, <2>2 DEF HasTask
  <1>4. ServerSound
    BY <1>1, <1>2, <1>3 DEF ServerSound, Sound, Untimed, Aimed
  <1>5. Tables
    BY DEF Init, Tables
  <1>6. ParamsAsked /\ ValuesMeant
    BY <1>3 DEF ParamsAsked, ValuesMeant, HasPromise, SettleState
  <1>7. SchedulesAsked
    BY DEF Init, SchedulesAsked
  <1>8. MessagesTrue /\ StartsBehind /\ RunsWhatWasAsked /\ \A x \in exec : x.id \in Id
    BY DEF Init, MessagesTrue, StartsBehind, RunsWhatWasAsked
  <1>9. EntriesTrue
    BY DEF Init, EntriesTrue, EntryTrue
  <1>10. Calling
    <2> DEFINE K == [phase : {"idle", "look", "held", "failed"},
                     pid : Pid \cup {NoPid}, id : Id \cup {<<>>}]
    <2>1. NotCalled \in K /\ NotCalled.phase = "idle"
      BY DEF NotCalled
    <2>2. call = [c \in Call |-> NotCalled]
      BY DEF Init
    <2> HIDE DEF K
    <2>3. call \in [Call -> K] /\ \A c \in Call : call[c].phase = "idle"
      BY <2>1, <2>2
    <2> QED BY <2>3 DEF Calling, K
  <1> QED BY <1>4, <1>5, <1>6, <1>7, <1>8, <1>9, <1>10 DEF IInv

LEMMA Inductive == Spec => []IInv
  <1>1. IInv /\ [Next]_vars => IInv'
    BY NextStep DEF Steps
  <1> QED BY <1>1, InitIInv, PTL DEF Spec

-----------------------------------------------------------------------------
(* The properties *)

\* Nothing is executed but what the creator of its promise asked for, whoever the
\* creator, by whichever way (run, rpc, schedule), and whichever process got the
\* task.
THEOREM AskedIsRun == Spec => []RunsWhatWasAsked
  <1>1. IInv => RunsWhatWasAsked
    BY DEF IInv
  <1> QED BY <1>1, Inductive, PTL

\* Every start holds the lease of its task, under the version the server has, and
\* is the only one under it (run and on_message, which both call
\* execute_until_blocked).
THEOREM StartsAreLeased == Spec => StartsHoldLease
  <1>1. ASSUME IInv, [Next]_vars
        PROVE  [\A x \in started' \ started :
                   /\ HoldsLease(srv', x.id, x.version) /\ srv'.tasks[x.id].pid = x.pid
                   /\ x.nth = 1]_vars
    BY <1>1, NextStep DEF Steps, StartsHeld, StartHolds
  <1> QED BY <1>1, Inductive, PTL DEF Spec, StartsHoldLease

\* A handle returns what its promise was settled with, or its timeout, however the
\* process heard of it.
THEOREM ResultsAreOutcomes == Spec => []ResultIsTheOutcome
  <1>1. ASSUME IInv
        PROVE  ResultIsTheOutcome
    <2> SUFFICES ASSUME NEW p \in Pid, NEW i \in Id, subs[p][i] \notin {NoEntry, Waiting}
        PROVE  DecodeResult(subs[p][i].state, subs[p][i].value) =
                   IF srv.promises[i].state = "rejected_timedout" THEN <<"timeout">>
                   ELSE outcome[i]
      BY DEF ResultIsTheOutcome
    <2> DEFINE state == srv.promises[i].state
               json == ValueToWire(Deserialize(value[i]))
    <2>1. state \in Settled /\ subs[p][i] = EntryOf(state, value[i])
      BY <1>1 DEF IInv, EntriesTrue, EntryTrue
    <2>2. subs[p][i].state = state /\ subs[p][i].value = json
      <3>1. EntryOf(state, value[i]) = [state |-> state, value |-> json]
        BY DEF EntryOf
      <3> HIDE DEF json, state
      <3> QED BY <2>1, <3>1
    <2>3. state \in SettleState => DecodeResult(state, json) = outcome[i]
      BY <1>1 DEF IInv, ValuesMeant, Reads
    <2>4. "rejected_timedout" \notin SettleState
      BY DEF SettleState
    <2> HIDE DEF json, state
    <2>5. state = "rejected_timedout" => DecodeResult(state, json) = <<"timeout">>
      BY DEF DecodeResult
    <2>6. state \in SettleState \/ state = "rejected_timedout"
      BY <2>1 DEF Settled, SettleState
    <2> QED BY <2>2, <2>3, <2>4, <2>5, <2>6 DEF state
  <1>2. IInv => ResultIsTheOutcome
    BY <1>1
  <1> QED BY <1>2, Inductive, PTL
=============================================================================
