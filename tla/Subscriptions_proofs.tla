------------------------ MODULE Subscriptions_proofs ------------------------
(***************************************************************************)
(* Handles show the settlement of their promise, for every set of ids,     *)
(* callers and mishaps, and wait in silence only after a mishap.  The      *)
(* server's part is Serves: outcomes are final, a listener is forgotten    *)
(* only in the step that tells it, and it is told the outcome.  The rest   *)
(* is that whoever carries an outcome got it from the server.              *)
(***************************************************************************)
EXTENDS Subscriptions, ServerState_proofs

Unblocks(s) == {m \in s.outgoing : m.kind = "unblock"}

\* Nobody who listens to a promise is forgotten before it settles.
Heeds(s, t) == \A i \in Id : s.promises[i].state = "pending" =>
    \/ t.promises[i].state \in Settled
    \/ s.promises[i].subscribers \subseteq t.promises[i].subscribers

\* What the server does to its clients in any step.
Serves(s, t) == Inv(t) /\ Evolves(s, t) /\ Tells(s, t) /\ Heeds(s, t)

-----------------------------------------------------------------------------
(* The server *)

LEMMA UnblockType ==
    ASSUME NEW s \in State, NEW m \in Unblocks(s)
    PROVE  m \in Notice
  <1>1. m \in Message /\ m.kind = "unblock"
    BY DEF Unblocks, State
  <1> QED BY <1>1 DEF Message, Notice

\* The notices of a step that started without any are true.
LEMMA NoticesTrue ==
    ASSUME NEW s, s.outgoing = {}, NEW t, Serves(s, t), NEW m \in Unblocks(t)
    PROVE  /\ m.id \in Id /\ m.state \in Settled
           /\ t.promises[m.id].state = m.state
  <1>1. m \in Notice /\ m \in t.outgoing
    BY UnblockType DEF Serves, Inv, Unblocks
  <1>2. t.promises[m.id].state = m.state
    BY <1>1 DEF Serves, Tells
  <1> QED BY <1>1, <1>2 DEF Notice

\* The deadlines that a request looks at first do no harm.
LEMMA PassesHeeds ==
    ASSUME NEW s, NEW t, NEW now, Passes(s, t, now)
    PROVE  Heeds(s, t)
  BY DEF Passes, Heeds, Keeps, Lapses, Closes

LEMMA PassesThenServes ==
    ASSUME NEW s, NEW f, NEW t, NEW now, Inv(s), Inv(f), Evolves(s, f),
           Passes(s, f, now), Serves(f, t)
    PROVE  Serves(s, t)
  <1>1. Evolves(s, t)
    BY EvolvesTransitive DEF Serves
  <1>2. \A i \in Id : f.promises[i].state \in Settled =>
                         t.promises[i].state = f.promises[i].state
    BY DEF Serves, Evolves
  <1>3. Tells(s, t)
    BY <1>2, PassesThen DEF Serves
  <1>4. ASSUME NEW i \in Id, s.promises[i].state = "pending"
        PROVE  \/ t.promises[i].state \in Settled
               \/ s.promises[i].subscribers \subseteq t.promises[i].subscribers
    <2>1. CASE Lapses(s, f, now, i)
      BY <1>2, <2>1 DEF Lapses, Closes
    <2>2. CASE Keeps(s, f, i)
      BY <1>4, <2>2 DEF Keeps, Serves, Heeds
    <2> QED BY <2>1, <2>2 DEF Passes
  <1> QED BY <1>1, <1>3, <1>4 DEF Serves, Heeds

LEMMA TickServes ==
    ASSUME NEW s, Inv(s), NEW now \in Nat
    PROVE  Serves(s, Tick(s, now))
  BY TickInv, TickEffect, PassesHeeds DEF Serves, Passes

LEMMA CreateServes ==
    ASSUME NEW s, Inv(s), NEW now \in Nat, NEW id \in Id,
           NEW timeoutAt \in Nat, NEW tags \in Tags
    PROVE  Serves(s, PromiseCreate(s, now, id, timeoutAt, tags))
  <1> DEFINE t == PromiseCreate(s, now, id, timeoutAt, tags)
  <1>1. Inv(t) /\ Evolves(s, t)
    BY PromiseCreateInv
  <1>2. /\ \A i \in Id \ {id} : Keeps(s, t, i)
        /\ HasPromise(s, id) => t = s
        /\ Tells(s, t)
    BY CreateEffect
  <1> HIDE DEF t
  <1>3. Heeds(s, t)
    BY <1>2 DEF Heeds, Keeps, HasPromise
  <1> QED BY <1>1, <1>2, <1>3 DEF Serves, t

LEMMA SettleServes ==
    ASSUME NEW s, Inv(s), NEW now \in Nat, NEW id \in Id,
           NEW outcome \in SettleState,
           s.promises[id].state = "pending" => now < s.promises[id].timeoutAt
    PROVE  Serves(s, PromiseSettle(s, now, id, outcome))
  <1> DEFINE t == PromiseSettle(s, now, id, outcome)
  <1>1. Inv(t) /\ Evolves(s, t)
    BY PromiseSettleInv
  <1>2. /\ \A i \in Id \ {id} : Keeps(s, t, i)
        /\ IF s.promises[id].state = "pending"
           THEN Closes(s, t, id, outcome, now) ELSE t = s
        /\ Tells(s, t)
    BY PromiseSettleEffect
  <1> HIDE DEF t
  <1>3. Heeds(s, t)
    BY <1>2 DEF Heeds, Keeps, Closes
  <1> QED BY <1>1, <1>2, <1>3 DEF Serves, t

\* Who asks about a pending promise is a listener from then on.
LEMMA RegisterServes ==
    ASSUME NEW s, Inv(s), NEW id \in Id, NEW addr \in Addr
    PROVE  LET t == PromiseRegisterListener(s, id, addr)
           IN  /\ Serves(s, t)
               /\ t.promises[id].state = s.promises[id].state
               /\ t.promises[id].state = "pending" =>
                     addr \in t.promises[id].subscribers
  <1> DEFINE t == PromiseRegisterListener(s, id, addr)
  <1>1. Inv(t) /\ Evolves(s, t)
    BY RegisterListenerInv
  <1>2. /\ \A i \in Id \ {id} : Keeps(s, t, i)
        /\ IF s.promises[id].state = "pending"
           THEN Hears(s, t, id, addr) ELSE t = s
        /\ Tells(s, t)
    BY RegisterEffect
  <1> HIDE DEF t
  <1>3. Heeds(s, t)
    BY <1>2 DEF Heeds, Keeps, Hears
  <1>4. /\ t.promises[id].state = s.promises[id].state
        /\ t.promises[id].state = "pending" => addr \in t.promises[id].subscribers
    BY <1>2 DEF Hears
  <1> QED BY <1>1, <1>2, <1>3, <1>4 DEF Serves, t

-----------------------------------------------------------------------------
(* The invariant *)

\* Outcome o of promise i is what the server holds.
Holds(i, o) == i \in Id /\ o \in Settled /\ srv.promises[i].state = o

EntryTrue(i) == Holds(i, subs[i])
CallTrue(c) == Holds(call[c].id, call[c].state)
AnswerTrue == Holds(refresh.answer.id, refresh.answer.state)

MessagesTrue == \A m \in unblocks : Holds(m[1], m[2])
CallsTrue == \A c \in Caller : call[c].phase = "publish" => CallTrue(c)
RefreshTrue == refresh.answer # NoAnswer => AnswerTrue

IInv ==
    /\ TypeOK
    /\ Inv(srv)
    /\ srv.outgoing = {}
    /\ SeenIsSettlement
    /\ MessagesTrue
    /\ CallsTrue
    /\ RefreshTrue

\* The part of IInv that a step of the server keeps on its own.
ServerPart ==
    /\ Inv(srv) /\ srv.outgoing = {}
    /\ unblocks \subseteq Id \X Settled /\ MessagesTrue

\* What was true of the server before a step of it is true after the step.
LEMMA HoldsOn ==
    ASSUME Evolves(srv, srv'), NEW i, NEW o, Holds(i, o)
    PROVE  Holds(i, o)'
  BY DEF Evolves, Holds

\* Who listens goes on listening, or a message is on its way; messages stay.
Informs ==
    /\ unblocks \subseteq unblocks'
    /\ \A i \in Id : Here \in srv.promises[i].subscribers =>
          \/ Here \in srv'.promises[i].subscribers
          \/ \E m \in unblocks' : m[1] = i

LEMMA BecomeStep ==
    ASSUME IInv, NEW new, Serves(srv, new), Become(new)
    PROVE  ServerPart' /\ Evolves(srv, srv') /\ Informs
  <1>1. Inv(Clear(new)) /\ Evolves(new, Clear(new))
    BY ClearInv DEF Serves
  <1>2. srv' = Clear(new)
    BY DEF Become
  <1>3. Inv(srv') /\ Evolves(srv, srv')
    BY <1>1, <1>2, EvolvesTransitive DEF IInv, Serves
  <1>4. srv'.outgoing = {} /\ srv'.promises = new.promises
    BY <1>2, ClearEffect DEF Serves
  <1>5. ASSUME NEW m \in unblocks'
        PROVE  m \in Id \X Settled /\ Holds(m[1], m[2])'
    <2>1. CASE m \in unblocks
      <3>1. m \in Id \X Settled /\ Holds(m[1], m[2])
        BY <2>1 DEF IInv, TypeOK, MessagesTrue
      <3> QED BY <1>3, <3>1, HoldsOn
    <2>2. CASE m \notin unblocks
      <3>1. PICK x \in Unblocks(new) : m = <<x.id, x.state>>
        BY <2>2 DEF Become, Unblocks
      <3>2. /\ x.id \in Id /\ x.state \in Settled
            /\ new.promises[x.id].state = x.state
        BY NoticesTrue DEF IInv
      <3> QED BY <1>4, <3>1, <3>2 DEF Holds
    <2> QED BY <2>1, <2>2
  <1>6. ASSUME NEW i \in Id, Here \in srv.promises[i].subscribers
        PROVE  \/ Here \in srv'.promises[i].subscribers
               \/ \E m \in unblocks' : m[1] = i
    <2>1. srv.promises[i].state = "pending"
      BY <1>6 DEF IInv, Inv, AwaitersLive
    <2>2. CASE srv.promises[i].subscribers \subseteq new.promises[i].subscribers
      BY <1>4, <1>6, <2>2
    <2>3. CASE new.promises[i].state \in Settled
      <3> DEFINE m == [kind |-> "unblock", id |-> i, addr |-> Here,
                       state |-> new.promises[i].state]
      <3>1. m \in Notice
        BY <2>3, SubscriptionsAssumption DEF Notice
      <3>2. m \in new.outgoing
        BY <1>6, <2>1, <3>1 DEF Serves, Tells
      <3>3. <<m.id, m.state>> \in unblocks'
        BY <3>2 DEF Become
      <3> QED BY <3>3
    <2> QED BY <2>1, <2>2, <2>3 DEF Serves, Heeds
  <1>7. unblocks \subseteq unblocks'
    BY DEF Become
  <1> QED BY <1>3, <1>4, <1>5, <1>6, <1>7 DEF ServerPart, MessagesTrue, Informs

\* The requests of this process: the prelude, and the handler.
LEMMA FreshFacts ==
    ASSUME IInv, NEW i \in Id
    PROVE  /\ Inv(Fresh(i)) /\ Evolves(srv, Fresh(i))
           /\ Passes(srv, Fresh(i), clock)
           /\ Fresh(i).promises[i].state = "pending"
                 => clock < Fresh(i).promises[i].timeoutAt
  <1>1. clock \in Nat /\ Inv(srv)
    BY DEF IInv, TypeOK, Deadline
  <1> QED BY <1>1, AutoTimeoutInv, AutoTimeoutEffect DEF Fresh

\* What creates, settles or expires promises.
LEMMA OthersServe ==
    ASSUME IInv,
           \/ \E i \in Id : CreatePromise(i) \/ SettlePromise(i)
           \/ TickLoop
    PROVE  \E new : Serves(srv, new) /\ Become(new)
  <1>1. Inv(srv) /\ clock \in Nat
    BY DEF IInv, TypeOK, Deadline
  <1>2. ASSUME NEW i \in Id, CreatePromise(i)
        PROVE  \E new : Serves(srv, new) /\ Become(new)
    <2>1. PICK tags \in TagChoices :
              Become(PromiseCreate(srv, clock, i, Deadline, tags))
      BY <1>2 DEF CreatePromise
    <2>2. tags \in Tags /\ Deadline \in Nat
      BY SubscriptionsAssumption DEF Deadline
    <2> QED BY <1>1, <2>1, <2>2, CreateServes
  <1>3. ASSUME NEW i \in Id, SettlePromise(i)
        PROVE  \E new : Serves(srv, new) /\ Become(new)
    <2> DEFINE f == Fresh(i)
    <2>1. PICK outcome \in SettleState :
              Become(PromiseSettle(f, clock, i, outcome))
      BY <1>3 DEF SettlePromise
    <2>2. /\ Inv(f) /\ Evolves(srv, f) /\ Passes(srv, f, clock)
          /\ f.promises[i].state = "pending"
                => clock < f.promises[i].timeoutAt
      BY FreshFacts
    <2> HIDE DEF f
    <2> DEFINE new == PromiseSettle(f, clock, i, outcome)
    <2>3. Serves(f, new)
      BY <1>1, <2>2, SettleServes
    <2> HIDE DEF new
    <2>4. Serves(srv, new)
      BY <1>1, <2>2, <2>3, PassesThenServes
    <2> QED BY <2>1, <2>4 DEF new
  <1>4. CASE TickLoop
    BY <1>1, <1>4, TickServes DEF TickLoop
  <1> QED BY <1>2, <1>3, <1>4

LEMMA AskServes ==
    ASSUME IInv, NEW i \in Id
    PROVE  LET new == PromiseRegisterListener(Fresh(i), i, Here)
           IN  /\ Serves(srv, new)
               /\ new.promises[i].state \in PromiseState
               /\ HasPromise(Fresh(i), i) => new.promises[i].state # "absent"
               /\ new.promises[i].state = "pending" =>
                     Here \in new.promises[i].subscribers
  <1> DEFINE f == Fresh(i)
             new == PromiseRegisterListener(f, i, Here)
  <1>1. Inv(f) /\ Evolves(srv, f) /\ Passes(srv, f, clock)
    BY FreshFacts
  <1> HIDE DEF f
  <1>2. Here \in Addr
    BY SubscriptionsAssumption
  <1>3. /\ Serves(f, new)
        /\ new.promises[i].state = f.promises[i].state
        /\ new.promises[i].state = "pending" => Here \in new.promises[i].subscribers
    BY <1>1, <1>2, RegisterServes
  <1> HIDE DEF new
  <1>4. Serves(srv, new)
    BY <1>1, <1>3, PassesThenServes DEF IInv
  <1>5. new.promises[i].state \in PromiseState
    BY <1>3, Fields DEF Serves, Inv, Promise
  <1>6. HasPromise(f, i) => new.promises[i].state # "absent"
    BY <1>3 DEF HasPromise
  <1> QED BY <1>3, <1>4, <1>5, <1>6 DEF f, new

LEMMA AskStep ==
    ASSUME IInv, NEW i \in Id,
           Become(PromiseRegisterListener(Fresh(i), i, Here))
    PROVE  LET state == PromiseRegisterListener(Fresh(i), i, Here).promises[i].state
           IN  /\ ServerPart' /\ Evolves(srv, srv') /\ Informs
               /\ srv'.promises[i].state = state
               /\ state \in PromiseState
               /\ HasPromise(Fresh(i), i) => state # "absent"
               /\ state = "pending" => Here \in srv'.promises[i].subscribers
  <1> DEFINE new == PromiseRegisterListener(Fresh(i), i, Here)
  <1>1. /\ Serves(srv, new) /\ Become(new)
        /\ new.promises[i].state \in PromiseState
        /\ HasPromise(Fresh(i), i) => new.promises[i].state # "absent"
        /\ new.promises[i].state = "pending" => Here \in new.promises[i].subscribers
    BY AskServes
  <1> HIDE DEF new
  <1>2. ServerPart' /\ Evolves(srv, srv') /\ Informs
    BY <1>1, BecomeStep
  <1>3. srv'.promises = new.promises
    BY <1>1, ClearEffect DEF Become, Serves
  <1> QED BY <1>1, <1>2, <1>3 DEF new

-----------------------------------------------------------------------------
(* The steps *)

CallType == [phase : {"idle", "register", "publish", "held"},
             id : Id \cup {"none"}, state : PromiseState]
RefreshType == [ids : SUBSET Id,
                answer : [id : Id \cup {"none"}, state : PromiseState]]
SubsType == [Id -> {"absent", "waiting"} \cup PromiseState]

\* The entry a call or the loop works on exists.
CallEntered(c) == call[c].phase # "idle" => call[c].id \in Id /\ subs[call[c].id] # "absent"

LEMMA MishapType ==
    ASSUME IInv, Mishap \/ UNCHANGED mishaps
    PROVE  mishaps' \in 0 .. MaxMishaps
  BY SubscriptionsAssumption DEF IInv, TypeOK, Mishap

\* Nothing happens at the server.
LEMMA ServerStill ==
    ASSUME IInv, UNCHANGED srv, unblocks' \subseteq unblocks
    PROVE  ServerPart' /\ Evolves(srv, srv')
  <1>1. Inv(srv)
    BY DEF IInv
  <1>2. Evolves(srv, srv)
    BY <1>1, EvolvesReflexive
  <1>3. Evolves(srv, srv')
    BY <1>2
  <1>4. unblocks' \subseteq Id \X Settled /\ MessagesTrue'
    BY DEF IInv, TypeOK, MessagesTrue, Holds
  <1>5. Inv(srv') /\ srv'.outgoing = {}
    BY <1>1 DEF IInv
  <1> QED BY <1>3, <1>4, <1>5 DEF ServerPart

\* What every step has to show, once the server's part is known.
LEMMA Assemble ==
    ASSUME IInv, ServerPart', Evolves(srv, srv'),
           clock' \in {0, Deadline}, Mishap \/ UNCHANGED mishaps,
           subs' \in SubsType, call' \in [Caller -> CallType],
           refresh' \in RefreshType,
           \A i \in Id : \/ subs'[i] \in {"absent", "waiting"}
                         \/ subs'[i] = subs[i]
                         \/ EntryTrue(i)',
           \A c \in Caller : CallEntered(c)',
           \A c \in Caller : call'[c].phase = "publish" =>
              call'[c] = call[c] \/ CallTrue(c)',
           \A i \in refresh'.ids : subs'[i] # "absent",
           \/ refresh'.answer = NoAnswer
           \/ refresh'.answer = refresh.answer
           \/ AnswerTrue'
    PROVE  IInv'
  <1>1. mishaps' \in 0 .. MaxMishaps
    BY MishapType
  <1>2. SeenIsSettlement'
    <2> SUFFICES ASSUME NEW i \in Id, subs'[i] \notin {"absent", "waiting"}
                 PROVE  subs'[i] \in Settled /\ srv'.promises[i].state = subs'[i]
      BY DEF SeenIsSettlement
    <2>1. CASE subs'[i] = subs[i]
      BY <2>1 DEF IInv, SeenIsSettlement, Evolves
    <2>2. CASE EntryTrue(i)'
      BY <2>2 DEF EntryTrue, Holds
    <2> QED BY <2>1, <2>2
  <1>3. CallsTrue'
    <2> SUFFICES ASSUME NEW c \in Caller, call'[c].phase = "publish"
                 PROVE  CallTrue(c)'
      BY DEF CallsTrue
    <2>1. CASE call'[c] = call[c]
      <3>1. CallTrue(c)
        BY <2>1 DEF IInv, CallsTrue
      <3> QED BY <2>1, <3>1 DEF CallTrue, Holds, Evolves
    <2> QED BY <2>1
  <1>4. RefreshTrue'
    <2> SUFFICES ASSUME refresh'.answer # NoAnswer
                 PROVE  AnswerTrue'
      BY DEF RefreshTrue
    <2>1. CASE refresh'.answer = refresh.answer
      <3>1. AnswerTrue
        BY <2>1 DEF IInv, RefreshTrue
      <3> QED BY <2>1, <3>1 DEF AnswerTrue, Holds, Evolves
    <2> QED BY <2>1
  <1>5. TypeOK'
    <2>1. srv' \in State
      BY DEF ServerPart, Inv
    <2>2. refresh'.answer # NoAnswer =>
             refresh'.answer.id \in Id /\ refresh'.answer.state \in Settled
      BY <1>4 DEF RefreshTrue, AnswerTrue, Holds
    <2> QED BY <1>1, <2>1, <2>2 DEF TypeOK, ServerPart, SubsType, CallType,
                                    RefreshType, CallEntered
  <1> QED BY <1>2, <1>3, <1>4, <1>5 DEF IInv, ServerPart

\* A step of the server that touches nothing else.
LEMMA ServerStep ==
    ASSUME IInv, ServerPart', Evolves(srv, srv'),
           UNCHANGED <<clock, subs, call, refresh, mishaps>>
    PROVE  IInv'
  <1>1. /\ clock' \in {0, Deadline} /\ subs' \in SubsType
        /\ call' \in [Caller -> CallType] /\ refresh' \in RefreshType
    BY DEF IInv, TypeOK, SubsType, CallType, RefreshType
  <1>2. /\ \A c \in Caller : CallEntered(c)'
        /\ \A i \in refresh'.ids : subs'[i] # "absent"
    BY DEF IInv, TypeOK, CallEntered
  <1> QED BY <1>1, <1>2, Assemble

\* The value an entry gets from a channel that takes it.
LEMMA SendStep ==
    ASSUME IInv, UNCHANGED srv, NEW i, NEW o, Holds(i, o), Send(i, o)
    PROVE  /\ subs' \in SubsType
           /\ \A j \in Id : subs'[j] = subs[j] \/ EntryTrue(j)'
           /\ \A j \in Id : subs[j] # "absent" => subs'[j] # "absent"
  <1>1. i \in Id /\ o \in Settled /\ srv'.promises[i].state = o
    BY DEF Holds
  <1>2. subs \in SubsType
    BY DEF IInv, TypeOK, SubsType
  <1>3. subs' = subs \/ subs' = [subs EXCEPT ![i] = o]
    BY DEF Send
  <1>4. o \in PromiseState /\ o # "absent"
    BY <1>1 DEF PromiseState, Settled
  <1> QED BY <1>1, <1>2, <1>3, <1>4 DEF SubsType, EntryTrue, Holds

\* The fields of IInv that a step leaves alone, as Assemble asks for them.
LEMMA Shapes ==
    ASSUME IInv
    PROVE  /\ clock \in {0, Deadline} /\ clock \in Nat
           /\ subs \in SubsType /\ call \in [Caller -> CallType]
           /\ refresh \in RefreshType
           /\ \A c \in Caller : CallEntered(c)
           /\ \A i \in refresh.ids : subs[i] # "absent"
  BY DEF IInv, TypeOK, SubsType, CallType, RefreshType, CallEntered, Deadline

\* The steps of the server and of time.
LEMMA OutsideStep ==
    ASSUME IInv,
           \/ \E i \in Id : CreatePromise(i) \/ SettlePromise(i)
           \/ TickLoop
           \/ Advance
    PROVE  IInv'
  <1>1. CASE \/ \E i \in Id : CreatePromise(i) \/ SettlePromise(i)
             \/ TickLoop
    <2>1. UNCHANGED <<clock, subs, call, refresh, mishaps>>
      BY <1>1 DEF CreatePromise, SettlePromise, TickLoop
    <2>2. ServerPart' /\ Evolves(srv, srv')
      BY <1>1, OthersServe, BecomeStep
    <2> QED BY <2>1, <2>2, ServerStep
  <1>2. CASE Advance
    <2>1. /\ UNCHANGED <<srv, subs, call, unblocks, refresh, mishaps>>
          /\ clock' = Deadline
      BY <1>2 DEF Advance
    <2>2. ServerPart' /\ Evolves(srv, srv')
      BY <2>1, ServerStill
    <2>3. /\ \A c \in Caller : CallEntered(c)'
          /\ subs' \in SubsType /\ call' \in [Caller -> CallType]
          /\ refresh' \in RefreshType
          /\ \A i \in refresh'.ids : subs'[i] # "absent"
      BY <2>1, Shapes DEF CallEntered
    <2> QED BY <2>1, <2>2, <2>3, Assemble
  <1> QED BY <1>1, <1>2

\* A call that is looked up, dropped, or asks the server.
LEMMA GetStep ==
    ASSUME IInv, NEW c \in Caller, NEW i \in Id, Get(c, i)
    PROVE  IInv'
  <1>1. /\ UNCHANGED <<srv, clock, unblocks, refresh, mishaps>>
        /\ \/ subs' = [subs EXCEPT ![i] = "waiting"] /\ subs[i] = "absent"
           \/ subs' = subs /\ subs[i] # "absent"
    BY DEF Get
  <1>2. PICK phase \in {"register", "held"} :
            call' = [call EXCEPT ![c] =
                        [NotCalled EXCEPT !.phase = phase, !.id = i]]
    BY DEF Get
  <1> DEFINE new == [NotCalled EXCEPT !.phase = phase, !.id = i]
  <1>3. new \in CallType /\ new.id = i /\ new.phase # "publish"
    BY <1>2 DEF NotCalled, CallType, PromiseState
  <1> HIDE DEF new
  <1>4. call' = [call EXCEPT ![c] = new]
    BY <1>2 DEF new
  <1>5. subs' \in SubsType
    BY <1>1, Shapes DEF SubsType
  <1>6. /\ subs'[i] # "absent"
        /\ \A j \in Id : \/ subs'[j] = subs[j]
                         \/ subs'[j] = "waiting"
    BY <1>1, Shapes DEF SubsType
  <1>7. call' \in [Caller -> CallType]
    BY <1>3, <1>4, Shapes
  <1>8. ASSUME NEW d \in Caller
        PROVE  /\ CallEntered(d)'
               /\ call'[d].phase = "publish" => call'[d] = call[d]
    <2>1. CASE d = c
      BY <1>3, <1>4, <1>6, <2>1, Shapes DEF CallEntered
    <2>2. CASE d # c
      BY <1>4, <1>6, <2>2, Shapes DEF CallEntered
    <2> QED BY <2>1, <2>2
  <1>9. ServerPart' /\ Evolves(srv, srv')
    BY <1>1, ServerStill
  <1>10. /\ clock' \in {0, Deadline} /\ refresh' \in RefreshType
         /\ \A j \in refresh'.ids : subs'[j] # "absent"
    BY <1>1, <1>6, Shapes DEF RefreshType
  <1> QED BY <1>1, <1>5, <1>6, <1>7, <1>8, <1>9, <1>10, Assemble

\* A step of call c that leaves the entries alone.
LEMMA CallStep ==
    ASSUME IInv, ServerPart', Evolves(srv, srv'), NEW c \in Caller,
           UNCHANGED <<clock, subs, refresh>>, Mishap \/ UNCHANGED mishaps,
           NEW new \in CallType, call' = [call EXCEPT ![c] = new],
           new.phase # "idle" => call[c].phase # "idle" /\ new.id = call[c].id,
           new.phase = "publish" =>
              new.state \in Settled /\ srv'.promises[new.id].state = new.state
    PROVE  IInv'
  <1>1. call' \in [Caller -> CallType]
    BY Shapes
  <1>2. ASSUME NEW d \in Caller
        PROVE  /\ CallEntered(d)'
               /\ call'[d].phase = "publish" =>
                     call'[d] = call[d] \/ CallTrue(d)'
    <2>1. CASE d = c
      BY <2>1, Shapes DEF CallEntered, CallTrue, Holds
    <2>2. CASE d # c
      BY <2>2, Shapes DEF CallEntered
    <2> QED BY <2>1, <2>2
  <1>3. /\ clock' \in {0, Deadline} /\ subs' \in SubsType
        /\ refresh' \in RefreshType
        /\ \A i \in refresh'.ids : subs'[i] # "absent"
    BY Shapes
  <1> QED BY <1>1, <1>2, <1>3, Assemble

LEMMA IdleCall == NotCalled \in CallType
  BY DEF NotCalled, CallType, PromiseState

LEMMA DropStep ==
    ASSUME IInv, NEW c \in Caller, Drop(c)
    PROVE  IInv'
  <1>1. /\ UNCHANGED <<srv, clock, subs, unblocks, refresh>> /\ Mishap
        /\ call' = [call EXCEPT ![c] = NotCalled]
    BY DEF Drop
  <1>2. ServerPart' /\ Evolves(srv, srv')
    BY <1>1, ServerStill
  <1>3. NotCalled \in CallType /\ NotCalled.phase = "idle"
    BY IdleCall DEF NotCalled
  <1> QED BY <1>1, <1>2, <1>3, CallStep

LEMMA RegisterStep ==
    ASSUME IInv, NEW c \in Caller, Register(c)
    PROVE  IInv'
  <1> DEFINE i == call[c].id
             new == PromiseRegisterListener(Fresh(i), i, Here)
             state == new.promises[i].state
             answer == [call[c] EXCEPT !.phase = AfterAnswer(state),
                                       !.state = state]
  <1>1. /\ i \in Id /\ call[c] \in CallType /\ call[c].phase = "register"
        /\ UNCHANGED <<clock, subs, refresh>>
    BY Shapes DEF Register, CallEntered
  <1>2. \/ /\ HasPromise(Fresh(i), i) /\ Become(new)
           /\ call' = [call EXCEPT ![c] = answer] /\ UNCHANGED mishaps
        \/ /\ Become(new)
           /\ call' = [call EXCEPT ![c] = NotCalled] /\ Mishap
        \/ /\ call' = [call EXCEPT ![c] = NotCalled] /\ Mishap
           /\ UNCHANGED <<srv, unblocks>>
    BY DEF Register
  <1>3. NotCalled \in CallType /\ NotCalled.phase = "idle"
    BY IdleCall DEF NotCalled
  <1>4. Become(new) =>
           /\ ServerPart' /\ Evolves(srv, srv')
           /\ srv'.promises[i].state = state
           /\ state \in PromiseState
           /\ HasPromise(Fresh(i), i) => state # "absent"
    BY <1>1, AskStep
  <1>5. CASE /\ HasPromise(Fresh(i), i) /\ Become(new)
             /\ call' = [call EXCEPT ![c] = answer] /\ UNCHANGED mishaps
    <2>1. ServerPart' /\ Evolves(srv, srv')
      BY <1>4, <1>5
    <2>2. state \in {"pending"} \cup Settled /\ srv'.promises[i].state = state
      BY <1>4, <1>5 DEF PromiseState
    <2>3. call' = [call EXCEPT ![c] = answer]
      BY <1>5
    <2> HIDE DEF i, new, state
    <2>4. /\ answer \in CallType
          /\ answer.id = call[c].id
          /\ answer.phase = "publish" =>
                answer.state = state /\ state \in Settled
      BY <1>1, <2>2 DEF CallType, AfterAnswer, PromiseState, Settled
    <2>5. answer.phase = "publish" =>
             answer.state \in Settled /\ srv'.promises[answer.id].state = answer.state
      BY <2>2, <2>4 DEF i
    <2> HIDE DEF answer
    <2> QED BY <1>1, <1>5, <2>1, <2>3, <2>4, <2>5, CallStep
  <1>6. CASE Become(new) /\ call' = [call EXCEPT ![c] = NotCalled] /\ Mishap
    <2>1. ServerPart' /\ Evolves(srv, srv')
      BY <1>4, <1>6
    <2> QED BY <1>1, <1>3, <1>6, <2>1, CallStep
  <1>7. CASE /\ call' = [call EXCEPT ![c] = NotCalled] /\ Mishap
             /\ UNCHANGED <<srv, unblocks>>
    <2>1. ServerPart' /\ Evolves(srv, srv')
      BY <1>7, ServerStill
    <2> QED BY <1>1, <1>3, <1>7, <2>1, CallStep
  <1> QED BY <1>2, <1>5, <1>6, <1>7

\* A settled answer is handed on, by the call or by the loop that has it.
LEMMA PublishStep ==
    ASSUME IInv, NEW c \in Caller, Publish(c)
    PROVE  IInv'
  <1>1. /\ UNCHANGED <<srv, clock, unblocks, refresh, mishaps>>
        /\ call[c].phase = "publish" /\ Send(call[c].id, call[c].state)
        /\ call' = [call EXCEPT ![c].phase = "held"]
    BY DEF Publish
  <1>2. Holds(call[c].id, call[c].state)
    BY <1>1 DEF IInv, CallsTrue, CallTrue
  <1>3. /\ subs' \in SubsType
        /\ \A j \in Id : subs'[j] = subs[j] \/ EntryTrue(j)'
        /\ \A j \in Id : subs[j] # "absent" => subs'[j] # "absent"
    BY <1>1, <1>2, SendStep
  <1>4. ServerPart' /\ Evolves(srv, srv')
    BY <1>1, ServerStill
  <1>5. call' \in [Caller -> CallType]
    BY <1>1, Shapes DEF CallType
  <1>6. ASSUME NEW d \in Caller
        PROVE  /\ CallEntered(d)'
               /\ call'[d].phase = "publish" => call'[d] = call[d]
    <2>1. CASE d = c
      <3>1. call'[d].phase = "held" /\ call'[d].id = call[d].id
        BY <1>1, <2>1, Shapes DEF CallType
      <3> QED BY <1>1, <1>3, <2>1, <3>1, Shapes DEF CallEntered
    <2>2. CASE d # c
      <3>1. call'[d] = call[d]
        BY <1>1, <2>2, Shapes
      <3> QED BY <1>3, <3>1, Shapes DEF CallEntered
    <2> QED BY <2>1, <2>2
  <1>7. /\ clock' \in {0, Deadline} /\ refresh' \in RefreshType
        /\ \A i \in refresh'.ids : subs'[i] # "absent"
    BY <1>1, <1>3, Shapes DEF RefreshType
  <1> QED BY <1>1, <1>3, <1>4, <1>5, <1>6, <1>7, Assemble

\* A message is handled, or lost.
LEMMA MessageStep ==
    ASSUME IInv, NEW m \in unblocks, Unblock(m) \/ Lose(m)
    PROVE  IInv'
  <1>1. /\ UNCHANGED <<srv, clock, call, refresh>>
        /\ unblocks' \subseteq unblocks
        /\ Mishap \/ UNCHANGED mishaps
    BY DEF Unblock, Lose
  <1>2. ServerPart' /\ Evolves(srv, srv')
    BY <1>1, ServerStill
  <1>3. Holds(m[1], m[2])
    BY DEF IInv, MessagesTrue
  <1>4. /\ subs' \in SubsType
        /\ \A j \in Id : subs'[j] = subs[j] \/ EntryTrue(j)'
        /\ \A j \in Id : subs[j] # "absent" => subs'[j] # "absent"
    <2>1. CASE Send(m[1], m[2])
      BY <1>1, <1>3, <2>1, SendStep
    <2>2. CASE subs' = [subs EXCEPT ![m[1]] = m[2]]
      <3>1. m[2] \in PromiseState /\ m[2] # "absent"
        BY <1>3 DEF Holds, PromiseState, Settled
      <3>2. m[1] \in Id /\ m[2] \in Settled /\ srv'.promises[m[1]].state = m[2]
        BY <1>1, <1>3 DEF Holds
      <3> QED BY <2>2, <3>1, <3>2, Shapes DEF SubsType, EntryTrue, Holds
    <2>3. CASE UNCHANGED subs
      BY <2>3, Shapes
    <2> QED BY <2>1, <2>2, <2>3 DEF Unblock, Lose
  <1>5. /\ clock' \in {0, Deadline} /\ refresh' \in RefreshType
        /\ call' \in [Caller -> CallType]
        /\ \A i \in refresh'.ids : subs'[i] # "absent"
        /\ \A c \in Caller : CallEntered(c)'
    BY <1>1, <1>4, Shapes DEF RefreshType, CallEntered
  <1> QED BY <1>1, <1>2, <1>4, <1>5, Assemble

\* A step of the refresh loop that leaves the entries alone.
LEMMA LoopStep ==
    ASSUME IInv, ServerPart', Evolves(srv, srv'),
           UNCHANGED <<clock, subs, call>>, Mishap \/ UNCHANGED mishaps,
           refresh' \in RefreshType,
           \A i \in refresh'.ids : subs[i] # "absent",
           \/ refresh'.answer = NoAnswer
           \/ refresh'.answer = refresh.answer
           \/ AnswerTrue'
    PROVE  IInv'
  <1>1. /\ clock' \in {0, Deadline} /\ subs' \in SubsType
        /\ call' \in [Caller -> CallType]
        /\ \A c \in Caller : CallEntered(c)'
        /\ \A i \in refresh'.ids : subs'[i] # "absent"
    BY Shapes DEF CallEntered
  <1> QED BY <1>1, Assemble

LEMMA NoAnswerType ==
    /\ NoAnswer \in [id : Id \cup {"none"}, state : PromiseState]
    /\ Asleep \in RefreshType
    /\ Asleep.ids = {} /\ Asleep.answer = NoAnswer
  BY DEF NoAnswer, Asleep, RefreshType, PromiseState

LEMMA RefreshTickStep ==
    ASSUME IInv, RefreshTick
    PROVE  IInv'
  <1>1. /\ UNCHANGED <<srv, clock, subs, call, unblocks, mishaps>>
        /\ refresh' = [refresh EXCEPT !.ids = PendingIds]
    BY DEF RefreshTick
  <1>2. PendingIds \subseteq Id /\ \A i \in PendingIds : subs[i] # "absent"
    BY DEF PendingIds
  <1>3. /\ refresh' \in RefreshType /\ refresh'.ids = PendingIds
        /\ refresh'.answer = refresh.answer
    BY <1>1, <1>2, Shapes DEF RefreshType
  <1>4. ServerPart' /\ Evolves(srv, srv')
    BY <1>1, ServerStill
  <1> QED BY <1>1, <1>2, <1>3, <1>4, LoopStep

LEMMA RefreshRegisterStep ==
    ASSUME IInv, NEW i \in Id, RefreshRegister(i)
    PROVE  IInv'
  <1> DEFINE new == PromiseRegisterListener(Fresh(i), i, Here)
             state == new.promises[i].state
             rest == refresh.ids \ {i}
             got == IF state = "pending" THEN NoAnswer
                    ELSE [id |-> i, state |-> state]
  <1>1. /\ UNCHANGED <<clock, subs, call>>
        /\ rest \subseteq Id /\ \A j \in rest : subs[j] # "absent"
        /\ refresh.answer = NoAnswer
    BY Shapes DEF RefreshRegister, RefreshType
  <1>2. \/ /\ HasPromise(Fresh(i), i) /\ Become(new) /\ UNCHANGED mishaps
           /\ refresh' = [ids |-> rest, answer |-> got]
        \/ /\ Become(new) /\ Mishap
           /\ refresh' = [refresh EXCEPT !.ids = rest]
        \/ /\ UNCHANGED <<srv, unblocks>> /\ (Mishap \/ UNCHANGED mishaps)
           /\ refresh' = [refresh EXCEPT !.ids = rest]
    BY DEF RefreshRegister
  <1>3. Become(new) =>
           /\ ServerPart' /\ Evolves(srv, srv')
           /\ srv'.promises[i].state = state
           /\ state \in PromiseState
           /\ HasPromise(Fresh(i), i) => state # "absent"
    BY AskStep
  <1>4. CASE /\ HasPromise(Fresh(i), i) /\ Become(new) /\ UNCHANGED mishaps
             /\ refresh' = [ids |-> rest, answer |-> got]
    <2>1. ServerPart' /\ Evolves(srv, srv')
      BY <1>3, <1>4
    <2>2. state \in {"pending"} \cup Settled /\ srv'.promises[i].state = state
      BY <1>3, <1>4 DEF PromiseState
    <2> HIDE DEF new, state, rest
    <2>3. got \in [id : Id \cup {"none"}, state : PromiseState]
      BY <2>2, NoAnswerType DEF PromiseState
    <2>4. got = NoAnswer \/ (got = [id |-> i, state |-> state] /\ state \in Settled)
      BY <2>2
    <2> HIDE DEF got
    <2>5. refresh'.ids = rest /\ refresh'.answer = got
      BY <1>4
    <2>6. refresh' \in RefreshType
      BY <1>1, <1>4, <2>3 DEF RefreshType
    <2>7. refresh'.answer = NoAnswer \/ AnswerTrue'
      BY <2>2, <2>4, <2>5 DEF AnswerTrue, Holds
    <2> QED BY <1>1, <1>4, <2>1, <2>5, <2>6, <2>7, LoopStep
  <1>5. ASSUME refresh' = [refresh EXCEPT !.ids = rest]
        PROVE  /\ refresh' \in RefreshType /\ refresh'.ids = rest
               /\ refresh'.answer = refresh.answer
    BY <1>1, <1>5, Shapes DEF RefreshType
  <1>6. CASE /\ Become(new) /\ Mishap
             /\ refresh' = [refresh EXCEPT !.ids = rest]
    <2>1. ServerPart' /\ Evolves(srv, srv')
      BY <1>3, <1>6
    <2> QED BY <1>1, <1>5, <1>6, <2>1, LoopStep
  <1>7. CASE /\ UNCHANGED <<srv, unblocks>> /\ (Mishap \/ UNCHANGED mishaps)
             /\ refresh' = [refresh EXCEPT !.ids = rest]
    <2>1. ServerPart' /\ Evolves(srv, srv')
      BY <1>7, ServerStill
    <2> QED BY <1>1, <1>5, <1>7, <2>1, LoopStep
  <1> QED BY <1>2, <1>4, <1>6, <1>7

LEMMA RefreshPublishStep ==
    ASSUME IInv, RefreshPublish
    PROVE  IInv'
  <1>1. /\ UNCHANGED <<srv, clock, call, unblocks, mishaps>>
        /\ Send(refresh.answer.id, refresh.answer.state)
        /\ refresh' = [refresh EXCEPT !.answer = NoAnswer]
    BY DEF RefreshPublish
  <1>2. Holds(refresh.answer.id, refresh.answer.state)
    BY DEF RefreshPublish, IInv, RefreshTrue, AnswerTrue
  <1>3. /\ subs' \in SubsType
        /\ \A j \in Id : subs'[j] = subs[j] \/ EntryTrue(j)'
        /\ \A j \in Id : subs[j] # "absent" => subs'[j] # "absent"
    BY <1>1, <1>2, SendStep
  <1>4. ServerPart' /\ Evolves(srv, srv')
    BY <1>1, ServerStill
  <1>5. /\ refresh' \in RefreshType /\ refresh'.ids = refresh.ids
        /\ refresh'.answer = NoAnswer
    BY <1>1, NoAnswerType, Shapes DEF RefreshType
  <1>6. /\ clock' \in {0, Deadline} /\ call' \in [Caller -> CallType]
        /\ \A i \in refresh'.ids : subs'[i] # "absent"
        /\ \A c \in Caller : CallEntered(c)'
    BY <1>1, <1>3, <1>5, Shapes DEF CallEntered, RefreshType
  <1> QED BY <1>1, <1>3, <1>4, <1>5, <1>6, Assemble

\* A new process knows nothing, hence nothing false.
LEMMA RestartStep ==
    ASSUME IInv, Restart
    PROVE  IInv'
  <1>1. /\ UNCHANGED <<srv, clock, unblocks>> /\ Mishap
        /\ subs' = [i \in Id |-> "absent"]
        /\ call' = [c \in Caller |-> NotCalled]
        /\ refresh' = Asleep
    BY DEF Restart
  <1>2. ServerPart' /\ Evolves(srv, srv')
    BY <1>1, ServerStill
  <1>3. clock' \in {0, Deadline} /\ subs' \in SubsType
    BY <1>1, Shapes DEF SubsType
  <1>4. call' \in [Caller -> CallType]
    BY <1>1, IdleCall
  <1>5. ASSUME NEW c \in Caller
        PROVE  CallEntered(c)' /\ call'[c].phase # "publish"
    BY <1>1 DEF CallEntered, NotCalled
  <1>6. /\ refresh' \in RefreshType /\ refresh'.answer = NoAnswer
        /\ refresh'.ids = {}
    BY <1>1, NoAnswerType
  <1> QED BY <1>1, <1>2, <1>3, <1>4, <1>5, <1>6, Assemble

-----------------------------------------------------------------------------
(* The theorems *)

LEMMA InitInv == Init => IInv
  <1> SUFFICES ASSUME Init PROVE IInv
    OBVIOUS
  <1>1. Inv(srv) /\ srv.outgoing = {}
    BY EmptyInv DEF Init
  <1>2. /\ subs \in SubsType /\ call \in [Caller -> CallType]
        /\ refresh \in RefreshType /\ refresh.ids = {}
        /\ refresh.answer = NoAnswer
    BY IdleCall, NoAnswerType DEF Init, SubsType
  <1>3. \A c \in Caller : call[c].phase = "idle"
    BY DEF Init, NotCalled
  <1>4. TypeOK
    BY <1>1, <1>2, <1>3, SubscriptionsAssumption
       DEF Init, TypeOK, SubsType, CallType, RefreshType, Inv
  <1>5. SeenIsSettlement /\ MessagesTrue /\ CallsTrue /\ RefreshTrue
    BY <1>2, <1>3 DEF Init, SeenIsSettlement, MessagesTrue, CallsTrue, RefreshTrue
  <1> QED BY <1>1, <1>4, <1>5 DEF IInv

LEMMA StutterStep ==
    ASSUME IInv, UNCHANGED vars
    PROVE  IInv'
  <1>1. UNCHANGED <<srv, clock, subs, call, unblocks, refresh, mishaps>>
    BY DEF vars
  <1>2. ServerPart' /\ Evolves(srv, srv')
    BY <1>1, ServerStill
  <1> QED BY <1>1, <1>2, ServerStep

LEMMA StepInv == IInv /\ [Next]_vars => IInv'
  <1> SUFFICES ASSUME IInv, [Next]_vars PROVE IInv'
    OBVIOUS
  <1>1. CASE \/ \E i \in Id : CreatePromise(i) \/ SettlePromise(i)
             \/ TickLoop
             \/ Advance
    BY <1>1, OutsideStep
  <1>2. CASE \E c \in Caller : Register(c) \/ Publish(c) \/ Drop(c)
    BY <1>2, RegisterStep, PublishStep, DropStep
  <1>3. CASE \E c \in Caller, i \in Id : Get(c, i)
    BY <1>3, GetStep
  <1>4. CASE \E m \in unblocks : Unblock(m) \/ Lose(m)
    BY <1>4, MessageStep
  <1>5. CASE Refresh
    BY <1>5, RefreshTickStep, RefreshRegisterStep, RefreshPublishStep DEF Refresh
  <1>6. CASE Restart
    BY <1>6, RestartStep
  <1>7. CASE UNCHANGED vars
    BY <1>7, StutterStep
  <1> QED BY <1>1, <1>2, <1>3, <1>4, <1>5, <1>6, <1>7 DEF Next

LEMMA Inductive == Spec => []IInv
  BY InitInv, StepInv, PTL DEF Spec

\* The map, the calls and the refresh loop keep their shape: who uses an id has
\* its entry (the subscriptions map of resonate.rs never forgets one).
THEOREM TypeCorrect == Spec => []TypeOK
  <1>1. IInv => TypeOK
    BY DEF IInv
  <1> QED BY <1>1, Inductive, PTL

\* A handle shows the settlement of its promise and nothing else, whatever order
\* messages, answers and refreshes arrive in and whatever is lost or repeated
\* (create_handle_from_id, subscribe_to_messages, spawn_subscription_refresh).
THEOREM HandlesTruthful == Spec => []SeenIsSettlement
  <1>1. IInv => SeenIsSettlement
    BY DEF IInv
  <1> QED BY <1>1, Inductive, PTL

-----------------------------------------------------------------------------
(* Nobody waits in silence                                                 *)
(*                                                                         *)
(* Until the first mishap a call that found no entry is never given up, so *)
(* whoever waits is received from, and one of its sources is at work.      *)

Asking(i) == \E d \in Caller : Using(d, i) /\ call[d].phase \in {"register", "publish"}
Answered(i) == refresh.answer # NoAnswer /\ refresh.answer.id = i
Told(i) == \E m \in unblocks : m[1] = i
Listening(i) == Here \in srv.promises[i].subscribers

Informed(i) == Asking(i) \/ Answered(i) \/ Told(i) \/ Listening(i)

Attended == mishaps = 0 =>
    \A i \in Id : subs[i] = "waiting" => Received(i) /\ Informed(i)

\* A step of the server, or none, silences nobody.
LEMMA ServerInforms ==
    ASSUME IInv, Informs \/ UNCHANGED <<srv, unblocks>>, NEW i \in Id
    PROVE  Told(i) \/ Listening(i) => Told(i)' \/ Listening(i)'
  BY DEF Informs, Told, Listening

LEMMA OutsideAttended ==
    ASSUME IInv, NEW i \in Id, Received(i), Informed(i),
           Informs \/ UNCHANGED <<srv, unblocks>>,
           UNCHANGED <<call, refresh>>
    PROVE  Received(i)' /\ Informed(i)'
  <1>1. Received(i)' /\ (Asking(i) => Asking(i)') /\ (Answered(i) => Answered(i)')
    BY DEF Received, Using, Asking, Answered
  <1> QED BY <1>1, ServerInforms DEF Informed

LEMMA GetAttended ==
    ASSUME IInv, Attended, mishaps = 0, NEW c \in Caller, NEW j \in Id, Get(c, j),
           NEW i \in Id, subs'[i] = "waiting"
    PROVE  Received(i)' /\ Informed(i)'
  <1>1. /\ call[c].phase = "idle" /\ UNCHANGED <<srv, unblocks, refresh>>
        /\ IF subs[j] = "absent"
           THEN subs' = [subs EXCEPT ![j] = "waiting"] ELSE subs' = subs
    BY DEF Get, NotCalled
  <1> DEFINE phase == IF subs[j] = "absent" THEN "register" ELSE "held"
             new == [NotCalled EXCEPT !.phase = phase, !.id = j]
  <1>2. call' = [call EXCEPT ![c] = new]
    BY DEF Get
  <1>3. new.id = j /\ new.phase = phase
    BY DEF NotCalled
  <1> HIDE DEF new
  <1>4. /\ call'[c].id = j /\ call'[c].phase = phase
        /\ \A d \in Caller \ {c} : call'[d] = call[d]
    BY <1>2, <1>3, Shapes
  <1>5. CASE i = j /\ subs[j] = "absent"
    <2>1. Using(c, i)' /\ call'[c].phase = "register"
      BY <1>4, <1>5 DEF Using
    <2> QED BY <2>1 DEF Received, Informed, Asking
  <1>6. CASE subs[i] = "waiting"
    <2>1. Received(i) /\ Informed(i)
      BY <1>6 DEF Attended
    <2>2. \A d \in Caller : Using(d, i) => Using(d, i)' /\ call'[d] = call[d]
      BY <1>1, <1>4 DEF Using
    <2>3. Received(i)' /\ (Asking(i) => Asking(i)')
      BY <2>1, <2>2 DEF Received, Asking
    <2>4. Answered(i) \/ Told(i) \/ Listening(i) => Informed(i)'
      BY <1>1 DEF Answered, Told, Listening, Informed
    <2> QED BY <2>1, <2>3, <2>4 DEF Informed
  <1> QED BY <1>1, <1>5, <1>6, Shapes DEF SubsType

\* A call whose answer says pending is listened for; one whose answer says settled
\* has the outcome.
LEMMA RegisterAttended ==
    ASSUME IInv, Attended, mishaps = 0, mishaps' = 0, NEW c \in Caller, Register(c),
           NEW i \in Id, subs'[i] = "waiting"
    PROVE  Received(i)' /\ Informed(i)'
  <1> DEFINE j == call[c].id
             new == PromiseRegisterListener(Fresh(j), j, Here)
             state == new.promises[j].state
             answer == [call[c] EXCEPT !.phase = AfterAnswer(state),
                                       !.state = state]
  <1>1. /\ j \in Id /\ call[c] \in CallType /\ call[c].phase = "register"
        /\ UNCHANGED <<subs, refresh>>
    BY Shapes DEF Register, CallEntered
  <1>2. Become(new) /\ call' = [call EXCEPT ![c] = answer]
    BY DEF Register, Mishap
  <1>3. Informs /\ (state = "pending" => Here \in srv'.promises[j].subscribers)
    BY <1>1, <1>2, AskStep
  <1> HIDE DEF j, new, state
  <1>4. /\ answer.id = call[c].id
        /\ answer.phase = IF state = "pending" THEN "held" ELSE "publish"
    BY <1>1 DEF CallType, AfterAnswer
  <1> HIDE DEF answer
  <1>5. /\ call'[c].id = call[c].id
        /\ call'[c].phase = IF state = "pending" THEN "held" ELSE "publish"
        /\ \A d \in Caller \ {c} : call'[d] = call[d]
    BY <1>2, <1>4, Shapes
  <1>6. Received(i) /\ Informed(i)
    BY <1>1 DEF Attended
  <1>7. \A d \in Caller : Using(d, i) => Using(d, i)'
    BY <1>5 DEF Using
  <1>8. Received(i)'
    BY <1>6, <1>7 DEF Received
  <1>9. CASE i = j
    <2>1. CASE state = "pending"
      BY <1>3, <1>8, <1>9, <2>1 DEF Informed, Listening
    <2>2. CASE state # "pending"
      <3>1. Using(c, i)' /\ call'[c].phase = "publish"
        BY <1>5, <1>9, <2>2 DEF Using, j
      <3> QED BY <1>8, <3>1 DEF Informed, Asking
    <2> QED BY <1>8, <2>1, <2>2
  <1>10. CASE i # j
    <2>1. \A d \in Caller : Using(d, i) => call'[d] = call[d]
      BY <1>5, <1>10 DEF Using, j
    <2>2. Asking(i) => Asking(i)'
      BY <1>7, <2>1 DEF Asking
    <2>3. Answered(i) => Answered(i)'
      BY <1>1 DEF Answered
    <2> QED BY <1>3, <1>6, <1>8, <2>2, <2>3, ServerInforms DEF Informed
  <1> QED BY <1>9, <1>10

\* An outcome that is sent to a call that waits arrives.
LEMMA SendArrives ==
    ASSUME IInv, Attended, mishaps = 0, NEW j, NEW o, Holds(j, o), Send(j, o),
           NEW i \in Id, subs'[i] = "waiting"
    PROVE  i # j /\ subs[i] = "waiting"
  <1>1. j \in Id /\ o # "waiting"
    BY DEF Holds, Settled
  <1>2. \/ subs' = [subs EXCEPT ![j] = o]
        \/ subs' = subs /\ (subs[j] = "absent" \/ ~ Received(j))
    BY DEF Send
  <1> QED BY <1>1, <1>2, Shapes DEF SubsType, Attended

LEMMA PublishAttended ==
    ASSUME IInv, Attended, mishaps = 0, NEW c \in Caller, Publish(c),
           NEW i \in Id, subs'[i] = "waiting"
    PROVE  Received(i)' /\ Informed(i)'
  <1>1. /\ UNCHANGED <<srv, unblocks, refresh>>
        /\ call[c].phase = "publish" /\ Send(call[c].id, call[c].state)
        /\ call' = [call EXCEPT ![c].phase = "held"]
    BY DEF Publish
  <1>2. Holds(call[c].id, call[c].state)
    BY <1>1 DEF IInv, CallsTrue, CallTrue
  <1>3. i # call[c].id /\ subs[i] = "waiting"
    BY <1>1, <1>2, SendArrives
  <1>4. Received(i) /\ Informed(i)
    BY <1>3 DEF Attended
  <1>5. \A d \in Caller : Using(d, i) => Using(d, i)' /\ call'[d] = call[d]
    BY <1>1, <1>3, Shapes DEF Using
  <1>6. Received(i)' /\ (Asking(i) => Asking(i)')
    BY <1>4, <1>5 DEF Received, Asking
  <1>7. Answered(i) \/ Told(i) \/ Listening(i) => Informed(i)'
    BY <1>1 DEF Answered, Told, Listening, Informed
  <1> QED BY <1>4, <1>6, <1>7 DEF Informed

LEMMA UnblockAttended ==
    ASSUME IInv, Attended, mishaps = 0, NEW m \in unblocks, Unblock(m),
           NEW i \in Id, subs'[i] = "waiting"
    PROVE  Received(i)' /\ Informed(i)'
  <1>1. /\ UNCHANGED <<srv, call, refresh>> /\ unblocks' = unblocks \ {m}
        /\ Holds(m[1], m[2])
    BY DEF Unblock, IInv, MessagesTrue
  <1>2. i # m[1] /\ subs[i] = "waiting"
    <2>1. CASE subs[m[1]] = "absent"
      <3>1. subs' = [subs EXCEPT ![m[1]] = m[2]] /\ m[2] # "waiting"
        BY <1>1, <2>1 DEF Unblock, Holds, Settled
      <3> QED BY <2>1, <3>1, Shapes DEF SubsType
    <2>2. CASE subs[m[1]] # "absent"
      BY <1>1, <2>2, SendArrives DEF Unblock
    <2> QED BY <2>1, <2>2
  <1>3. Received(i) /\ Informed(i)
    BY <1>2 DEF Attended
  <1>4. Received(i)' /\ (Asking(i) => Asking(i)') /\ (Answered(i) => Answered(i)')
    BY <1>1, <1>3 DEF Received, Using, Asking, Answered
  <1>5. (Told(i) => Told(i)') /\ (Listening(i) => Listening(i)')
    BY <1>1, <1>2 DEF Told, Listening
  <1> QED BY <1>3, <1>4, <1>5 DEF Informed

LEMMA AskedAttended ==
    ASSUME IInv, Attended, mishaps = 0, mishaps' = 0, NEW j \in Id, RefreshRegister(j),
           NEW i \in Id, subs'[i] = "waiting"
    PROVE  Received(i)' /\ Informed(i)'
  <1> DEFINE new == PromiseRegisterListener(Fresh(j), j, Here)
             state == new.promises[j].state
             got == IF state = "pending" THEN NoAnswer
                    ELSE [id |-> j, state |-> state]
  <1>1. /\ UNCHANGED <<subs, call>> /\ refresh.answer = NoAnswer
    BY DEF RefreshRegister
  <1>2. Received(i) /\ Informed(i) /\ Received(i)' /\ ~ Answered(i)
        /\ (Asking(i) => Asking(i)')
    BY <1>1 DEF Attended, Received, Using, Asking, Answered
  <1>3. \/ /\ HasPromise(Fresh(j), j) /\ Become(new)
           /\ refresh'.answer = got
        \/ UNCHANGED <<srv, unblocks>>
    BY DEF RefreshRegister, Mishap
  <1>4. CASE HasPromise(Fresh(j), j) /\ Become(new) /\ refresh'.answer = got
    <2>1. /\ Informs /\ state # "absent"
          /\ state = "pending" => Here \in srv'.promises[j].subscribers
      BY <1>4, AskStep
    <2> HIDE DEF new, state
    <2>2. CASE i = j /\ state = "pending"
      BY <1>2, <2>1, <2>2 DEF Informed, Listening
    <2>3. CASE i = j /\ state # "pending"
      <3>1. refresh'.answer.id = i /\ refresh'.answer.state = state
        BY <1>4, <2>3
      <3>2. NoAnswer.state = "absent"
        BY DEF NoAnswer
      <3>3. Answered(i)'
        BY <2>1, <3>1, <3>2 DEF Answered, NoAnswer
      <3> QED BY <1>2, <3>3 DEF Informed
    <2>4. CASE i # j
      BY <1>2, <2>1, ServerInforms DEF Informed
    <2> QED BY <2>2, <2>3, <2>4
  <1>5. CASE UNCHANGED <<srv, unblocks>>
    BY <1>2, <1>5, ServerInforms DEF Informed
  <1> QED BY <1>3, <1>4, <1>5

LEMMA HandedOnAttended ==
    ASSUME IInv, Attended, mishaps = 0, RefreshPublish,
           NEW i \in Id, subs'[i] = "waiting"
    PROVE  Received(i)' /\ Informed(i)'
  <1>1. /\ UNCHANGED <<srv, unblocks, call>>
        /\ Send(refresh.answer.id, refresh.answer.state)
    BY DEF RefreshPublish
  <1>2. Holds(refresh.answer.id, refresh.answer.state)
    BY DEF RefreshPublish, IInv, RefreshTrue, AnswerTrue
  <1>3. i # refresh.answer.id /\ subs[i] = "waiting"
    BY <1>1, <1>2, SendArrives
  <1>4. Received(i) /\ Informed(i) /\ ~ Answered(i)
    BY <1>3 DEF Attended, Answered
  <1>5. Received(i)' /\ (Asking(i) => Asking(i)')
    BY <1>1, <1>4 DEF Received, Using, Asking
  <1> QED BY <1>1, <1>4, <1>5, ServerInforms DEF Informed

LEMMA AttendedStep ==
    ASSUME IInv, Attended, [Next]_vars
    PROVE  Attended'
  <1>1. mishaps \in Nat
    BY SubscriptionsAssumption DEF IInv, TypeOK
  <1> SUFFICES ASSUME mishaps' = 0, NEW i \in Id, subs'[i] = "waiting"
               PROVE  Received(i)' /\ Informed(i)'
    BY DEF Attended
  <1>2. ~ Mishap
    BY <1>1 DEF Mishap
  <1>3. ~ Restart /\ (\A c \in Caller : ~ Drop(c)) /\ (\A m \in unblocks : ~ Lose(m))
    BY <1>2 DEF Restart, Drop, Lose
  <1>4. CASE \/ \E j \in Id : CreatePromise(j) \/ SettlePromise(j)
             \/ TickLoop
    <2>1. UNCHANGED <<subs, call, refresh, mishaps>>
      BY <1>4 DEF CreatePromise, SettlePromise, TickLoop
    <2>2. Informs
      BY <1>4, OthersServe, BecomeStep
    <2>3. Received(i) /\ Informed(i)
      BY <2>1 DEF Attended
    <2> QED BY <2>1, <2>2, <2>3, OutsideAttended
  <1>5. CASE Advance \/ RefreshTick \/ UNCHANGED vars
    <2>1. UNCHANGED <<subs, call, srv, unblocks, mishaps>>
      BY <1>5 DEF Advance, RefreshTick, vars
    <2>2. refresh'.answer = refresh.answer
      BY <1>5, Shapes DEF Advance, RefreshTick, vars, RefreshType
    <2>3. Received(i) /\ Informed(i)
      BY <2>1 DEF Attended
    <2> QED BY <2>1, <2>2, <2>3
            DEF Received, Using, Informed, Asking, Answered, Told, Listening
  <1>6. CASE \E c \in Caller : Register(c) \/ Publish(c) \/ Drop(c)
    <2>1. PICK c \in Caller : Register(c) \/ Publish(c)
      BY <1>3, <1>6
    <2>2. mishaps = 0
      BY <1>2, <2>1 DEF Register, Publish
    <2> QED BY <2>1, <2>2, RegisterAttended, PublishAttended
  <1>7. CASE \E c \in Caller, j \in Id : Get(c, j)
    <2>1. mishaps = 0
      BY <1>7 DEF Get
    <2> QED BY <1>7, <2>1, GetAttended
  <1>8. CASE \E m \in unblocks : Unblock(m) \/ Lose(m)
    <2>1. PICK m \in unblocks : Unblock(m)
      BY <1>3, <1>8
    <2>2. mishaps = 0
      BY <2>1 DEF Unblock
    <2> QED BY <2>1, <2>2, UnblockAttended
  <1>9. CASE RefreshPublish \/ \E j \in Id : RefreshRegister(j)
    <2>1. mishaps = 0
      BY <1>2, <1>9 DEF RefreshPublish, RefreshRegister
    <2> QED BY <1>9, <2>1, HandedOnAttended, AskedAttended
  <1> QED BY <1>3, <1>4, <1>5, <1>6, <1>7, <1>8, <1>9 DEF Next, Refresh

\* Short of a mishap no handle depends on the refresh loop: whoever waits has a
\* source of the outcome at work (create_handle_from_id, which keeps a message that
\* comes before the entry, and process_promise_register_listener, which answers with
\* the outcome what it can no longer announce).
THEOREM NobodyWaitsInSilence == Spec => []NoSilentWait
  <1>1. Init => Attended
    BY DEF Init, Attended
  <1>2. IInv /\ Attended /\ [Next]_vars => Attended'
    BY AttendedStep
  <1>3. Attended => NoSilentWait
    BY DEF Attended, NoSilentWait, Informed, Asking, Answered, Told, Listening
  <1> QED BY <1>1, <1>2, <1>3, Inductive, PTL DEF Spec
=============================================================================
