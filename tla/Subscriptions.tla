--------------------------- MODULE Subscriptions ---------------------------
(***************************************************************************)
(* The handles of resonate/src/resonate.rs: the subscriptions map of one   *)
(* process, the get / rpc / run calls that make handles (each ends in      *)
(* create_handle_from_id), the unblock messages of the server, and the     *)
(* loop that registers pending ids again every minute.                     *)
(*                                                                         *)
(* An entry of the map is a watch channel.  A caller holds a receiver from *)
(* the moment it has looked the entry up; the sender of a channel without  *)
(* receivers refuses a value.  Entries are never removed.                  *)
(*                                                                         *)
(* A mishap is a lost request, answer or message, a handle or call that is *)
(* dropped, a restart of the process under the same address, or a call for *)
(* a promise that does not exist; MaxMishaps bounds them.                  *)
(***************************************************************************)
EXTENDS ServerState

CONSTANTS
    Caller,     \* the calls that can be under way at once
    Here,       \* the unicast address of the process
    TagChoices, \* the tags promises are created with
    MaxMishaps  \* bound: how many mishaps occur

ASSUME SubscriptionsAssumption ==
    /\ Here \in Addr
    /\ TagChoices \subseteq Tags
    /\ MaxMishaps \in Nat

VARIABLES
    srv,        \* the ServerState; its batch is in unblocks
    clock,      \* 0, or 1 once every deadline has passed
    subs,       \* the map: "absent", "waiting" (None), or the outcome
    call,       \* the calls, and the handles they returned
    unblocks,   \* <<id, outcome>> of the messages to be handled
    refresh,    \* the refresh loop: ids still to ask about, the answer it has
    mishaps     \* mishaps so far

vars == <<srv, clock, subs, call, unblocks, refresh, mishaps>>

Deadline == 1
NoAnswer == [id |-> "none", state |-> "absent"]
NotCalled == [phase |-> "idle", id |-> "none", state |-> "absent"]
Asleep == [ids |-> {}, answer |-> NoAnswer]

Init ==
    /\ srv = Empty
    /\ clock = 0
    /\ subs = [i \in Id |-> "absent"]
    /\ call = [c \in Caller |-> NotCalled]
    /\ unblocks = {}
    /\ refresh = Asleep
    /\ mishaps = 0

Mishap == mishaps < MaxMishaps /\ mishaps' = mishaps + 1

Fresh(i) == TryAutoTimeout(srv, clock, i)

\* The server moves on to new; its messages to this process are on their way.
Become(new) ==
    /\ srv' = Clear(new)
    /\ unblocks' = unblocks \cup
          {<<m.id, m.state>> : m \in {x \in new.outgoing :
                                x.kind = "unblock" /\ x.addr = Here}}

Using(c, i) == call[c].phase # "idle" /\ call[c].id = i
Received(i) == \E c \in Caller : Using(c, i)

\* tx.send on the entry of promise i.
Send(i, outcome) ==
    subs' = IF subs[i] # "absent" /\ Received(i)
            THEN [subs EXCEPT ![i] = outcome] ELSE subs

-----------------------------------------------------------------------------
(* The promises, and time *)

CreatePromise(i) ==
    /\ ~HasPromise(srv, i)
    /\ \E tags \in TagChoices : Become(PromiseCreate(srv, clock, i, Deadline, tags))
    /\ UNCHANGED <<clock, subs, call, refresh, mishaps>>

SettlePromise(i) ==
    /\ srv.promises[i].state = "pending"
    /\ \E outcome \in SettleState : Become(PromiseSettle(Fresh(i), clock, i, outcome))
    /\ UNCHANGED <<clock, subs, call, refresh, mishaps>>

TickLoop ==
    /\ Become(Tick(srv, clock))
    /\ UNCHANGED <<clock, subs, call, refresh, mishaps>>

Advance ==
    /\ clock = 0 /\ clock' = Deadline
    /\ UNCHANGED <<srv, subs, call, unblocks, refresh, mishaps>>

-----------------------------------------------------------------------------
(* create_handle_from_id *)

\* Faulty: every call takes the server for informed.
GetTrusting(c, i) ==
    /\ call[c] = NotCalled
    /\ call' = [call EXCEPT ![c] = [NotCalled EXCEPT !.phase = "held", !.id = i]]
    /\ subs' = [subs EXCEPT ![i] = IF @ = "absent" THEN "waiting" ELSE @]
    /\ UNCHANGED <<srv, clock, unblocks, refresh, mishaps>>

\* Under the lock: the receiver of the entry, or of a new one, in which case the
\* server has to be told.
Get(c, i) ==
    LET new == subs[i] = "absent"
    IN  /\ call[c] = NotCalled
        /\ call' = [call EXCEPT ![c] = [NotCalled EXCEPT
                        !.phase = IF new THEN "register" ELSE "held", !.id = i]]
        /\ subs' = IF new THEN [subs EXCEPT ![i] = "waiting"] ELSE subs
        /\ UNCHANGED <<srv, clock, unblocks, refresh, mishaps>>

\* What a caller does with the record the server answered with.
AlwaysPublish(state) == "publish"   \* faulty: pending is an outcome as well
AfterAnswer(state) == IF state = "pending" THEN "held" ELSE "publish"

\* promise.register_listener; an error, or a missing promise, ends the call.
Register(c) ==
    LET i == call[c].id
        s == Fresh(i)
        new == PromiseRegisterListener(s, i, Here)
        state == new.promises[i].state
        Answer == [call[c] EXCEPT !.phase = AfterAnswer(state), !.state = state]
    IN  /\ call[c].phase = "register"
        /\ \/ /\ HasPromise(s, i)
              /\ Become(new)
              /\ \/ call' = [call EXCEPT ![c] = Answer] /\ UNCHANGED mishaps
                 \/ call' = [call EXCEPT ![c] = NotCalled] /\ Mishap
           \/ \* the promise is missing, or the request is lost
              /\ call' = [call EXCEPT ![c] = NotCalled] /\ Mishap
              /\ UNCHANGED <<srv, unblocks>>
        /\ UNCHANGED <<clock, subs, refresh>>

\* Under the lock again: an answer that was settled already.
Publish(c) ==
    /\ call[c].phase = "publish"
    /\ Send(call[c].id, call[c].state)
    /\ call' = [call EXCEPT ![c].phase = "held"]
    /\ UNCHANGED <<srv, clock, unblocks, refresh, mishaps>>

\* The caller drops the handle, or the future that was to return it.
Drop(c) ==
    /\ call[c].phase # "idle"
    /\ call' = [call EXCEPT ![c] = NotCalled]
    /\ Mishap
    /\ UNCHANGED <<srv, clock, subs, unblocks, refresh>>

-----------------------------------------------------------------------------
(* Messages, the refresh loop, and the process *)

\* An unblock message, each in a task of its own.
Unblock(m) ==
    /\ m \in unblocks
    /\ unblocks' = unblocks \ {m}
    /\ IF subs[m[1]] = "absent"
       THEN subs' = [subs EXCEPT ![m[1]] = m[2]]
       ELSE Send(m[1], m[2])
    /\ UNCHANGED <<srv, clock, call, refresh, mishaps>>

Lose(m) ==
    /\ m \in unblocks
    /\ unblocks' = unblocks \ {m}
    /\ Mishap
    /\ UNCHANGED <<srv, clock, subs, call, refresh>>

NoPendingIds == {}      \* faulty: the loop asks about nothing
PendingIds == {i \in Id : subs[i] = "waiting"}

\* One turn of the loop takes the ids that have no outcome yet ...
RefreshTick ==
    /\ refresh = Asleep
    /\ refresh' = [refresh EXCEPT !.ids = PendingIds]
    /\ UNCHANGED <<srv, clock, subs, call, unblocks, mishaps>>

\* ... asks about one after the other, passing over errors ...
RefreshRegister(i) ==
    LET s == Fresh(i)
        new == PromiseRegisterListener(s, i, Here)
        state == new.promises[i].state
        rest == refresh.ids \ {i}
    IN  /\ i \in refresh.ids /\ refresh.answer = NoAnswer
        /\ \/ /\ HasPromise(s, i)
              /\ Become(new)
              /\ \/ /\ refresh' = [ids |-> rest,
                          answer |-> IF state = "pending" THEN NoAnswer
                                     ELSE [id |-> i, state |-> state]]
                    /\ UNCHANGED mishaps
                 \/ refresh' = [refresh EXCEPT !.ids = rest] /\ Mishap
           \/ /\ refresh' = [refresh EXCEPT !.ids = rest]
              /\ IF HasPromise(s, i) THEN Mishap ELSE UNCHANGED mishaps
              /\ UNCHANGED <<srv, unblocks>>
        /\ UNCHANGED <<clock, subs, call>>

\* ... and hands a settled answer on.
RefreshPublish ==
    /\ refresh.answer # NoAnswer
    /\ Send(refresh.answer.id, refresh.answer.state)
    /\ refresh' = [refresh EXCEPT !.answer = NoAnswer]
    /\ UNCHANGED <<srv, clock, call, unblocks, mishaps>>

\* The process dies and another starts under its address.
Restart ==
    /\ subs' = [i \in Id |-> "absent"]
    /\ call' = [c \in Caller |-> NotCalled]
    /\ refresh' = Asleep
    /\ Mishap
    /\ UNCHANGED <<srv, clock, unblocks>>

Refresh == RefreshTick \/ RefreshPublish \/ \E i \in Id : RefreshRegister(i)

Next ==
    \/ \E i \in Id : CreatePromise(i) \/ SettlePromise(i)
    \/ TickLoop
    \/ Advance
    \/ \E c \in Caller : Register(c) \/ Publish(c) \/ Drop(c)
    \/ \E c \in Caller, i \in Id : Get(c, i)
    \/ \E m \in unblocks : Unblock(m) \/ Lose(m)
    \/ Refresh
    \/ Restart

Spec == Init /\ [][Next]_vars

\* The refresh loop turns, its requests end, and time passes.  Nothing is asked
\* of the messages.
FairSpec == Spec /\ WF_vars(Refresh) /\ WF_vars(Advance)

-----------------------------------------------------------------------------
(* Properties *)

\* The map, the calls and the loop keep their shape: who uses an id, or asks about
\* it, has its entry, and the loop hands on settled records only.
TypeOK ==
    /\ srv \in State
    /\ clock \in {0, Deadline}
    /\ subs \in [Id -> {"absent", "waiting"} \cup PromiseState]
    /\ unblocks \subseteq Id \X Settled
    /\ call \in [Caller -> [phase : {"idle", "register", "publish", "held"},
                            id : Id \cup {"none"}, state : PromiseState]]
    /\ \A c \in Caller :
          call[c].phase # "idle" => call[c].id \in Id /\ subs[call[c].id] # "absent"
    /\ refresh \in [ids : SUBSET Id,
                    answer : [id : Id \cup {"none"}, state : PromiseState]]
    /\ \A i \in refresh.ids : subs[i] # "absent"
    /\ refresh.answer # NoAnswer =>
          refresh.answer.id \in Id /\ refresh.answer.state \in Settled
    /\ mishaps \in 0 .. MaxMishaps

\* A handle shows the settlement of its promise and nothing else, whichever of
\* message, answer and refresh came first, late, or twice.
SeenIsSettlement ==
    \A i \in Id : subs[i] \notin {"absent", "waiting"} =>
        subs[i] \in Settled /\ subs[i] = srv.promises[i].state

\* Short of a mishap no handle depends on the refresh loop: while one waits on a
\* settled promise the news is under way ("keeps an early unblock from being
\* dropped", create_handle_from_id), and while the promise is pending the server
\* knows whom to tell, or is being asked.
NoSilentWait ==
    mishaps = 0 => \A c \in Caller, i \in Id :
        Using(c, i) /\ subs[i] = "waiting" =>
            \/ \E d \in Caller : Using(d, i) /\ call[d].phase \in {"register", "publish"}
            \/ refresh.answer.id = i
            \/ Here \in srv.promises[i].subscribers
            \/ \E m \in unblocks : m[1] = i

\* Whatever was lost, a handle to a promise that exists shows an outcome in the
\* end, at the latest by the deadline and a turn of the refresh loop.
HandleSettles ==
    \A c \in Caller, i \in Id :
        (call[c].phase = "held" /\ Using(c, i) /\ HasPromise(srv, i))
            ~> (~Using(c, i) \/ subs[i] \in Settled)
=============================================================================
