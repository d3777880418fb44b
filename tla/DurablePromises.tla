-------------------------- MODULE DurablePromises --------------------------
(***************************************************************************)
(* What the server promises its clients about promises, tasks apart: a     *)
(* promise is created once, settles once, by a request before its deadline *)
(* or by the deadline, and those who listen to it are told in that step.   *)
(* A request concerns one promise; any others may only run into their      *)
(* deadlines.  LocalNetwork implements this specification.                 *)
(***************************************************************************)
EXTENDS Integers

CONSTANTS
    Id,         \* promise ids
    Addr        \* addresses of listeners

VARIABLES
    promise,    \* the promises: state, deadline, timer mark, listeners
    time,
    told        \* what listeners are told by the last step

Settlement == {"resolved", "rejected", "rejected_canceled"}
Overdue(p) == IF p.timer THEN "resolved" ELSE "rejected_timedout"

\* How the record p of a promise may become q in one step.
Same(p, q) == q = p
Settled(p, q, outcome) ==
    /\ p.state \in {"absent", "pending"}
    /\ q.state = outcome
    /\ q.listeners = {}
    /\ p.state = "pending" => q.timer = p.timer /\ q.deadline = p.deadline
TimedOut(p, q) == p.state = "pending" /\ p.deadline <= time /\ Settled(p, q, Overdue(p))

\* What a request may do to the promise it is about.
Created(p, q) == p.state = "absent" /\ q.state = "pending" /\ q.listeners = {}
CreatedLate(p, q) == p.state = "absent" /\ q.deadline <= time /\ Settled(p, q, Overdue(q))
SettledByRequest(p, q) ==
    p.state = "pending" /\ \E outcome \in Settlement : Settled(p, q, outcome)
ListenedTo(p, q) ==
    p.state = "pending" /\ \E a \in Addr : q = [p EXCEPT !.listeners = @ \cup {a}]
Asked(p, q) ==
    Created(p, q) \/ CreatedLate(p, q) \/ SettledByRequest(p, q) \/ ListenedTo(p, q)

\* The listeners of a promise that settles.
News == {n \in [id : Id, addr : Addr, state : Settlement \cup {"rejected_timedout"}] :
            /\ promise[n.id].state = "pending"
            /\ promise'[n.id].state = n.state
            /\ n.addr \in promise[n.id].listeners}

Init ==
    /\ \A i \in Id : promise[i].state = "absent"
    /\ told = {}
    /\ time = 0

Request ==
    /\ \E i \in Id :
          /\ \/ Same(promise[i], promise'[i])
             \/ TimedOut(promise[i], promise'[i])
             \/ Asked(promise[i], promise'[i])
          /\ \A j \in Id \ {i} : \/ Same(promise[j], promise'[j])
                                 \/ TimedOut(promise[j], promise'[j])
    /\ told' = News
    /\ UNCHANGED time

Advance ==
    /\ time' > time
    /\ UNCHANGED <<promise, told>>

Next == Request \/ Advance

Spec == Init /\ [][Next]_<<promise, time, told>>
=============================================================================
