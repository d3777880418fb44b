-------------------------- MODULE PostgresNetwork --------------------------
(***************************************************************************)
(* PostgresNetwork of resonate-postgres/src/lib.rs: the pump, which drains *)
(* the three outbox queues of this node side by side and then waits for a  *)
(* notification or a tick, and the task that keeps a LISTEN connection to  *)
(* be notified by.  The pump and the requests of the process share one     *)
(* client, connected when it is needed; whoever uses it keeps it, dead or  *)
(* not.                                                                    *)
(*                                                                         *)
(* The queues are tables of the database.  Rows of a dequeued batch are    *)
(* gone from the table while the answer is under way to the pump.  How     *)
(* long the pump and the listener sleep is left open.                      *)
(***************************************************************************)
EXTENDS Network, Sequences

CONSTANTS
    Unblocks,       \* the unblock rows, each enqueued once
    Limit,          \* DEQUEUE_LIMIT
    MaxQueue,       \* bound: execute rows waiting in a queue
    MaxExecutes,    \* bound: execute rows the server enqueues, unless Steady
    Steady,         \* the server never runs out of execute rows
    MaxFaults       \* bound: failures of the database or of a connection

ASSUME PostgresAssumption ==
    /\ Limit \in Nat \ {0}
    /\ MaxQueue \in Nat /\ MaxExecutes \in Nat /\ MaxFaults \in Nat
    /\ Steady \in BOOLEAN

Lanes == {"anycast", "unicast", "unblock"}

VARIABLES
    pump,       \* "none", "check", "drain", "lanes", "wait", "ended", "aborted",
                \* or "ending": aborted in the middle of a row
    lane,       \* per queue, where its loop is: "ask", "asked" or "done"
    flight,     \* per queue, the rows dequeued and not handed on yet
    queue,      \* per queue, the rows in the table
    permit,     \* the permit of notify
    client,     \* the shared client: "none", "open" or "closed"
    stale,      \* the client the pump drains with has died
    listen,     \* "none", "check", "setup", "up", "asleep", "ended", "aborted"
    given,      \* history: the unblock rows handed to the callback, in order
    made,       \* history: the unblock rows enqueued
    executes,   \* history: how many execute rows there were
    faults      \* history: how many failures there were

pumpVars == <<pump, lane, flight>>
history == <<made, executes>>
conn == <<client, stale>>
pgVars == <<pump, lane, flight, queue, permit, conn, listen, given, history, faults>>

Idle == [l \in Lanes |-> "done"]
Nothing == [l \in Lanes |-> <<>>]

PostgresInit ==
    /\ pump = "none" /\ listen = "none"
    /\ lane = Idle /\ flight = Nothing /\ queue = Nothing
    /\ permit = FALSE
    /\ client = "none" /\ stale = FALSE
    /\ given = <<>> /\ made = {} /\ executes = 0 /\ faults = 0

-----------------------------------------------------------------------------
(* The database.                                                           *)

\* NOTIFY reaches the pump when the channel is listened on; while setup is at its
\* two channels, it may or may not be yet.
Notify ==
    \/ listen \in {"up", "setup"} /\ permit' = TRUE
    \/ listen # "up" /\ UNCHANGED permit

EnqueueExecute(l) ==
    /\ l # "unblock" /\ Len(queue[l]) < MaxQueue
    /\ Steady \/ executes < MaxExecutes
    /\ executes' = IF Steady THEN executes ELSE executes + 1
    /\ queue' = [queue EXCEPT ![l] = Append(@, "execute")]
    /\ Notify
    /\ UNCHANGED <<conn, pumpVars, listen, given, made, faults, lifeVars>>

EnqueueUnblock(u) ==
    /\ u \notin made
    /\ made' = made \union {u}
    /\ queue' = [queue EXCEPT !["unblock"] = Append(@, u)]
    /\ Notify
    /\ UNCHANGED <<conn, pumpVars, listen, given, executes, faults, lifeVars>>

Fault ==
    /\ faults < MaxFaults
    /\ faults' = faults + 1

-----------------------------------------------------------------------------
(* The client.                                                             *)

KeptClient == client' = IF client = "none" THEN "open" ELSE client  \* faulty: for good

\* client(): the one there is, or a new one if that is closed.
Connected == client' = "open"

ConnectionDies ==
    /\ client = "open" /\ Fault
    /\ client' = "closed"
    /\ stale' = (stale \/ pump = "lanes")
    /\ UNCHANGED <<pumpVars, queue, permit, listen, given, history, lifeVars>>

\* send, whose look at stopped may be long ago.
Send ==
    /\ Connected
    /\ UNCHANGED <<pumpVars, queue, permit, stale, listen, given, history, faults, lifeVars>>

-----------------------------------------------------------------------------
(* The pump.                                                               *)

\* start launches both tasks and keeps their handles under one lock.
PostgresStart ==
    /\ "start" \in spawned
    /\ spawned' = spawned \ {"start"}
    /\ pump' = "check" /\ listen' = "check"
    /\ UNCHANGED <<conn, lane, flight, queue, permit, given, history, faults>>
    /\ UNCHANGED <<kind, callback, stop, hasty, heard>>

PumpCheck ==
    /\ pump = "check"
    /\ pump' = IF stop = "no" THEN "drain" ELSE "ended"
    /\ UNCHANGED <<conn, lane, flight, queue, permit, listen, given, history, faults, lifeVars>>

\* There is a client, and process_timeouts returned: the lanes begin.
Drain ==
    /\ pump = "drain"
    /\ Connected /\ stale' = (client' # "open")
    /\ pump' = "lanes"
    /\ lane' = [l \in Lanes |-> "ask"]
    /\ UNCHANGED <<flight, queue, permit, listen, given, history, faults, lifeVars>>

DrainFails ==
    /\ pump = "drain" /\ Fault
    /\ pump' = "wait"
    /\ UNCHANGED <<conn, lane, flight, queue, permit, listen, given, history, lifeVars>>

\* dequeue_execute and dequeue_unblock: the database runs the query of a lane.
Ask(l) ==
    LET n == IF Len(queue[l]) < Limit THEN Len(queue[l]) ELSE Limit
    IN  /\ pump = "lanes" /\ lane[l] = "ask" /\ ~stale
        /\ flight' = [flight EXCEPT ![l] = SubSeq(queue[l], 1, n)]
        /\ queue' = [queue EXCEPT ![l] = SubSeq(@, n + 1, Len(@))]
        /\ lane' = [lane EXCEPT ![l] = "asked"]
        /\ UNCHANGED <<conn, pump, permit, listen, given, history, faults, lifeVars>>

\* The answer: deliver each row, and ask again after a full batch.
Answer(l) ==
    /\ pump = "lanes" /\ lane[l] = "asked"
    /\ lane' = [lane EXCEPT ![l] = IF Len(flight[l]) = Limit THEN "ask" ELSE "done"]
    /\ flight' = [flight EXCEPT ![l] = <<>>]
    /\ given' = IF l = "unblock" THEN given \o flight[l] ELSE given
    /\ IF flight[l] = <<>> THEN UNCHANGED lifeVars ELSE Hear
    /\ UNCHANGED <<conn, pump, queue, permit, listen, history, faults>>

\* try_join! returns the first error; the other lanes are dropped where they are.
Abandon(l) ==
    /\ pump = "lanes" /\ lane[l] # "done"
    /\ pump' = "wait" /\ lane' = Idle /\ flight' = Nothing
    /\ UNCHANGED <<conn, queue, permit, listen, given, history, lifeVars>>

\* A query fails, or its connection is no more.
LaneFails(l) == Fault /\ ~stale /\ Abandon(l)
LaneDies(l) == stale /\ Abandon(l) /\ UNCHANGED faults

Joined ==
    /\ pump = "lanes" /\ lane = Idle
    /\ pump' = "wait"
    /\ UNCHANGED <<conn, lane, flight, queue, permit, listen, given, history, faults, lifeVars>>

Notified ==
    /\ pump = "wait" /\ permit
    /\ pump' = "check" /\ permit' = FALSE
    /\ UNCHANGED <<conn, lane, flight, queue, listen, given, history, faults, lifeVars>>

ImpatientTick ==    \* faulty: the tick cuts a drain short
    /\ pump \in {"wait", "lanes"}
    /\ pump' = "check" /\ lane' = Idle /\ flight' = Nothing
    /\ UNCHANGED <<conn, queue, permit, listen, given, history, faults, lifeVars>>

Tick ==
    /\ pump = "wait"
    /\ pump' = "check"
    /\ UNCHANGED <<conn, lane, flight, queue, permit, listen, given, history, faults, lifeVars>>

-----------------------------------------------------------------------------
(* The listener.                                                           *)

ListenCheck ==
    /\ listen = "check"
    /\ listen' = IF stop = "no" THEN "setup" ELSE "ended"
    /\ UNCHANGED <<conn, pumpVars, queue, permit, given, history, faults, lifeVars>>

\* Both channels are listened on; rows may have come meanwhile.
Established ==
    /\ listen = "setup"
    /\ listen' = "up" /\ permit' = TRUE
    /\ UNCHANGED <<conn, pumpVars, queue, given, history, faults, lifeVars>>

\* No connection, a setup that fails, or the end of a session.
ListenBreaks ==
    /\ listen \in {"setup", "up"} /\ Fault
    /\ listen' = "asleep"
    /\ UNCHANGED <<conn, pumpVars, queue, permit, given, history, lifeVars>>

ListenAgain ==
    /\ listen = "asleep"
    /\ listen' = "check"
    /\ UNCHANGED <<conn, pumpVars, queue, permit, given, history, faults, lifeVars>>

-----------------------------------------------------------------------------
(* stop.                                                                   *)

\* An aborted pump goes no further than its next await: it may have found
\* stopped unset before, and then finishes the row it is at.
PostgresStop ==
    /\ StopTasks
    /\ pump' \in IF pump = "none" THEN {pump}
                 ELSE {"aborted"} \union {x \in {"ending"} : flight # Nothing}
    /\ listen' = IF listen = "none" THEN listen ELSE "aborted"
    /\ UNCHANGED <<conn, lane, flight, queue, permit, given, history, faults>>

\* The client is dropped, and the callbacks.
PostgresForgets ==
    /\ ClearCallbacks
    /\ client' = "none"
    /\ UNCHANGED <<pumpVars, queue, permit, stale, listen, given, history, faults>>

LastRow(l) ==
    /\ pump = "ending" /\ flight[l] # <<>>
    /\ pump' = "aborted"
    /\ flight' = [flight EXCEPT ![l] = Tail(@)]
    /\ given' = IF l = "unblock" /\ callback THEN Append(given, Head(flight[l])) ELSE given
    /\ Hear
    /\ UNCHANGED <<conn, lane, queue, permit, listen, history, faults>>

PumpStep ==
    \/ PumpCheck \/ Drain \/ DrainFails \/ Joined \/ Notified \/ Tick
    \/ \E l \in Lanes : Ask(l) \/ Answer(l) \/ LaneFails(l) \/ LaneDies(l) \/ LastRow(l)

ClientStep == ConnectionDies \/ Send

ListenStep == ListenCheck \/ Established \/ ListenBreaks \/ ListenAgain

PostgresNext ==
    \/ PostgresStart \/ PostgresStop
    \/ PostgresForgets
    \/ PumpStep \/ ListenStep \/ ClientStep
    \/ \E l \in Lanes : EnqueueExecute(l)
    \/ \E u \in Unblocks : EnqueueUnblock(u)

\* The runtime polls what can proceed; the server answers every query, and each of
\* the three lanes is polled in its turn (try_join!).
PostgresFairness ==
    /\ WF_pumpVars(PumpCheck \/ Drain \/ Joined \/ Notified \/ Tick)
    /\ \A l \in Lanes : WF_pumpVars(Ask(l) \/ Answer(l) \/ LaneDies(l))
    /\ WF_listen(ListenCheck \/ Established \/ ListenAgain)

-----------------------------------------------------------------------------

\* The unblock rows handed on, under way and in the table, in the order they came.
Rows == given \o flight["unblock"] \o queue["unblock"]

\* As long as nothing failed and nobody stopped the network, every unblock row is in
\* the table, under way or handed on, in one of the places and once: no batch is
\* forgotten between two queries (drain_unblocks, pump_task).
UnblocksAccounted ==
    stop = "no" /\ faults = 0 =>
        /\ \A m, n \in DOMAIN Rows : Rows[m] = Rows[n] => m = n
        /\ {Rows[n] : n \in DOMAIN Rows} = made

\* Rows that wait do not wait for ever: whatever fails, the tick finds them
\* (pump_task), as long as the server's stream of executes pauses.
QueuesServed ==
    \A l \in Lanes : queue[l] # <<>> ~> queue[l] = <<>> \/ stop # "no"

\* "The queues drain concurrently ... so a steady stream of executes cannot starve
\* unblocks" (the comment in drain).  This does not hold if Steady; no run checks it.
UnblocksNotStarved ==
    queue["unblock"] # <<>> ~> queue["unblock"] = <<>> \/ stop # "no"
=============================================================================
