------------------------- MODULE CreationSequencer -------------------------
(***************************************************************************)
(* The creation sequence of one workflow, resonate/src/sequencing.rs, with *)
(* the parts of resonate/src/context.rs that drive it: the terminal ops of *)
(* the workflow function claim slots in call order, each slot waits for    *)
(* its predecessor and then creates its promise on the server, and the     *)
(* flush joins the background tasks when the function is over.             *)
(*                                                                         *)
(* Slot i is the i-th claim of an attempt, and creates promise i: the      *)
(* workflow function is deterministic.  A spawned op is polled by the      *)
(* runtime, an inline op only while the function awaits it.  An attempt is *)
(* followed by another one, which replays the calls on the promises the    *)
(* server kept; requests of the old one may still be on their way.         *)
(***************************************************************************)
EXTENDS Integers

CONSTANTS
    NumOps,         \* the terminal ops of the workflow
    MaxAttempts     \* bound: the attempts at it

ASSUME SequencerAssumption ==
    /\ NumOps \in Nat \ {0}
    /\ MaxAttempts \in Nat \ {0}

Slot == 1 .. NumOps
Kind == {"none", "spawn", "inline"}
SlotState == {"unclaimed", "inflight", "calling", "created", "failed", "dropped"}
Mode == {"running", "join", "select", "flushing", "finished", "failed"}

VARIABLES
    kind,       \* how each slot was claimed
    state,      \* its CreationState; "calling" (still InFlight to others) while
                \* create_promise is out, "dropped" when the sender is gone
    mode,       \* what the workflow function does
    on,         \* the slots it awaits
    requests,   \* create requests that have not reached the server
    server,     \* the promises that exist on the server
    attempt     \* the number of this attempt

vars == <<kind, state, mode, on, requests, server, attempt>>

Claimed(i) == state[i] # "unclaimed"
Open(i) == state[i] \in {"inflight", "calling"}
Polled(i) == kind[i] = "spawn" \/ i \in on

Init ==
    /\ kind = [i \in Slot |-> "none"]
    /\ state = [i \in Slot |-> "unclaimed"]
    /\ mode = "running"
    /\ on = {}
    /\ requests = {}
    /\ server = {}
    /\ attempt = 1

\* The slots of S lose their future: an unfinished one can only be observed as
\* a closed channel.
DropAll(S) == state' = [i \in Slot |-> IF i \in S /\ Open(i) THEN "dropped"
                                                             ELSE state[i]]

-----------------------------------------------------------------------------
(* The workflow function *)

\* spawn() or into_future(): claim_slot captures the last claim as predecessor.
Claim(i) ==
    /\ mode = "running"
    /\ ~Claimed(i)
    /\ \A j \in Slot : j < i => Claimed(j)
    /\ \E k \in {"spawn", "inline"} : kind' = [kind EXCEPT ![i] = k]
    /\ state' = [state EXCEPT ![i] = "inflight"]
    /\ UNCHANGED <<mode, on, requests, server, attempt>>

\* The function awaits all of S, or the first of S; awaiting what is finished
\* does not block and changes nothing.
Await(S) ==
    /\ mode = "running"
    /\ S # {} /\ \A i \in S : Open(i)
    /\ mode' \in {"join", "select"}
    /\ on' = S
    /\ UNCHANGED <<kind, state, requests, server, attempt>>

Resume ==
    /\ \/ mode = "join" /\ \A i \in on : ~Open(i)
       \/ mode = "select" /\ \E i \in on : ~Open(i)
    /\ mode' = "running"
    /\ on' = {}
    /\ UNCHANGED <<kind, state, requests, server, attempt>>

\* The loser of a select, or a future that is never awaited, goes out of scope.
Drop(i) ==
    /\ mode = "running"
    /\ kind[i] = "inline" /\ Open(i)
    /\ DropAll({i})
    /\ UNCHANGED <<kind, mode, on, requests, server, attempt>>

\* The function returns, whatever it returns: its inline futures die with it and
\* flush_local_work joins what it spawned.
Return ==
    /\ mode = "running"
    /\ mode' = "flushing"
    /\ DropAll({i \in Slot : kind[i] = "inline"})
    /\ UNCHANGED <<kind, on, requests, server, attempt>>

\* The function panics: the context is dropped, and each SpawnedHandle aborts
\* its task.
Panic ==
    /\ mode = "running"
    /\ mode' = "failed"
    /\ DropAll(Slot)
    /\ UNCHANGED <<kind, on, requests, server, attempt>>

\* Faulty: a failed background creation is only logged.
FlushForgiving == "finished"

FlushResult ==
    IF \E i \in Slot : kind[i] = "spawn" /\ state[i] = "failed"
    THEN "failed" ELSE "finished"

Flush ==
    /\ mode = "flushing"
    /\ \A i \in Slot : kind[i] = "spawn" => ~Open(i)
    /\ mode' = FlushResult
    /\ UNCHANGED <<kind, state, on, requests, server, attempt>>

\* The task was released, or suspended and woken, and is executed again.
Retry ==
    /\ mode \in {"finished", "failed"}
    /\ attempt < MaxAttempts
    /\ attempt' = attempt + 1
    /\ kind' = [i \in Slot |-> "none"]
    /\ state' = [i \in Slot |-> "unclaimed"]
    /\ mode' = "running"
    /\ UNCHANGED <<on, requests, server>>

-----------------------------------------------------------------------------
(* CreationSlot::create *)

\* Faulty: slots do not wait; the sender outlives its task.
NoGate(i) == "created"
SenderKept(i) ==
    CASE i = 1                                  -> "created"
      [] state[i - 1] = "created"               -> "created"
      [] state[i - 1] = "failed"                -> "failed"
      [] OTHER                                  -> "inflight"

\* What slot i sees of its predecessor; the first slot has none.
Predecessor(i) ==
    CASE i = 1                                  -> "created"
      [] state[i - 1] = "created"               -> "created"
      [] state[i - 1] \in {"failed", "dropped"} -> "failed"
      [] OTHER                                  -> "inflight"

\* The predecessor was created: send the request.
Call(i) ==
    /\ state[i] = "inflight" /\ Polled(i)
    /\ Predecessor(i) = "created"
    /\ state' = [state EXCEPT ![i] = "calling"]
    /\ requests' = requests \cup {i}
    /\ UNCHANGED <<kind, mode, on, server, attempt>>

\* It failed or is gone: abort without touching the server.
AbortSlot(i) ==
    /\ state[i] = "inflight" /\ Polled(i)
    /\ Predecessor(i) = "failed"
    /\ state' = [state EXCEPT ![i] = "failed"]
    /\ UNCHANGED <<kind, mode, on, requests, server, attempt>>

SentFirst(i) == TRUE    \* faulty: Created is sent before create_promise returns

\* create_promise returns a record, from the server or from the cache.
Confirmed(i) == i \in server

Answer(i) ==
    /\ state[i] = "calling" /\ Polled(i)
    /\ Confirmed(i)
    /\ state' = [state EXCEPT ![i] = "created"]
    /\ UNCHANGED <<kind, mode, on, requests, server, attempt>>

\* create_promise returns an error: the lease is gone, or no answer came.
Fail(i) ==
    /\ state[i] = "calling" /\ Polled(i)
    /\ state' = [state EXCEPT ![i] = "failed"]
    /\ UNCHANGED <<kind, mode, on, requests, server, attempt>>

-----------------------------------------------------------------------------
(* The network and the server *)

\* A request is applied, at any time after it was sent, or lost.
Arrive(i) ==
    /\ i \in requests
    /\ requests' = requests \ {i}
    /\ server' = server \cup {i}
    /\ UNCHANGED <<kind, state, mode, on, attempt>>

Lose(i) ==
    /\ i \in requests
    /\ requests' = requests \ {i}
    /\ UNCHANGED <<kind, state, mode, on, server, attempt>>

Function ==
    \/ \E i \in Slot : Claim(i)
    \/ \E S \in SUBSET Slot : Await(S)
    \/ Resume
    \/ Return
    \/ Flush

Gate(i) == Call(i) \/ AbortSlot(i)
Reply(i) == Answer(i) \/ Fail(i)

Next ==
    \/ Function
    \/ Panic
    \/ Retry
    \/ \E i \in Slot :
          Drop(i) \/ Gate(i) \/ Reply(i) \/ Arrive(i) \/ Lose(i)

Spec == Init /\ [][Next]_vars

\* The function runs on while it can, a task that can move is polled, and each
\* call of the server ends with an answer or an error.
FairSpec ==
    /\ Spec
    /\ WF_vars(Function)
    /\ \A i \in Slot : WF_vars(Gate(i)) /\ WF_vars(Reply(i))

-----------------------------------------------------------------------------
(* Properties *)

\* Each slot is in one of the states of CreationState, or not claimed yet, and
\* what the function awaits was claimed.
TypeOK ==
    /\ kind \in [Slot -> Kind]
    /\ state \in [Slot -> SlotState]
    /\ mode \in Mode
    /\ on \in SUBSET Slot
    /\ requests \in SUBSET Slot
    /\ server \in SUBSET Slot
    /\ attempt \in 1 .. MaxAttempts
    /\ \A i \in Slot : Claimed(i) <=> kind[i] # "none"

\* "the server's created promises are always an exact call-order prefix": over
\* all attempts, whatever is dropped, aborted, lost or late (create).
CallOrderPrefix ==
    \A i \in server : \A j \in Slot : j < i => j \in server

\* No slot calls the server once an earlier one of its attempt has failed, was
\* dropped, or is still on its way ("success-gated", create).
SuccessGated ==
    \A i \in Slot : state[i] \in {"calling", "created"} =>
        \A j \in Slot : j < i => state[j] = "created"

\* A slot broadcasts Created, and a handle hands out its id, only when the
\* promise exists on the server (await_created_id).
IdConfirmed == \A i \in Slot : state[i] = "created" => i \in server

\* An attempt goes on to settle or suspend its root only if every promise it
\* spawned, fire-and-forget ones included, exists (flush_local_work: "so the
\* task is released and retried instead of settling with lost work").
NoLostSpawn ==
    mode = "finished" =>
        \A i \in Slot : kind[i] = "spawn" => i \in server

\* Flushing always ends: no background creation waits for a slot whose future
\* went away with the function.
FlushEnds == mode = "flushing" ~> mode # "flushing"
=============================================================================
