-------------------------------- MODULE Wire --------------------------------
(***************************************************************************)
(* The way of one request: a typed method of the Sender (send.rs) builds   *)
(* it, the Transport (transport.rs) carries it, apply of the local server  *)
(* (network.rs) expires the promises it names and dispatches it to the     *)
(* handler, the handler answers with a status and records, and the Sender  *)
(* turns the answer into a typed result or an error.                       *)
(*                                                                         *)
(* A record that an answer may lack is a set of at most one element.  The  *)
(* preloaded records, headers, tokens and error texts are left out: what a *)
(* result promises does not depend on them.                                *)
(***************************************************************************)
EXTENDS ServerState, SequencesExt

-----------------------------------------------------------------------------
(* Requests of the Sender *)

PromiseGetReq(id) == [kind |-> "promise.get", id |-> id]
PromiseCreateReq(id, timeoutAt, tags) ==
    [kind |-> "promise.create", id |-> id, timeoutAt |-> timeoutAt, tags |-> tags]
PromiseSettleReq(id, state) == [kind |-> "promise.settle", id |-> id, state |-> state]
ListenerReq(awaited, addr) ==
    [kind |-> "promise.register_listener", awaited |-> awaited, address |-> addr]
TaskCreateReq(pid, ttl, action) ==
    [kind |-> "task.create", pid |-> pid, ttl |-> ttl, action |-> action]
TaskAcquireReq(id, version, pid, ttl) ==
    [kind |-> "task.acquire", id |-> id, version |-> version, pid |-> pid, ttl |-> ttl]
TaskReleaseReq(id, version) == [kind |-> "task.release", id |-> id, version |-> version]
TaskFulfillReq(id, version, action) ==
    [kind |-> "task.fulfill", id |-> id, version |-> version, action |-> action]
\* awaited is the sequence of the awaited ids, in the order of the todos.
TaskSuspendReq(id, version, awaited) ==
    [kind |-> "task.suspend", id |-> id, version |-> version, awaited |-> awaited]
TaskHeartbeatReq(pid, refs) == [kind |-> "task.heartbeat", pid |-> pid, refs |-> refs]

\* The kind of a fenced action shows in its fields.
SubKind(action) ==
    IF "state" \in DOMAIN action THEN "promise.settle" ELSE "promise.create"
TaskFenceReq(id, version, action) ==
    [kind |-> "task.fence", id |-> id, version |-> version,
     action |-> [action EXCEPT !.kind = SubKind(action)]]

\* Methods of the Sender for which the local server has no handler.
TaskGetReq(id) == [kind |-> "task.get", id |-> id]
TaskHaltReq(id) == [kind |-> "task.halt", id |-> id]
TaskContinueReq(id) == [kind |-> "task.continue", id |-> id]
TaskSearchReq == [kind |-> "task.search"]
PromiseSearchReq == [kind |-> "promise.search"]
RegisterCallbackReq(awaited, awaiter) ==
    [kind |-> "promise.register_callback", awaited |-> awaited, awaiter |-> awaiter]

-----------------------------------------------------------------------------
(* The server *)

\* The promises a request names, in the order apply looks at them.
Named(r) ==
    CASE r.kind \in {"promise.get", "promise.create", "promise.settle",
                     "task.acquire", "task.release", "task.fulfill"} -> <<r.id>>
      [] r.kind = "promise.register_listener" -> <<r.awaited>>
      [] r.kind = "task.create"  -> <<r.action.id>>
      [] r.kind = "task.fence"   -> <<r.id, r.action.id>>
      [] r.kind = "task.suspend" -> <<r.id>> \o r.awaited
      [] OTHER                   -> <<>>

\* The promises ids whose deadlines have passed run into them, one after the other.
ExpireInTurn(s, now, ids) ==
    LET after[n \in 0 .. Len(ids)] ==
            IF n = 0 THEN s ELSE TryAutoTimeout(after[n - 1], now, ids[n])
    IN  after[Len(ids)]

\* What apply does before the handler.
Prelude(s, now, r) == ExpireInTurn(Clear(s), now, Named(r))

FencedAction(s, now, r) ==
    IF r.action.kind = "promise.settle"
    THEN TaskFenceSettle(s, now, r.id, r.version, r.action.id, r.action.state)
    ELSE TaskFenceCreate(s, now, r.id, r.version, r.action.id,
                         r.action.timeoutAt, r.action.tags)

\* The handler; s is the state after the prelude.
Handled(s, now, r) ==
    CASE r.kind = "promise.create" -> PromiseCreate(s, now, r.id, r.timeoutAt, r.tags)
      [] r.kind = "promise.settle" -> PromiseSettle(s, now, r.id, r.state)
      [] r.kind = "promise.register_listener" ->
            PromiseRegisterListener(s, r.awaited, r.address)
      [] r.kind = "task.create"    -> TaskCreate(s, now, r.action.id,
            r.action.timeoutAt, r.action.tags, r.pid, r.ttl)
      [] r.kind = "task.acquire"   -> TaskAcquire(s, now, r.id, r.pid, r.ttl)
      [] r.kind = "task.release"   -> TaskRelease(s, now, r.id)
      [] r.kind = "task.fulfill"   -> TaskFulfill(s, now, r.id, r.action.state)
      [] r.kind = "task.fence"     -> FencedAction(s, now, r)
      [] r.kind = "task.suspend"   -> TaskSuspend(s, r.id, ToSet(r.awaited))
      [] r.kind = "task.heartbeat" -> TaskHeartbeat(s, now, r.pid, r.refs)
      [] OTHER                     -> s

-----------------------------------------------------------------------------
(* Answers *)

PromiseRecord(s, i) ==
    IF HasPromise(s, i)
    THEN {[id |-> i, state |-> s.promises[i].state,
           timeoutAt |-> s.promises[i].timeoutAt, settledAt |-> s.promises[i].settledAt]}
    ELSE {}
TaskRecord(s, i) ==
    IF HasTask(s, i)
    THEN {[id |-> i, state |-> s.tasks[i].state, version |-> s.tasks[i].version,
           pid |-> s.tasks[i].pid]}
    ELSE {}

Answer(status, promise, task) == [status |-> status, promise |-> promise, task |-> task]
Refuse(status) == Answer(status, {}, {})
Done == Refuse(200)

\* The answers of the handlers: b is the state before, a the one after.
PromiseAnswer(a, i, status) ==
    IF HasPromise(a, i) THEN Answer(status, PromiseRecord(a, i), {}) ELSE Refuse(404)
CreateAnswer(b, a, i) ==
    Answer(IF ~HasPromise(b, i) /\ a.promises[i].state = "pending" THEN 201 ELSE 200,
           PromiseRecord(a, i), {})
TaskCreateAnswer(b, a, i) ==
    IF HasTask(b, i)
    THEN IF b.tasks[i].state \in {"pending", "fulfilled"}
         THEN Answer(200, PromiseRecord(b, i), TaskRecord(a, i))
         ELSE Refuse(409)
    ELSE IF HasPromise(b, i) THEN Refuse(409)
    ELSE Answer(IF a.tasks[i].state = "acquired" THEN 201 ELSE 200,
                PromiseRecord(a, i), TaskRecord(a, i))

\* The answer ok, if task i is in one of states.
TaskAnswer(b, i, states, ok) ==
    IF ~HasTask(b, i) THEN Refuse(404)
    ELSE IF b.tasks[i].state \notin states THEN Refuse(409) ELSE ok
FenceAnswer(b, a, r) ==
    IF ~HasTask(b, r.id) THEN Refuse(404)
    ELSE IF ~HoldsLease(b, r.id, r.version) THEN Refuse(409)
    ELSE Answer(200, PromiseRecord(a, r.action.id), {})
SuspendAnswer(b, r) ==
    IF b.tasks[r.id].resumes # {} \/ AnySettled(b, ToSet(r.awaited))
    THEN Refuse(300) ELSE Done

AnswerTo(b, a, r) ==
    CASE r.kind \in {"promise.get", "promise.settle"} -> PromiseAnswer(a, r.id, 200)
      [] r.kind = "promise.create" -> CreateAnswer(b, a, r.id)
      [] r.kind = "promise.register_listener" -> PromiseAnswer(a, r.awaited, 200)
      [] r.kind = "task.create"    -> TaskCreateAnswer(b, a, r.action.id)
      [] r.kind = "task.acquire"   -> TaskAnswer(b, r.id, {"pending"},
            Answer(200, PromiseRecord(a, r.id), TaskRecord(a, r.id)))
      [] r.kind = "task.release"   -> TaskAnswer(b, r.id, {"acquired"}, Done)
      [] r.kind = "task.fulfill"   -> TaskAnswer(b, r.id, {"acquired"},
            Answer(200, PromiseRecord(a, r.action.id), {}))
      [] r.kind = "task.fence"     -> FenceAnswer(b, a, r)
      [] r.kind = "task.suspend"   -> TaskAnswer(b, r.id, {"acquired"}, SuspendAnswer(b, r))
      [] r.kind = "task.heartbeat" -> Done
      [] OTHER                     -> Refuse(400)

-----------------------------------------------------------------------------
(* Results *)

Fail(code) == [ok |-> FALSE, code |-> code, as |-> "error", promise |-> {}, task |-> {}]
Undecodable == Fail(0)      \* Error::DecodingError
Success(as, answer) == [ok |-> TRUE, code |-> answer.status, as |-> as,
                        promise |-> answer.promise, task |-> answer.task]

PassConflicts(r) == r.kind # "promise.create"   \* faulty: 409 is an error of creates only
\* task_create_or_conflict is the method that takes 409 for an answer.
PassConflict(r) == r.kind = "task.create"

\* An answer that is no error, by its status.
SendEnvelope(answer, allow409) ==
    IF answer.status >= 400 /\ ~(allow409 /\ answer.status = 409)
    THEN Fail(answer.status) ELSE Success("done", answer)

ParsePromise(e) == IF e.ok /\ e.promise = {} THEN Undecodable ELSE e
ParseTaskAcquire(e) ==
    IF e.ok /\ (e.task = {} \/ e.promise = {}) THEN Undecodable ELSE e
ParseSuspend(e) ==
    IF e.ok THEN [e EXCEPT !.as = IF e.code = 300 THEN "redirect" ELSE "suspended"] ELSE e
ParseTaskCreate(e) ==
    IF e.ok /\ e.code = 409 THEN [e EXCEPT !.as = "conflict"] ELSE ParseTaskAcquire(e)

\* What the caller of the Sender's method gets.
Result(r, answer) ==
    LET e == SendEnvelope(answer, PassConflict(r))
    IN  CASE r.kind \in {"promise.get", "promise.create", "promise.settle",
                         "promise.register_listener", "task.fulfill", "task.fence"} ->
                ParsePromise(e)
          [] r.kind = "task.create"  -> ParseTaskCreate(e)
          [] r.kind = "task.acquire" -> ParseTaskAcquire(e)
          [] r.kind = "task.suspend" -> ParseSuspend(e)
          [] OTHER                   -> e

-----------------------------------------------------------------------------
(* Responses: what the network gives back for the request with id corr. *)

Response(kind, corr, answer) == [json |-> TRUE, kind |-> kind, corr |-> corr, answer |-> answer]
NotJson == [json |-> FALSE]

\* Transport::send, and on to the caller.
Receive(r, corr, response) ==
    IF ~response.json THEN Undecodable
    ELSE IF response.kind # r.kind \/ response.corr # corr THEN Fail(500)
    ELSE Result(r, response.answer)
=============================================================================
