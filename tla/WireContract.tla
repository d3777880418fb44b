---------------------------- MODULE WireContract ----------------------------
(***************************************************************************)
(* What the Sender's results tell a worker about the server, for every     *)
(* request in every state LocalNetwork reaches: the requests come from any *)
(* holder of the task, present or past, and from clients that know nothing *)
(* of each other.                                                          *)
(***************************************************************************)
EXTENDS LocalNetwork, Wire

PromiseRequests ==
    {PromiseGetReq(i) : i \in Id}
      \cup {PromiseCreateReq(i, d, tags) : i \in Id, d \in Deadlines, tags \in TagChoices}
      \cup {PromiseSettleReq(i, outcome) : i \in Id, outcome \in Outcomes}
      \cup {ListenerReq(i, addr) : i \in Id, addr \in Addr}

Versions == 0 .. MaxVersion
Creates == {r \in PromiseRequests : r.kind = "promise.create"}
Settles == {r \in PromiseRequests : r.kind = "promise.settle"}

\* A task fulfills its own promise, and suspends on and fences those of others.
TaskRequests ==
    {TaskCreateReq(pid, ttl, r) : pid \in Pid, ttl \in TTLs, r \in Creates}
      \cup {TaskAcquireReq(i, 0, pid, ttl) : i \in Id, pid \in Pid, ttl \in TTLs}
      \cup {TaskReleaseReq(i, 0) : i \in Id}
      \cup {TaskFulfillReq(r.id, 0, r) : r \in Settles}
      \cup {TaskSuspendReq(i, 0, <<j>>) : i, j \in Id}
      \cup {TaskFenceReq(i, v, r) : i \in Id, v \in Versions, r \in Creates \cup Settles}
      \cup {TaskGetReq(i) : i \in Id} \cup {TaskHaltReq(i) : i \in Id}
      \cup {TaskContinueReq(i) : i \in Id} \cup {TaskSearchReq, PromiseSearchReq}
      \cup {RegisterCallbackReq(i, j) : i, j \in Id}

Requests == {r \in PromiseRequests \cup TaskRequests :
    /\ r.kind = "task.fence" => r.action.id # r.id
    /\ r.kind = "task.suspend" => r.awaited[1] # r.id}

\* What else may come back: the error page of a proxy, the answer to an earlier
\* request, the answer of a server that takes the request for another.
Strays(r, answer) ==
    {NotJson, Response(r.kind, "earlier", answer), Response("unknown", "this", answer)}

-----------------------------------------------------------------------------

HeldBy(s, task, pid) ==
    /\ s.tasks[task.id].state = "acquired"
    /\ s.tasks[task.id].pid = pid
    /\ s.tasks[task.id].version = task.version

\* What result e of request r says of the server state s it leaves behind.
Promised(e, r, s) ==
    /\ \A p \in e.promise :
          /\ p = CHOOSE q \in PromiseRecord(s, p.id) : TRUE
          /\ r.kind \in {"promise.settle", "task.fulfill"} => p.state \in Settled
          /\ r.kind = "promise.register_listener" =>
                p.state \in Settled \/ r.address \in s.promises[p.id].subscribers
    /\ \A t \in e.task :
          IF t.state = "acquired" THEN HeldBy(s, t, r.pid)
          ELSE \A p \in e.promise : p.state \in Settled
    /\ CASE r.kind = "task.create" /\ e.as = "conflict" -> HasPromise(s, r.action.id)
         [] r.kind = "task.fulfill" -> s.tasks[r.id].state = "fulfilled"
         [] r.kind = "task.release" -> s.tasks[r.id].state = "pending"
         [] r.kind = "task.fence"   -> HoldsLease(s, r.id, r.version)
         [] r.kind = "task.suspend" ->
               IF e.as = "redirect" THEN s.tasks[r.id].state = "acquired"
               ELSE /\ s.tasks[r.id].state = "suspended"
                    /\ HasPromise(s, r.awaited[1]) =>
                          r.id \in s.promises[r.awaited[1]].awaiters
         [] OTHER -> TRUE

\* What the caller of a method is told is so.  A result that is no error is true
\* of the server: the record is the stored one, settled where the method says so;
\* a listener is registered or too late to be needed; an acquired task is held by
\* the caller under the version it was given; a conflict is about a promise one
\* can listen to; a task whose worker was told so is suspended, and no other
\* ("returns whether the task was actually suspended or redirected", send.rs).
\* And a request that ends in an error did nothing but expire what was overdue
\* ("returns 404/409 without applying the action", task_fence; the other handlers
\* check before they change anything as well).  What is no answer to the request is
\* an error whatever it says.
AnswersAreTrue ==
    \A now \in Nows, r \in Requests :
        LET b == Prelude(srv, now, r)
            a == Handled(b, now, r)
            answer == AnswerTo(b, a, r)
            e == Receive(r, "this", Response(r.kind, "this", answer))
        IN  /\ IF e.ok THEN Promised(e, r, a) ELSE a = b
            /\ \A x \in Strays(r, answer) : ~Receive(r, "this", x).ok
=============================================================================
