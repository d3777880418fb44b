---------------------------- MODULE ServerState ----------------------------
(***************************************************************************)
(* The durable promise and task server that resonate/src/network.rs keeps  *)
(* in process for local mode (struct ServerState).  It is a sequential     *)
(* machine behind a mutex: a request is one call of apply, the background  *)
(* loop is one call of tick.  Here each of them is an operator from the    *)
(* state record s to the next state record, so that the calls one handler  *)
(* makes compose the way they do in the code.                              *)
(*                                                                         *)
(* Promises and tasks are total functions on Id; "absent" stands for a key *)
(* that the HashMap does not hold.  Parameters, values and the lineage     *)
(* tags of a promise are left out: no handler reads them.  The p_timeouts  *)
(* and t_timeouts vectors are upserted by id, hence functions as well.     *)
(*                                                                         *)
(* The loops of tick, resume_awaiters and notify_subscribers run over ids  *)
(* in an order nothing depends on; the operators take the set of ids.      *)
(***************************************************************************)
EXTENDS Integers

CONSTANTS
    Id,         \* promise ids; a task has the id of its promise
    Pid,        \* process ids of workers
    NoPid,      \* Task.pid = None
    Addr,       \* listener addresses
    RetryTTL,   \* PENDING_RETRY_TTL
    MaxTime     \* i64::MAX: the default timeoutAt, and where a lease saturates

ASSUME ServerAssumption ==
    /\ NoPid \notin Pid
    /\ RetryTTL \in Nat \ {0}
    /\ MaxTime \in Nat

None == -1
Settled == {"resolved", "rejected", "rejected_canceled", "rejected_timedout"}
SettleState == {"resolved", "rejected", "rejected_canceled"}
PromiseState == {"absent", "pending"} \cup Settled
\* TaskState::Halted is matched by resume_awaiters but no operation enters it.
TaskState == {"absent", "pending", "acquired", "suspended", "fulfilled"}

\* What the handlers read of a promise's tags: an execution address, the
\* durable timer mark, and a delay (None when there is none).
Tags == [target : BOOLEAN, timer : BOOLEAN, delay : Int]

Promise == [state : PromiseState, target : BOOLEAN, timer : BOOLEAN,
            timeoutAt : Nat, settledAt : Nat \cup {None},
            awaiters : SUBSET Id, subscribers : SUBSET Addr]
Task == [state : TaskState, version : Nat, pid : Pid \cup {NoPid},
         ttl : Nat \cup {None}, resumes : SUBSET Id]
TTimeout == [typ : {"none", "retry", "lease"}, at : Nat]
Message == [kind : {"execute"}, id : Id, version : Nat]
             \cup [kind : {"unblock"}, id : Id, addr : Addr, state : Settled]
State == [promises : [Id -> Promise], tasks : [Id -> Task],
          pTimeouts : [Id -> Nat \cup {None}], tTimeouts : [Id -> TTimeout],
          outgoing : SUBSET Message]

NoTimeout == [typ |-> "none", at |-> 0]
NewPromise(state, tags, timeoutAt, settledAt) ==
    [state |-> state, target |-> tags.target, timer |-> tags.timer,
     timeoutAt |-> timeoutAt, settledAt |-> settledAt,
     awaiters |-> {}, subscribers |-> {}]
NewTask(state, pid, ttl) ==
    [state |-> state, version |-> 0, pid |-> pid, ttl |-> ttl, resumes |-> {}]

Empty ==
    [promises  |-> [i \in Id |-> NewPromise("absent",
                        [target |-> FALSE, timer |-> FALSE, delay |-> None],
                        0, None)],
     tasks     |-> [i \in Id |-> NewTask("absent", NoPid, None)],
     pTimeouts |-> [i \in Id |-> None],
     tTimeouts |-> [i \in Id |-> NoTimeout],
     outgoing  |-> {}]

-----------------------------------------------------------------------------
(* Helpers *)

\* The version a task gets when it is given up or woken.
SameVersion(v) == v     \* faulty: the version is not a fencing token
NextVersion(v) == v + 1

SaturatingAdd(a, b) == IF a + b > MaxTime THEN MaxTime ELSE a + b

TimeoutState(p) == IF p.timer THEN "resolved" ELSE "rejected_timedout"

\* The pending promises whose deadline has passed.
Due(s, now) == {i \in Id : /\ s.promises[i].state = "pending"
                           /\ now >= s.promises[i].timeoutAt}

PutPromise(s, i, p) == [s EXCEPT !.promises = [@ EXCEPT ![i] = p]]
PutTask(s, i, t) == [s EXCEPT !.tasks = [@ EXCEPT ![i] = t]]
SetPTimeout(s, i, at) == [s EXCEPT !.pTimeouts = [@ EXCEPT ![i] = at]]
SetTTimeout(s, i, typ, at) ==
    [s EXCEPT !.tTimeouts = [@ EXCEPT ![i] = [typ |-> typ, at |-> at]]]

\* Faulty: every execute message carries the version of a new task.
SendFirstVersion(s, S) ==
    [s EXCEPT !.outgoing = @ \cup
        {[kind |-> "execute", id |-> i, version |-> 0] :
            i \in {j \in S : s.promises[j].target}}]

\* One execute message per task of S that has an address, replacing an earlier
\* one of the same task.  Every local subscriber gets every message, so the
\* address itself is left out.
SendExecuteMessage(s, S) ==
    LET to == {i \in S : s.promises[i].target}
    IN  [s EXCEPT !.outgoing =
            {m \in @ : m.kind = "execute" => m.id \notin to}
              \cup {[kind |-> "execute", id |-> i,
                     version |-> s.tasks[i].version] : i \in to}]

\* Fulfill the tasks of the settled promises S and strike them off every
\* promise they were awaiting.
Missing(s, S) == {i \in S : s.tasks[i].state = "absent" /\ s.promises[i].target}
Unfinished(s, S) == {i \in S : s.tasks[i].state \notin {"absent", "fulfilled"}}
Finish(task) == [task EXCEPT !.state = "fulfilled", !.pid = NoPid,
                             !.ttl = None, !.resumes = {}]

EnqueueSettle(s, S) ==
    LET born == Missing(s, S)
        done == Unfinished(s, S)
    IN  [s EXCEPT
            !.tasks = [i \in Id |->
                CASE i \in born -> NewTask("fulfilled", NoPid, None)
                  [] i \in done -> Finish(s.tasks[i])
                  [] OTHER      -> s.tasks[i]],
            !.tTimeouts = [i \in Id |->
                IF i \in done THEN NoTimeout ELSE s.tTimeouts[i]],
            !.promises = [i \in Id |-> [s.promises[i] EXCEPT
                !.awaiters = @ \ done]]]

\* Wake every task that awaits a promise of S: a suspended one becomes pending
\* under the next version, one that is pending or acquired remembers the wake.
WokenBy(s, S, a) == {i \in S : a \in s.promises[i].awaiters}
Woken(s, S) == {a \in Id : /\ WokenBy(s, S, a) # {}
                           /\ s.tasks[a].state = "suspended"}
Wake(task, by) == [task EXCEPT !.state = "pending",
                               !.version = NextVersion(@), !.resumes = by]

ResumeAwaiters(s, S, now) ==
    LET woken == Woken(s, S)
    IN  SendExecuteMessage([s EXCEPT
            !.tasks = [a \in Id |->
                CASE a \in woken -> Wake(s.tasks[a], WokenBy(s, S, a))
                  [] s.tasks[a].state \in {"pending", "acquired"} ->
                        [s.tasks[a] EXCEPT !.resumes = @ \cup WokenBy(s, S, a)]
                  [] OTHER -> s.tasks[a]],
            !.tTimeouts = [a \in Id |->
                IF a \in woken THEN [typ |-> "retry", at |-> now + RetryTTL]
                               ELSE s.tTimeouts[a]],
            !.promises = [i \in Id |-> [s.promises[i] EXCEPT
                !.awaiters = IF i \in S THEN {} ELSE @]]],
            woken)

NotifySubscribers(s, S) ==
    LET unblock(i) == {[kind |-> "unblock", id |-> i, addr |-> a,
                        state |-> s.promises[i].state] :
                            a \in s.promises[i].subscribers}
    IN  [s EXCEPT
            !.outgoing = @ \cup UNION {unblock(i) : i \in S},
            !.promises = [i \in Id |-> [s.promises[i] EXCEPT
                !.subscribers = IF i \in S THEN {} ELSE @]]]

\* Faulty: the tasks of settled promises stay alive; tasks are woken before the
\* settled ones among them are fulfilled.
NoFulfill(s, S, now) == NotifySubscribers(ResumeAwaiters(s, S, now), S)
ResumeFirst(s, S, now) ==
    NotifySubscribers(EnqueueSettle(ResumeAwaiters(s, S, now), S), S)

Propagate(s, S, now) ==
    NotifySubscribers(ResumeAwaiters(EnqueueSettle(s, S), S, now), S)

\* Faulty: listeners get the record as it was before the settlement.
SettleAfterNotify(s, S, outcome, at, now) ==
    [Propagate(s, S, now) EXCEPT !.promises = [i \in Id |->
        IF i \in S THEN [@[i] EXCEPT !.state = outcome[i],
                                     !.settledAt = at[i]] ELSE @[i]]]

\* Settle the promises S, promise i with outcome[i] at time at[i], drop their
\* deadlines and propagate.
Settle(s, S, outcome, at, now) ==
    Propagate([s EXCEPT
                  !.promises = [i \in Id |->
                      IF i \in S
                      THEN [s.promises[i] EXCEPT !.state = outcome[i],
                                                 !.settledAt = at[i]]
                      ELSE s.promises[i]],
                  !.pTimeouts = [i \in Id |->
                      IF i \in S THEN None ELSE s.pTimeouts[i]]],
              S, now)

Expire(s, S, now) ==
    Settle(s, S, [i \in Id |-> TimeoutState(s.promises[i])],
                 [i \in Id |-> s.promises[i].timeoutAt], now)

NoAutoTimeout(s, now, id) == s      \* faulty: only the loop expires promises

TryAutoTimeout(s, now, id) ==
    IF id \in Due(s, now) THEN Expire(s, {id}, now) ELSE s

\* Give the tasks S up: the next version of each is pending and announced.
ReleaseTasks(s, S, now) ==
    LET t == [s EXCEPT
                !.tasks = [i \in Id |->
                    IF i \in S
                    THEN [s.tasks[i] EXCEPT !.state = "pending",
                              !.version = NextVersion(@), !.pid = NoPid, !.ttl = None]
                    ELSE s.tasks[i]],
                !.tTimeouts = [i \in Id |->
                    IF i \in S THEN [typ |-> "retry", at |-> now + RetryTTL]
                               ELSE s.tTimeouts[i]]]
    IN  SendExecuteMessage(t, S)

RetryTasks(s, S, now) ==
    SendExecuteMessage(
        [s EXCEPT !.tTimeouts = [i \in Id |->
            IF i \in S THEN [typ |-> "retry", at |-> now + RetryTTL]
                       ELSE s.tTimeouts[i]]], S)

Hold(task, pid, ttl) == [task EXCEPT !.state = "acquired", !.pid = pid,
                                     !.ttl = ttl, !.resumes = {}]

AcquireTask(s, now, id, pid, ttl) ==
    SetTTimeout(PutTask(s, id, Hold(s.tasks[id], pid, ttl)),
                id, "lease", SaturatingAdd(now, ttl))

-----------------------------------------------------------------------------
(* Requests.  apply clears the outgoing batch and expires the promises the *)
(* request names before it calls the handler; the handler is the operator  *)
(* below, and the composition is the operator of LocalNetwork.             *)

Clear(s) == [s EXCEPT !.outgoing = {}]

HasPromise(s, i) == s.promises[i].state # "absent"
HasTask(s, i) == s.tasks[i].state # "absent"

\* A promise with an address gets a deadline entry, a pending task and, unless
\* its delay lies ahead, an execute message.
Schedule(s, now, id, tags, timeoutAt) ==
    LET deferred == now < tags.delay
        t == SetTTimeout(PutTask(SetPTimeout(s, id, timeoutAt),
                                 id, NewTask("pending", NoPid, None)),
                         id, "retry",
                         IF deferred THEN tags.delay ELSE now + RetryTTL)
    IN  IF deferred THEN t ELSE SendExecuteMessage(t, {id})

PromiseCreate(s, now, id, timeoutAt, tags) ==
    IF HasPromise(s, id) THEN s
    ELSE IF now >= timeoutAt
    THEN LET p == NewPromise("absent", tags, timeoutAt, timeoutAt)
         IN  Propagate(PutPromise(s, id, [p EXCEPT !.state = TimeoutState(p)]),
                       {id}, now)
    ELSE LET t == PutPromise(s, id,
                             NewPromise("pending", tags, timeoutAt, None))
         IN  IF tags.target THEN Schedule(t, now, id, tags, timeoutAt) ELSE t

\* Faulty: the last settlement wins.
SettleAgain(s, now, id, outcome) ==
    IF HasPromise(s, id)
    THEN Settle(s, {id}, [i \in Id |-> outcome], [i \in Id |-> now], now)
    ELSE s

PromiseSettle(s, now, id, outcome) ==
    IF s.promises[id].state = "pending"
    THEN Settle(s, {id}, [i \in Id |-> outcome], [i \in Id |-> now], now)
    ELSE s

PromiseRegisterListener(s, id, addr) ==
    IF s.promises[id].state = "pending"
    THEN PutPromise(s, id, [s.promises[id] EXCEPT
                                !.subscribers = @ \cup {addr}])
    ELSE s

TaskCreate(s, now, id, timeoutAt, tags, pid, ttl) ==
    IF HasTask(s, id)
    THEN IF s.tasks[id].state = "pending"
         THEN AcquireTask(s, now, id, pid, ttl)
         ELSE s
    ELSE IF HasPromise(s, id) THEN s
    ELSE IF now >= timeoutAt
    THEN LET p == NewPromise("absent", tags, timeoutAt, timeoutAt)
         IN  PutTask(PutPromise(s, id, [p EXCEPT !.state = TimeoutState(p)]),
                     id, NewTask("fulfilled", NoPid, None))
    ELSE LET p == PutPromise(s, id,
                             NewPromise("pending", tags, timeoutAt, None))
             q == IF tags.target THEN SetPTimeout(p, id, timeoutAt) ELSE p
         IN  SetTTimeout(PutTask(q, id, NewTask("acquired", pid, ttl)),
                         id, "lease", SaturatingAdd(now, ttl))

\* The version the request carries is not compared.
TaskAcquire(s, now, id, pid, ttl) ==
    IF s.tasks[id].state = "pending"
    THEN AcquireTask(s, now, id, pid, IF ttl < 1 THEN 1 ELSE ttl)
    ELSE s

\* Neither here, nor in TaskFulfill, nor in TaskSuspend.
TaskRelease(s, now, id) ==
    IF s.tasks[id].state = "acquired" THEN ReleaseTasks(s, {id}, now) ELSE s

\* The settled promise is the task's own: the workers send no other id.
TaskFulfill(s, now, id, outcome) ==
    IF s.tasks[id].state = "acquired"
    THEN IF s.promises[id].state = "pending"
         THEN PromiseSettle(s, now, id, outcome)
         ELSE Propagate(s, {id}, now)
    ELSE s

HoldsLease(s, id, version) ==
    s.tasks[id].state = "acquired" /\ s.tasks[id].version = version

\* Faulty: any holder will do.
FenceByState(s, now, id, version, child, timeoutAt, tags) ==
    IF s.tasks[id].state = "acquired"
    THEN PromiseCreate(s, now, child, timeoutAt, tags)
    ELSE s

TaskFenceCreate(s, now, id, version, child, timeoutAt, tags) ==
    IF HoldsLease(s, id, version)
    THEN PromiseCreate(s, now, child, timeoutAt, tags)
    ELSE s

TaskFenceSettle(s, now, id, version, child, outcome) ==
    IF HoldsLease(s, id, version)
    THEN PromiseSettle(s, now, child, outcome)
    ELSE s

NoneSettled(s, awaited) == FALSE    \* faulty: settled promises are skipped
AnySettled(s, awaited) == \E i \in awaited : s.promises[i].state \in Settled

TaskSuspend(s, id, awaited) ==
    IF s.tasks[id].state # "acquired" THEN s
    ELSE IF s.tasks[id].resumes # {}
    THEN PutTask(s, id, [s.tasks[id] EXCEPT !.resumes = {}])
    ELSE LET t == [s EXCEPT !.promises = [i \in Id |->
                     [s.promises[i] EXCEPT !.awaiters =
                        IF i \in awaited /\ s.promises[i].state = "pending"
                        THEN @ \cup {id} ELSE @]]]
         IN  IF AnySettled(s, awaited) THEN t
             ELSE [PutTask(t, id, [s.tasks[id] EXCEPT !.state = "suspended",
                              !.pid = NoPid, !.ttl = None, !.resumes = {}])
                     EXCEPT !.tTimeouts = [@ EXCEPT ![id] = NoTimeout]]

\* refs is the set of <<task, version>> pairs of the request.
TaskHeartbeat(s, now, pid, refs) ==
    [s EXCEPT !.tTimeouts = [i \in Id |->
        IF /\ s.tasks[i].state = "acquired"
           /\ <<i, s.tasks[i].version>> \in refs
           /\ s.tasks[i].pid = pid
        THEN [typ |-> "lease", at |-> SaturatingAdd(now, s.tasks[i].ttl)]
        ELSE s.tTimeouts[i]]]

\* Faulty: the loop only expires promises; the loop forgets them.
TickPromises(s, now) ==
    Expire(s, {i \in Due(s, now) : s.pTimeouts[i] # None}, now)
TickRetries(s, now) ==
    RetryTasks(s, {i \in Id : s.tTimeouts[i].typ = "retry"
                                /\ s.tTimeouts[i].at <= now}, now)

\* One turn of the background loop: what is due is collected first, then
\* deadlines, leases and retries are worked off in this order.
Tick(s, now) ==
    LET ripe(typ, state) ==
            {i \in Id : /\ s.tTimeouts[i].typ = typ
                        /\ s.tTimeouts[i].at <= now
                        /\ s.tasks[i].state = state}
        overdue == {i \in Id : /\ s.pTimeouts[i] # None
                              /\ s.pTimeouts[i] <= now
                              /\ s.promises[i].state = "pending"}
        t == Expire(s, overdue, now)
        expired == {i \in ripe("lease", "acquired") :
                        HoldsLease(t, i, s.tasks[i].version)}
        u == ReleaseTasks(t, expired, now)
        silent == {i \in ripe("retry", "pending") :
                        u.tasks[i].state = "pending"}
    IN  RetryTasks(u, silent, now)

-----------------------------------------------------------------------------
(* What every request and every turn of the loop preserves.  The           *)
(* properties of LocalNetwork are these predicates of its server state.    *)

\* A task exists only with its promise, every promise with an address has a
\* task, and a task is fulfilled exactly when its promise is settled.
TasksFollowPromises(s) == \A i \in Id :
    /\ HasTask(s, i) => HasPromise(s, i)
    /\ HasPromise(s, i) /\ s.promises[i].target => HasTask(s, i)
    /\ HasTask(s, i) => (s.tasks[i].state = "fulfilled"
                            <=> s.promises[i].state \in Settled)

\* A pending promise with an address, and no other, has its deadline entry; a
\* pending task has a retry entry, an acquired one a lease entry and a holder,
\* and no other task has either.
TimeoutsScheduled(s) == \A i \in Id :
    /\ s.pTimeouts[i] =
          IF s.promises[i].state = "pending" /\ s.promises[i].target
          THEN s.promises[i].timeoutAt ELSE None
    /\ s.tTimeouts[i].typ = CASE s.tasks[i].state = "pending"  -> "retry"
                              [] s.tasks[i].state = "acquired" -> "lease"
                              [] OTHER                         -> "none"
    /\ s.tasks[i].state = "acquired" <=> s.tasks[i].pid # NoPid
    /\ s.tasks[i].state = "acquired" <=> s.tasks[i].ttl # None

\* Only a pending promise has awaiters and subscribers, and only a task that is
\* still to finish awaits anything.
AwaitersLive(s) == \A i \in Id :
    /\ s.promises[i].state # "pending" =>
          s.promises[i].awaiters = {} /\ s.promises[i].subscribers = {}
    /\ \A a \in s.promises[i].awaiters :
          s.tasks[a].state \in {"pending", "acquired", "suspended"}

\* A suspended task is an awaiter of a promise that is still to settle.
SuspendedAwaitsPending(s) == \A a \in Id :
    s.tasks[a].state = "suspended" =>
        \E i \in Id : /\ s.promises[i].state = "pending"
                      /\ a \in s.promises[i].awaiters

\* A promise that its deadline settled carries the deadline and the outcome the
\* timer mark asks for; any other settlement came before the deadline.
SettledInTime(s) == \A i \in Id :
    LET p == s.promises[i]
    IN  /\ p.state \in Settled <=> p.settledAt # None
        /\ p.state \in Settled =>
              \/ p.settledAt = p.timeoutAt /\ p.state = TimeoutState(p)
              \/ p.settledAt < p.timeoutAt /\ p.state # "rejected_timedout"
=============================================================================
