------------------------------- MODULE Client -------------------------------
(***************************************************************************)
(* The facade of resonate/src/resonate.rs over the wire: run, rpc, get and *)
(* schedule, the Promises and Schedules sub-clients (promises.rs), the     *)
(* registry (registry.rs), and what core.rs does at both ends of an        *)
(* execution.  Processes share one server.                                 *)
(*                                                                         *)
(* A request and its answer are one step, built and read by the operators  *)
(* of Wire.  Beside the ServerState, which holds no payloads, are those of *)
(* its promises and schedules.  What a function does is its own business:  *)
(* it returns a value or an error (TaskLifecycle and Context tell how).    *)
(* How the calls that share a handle overtake each other is told by        *)
(* Subscriptions; here an answer reaches its channel at once.              *)
(***************************************************************************)
EXTENDS Wire, Codec, FiniteSets, TLC

CONSTANTS
    Call,       \* the calls of the facade
    RootId,     \* the ids clients name
    Func,       \* names of functions
    Text,       \* what JSON values are made of
    Payload,    \* what functions return
    Settlements,\* <<state, Value>> of the settlements by clients
    Timestamp,  \* the firings of a schedule
    Deadline,   \* when every promise times out
    MaxPromises,\* bound: promises created
    MaxVersion, \* bound: a task is not acquired at this version or later
    MaxReleases \* bound: executions that end in a release

Json == Seq(Text) \ {<<>>}

ASSUME ClientAssumption ==
    /\ {"null", "empty", "b64", "object", "error", "failed"} \subseteq Text
    /\ RootId \subseteq Id
    /\ \A i \in RootId, t \in Timestamp : FiredId(i, t) \in Id
    /\ Payload \subseteq Json
    /\ \A x \in Settlements : x[1] \in SettleState /\ x[2] \subseteq Json
    /\ Pid \subseteq Addr
    /\ Deadline \in Nat /\ MaxPromises \in Nat /\ MaxVersion \in Nat /\ MaxReleases \in Nat

VARIABLES
    srv, clock,
    param, value,   \* per promise, its payloads as the server stores them
    schedules,      \* per name, the param of its promises, and whom it is for
    messages,       \* the messages on their way to the processes
    registry,       \* per process, the functions it knows
    subs,           \* per process and id: the entry of the subscriptions map
    call,           \* the calls: phase, process and id
    exec,           \* the executions under way
    started,        \* history: <<task, version>> of the executions so far
    releases,       \* history: how many were released
    asked,          \* history: per promise, the function its creator named
    outcome         \* history: per promise, what its settler meant

server == <<srv, param, value, schedules>>
client == <<registry, subs, call>>
work == <<exec, started, releases>>
vars == <<server, clock, messages, client, work, asked, outcome>>

TTL == 1
NoEntry == [state |-> "absent", value |-> Null]
Waiting == [state |-> "pending", value |-> Null]
NoSchedule == [func |-> "none", param |-> Null]
NotCalled == [phase |-> "idle", pid |-> NoPid, id |-> <<>>]
RootTags == [target |-> TRUE, timer |-> FALSE, delay |-> None]
Bare == [target |-> FALSE, timer |-> FALSE, delay |-> None]
TaskData(func) == <<"call", func>>

Init ==
    /\ srv = Empty /\ clock = 0
    /\ param = [i \in Id |-> Null] /\ value = [i \in Id |-> Null]
    /\ schedules = [i \in RootId |-> NoSchedule]
    /\ messages = {}
    /\ registry = [p \in Pid |-> {}]
    /\ subs = [p \in Pid |-> [i \in Id |-> NoEntry]]
    /\ call = [c \in Call |-> NotCalled]
    /\ exec = {} /\ started = {} /\ releases = 0
    /\ asked = [i \in Id |-> "none"] /\ outcome = [i \in Id |-> <<"none">>]

-----------------------------------------------------------------------------
(* A request, its answer, and the payloads they carry. *)

Reply(r) ==
    LET b == Prelude(srv, clock, r)
        a == Handled(b, clock, r)
    IN  [before |-> b, after |-> a, result |-> Result(r, AnswerTo(b, a, r))]

LastWriteWins(s, i, old, new) == new    \* faulty: a late settlement is stored
Stored(s, i, old, new) == IF s.promises[i].state = "pending" THEN new ELSE old

\* The server moves on to new, and a message was handled; payloads are stored with
\* the promise they are of.  An unblock message carries the record of its promise.
Become(new, params, values, handled) ==
    LET sent(kind) == {m \in new.outgoing : m.kind = kind}
        execute(m) == [kind |-> "execute", id |-> m.id, version |-> m.version]
        unblock(m) == [kind |-> "unblock", pid |-> m.addr, id |-> m.id,
                       state |-> m.state, value |-> values[m.id]]
    IN  /\ srv' = Clear(new)
        /\ param' = params /\ value' = values
        /\ messages' = (messages \ handled)
                          \cup {execute(m) : m \in sent("execute")}
                          \cup {unblock(m) : m \in sent("unblock")}

Serve(reply, handled) == Become(reply.after, param, value, handled)

\* A request that creates promise i with this param, on behalf of func.
ServeCreate(reply, i, json, func) ==
    LET new == ~HasPromise(reply.before, i)
    IN  /\ new => Cardinality({j \in Id : HasPromise(srv, j)}) < MaxPromises
        /\ Become(reply.after, IF new THEN [param EXCEPT ![i] = json] ELSE param, value, {})
        /\ asked' = IF new THEN [asked EXCEPT ![i] = func] ELSE asked

\* A request that settles promise i; if it does, meaning is what it is settled with.
ServeSettle(reply, i, json, meaning) ==
    LET b == reply.before
        ok == reply.result.ok
        stored == IF ok THEN Stored(b, i, value[i], json) ELSE value[i]
    IN  /\ Become(reply.after, param, [value EXCEPT ![i] = stored], {})
        /\ outcome' = IF ok /\ b.promises[i].state = "pending"
                      THEN [outcome EXCEPT ![i] = meaning] ELSE outcome

-----------------------------------------------------------------------------
(* Executions *)

\* The payload decode_promise makes of a param, as the server stores it.
Decoded(json) == Decode(DataOrNull(Deserialize(json)))

\* What process p executes for it: the function named, if p knows it.
Runs(p, data) ==
    CASE Head(data) # "call"         -> "garbled"
      [] data[2] \notin registry[p]  -> "none"
      [] OTHER                       -> data[2]

\* Process p acquired a task.  If its record does not decode nothing is executed,
\* and nothing released.
Launch(p, task, json) ==
    LET x == [pid |-> p, id |-> task.id, version |-> task.version,
              func |-> Runs(p, Decoded(json))]
        before == {y \in started : y.id = x.id /\ y.version = x.version}
    IN  /\ exec' = IF Decoded(json) = Garbled THEN exec ELSE exec \cup {x}
        /\ started' = started \cup {[pid |-> p, id |-> x.id, version |-> x.version,
                                     func |-> x.func, nth |-> Cardinality(before) + 1]}
        /\ UNCHANGED releases

\* on_message, in whichever process gets the message.
OnMessage(p, m) ==
    LET reply == Reply(TaskAcquireReq(m.id, m.version, p, TTL))
    IN  /\ m.kind = "execute" /\ srv.tasks[m.id].version < MaxVersion
        /\ Serve(reply, {m})
        /\ IF reply.result.ok
           THEN \A task \in reply.result.task : Launch(p, task, param[m.id])
           ELSE UNCHANGED work
        /\ UNCHANGED <<clock, schedules, client, asked, outcome>>

\* The function returns, and its task is fulfilled; if that fails, as if the task
\* had no function, it is released.
Return(x, state, json, meaning) ==
    LET reply == Reply(TaskFulfillReq(x.id, x.version, PromiseSettleReq(x.id, state)))
        failed == {[x EXCEPT !.func = "none"]}
    IN  /\ x.func \in Func
        /\ ServeSettle(reply, x.id, Serialize({Encode(json)}), meaning)
        /\ exec' = (exec \ {x}) \cup IF reply.result.ok THEN {} ELSE failed
        /\ UNCHANGED <<clock, schedules, client, started, releases, asked>>

ReturnOk(x, v) == Return(x, "resolved", v, <<"ok">> \o v)
ReturnErr(x) == Return(x, "rejected", EncodeError("failed"), <<"err", "failed">>)

ReleaseTask(x) ==
    /\ x.func \notin Func /\ releases < MaxReleases
    /\ Serve(Reply(TaskReleaseReq(x.id, x.version)), {})
    /\ exec' = exec \ {x} /\ releases' = releases + 1
    /\ UNCHANGED <<clock, schedules, client, started, asked, outcome>>

-----------------------------------------------------------------------------
(* run, rpc, get, and Promises.create *)

\* register, under the lock of the registry: a name is taken once.
Register(p, f) ==
    /\ f \notin registry[p]
    /\ registry' = [registry EXCEPT ![p] = @ \cup {f}]
    /\ UNCHANGED <<server, clock, messages, subs, call, work, asked, outcome>>

CreateReq(id, tags) == PromiseCreateReq(id, Deadline, tags)
Param(func) == Serialize({Encode(TaskData(func))})

\* The call of an id that fails its checks ends before anything is sent; one the
\* server answered goes on to its handle.
Begins(c, p, id) == call[c] = NotCalled /\ call' =
    [call EXCEPT ![c] = [phase |-> "look", pid |-> p, id |-> id]]

\* Faulty: whatever task.create returns is executed.
StartAny(task) == TRUE
Starts(task) == task.state = "acquired"

RunCall(c, p, id, f) ==
    LET reply == Reply(TaskCreateReq(p, TTL, CreateReq(id, RootTags)))
        \* none after a conflict
        acquired == {task \in reply.result.task : Starts(task)}
    IN  /\ f \in registry[p] /\ ValidRootId(id)
        /\ Begins(c, p, id)
        /\ ServeCreate(reply, id, Param(f), f)
        /\ IF acquired = {} THEN UNCHANGED work
           ELSE \A task \in acquired : Launch(p, task, param'[id])
        /\ UNCHANGED <<clock, schedules, registry, subs, outcome>>

RpcCall(c, p, id, f) ==
    /\ ValidRootId(id)
    /\ Begins(c, p, id)
    /\ ServeCreate(Reply(CreateReq(id, RootTags)), id, Param(f), f)
    /\ UNCHANGED <<clock, schedules, registry, subs, work, outcome>>

GetCall(c, p, id) ==
    /\ Begins(c, p, id)
    /\ UNCHANGED <<server, clock, messages, registry, subs, work, asked, outcome>>

\* Promises.create: no function, no target, and the user's param.
Create(id) ==
    /\ ServeCreate(Reply(CreateReq(id, Bare)), id, Serialize(EncodeValue({})), "none")
    /\ UNCHANGED <<clock, schedules, client, work, outcome>>

-----------------------------------------------------------------------------
(* Handles *)

\* The entry for a record the server answered with, or sent.
EntryOf(state, json) == [state |-> state, value |-> ValueToWire(Deserialize(json))]

\* A channel without receivers refuses a value.
Received(p, i) ==
    \E c \in Call : call[c] = [phase |-> "held", pid |-> p, id |-> i]

\* promise.register_listener for process p, and what becomes of the entry.
Listen(p, i, reply, received) ==
    LET state == reply.after.promises[i].state
        settled == reply.result.ok /\ state # "pending"
    IN  /\ Serve(reply, {})
        /\ subs' = [subs EXCEPT ![p][i] =
                       CASE settled /\ received -> EntryOf(state, value[i])
                         [] @ = NoEntry         -> Waiting
                         [] OTHER               -> @]
        /\ UNCHANGED <<clock, schedules, registry, work, asked, outcome>>

\* create_handle_from_id: the entry there is, or a new one the server is asked for.
\* A missing promise is an error.
Handle(c) ==
    LET p == call[c].pid
        i == call[c].id
        reply == Reply(ListenerReq(i, p))
        phase == IF subs[p][i] = NoEntry /\ ~reply.result.ok THEN "failed" ELSE "held"
    IN  /\ call[c].phase = "look"
        /\ call' = [call EXCEPT ![c].phase = phase]
        /\ IF subs[p][i] = NoEntry THEN Listen(p, i, reply, TRUE)
           ELSE UNCHANGED <<server, clock, messages, registry, subs, work, asked, outcome>>

\* The loop that asks again.
Refresh(p, i) ==
    /\ subs[p][i] = Waiting
    /\ Listen(p, i, Reply(ListenerReq(i, p)), Received(p, i))
    /\ UNCHANGED call

\* An unblock message.
Unblock(m) ==
    /\ m.kind = "unblock"
    /\ messages' = messages \ {m}
    /\ subs' = [subs EXCEPT ![m.pid][m.id] =
                   IF @ = NoEntry \/ Received(m.pid, m.id)
                   THEN EntryOf(m.state, m.value) ELSE @]
    /\ UNCHANGED <<server, clock, registry, call, work, asked, outcome>>

-----------------------------------------------------------------------------
(* Promises.resolve, reject and cancel; schedules; the server's own steps *)

\* v is the data of the Value handed in, if it has one.
Meaning(state, json) ==
    CASE state = "resolved" -> <<"ok">> \o json
      [] state = "rejected" -> IF Head(json) = "error" THEN <<"err">> \o Tail(json)
                               ELSE <<"err", "unknown">> \o json
      [] OTHER              -> Canceled

SettleCall(id, state, v) ==
    /\ ServeSettle(Reply(PromiseSettleReq(id, state)), id, Serialize(EncodeValue(v)),
                   Meaning(state, DataOrNull(v)))
    /\ UNCHANGED <<clock, schedules, client, work, asked>>

\* Faulty: the builder encodes what Schedules.create encodes again.
EncodedParam(func) == {Encode(TaskData(func))}
ScheduleParam(func) == {TaskData(func)}

\* The server keeps the first schedule of a name, and none without a target.
ScheduleCreate(name, new, target) ==
    schedules' = IF target /\ schedules[name] = NoSchedule
                 THEN [schedules EXCEPT ![name] = new] ELSE schedules

\* Schedules.create takes a Value and encodes it.
SchedulesCreate(name, f, v) ==
    ScheduleCreate(name, [func |-> f, param |-> Serialize(EncodeValue(v))], TRUE)

\* resonate.schedule, whose builder finds the target.
ScheduleCall(name, f) ==
    /\ ValidRootId(name)
    /\ SchedulesCreate(name, f, ScheduleParam(f))
    /\ UNCHANGED <<srv, param, value, clock, messages, client, work, asked, outcome>>

ScheduleDelete(name) ==
    /\ schedules[name] # NoSchedule
    /\ schedules' = [schedules EXCEPT ![name] = NoSchedule]
    /\ UNCHANGED <<srv, param, value, clock, messages, client, work, asked, outcome>>

\* The server fires a schedule (the local one never does).
Fire(name, t) ==
    LET id == FiredId(name, t)
    IN  /\ schedules[name] # NoSchedule /\ ~HasPromise(srv, id)
        /\ ServeCreate(Reply(CreateReq(id, RootTags)), id, schedules[name].param, schedules[name].func)
        /\ UNCHANGED <<clock, schedules, client, work, outcome>>

\* The loop of the server, for all that is due, and time.
TickLoop ==
    /\ Become(Tick(srv, clock), param, value, {})
    /\ UNCHANGED <<clock, schedules, client, work, asked, outcome>>

Advance ==
    /\ clock < Deadline /\ clock' = clock + 1
    /\ UNCHANGED <<server, messages, client, work, asked, outcome>>

Next ==
    \/ \E p \in Pid, f \in Func : Register(p, f)
    \/ \E c \in Call, p \in Pid, i \in RootId, f \in Func :
          RunCall(c, p, i, f) \/ RpcCall(c, p, i, f)
    \/ \E c \in Call, p \in Pid, i \in Id : GetCall(c, p, i)
    \/ \E c \in Call : Handle(c)
    \/ \E p \in Pid, m \in messages : OnMessage(p, m)
    \/ \E m \in messages : Unblock(m)
    \/ \E x \in exec :
          ReturnErr(x) \/ ReleaseTask(x) \/ \E v \in Payload : ReturnOk(x, v)
    \/ \E p \in Pid, i \in Id : Refresh(p, i)
    \/ \E i \in RootId : Create(i) \/ ScheduleDelete(i)
    \/ \E i \in RootId, f \in Func : ScheduleCall(i, f)
    \/ \E i \in RootId, t \in Timestamp : Fire(i, t)
    \/ \E i \in Id, x \in Settlements : SettleCall(i, x[1], x[2])
    \/ TickLoop \/ Advance

Spec == Init /\ [][Next]_vars

-----------------------------------------------------------------------------

\* No execution starts without the lease of its task, under the version the server
\* has, and none starts twice for one lease, whichever of run, a message and a
\* redelivered message wins ("the caller must ensure the task is already in
\* acquired state", execute_until_blocked).
StartsHoldLease ==
    [][\A x \in started' \ started :
          /\ HoldsLease(srv', x.id, x.version) /\ srv'.tasks[x.id].pid = x.pid
          /\ x.nth = 1]_vars

\* Whoever created a promise, by run, rpc or schedule, and whichever process gets
\* its task: the param decodes to the function the creator named, and that one is
\* executed, or none if the process does not know it ("Encoding here as well would
\* double-wrap the param and leave workers unable to decode the fired promise").
RunsWhatWasAsked == \A x \in started : x.func \in {asked[x.id], "none"}

\* What a handle's result returns is what its promise was settled with, by the
\* function or by a client, or its timeout; the same for every handle, whether it
\* heard by an answer, a message or the refresh loop.
ResultIsTheOutcome ==
    \A p \in Pid, i \in Id :
        subs[p][i] \notin {NoEntry, Waiting} =>
            DecodeResult(subs[p][i].state, subs[p][i].value) =
                IF srv.promises[i].state = "rejected_timedout" THEN <<"timeout">>
                ELSE outcome[i]
=============================================================================
