# Verification of the Resonate Rust SDK

TLA+ models of the SDK in this repository (`resonate/src`, `resonate-postgres/src`),
the TLC instances that check them, and proofs for TLAPS. The definitions are
translated from the source; the comment on each operator names the function it
stands for, and `PROJECT.json` gives the lines. File names below are relative to
`resonate/src` unless they say otherwise.

    tlc -workers 2 -config LocalNetwork_timed.cfg MC_LocalNetwork.tla
    tlapm LocalNetwork_proofs.tla

## 1. The system

A client creates a *durable promise* on a server, and with it, if the promise
has an address, a *task*. The server announces the task to the workers at that
address. A worker acquires it under a lease, runs the workflow function from
the start, and turns each call of the function into a child promise. A child
that runs in the worker (`ctx.run`) is executed on the spot, one that runs
elsewhere (`ctx.rpc`, `ctx.sleep`, `ctx.promise`) settles without it. When the
function returns, the worker either fulfills the task with the result, or
suspends it on the remote children that are still to settle; their settlement
announces it again, and the function is replayed. Clients hear of the outcome by
an unblock message.

| Component (source) | State | Operations | Correct when |
|---|---|---|---|
| Server state (`network.rs`, `ServerState`) | promises, tasks, deadlines, retry and lease timers, outgoing batch | promise create / settle / register listener; task create / acquire / release / fulfill / suspend / fence / heartbeat; tick | the tables agree, one settlement, no lost wake-up, versions fence; to its clients, a store of durable promises |
| Local network (`network.rs`, `LocalNetwork`) | mutex, loop, callbacks | send, recv, start, stop | stale clock readings do no harm; what is due happens without requests; stop is final |
| Sender, transport (`send.rs`, `transport.rs`) | none | one method per request; status and records to result | what a caller is told is so, and an error means nothing was done |
| Executor (`core.rs`) | the executions under way | on_message, execute_until_blocked, release | one execution per version, no work left behind, sleeps not cut short, progress after crashes |
| Effects (`effects.rs`) | cache of promise records | create, settle, absorb | writes are fenced |
| Sequencer (`sequencing.rs`) | a chain of slots | claim, create, await id | the created promises are a prefix of the calls, and nobody waits forever |
| Context (`context.rs`, `futures.rs`, `durable.rs`, `ids.rs`) | spawned handles, remote todos, sequence counter | run, rpc, promise, sleep, detached, spawn, flush, collect | nothing spawned is lost at any depth, the task waits for its remote work and no other, suspension is never an outcome, ids are distinct and extend what they declare |
| Heartbeat (`heartbeat.rs`) | table of tasks, loop handle | start, stop, shutdown, the loop | every lease under execution is renewed and no other, no loop is leaked |
| Facade (`resonate.rs`, `promises.rs`, `registry.rs`) | registry, sub-clients | register, run, rpc, get, schedule, promises.*, schedules.*, stop | the function that was asked for is executed, and only under a lease |
| Handles (`resonate.rs`, `handle.rs`) | subscriptions map of watch channels | create, unblock, refresh, result | a handle shows the settlement, decoded as it was meant, and shows it in the end |
| Codec (`codec.rs`, `types.rs`) | none | encode, decode, encode_error | as many layers are taken off as were put on |
| HTTP network (`http_network.rs`) | event stream and its buffer | send, recv, start, stop | events reach the callback once each, in order |
| Postgres network (`resonate-postgres`) | shared client, pump, listen connection | send, dequeue, listen, start, stop | queues are served, no row is forgotten between two queries |
| Schedules (`network.rs`, `resonate.rs`) | records | create, get, delete | a fired schedule executes the scheduled function |
| Options, dependencies, errors, macros | plain data, generated code | - | - |

How they interact: handles, executor, effects and heartbeat call the server
through the sender, each call one request and one answer; the server calls back
through the network with execute messages (to the executor) and unblock messages
(to the handles). Context and sequencer share the effects of one execution. The
heartbeat table and the subscriptions map are shared by all executions and
handles of a process. `Resonate::new` picks a network, registers one callback and
spawns its start; `Resonate::stop` stops it.

What is hard: a worker that is slow rather than dead and works on after its
lease lapsed; requests that work with an old clock reading; promises that expire
in one batch with the tasks that await them; a task suspending while what it
awaits settles; requests that fail after they took effect; futures dropped
between two steps; locks taken twice where once was meant; messages lost or
late; a stop that meets tasks not yet started. `PROJECT.json` lists these under
`hazards`, at their lines.

## 2. Modules

| Module | Models | Composed of |
|---|---|---|
| `ServerState` | every request handler and the tick, as operators from server state to server state | - |
| `DurablePromises` | what the server promises its clients: the abstract specification | - |
| `LocalNetwork` | the server behind its lock: requests in any order, clock readings, the loop | `ServerState`, `DurablePromises` |
| `Wire` | requests, the prelude and dispatch of `apply`, answers, what the sender makes of them | `ServerState` |
| `WireContract` | what a sender's result says of the server | `LocalNetwork`, `Wire` |
| `TaskLifecycle` | executions of a workflow and its children, crashes, lost requests, slow workers | `ServerState` |
| `Subscriptions` | handles, unblock messages, the refresh loop, restarts | `ServerState` |
| `Lineage` | ids: joining, origins, detached ids | - |
| `Context` | the tree of functions of one task: nested, inline, spawned, detached ops, flush, todos, panics, replays | `Lineage` |
| `CreationSequencer` | the chain of slots, spawned and inline ops, flush, attempts | - |
| `Heartbeat` | the table and the loop, split at their locks | - |
| `Codec` | the layers of a payload, root ids, ids of fired schedules | - |
| `Client` | run, rpc, get, schedules, sub-clients, handles and executions of several processes, with payloads | `Wire`, `Codec` |
| `Network` | the life a process gives any transport: new, recv, start, stop | - |
| `HttpNetwork`, `PostgresNetwork` | the two remote transports | `Network` |
| `Networks` | a process with one of the three transports | `HttpNetwork`, `PostgresNetwork` |
| `MC_*` | instances for TLC where a `.cfg` cannot express a constant | |
| `*_proofs` | theorems | the module they are about |

**ServerState.** A handler in the code mutates the maps of `ServerState` and
pushes messages. Here it is an operator `Handler(s, now, ...)` that returns the
next state, so that `enqueue_settle`, `resume_awaiters` and `notify_subscribers`
compose as the calls do (`Propagate`). Maps are total functions with `"absent"`
for a missing key. Payloads are in `Client`; searches and halt (no operation
enters the state) are left out.

**LocalNetwork.** One action per request kind. `send` reads the clock and then
waits for the lock, so a step may work with any time up to `MaxLag` behind the
clock. Requests come from anyone, in any order, with versions granted at any
time: the worker that lost its lease is part of every behaviour. The history
variable `grants` records the versions under which a task was acquired.

**DurablePromises** knows promises, time and what listeners are told, and no
tasks: a step creates, settles or registers with at most one promise, lets others
run into their deadlines, and tells the listeners of whatever settles.
`LocalNetwork` instantiates it with `Seen` and `Told` as the mapping and claims
`StoresPromises == Promises!Spec`. The listeners of a promise, the batch and the
clock are read off the server state; tasks, timers and awaiters are what the
implementation adds.

**Wire.** `Prelude` expires the promises a request names, one after the other
(`ExpireInTurn`), `Handled` is
the dispatch, `AnswerTo` the status and records the handler answers with,
`Result` what the method of the `Sender` returns, `Receive` the checks of
`Transport::send` before it. A record an answer may lack is a set of at most one
element. `WireContract` evaluates this chain for every request in every state
that `LocalNetwork` reaches.

**TaskLifecycle.** An execution is a record with a phase (`run`, `settle`,
`release`), the version it acquired, its cache (`known`, `done`) and its place in
the replay. Its actions are the awaits of `execute_until_blocked`: `Receive`
(acquire), `Call` (`create_promise`, from the cache or fenced), `SettleChild`,
`Fulfill`, `Suspend` (with the redirect), `ReleaseTask`. `Absorb` is the preload
that every fenced answer carries. Request and answer are one step; overtaking
happens before it. Workflows pass errors on with `?`, so that a request of an
awaited call that fails, be it lost or refused by the fence, ends the function
with an error, which becomes the outcome of the root; the failed creation of a
spawned call releases the task. Faults are counted: a crash, a panic, a message or
an acquisition that no execution comes of (`missed`), a request or answer of an
execution that is lost, and a loop turn that ends the lease of a live worker
(`slow`). Retry and lease timers are not timed, each may run out at any turn;
heartbeats are therefore not needed. Local children are leaves. The deadline of
the root never passes; the deadline of a sleep is the one tick of the clock.

**Subscriptions.** `subs` holds, for each id, no entry, an entry without a value
or an entry with the outcome. A call is in phase `register` (entry made, server
not told), `publish` (settled answer in hand), or `held`. `Send` refuses a value
when nobody holds a receiver, as `tokio::sync::watch` does. Mishaps are counted:
losses, dropped handles, restarts under the same address, calls for promises
that do not exist.

**Context.** A program is a tree of ops: who calls an op, its kind (`local`,
`rpc`, `promise`, `sleep`, `detached`), spawned or inline, joined before the
return, whether its arguments serialize, and which functions ignore errors.
`status` is how far each op of the attempt is: issued (`create`), executing
(`body`), flushing, settling, and the ways it ends. `result` is what its awaiter
gets, `todos` what `remote_todos` and `Outcome::Suspended` hold. `Issue` claims a
slot, `Refuse` is the error of arguments that do not serialize, which takes a
number and no slot; `Create` and `Abort` are the end of `CreationSlot::create`,
`Return` the end of the function, `FailFlush`, `Suspend` and `Finish` the three
ways out of `collect_remote_todos`, `Settle` the settlement. `Panic` unwinds to
the background task that runs the function and drops all below; requests of what
is dropped may still arrive. `NewAttempt` is a release, a wake-up or a redirect.
The history `givenUp` records the ops whose failure did not fail the task.
`IdOf` and `Tags` are the ids and lineage tags of the ops, from `Lineage`, where
an id is a sequence of segments and separators and a hash is taken to be
injective. What is above a function is the least set that has it and the caller of
each of its members. `LineageAssumption` says of the tasks a workflow may run as that
an id is hashed before a task has the hash in its id: no task runs as the detached
call of an id below its own. Deadlines do not pass, and an inline op is awaited where it is made.

**CreationSequencer.** A slot is in flight, created, aborted or closed. `Call`
waits for the predecessor, `Answer` and `Fail` are the end of the request,
which reaches the server with `Arrive` or is lost with `Lose`, also after the
slot failed. `Return`, `Panic` and `Flush` are the end of the function,
`Retry` the next attempt with a new sequencer on the same server.

**Heartbeat.** `start` is `StartInsert` and `StartLoop`, `stop` is `StopRemove`
and `StopLoop`, `shutdown` is `ShutdownClear` and `ShutdownLoop`: the two locks
are never held together.

**Codec, Client.** A JSON value is a sequence of its layers: `Encode` puts one
on, `Decode` takes one off, and what is not decodable is `Garbled`. In `Client`,
processes share one server; each request is built, handled and read by the
operators of `Wire`, and `param`, `value` and `schedules` hold the payloads
beside it. `RunCall` starts an execution when the task comes back acquired,
`OnMessage` when the acquisition succeeded. The local server stores schedules
and never fires them; `Fire` is what the server outside the repository does.
`asked` and `outcome` record what creators and settlers meant.

**Network, HttpNetwork, PostgresNetwork, Networks.** `Network` has what the
transports share: the tasks `new` spawned (`recv`, `start`, and the storing of
the handle), and the two halves of `stop`. `HttpNetwork` has the stream of
events cut into chunks anywhere, with characters of several bytes; `Parse` is
the buffer of `stream_sse`. `PostgresNetwork` has the three lanes of `try_join!`,
each asking, answered or done, rows in flight between the two, the client that
pump and requests share and that is replaced only when found closed, the permit
of `Notify`, and the listener. `Networks` adds the local transport's tick and
batches and lets a process pick any of the three.

## 3. Runs

Every run but the two marked *violated* passes.

| Run | Question | Bounds |
|---|---|---|
| `local_timed` | tables agree, deadlines, wake-ups, fencing, announcements, batch order; the answers are true; the server refines `DurablePromises` | 2 promises, a deferred sleep and a bare promise, clock to its bound, readings one tick old, a ttl of 0 and one that saturates |
| `local_loop` | what the loop brings about alone | 2 promises with addresses, a deadline in reach and one out of reach, one tick of the clock, a ttl of 0 (which acquire lifts to 1) |
| `context` | ids and lineage, structured concurrency, the task waits for its work, suspension has a cause, the workflow ends | eight workflows of four ops, nested to depth three, as three kinds of task, 2 lost requests or panics |
| `sequencer` | prefix, ids, lost spawns, the flush ends | 3 ops, 2 attempts |
| `heartbeat` | tracked means executing, entries kept, loop not leaked | 3 executions, 2 tasks, shutdown |
| `heartbeat_race` | *violated*: `LoopWhileTracked` | 2 executions |
| `lifecycle` | one execution per version, nothing left behind, sleeps, fenced writes | a sleep, a local and a remote child, 2 executions, 2 faults of any kind |
| `lifecycle_crash` | the root settles although workers crash, functions panic and messages are missed | a local and a remote child, 2 such faults |
| `lifecycle_slow` | *violated*: `NoSplitBrainWrite` | a local child, one lapsed lease |
| `subscriptions` | handles agree, no silent wait, handles settle | 1 promise, 3 callers, 2 mishaps |
| `client` | what was asked is executed, under a lease; handles return what the promise was settled with | 2 processes, 2 calls, 1 promise and the firing of a schedule, deadline 2, 1 release |
| `networks` | stop is final, the stream is faithful, rows are accounted for, queues are served | 3 events of 2 kinds, batches of 1 row, 2 unblock and 2 execute rows, 2 faults |

Why these bounds are enough to be interesting. Two promises let a task await
another one that expires in the same batch; that several awaited promises change
nothing about wake-ups is proved (`WakeupNeverLost` is for any set of promises).
Four ops give three levels of functions below the root, or two levels with a
sibling that runs beside them; each workflow is chosen for one way that todos,
errors or numbers travel. Two executions are a stale and a current holder; a
third would be a second stale one. A version bound of 2 allows a lease to lapse,
to be taken over, and to lapse again. Three ops are a predecessor, the op, and a
successor; two attempts are a failed and a replayed one. Handles of different
promises share nothing but the order in which the refresh loop asks. Two calls
are enough for two of them to meet at one id, in one process or in two. There is
one function, which a process knows or not; that creators who name different ones
get each its own is `AskedIsRun`, proved for any set of functions. Two
faults let the pump's connection die while it is already recovering, and a
dequeue limit of one makes every batch of a busy queue a full one. The counters
(`MaxVersion`, `MaxFaults`, `MaxClock`, `MaxMishaps`, `MaxEvents`, `MaxPromises`,
`MaxReleases`, `MaxQueue`, `MaxExecutes`, `MaxBatches`, attempts) are bounds of the
instances only; where they stop the system the configuration says
`CHECK_DEADLOCK FALSE`. Symmetry is used in runs without liveness only.

The type invariants of `Heartbeat`, `TaskLifecycle`, `Context`, `Subscriptions`
and `CreationSequencer` document the state in their modules; no run spends time
on them, `local_timed` checks the one the others' servers share.

### Fairness

* `LocalNetwork`: time passes and the loop turns (`tokio::time::interval`); no
  request is promised.
* `TaskLifecycle`: executions run on, a timer that runs runs out, and a message
  is handled. The last is strong fairness: tokio starts a task for each message,
  while the model has a fixed number of executions that may be busy on and off.
  Progress is checked with crashes, panics and missed messages. With slow workers,
  or executions whose requests are lost, it does not hold of this server: `task_release` compares no version,
  so a stale worker that fails releases the lease of the current one, which then
  fails in turn, and so on.
* `Context`: functions and background tasks run on, remote promises settle, and a
  task that is released or woken is taken up.
* `CreationSequencer`: the function runs on, spawned tasks are polled, and a
  request ends with an answer or an error. Nothing polls an inline op but its
  `await`.
* `Subscriptions`: the refresh loop turns and time passes; nothing is assumed
  of unblock messages.
* `Networks`: the spawned `start` runs; the pump's tick comes, the database
  answers a query on a live connection, each lane of `try_join!` is polled, and a
  query on a dead connection fails. Nothing is assumed of notifications, and
  nothing of the other two transports.

### Where the code does something else than it says

1. **Lapsed leases** (`lifecycle_slow`). `effects.rs:13-17` promises that a worker
   whose lease lapsed cannot clobber promise state. Child promises are fenced;
   the root is settled by `task.fulfill`, and the local server accepts it from
   any worker while the task is acquired by any (`network.rs:787`).
2. **Heartbeat race** (`heartbeat_race`). `stop` decides under one lock and
   aborts under another; a `start` in between is left without a loop.

Three more properties are stated in the modules, do not hold, and can be tried:

* `SpawnedSettled` of `TaskLifecycle`: `context.rs:772` drops the error of the
  settlement, the flush takes the child for settled (`context.rs:516-518`), the
  root is fulfilled, and the child stays pending. With a spawned local child and
  `Faults = {"lost"}` as an invariant of `lifecycle_crash`.
* `CreationFailureRetried` of `Context`: `context.rs:497-500` says that a
  fire-and-forget creation that fails makes the task be released and retried. In
  a workflow awaited inline the flush error becomes the error of the call
  (`context.rs:846`), and the root is rejected for good. As an invariant of
  `Context.cfg`.
* `UnblocksNotStarved` of `PostgresNetwork`: "a steady stream of executes cannot
  starve unblocks" (`resonate-postgres/src/lib.rs:288-289`). It cannot starve the
  unblocks of the drain under way; but the drain only ends when every lane had a
  batch that is not full, and the unblock lane, once done, is not asked again
  before. With `Steady = TRUE`, `Kinds = {"postgres"}`, `MaxFaults = 0`.

Seen while modelling:

* An inline op claims its slot when its future is made and moves only when it is
  polled. While a function holds one and awaits a later op, that op waits
  (`sequencing.rs:116-117` says no successor can deadlock).
* What is said above of `context.rs:846` holds of any request of an awaited call:
  lost, or refused because the lease lapsed, it is an error to the function, and
  the root may be rejected for it. The error also ends each function it is passed to, and
  cuts off the calls after that function which an earlier attempt had made. In the
  workflow `Passing` of `MC_Context`, `g` resolves what it can in one attempt and is
  left with a todo; in the next a request below `g` is lost, `g` fails, its caller
  with it, and the remote call that was made after `g` stays pending below a settled
  promise. `StructuredConcurrency` says which ops these may be (`Cut`): the failed op,
  the functions its failure ends, the calls after them, and what is below.
* A panic in a spawned child is logged and the child left pending, where a panic
  of the root releases the task (`context.rs:529`, `core.rs:380`).
* `create_handle_from_id` takes an existing entry for a registered listener. After
  a `get` of a missing promise failed, the next `get` of that id succeeds and
  waits; after a handle was dropped before its outcome came, the next `get` of the
  settled promise waits for the refresh loop. `NoSilentWait` states what holds
  short of such a mishap, `HandleSettles` that the loop repairs it once the
  promise exists.
* `schedule` of a name that exists returns `Ok` while the server keeps the first.
* A task whose record does not decode stays acquired until its lease lapses, and
  so again each time (`core.rs`); a task acquired by a process that does not know
  its function is released and announced again, to anyone.
* A suspend that is answered with a redirect leaves the awaiters it registered.
* A heartbeat that names several tasks may renew some of them only.
* An event stream cut inside a character loses that chunk (`StreamFaithful` holds
  up to there).
* "Delivery is at-least-once" (`resonate-postgres`) is true of executes, which the
  server announces again. Unblock rows are gone once dequeued; what an error drops
  only the refresh loop makes good.
* A Postgres `send` that looked at `stopped` before `stop` may connect a client
  after it. A `stop` that comes before the spawned `start` and `recv` of `new`
  have finished leaves the loop of a local or HTTP network running.
* `Resonate::local` says "no heartbeat"; it gets one, for it passes a network.
* `HttpNetwork::send` is documented as posting to `/api` and posts to `/`.
* The period of the heartbeat loop is `ttl / 2`, and tokio's interval panics on a
  period of zero: a ttl below 2 ms ends the loop as it starts (`resonate.rs:185`).
* `insert_monotonic` reads an entry and then inserts, although "a terminal cache
  entry is never overwritten" (`effects.rs:51`): two answers may overtake each
  other between the two. An execution then waits for a settled promise, and its
  suspension is answered with a redirect.
* Correlation ids are milliseconds, so two requests may share one.

## 4. Proofs

All theorems hold for every value of the constants that satisfies the named
assumptions (`ServerAssumption`, `NetworkAssumption`, `LifecycleAssumption`,
`SubscriptionsAssumption`, `ContextAssumption`, `LineageAssumption`,
`SequencerAssumption`, `HeartbeatAssumption`, `KindsAssumption`,
`PostgresAssumption`, `HttpAssumption`, `ClientAssumption`): any set of promises,
workers, addresses, workflows, ops, executions, events, rows, calls, functions,
values and settlements, any deadline, ttl, clock lag and bound. Beside the shape of
the constants (`ContextAssumption`: that a workflow is a tree whose ops are numbered
in the order of the calls; `ClientAssumption`: that values are JSON values, that a
settlement names a settled state, that a schedule makes ids, and that a process is an
address) they assume two things. `LifecycleAssumption` has that no workflow calls
itself, for the id of a child extends the id of its parent. `LineageAssumption` is
explained above.

**ServerState_proofs** holds the lemmas on the server. `Inv(s)` is the conjunction
of the state predicates: shape, `AbsentFresh` (a task that does not exist has
version 0, so that its first version is fresh), `TasksFollowPromises`,
`TimeoutsScheduled`, `AwaitersLive`, `SuspendedAwaitsPending`, `SettledInTime`.
None of them is preserved alone: that a settlement leaves no suspended task
behind needs `AwaitersLive`, that a fulfilled task has no timer needs the
agreement of task and promise. `Evolves(s, t)` is what a step may do to the past:
settlements stay, versions do not go back, and the *rank* of a task
(`2 * version` while it is absent or pending, `2 * version + 1` once it was
acquired under that version) does not fall. For each handler one lemma shows
`Inv(s) => Inv(t) /\ Evolves(s, t)`, built from one lemma per helper
(`EnqueueFacts`, `ResumeFacts`, `NotifyFacts`, `PropagateFacts`). A second lemma per
handler (`...Effect`) says what it does to each promise, which it may open, close,
let lapse, register with or keep, and what it tells the listeners; a third what it
announces.

**LocalNetwork_proofs** lifts them to `IInv`, which adds that every granted
version lies behind the rank of its task. Hence `TypeCorrect`, `TablesAgree`
(`Consistent`, from the lemmas on its three parts), `WakeupNeverLost`,
`DeadlinesHold`, `FirstSettlementStays` and `VersionsFence`.

* `ImplementsPromises` is the refinement `StoresPromises`. `Handles` says that a
  handler touches one promise at most; with the prelude, which lets others lapse,
  this is `Answers`, shown once per request kind. Each step of the implementation is
  then one `Request` of `DurablePromises`, an `Advance`, or a stutter.
* `TasksAreAnnounced` and `FulfilledNeverWoken` are the action properties on the
  outgoing batch. The second follows the tick through its phases: what is announced
  in one of them is ready and stays so in the later ones.
* `ResultsAreTrue` is `AnswersAreTrue` of `WireContract`. One lemma shows that the
  prelude, for any sequence of promises, leaves none of them due (`InTurn`); then each
  request kind has one that reads the status and the record off the handler's cases
  and shows that what the sender returns is so (`Truthful`). A response to another
  request is refused by `Transport::send` before anything is read from it.

**TaskLifecycle_proofs** proves `OneExecutionPerVersion`, `NoRemoteLeftBehind`,
`SleepNotCutShort` and `FencedWrites`. On the server's side the invariant has
`Sound`: promises are as their parents create them, local children have neither task
nor awaiter, sleeps end at their deadlines. On the worker's side, `Fits` is what an
execution may rely on, however stale it is. Its version lies behind the rank of its
task, so that a version granted later is another one, and a fenced request under it
is refused. A replay that goes on without todos has passed no remote child that is
still to settle (`PassedOver`); this is why fulfilling leaves nothing behind although
the children were created in different runs. `Follows` is what a step of anyone else
leaves of these facts.

**Subscriptions_proofs** shows that a handle never shows anything but the
settlement of its promise (`HandlesTruthful`). An unblock message is handled long
after the server sent it, and an answer is published in a second critical
section, so the invariant follows the outcome on its way: every unblock message,
every call about to publish and the answer the refresh loop holds carry the state
the server has (`MessagesTrue`, `CallsTrue`, `RefreshTrue`). That they are true
when they arise, and that no listener goes away without a message, is shown of each
server operator (`Serves`); that they stay true is `Evolves`, which lets no
settlement change. `NobodyWaitsInSilence` (`NoSilentWait`) strengthens the property
with the receiver: until the first mishap, an entry that waits has somebody who
receives from it, without whom `send` would drop the value (`Attended`).

**Context_proofs** has the tree first: what is above an op, by induction on the
number of the op, as the search for a least counterexample. `Attempt` is what holds
while a task runs: what is under way was called by a function that is not over
(`CallersOpen`), a function that returned `Error::Suspended` has a todo or a spawned op
that has one (`FlushHasCause`), and each remote op that is to settle is among the todos
of something above it that will hand them on, or will fail (`TodosKept`). Hence
`SuspensionsAreCaused` and `NoWorkIsForgotten`. `ConcurrencyIsStructured` needs to
know what attempts leave to one another, for a promise may be created in one and its
caller settled in another. `History` holds across attempts: an op was created after
calls that cannot fail another time (`Prepared`), a function that resolved fails in no
other attempt (`ResolvedFirm`), one that was rejected has a culprit that fails always
or an op that was given up (`RejectedBlamed`). `Record` is the same within one.
`LineageIsSound` (`LineageHolds`) is about ids: `JoinId` forgets nothing, keeps the
origin, and extends what it joins; two calls of one function have different numbers;
and a detached id, which is a hash below the origin, is none of the others. The last
is where `LineageAssumption` is needed.

**Worker_proofs** is about two components, `CreationSequencer` and `Heartbeat`. It strengthens the prefix property of the first with what links
the slots to the server: a request on its way has all its predecessors there, in this
attempt or an earlier one (`RequestsInOrder`); only an inline op, or an op of an
attempt that panicked, is dropped (`DroppedInline`); and an attempt that finished
has created everything it spawned (`FinishedCreated`). It strengthens
`TrackedIsExecuting` and `LoopEndsWithWork` of the second with `LoopNeeded`: the loop
runs only while some execution is between the beginning of `start` and the end of
`stop`. `EntriesDoNotInterfere` (`EntryKept`) needs `OwnVersion`: no two executions
have one task under one version, so that a `stop` removes its own entry only.

**Networks_proofs** proves that stop is final (`StopHolds`) for any events, rows
and bounds. `FInv` tells the transports apart: what belongs to one that was not
picked never moves (`Bystanders`); from the first half of stop on, the tasks of
the one picked only end (`Stopping`), and after the second half no callback is
there to be called (`Silence`). The weakening by `hasty` is needed: a `start` that
runs after stop launches a task nobody aborts. `RowsAccounted`
(`UnblocksAccounted`) adds where the rows are: under way only between a query and its
answer, as long as nothing failed (`Orderly`). Each step then moves rows from one
place to the next, and the places told one after the other stay the same sequence.
`StreamsAreFaithful` (`StreamFaithful`) rests on what `Split` makes of a stream that
may end anywhere: a piece for each event that is complete, and the tokens of the next
one (`ParseStream`, by induction on the tokens as the search for a least
counterexample). The invariant `HInv` is then that buffer and line together spell the
events that were sent and not handed on, and that the buffer has no whole event.

**Client_proofs** proves `RunsWhatWasAsked`, `StartsHoldLease` and
`ResultIsTheOutcome`. A value crosses several layers on its way, so the lemmas on the
codec come first: what `Encode` and `Serialize` make of any JSON value, null and the
empty string among them, reads as that value for a worker (`ParamDecoded`) and for a
handle (`RoundTrip`, `ReadsMeaning`, `ReadsError`). `Follows(s, t, S, N)` is what a
request, with the expirations before it, makes of the server: of the promises only
those of `S` are settled otherwise than by their deadlines, only those of `N` are
created, and no address changes. It composes (`FollowsThen`), and one lemma per
request kind gives `S`, `N` and what its answer tells the caller (`AcquireFollows`:
the task in the answer is the caller's, at a rank at which nobody had it). The
invariant `IInv` then follows each payload. The stored param of a promise with an
address, and of a schedule, is the encoding of the function named (`ParamsAsked`,
`SchedulesAsked`); a stored value reads as what its settler meant (`ValuesMeant`);
an unblock message on its way and an entry of the map are the final record of their
promise (`MessagesTrue`, `EntriesTrue`), which is why it does not matter which of
them arrives first; and every start lies behind the rank of its task
(`StartsBehind`), so that one under a version granted later is the first there. `Kept`
is what any step of the server leaves of this.

Model-checked only: liveness, which is out of the prover's reach
(`OverduePromiseSettles`, `SilentLeaseEnds`, `DeadlineWakesAwaiter`,
`ReadyTaskRetried`, `FlushEnds`, `RootSettles`, `WorkflowEnds`, `HandleSettles`,
`QueuesServed`). Every safety property of a passing run is a theorem.

## 5. Not modelled

* The branch of `core.rs` for a task whose promise is already settled: the local
  server fulfills such a task before it can be acquired.
* `get` and `search` of tasks and schedules, which only read; `task.halt` and
  `task.continue`, for which the local server has no handler (`Wire` has the
  refusal).
* Race of answers into the cache of one execution (see above).
* Deadlines of children within `Context` (`child_timeout`) and the getters of
  `Info`; `LocalNetwork` has deadlines, from anyone.
* Headers, tokens, encryptors, the text of errors, base64 as such, two detached
  ids with one hash.
* How long retries sleep in the two remote networks: any time is allowed.
* The servers behind HTTP and Postgres, outside the repository. `send` of
  either is a request and its answer, which `TaskLifecycle` and `Subscriptions`
  lose.
* Options, dependencies, conversions of errors, the choice of a configuration
  from the environment, and the macros, which generate code at compile time.

## 6. Plan

The modules above are what this project set out to model, and every safety property
its runs check is proved. What is left follows the code: a model of the cache of one
execution that splits `insert_monotonic` between its read and its write
(`effects.rs:51`), with the redirect told above as what ends the wait; firing of
schedules, and `task.halt`, in `LocalNetwork`, once the local server has them.
