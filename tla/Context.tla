------------------------------ MODULE Context ------------------------------
(***************************************************************************)
(* One workflow task as a tree of contexts: resonate/src/context.rs, with  *)
(* the handles of futures.rs and the loop of execute_until_blocked_inner   *)
(* in core.rs.                                                             *)
(*                                                                         *)
(* A function turns each of its calls into an op with a promise.  A local  *)
(* op is a function of its own, nested to any depth; a remote op settles   *)
(* elsewhere; a detached op is not waited for.  An inline op is awaited    *)
(* where it is called; a spawned op runs beside its caller, which collects *)
(* it when the caller's function has returned.  What a function leaves     *)
(* pending (its todos) moves up to the root, and the task waits for it.    *)
(*                                                                         *)
(* The server is the state of the promises; leases and versions are in     *)
(* TaskLifecycle.  Deadlines do not pass.  The cache of effects.rs does    *)
(* not show: an answer from the cache is one the server gave earlier.      *)
(***************************************************************************)
EXTENDS Lineage, FiniteSets, FiniteSetsExt

CONSTANTS
    N,          \* the number of ops
    Programs,   \* the workflows
    Roots,      \* ids of the tasks they run as
    Faults,     \* the faults that occur
    MaxFaults   \* bound: how many of them

Op == 1 .. N
Root == 0
Fn == 0 .. N    \* the root function and the ops

\* Calls whose promise settles elsewhere: by a worker, by whoever was told the id,
\* by its deadline.  To the workflow they are alike.
Remote == {"rpc", "promise", "sleep"}

\* Ops are numbered so that a function comes before its calls, and the calls of a
\* function in the order it makes them.  It awaits the joined ones after the last
\* call; a catching function ignores the errors of what it awaits, any other one
\* passes them on with `?`.  The arguments of an unfit call do not serialize.
Program == [caller : [Op -> Fn], kind : [Op -> {"local", "detached"} \cup Remote],
            spawned : SUBSET Op, joined : SUBSET Op, catching : SUBSET Fn,
            unfit : SUBSET Op]

ASSUME ContextAssumption ==
    /\ N \in Nat /\ MaxFaults \in Nat
    /\ Faults \subseteq {"lost", "panic"}
    /\ \A p \in Programs :
          /\ p \in Program
          /\ p.joined \subseteq p.spawned
          /\ \A o \in Op :
                /\ p.caller[o] < o
                /\ p.caller[o] # Root => p.kind[p.caller[o]] = "local"
                /\ p.kind[o] = "detached" => o \in p.spawned \ p.joined
                /\ o \in p.unfit => p.kind[o] \in {"local", "rpc", "detached"}

\* An id is hashed before a task has the hash in its id: a task does not run as the
\* detached call of an id below its own.
ASSUME LineageAssumption ==
    \A root \in Roots :
        /\ root \in Seq({root[k] : k \in DOMAIN root})
        /\ LET last == root[Len(root)]
           IN  last[1] = "d" => ~ Extends(last[2], root)

VARIABLES
    prog,       \* the workflow
    promise,    \* the state of each promise on the server
    mode,       \* the task: running, released, waiting, finished
    awaited,    \* what it waits for
    status,     \* how far each function and op of this attempt is
    result,     \* what each has returned to the one who awaits it
    todos,      \* the remote ops each is left with
    created,    \* the ops whose slot in the sequence is Created
    givenUp,    \* history: the ops whose failure did not fail the task
    faults      \* faults so far

vars == <<prog, promise, mode, awaited, status, result, todos, created, givenUp, faults>>
server == <<promise, givenUp, faults>>
attempt == <<mode, awaited, status, result, todos, created>>

Settled == {"resolved", "rejected"}
Calls(f) == {o \in Op : prog.caller[o] = f}
Spawns(f) == Calls(f) \cap prog.spawned
Inline(o) == o \in Op \ prog.spawned

\* S has the caller of each of its ops.
Closed(p, S) == \A o \in S \ {Root} : p.caller[o] \in S

\* A function, the function that called it, and so on: the least closed set.
Ancestry == [p \in Programs |-> [f \in Fn |->
    {a \in 0 .. f : \A S \in SUBSET (0 .. f) : f \in S /\ Closed(p, S) => a \in S}]]
Above == Ancestry[prog]
Below(f) == {o \in Op : o # f /\ f \in Above[o]}

Ended(o) == status[o] \in {"done", "suspended", "failed", "gone"}
Fault(kind) == kind \in Faults /\ faults < MaxFaults /\ faults' = faults + 1

\* Op o is over: how it ended, what it returned.
End(o, how, r) ==
    /\ status' = [status EXCEPT ![o] = how]
    /\ result' = [result EXCEPT ![o] = r]

\* Context::root: nothing has been called.
Fresh == [f \in Fn |-> IF f = Root THEN "body" ELSE "latent"]

Init ==
    /\ prog \in Programs
    /\ promise = [f \in Fn |-> IF f = Root THEN "pending" ELSE "absent"]
    /\ mode = "running" /\ awaited = {}
    /\ status = Fresh
    /\ result = [f \in Fn |-> "none"]
    /\ todos = [f \in Fn |-> {}]
    /\ created = {} /\ givenUp = {} /\ faults = 0

-----------------------------------------------------------------------------
(* Ids *)

\* How many calls the caller made before o: each of them, fit or not, takes a number.
Number(o) == Cardinality({p \in Calls(prog.caller[o]) : p < o})

\* The ids of a task whose own id is root: child_id of the builders.
IdOf(root) ==
    LET id[f \in Fn] ==
            IF f = Root THEN root
            ELSE LET raw == NextId(id[prog.caller[f]], Number(f))
                 IN  IF prog.kind[f] = "detached" THEN DetachedId(OriginOf(root), raw) ELSE raw
    IN  id

\* What the creation of o declares: a local op shares the branch of its caller, any
\* other one roots a branch; a detached op is a child of the origin.
Tags(id, o) ==
    [branch |-> IF prog.kind[o] = "local" THEN id[prog.caller[o]] ELSE id[o],
     parent |-> IF prog.kind[o] = "detached" THEN OriginOf(id[Root]) ELSE id[prog.caller[o]],
     origin |-> OriginOf(id[Root])]

-----------------------------------------------------------------------------
(* The function *)

\* Function f is executing code of its own: no inline op is under way.
Running(f) ==
    /\ mode = "running" /\ status[f] = "body"
    /\ \A o \in Calls(f) \ prog.spawned : status[o] = "latent" \/ Ended(o)

Bad(S) == {o \in S : result[o] \in {"error", "suspended"}}

\* What the function sees fail while it makes its calls: an inline op returned an
\* error or Error::Suspended, a spawn() returned an error.
Met(f) == Bad({o \in Calls(f) : Inline(o) \/ o \in prog.unfit})

\* A call failed, and `?` ended the function.
Stopped(f) == f \notin prog.catching /\ Met(f) # {}

\* The function has come to call o.
Reached(o) ==
    LET f == prog.caller[o]
    IN  /\ Running(f) /\ ~Stopped(f)
        /\ status[o] = "latent"
        /\ \A p \in Calls(f) : p < o => status[p] # "latent"

\* spawn() or .await: the slot is claimed.
Issue(o) ==
    /\ Reached(o) /\ o \notin prog.unfit
    /\ status' = [status EXCEPT ![o] = "create"]
    /\ UNCHANGED <<prog, server, mode, awaited, result, todos, created>>

\* The arguments do not serialize: an error at once, and no slot.
Refuse(o) ==
    /\ Reached(o) /\ o \in prog.unfit
    /\ End(o, "done", "error")
    /\ UNCHANGED <<prog, server, mode, awaited, todos, created>>

\* The first error the function met, or its value.
Returned(f) ==
    LET bad == IF Stopped(f) THEN Met(f)
               ELSE Bad(Calls(f) \cap prog.joined)
    IN  IF f \in prog.catching \/ bad = {} THEN "ok" ELSE result[Min(bad)]

\* The function returns, having awaited the handles of the ops it joins.
Return(f) ==
    /\ Running(f)
    /\ \/ Stopped(f)
       \/ /\ \A o \in Calls(f) : status[o] # "latent"
          /\ \A o \in Calls(f) \cap prog.joined : result[o] # "none"
    /\ status' = [status EXCEPT ![f] = "flush"]
    /\ result' = [result EXCEPT ![f] = Returned(f)]
    /\ UNCHANGED <<prog, server, mode, awaited, todos, created>>

-----------------------------------------------------------------------------
(* The creation of an op *)

\* The promise of o once the request under way for it took effect.
Arrived(o) ==
    CASE status[o] = "create" /\ promise[o] = "absent" -> "pending"
      [] status[o] = "settle" /\ promise[o] = "pending" ->
            IF result[o] = "ok" THEN "resolved" ELSE "rejected"
      [] OTHER -> promise[o]

Arrive(o) == promise' = [promise EXCEPT ![o] = Arrived(o)]

\* The calls that claimed a slot before o.
Earlier(o) == {p \in Calls(prog.caller[o]) : p < o} \ prog.unfit

NeverDoomed(o) == FALSE     \* faulty: successors wait for a slot that failed

\* The predecessor succeeded, or it failed.
Ready(o) == status[o] = "create" /\ Earlier(o) \subseteq created

Doomed(o) == status[o] = "create" /\ \E p \in Earlier(o) \ created : status[p] = "failed"

\* An infrastructure error ends o.  Of a spawned op it fails the flush; an inline
\* op returns it to the function, which takes it for an error of the call.
Failing(o) ==
    /\ End(o, "failed", "error")
    /\ givenUp' = givenUp \cup {x \in {o} : Inline(x)}

\* A local op is executed.
Execute(o) ==
    /\ status' = [status EXCEPT ![o] = "body"]
    /\ UNCHANGED <<result, todos>>

\* A remote op that is awaited becomes a todo of the function.
BlockOnRemote(o) ==
    /\ End(o, "suspended", "suspended")
    /\ todos' = [todos EXCEPT ![prog.caller[o]] = @ \cup {o}]

\* One that is spawned is reported as a todo when it is collected.
SpawnRemote(o) ==
    /\ End(o, "suspended", "suspended")
    /\ todos' = [todos EXCEPT ![o] = {o}]

\* A detached op is over once it exists.
Detach(o) == End(o, "done", "ok") /\ UNCHANGED todos

\* The promise of o is pending.
Pending(o) ==
    CASE prog.kind[o] = "local" -> Execute(o)
      [] prog.kind[o] \in Remote -> IF Inline(o) THEN BlockOnRemote(o) ELSE SpawnRemote(o)
      [] prog.kind[o] = "detached" -> Detach(o)

\* create_promise answers; a promise that is settled ends the op.
Create(o) ==
    /\ mode = "running" /\ Ready(o)
    /\ Arrive(o)
    /\ created' = created \cup {o}
    /\ IF Arrived(o) \in Settled
       THEN End(o, "done", IF Arrived(o) = "resolved" THEN "ok" ELSE "error") /\ UNCHANGED todos
       ELSE Pending(o)
    /\ UNCHANGED <<prog, mode, awaited, givenUp, faults>>

\* The request or its answer is lost.
LoseCreate(o) ==
    /\ mode = "running" /\ Ready(o) /\ Fault("lost")
    /\ Arrive(o) \/ UNCHANGED promise
    /\ Failing(o)
    /\ UNCHANGED <<prog, mode, awaited, todos, created>>

\* The creation of an earlier op failed: this one never reaches the server.
Abort(o) ==
    /\ mode = "running" /\ Doomed(o)
    /\ Failing(o)
    /\ UNCHANGED <<prog, promise, faults, mode, awaited, todos, created>>

-----------------------------------------------------------------------------
(* The end of a function *)

\* Faulty: only the joined ops are waited for.
FlushedEarly(f) ==
    /\ mode = "running" /\ status[f] = "flush"
    /\ \A o \in Spawns(f) \cap prog.joined : status[o] = "latent" \/ Ended(o)

\* flush_local_work: every spawned op is over.  One that panicked is over, too.
Flushed(f) ==
    /\ mode = "running" /\ status[f] = "flush"
    /\ \A o \in Spawns(f) : status[o] = "latent" \/ Ended(o)

FlushError(f) == \E o \in Spawns(f) : status[o] = "failed"

OwnTodos(f) == todos[f]     \* faulty: spawned ops do not report theirs

\* collect_remote_todos: the function's own, and what its spawned ops are left with.
Collected(f) == todos[f] \cup UNION {todos[o] : o \in {s \in Spawns(f) : status[s] = "suspended"}}

\* A flush error: the function is not settled, and its todos are dropped.
FailFlush(f) ==
    /\ Flushed(f) /\ FlushError(f)
    /\ todos' = [todos EXCEPT ![f] = {}]
    /\ IF f = Root
       THEN mode' = "released" /\ UNCHANGED <<status, result, givenUp>>
       ELSE Failing(f) /\ UNCHANGED mode
    /\ UNCHANGED <<prog, promise, faults, awaited, created>>

\* Faulty: the todos of an inline function stay with it.
HoistNothing(f, ts) ==
    /\ todos' = [todos EXCEPT ![f] = ts]
    /\ End(f, "suspended", IF Inline(f) THEN result[f] ELSE "suspended")

\* What f is left with becomes a matter of its caller: at once if it is inline, with
\* f's result handed over as it is, or when the caller collects the spawned f.
HoistTodos(f, ts) ==
    IF Inline(f)
    THEN /\ todos' = [todos EXCEPT ![prog.caller[f]] = @ \cup ts]
         /\ End(f, "suspended", result[f])
    ELSE /\ todos' = [todos EXCEPT ![f] = ts]
         /\ End(f, "suspended", "suspended")

\* Remote work is left: whatever f returned, it suspends; of the root, the task.
Suspend(f) ==
    /\ Flushed(f) /\ ~FlushError(f) /\ Collected(f) # {}
    /\ IF f = Root
       THEN /\ mode' = "waiting" /\ awaited' = Collected(f)
            /\ UNCHANGED <<status, result, todos>>
       ELSE HoistTodos(f, Collected(f)) /\ UNCHANGED <<mode, awaited>>
    /\ UNCHANGED <<prog, server, created>>

\* No work is left: the function is to be settled, the root is fulfilled.
Finish(f) ==
    /\ Flushed(f) /\ ~FlushError(f) /\ Collected(f) = {}
    /\ IF f = Root
       THEN /\ mode' = "finished"
            /\ promise' = [promise EXCEPT ![f] =
                              IF result[f] = "ok" THEN "resolved" ELSE "rejected"]
            /\ UNCHANGED status
       ELSE status' = [status EXCEPT ![f] = "settle"] /\ UNCHANGED <<mode, promise>>
    /\ UNCHANGED <<prog, givenUp, faults, awaited, result, todos, created>>

\* settle_promise answers.
Settle(f) ==
    /\ mode = "running" /\ status[f] = "settle"
    /\ Arrive(f)
    /\ End(f, "done", result[f])
    /\ UNCHANGED <<prog, givenUp, faults, mode, awaited, todos, created>>

\* The request or its answer is lost: a spawned function ignores that.
LoseSettle(f) ==
    /\ mode = "running" /\ status[f] = "settle" /\ Fault("lost")
    /\ Arrive(f) \/ UNCHANGED promise
    /\ IF Inline(f)
       THEN Failing(f)
       ELSE End(f, "done", result[f]) /\ givenUp' = givenUp \cup {f}
    /\ UNCHANGED <<prog, mode, awaited, todos, created>>

\* The background task a function runs in, or the root.
Task(f) == Max({b \in Above[f] : b = Root \/ b \in prog.spawned})

\* The function panics.  Its background task ends, and with it all that it called
\* and spawned; the requests of these may yet arrive.  The flush only logs it.
Panic(f) ==
    LET b == Task(f)
        S == Below(b)
    IN  /\ Running(f) /\ Fault("panic")
        /\ \E late \in SUBSET {o \in S : Ready(o) \/ status[o] = "settle"} :
              promise' = [o \in Fn |-> IF o \in late THEN Arrived(o) ELSE promise[o]]
        /\ status' = [o \in Fn |-> IF o \in S \cup {b} THEN "gone" ELSE status[o]]
        /\ IF b = Root
           THEN mode' = "released" /\ UNCHANGED <<result, givenUp>>
           ELSE /\ result' = [result EXCEPT ![b] = "error"]
                /\ givenUp' = givenUp \cup {b}
                /\ UNCHANGED mode
        /\ UNCHANGED <<prog, awaited, todos, created>>

-----------------------------------------------------------------------------
(* The rest of the world *)

\* A sleep ends in one way only: its deadline resolves it.
Outcomes(o) == IF prog.kind[o] = "sleep" THEN {"resolved"} ELSE Settled

RemoteSettle(o) ==
    /\ prog.kind[o] # "local" /\ promise[o] = "pending"
    /\ \E outcome \in Outcomes(o) : promise' = [promise EXCEPT ![o] = outcome]
    /\ UNCHANGED <<prog, givenUp, faults, attempt>>

\* A released task is taken up again; one that waits is woken, or redirected, when
\* something it waits for is settled.  The root function starts anew.
NewAttempt ==
    /\ mode = "released" \/ (mode = "waiting" /\ \E o \in awaited : promise[o] \in Settled)
    /\ mode' = "running" /\ awaited' = {}
    /\ status' = Fresh
    /\ result' = [f \in Fn |-> "none"]
    /\ todos' = [f \in Fn |-> {}]
    /\ created' = {}
    /\ givenUp' = {o \in givenUp : \E f \in Above[o] \ {o} : promise[f] \in Settled}
    /\ UNCHANGED <<prog, promise, faults>>

Step(f) ==
    \/ Return(f) \/ FailFlush(f) \/ Suspend(f) \/ Finish(f)
    \/ f \in Op /\ (Issue(f) \/ Refuse(f) \/ Create(f) \/ Abort(f) \/ Settle(f))

Next ==
    \/ \E f \in Fn : Step(f) \/ Panic(f)
    \/ \E o \in Op : LoseCreate(o) \/ LoseSettle(o) \/ RemoteSettle(o)
    \/ NewAttempt

Spec == Init /\ [][Next]_vars

\* Every function and background task runs on, remote work settles, and the server
\* announces a task that is released or has something to go on with.
FairSpec ==
    /\ Spec
    /\ \A f \in Fn : WF_vars(Step(f))
    /\ \A o \in Op : WF_vars(RemoteSettle(o))
    /\ WF_vars(NewAttempt)

-----------------------------------------------------------------------------
(* Properties *)

\* The records keep their shape; only remote ops become todos, and the slots that
\* are created are a prefix of the calls of each function.
TypeOK ==
    /\ prog \in Programs
    /\ promise \in [Fn -> {"absent", "pending"} \cup Settled]
    /\ mode \in {"running", "released", "waiting", "finished"}
    /\ status \in [Fn -> {"latent", "create", "body", "flush", "settle",
                          "done", "suspended", "failed", "gone"}]
    /\ result \in [Fn -> {"none", "ok", "error", "suspended"}]
    /\ awaited \subseteq Op
    /\ todos \in [Fn -> SUBSET {o \in Op : prog.kind[o] \in Remote}]
    /\ created \subseteq Op /\ givenUp \subseteq Op
    /\ \A o \in created : Earlier(o) \subseteq created
    /\ faults \in 0 .. MaxFaults

\* The failure of g ends the functions that await it, one after the other, up to one
\* that ignores errors.  What is no longer reached then: these, the calls after them,
\* which an earlier attempt may have made, and all below.
EndedWith(g) ==
    {y \in Above[g] \ {Root} : \A z \in Above[g] : z > y =>
        z \notin prog.spawned \ prog.joined /\ prog.caller[z] \notin prog.catching}
Cut(g) == {o \in Op : \E x \in Above[o] \ {Root}, y \in EndedWith(g) :
                            prog.caller[x] = prog.caller[y] /\ x >= y}

\* Structured concurrency: a function whose promise is settled left nothing pending
\* that it called or spawned, at any depth, however its background tasks
\* interleaved and attempts followed one another; detached ops aside, and what was
\* cut off when the failure of an op was passed to a function or ignored
\* (flush_local_work, RunTask::into_future and spawn, the Drop of SpawnedHandle).
StructuredConcurrency ==
    \A f \in Fn : promise[f] \in Settled =>
        \A o \in Below(f) :
            (promise[o] = "pending" /\ prog.kind[o] # "detached")
                => \E g \in givenUp \cap Below(f) : o \in Cut(g)

\* A task that waits does so for the remote ops of its attempt that are pending, at
\* any depth, awaited or not, and for no others: none is forgotten on its way up
\* ("a fire-and-forget spawn is never lost", spawn_remote), none is detached.
WaitsForItsWork ==
    mode = "waiting" =>
        LET remote == {o \in created : prog.kind[o] \in Remote}
        IN  /\ awaited # {}
            /\ awaited \subseteq remote
            /\ \A o \in remote :
                  promise[o] = "pending" /\ Above[o] \cap givenUp = {} => o \in awaited

\* Whatever task the workflow runs as, top-level, remote or detached: no two of its
\* calls share an id, and each is one the server takes, extending the parent, branch
\* and origin it declares, at any depth (join_id, detached; ids.rs: "promise.create
\* rejects an id that does not extend" what "it declares").
LineageHolds ==
    \A root \in Roots :
        LET id == IdOf(root)
        IN  /\ \A f, g \in Fn : id[f] = id[g] => f = g
            /\ \A o \in Op :
                  LET tags == Tags(id, o)
                  IN  /\ Extends(id[o], tags.parent) /\ id[o] # tags.parent
                      /\ Extends(id[o], tags.branch)
                      /\ OriginOf(id[o]) = tags.origin

\* Error::Suspended never becomes the outcome of a promise: a function that returns
\* it has work left (the debug_assert of execute_until_blocked_inner, and those of
\* RunTask).
SuspensionHasCause ==
    /\ \A f \in Op : status[f] = "settle" => result[f] # "suspended"
    /\ mode = "finished" => result[Root] # "suspended"

\* Whatever is lost or panics, the workflow ends: no slot, handle or flush waits for
\* something that does not come.
WorkflowEnds == <>(mode = "finished")

\* "a fire-and-forget creation failure fail[s] the whole task execution, so the task
\* is released and retried instead of settling with lost work" (flush_local_work).
\* This does not hold of an inline workflow; no run checks it.
CreationFailureRetried ==
    mode = "finished" => ~ \E o \in prog.spawned \ created : status[o] = "failed"
=============================================================================
