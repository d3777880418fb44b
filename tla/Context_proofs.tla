--------------------------- MODULE Context_proofs ---------------------------
(***************************************************************************)
(* Proofs about one workflow task, for every workflow: the state keeps its *)
(* shape; a suspension has a cause; a task that waits, waits for exactly   *)
(* the work it left; and what a settled function called is settled.        *)
(*                                                                         *)
(* The first three hold of an attempt by itself (Attempt): most steps move *)
(* one op (Takes), and what such a step keeps is proved once.  The last    *)
(* one also needs what attempts leave to one another (History), since a    *)
(* call that an earlier attempt made is not made again when a function     *)
(* stops before it (Record).  Facts about the tree of calls are proved by  *)
(* the least closed set that Above is.                                     *)
(*                                                                         *)
(* The ids of a task are no matter of its steps: what JoinId makes forgets *)
(* nothing and keeps the origin, and ids follow the tree of calls.         *)
(***************************************************************************)
EXTENDS Context, WellFoundedInduction, SequenceTheorems, FiniteSetTheorems, TLAPS

-----------------------------------------------------------------------------
(* Numbers *)

\* A set of numbers has a least one.
LEMMA LeastNumber ==
    ASSUME NEW T, T \subseteq Nat, T # {}
    PROVE  \E x \in T : \A y \in T : x <= y
<1>1. PICK x \in T : \A y \in T : ~ (<<y, x>> \in OpToRel(<, Nat))
    BY WFMin, NatLessThanWellFounded, Zenon
<1>2. \A y \in T : ~ (y < x)
    BY <1>1 DEF OpToRel
<1> QED
    BY <1>2

\* Min finds it.
LEMMA MinFound ==
    ASSUME NEW T, T \subseteq Nat, T # {}
    PROVE  Min(T) \in T
<1>1. \E x \in T : \A y \in T : x =< y
    BY LeastNumber
<1> QED
    BY <1>1 DEF Min

\* A bounded set has a greatest one, and Max finds it.
LEMMA MaxFound ==
    ASSUME NEW n \in Nat, NEW T, T \subseteq 0 .. n, T # {}
    PROVE  Max(T) \in T /\ \A y \in T : Max(T) >= y
<1> DEFINE B == {k \in Nat : \A y \in T : y <= k}
<1>1. B \subseteq Nat /\ n \in B
    OBVIOUS
<1>2. PICK m \in B : \A k \in B : m <= k
    <2> HIDE DEF B
    <2> QED
        BY <1>1, LeastNumber
<1>3. m \in T
    <2>1. SUFFICES ASSUME m \notin T PROVE FALSE
        OBVIOUS
    <2>2. \A y \in T : y < m
        BY <2>1
    <2>3. T \subseteq Nat /\ m \in Nat
        OBVIOUS
    <2>4. PICK y : y \in T
        OBVIOUS
    <2>5. m - 1 \in Nat /\ \A z \in T : z <= m - 1
        BY <2>2, <2>3, <2>4
    <2> QED
        BY <2>5, <1>2, m - 1 \in B
<1>4. \A y \in T : m >= y
    OBVIOUS
<1>5. \E x \in T : \A y \in T : x >= y
    BY <1>3, <1>4
<1> QED
    BY <1>5 DEF Max

-----------------------------------------------------------------------------
(* The tree of calls *)

\* A workflow is a tree: a function comes before its calls.
LEMMA Tree ==
    ASSUME prog \in Programs
    PROVE  /\ prog.caller \in [Op -> Fn]
           /\ \A o \in Op : prog.caller[o] \in Fn /\ prog.caller[o] < o
           /\ prog.spawned \subseteq Op /\ prog.joined \subseteq prog.spawned
           /\ prog.catching \subseteq Fn /\ prog.unfit \subseteq Op
           /\ prog.kind \in [Op -> {"local", "detached"} \cup Remote]
           /\ N \in Nat
BY ContextAssumption DEF Program, Fn

\* A function is above itself, and with a function, its caller.
LEMMA AboveClosed ==
    ASSUME prog \in Programs, NEW f \in Fn
    PROVE  /\ f \in Above[f] /\ Above[f] \subseteq 0 .. f /\ Above[f] \subseteq Fn
           /\ \A o \in Above[f] \ {Root} : prog.caller[o] \in Above[f]
<1>1. Above[f] = {a \in 0 .. f : \A S \in SUBSET (0 .. f) : f \in S /\ Closed(prog, S) => a \in S}
    BY DEF Above, Ancestry
<1>2. f \in 0 .. f /\ 0 .. f \subseteq Fn /\ 0 .. f \subseteq Nat
    BY Tree DEF Fn
<1>3. ASSUME NEW o \in Above[f] \ {Root}
      PROVE  prog.caller[o] \in Above[f]
    <2>1. o \in Op /\ o \in 0 .. f
        BY <1>1, <1>2 DEF Fn, Op, Root
    <2>2. prog.caller[o] \in 0 .. f
        BY <2>1, Tree DEF Fn, Op
    <2>3. ASSUME NEW S \in SUBSET (0 .. f), f \in S, Closed(prog, S)
          PROVE  prog.caller[o] \in S
        BY <2>3, <1>1, <1>3 DEF Closed
    <2> QED
        BY <2>2, <2>3, <1>1
<1> QED
    BY <1>1, <1>2, <1>3

\* What is above f lies in every set with f that has the caller of each of its ops:
\* induction along the callers.
LEMMA AboveLeast ==
    ASSUME prog \in Programs, NEW f \in Fn, NEW S,
           f \in S, \A o \in S \cap Op : prog.caller[o] \in S
    PROVE  Above[f] \subseteq S
<1> DEFINE R == S \cap (0 .. f)
<1>1. R \in SUBSET (0 .. f) /\ f \in R
    BY Tree DEF Fn
<1>2. ASSUME NEW o \in R \ {Root}
      PROVE  prog.caller[o] \in R
    <2>1. o \in Op /\ o \in S
        BY <1>1, Tree DEF Fn, Op, Root
    <2> QED
        BY <2>1, Tree DEF Fn, Op
<1>3. Closed(prog, R)
    BY <1>2 DEF Closed
<1>4. \A a \in Above[f] : a \in R
    <2> HIDE DEF R
    <2> QED
        BY <1>1, <1>3 DEF Above, Ancestry
<1> QED
    BY <1>4

\* What is above something above f is above f.
LEMMA AboveTransitive ==
    ASSUME prog \in Programs, NEW f \in Fn, NEW x \in Above[f]
    PROVE  Above[x] \subseteq Above[f]
<1>1. x \in Fn
    BY AboveClosed
<1>2. \A o \in Above[f] \cap Op : prog.caller[o] \in Above[f]
    BY AboveClosed DEF Op, Root
<1> QED
    BY <1>1, <1>2, AboveLeast

\* What is above a call, the call aside, is above the caller.
LEMMA AboveCaller ==
    ASSUME prog \in Programs, NEW o \in Op
    PROVE  /\ o \in Fn /\ prog.caller[o] \in Fn
           /\ Above[o] = {o} \cup Above[prog.caller[o]]
<1>1. o \in Fn /\ prog.caller[o] \in Fn /\ o # Root
    BY Tree DEF Fn, Op, Root
<1> DEFINE S == {o} \cup Above[prog.caller[o]]
<1>2. Above[o] \subseteq S
    <2>1. o \in S
        OBVIOUS
    <2>2. \A x \in S \cap Op : prog.caller[x] \in S
        BY <1>1, AboveClosed DEF Op, Root
    <2> HIDE DEF S
    <2> QED
        BY <1>1, <2>1, <2>2, AboveLeast
<1>3. o \in Above[o] /\ prog.caller[o] \in Above[o]
    BY <1>1, AboveClosed
<1>4. Above[prog.caller[o]] \subseteq Above[o]
    BY <1>1, <1>3, AboveTransitive
<1> QED
    BY <1>1, <1>2, <1>3, <1>4

\* The root is above everything.
LEMMA RootAbove ==
    ASSUME prog \in Programs, NEW f \in Fn
    PROVE  Root \in Above[f]
<1>1. Above[f] \subseteq Nat /\ Above[f] # {}
    BY AboveClosed, Tree DEF Fn
<1>2. PICK m \in Above[f] : \A y \in Above[f] : m <= y
    BY <1>1, LeastNumber
<1>3. m = Root
    <2>1. SUFFICES ASSUME m # Root PROVE FALSE
        OBVIOUS
    <2>2. m \in Op /\ prog.caller[m] \in Above[f]
        BY <2>1, AboveClosed DEF Fn, Op, Root
    <2> QED
        BY <2>2, <1>2, Tree DEF Fn, Op
<1> QED
    BY <1>2, <1>3

\* Between a function and what is below it is one of its calls.
LEMMA ChildAbove ==
    ASSUME prog \in Programs, NEW x \in Fn, NEW g \in Above[x], g # x
    PROVE  \E c \in Above[x] \cap Op : prog.caller[c] = g
<1>1. SUFFICES ASSUME \A c \in Above[x] \cap Op : prog.caller[c] # g
               PROVE  FALSE
    OBVIOUS
<1> DEFINE S == Above[x] \ {g}
<1>2. x \in S
    BY AboveClosed
<1>3. \A c \in S \cap Op : prog.caller[c] \in S
    BY <1>1, AboveClosed DEF Op, Root
<1>4. Above[x] \subseteq S
    <2> HIDE DEF S
    <2> QED
        BY <1>2, <1>3, AboveLeast
<1> QED
    BY <1>4

\* Above an op is a call of the root.
LEMMA TopAbove ==
    ASSUME prog \in Programs, NEW o \in Op
    PROVE  \E x \in Above[o] \cap Op : prog.caller[x] = Root
<1>1. o \in Fn /\ Root # o
    BY Tree DEF Fn, Op, Root
<1> QED
    BY <1>1, RootAbove, ChildAbove

\* A remote or detached op calls nothing.
LEMMA NothingBelow ==
    ASSUME prog \in Programs, NEW f \in Op, prog.kind[f] # "local"
    PROVE  Below(f) = {}
<1> SUFFICES ASSUME NEW o \in Below(f) PROVE FALSE
    OBVIOUS
<1>1. o \in Fn /\ f \in Above[o] /\ o # f /\ f # Root
    BY Tree DEF Below, Op, Fn, Root
<1>2. PICK c \in Op : prog.caller[c] = f
    BY <1>1, ChildAbove
<1> QED
    BY <1>1, <1>2, ContextAssumption

\* What is below b, and b, is b and what is called by it.
LEMMA BelowCaller ==
    ASSUME prog \in Programs, NEW b \in Op, NEW o \in Op
    PROVE  LET T == Below(b) \cup {b}
           IN  /\ o \in Fn /\ prog.caller[o] \in Fn
               /\ o \in T <=> b \in Above[o]
               /\ prog.caller[o] \in T => o \in T /\ o # b
               /\ o \in T => o = b \/ prog.caller[o] \in T
<1> DEFINE T == Below(b) \cup {b}
<1>1. o \in Fn /\ prog.caller[o] \in Fn /\ Above[o] = {o} \cup Above[prog.caller[o]]
    BY AboveCaller
<1>2. \A x \in Op : x \in T <=> b \in Above[x]
    BY Tree, AboveClosed DEF Below, Fn, Op
<1>3. prog.caller[o] \in Op <=> prog.caller[o] # Root
    BY <1>1, Tree DEF Fn, Op, Root
<1>4. Root \notin T /\ b \notin Above[Root]
    BY <1>1, AboveClosed, Tree DEF Below, Op, Fn, Root
<1>5. Above[prog.caller[o]] \subseteq 0 .. prog.caller[o] /\ prog.caller[o] < o
    BY <1>1, AboveClosed, Tree
<1>6. prog.caller[o] \in T => o \in T /\ o # b
    BY <1>1, <1>2, <1>3, <1>4, <1>5 DEF Fn
<1>7. o \in T => o = b \/ prog.caller[o] \in T
    BY <1>1, <1>2, <1>3, <1>4
<1> QED
    BY <1>1, <1>2, <1>6, <1>7

\* What is above an op is a chain.
LEMMA AboveChain ==
    ASSUME prog \in Programs, NEW x \in Fn, NEW y \in Above[x], NEW z \in Above[x]
    PROVE  y \in Above[z] \/ z \in Above[y]
<1> DEFINE S == {u \in Above[x] : z \in Above[u] \/ u \in Above[z]}
<1>0. z \in Fn
    BY AboveClosed
<1>1. x \in S
    BY AboveClosed
<1>2. ASSUME NEW u \in S \cap Op PROVE prog.caller[u] \in S
    <2>1. prog.caller[u] \in Above[x] /\ Above[u] = {u} \cup Above[prog.caller[u]] /\ u # Root
        BY <1>2, AboveClosed, AboveCaller DEF Op, Root
    <2>2. z \in Above[u] => z = u \/ z \in Above[prog.caller[u]]
        BY <2>1
    <2>3. u \in Above[z] => prog.caller[u] \in Above[z]
        BY <1>0, <2>1, AboveClosed
    <2>4. z = u => prog.caller[u] \in Above[z]
        BY <1>0, <2>1, AboveClosed
    <2> QED
        BY <2>1, <2>2, <2>3, <2>4, <1>2
<1>3. Above[x] \subseteq S
    <2> HIDE DEF S
    <2> QED
        BY <1>1, <1>2, AboveLeast
<1> QED
    BY <1>3

-----------------------------------------------------------------------------
(* The inductive invariant *)

Active == {"create", "body", "flush", "settle"}
Open == {"body", "flush"}

\* What is under way was called by a function that is not over yet; an inline op, by
\* one that waits for it.
CallersOpen ==
    \A o \in Op : status[o] \in Active =>
        /\ status[prog.caller[o]] \in Open
        /\ Inline(o) => status[prog.caller[o]] = "body"

\* What an op has returned, by how far it is.
ResultAt(how, r) ==
    /\ how \in {"latent", "create", "body"} => r = "none"
    /\ how \in {"flush", "suspended"} => r # "none"
    /\ how \in {"settle", "done"} => r \in {"ok", "error"}
    /\ how = "failed" => r = "error"

ResultsFollow == \A f \in Fn : ResultAt(status[f], result[f])

\* What a panic drops goes with its caller, or is the background task that panicked.
GoneTogether ==
    \A o \in Op : status[o] = "gone" =>
        \/ status[prog.caller[o]] = "gone"
        \/ (o \in prog.spawned /\ result[o] = "error")

\* A spawned op that is suspended is left with a todo; an inline one left its caller
\* with one.
SuspendedHasTodos ==
    \A o \in Op : status[o] = "suspended" =>
        IF Inline(o)
        THEN todos[prog.caller[o]] # {} \/ status[prog.caller[o]] = "failed"
        ELSE todos[o] # {}

\* A function that returned Error::Suspended has a todo, or a spawned op that has or
\* will have one, or one that fails its flush.
HasCause(f) ==
    \/ todos[f] # {}
    \/ \E s \in Spawns(f) : \/ status[s] \in {"suspended", "failed"}
                             \/ /\ status[s] = "flush"
                                /\ result[s] = "suspended"

FlushHasCause ==
    \A f \in Fn : status[f] = "flush" /\ result[f] = "suspended" => HasCause(f)

\* What f is left with: a function that is not over keeps its todos, a spawned op
\* that is suspended keeps them for its caller.  One that failed lost them, and will
\* fail its caller.
Keeps(x, o) ==
    \/ status[x] \in Open /\ o \in todos[x]
    \/ /\ x \in prog.spawned /\ status[prog.caller[x]] \in Open
       /\ (status[x] = "suspended" /\ o \in todos[x]) \/ status[x] = "failed"

\* The remote ops of the attempt that are to settle, short of a failure that did not
\* fail the task.
Outstanding ==
    {o \in created : /\ prog.kind[o] \in Remote /\ promise[o] = "pending"
                     /\ Above[o] \cap givenUp = {}}

TodosKept == \A o \in Outstanding : \E x \in Above[o] : Keeps(x, o)

\* Todos are created, and what is created is there.
TodosCreated ==
    /\ \A f \in Fn : todos[f] \subseteq created
    /\ \A o \in created : promise[o] # "absent"

RootOpen == status[Root] \in Open

Attempt ==
    /\ RootOpen /\ CallersOpen /\ ResultsFollow /\ GoneTogether
    /\ SuspendedHasTodos /\ FlushHasCause
    /\ TodosKept /\ TodosCreated

IInv ==
    /\ TypeOK
    /\ mode = "running" => Attempt
    /\ SuspensionHasCause /\ WaitsForItsWork

-----------------------------------------------------------------------------
(* Type correctness *)

Prefix == \A o \in created : Earlier(o) \subseteq created

Statuses == {"latent", "create", "body", "flush", "settle",
             "done", "suspended", "failed", "gone"}
Results == {"none", "ok", "error", "suspended"}
Promises == {"absent", "pending"} \cup Settled
RemoteOps == {o \in Op : prog.kind[o] \in Remote}

LEMMA Types ==
    TypeOK <=> /\ prog \in Programs
               /\ promise \in [Fn -> Promises]
               /\ mode \in {"running", "released", "waiting", "finished"}
               /\ status \in [Fn -> Statuses] /\ result \in [Fn -> Results]
               /\ awaited \subseteq Op /\ todos \in [Fn -> SUBSET RemoteOps]
               /\ created \subseteq Op /\ givenUp \subseteq Op
               /\ Prefix /\ faults \in 0 .. MaxFaults
BY DEF TypeOK, Prefix, Statuses, Results, Promises, RemoteOps

\* The promise of an op that is created is there.
LEMMA ArrivedType ==
    ASSUME TypeOK, NEW o \in Fn
    PROVE  /\ Arrived(o) \in Promises
           /\ status[o] = "create" => Arrived(o) # "absent"
           /\ promise[o] # "absent" => Arrived(o) # "absent"
           /\ promise[o] \in Settled => Arrived(o) = promise[o]
BY Types DEF Arrived, Promises, Settled

LEMMA ArriveType ==
    ASSUME TypeOK, NEW o \in Fn, Arrive(o)
    PROVE  promise' \in [Fn -> Promises]
BY Types, ArrivedType DEF Arrive

\* One op is over.
LEMMA EndType ==
    ASSUME TypeOK, NEW o \in Fn, NEW how \in Statuses, NEW r \in Results, End(o, how, r)
    PROVE  status' \in [Fn -> Statuses] /\ result' \in [Fn -> Results]
BY Types DEF End

LEMMA FailingType ==
    ASSUME TypeOK, NEW o \in Op, Failing(o)
    PROVE  status' \in [Fn -> Statuses] /\ result' \in [Fn -> Results] /\ givenUp' \subseteq Op
<1>1. o \in Fn /\ End(o, "failed", "error")
    BY Types, Tree DEF Failing, Fn, Op
<1>2. givenUp' \subseteq Op
    BY Types DEF Failing
<1> QED
    BY <1>1, <1>2, EndType DEF Statuses, Results

\* What a function is left with is remote.
LEMMA CollectedType ==
    ASSUME TypeOK, NEW f \in Fn
    PROVE  Collected(f) \subseteq RemoteOps
BY Types, Tree DEF Collected, Spawns, Calls, Fn, Op

\* A pending promise: the function runs, or the op is a todo, or it is over.
LEMMA PendingCases ==
    ASSUME NEW o, Pending(o)
    PROVE  /\ prog.kind[o] = "local" => Execute(o)
           /\ prog.kind[o] \in Remote => IF Inline(o) THEN BlockOnRemote(o) ELSE SpawnRemote(o)
           /\ prog.kind[o] = "detached" => Detach(o)
BY DEF Pending, Remote

LEMMA PrefixStays ==
    ASSUME TypeOK, prog' = prog, created' = created
    PROVE  Prefix'
BY Types DEF Prefix, Earlier, Calls

LEMMA TypeInit == Init => TypeOK
<1> SUFFICES ASSUME Init PROVE TypeOK
    OBVIOUS
<1>1. prog \in Programs /\ Root \in Fn
    BY Tree DEF Init, Fn, Root
<1>2. status \in [Fn -> Statuses] /\ result \in [Fn -> Results]
    BY DEF Init, Fresh, Statuses, Results
<1>3. promise \in [Fn -> Promises]
    BY DEF Init, Promises
<1>4. todos \in [Fn -> SUBSET RemoteOps]
    BY DEF Init
<1>5. faults \in 0 .. MaxFaults
    BY ContextAssumption DEF Init
<1> QED
    BY <1>1, <1>2, <1>3, <1>4, <1>5, Types DEF Init, Prefix

LEMMA TypeStep == TypeOK /\ [Next]_vars => TypeOK'
<1> SUFFICES ASSUME TypeOK, [Next]_vars PROVE TypeOK'
    OBVIOUS
<1> DEFINE Rest == /\ prog' = prog /\ faults' \in 0 .. MaxFaults
                   /\ mode' \in {"running", "released", "waiting", "finished"}
                   /\ awaited' \subseteq Op
<1> DEFINE Records == /\ promise' \in [Fn -> Promises]
                      /\ status' \in [Fn -> Statuses] /\ result' \in [Fn -> Results]
                      /\ todos' \in [Fn -> SUBSET RemoteOps] /\ givenUp' \subseteq Op
<1> DEFINE Slots == created' \subseteq Op /\ Prefix'
<1>q. ASSUME Rest, Records, Slots PROVE TypeOK'
    <2>1. RemoteOps' = RemoteOps
        BY <1>q DEF RemoteOps
    <2>2. Promises' = Promises /\ Statuses' = Statuses /\ Results' = Results
        BY DEF Promises, Statuses, Results, Settled
    <2> QED
        BY <1>q, <2>1, <2>2, Types DEF TypeOK, Prefix, Promises, Statuses, Results, RemoteOps
<1>s. ASSUME created' = created, prog' = prog PROVE Slots
    BY <1>s, PrefixStays, Types
<1>f. ASSUME NEW kind, Fault(kind) PROVE faults' \in 0 .. MaxFaults
    BY <1>f, Types, ContextAssumption DEF Fault
<1>o. Op \subseteq Fn /\ Root \in Fn /\ Op \subseteq Nat
    BY Types, Tree DEF Op, Fn, Root
<1>1. ASSUME NEW f \in Fn, Return(f) PROVE TypeOK'
    <2>1. Rest
        BY <1>1, Types DEF Return, server
    <2>2. Slots
        BY <1>1, <1>s DEF Return
    <2>3. Returned(f) \in Results
        <3>1. ASSUME NEW S, S \subseteq Op, Bad(S) # {} PROVE result[Min(Bad(S))] \in Results
            <4>0. Bad(S) \subseteq S
                BY DEF Bad
            <4>1. Bad(S) \subseteq Nat /\ Bad(S) \subseteq Fn
                BY <3>1, <4>0, <1>o
            <4> QED
                BY <4>1, <3>1, MinFound, Types
        <3>2. Met(f) = Bad({o \in Calls(f) : Inline(o) \/ o \in prog.unfit})
            BY DEF Met
        <3>3. {o \in Calls(f) : Inline(o) \/ o \in prog.unfit} \subseteq Op
            BY DEF Calls
        <3>4. Calls(f) \cap prog.joined \subseteq Op
            BY DEF Calls
        <3>5. CASE f \in prog.catching
            BY <3>5 DEF Returned, Results
        <3>6. CASE f \notin prog.catching /\ Stopped(f)
            BY <3>6, <3>1, <3>2, <3>3 DEF Returned, Results, Stopped
        <3>7. CASE f \notin prog.catching /\ ~Stopped(f)
            BY <3>7, <3>1, <3>4 DEF Returned, Results
        <3> QED
            BY <3>5, <3>6, <3>7
    <2>4. Records
        BY <1>1, <2>3, Types DEF Return, server, Statuses
    <2> QED
        BY <2>1, <2>2, <2>4, <1>q
<1>2. ASSUME NEW f \in Fn, FailFlush(f) PROVE TypeOK'
    <2>1. Rest /\ Slots
        BY <1>2, <1>s, Types DEF FailFlush, Failing
    <2>2. Records
        <3>1. todos' \in [Fn -> SUBSET RemoteOps]
            BY <1>2, Types DEF FailFlush
        <3>2. CASE f = Root
            BY <3>1, <3>2, <1>2, Types DEF FailFlush
        <3>3. CASE f # Root
            <4>1. f \in Op /\ Failing(f) /\ promise' = promise
                BY <3>3, <1>2 DEF FailFlush, Fn, Op, Root
            <4> QED
                BY <4>1, <3>1, FailingType, Types
        <3> QED
            BY <3>2, <3>3
    <2> QED
        BY <2>1, <2>2, <1>q
<1>3. ASSUME NEW f \in Fn, Suspend(f) PROVE TypeOK'
    <2>0. Collected(f) \subseteq RemoteOps
        BY CollectedType
    <2>1. Rest /\ Slots
        BY <1>3, <1>s, <2>0, Types DEF Suspend, RemoteOps, server
    <2>2. Records
        <3>1. CASE f = Root
            BY <3>1, <1>3, Types DEF Suspend, server
        <3>2. CASE f # Root
            <4>1. f \in Op /\ HoistTodos(f, Collected(f)) /\ promise' = promise /\ givenUp' = givenUp
                BY <3>2, <1>3 DEF Suspend, Fn, Op, Root, server
            <4>2. prog.caller[f] \in Fn /\ result[f] \in Results
                BY <4>1, Types, Tree
            <4>3. todos' \in [Fn -> SUBSET RemoteOps]
                BY <4>1, <4>2, <2>0, Types DEF HoistTodos
            <4>4. status' \in [Fn -> Statuses] /\ result' \in [Fn -> Results]
                <5>1. \E r \in Results : End(f, "suspended", r)
                    BY <4>1, <4>2 DEF HoistTodos, Results
                <5> QED
                    BY <5>1, EndType DEF Statuses
            <4> QED
                BY <4>1, <4>3, <4>4, Types
        <3> QED
            BY <3>1, <3>2
    <2> QED
        BY <2>1, <2>2, <1>q
<1>4. ASSUME NEW f \in Fn, Finish(f) PROVE TypeOK'
    <2>1. Rest /\ Slots
        BY <1>4, <1>s, Types DEF Finish
    <2>2. Records
        BY <1>4, Types DEF Finish, Promises, Settled, Statuses
    <2> QED
        BY <2>1, <2>2, <1>q
<1>5. ASSUME NEW o \in Op, Issue(o) \/ Refuse(o) PROVE TypeOK'
    <2>1. Rest /\ Slots
        BY <1>5, <1>s, Types DEF Issue, Refuse, server
    <2>2. status' \in [Fn -> Statuses] /\ result' \in [Fn -> Results]
        BY <1>5, <1>o, Types, EndType DEF Issue, Refuse, Statuses, Results
    <2>3. Records
        BY <1>5, <2>2, Types DEF Issue, Refuse, server
    <2> QED
        BY <2>1, <2>3, <1>q
<1>6. ASSUME NEW o \in Op, Create(o) PROVE TypeOK'
    <2>1. Rest
        BY <1>6, Types DEF Create
    <2>2. Slots
        <3>1. created' = created \cup {o} /\ Earlier(o) \subseteq created
            BY <1>6 DEF Create, Ready
        <3>2. \A p \in Op : Earlier(p)' = Earlier(p)
            BY <2>1 DEF Earlier, Calls
        <3> QED
            BY <3>1, <3>2, Types DEF Prefix
    <2>3. promise' \in [Fn -> Promises] /\ givenUp' \subseteq Op
        BY <1>6, <1>o, ArriveType, Types DEF Create
    <2>4. /\ status' \in [Fn -> Statuses] /\ result' \in [Fn -> Results]
          /\ todos' \in [Fn -> SUBSET RemoteOps]
        <3>1. CASE Arrived(o) \in Settled
            <4>1. \E r \in Results : End(o, "done", r) /\ UNCHANGED todos
                BY <1>6, <3>1 DEF Create, Results
            <4> QED
                BY <4>1, <1>o, Types, EndType DEF Statuses
        <3>2. CASE Arrived(o) \notin Settled
            <4>1. Pending(o)
                BY <1>6, <3>2 DEF Create
            <4>2. o \in Fn /\ prog.caller[o] \in Fn
                BY <1>o, Types, Tree
            <4>3. CASE prog.kind[o] = "local"
                BY <4>1, <4>2, <4>3, PendingCases, Types DEF Execute, Statuses
            <4>4. CASE prog.kind[o] \in Remote
                <5>1. End(o, "suspended", "suspended") /\ o \in RemoteOps
                    BY <4>1, <4>4, PendingCases DEF BlockOnRemote, SpawnRemote, RemoteOps
                <5>2. todos' \in [Fn -> SUBSET RemoteOps]
                    BY <4>1, <4>2, <4>4, <5>1, PendingCases, Types DEF BlockOnRemote, SpawnRemote
                <5> QED
                    BY <5>1, <5>2, <4>2, EndType DEF Statuses, Results
            <4>5. CASE prog.kind[o] = "detached"
                <5>1. End(o, "done", "ok") /\ todos' = todos
                    BY <4>1, <4>5, PendingCases DEF Detach
                <5> QED
                    BY <5>1, <4>2, Types, EndType DEF Statuses, Results
            <4> QED
                BY <4>3, <4>4, <4>5, Types, Tree
        <3> QED
            BY <3>1, <3>2
    <2> QED
        BY <2>1, <2>2, <2>3, <2>4, <1>q
<1>7. ASSUME NEW o \in Op, Abort(o) \/ LoseCreate(o) PROVE TypeOK'
    <2>1. Rest /\ Slots
        BY <1>7, <1>s, <1>f, Types DEF Abort, LoseCreate
    <2>2. promise' \in [Fn -> Promises] /\ todos' = todos /\ Failing(o)
        BY <1>7, <1>o, ArriveType, Types DEF Abort, LoseCreate
    <2> QED
        BY <2>1, <2>2, <1>q, FailingType, Types
<1>8. ASSUME NEW o \in Op, Settle(o) \/ LoseSettle(o) PROVE TypeOK'
    <2>1. Rest /\ Slots
        BY <1>8, <1>s, <1>f, Types DEF Settle, LoseSettle
    <2>2. promise' \in [Fn -> Promises] /\ todos' = todos
        BY <1>8, <1>o, ArriveType, Types DEF Settle, LoseSettle
    <2>3. status' \in [Fn -> Statuses] /\ result' \in [Fn -> Results] /\ givenUp' \subseteq Op
        <3>1. CASE Failing(o)
            BY <3>1, FailingType
        <3>2. CASE ~Failing(o)
            <4>1. End(o, "done", result[o]) /\ givenUp' \in {givenUp, givenUp \cup {o}}
                BY <1>8, <3>2 DEF Settle, LoseSettle
            <4>2. result[o] \in Results
                BY <1>o, Types
            <4> QED
                BY <4>1, <4>2, <1>o, Types, EndType DEF Statuses
        <3> QED
            BY <3>1, <3>2
    <2> QED
        BY <2>1, <2>2, <2>3, <1>q, Types
<1>9. ASSUME NEW f \in Fn, Panic(f) PROVE TypeOK'
    <2>1. Rest /\ Slots
        BY <1>9, <1>s, <1>f, Types DEF Panic
    <2>2. promise' \in [Fn -> Promises]
        BY <1>9, Types, ArrivedType DEF Panic
    <2>3. status' \in [Fn -> Statuses] /\ todos' = todos
        BY <1>9, Types DEF Panic, Statuses
    <2>4. result' \in [Fn -> Results] /\ givenUp' \subseteq Op
        <3>1. CASE Task(f) = Root
            BY <3>1, <1>9, Types DEF Panic
        <3>2. CASE Task(f) # Root
            <4>1. {b \in Above[f] : b = Root \/ b \in prog.spawned} \subseteq 0 .. N
                BY Types, AboveClosed DEF Fn
            <4>2. Root \in {b \in Above[f] : b = Root \/ b \in prog.spawned} /\ N \in Nat
                BY Types, RootAbove, Tree
            <4>3. Task(f) \in Op
                BY <4>1, <4>2, MaxFound, <3>2 DEF Task, Op, Root
            <4> QED
                BY <4>3, <3>2, <1>9, Types DEF Panic, Results
        <3> QED
            BY <3>1, <3>2
    <2> QED
        BY <2>1, <2>2, <2>3, <2>4, <1>q, Types
<1>10. ASSUME NEW o \in Op, RemoteSettle(o) PROVE TypeOK'
    <2>1. Rest /\ Slots
        BY <1>10, <1>s, Types DEF RemoteSettle, attempt
    <2>2. Records
        BY <1>10, Types DEF RemoteSettle, attempt, Outcomes, Promises, Settled
    <2> QED
        BY <2>1, <2>2, <1>q
<1>11. CASE NewAttempt
    <2>1. Rest /\ Slots
        BY <1>11, Types DEF NewAttempt, Prefix
    <2>2. Records
        BY <1>11, Types DEF NewAttempt, Fresh, Statuses, Results
    <2> QED
        BY <2>1, <2>2, <1>q
<1>12. CASE UNCHANGED vars
    <2>1. Rest /\ Records /\ Slots
        BY <1>12, <1>s, Types DEF vars
    <2> QED
        BY <2>1, <1>q
<1> QED
    BY <1>1, <1>2, <1>3, <1>4, <1>5, <1>6, <1>7, <1>8, <1>9, <1>10, <1>11, <1>12 DEF Next, Step

\* The state keeps its shape, and the slots that are created are a prefix of the
\* calls of each function (the sequence counter and slots of Context).
THEOREM TypeCorrect == Spec => []TypeOK
BY TypeInit, TypeStep, PTL DEF Spec

-----------------------------------------------------------------------------
(* A step of one op *)

\* Most steps of a running attempt move one op, f, from a status to how, with what r
\* it returned then.
Moves(f, how, r) ==
    /\ mode = "running" /\ prog' = prog
    /\ status' = [status EXCEPT ![f] = how]
    /\ result' = [result EXCEPT ![f] = r]

\* Where f may go: it begins in a function that waits for it, ends when nothing it
\* called is under way, and what it returns has a cause.
Legal(f, how, r) ==
    /\ status[f] \in Active \cup {"latent"} /\ how \in Statuses \ {"latent", "gone"}
    /\ ResultAt(how, r)
    /\ f = Root => how \in Open
    /\ status[f] = "latent" /\ how \in Active => status[prog.caller[f]] = "body"
    /\ how # "body" => \A o \in Calls(f) : Inline(o) => status[o] \notin Active
    /\ how \notin Open => \A o \in Calls(f) : status[o] \notin Active
    /\ status[f] = "flush" /\ result[f] = "suspended" => how \in {"suspended", "failed"}
    /\ how = "flush" /\ r = "suspended" => HasCause(f)

\* What it does to the todos: only a function that fails, or an op that calls
\* nothing, loses some.
Carries(f, how) ==
    /\ \A x \in Fn : x # f \/ how \in Open \/ (how # "failed" /\ Calls(f) # {})
                        => todos[x] \subseteq todos'[x]
    /\ how = "suspended" =>
          IF Inline(f) THEN todos'[prog.caller[f]] # {} ELSE todos'[f] # {}

\* What it reports at its end: all it collected, or its failure.
Reports(f, how) ==
    /\ status[f] \in Open /\ how \notin Open =>
          /\ status[f] = "flush" /\ how \in {"suspended", "settle", "failed"}
          /\ how # "failed" => ~FlushError(f)
          /\ how = "settle" => Collected(f) = {}
          /\ how = "suspended" =>
                Collected(f) \subseteq todos'[IF Inline(f) THEN prog.caller[f] ELSE f]
    /\ how = "failed" /\ Inline(f) => f \in givenUp'
    /\ givenUp \subseteq givenUp'

\* What it creates.
Creates(f, how) ==
    /\ \A o \in Fn : promise[o] # "absent" => promise'[o] \in {promise[o]} \cup Settled
    /\ \A o \in Fn : promise[o] \in Settled => promise'[o] = promise[o]
    /\ created \subseteq created' /\ created' \subseteq created \cup {f}
    /\ \A x \in Fn : todos'[x] \subseteq created'
    /\ f \in created' \ created =>
          /\ status[f] = "create" /\ promise'[f] # "absent"
          /\ prog.kind[f] \in Remote /\ promise'[f] = "pending" =>
                /\ how = "suspended"
                /\ f \in todos'[IF Inline(f) THEN prog.caller[f] ELSE f]

LEMMA MoveKeepsCauses ==
    ASSUME TypeOK, Attempt, NEW f \in Fn, NEW how, NEW r,
           Moves(f, how, r), Legal(f, how, r), Carries(f, how)
    PROVE  /\ RootOpen' /\ CallersOpen' /\ ResultsFollow' /\ GoneTogether'
           /\ SuspendedHasTodos' /\ FlushHasCause'
<1>1. /\ prog' = prog /\ prog \in Programs
      /\ \A x \in Fn : status'[x] = (IF x = f THEN how ELSE status[x])
      /\ \A x \in Fn : result'[x] = (IF x = f THEN r ELSE result[x])
    BY Types DEF Moves
<1>2. \A o \in Op : o \in Fn /\ prog.caller[o] \in Fn /\ prog.caller[o] # o
    BY <1>1, Tree DEF Op, Fn
<1>3. /\ \A g \in Fn : Calls(g)' = Calls(g) /\ Spawns(g)' = Spawns(g)
      /\ \A o \in Op : Inline(o)' = Inline(o)
    BY <1>1 DEF Calls, Spawns, Inline
<1>4. \A o \in Op : Inline(o) <=> o \notin prog.spawned
    BY DEF Inline
<1>5. Root \in Fn
    BY <1>1, Tree DEF Fn, Root
<1>6. RootOpen'
    BY <1>1, <1>5 DEF RootOpen, Attempt, Legal
<1>7. CallersOpen'
    <2>1. SUFFICES ASSUME NEW o \in Op, status'[o] \in Active
                   PROVE  /\ status'[prog.caller[o]] \in Open
                          /\ Inline(o) => status'[prog.caller[o]] = "body"
        BY <1>1, <1>3 DEF CallersOpen
    <2>2. CASE o = f
        <3>1. status'[prog.caller[o]] = status[prog.caller[o]]
            BY <2>2, <1>1, <1>2
        <3>2. status[f] = "latent" => status[prog.caller[f]] = "body"
            BY <2>1, <2>2, <1>1, <1>2 DEF Legal
        <3>3. status[f] \in Active \cup {"latent"}
            BY DEF Legal
        <3> QED
            BY <3>1, <3>2, <3>3, <2>2 DEF Attempt, CallersOpen, Open
    <2>3. CASE o # f
        <3>1. status[o] \in Active
            BY <2>1, <2>3, <1>1, <1>2
        <3>2. /\ status[prog.caller[o]] \in Open
              /\ Inline(o) => status[prog.caller[o]] = "body"
            BY <3>1 DEF Attempt, CallersOpen
        <3>3. prog.caller[o] = f => o \in Calls(f)
            BY DEF Calls
        <3> QED
            BY <3>1, <3>2, <3>3, <1>1, <1>2 DEF Legal
    <2> QED
        BY <2>2, <2>3
<1>8. ResultsFollow'
    BY <1>1 DEF ResultsFollow, Attempt, Legal, ResultAt
<1>9. GoneTogether'
    <2>1. status[f] # "gone" /\ how # "gone"
        BY DEF Legal, Active
    <2> QED
        BY <2>1, <1>1, <1>2 DEF GoneTogether, Attempt
<1>10. SuspendedHasTodos'
    <2>1. SUFFICES ASSUME NEW o \in Op, status'[o] = "suspended"
                   PROVE  IF Inline(o)
                          THEN \/ todos'[prog.caller[o]] # {}
                               \/ status'[prog.caller[o]] = "failed"
                          ELSE todos'[o] # {}
        BY <1>1, <1>3 DEF SuspendedHasTodos
    <2>2. CASE o = f
        BY <2>1, <2>2, <1>1, <1>2 DEF Carries
    <2>3. CASE o # f
        <3>1. status[o] = "suspended" /\ result'[o] = result[o]
            BY <2>1, <2>3, <1>1, <1>2
        <3>2. IF Inline(o)
              THEN todos[prog.caller[o]] # {} \/ status[prog.caller[o]] = "failed"
              ELSE todos[o] # {}
            BY <3>1 DEF Attempt, SuspendedHasTodos
        <3>3. CASE ~Inline(o)
            BY <3>2, <3>3, <2>3, <1>2 DEF Carries
        <3>4. CASE Inline(o)
            <4>1. status[f] # "failed"
                BY DEF Legal, Active
            <4>2. prog.caller[o] = f => Calls(f) # {}
                BY DEF Calls
            <4> QED
                BY <3>1, <3>2, <3>4, <4>1, <4>2, <1>1, <1>2 DEF Carries
        <3> QED
            BY <3>3, <3>4
    <2> QED
        BY <2>2, <2>3
<1>11. FlushHasCause'
    <2>1. SUFFICES ASSUME NEW g \in Fn, status'[g] = "flush", result'[g] = "suspended"
                   PROVE  HasCause(g)'
        BY DEF FlushHasCause
    <2>2. HasCause(g)
        BY <2>1, <1>1 DEF Attempt, FlushHasCause, Legal
    <2>3. todos[g] \subseteq todos'[g]
        BY <2>1, <1>1 DEF Carries, Open
    <2>4. ASSUME NEW s \in Spawns(g), status[s] \in {"suspended", "failed"}
                    \/ (status[s] = "flush" /\ result[s] = "suspended")
          PROVE  status'[s] \in {"suspended", "failed"}
                    \/ (status'[s] = "flush" /\ result'[s] = "suspended")
        <3>1. s \in Fn
            BY <1>2 DEF Spawns, Calls
        <3>2. CASE s # f
            BY <3>1, <3>2, <2>4, <1>1
        <3>3. CASE s = f
            BY <3>1, <3>3, <2>4, <1>1 DEF Legal, Active
        <3> QED
            BY <3>2, <3>3
    <2> QED
        BY <2>2, <2>3, <2>4, <1>3 DEF HasCause
<1> QED
    BY <1>6, <1>7, <1>8, <1>9, <1>10, <1>11

LEMMA MoveKeepsTodos ==
    ASSUME TypeOK, Attempt, NEW f \in Fn, NEW how, NEW r,
           Moves(f, how, r), Legal(f, how, r), Carries(f, how),
           Reports(f, how), Creates(f, how)
    PROVE  TodosKept' /\ TodosCreated'
<1>1. /\ prog' = prog /\ prog \in Programs /\ Above' = Above
      /\ \A x \in Fn : status'[x] = (IF x = f THEN how ELSE status[x])
    BY Types DEF Moves, Above
<1>2. \A o \in Op : o \in Fn /\ prog.caller[o] \in Fn /\ prog.caller[o] # o
    BY <1>1, Tree DEF Op, Fn
<1>3. created \subseteq Op /\ \A x \in Fn : promise[x] \in Promises
    BY Types
<1>4. TodosCreated'
    <2>1. \A o \in created' : promise'[o] # "absent"
        <3>1. \A o \in created : promise'[o] # "absent"
            BY <1>2, <1>3 DEF Creates, Attempt, TodosCreated, Settled
        <3> QED
            BY <3>1 DEF Creates
    <2> QED
        BY <2>1 DEF TodosCreated, Creates
<1>5. ASSUME NEW o \in Op, f \in Above[o], Above[o] \cap givenUp' = {},
             status[f] \in Open, how \notin Open,
             how = "failed" \/ o \in Collected(f)
      PROVE  \E x \in Above[o] : Keeps(x, o)'
    <2>1. f \in Op /\ f # Root
        BY <1>5 DEF Legal, Fn, Op, Root
    <2>2. /\ prog.caller[f] \in Above[o] /\ prog.caller[f] # f
          /\ prog.caller[f] \in Fn /\ status[prog.caller[f]] \in Open
          /\ status'[prog.caller[f]] = status[prog.caller[f]]
        <3>1. prog.caller[f] \in Above[o]
            BY <1>1, <1>2, <1>5, <2>1, AboveClosed
        <3>2. status[prog.caller[f]] \in Open
            BY <2>1, <1>5 DEF Attempt, CallersOpen, Active, Open
        <3> QED
            BY <3>1, <3>2, <2>1, <1>1, <1>2
    <2>3. CASE how = "failed"
        <3>1. f \in prog.spawned
            BY <2>1, <2>3, <1>5 DEF Reports, Inline
        <3>2. status'[f] = "failed"
            BY <1>1, <2>3
        <3> QED
            BY <3>1, <3>2, <2>2, <1>1, <1>5 DEF Keeps
    <2>4. CASE how # "failed"
        <3>1. how = "suspended" /\ o \in todos'[IF Inline(f) THEN prog.caller[f] ELSE f]
            BY <2>4, <1>5 DEF Reports
        <3>2. CASE Inline(f)
            BY <3>1, <3>2, <2>2 DEF Keeps
        <3>3. CASE ~Inline(f)
            <4>1. f \in prog.spawned /\ status'[f] = "suspended"
                BY <3>1, <3>3, <2>1, <1>1 DEF Inline
            <4> QED
                BY <3>1, <3>3, <4>1, <2>2, <1>1, <1>5 DEF Keeps
        <3> QED
            BY <3>2, <3>3
    <2> QED
        BY <2>3, <2>4
<1>6. ASSUME NEW o \in Op, o \in Outstanding, Above[o] \cap givenUp' = {}
      PROVE  \E x \in Above[o] : Keeps(x, o)'
    <2>1. PICK x \in Above[o] : Keeps(x, o)
        BY <1>6 DEF Attempt, TodosKept
    <2>2. x \in Fn
        BY <2>1, <1>1, <1>2, AboveClosed
    <2>3. CASE status[x] \in Open /\ o \in todos[x]
        <3>1. CASE x # f \/ how \in Open
            <4>1. status'[x] \in Open
                BY <2>2, <2>3, <3>1, <1>1
            <4>2. o \in todos'[x]
                BY <2>2, <2>3, <3>1 DEF Carries, Open
            <4> QED
                BY <4>1, <4>2, <2>1 DEF Keeps
        <3>2. CASE x = f /\ how \notin Open
            <4>1. o \in Collected(f)
                BY <2>3, <3>2 DEF Collected
            <4> QED
                BY <4>1, <3>2, <2>1, <2>3, <1>5, <1>6
        <3> QED
            BY <3>1, <3>2
    <2>4. CASE /\ x \in prog.spawned /\ status[prog.caller[x]] \in Open
               /\ (status[x] = "suspended" /\ o \in todos[x]) \/ status[x] = "failed"
        <3>1. x \in Op
            BY <2>4, <1>1, Tree
        <3>2. x # f
            BY <2>4 DEF Legal, Active
        <3>3. (status'[x] = "suspended" /\ o \in todos'[x]) \/ status'[x] = "failed"
            BY <2>2, <2>4, <3>2, <1>1 DEF Carries
        <3>4. CASE prog.caller[x] # f \/ how \in Open
            <4>1. status'[prog.caller[x]] \in Open
                BY <3>1, <3>4, <2>4, <1>1, <1>2
            <4> QED
                BY <4>1, <3>3, <2>1, <2>4, <1>1 DEF Keeps
        <3>5. CASE prog.caller[x] = f /\ how \notin Open
            <4>1. x \in Spawns(f)
                BY <3>1, <3>5, <2>4 DEF Spawns, Calls
            <4>2. f \in Above[o]
                BY <3>1, <3>5, <2>1, <1>1, <1>2, AboveClosed DEF Op, Root
            <4>3. status[x] = "failed" => FlushError(f)
                BY <4>1 DEF FlushError
            <4>4. status[x] = "suspended" /\ o \in todos[x] => o \in Collected(f)
                BY <4>1 DEF Collected
            <4>5. how = "failed" \/ o \in Collected(f)
                BY <4>3, <4>4, <2>4, <3>5 DEF Reports
            <4> QED
                BY <4>2, <4>5, <3>5, <2>4, <1>5, <1>6
        <3> QED
            BY <3>4, <3>5
    <2> QED
        BY <2>1, <2>3, <2>4 DEF Keeps
<1>7. ASSUME NEW o \in Outstanding' PROVE \E x \in Above[o] : Keeps(x, o)'
    <2>1. /\ o \in created' /\ prog.kind[o] \in Remote /\ promise'[o] = "pending"
          /\ Above[o] \cap givenUp' = {}
        BY <1>1 DEF Outstanding
    <2>2. CASE o \in created
        <3>1. o \in Op /\ promise[o] \in {"pending"} /\ Above[o] \cap givenUp = {}
            BY <2>1, <2>2, <1>2, <1>3 DEF Creates, Reports, Attempt, TodosCreated, Promises
        <3>2. o \in Outstanding
            BY <3>1, <2>1, <2>2 DEF Outstanding
        <3> QED
            BY <3>1, <3>2, <2>1, <1>6
    <2>3. CASE o \notin created
        <3>1. /\ o = f /\ status[f] = "create" /\ how = "suspended"
              /\ f \in todos'[IF Inline(f) THEN prog.caller[f] ELSE f]
            BY <2>1, <2>3 DEF Creates
        <3>2. f \in Op /\ f # Root
            BY <3>1 DEF Legal, Open, Fn, Op, Root
        <3>3. f \in Above[f] /\ prog.caller[f] \in Above[f]
            BY <3>2, <1>1, AboveClosed
        <3>4. status[prog.caller[f]] \in Open /\ status'[prog.caller[f]] = status[prog.caller[f]]
            BY <3>1, <3>2, <1>1, <1>2 DEF Attempt, CallersOpen, Active
        <3>5. CASE Inline(f)
            BY <3>1, <3>3, <3>4, <3>5 DEF Keeps
        <3>6. CASE ~Inline(f)
            <4>1. f \in prog.spawned /\ status'[f] = "suspended"
                BY <3>1, <3>2, <3>6, <1>1 DEF Inline
            <4> QED
                BY <3>1, <3>3, <3>4, <3>6, <4>1, <1>1 DEF Keeps
        <3> QED
            BY <3>5, <3>6
    <2> QED
        BY <2>2, <2>3
<1> QED
    BY <1>1, <1>4, <1>7 DEF TodosKept

\* A step of f from its status to how, with result r.
Takes(f, how, r) ==
    /\ Moves(f, how, r) /\ Legal(f, how, r) /\ Carries(f, how)
    /\ Reports(f, how) /\ Creates(f, how)

LEMMA MoveKeeps ==
    ASSUME TypeOK, Attempt, NEW f \in Fn, NEW how, NEW r, Takes(f, how, r)
    PROVE  Attempt'
BY MoveKeepsCauses, MoveKeepsTodos DEF Attempt, Takes

-----------------------------------------------------------------------------
(* What holds where the actions are taken *)

\* A function that has not begun, or is over, has nothing under way.
LEMMA NotOpen ==
    ASSUME Attempt, NEW f, status[f] \notin Open
    PROVE  \A o \in Calls(f) : status[o] \notin Active
BY DEF Attempt, CallersOpen, Calls

\* What is open was called by functions that are open.
LEMMA OpenUp ==
    ASSUME TypeOK, Attempt, NEW f \in Fn, status[f] \in Open
    PROVE  \A y \in Above[f] : status[y] \in Open
<1> DEFINE S == {y \in Above[f] : status[y] \in Open}
<1>0. prog \in Programs
    BY Types
<1>1. f \in S
    BY <1>0, AboveClosed
<1>2. \A y \in S \cap Op : prog.caller[y] \in S
    BY <1>0, AboveClosed DEF Attempt, CallersOpen, Active, Open, Op, Root
<1>3. Above[f] \subseteq S
    <2> HIDE DEF S
    <2> QED
        BY <1>0, <1>1, <1>2, AboveLeast
<1> QED
    BY <1>3

\* So was what is under way.
LEMMA OpenAbove ==
    ASSUME TypeOK, Attempt, NEW o \in Op, status[o] \in Active
    PROVE  \A y \in Above[o] \ {o} : status[y] \in Open
<1>1. prog.caller[o] \in Fn /\ Above[o] = {o} \cup Above[prog.caller[o]]
    BY Types, AboveCaller
<1>2. status[prog.caller[o]] \in Open
    BY DEF Attempt, CallersOpen
<1> QED
    BY <1>1, <1>2, OpenUp

\* Nor has one whose flush is done.
LEMMA FlushedIdle ==
    ASSUME Attempt, NEW f, Flushed(f)
    PROVE  \A o \in Calls(f) : status[o] \notin Active
<1> SUFFICES ASSUME NEW o \in Calls(f), status[o] \in Active PROVE FALSE
    OBVIOUS
<1>1. o \in Op /\ prog.caller[o] = f /\ status[f] = "flush"
    BY DEF Calls, Flushed
<1>2. CASE o \in prog.spawned
    BY <1>2 DEF Flushed, Spawns, Ended, Active
<1>3. CASE o \notin prog.spawned
    BY <1>1, <1>3 DEF Attempt, CallersOpen, Inline
<1> QED
    BY <1>2, <1>3

\* One that is left with nothing, and whose spawned ops did not fail, did not return
\* Error::Suspended.
LEMMA NothingLeft ==
    ASSUME TypeOK, Attempt, NEW f \in Fn,
           Flushed(f), ~FlushError(f), Collected(f) = {}
    PROVE  result[f] \in {"ok", "error"}
<1>1. status[f] = "flush" /\ todos[f] = {}
    BY DEF Flushed, Collected
<1>2. ASSUME NEW s \in Spawns(f)
      PROVE  status[s] \notin {"suspended", "failed", "flush"}
    <2>1. s \in Op /\ ~Inline(s)
        BY DEF Spawns, Calls, Inline
    <2>2. status[s] # "failed" /\ status[s] # "flush"
        BY <1>2 DEF FlushError, Flushed, Ended
    <2>3. status[s] = "suspended" => todos[s] # {} /\ todos[s] \subseteq Collected(f)
        BY <2>1, <1>2 DEF Attempt, SuspendedHasTodos, Collected
    <2> QED
        BY <2>2, <2>3
<1>3. ~HasCause(f)
    BY <1>1, <1>2 DEF HasCause
<1>4. result[f] \in Results /\ result[f] # "none"
    BY <1>1, Types DEF Attempt, ResultsFollow, ResultAt
<1> QED
    BY <1>1, <1>3, <1>4 DEF Attempt, FlushHasCause, Results

\* A running function that sees Error::Suspended has a cause for it.
LEMMA SeenHasCause ==
    ASSUME TypeOK, Attempt, NEW f \in Fn, Running(f),
           NEW o \in Calls(f), result[o] = "suspended"
    PROVE  HasCause(f)
<1>1. o \in Op /\ prog.caller[o] = f /\ o \in Fn /\ status[f] = "body"
    BY Types, Tree DEF Calls, Running, Op, Fn
<1>2. status[o] \in {"flush", "suspended", "gone"}
    BY <1>1, Types DEF Attempt, ResultsFollow, ResultAt, Statuses
<1>3. status[o] # "gone" \/ (o \in prog.spawned /\ result[o] = "error")
    BY <1>1 DEF Attempt, GoneTogether
<1>4. CASE o \in prog.spawned
    <2>1. o \in Spawns(f)
        BY <1>4 DEF Spawns
    <2> QED
        BY <2>1, <1>2, <1>3 DEF HasCause
<1>5. CASE o \notin prog.spawned
    <2>1. status[o] = "suspended" /\ Inline(o)
        BY <1>1, <1>2, <1>3, <1>5 DEF Running, Ended, Inline
    <2>2. todos[f] # {}
        BY <2>1, <1>1 DEF Attempt, SuspendedHasTodos
    <2> QED
        BY <2>2 DEF HasCause
<1> QED
    BY <1>4, <1>5

\* A function returns Error::Suspended for a cause.
LEMMA ReturnedHasCause ==
    ASSUME TypeOK, Attempt, NEW f \in Fn, Running(f)
    PROVE  /\ Returned(f) \in {"ok", "error", "suspended"}
           /\ Returned(f) = "suspended" => HasCause(f)
<1>1. ASSUME NEW S, S \subseteq Calls(f), Bad(S) # {}
      PROVE  /\ result[Min(Bad(S))] \in {"error", "suspended"}
             /\ result[Min(Bad(S))] = "suspended" => HasCause(f)
    <2>1. Bad(S) \subseteq S
        BY DEF Bad
    <2>2. S \subseteq Nat
        BY <1>1 DEF Calls, Op
    <2>3. Min(Bad(S)) \in Bad(S)
        BY <2>1, <2>2, <1>1, MinFound
    <2> QED
        BY <2>1, <2>3, <1>1, SeenHasCause DEF Bad
<1>2. Met(f) = Bad({o \in Calls(f) : Inline(o) \/ o \in prog.unfit})
    BY DEF Met
<1>3. CASE f \in prog.catching
    BY <1>3 DEF Returned
<1>4. CASE f \notin prog.catching /\ Stopped(f)
    BY <1>4, <1>1, <1>2 DEF Returned, Stopped
<1>5. CASE f \notin prog.catching /\ ~Stopped(f)
    BY <1>5, <1>1 DEF Returned
<1> QED
    BY <1>3, <1>4, <1>5

\* The background task that runs a function has not returned: every op between them
\* is awaited where it was called.
LEMMA TaskRuns ==
    ASSUME TypeOK, Attempt, NEW f \in Fn, Running(f)
    PROVE  /\ Task(f) \in Above[f] /\ Task(f) \in Fn
           /\ Task(f) = Root \/ Task(f) \in prog.spawned
           /\ status[Task(f)] = "body"
<1> DEFINE B == {b \in Above[f] : b = Root \/ b \in prog.spawned}
<1>0. prog \in Programs /\ N \in Nat
    BY Types, Tree
<1>1. B \subseteq 0 .. N /\ B # {}
    BY <1>0, AboveClosed, RootAbove DEF Fn
<1>2. Task(f) \in B /\ \A y \in B : Task(f) >= y
    <2> HIDE DEF B
    <2>1. Max(B) \in B /\ \A y \in B : Max(B) >= y
        BY <1>0, <1>1, MaxFound
    <2> QED
        BY <2>1 DEF Task, B
<1> DEFINE S == {x \in Above[f] : x >= Task(f) => status[x] = "body"}
<1>3. f \in S
    BY <1>0, AboveClosed DEF Running
<1>4. ASSUME NEW o \in S \cap Op PROVE prog.caller[o] \in S
    <2>1. prog.caller[o] \in Above[f]
        BY <1>0, AboveClosed, <1>4 DEF Op, Root
    <2>2. SUFFICES ASSUME prog.caller[o] >= Task(f) PROVE status[prog.caller[o]] = "body"
        BY <2>1
    <2>3. o > Task(f)
        BY <2>2, <1>0, <1>1, <1>2, Tree DEF Op, Fn
    <2>4. o \notin prog.spawned
        BY <2>3, <1>1, <1>2, <1>4 DEF Op
    <2>5. status[o] = "body"
        BY <2>3, <1>1, <1>2, <1>4 DEF Op
    <2> QED
        BY <2>4, <2>5, <1>4 DEF Attempt, CallersOpen, Inline, Active
<1>5. Above[f] \subseteq S
    <2> HIDE DEF S
    <2> QED
        BY <1>0, <1>3, <1>4, AboveLeast
<1>6. status[Task(f)] = "body"
    BY <1>1, <1>2, <1>5
<1> QED
    BY <1>0, <1>1, <1>2, <1>6 DEF Fn

-----------------------------------------------------------------------------
(* The steps of a running attempt *)

\* Promises that do not change.
LEMMA NothingCreated ==
    ASSUME TypeOK, Attempt, NEW f, NEW how,
           promise' = promise, created' = created,
           \A x \in Fn : todos'[x] \subseteq created
    PROVE  Creates(f, how)
BY DEF Creates

\* A request of f takes effect, or is lost.
LEMMA Requested ==
    ASSUME TypeOK, NEW f \in Fn, Arrive(f) \/ UNCHANGED promise
    PROVE  /\ \A o \in Fn : promise[o] # "absent" => promise'[o] \in {promise[o]} \cup Settled
           /\ \A o \in Fn : promise[o] \in Settled => promise'[o] = promise[o]
<1>1. \A o \in Fn : promise'[o] = (IF o = f /\ Arrive(f) THEN Arrived(o) ELSE promise[o])
    BY Types DEF Arrive
<1>2. promise[f] # "absent" => Arrived(f) \in {promise[f]} \cup Settled
    BY Types DEF Arrived, Settled
<1> QED
    BY <1>1, <1>2, ArrivedType

LEMMA IssueStep ==
    ASSUME TypeOK, Attempt, NEW o \in Op, Issue(o)
    PROVE  mode' = "running" /\ Takes(o, "create", "none")
<1>0. o \in Fn /\ o # Root
    BY Types, Tree DEF Op, Fn, Root
<1>1. /\ status[o] = "latent" /\ status[prog.caller[o]] = "body" /\ mode = "running"
      /\ result[o] = "none"
    BY <1>0 DEF Issue, Reached, Running, Attempt, ResultsFollow, ResultAt
<1>2. Moves(o, "create", "none") /\ mode' = "running" /\ todos' = todos
    BY <1>0, <1>1, Types DEF Issue, Moves
<1>3. Legal(o, "create", "none")
    BY <1>0, <1>1, NotOpen DEF Legal, Active, Open, Statuses, ResultAt
<1>4. Carries(o, "create") /\ Reports(o, "create")
    BY <1>1, <1>2 DEF Carries, Reports, Open, Issue, server
<1>5. Creates(o, "create")
    BY <1>2, NothingCreated DEF Issue, server, Attempt, TodosCreated
<1> QED
    BY <1>0, <1>2, <1>3, <1>4, <1>5 DEF Takes

LEMMA RefuseStep ==
    ASSUME TypeOK, Attempt, NEW o \in Op, Refuse(o)
    PROVE  mode' = "running" /\ Takes(o, "done", "error")
<1>0. o \in Fn /\ o # Root
    BY Types, Tree DEF Op, Fn, Root
<1>1. status[o] = "latent" /\ mode = "running"
    BY DEF Refuse, Reached, Running
<1>2. Moves(o, "done", "error") /\ mode' = "running" /\ todos' = todos
    BY <1>1 DEF Refuse, Moves, End
<1>3. Legal(o, "done", "error")
    BY <1>0, <1>1, NotOpen DEF Legal, Active, Open, Statuses, ResultAt
<1>4. Carries(o, "done") /\ Reports(o, "done")
    BY <1>1, <1>2 DEF Carries, Reports, Open, Refuse, server
<1>5. Creates(o, "done")
    BY <1>2, NothingCreated DEF Refuse, server, Attempt, TodosCreated
<1> QED
    BY <1>0, <1>2, <1>3, <1>4, <1>5 DEF Takes

LEMMA ReturnStep ==
    ASSUME TypeOK, Attempt, NEW f \in Fn, Return(f)
    PROVE  mode' = "running" /\ Takes(f, "flush", Returned(f))
<1>1. Running(f) /\ status[f] = "body" /\ mode = "running"
    BY DEF Return, Running
<1>2. Moves(f, "flush", Returned(f)) /\ mode' = "running" /\ todos' = todos
    BY <1>1 DEF Return, Moves
<1>3. \A o \in Calls(f) : Inline(o) => status[o] \notin Active
    BY <1>1 DEF Running, Inline, Ended, Active
<1>4. Legal(f, "flush", Returned(f))
    BY <1>1, <1>3, ReturnedHasCause DEF Legal, Active, Open, Statuses, ResultAt
<1>5. Carries(f, "flush") /\ Reports(f, "flush")
    BY <1>1, <1>2 DEF Carries, Reports, Open, Return, server
<1>6. Creates(f, "flush")
    BY <1>2, NothingCreated DEF Return, server, Attempt, TodosCreated
<1> QED
    BY <1>2, <1>4, <1>5, <1>6 DEF Takes

\* An infrastructure error ends op o.
LEMMA FailingStep ==
    ASSUME TypeOK, Attempt, NEW o \in Op, mode = "running", mode' = mode, prog' = prog,
           Failing(o), Arrive(o) \/ UNCHANGED promise, created' = created,
           status[o] \in Active, \A c \in Calls(o) : status[c] \notin Active,
           status[o] \in Open => status[o] = "flush",
           todos' = todos \/ todos' = [todos EXCEPT ![o] = {}]
    PROVE  Takes(o, "failed", "error")
<1>0. o \in Fn /\ o # Root
    BY Types, Tree DEF Op, Fn, Root
<1>1. Moves(o, "failed", "error") /\ givenUp \subseteq givenUp' /\ (Inline(o) => o \in givenUp')
    BY DEF Moves, Failing, End
<1>2. Legal(o, "failed", "error")
    BY <1>0 DEF Legal, Active, Open, Statuses, ResultAt
<1>3. \A x \in Fn : todos'[x] \subseteq todos[x] /\ (x # o => todos'[x] = todos[x])
    BY Types
<1>4. Carries(o, "failed") /\ Reports(o, "failed")
    BY <1>1, <1>3 DEF Carries, Reports, Open
<1>5. Creates(o, "failed")
    BY <1>0, <1>3, Requested DEF Creates, Attempt, TodosCreated
<1> QED
    BY <1>0, <1>1, <1>2, <1>4, <1>5 DEF Takes

LEMMA AbortStep ==
    ASSUME TypeOK, Attempt, NEW o \in Op, Abort(o) \/ LoseCreate(o)
    PROVE  mode' = "running" /\ Takes(o, "failed", "error")
<1>1. /\ mode = "running" /\ mode' = mode /\ prog' = prog /\ status[o] = "create"
      /\ Failing(o) /\ (Arrive(o) \/ UNCHANGED promise) /\ created' = created /\ todos' = todos
    BY DEF Abort, LoseCreate, Ready, Doomed
<1>2. \A c \in Calls(o) : status[c] \notin Active
    BY <1>1, NotOpen DEF Open
<1> QED
    BY <1>1, <1>2, FailingStep DEF Active, Open

LEMMA FailFlushStep ==
    ASSUME TypeOK, Attempt, NEW f \in Op, FailFlush(f)
    PROVE  mode' = "running" /\ Takes(f, "failed", "error")
<1>0. f # Root
    BY DEF Op, Root
<1>1. /\ mode = "running" /\ mode' = mode /\ prog' = prog /\ status[f] = "flush" /\ Flushed(f)
      /\ Failing(f) /\ promise' = promise /\ created' = created
      /\ todos' = [todos EXCEPT ![f] = {}]
    BY <1>0 DEF FailFlush, Flushed
<1> QED
    BY <1>1, FlushedIdle, FailingStep DEF Active, Open

LEMMA SettleStep ==
    ASSUME TypeOK, Attempt, NEW f \in Op, Settle(f) \/ LoseSettle(f)
    PROVE  /\ mode' = "running"
           /\ \/ Takes(f, "failed", "error") /\ Failing(f)
              \/ Takes(f, "done", result[f]) /\ End(f, "done", result[f])
<1>0. f \in Fn /\ f # Root
    BY Types, Tree DEF Op, Fn, Root
<1>1. /\ mode = "running" /\ mode' = mode /\ prog' = prog /\ status[f] = "settle"
      /\ (Arrive(f) \/ UNCHANGED promise) /\ created' = created /\ todos' = todos
    BY DEF Settle, LoseSettle
<1>2. \A c \in Calls(f) : status[c] \notin Active
    BY <1>1, NotOpen DEF Open
<1>3. CASE Failing(f)
    BY <1>1, <1>2, <1>3, FailingStep DEF Active, Open
<1>4. CASE ~Failing(f)
    <2>1. End(f, "done", result[f]) /\ givenUp \subseteq givenUp'
        BY <1>4 DEF Settle, LoseSettle
    <2>2. Moves(f, "done", result[f])
        BY <1>1, <2>1 DEF Moves, End
    <2>3. result[f] \in {"ok", "error"}
        BY <1>0, <1>1 DEF Attempt, ResultsFollow, ResultAt
    <2>4. Legal(f, "done", result[f])
        BY <1>0, <1>1, <1>2, <2>3 DEF Legal, Active, Open, Statuses, ResultAt
    <2>5. Carries(f, "done") /\ Reports(f, "done")
        BY <1>1, <2>1 DEF Carries, Reports, Open
    <2>6. Creates(f, "done")
        BY <1>0, <1>1, Requested DEF Creates, Attempt, TodosCreated
    <2>7. Takes(f, "done", result[f])
        BY <2>2, <2>4, <2>5, <2>6 DEF Takes
    <2> QED
        BY <1>1, <2>1, <2>7
<1> QED
    BY <1>3, <1>4, <1>1

LEMMA FinishStep ==
    ASSUME TypeOK, Attempt, NEW f \in Op, Finish(f)
    PROVE  mode' = "running" /\ Takes(f, "settle", result[f])
<1>0. f \in Fn /\ f # Root
    BY Types, Tree DEF Op, Fn, Root
<1>1. /\ Flushed(f) /\ ~FlushError(f) /\ Collected(f) = {} /\ status[f] = "flush"
      /\ mode = "running" /\ mode' = mode /\ prog' = prog /\ promise' = promise
      /\ status' = [status EXCEPT ![f] = "settle"]
      /\ UNCHANGED <<result, todos, created, givenUp>>
    BY <1>0 DEF Finish, Flushed
<1>2. Moves(f, "settle", result[f])
    BY <1>0, <1>1, Types DEF Moves
<1>3. Legal(f, "settle", result[f])
    BY <1>0, <1>1, FlushedIdle, NothingLeft DEF Legal, Active, Open, Statuses, ResultAt
<1>4. Carries(f, "settle") /\ Reports(f, "settle")
    BY <1>1 DEF Carries, Reports, Open
<1>5. Creates(f, "settle")
    BY <1>1, NothingCreated DEF Attempt, TodosCreated
<1> QED
    BY <1>0, <1>1, <1>2, <1>3, <1>4, <1>5 DEF Takes

LEMMA SuspendStep ==
    ASSUME TypeOK, Attempt, NEW f \in Op, Suspend(f)
    PROVE  mode' = "running" /\ Takes(f, "suspended", IF Inline(f) THEN result[f] ELSE "suspended")
<1>0. f \in Fn /\ f # Root /\ prog.caller[f] \in Fn
    BY Types, Tree DEF Op, Fn, Root
<1> DEFINE ts == Collected(f)
<1> DEFINE r == IF Inline(f) THEN result[f] ELSE "suspended"
<1> DEFINE x == IF Inline(f) THEN prog.caller[f] ELSE f
<1>1. /\ Flushed(f) /\ ~FlushError(f) /\ ts # {} /\ status[f] = "flush"
      /\ mode = "running" /\ mode' = mode /\ prog' = prog
      /\ HoistTodos(f, ts)
      /\ promise' = promise /\ created' = created /\ givenUp' = givenUp
    BY <1>0 DEF Suspend, Flushed, server
<1>2. todos[f] \subseteq ts /\ ts \subseteq created
    <2>1. \A s \in Spawns(f) : s \in Fn
        BY Types, Tree DEF Spawns, Calls, Op, Fn
    <2> QED
        BY <2>1, <1>0 DEF Collected, Attempt, TodosCreated
<1> HIDE DEF ts
<1>3. End(f, "suspended", r) /\ x \in Fn
    BY <1>0, <1>1 DEF HoistTodos
<1>4. \A y \in Fn : todos'[y] = (IF y = x THEN todos[y] \cup ts ELSE todos[y])
    BY <1>0, <1>1, <1>2, Types DEF HoistTodos
<1>5. Moves(f, "suspended", r)
    BY <1>1, <1>3 DEF Moves, End
<1>6. Legal(f, "suspended", r)
    <2>1. r # "none"
        BY <1>0, <1>1 DEF Attempt, ResultsFollow, ResultAt
    <2> QED
        BY <1>0, <1>1, <2>1, FlushedIdle DEF Legal, Active, Open, Statuses, ResultAt
<1>7. Carries(f, "suspended")
    BY <1>0, <1>1, <1>4 DEF Carries
<1>8. Reports(f, "suspended")
    BY <1>0, <1>1, <1>4 DEF Reports, ts
<1>9. Creates(f, "suspended")
    BY <1>1, <1>2, <1>4, NothingCreated DEF Attempt, TodosCreated
<1> QED
    BY <1>0, <1>1, <1>5, <1>6, <1>7, <1>8, <1>9 DEF Takes

LEMMA CreateStep ==
    ASSUME TypeOK, Attempt, NEW o \in Op, Create(o)
    PROVE  /\ mode' = "running" /\ promise'[o] = Arrived(o)
           /\ \/ Takes(o, "body", "none") /\ prog.kind[o] = "local" /\ promise'[o] = "pending"
              \/ Takes(o, "suspended", "suspended") /\ prog.kind[o] \in Remote
              \/ Takes(o, "done", "ok") /\ prog.kind[o] = "detached"
              \/ Takes(o, "done", "ok") /\ Arrived(o) = "resolved"
              \/ Takes(o, "done", "error") /\ Arrived(o) = "rejected"
<1>0. o \in Fn /\ o # Root /\ prog.caller[o] \in Fn
    BY Types, Tree DEF Op, Fn, Root
<1>1. /\ mode = "running" /\ mode' = mode /\ prog' = prog /\ status[o] = "create"
      /\ Arrive(o) /\ created' = created \cup {o} /\ givenUp' = givenUp /\ result[o] = "none"
    BY <1>0 DEF Create, Ready, Attempt, ResultsFollow, ResultAt
<1>2. promise'[o] = Arrived(o) /\ promise'[o] \in {"pending"} \cup Settled
    BY <1>0, <1>1, Types, ArrivedType DEF Arrive, Promises
<1>3. \A c \in Calls(o) : status[c] \notin Active
    BY <1>1, NotOpen DEF Open
<1>4. ASSUME NEW how \in {"body", "suspended", "done"}, NEW r, ResultAt(how, r)
      PROVE  Legal(o, how, r) /\ Reports(o, how)
    BY <1>0, <1>1, <1>3, <1>4 DEF Legal, Reports, Active, Open, Statuses
<1>5. ASSUME NEW how,
             \A y \in Fn : todos'[y] \subseteq todos[y] \cup {o},
             prog.kind[o] \in Remote /\ promise'[o] = "pending" =>
                /\ how = "suspended"
                /\ o \in todos'[IF Inline(o) THEN prog.caller[o] ELSE o]
      PROVE  Creates(o, how)
    <2>1. \A y \in Fn : todos'[y] \subseteq created'
        BY <1>1, <1>5 DEF Attempt, TodosCreated
    <2>2. promise'[o] # "absent"
        BY <1>2 DEF Settled
    <2> QED
        BY <1>0, <1>1, <1>5, <2>1, <2>2, Requested DEF Creates
<1>6. ASSUME NEW r \in {"ok", "error"}, End(o, "done", r), todos' = todos,
             prog.kind[o] \notin Remote \/ promise'[o] # "pending"
      PROVE  Takes(o, "done", r)
    <2>1. Moves(o, "done", r) /\ Carries(o, "done")
        BY <1>1, <1>6 DEF Moves, Carries, End
    <2>2. Legal(o, "done", r) /\ Reports(o, "done") /\ Creates(o, "done")
        BY <1>4, <1>5, <1>6 DEF ResultAt
    <2> QED
        BY <1>0, <2>1, <2>2 DEF Takes
<1>7. CASE Arrived(o) \in Settled
    <2>1. todos' = todos /\ End(o, "done", IF Arrived(o) = "resolved" THEN "ok" ELSE "error")
        BY <1>7 DEF Create
    <2> QED
        BY <2>1, <1>1, <1>2, <1>6, <1>7 DEF Settled
<1>8. CASE Arrived(o) \notin Settled
    <2>1. Pending(o) /\ promise'[o] = "pending"
        BY <1>2, <1>8 DEF Create
    <2>2. CASE prog.kind[o] = "local"
        <3>1. Execute(o)
            BY <2>1, <2>2, PendingCases
        <3>2. Moves(o, "body", "none") /\ todos' = todos
            BY <3>1, <1>0, <1>1, Types DEF Execute, Moves
        <3>3. Carries(o, "body") /\ Legal(o, "body", "none") /\ Reports(o, "body")
            BY <3>2, <1>4 DEF Carries, ResultAt
        <3>4. Creates(o, "body")
            BY <1>5, <2>2, <3>2 DEF Remote
        <3>5. Takes(o, "body", "none")
            BY <3>2, <3>3, <3>4 DEF Takes
        <3> QED
            BY <3>5, <1>1, <1>2, <2>1, <2>2
    <2>3. CASE prog.kind[o] \in Remote
        <3>1. IF Inline(o) THEN BlockOnRemote(o) ELSE SpawnRemote(o)
            BY <2>1, <2>3, PendingCases
        <3> DEFINE x == IF Inline(o) THEN prog.caller[o] ELSE o
        <3>2. End(o, "suspended", "suspended") /\ x \in Fn
            BY <3>1, <1>0 DEF BlockOnRemote, SpawnRemote
        <3>3. todos' = [todos EXCEPT ![x] = @ \cup {o}] \/ (x = o /\ todos' = [todos EXCEPT ![x] = {o}])
            BY <3>1 DEF BlockOnRemote, SpawnRemote
        <3>4. \A y \in Fn : y # x => todos'[y] = todos[y]
            BY <3>2, <3>3, Types
        <3>5. o \in todos'[x] /\ todos'[x] \subseteq todos[x] \cup {o}
            BY <3>2, <3>3, Types
        <3>6. x # o => todos[x] \subseteq todos'[x]
            BY <3>2, <3>3, Types
        <3>7. Calls(o) = {}
            BY <2>3, ContextAssumption, Types, <1>0 DEF Calls, Remote
        <3>8. Moves(o, "suspended", "suspended")
            BY <1>1, <3>2 DEF Moves, End
        <3>9. Carries(o, "suspended")
            BY <1>0, <3>4, <3>5, <3>6, <3>7 DEF Carries, Open
        <3>10. Legal(o, "suspended", "suspended") /\ Reports(o, "suspended")
            BY <1>4 DEF ResultAt
        <3>11. Creates(o, "suspended")
            <4>1. \A y \in Fn : todos'[y] \subseteq todos[y] \cup {o}
                BY <3>4, <3>5
            <4> QED
                BY <4>1, <1>5, <3>5
        <3>12. Takes(o, "suspended", "suspended")
            BY <3>8, <3>9, <3>10, <3>11 DEF Takes
        <3> QED
            BY <3>12, <1>1, <1>2, <2>3
    <2>4. CASE prog.kind[o] = "detached"
        <3>1. End(o, "done", "ok") /\ todos' = todos
            BY <2>1, <2>4, PendingCases DEF Detach
        <3>2. Takes(o, "done", "ok")
            BY <3>1, <1>6, <2>4 DEF Remote
        <3> QED
            BY <3>2, <1>1, <1>2, <2>4
    <2> QED
        BY <2>2, <2>3, <2>4, Types, Tree
<1> QED
    BY <1>1, <1>7, <1>8

\* A background task panics: what is below it goes with it, and what it kept is given
\* up with it.
LEMMA PanicStep ==
    ASSUME TypeOK, Attempt, NEW f \in Fn, Panic(f), Task(f) # Root
    PROVE  mode' = "running" /\ Attempt'
<1> DEFINE b == Task(f)
<1> DEFINE T == Below(b) \cup {b}
<1>1. b \in Above[f] /\ b \in Fn /\ b \in prog.spawned /\ status[b] = "body"
    BY TaskRuns DEF Panic
<1>2. /\ mode' = "running" /\ prog' = prog /\ todos' = todos /\ created' = created
      /\ status' = [o \in Fn |-> IF o \in T THEN "gone" ELSE status[o]]
      /\ result' = [result EXCEPT ![b] = "error"]
      /\ givenUp' = givenUp \cup {b}
      /\ \E late : promise' = [o \in Fn |-> IF o \in late THEN Arrived(o) ELSE promise[o]]
    BY DEF Panic, Running
<1>3. prog \in Programs /\ b \in Op /\ b # Root /\ Root \in Fn /\ Above' = Above
    BY <1>1, <1>2, Types, Tree DEF Op, Fn, Root, Above
<1> HIDE DEF b
<1>4. ASSUME NEW o \in Op
      PROVE  /\ o \in Fn /\ prog.caller[o] \in Fn
             /\ o \in T <=> b \in Above[o]
             /\ prog.caller[o] \in T => o \in T /\ o # b
             /\ o \in T => o = b \/ prog.caller[o] \in T
    BY <1>3, BelowCaller
<1>5. Root \notin T
    BY <1>3 DEF Below, Op, Root
<1>6. T \subseteq Op
    BY <1>3 DEF Below
<1> HIDE DEF T
<1>7. /\ \A o \in Fn : status'[o] = (IF o \in T THEN "gone" ELSE status[o])
      /\ \A o \in Fn : result'[o] = (IF o = b THEN "error" ELSE result[o])
      /\ b \in T
    BY <1>2, <1>3, Types DEF T
<1>8. /\ \A g \in Fn : Calls(g)' = Calls(g) /\ Spawns(g)' = Spawns(g)
      /\ \A o \in Op : Inline(o)' = Inline(o)
    BY <1>2 DEF Calls, Spawns, Inline
<1>9. RootOpen' /\ CallersOpen'
    <2>1. RootOpen'
        BY <1>3, <1>5, <1>7 DEF RootOpen, Attempt
    <2>2. ASSUME NEW o \in Op, status'[o] \in Active
          PROVE  status'[o] = status[o] /\ status'[prog.caller[o]] = status[prog.caller[o]]
        BY <1>4, <1>7, <2>2 DEF Active
    <2> QED
        BY <1>2, <1>8, <2>1, <2>2 DEF CallersOpen, Attempt
<1>10. ResultsFollow'
    BY <1>7 DEF ResultsFollow, Attempt, ResultAt
<1>11. GoneTogether'
    <2>1. SUFFICES ASSUME NEW o \in Op, status'[o] = "gone"
                   PROVE  \/ status'[prog.caller[o]] = "gone"
                          \/ (o \in prog.spawned /\ result'[o] = "error")
        BY <1>2 DEF GoneTogether
    <2>2. CASE o \in T
        BY <2>2, <1>1, <1>4, <1>7 DEF b
    <2>3. CASE o \notin T
        <3>1. status[o] = "gone" /\ result'[o] = result[o]
            BY <2>1, <2>3, <1>4, <1>7
        <3>2. status[prog.caller[o]] = "gone" \/ (o \in prog.spawned /\ result[o] = "error")
            BY <3>1 DEF Attempt, GoneTogether
        <3> QED
            BY <3>1, <3>2, <1>4, <1>7
    <2> QED
        BY <2>2, <2>3
<1>12. SuspendedHasTodos'
    <2>1. ASSUME NEW o \in Op, status'[o] = "suspended"
          PROVE  /\ status[o] = "suspended" /\ result'[o] = result[o]
                 /\ status'[prog.caller[o]] = status[prog.caller[o]]
        BY <1>4, <1>7, <2>1
    <2> QED
        BY <1>2, <1>8, <2>1 DEF SuspendedHasTodos, Attempt
<1>13. FlushHasCause'
    <2>1. SUFFICES ASSUME NEW g \in Fn, status'[g] = "flush", result'[g] = "suspended"
                   PROVE  HasCause(g)'
        BY DEF FlushHasCause
    <2>2. g \notin T /\ HasCause(g)
        BY <2>1, <1>7 DEF Attempt, FlushHasCause
    <2>3. ASSUME NEW s \in Spawns(g), status[s] # "body"
          PROVE  status'[s] = status[s] /\ result'[s] = result[s]
        <3>1. s \in Op /\ prog.caller[s] = g
            BY DEF Spawns, Calls
        <3>2. s # b
            BY <2>3, <1>1 DEF b
        <3> QED
            BY <3>1, <3>2, <2>2, <1>4, <1>7
    <2> QED
        BY <2>2, <2>3, <1>2, <1>8 DEF HasCause
<1>14. \A o \in Fn : promise[o] # "absent" =>
           promise'[o] # "absent" /\ (promise'[o] = "pending" => promise[o] = "pending")
    <2>1. \A o \in Fn : promise'[o] \in {promise[o], Arrived(o)}
        BY <1>2
    <2>2. \A o \in Fn : promise[o] \in Promises
        BY Types
    <2> QED
        BY <2>1, <2>2, ArrivedType DEF Promises, Settled
<1>15. created \subseteq Op /\ Op \subseteq Fn
    BY <1>4, Types
<1>16. TodosCreated'
    BY <1>2, <1>14, <1>15 DEF TodosCreated, Attempt
<1>17. TodosKept'
    <2>1. SUFFICES ASSUME NEW o \in Outstanding' PROVE \E x \in Above[o] : Keeps(x, o)'
        BY <1>3 DEF TodosKept
    <2>2. /\ o \in created /\ prog.kind[o] \in Remote /\ promise'[o] = "pending"
          /\ Above[o] \cap givenUp = {} /\ b \notin Above[o]
        BY <1>2, <1>3 DEF Outstanding
    <2>3. o \in Outstanding
        BY <2>2, <1>14, <1>15 DEF Outstanding, TodosCreated, Attempt
    <2>4. PICK x \in Above[o] : Keeps(x, o)
        BY <2>3 DEF TodosKept, Attempt
    <2>5. x \in Fn /\ b \notin Above[x]
        BY <2>2, <2>4, <1>3, <1>15, AboveClosed, AboveTransitive
    <2>6. x \notin T
        BY <2>5, <1>4, <1>6
    <2>7. x \in prog.spawned => x \in Op /\ prog.caller[x] \notin T
        BY <2>6, <1>3, <1>4, Tree
    <2>8. Keeps(x, o)'
        BY <2>4, <2>5, <2>6, <2>7, <1>2, <1>4, <1>7 DEF Keeps
    <2> QED
        BY <2>4, <2>8
<1> QED
    BY <1>2, <1>9, <1>10, <1>11, <1>12, <1>13, <1>16, <1>17 DEF Attempt

\* Other work settles: the attempt does not see it.
LEMMA RemoteSettleStep ==
    ASSUME TypeOK, Attempt, NEW o \in Op, RemoteSettle(o)
    PROVE  Attempt'
<1>1. /\ prog' = prog /\ givenUp' = givenUp /\ status' = status /\ result' = result
      /\ todos' = todos /\ created' = created
    BY DEF RemoteSettle, attempt
<1>2. \A x \in Fn : promise'[x] = promise[x] \/ (promise[x] = "pending" /\ promise'[x] \in Settled)
    BY Types DEF RemoteSettle, Outcomes, Settled
<1>3. created \subseteq Fn
    BY Types, Tree DEF Op, Fn
<1>4. /\ RootOpen' /\ CallersOpen' /\ ResultsFollow' /\ GoneTogether' /\ SuspendedHasTodos'
      /\ FlushHasCause'
    BY <1>1 DEF Attempt, RootOpen, CallersOpen, ResultsFollow, GoneTogether, SuspendedHasTodos,
                FlushHasCause, HasCause, Spawns, Calls, Inline
<1>5. TodosCreated'
    BY <1>1, <1>2, <1>3 DEF Attempt, TodosCreated, Settled
<1>6. TodosKept'
    <2>1. Outstanding' \subseteq Outstanding
        BY <1>1, <1>2, <1>3 DEF Outstanding, Settled, Above
    <2>2. \A x, y : Keeps(x, y)' = Keeps(x, y)
        BY <1>1 DEF Keeps
    <2> QED
        BY <1>1, <2>1, <2>2 DEF TodosKept, Attempt, Above
<1> QED
    BY <1>4, <1>5, <1>6 DEF Attempt

\* The root function starts.
LEMMA FreshAttempt ==
    ASSUME prog \in Programs, status = Fresh, result = [f \in Fn |-> "none"],
           todos = [f \in Fn |-> {}], created = {}
    PROVE  Attempt
<1>1. /\ Root \in Fn /\ \A f \in Fn : status[f] = (IF f = Root THEN "body" ELSE "latent")
      /\ \A o \in Op : o \in Fn /\ status[o] = "latent"
    BY Tree DEF Fresh, Op, Fn, Root
<1> QED
    BY <1>1 DEF Attempt, RootOpen, CallersOpen, ResultsFollow, ResultAt, GoneTogether,
                SuspendedHasTodos, FlushHasCause, TodosKept, TodosCreated, Outstanding, Active, Open

LEMMA AttemptStep ==
    ASSUME TypeOK, mode = "running" => Attempt, [Next]_vars, mode' = "running"
    PROVE  Attempt'
<1>0. Op \subseteq Fn
    BY Types, Tree DEF Op, Fn
<1>1. ASSUME NEW f \in Fn, Step(f) PROVE Attempt'
    <2>1. mode = "running"
        BY <1>1 DEF Step, Return, Running, FailFlush, Suspend, Finish, Flushed, Issue, Refuse,
                    Reached, Create, Abort, Settle
    <2>2. CASE f = Root
        <3>1. Root \notin Op
            BY DEF Op, Root
        <3>2. Return(Root)
            BY <1>1, <2>2, <3>1 DEF Step, FailFlush, Suspend, Finish
        <3> QED
            BY <3>2, <2>1, <2>2, ReturnStep, MoveKeeps
    <2>3. CASE f # Root
        <3>1. f \in Op
            BY <2>3 DEF Fn, Op, Root
        <3> QED
            BY <3>1, <1>1, <2>1, ReturnStep, FailFlushStep, SuspendStep, FinishStep, IssueStep,
               RefuseStep, CreateStep, AbortStep, SettleStep, MoveKeeps DEF Step
    <2> QED
        BY <2>2, <2>3
<1>2. ASSUME NEW f \in Fn, Panic(f) PROVE Attempt'
    <2>1. mode = "running" /\ Task(f) # Root
        BY <1>2 DEF Panic, Running
    <2> QED
        BY <1>2, <2>1, PanicStep
<1>3. ASSUME NEW o \in Op, LoseCreate(o) \/ LoseSettle(o) PROVE Attempt'
    <2>1. mode = "running"
        BY <1>3 DEF LoseCreate, LoseSettle
    <2> QED
        BY <1>0, <1>3, <2>1, AbortStep, SettleStep, MoveKeeps
<1>4. ASSUME NEW o \in Op, RemoteSettle(o) PROVE Attempt'
    <2>1. mode = "running"
        BY <1>4 DEF RemoteSettle, attempt
    <2> QED
        BY <1>4, <2>1, RemoteSettleStep
<1>5. CASE NewAttempt
    <2>1. /\ (prog \in Programs)' /\ (status = Fresh)' /\ (result = [f \in Fn |-> "none"])'
          /\ (todos = [f \in Fn |-> {}])' /\ (created = {})'
        BY <1>5, Types DEF NewAttempt, Fresh
    <2> QED
        BY <2>1, FreshAttempt, PTL
<1>6. CASE UNCHANGED vars
    <2>1. Attempt
        BY <1>6 DEF vars
    <2> QED
        BY <2>1, <1>6 DEF vars, Attempt, RootOpen, CallersOpen, ResultsFollow, GoneTogether,
              SuspendedHasTodos, FlushHasCause, HasCause, Spawns, Calls, Inline, TodosKept,
              TodosCreated, Outstanding, Keeps, Above
<1> QED
    BY <1>1, <1>2, <1>3, <1>4, <1>5, <1>6 DEF Next

-----------------------------------------------------------------------------
(* Suspension has a cause *)

LEMMA CauseStep ==
    ASSUME TypeOK, mode = "running" => Attempt, SuspensionHasCause, [Next]_vars
    PROVE  SuspensionHasCause'
<1>0. Op \subseteq Fn
    BY Types, Tree DEF Op, Fn
<1>1. CASE mode' = "running"
    <2>1. Attempt'
        BY <1>1, AttemptStep
    <2> QED
        BY <1>0, <1>1, <2>1 DEF SuspensionHasCause, Attempt, ResultsFollow, ResultAt
<1>2. CASE mode' # "running" /\ mode' = mode
    <2>1. status' = status /\ result' = result
        <3>1. ASSUME NEW f \in Fn PROVE ~Step(f) /\ ~Panic(f)
            BY <1>2 DEF Step, Return, Running, FailFlush, Suspend, Finish, Flushed, Issue, Refuse,
                        Reached, Create, Abort, Settle, Panic
        <3>2. ASSUME NEW o \in Op PROVE ~LoseCreate(o) /\ ~LoseSettle(o)
            BY <1>2 DEF LoseCreate, LoseSettle
        <3>3. ~NewAttempt
            BY <1>2 DEF NewAttempt
        <3> QED
            BY <3>1, <3>2, <3>3 DEF Next, RemoteSettle, attempt, vars
    <2> QED
        BY <1>2, <2>1 DEF SuspensionHasCause
<1>3. CASE mode' # "running" /\ mode' # mode
    <2>1. PICK f \in Fn : FailFlush(f) \/ Suspend(f) \/ Finish(f) \/ Panic(f)
        BY <1>3 DEF Next, Step, Return, Issue, Refuse, Create, Abort, Settle, LoseCreate, LoseSettle,
                    RemoteSettle, NewAttempt, attempt, vars
    <2>2. mode = "running" /\ result' = result
        BY <1>3, <2>1 DEF FailFlush, Suspend, Finish, Panic, Flushed, Running
    <2>3. \A o \in Op : status'[o] = "settle" => status[o] = "settle"
        BY <1>0, <1>3, <2>1 DEF FailFlush, Suspend, Finish, Panic
    <2>4. mode' = "finished" => result[Root] # "suspended"
        <3>1. SUFFICES ASSUME mode' = "finished" PROVE result[Root] # "suspended"
            OBVIOUS
        <3>2. Finish(f) /\ f = Root
            BY <1>3, <2>1, <3>1 DEF FailFlush, Suspend, Finish, Panic
        <3> QED
            BY <3>2, <2>2, NothingLeft DEF Finish
    <2> QED
        BY <2>2, <2>3, <2>4 DEF SuspensionHasCause
<1> QED
    BY <1>1, <1>2, <1>3

-----------------------------------------------------------------------------
(* The task waits for its work *)

\* When the root is flushed, nothing but the root is open.
LEMMA OnlyRootOpen ==
    ASSUME TypeOK, Attempt, Flushed(Root), NEW z \in Fn, status[z] \in Open
    PROVE  z = Root
<1> SUFFICES ASSUME z # Root PROVE FALSE
    OBVIOUS
<1>0. prog \in Programs /\ z \in Op
    BY Types DEF Fn, Op, Root
<1>3. \A y \in Above[z] : status[y] \in Open
    BY OpenUp
<1>4. PICK x \in Above[z] \cap Op : prog.caller[x] = Root
    BY <1>0, TopAbove
<1>5. status[x] \in Active
    BY <1>3, <1>4 DEF Active, Open
<1>6. x \in Calls(Root)
    BY <1>4 DEF Calls
<1> QED
    BY <1>5, <1>6, FlushedIdle

LEMMA SuspendedRootWaits ==
    ASSUME TypeOK, Attempt, Suspend(Root)
    PROVE  WaitsForItsWork'
<1>1. /\ Flushed(Root) /\ ~FlushError(Root) /\ Collected(Root) # {} /\ awaited' = Collected(Root)
      /\ prog' = prog /\ promise' = promise /\ givenUp' = givenUp /\ created' = created
    BY DEF Suspend, server
<1>2. Root \in Fn /\ prog \in Programs /\ created \subseteq Op /\ Above' = Above
    BY <1>1, Types, Tree DEF Fn, Root, Above
<1> DEFINE remote == {o \in created : prog.kind[o] \in Remote}
<1>3. Collected(Root) \subseteq remote
    <2>1. Collected(Root) \subseteq RemoteOps
        BY <1>2, CollectedType
    <2>2. \A s \in Spawns(Root) : s \in Fn
        BY <1>2, Tree DEF Spawns, Calls, Op, Fn
    <2>3. Collected(Root) \subseteq created
        BY <2>2, <1>2 DEF Collected, Attempt, TodosCreated
    <2> QED
        BY <2>1, <2>3 DEF RemoteOps
<1>4. ASSUME NEW o \in remote, promise[o] = "pending", Above[o] \cap givenUp = {}
      PROVE  o \in Collected(Root)
    <2>1. PICK x \in Above[o] : Keeps(x, o)
        BY <1>4 DEF Attempt, TodosKept, Outstanding
    <2>2. o \in Fn /\ x \in Fn
        <3>1. o \in Fn
            BY <1>2, Tree DEF Op, Fn
        <3> QED
            BY <3>1, <1>2, AboveClosed
    <2>3. CASE status[x] \in Open /\ o \in todos[x]
        <3>1. x = Root
            BY <2>2, <2>3, <1>1, OnlyRootOpen
        <3> QED
            BY <3>1, <2>3 DEF Collected
    <2>4. CASE /\ x \in prog.spawned /\ status[prog.caller[x]] \in Open
               /\ (status[x] = "suspended" /\ o \in todos[x]) \/ status[x] = "failed"
        <3>1. x \in Op /\ prog.caller[x] \in Fn
            BY <2>4, <1>2, Tree
        <3>2. prog.caller[x] = Root
            BY <3>1, <2>4, <1>1, OnlyRootOpen
        <3>3. x \in Spawns(Root)
            BY <3>1, <3>2, <2>4 DEF Spawns, Calls
        <3>4. status[x] = "suspended" /\ o \in todos[x]
            BY <3>3, <2>4, <1>1 DEF FlushError
        <3> QED
            BY <3>3, <3>4 DEF Collected
    <2> QED
        BY <2>1, <2>3, <2>4 DEF Keeps
<1> QED
    BY <1>1, <1>2, <1>3, <1>4 DEF WaitsForItsWork

LEMMA WaitsStep ==
    ASSUME TypeOK, mode = "running" => Attempt, WaitsForItsWork, [Next]_vars
    PROVE  WaitsForItsWork'
<1>0. Op \subseteq Fn
    BY Types, Tree DEF Op, Fn
<1>1. SUFFICES ASSUME mode' = "waiting" PROVE WaitsForItsWork'
    BY DEF WaitsForItsWork
<1>2. CASE mode = "waiting"
    <2>1. \/ \E o \in Op : RemoteSettle(o)
          \/ UNCHANGED vars
        <3>1. ASSUME NEW f \in Fn PROVE ~Step(f) /\ ~Panic(f)
            BY <1>2 DEF Step, Return, Running, FailFlush, Suspend, Finish, Flushed, Issue, Refuse,
                        Reached, Create, Abort, Settle, Panic
        <3>2. ASSUME NEW o \in Op PROVE ~LoseCreate(o) /\ ~LoseSettle(o)
            BY <1>2 DEF LoseCreate, LoseSettle
        <3>3. ~NewAttempt
            BY <1>1 DEF NewAttempt
        <3> QED
            BY <3>1, <3>2, <3>3 DEF Next
    <2>2. /\ prog' = prog /\ givenUp' = givenUp /\ created' = created /\ awaited' = awaited
          /\ Above' = Above
        BY <2>1 DEF RemoteSettle, attempt, vars, Above
    <2>3. \A o \in Fn : promise'[o] = "pending" => promise[o] = "pending"
        BY <2>1, Types DEF RemoteSettle, Outcomes, Settled, vars
    <2>4. created \subseteq Fn
        BY <1>0, Types
    <2> QED
        BY <1>2, <2>2, <2>3, <2>4 DEF WaitsForItsWork
<1>3. CASE mode # "waiting"
    <2>1. PICK f \in Fn : Suspend(f) /\ f = Root
        BY <1>1, <1>3 DEF Next, Step, Return, FailFlush, Suspend, Finish, Issue, Refuse, Create, Abort,
              Settle, LoseCreate, LoseSettle, Panic, RemoteSettle, NewAttempt, attempt, vars
    <2>2. mode = "running"
        BY <2>1 DEF Suspend, Flushed
    <2> QED
        BY <2>1, <2>2, SuspendedRootWaits
<1> QED
    BY <1>2, <1>3

-----------------------------------------------------------------------------
(* What attempts leave to one another *)

\* x is bound to fail: it makes an unfit call, and passes errors on.
Unsound(x) == x \notin prog.catching /\ Calls(x) \cap prog.unfit # {}

\* g cannot fail in another attempt: none of the ops that would end it with their
\* failure does.
Firm(g) ==
    \A x \in Op : g \in EndedWith(x) =>
        /\ x \notin prog.unfit /\ ~Unsound(x)
        /\ prog.kind[x] \in Remote => promise[x] = "resolved"

\* g fails in every attempt, for one of them.
Culprit(g) ==
    \E x \in Op : /\ g \in EndedWith(x)
                  /\ \/ x \in prog.unfit \/ Unsound(x)
                     \/ prog.kind[x] \in Remote /\ promise[x] = "rejected"

\* g fails in this attempt, for an op that was given up.
Excuse(g) == \E x \in givenUp : g \in EndedWith(x)

Blame(g) == Culprit(g) \/ Excuse(g)

\* The calls whose errors a function meets before it makes call y.
Before(y) == {p \in Calls(prog.caller[y]) : p < y /\ (Inline(p) \/ p \in prog.unfit)}

\* Promises are created from the root down, and of fit calls only.
CallersThere ==
    \A o \in Op : promise[o] # "absent" =>
        promise[prog.caller[o]] # "absent" /\ o \notin prog.unfit

\* They are created after calls that do not fail another time.
InFirmOrder(y) == prog.caller[y] \in prog.catching \/ \A p \in Before(y) : Firm(p)

Prepared == \A y \in Op : promise[y] # "absent" => InFirmOrder(y)

\* A function that succeeded does not fail another time; one that failed did for a cause.
ResolvedFirm == \A x \in Op : prog.kind[x] = "local" /\ promise[x] = "resolved" => Firm(x)

RejectedBlamed ==
    \A x \in Op : prog.kind[x] = "local" /\ promise[x] = "rejected" =>
        Culprit(x) \/ \E g \in givenUp \ {x} : x \in EndedWith(g)

History == CallersThere /\ Prepared /\ ResolvedFirm /\ RejectedBlamed

-----------------------------------------------------------------------------
(* What an attempt keeps of it *)

\* What was given up is over, or a function above it is settled.
GivenUpEnded ==
    \A g \in givenUp :
        \/ status[g] \in {"done", "failed", "gone"}
        \/ \E f \in Above[g] \ {g} : promise[f] \in Settled

\* What is under way is fit, not given up, and pending; what is executed is a function.
BusyPending ==
    \A f \in Fn : status[f] \in Active =>
        /\ f \notin givenUp \cup prog.unfit
        /\ status[f] # "create" => promise[f] = "pending" /\ (f = Root \/ prog.kind[f] = "local")

\* What is over is settled, or it is known why not.
DoneSettled ==
    \A o \in Op : status[o] = "done" /\ prog.kind[o] # "detached" =>
        promise[o] \in Settled \/ o \in givenUp \cup prog.unfit

EndedGivenUp ==
    \A o \in Op :
        /\ status[o] = "failed" /\ Inline(o) => o \in givenUp
        /\ status[o] = "gone" => status[prog.caller[o]] = "gone" \/ o \in givenUp

UnfitRefused ==
    \A x \in prog.unfit :
        /\ status[x] \in {"latent", "done", "gone"}
        /\ status[x] = "done" => result[x] = "error"

\* A function makes its calls in order, and all of them unless it is stopped.
InOrder ==
    \A o, p \in Op :
        prog.caller[o] = prog.caller[p] /\ o < p /\ status[o] = "latent" =>
            status[p] = "latent" \/ status[prog.caller[o]] = "gone"

StoppedEarly ==
    \A f \in Fn : status[f] = "flush" /\ (\E o \in Calls(f) : status[o] = "latent") => Stopped(f)

CreatePrepared == \A y \in Op : status[y] = "create" => InFirmOrder(y)

\* What an op returned is what it would return another time, or has a cause; a function
\* that is not flushed may still find that it has work left.
OkFirm == \A x \in Op : result[x] = "ok" /\ prog.kind[x] # "detached" => Firm(x)

ErrorCause(x) ==
    \/ Blame(x) \/ todos[x] # {}
    \/ \E s \in Spawns(x) : \/ status[s] \in {"suspended", "failed"}
                            \/ /\ s \in prog.joined /\ x \notin prog.catching
                               /\ status[s] = "flush" /\ result[s] = "error"

ErrorBlamed ==
    \A x \in Op : result[x] = "error" /\ prog.kind[x] # "detached" =>
        /\ status[x] \in {"done", "settle"} => Blame(x)
        /\ status[x] = "flush" => ErrorCause(x)

\* A function that is to be settled left nothing pending.
Covered(f) ==
    \A o \in Below(f) : promise[o] = "pending" /\ prog.kind[o] # "detached" =>
        \E g \in givenUp \cap Below(f) : o \in Cut(g)

SettleCovered == \A f \in Op : status[f] = "settle" => Covered(f)

\* The root is pending until the task is finished.
RootPending == mode # "finished" => promise[Root] = "pending"

Record ==
    /\ GivenUpEnded /\ BusyPending /\ DoneSettled /\ EndedGivenUp /\ UnfitRefused
    /\ InOrder /\ StoppedEarly /\ CreatePrepared
    /\ OkFirm /\ ErrorBlamed /\ SettleCovered

-----------------------------------------------------------------------------
(* The ends that a failure brings about *)

\* An op ends with its own failure.
LEMMA EndsItself ==
    ASSUME prog \in Programs, NEW g \in Op
    PROVE  g \in EndedWith(g)
<1>1. g \in Fn /\ g # Root
    BY Tree DEF Fn, Op, Root
<1> QED
    BY <1>1, AboveClosed DEF EndedWith

\* A function ends with what it awaits, unless it ignores errors.
LEMMA EndsCaller ==
    ASSUME prog \in Programs, NEW c \in Op, prog.caller[c] \in Op,
           c \notin prog.spawned \ prog.joined, prog.caller[c] \notin prog.catching
    PROVE  prog.caller[c] \in EndedWith(c)
<1>1. /\ prog.caller[c] \in Fn /\ Above[c] = {c} \cup Above[prog.caller[c]]
      /\ Above[prog.caller[c]] \subseteq 0 .. prog.caller[c]
      /\ prog.caller[c] \in Above[prog.caller[c]]
    BY AboveCaller, AboveClosed
<1>2. prog.caller[c] # Root
    BY DEF Op, Root
<1> QED
    BY <1>1, <1>2 DEF EndedWith

\* What ends with x, and x with g, ends with g.
LEMMA EndsOn ==
    ASSUME prog \in Programs, NEW g \in Op, NEW x \in EndedWith(g), NEW y \in EndedWith(x)
    PROVE  y \in EndedWith(g)
<1>1. g \in Fn /\ x \in Above[g] /\ y \in Above[x] /\ y # Root
    BY Tree DEF EndedWith, Fn, Op
<1>2. x \in Fn /\ Above[x] \subseteq Above[g]
    BY <1>1, AboveClosed, AboveTransitive
<1>3. ASSUME NEW z \in Above[g], z > y
      PROVE  z \notin prog.spawned \ prog.joined /\ prog.caller[z] \notin prog.catching
    <2>1. CASE z \in Above[x]
        BY <1>3, <2>1 DEF EndedWith
    <2>2. CASE z \notin Above[x]
        <3>1. z \in Fn /\ x \in Above[z] /\ z # x
            BY <1>1, <1>2, <2>2, AboveClosed, AboveChain
        <3>2. z > x
            BY <3>1, AboveClosed DEF Fn
        <3> QED
            BY <3>2 DEF EndedWith
    <2> QED
        BY <2>1, <2>2
<1> QED
    BY <1>1, <1>2, <1>3 DEF EndedWith

\* A function ends with g because one of its calls does, which it awaits.
LEMMA EndsByCall ==
    ASSUME prog \in Programs, NEW g \in Op, NEW y \in EndedWith(g), y # g
    PROVE  /\ y \in Op /\ y \notin prog.catching /\ prog.kind[y] = "local"
           /\ \E c \in Calls(y) : c \in EndedWith(g) /\ c \notin prog.spawned \ prog.joined
<1>1. g \in Fn /\ y \in Above[g] /\ y # Root
    BY Tree DEF EndedWith, Fn, Op
<1>2. y \in Fn /\ y \in Op
    BY <1>1, AboveClosed DEF Fn, Op, Root
<1>3. PICK c \in Above[g] \cap Op : prog.caller[c] = y
    BY <1>1, ChildAbove
<1>4. c > y /\ c # Root /\ \A z \in Above[g] : z > c => z > y
    <2>1. c > y /\ c # Root
        BY <1>2, <1>3, Tree DEF Op, Fn, Root
    <2>2. Above[g] \subseteq Nat
        BY <1>1, AboveClosed, Tree DEF Fn
    <2> QED
        BY <1>2, <2>1, <2>2 DEF Op
<1>5. c \in EndedWith(g) /\ c \notin prog.spawned \ prog.joined /\ y \notin prog.catching
    BY <1>3, <1>4 DEF EndedWith
<1>6. prog.kind[y] = "local"
    BY <1>1, <1>3, ContextAssumption
<1> QED
    BY <1>2, <1>3, <1>5, <1>6 DEF Calls

\* Nothing ends with a failure of a remote op but the op, and what awaits it.
LEMMA RemoteFirm ==
    ASSUME prog \in Programs, NEW x \in Op, prog.kind[x] \in Remote,
           x \notin prog.unfit, promise[x] = "resolved"
    PROVE  Firm(x)
<1>1. prog.kind[x] # "local"
    BY DEF Remote
<1>2. Calls(x) = {}
    BY <1>1, ContextAssumption DEF Calls, Op, Root
<1>3. ASSUME NEW g \in Op, x \in EndedWith(g) PROVE g = x
    BY <1>1, <1>3, EndsByCall
<1> QED
    BY <1>2, <1>3 DEF Firm, Unsound

\* A function does not fail another time if nothing does that it awaits.
LEMMA FunctionFirm ==
    ASSUME prog \in Programs, NEW g \in Op, prog.kind[g] = "local", g \notin prog.unfit,
           g \in prog.catching \/ /\ Calls(g) \cap prog.unfit = {}
                                  /\ \A c \in Calls(g) \ (prog.spawned \ prog.joined) : Firm(c)
    PROVE  Firm(g)
<1>1. SUFFICES ASSUME NEW x \in Op, g \in EndedWith(x)
               PROVE  /\ x \notin prog.unfit /\ ~Unsound(x)
                      /\ prog.kind[x] \in Remote => promise[x] = "resolved"
    BY DEF Firm
<1>2. CASE x = g
    BY <1>2 DEF Unsound, Remote
<1>3. CASE x # g
    <2>1. /\ g \notin prog.catching
          /\ \E c \in Calls(g) : c \in EndedWith(x) /\ c \notin prog.spawned \ prog.joined
        BY <1>1, <1>3, EndsByCall
    <2> QED
        BY <2>1, <1>1 DEF Firm
<1> QED
    BY <1>2, <1>3

\* The blame for what a function awaits is passed on to it.
LEMMA BlamePasses ==
    ASSUME prog \in Programs, givenUp \subseteq Op, NEW c \in Op, prog.caller[c] \in Op,
           c \notin prog.spawned \ prog.joined, prog.caller[c] \notin prog.catching, Blame(c)
    PROVE  Blame(prog.caller[c])
<1>1. prog.caller[c] \in EndedWith(c)
    BY EndsCaller
<1>2. \A x \in Op : c \in EndedWith(x) => prog.caller[c] \in EndedWith(x)
    BY <1>1, EndsOn
<1> QED
    BY <1>2 DEF Blame, Culprit, Excuse

\* What ends with g is g or above it.
LEMMA EndsAbove ==
    ASSUME prog \in Programs, NEW g \in Op, NEW y \in EndedWith(g)
    PROVE  y \in Above[g] /\ y \in Op
<1>1. g \in Fn /\ y \in Above[g] /\ y # Root
    BY Tree DEF EndedWith, Fn, Op
<1> QED
    BY <1>1, AboveClosed DEF Fn, Op, Root

-----------------------------------------------------------------------------
(* How promises change *)

\* A request arrives, or it is settled elsewhere; the root, when nothing is left.
Changes(x) ==
    \/ promise'[x] = promise[x]
    \/ mode = "running" /\ promise'[x] = Arrived(x)
    \/ /\ promise[x] = "pending" /\ promise'[x] \in Settled
       /\ IF x = Root THEN Covered(x)' ELSE prog.kind[x] # "local"

\* What was given up below a function that is settled stays so.
GivenUpStays ==
    \A g \in givenUp : \A f \in Above[g] \ {g} : promise'[f] \in Settled => g \in givenUp'

Remembers ==
    /\ prog' = prog /\ GivenUpStays
    /\ \A x \in Fn : Changes(x)

\* What every step finds.
Known ==
    /\ TypeOK /\ History /\ StructuredConcurrency
    /\ mode = "running" => Attempt /\ Record

LEMMA ChangesLast ==
    ASSUME TypeOK, NEW x \in Fn, Changes(x)
    PROVE  /\ promise[x] \in Settled => promise'[x] = promise[x]
           /\ promise[x] # "absent" => promise'[x] # "absent"
           /\ promise'[x] \in Promises
           /\ promise[x] = "absent" /\ promise'[x] # "absent" =>
                 mode = "running" /\ status[x] = "create" /\ promise'[x] = "pending"
           /\ promise[x] \notin Settled /\ promise'[x] \in Settled =>
                 \/ /\ mode = "running" /\ status[x] = "settle"
                    /\ promise'[x] = IF result[x] = "ok" THEN "resolved" ELSE "rejected"
                 \/ IF x = Root THEN Covered(x)' ELSE prog.kind[x] # "local"
BY Types DEF Changes, Arrived, Promises, Settled

\* The same ops end with a failure, and what is firm remains so.
LEMMA FirmStays ==
    ASSUME TypeOK, Remembers
    PROVE  /\ Above' = Above /\ \A g : EndedWith(g)' = EndedWith(g)
           /\ \A f : Calls(f)' = Calls(f) /\ Spawns(f)' = Spawns(f) /\ Below(f)' = Below(f)
           /\ \A o : Inline(o)' = Inline(o) /\ Before(o)' = Before(o) /\ Cut(o)' = Cut(o)
           /\ \A g : (Firm(g) => Firm(g)') /\ (Culprit(g) => Culprit(g)')
           /\ \A y : InFirmOrder(y) => InFirmOrder(y)'
<1>1. prog' = prog /\ Above' = Above
    BY DEF Remembers, Above
<1>2. /\ \A g : EndedWith(g)' = EndedWith(g)
      /\ \A f : Calls(f)' = Calls(f) /\ Spawns(f)' = Spawns(f) /\ Below(f)' = Below(f)
      /\ \A o : Inline(o)' = Inline(o)
    BY <1>1 DEF EndedWith, Calls, Spawns, Below, Inline
<1>3. \A o : Before(o)' = Before(o) /\ Cut(o)' = Cut(o)
    BY <1>1, <1>2 DEF Before, Cut
<1>4. \A x \in Op : promise[x] \in Settled => promise'[x] = promise[x]
    BY Types, Tree, ChangesLast DEF Remembers, Op, Fn
<1>5. \A x : Unsound(x)' = Unsound(x)
    BY <1>1, <1>2 DEF Unsound
<1>6. \A g : Firm(g) => Firm(g)'
    BY <1>1, <1>2, <1>4, <1>5 DEF Firm, Settled
<1>7. \A g : Culprit(g) => Culprit(g)'
    BY <1>1, <1>2, <1>4, <1>5 DEF Culprit, Settled
<1>8. \A y : InFirmOrder(y) => InFirmOrder(y)'
    BY <1>1, <1>3, <1>6 DEF InFirmOrder
<1> QED
    BY <1>1, <1>2, <1>3, <1>6, <1>7, <1>8

\* What is below f has its promise before f is flushed.
LEMMA PendingBefore ==
    ASSUME TypeOK, NEW f \in Fn, NEW o \in Below(f), Changes(o),
           mode = "running" => Attempt /\ status[f] \notin Open, promise'[o] = "pending"
    PROVE  promise[o] = "pending"
<1>1. o \in Op /\ o \in Fn /\ f \in Above[o] /\ o # f
    BY Types, Tree DEF Below, Op, Fn
<1>2. promise[o] # "absent"
    <2>1. SUFFICES ASSUME promise[o] = "absent" PROVE FALSE
        OBVIOUS
    <2>2. mode = "running" /\ status[o] = "create"
        BY <1>1, <2>1, ChangesLast
    <2> QED
        BY <1>1, <2>2, OpenAbove DEF Active
<1>3. promise[o] \notin Settled
    BY <1>1, ChangesLast DEF Settled
<1> QED
    BY <1>1, <1>2, <1>3, Types DEF Promises

LEMMA CoveredStays ==
    ASSUME TypeOK, Remembers, NEW f \in Fn, Covered(f),
           mode = "running" => Attempt /\ status[f] \notin Open,
           \A g \in givenUp \cap Below(f) : g \in givenUp'
    PROVE  Covered(f)'
<1>1. prog' = prog /\ Below(f)' = Below(f) /\ \A g : Cut(g)' = Cut(g)
    BY FirmStays DEF Remembers
<1>2. \A o \in Below(f) : o \in Fn
    BY Types, Tree DEF Below, Op, Fn
<1>3. \A o \in Below(f) : promise'[o] = "pending" => promise[o] = "pending"
    BY <1>2, PendingBefore DEF Remembers
<1> QED
    BY <1>1, <1>3 DEF Covered

\* Whatever changes, History holds on.
LEMMA HistoryStays ==
    ASSUME Known, Remembers
    PROVE  History'
<1>0. TypeOK /\ prog' = prog /\ prog \in Programs /\ \A x \in Fn : Changes(x)
    BY Types DEF Known, Remembers
<1>1. \A o \in Op : o \in Fn /\ o # Root /\ prog.caller[o] \in Fn
    BY <1>0, Tree DEF Op, Fn, Root
<1>2. ASSUME NEW o \in Op, promise[o] = "absent", promise'[o] # "absent"
      PROVE  /\ mode = "running" /\ status[o] = "create" /\ o \notin prog.unfit
             /\ InFirmOrder(o) /\ promise[prog.caller[o]] # "absent"
    <2>1. mode = "running" /\ status[o] = "create"
        BY <1>0, <1>1, <1>2, ChangesLast
    <2>2. Attempt /\ Record
        BY <2>1 DEF Known
    <2>3. status[prog.caller[o]] \in Open
        BY <2>1, <2>2 DEF Attempt, CallersOpen, Active
    <2>4. promise[prog.caller[o]] = "pending"
        BY <1>1, <2>2, <2>3 DEF Record, BusyPending, Active, Open
    <2> QED
        BY <1>1, <2>1, <2>2, <2>4 DEF Record, BusyPending, CreatePrepared, Active
<1>3. CallersThere'
    <2>1. ASSUME NEW o \in Op, promise'[o] # "absent"
          PROVE  promise'[prog.caller[o]] # "absent" /\ o \notin prog.unfit
        <3>1. promise[prog.caller[o]] # "absent" /\ o \notin prog.unfit
            BY <1>2, <2>1 DEF Known, History, CallersThere
        <3> QED
            BY <3>1, <1>0, <1>1, ChangesLast
    <2> QED
        BY <2>1, <1>0 DEF CallersThere
<1>4. Prepared'
    <2>1. ASSUME NEW y \in Op, promise'[y] # "absent" PROVE InFirmOrder(y)'
        BY <1>0, <1>2, <2>1, FirmStays DEF Known, History, Prepared
    <2> QED
        BY <2>1 DEF Prepared
<1>5. ASSUME NEW x \in Op, prog.kind[x] = "local", promise'[x] \in Settled, promise[x] \notin Settled
      PROVE  /\ mode = "running" /\ status[x] = "settle" /\ x \notin givenUp
             /\ promise'[x] = "resolved" => Firm(x)
             /\ promise'[x] = "rejected" => Blame(x)
    <2>1. /\ mode = "running" /\ status[x] = "settle"
          /\ promise'[x] = IF result[x] = "ok" THEN "resolved" ELSE "rejected"
        BY <1>0, <1>1, <1>5, ChangesLast
    <2>2. Attempt /\ Record
        BY <2>1 DEF Known
    <2>3. result[x] \in {"ok", "error"}
        BY <1>1, <2>1, <2>2 DEF Attempt, ResultsFollow, ResultAt
    <2> QED
        BY <1>1, <1>5, <2>1, <2>2, <2>3 DEF Record, BusyPending, OkFirm, ErrorBlamed, Active
<1>6. ResolvedFirm'
    <2>1. ASSUME NEW x \in Op, prog.kind[x] = "local", promise'[x] = "resolved" PROVE Firm(x)'
        <3>1. Firm(x)
            <4>1. CASE promise[x] \in Settled
                BY <4>1, <2>1, <1>0, <1>1, ChangesLast DEF Known, History, ResolvedFirm
            <4>2. CASE promise[x] \notin Settled
                BY <4>2, <2>1, <1>5 DEF Settled
            <4> QED
                BY <4>1, <4>2
        <3> QED
            BY <3>1, <1>0, FirmStays
    <2> QED
        BY <2>1, <1>0 DEF ResolvedFirm
<1>7. RejectedBlamed'
    <2>1. ASSUME NEW x \in Op, prog.kind[x] = "local", promise'[x] = "rejected"
          PROVE  Culprit(x)' \/ \E g \in givenUp' \ {x} : x \in EndedWith(g)
        <3>1. Culprit(x) \/ \E g \in givenUp \ {x} : x \in EndedWith(g)
            <4>1. CASE promise[x] \in Settled
                BY <4>1, <2>1, <1>0, <1>1, ChangesLast DEF Known, History, RejectedBlamed
            <4>2. CASE promise[x] \notin Settled
                BY <4>2, <2>1, <1>5 DEF Settled, Blame, Excuse
            <4> QED
                BY <4>1, <4>2
        <3>2. ASSUME NEW g \in givenUp \ {x}, x \in EndedWith(g) PROVE g \in givenUp'
            <4>1. x \in Above[g] \ {g}
                BY <3>2, <1>0, Types, EndsAbove
            <4> QED
                BY <4>1, <2>1 DEF Remembers, GivenUpStays, Settled
        <3> QED
            BY <3>1, <3>2, <1>0, FirmStays
    <2> QED
        BY <2>1, <1>0, FirmStays DEF RejectedBlamed
<1> QED
    BY <1>3, <1>4, <1>6, <1>7 DEF History

\* And what is settled left nothing pending.
LEMMA StructureStays ==
    ASSUME Known, Remembers
    PROVE  StructuredConcurrency'
<1>0. TypeOK /\ prog' = prog /\ prog \in Programs /\ \A x \in Fn : Changes(x)
    BY Types DEF Known, Remembers
<1>1. ASSUME NEW f \in Fn, promise'[f] \in Settled
      PROVE  Covered(f)'
    <2>1. \A g \in givenUp \cap Below(f) : g \in givenUp'
        BY <1>1 DEF Remembers, GivenUpStays, Below
    <2>2. CASE promise[f] \in Settled
        <3>1. Covered(f)
            BY <2>2 DEF Known, StructuredConcurrency, Covered
        <3>2. mode = "running" => Attempt /\ status[f] \notin Open
            BY <2>2 DEF Known, Record, BusyPending, Active, Open, Settled
        <3> QED
            BY <3>1, <3>2, <2>1, <1>0, CoveredStays
    <2>3. CASE promise[f] \notin Settled
        <3>1. \/ mode = "running" /\ status[f] = "settle"
              \/ IF f = Root THEN Covered(f)' ELSE prog.kind[f] # "local"
            BY <1>0, <1>1, <2>3, ChangesLast
        <3>2. CASE f = Root \/ prog.kind[f] = "local"
            <4>1. CASE mode = "running" /\ status[f] = "settle"
                <5>1. Attempt /\ Record /\ f # Root
                    BY <4>1 DEF Known, Attempt, RootOpen, Open
                <5>2. f \in Op
                    BY <5>1 DEF Fn, Op, Root
                <5>3. Covered(f)
                    BY <4>1, <5>1, <5>2 DEF Record, SettleCovered
                <5> QED
                    BY <4>1, <5>1, <5>3, <2>1, <1>0, CoveredStays DEF Open
            <4> QED
                BY <4>1, <3>1, <3>2
        <3>3. CASE f # Root /\ prog.kind[f] # "local"
            <4>1. Below(f) = {}
                BY <3>3, <1>0, NothingBelow DEF Fn, Op, Root
            <4>2. Below(f)' = {}
                BY <4>1, <1>0, FirmStays
            <4> QED
                BY <4>2 DEF Covered
        <3> QED
            BY <3>2, <3>3
    <2> QED
        BY <2>2, <2>3
<1> QED
    BY <1>1 DEF StructuredConcurrency, Covered

-----------------------------------------------------------------------------
(* A function that has nothing left *)

\* What is above an op whose promise is there is fit, and has one.
LEMMA ThereAbove ==
    ASSUME prog \in Programs, CallersThere, NEW o \in Op, promise[o] # "absent"
    PROVE  \A y \in Above[o] \cap Op : promise[y] # "absent" /\ y \notin prog.unfit
<1> DEFINE S == {y \in Above[o] : promise[y] # "absent"}
<1>0. o \in Fn
    BY Tree DEF Op, Fn
<1>1. o \in S
    BY <1>0, AboveClosed
<1>2. \A y \in S \cap Op : prog.caller[y] \in S
    BY <1>0, AboveClosed DEF CallersThere, Op, Root
<1>3. Above[o] \subseteq S
    <2> HIDE DEF S
    <2> QED
        BY <1>0, <1>1, <1>2, AboveLeast
<1> QED
    BY <1>3 DEF CallersThere

\* An inline op left the function a todo, if it is suspended; if it failed, it was given
\* up, or is to blame.
LEMMA CallOver ==
    ASSUME TypeOK, Attempt, Record, NEW f \in Fn,
           Flushed(f), ~FlushError(f), Collected(f) = {},
           NEW c \in Calls(f), status[c] # "latent"
    PROVE  status[c] = "done" \/ c \in givenUp
<1>1. c \in Op /\ prog.caller[c] = f /\ status[f] = "flush" /\ c \in Fn
    BY Types, Tree DEF Calls, Flushed, Op, Fn
<1>2. status[c] \notin Active
    BY FlushedIdle
<1>3. status[c] # "suspended"
    <2>1. CASE Inline(c)
        BY <2>1, <1>1 DEF Attempt, SuspendedHasTodos, Collected
    <2>2. CASE ~Inline(c)
        <3>1. c \in Spawns(f)
            BY <2>2, <1>1 DEF Inline, Spawns
        <3>2. status[c] = "suspended" => todos[c] # {} /\ todos[c] \subseteq Collected(f)
            BY <2>2, <3>1, <1>1 DEF Attempt, SuspendedHasTodos, Collected
        <3> QED
            BY <3>2
    <2> QED
        BY <2>1, <2>2
<1>4. status[c] = "failed" => c \in givenUp
    BY <1>1 DEF Record, EndedGivenUp, FlushError, Spawns, Inline
<1>5. status[c] = "gone" => c \in givenUp
    BY <1>1 DEF Record, EndedGivenUp
<1> QED
    BY <1>1, <1>2, <1>3, <1>4, <1>5, Types DEF Active, Statuses

\* A function whose spawned ops are over, and that is left with nothing, left nothing
\* pending: what it did not call again was cut off.
LEMMA FinishCovered ==
    ASSUME Known, mode = "running", NEW f \in Fn,
           Flushed(f), ~FlushError(f), Collected(f) = {}
    PROVE  Covered(f)
<1>0. TypeOK /\ Attempt /\ Record /\ History /\ prog \in Programs /\ status[f] = "flush"
    BY Types DEF Known, Flushed
<1>1. SUFFICES ASSUME NEW o \in Below(f), promise[o] = "pending", prog.kind[o] # "detached"
               PROVE  \E g \in givenUp \cap Below(f) : o \in Cut(g)
    BY DEF Covered
<1>2. o \in Op /\ o \in Fn /\ f \in Above[o] /\ o # f
    BY <1>0, Tree DEF Below, Op, Fn
<1>3. PICK c \in Above[o] \cap Op : prog.caller[c] = f
    BY <1>0, <1>2, ChildAbove
<1>4. /\ c \in Calls(f) /\ c \in Fn /\ c # Root /\ promise[c] # "absent"
      /\ c \notin prog.unfit
    BY <1>0, <1>1, <1>2, <1>3, Tree, ThereAbove DEF Calls, Op, Fn, Root, History
<1>5. ASSUME NEW m \in Calls(f), m <= c, NEW g \in givenUp, m \in EndedWith(g)
      PROVE  \E z \in givenUp \cap Below(f) : o \in Cut(z)
    <2>1. g \in Op /\ g \in Fn /\ m \in Above[g] /\ m \in Op /\ prog.caller[m] = f /\ m \in Fn
        BY <1>0, <1>5, Types, Tree, EndsAbove DEF Calls, Op, Fn
    <2>2. f \in Above[m] /\ f < m /\ m <= g
        BY <1>0, <2>1, AboveClosed, AboveCaller, Tree
    <2>3. f \in Above[g] /\ g # f
        BY <1>0, <2>1, <2>2, AboveTransitive DEF Fn, Op
    <2>4. o \in Cut(g)
        BY <1>2, <1>3, <1>4, <1>5, <2>1 DEF Cut, Op
    <2> QED
        BY <1>5, <2>1, <2>3, <2>4 DEF Below
<1>6. CASE c \in givenUp
    BY <1>0, <1>3, <1>4, <1>5, <1>6, EndsItself DEF Op
<1>7. CASE c \notin givenUp /\ status[c] # "latent"
    <2>1. status[c] = "done"
        BY <1>0, <1>4, <1>7, CallOver
    <2>2. c # o => prog.kind[c] = "local"
        <3>1. c # o => o \in Below(c)
            BY <1>2, <1>3 DEF Below
        <3> QED
            BY <1>0, <1>3, <3>1, NothingBelow
    <2>3. prog.kind[c] # "detached"
        BY <1>1, <2>2
    <2>4. promise[c] \in Settled
        BY <1>0, <1>3, <1>4, <1>7, <2>1, <2>3 DEF Record, DoneSettled
    <2>5. o \in Below(c)
        BY <1>1, <1>2, <1>3, <2>4 DEF Below, Settled
    <2>6. PICK g \in givenUp \cap Below(c) : o \in Cut(g)
        BY <1>1, <1>4, <2>4, <2>5 DEF Known, StructuredConcurrency
    <2>7. g \in Below(f)
        <3>1. g \in Op /\ g \in Fn /\ c \in Above[g] /\ c <= g /\ f < c
            BY <1>0, <1>3, <2>6, Tree, AboveClosed DEF Below, Op, Fn
        <3>2. f \in Above[c]
            BY <1>0, <1>3, AboveCaller, AboveClosed
        <3>3. f \in Above[g] /\ g # f
            BY <1>0, <3>1, <3>2, AboveTransitive DEF Fn, Op
        <3> QED
            BY <3>1, <3>3 DEF Below
    <2> QED
        BY <2>6, <2>7
<1>8. CASE c \notin givenUp /\ status[c] = "latent"
    <2>1. Stopped(f)
        BY <1>0, <1>4, <1>8 DEF Record, StoppedEarly
    <2>2. PICK m \in Calls(f) : (Inline(m) \/ m \in prog.unfit) /\ result[m] \in {"error", "suspended"}
        BY <2>1 DEF Stopped, Met, Bad
    <2>3. m \in Op /\ m \in Fn /\ prog.caller[m] = f /\ status[m] # "latent"
        BY <1>0, <2>2, Types, Tree DEF Calls, Op, Fn, Attempt, ResultsFollow, ResultAt
    <2>4. m < c
        <3>1. ~ c < m
            BY <1>0, <1>3, <1>8, <2>3 DEF Record, InOrder
        <3> QED
            BY <3>1, <2>3, <1>3, <1>8 DEF Op
    <2>5. Firm(m)
        BY <1>0, <1>3, <1>4, <2>1, <2>2, <2>4 DEF History, Prepared, InFirmOrder, Stopped, Before
    <2>6. m \in EndedWith(m) /\ m <= c
        BY <1>0, <1>3, <2>3, <2>4, EndsItself DEF Op
    <2>7. CASE m \in givenUp
        BY <2>2, <2>6, <2>7, <1>5
    <2>8. CASE m \notin givenUp
        <3>1. status[m] = "done"
            BY <1>0, <2>2, <2>3, <2>8, CallOver
        <3>2. m \notin prog.unfit /\ ~Culprit(m)
            BY <2>3, <2>5, <2>6 DEF Firm, Culprit, Settled
        <3>3. Inline(m) /\ prog.kind[m] # "detached"
            BY <1>0, <2>2, <2>3, <3>2, ContextAssumption DEF Inline
        <3>4. result[m] = "error"
            BY <1>0, <2>2, <2>3, <3>1 DEF Attempt, ResultsFollow, ResultAt
        <3>5. Excuse(m)
            BY <1>0, <2>3, <3>1, <3>2, <3>3, <3>4 DEF Record, ErrorBlamed, Blame
        <3>6. PICK g \in givenUp : m \in EndedWith(g)
            BY <3>5 DEF Excuse
        <3> QED
            BY <2>2, <2>6, <3>6, <1>5
    <2> QED
        BY <2>7, <2>8
<1> QED
    BY <1>6, <1>7, <1>8

-----------------------------------------------------------------------------
(* A step of one op, and the record *)

\* A call is made in its turn; it is refused if it is unfit.
InTurn(f) ==
    status[f] = "latent" =>
        /\ \A p \in Calls(prog.caller[f]) : p < f => status[p] # "latent"
        /\ IF f \in prog.unfit THEN status'[f] = "done" /\ result'[f] = "error"
           ELSE status'[f] = "create" /\ InFirmOrder(f)

\* Its promise is created before it is executed, and settled when it is done.
Promised(f) ==
    /\ \A x \in Fn : promise'[x] = promise[x] \/ (x = f /\ promise'[x] = Arrived(x))
    /\ status'[f] = "body" => prog.kind[f] = "local" /\ promise'[f] = "pending"
    /\ status'[f] = "create" => status[f] = "latent"
    /\ status'[f] = "flush" => status[f] = "body"
    /\ status'[f] = "settle" => status[f] = "flush"
    /\ status'[f] = "done" /\ prog.kind[f] # "detached" =>
          promise'[f] \in Settled \/ f \in givenUp' \cup prog.unfit

\* It is given up when it fails, or when its settling is lost.
GivesUp(f) ==
    /\ givenUp \subseteq givenUp' /\ givenUp' \subseteq givenUp \cup {f}
    /\ status'[f] \notin {"done", "failed"} => givenUp' = givenUp

\* What it returns.
Answers(f) ==
    /\ status'[f] = "flush" /\ (\E o \in Calls(f) : status[o] = "latent") => Stopped(f)
    /\ f \in Op /\ prog.kind[f] # "detached" =>
          /\ result'[f] = "ok" => Firm(f)
          /\ result'[f] = "error" =>
                /\ status'[f] \in {"done", "settle"} => Blame(f)
                /\ status'[f] = "flush" => ErrorCause(f)
    /\ status[f] = "flush" => \/ status'[f] \in {"suspended", "failed"}
                              \/ status'[f] = "settle" /\ result'[f] = result[f] /\ Covered(f)

Records(f) == InTurn(f) /\ Promised(f) /\ GivesUp(f) /\ Answers(f)

LEMMA MoveRemembers ==
    ASSUME Known, NEW f \in Fn, NEW how, NEW r, Takes(f, how, r), Records(f)
    PROVE  Remembers
<1>1. \A x \in Fn : Changes(x)
    <2>1. mode = "running"
        BY DEF Takes, Moves
    <2> QED
        BY <2>1 DEF Records, Promised, Changes
<1> QED
    BY <1>1 DEF Takes, Moves, Records, GivesUp, Remembers, GivenUpStays

\* What is under way in it was called by functions that are pending.
LEMMA BusyAbove ==
    ASSUME TypeOK, Attempt, Record, NEW f \in Fn, status[f] \in Open
    PROVE  \A y \in Above[f] : promise[y] = "pending" /\ status[y] \in Open
<1>1. \A y \in Above[f] : y \in Fn /\ status[y] \in Open
    BY Types, AboveClosed, OpenUp
<1> QED
    BY <1>1 DEF Record, BusyPending, Active, Open

LEMMA MoveRecords ==
    ASSUME Known, NEW f \in Fn, NEW how, NEW r, Takes(f, how, r), Records(f)
    PROVE  Record'
<1>0. /\ TypeOK /\ Attempt /\ Record /\ History /\ mode = "running"
      /\ Remembers /\ prog' = prog /\ prog \in Programs
      /\ givenUp \subseteq givenUp' /\ givenUp' \subseteq givenUp \cup {f}
      /\ givenUp \subseteq Op
    BY MoveRemembers, Types DEF Known, Takes, Moves, Records, GivesUp
<1>1. /\ \A x \in Fn : status'[x] = (IF x = f THEN how ELSE status[x])
      /\ \A x \in Fn : result'[x] = (IF x = f THEN r ELSE result[x])
    BY <1>0, Types DEF Takes, Moves
<1>2. \A o \in Op : o \in Fn /\ o # Root /\ prog.caller[o] \in Fn /\ prog.caller[o] # o
    BY <1>0, Tree DEF Op, Fn, Root
<1>3. /\ status[f] \in Active \cup {"latent"} /\ how \in Statuses \ {"latent", "gone"}
      /\ status'[f] = how /\ result'[f] = r
    BY <1>1 DEF Takes, Legal
<1>4. \A x \in Fn : promise[x] \in Settled => promise'[x] = promise[x]
    BY <1>0, ChangesLast DEF Remembers
<1>5. \A g : (Firm(g) => Firm(g)') /\ (Blame(g) => Blame(g)')
    <2>1. \A g : Excuse(g) => Excuse(g)'
        BY <1>0, FirmStays DEF Excuse
    <2> QED
        BY <2>1, <1>0, FirmStays DEF Blame
<1>6. ASSUME status[f] = "latent"
      PROVE  /\ f \in Op
             /\ \A p \in Calls(prog.caller[f]) : p < f => status[p] # "latent"
             /\ f \in prog.unfit => how = "done" /\ r = "error"
             /\ f \notin prog.unfit => how = "create" /\ InFirmOrder(f) /\ f \notin givenUp
    <2>1. f \in Op
        BY <1>0, <1>6 DEF Attempt, RootOpen, Open, Fn, Op, Root
    <2>2. ASSUME f \notin prog.unfit, f \in givenUp PROVE FALSE
        <3>1. how = "create"
            BY <1>3, <1>6, <2>2 DEF Records, InTurn
        <3>2. status[prog.caller[f]] \in Open
            BY <1>6, <3>1 DEF Takes, Legal, Active, Open
        <3>3. \A y \in Above[f] \ {f} : promise[y] = "pending"
            BY <3>2, <1>0, <1>2, <2>1, BusyAbove, AboveCaller
        <3> QED
            BY <3>3, <1>0, <1>6, <2>2 DEF Record, GivenUpEnded, Settled
    <2> QED
        BY <1>3, <1>6, <2>1, <2>2 DEF Records, InTurn
<1>7. ASSUME status[f] \in Active
      PROVE  /\ f \notin givenUp \cup prog.unfit
             /\ status[f] # "create" => promise[f] = "pending" /\ (f = Root \/ prog.kind[f] = "local")
    BY <1>0, <1>7 DEF Record, BusyPending
<1>8. /\ \A x \in Fn : x # f => promise'[x] = promise[x]
      /\ how \in {"flush", "settle"} => promise'[f] = promise[f] /\ status[f] \in {"body", "flush"}
    BY <1>3 DEF Records, Promised, Arrived
<1>9. GivenUpEnded'
    <2>1. SUFFICES ASSUME NEW g \in givenUp'
                   PROVE  \/ status'[g] \in {"done", "failed", "gone"}
                          \/ \E y \in Above[g] \ {g} : promise'[y] \in Settled
        BY <1>0, FirmStays DEF GivenUpEnded
    <2>2. CASE g \in givenUp
        <3>1. \/ status[g] \in {"done", "failed", "gone"}
              \/ \E y \in Above[g] \ {g} : promise[y] \in Settled
            BY <1>0, <2>2 DEF Record, GivenUpEnded
        <3>2. g \in Fn /\ Above[g] \subseteq Fn
            BY <1>0, <1>2, <2>2, AboveClosed
        <3>3. status[g] \in {"done", "failed", "gone"} => status'[g] = status[g]
            BY <1>1, <1>3, <3>2 DEF Active
        <3> QED
            BY <3>1, <3>2, <3>3, <1>4
    <2>3. CASE g \notin givenUp
        BY <2>1, <2>3, <1>0 DEF Records, GivesUp
    <2> QED
        BY <2>2, <2>3
<1>10. BusyPending'
    <2>1. SUFFICES ASSUME NEW x \in Fn, status'[x] \in Active
                   PROVE  /\ x \notin givenUp' \cup prog.unfit
                          /\ status'[x] # "create" =>
                                promise'[x] = "pending" /\ (x = Root \/ prog.kind[x] = "local")
        BY <1>0 DEF BusyPending
    <2>2. CASE x # f
        BY <2>1, <2>2, <1>0, <1>1, <1>8 DEF Record, BusyPending
    <2>3. CASE x = f
        <3>1. givenUp' = givenUp
            BY <2>1, <2>3 DEF Records, GivesUp, Active
        <3>2. f \notin givenUp \cup prog.unfit
            BY <2>1, <2>3, <1>3, <1>6, <1>7 DEF Active
        <3>3. how = "body" => promise'[f] = "pending" /\ prog.kind[f] = "local"
            BY <1>3 DEF Records, Promised
        <3>4. how \in {"flush", "settle"} =>
                 promise'[f] = "pending" /\ (f = Root \/ prog.kind[f] = "local")
            BY <1>7, <1>8 DEF Active
        <3> QED
            BY <2>1, <2>3, <3>1, <3>2, <3>3, <3>4, <1>3 DEF Active
    <2> QED
        BY <2>2, <2>3
<1>11. DoneSettled'
    <2>1. ASSUME NEW o \in Op, status'[o] = "done", prog.kind[o] # "detached"
          PROVE  promise'[o] \in Settled \/ o \in givenUp' \cup prog.unfit
        <3>1. CASE o = f
            BY <2>1, <3>1 DEF Records, Promised
        <3>2. CASE o # f
            BY <2>1, <3>2, <1>0, <1>1, <1>2, <1>4 DEF Record, DoneSettled
        <3> QED
            BY <3>1, <3>2
    <2> QED
        BY <2>1, <1>0 DEF DoneSettled, Settled
<1>12. EndedGivenUp' /\ UnfitRefused'
    <2>1. ASSUME NEW o \in Op
          PROVE  /\ status'[o] = "failed" /\ Inline(o) => o \in givenUp'
                 /\ status'[o] = "gone" => status'[prog.caller[o]] = "gone" \/ o \in givenUp'
        <3>1. CASE o = f
            BY <3>1, <1>3 DEF Takes, Reports
        <3>2. CASE o # f
            BY <3>2, <1>0, <1>1, <1>2, <1>3 DEF Record, EndedGivenUp, Active
        <3> QED
            BY <3>1, <3>2
    <2>2. ASSUME NEW x \in prog.unfit
          PROVE  /\ status'[x] \in {"latent", "done", "gone"}
                 /\ status'[x] = "done" => result'[x] = "error"
        <3>1. CASE x = f
            BY <2>2, <3>1, <1>3, <1>6, <1>7
        <3>2. CASE x # f
            BY <3>2, <1>0, <1>1, <1>2, Tree DEF Record, UnfitRefused
        <3> QED
            BY <3>1, <3>2
    <2> QED
        BY <2>1, <2>2, <1>0, FirmStays DEF EndedGivenUp, UnfitRefused
<1>13. InOrder'
    <2>1. SUFFICES ASSUME NEW o \in Op, NEW p \in Op, prog.caller[o] = prog.caller[p], o < p,
                          status'[o] = "latent"
                   PROVE  status'[p] = "latent" \/ status'[prog.caller[o]] = "gone"
        BY <1>0 DEF InOrder
    <2>2. o # f /\ status[o] = "latent"
        BY <2>1, <1>1, <1>2, <1>3
    <2>3. status[p] = "latent" \/ status[prog.caller[o]] = "gone"
        BY <2>1, <2>2, <1>0 DEF Record, InOrder
    <2>4. CASE status[prog.caller[o]] = "gone"
        BY <2>4, <1>1, <1>2, <1>3 DEF Active
    <2>5. CASE status[p] = "latent"
        <3>1. p # f
            BY <2>1, <2>2, <2>5, <1>6 DEF Calls
        <3> QED
            BY <3>1, <2>5, <1>1, <1>2
    <2> QED
        BY <2>3, <2>4, <2>5
<1>14. StoppedEarly'
    <2>1. SUFFICES ASSUME NEW g \in Fn, status'[g] = "flush",
                          NEW o \in Calls(g), status'[o] = "latent"
                   PROVE  Stopped(g)'
        BY <1>0, FirmStays DEF StoppedEarly
    <2>2. status[o] = "latent"
        BY <2>1, <1>1, <1>2, <1>3 DEF Calls
    <2>3. Stopped(g)
        <3>1. CASE g = f
            BY <3>1, <2>1, <2>2 DEF Records, Answers
        <3>2. CASE g # f
            BY <3>2, <2>1, <2>2, <1>0, <1>1 DEF Record, StoppedEarly
        <3> QED
            BY <3>1, <3>2
    <2>4. PICK m \in Calls(g) : (Inline(m) \/ m \in prog.unfit) /\ result[m] \in {"error", "suspended"}
        BY <2>3 DEF Stopped, Met, Bad
    <2>5. m \in Op /\ m \in Fn /\ prog.caller[m] = g
        BY <2>4, <1>2 DEF Calls
    <2>6. m # f
        <3>1. SUFFICES ASSUME m = f PROVE FALSE
            OBVIOUS
        <3>2. status[f] # "latent"
            BY <3>1, <2>4, <2>5, <1>0 DEF Attempt, ResultsFollow, ResultAt
        <3>3. status[f] \in Active /\ Inline(f)
            BY <3>1, <3>2, <2>4, <1>3, <1>7
        <3>4. status[g] = "body" /\ g # f
            BY <3>1, <3>3, <2>5, <1>0, <1>2 DEF Attempt, CallersOpen
        <3> QED
            BY <3>4, <2>1, <1>1
    <2>7. result'[m] \in {"error", "suspended"}
        BY <2>4, <2>5, <2>6, <1>1
    <2> QED
        BY <2>3, <2>4, <2>7, <1>0, FirmStays DEF Stopped, Met, Bad, Calls
<1>15. CreatePrepared'
    <2>1. ASSUME NEW y \in Op, status'[y] = "create" PROVE InFirmOrder(y)
        <3>1. CASE y = f
            <4>1. how = "create" /\ status[f] = "latent"
                BY <2>1, <3>1, <1>3 DEF Records, Promised
            <4> QED
                BY <3>1, <4>1, <1>6
        <3>2. CASE y # f
            BY <2>1, <3>2, <1>0, <1>1, <1>2 DEF Record, CreatePrepared
        <3> QED
            BY <3>1, <3>2
    <2> QED
        BY <2>1, <1>0, FirmStays DEF CreatePrepared
<1>16. OkFirm'
    <2>1. ASSUME NEW x \in Op, result'[x] = "ok", prog.kind[x] # "detached" PROVE Firm(x)
        <3>1. CASE x = f
            BY <2>1, <3>1 DEF Records, Answers
        <3>2. CASE x # f
            BY <2>1, <3>2, <1>0, <1>1, <1>2 DEF Record, OkFirm
        <3> QED
            BY <3>1, <3>2
    <2> QED
        BY <2>1, <1>0, <1>5 DEF OkFirm
<1>17. ASSUME NEW x \in Op, ErrorCause(x), status'[x] = "flush"
       PROVE  ErrorCause(x)'
    <2>1. CASE Blame(x)
        BY <2>1, <1>5 DEF ErrorCause
    <2>2. CASE todos[x] # {}
        <3>1. todos[x] \subseteq todos'[x]
            BY <1>2, <1>3, <1>17 DEF Takes, Carries, Open
        <3> QED
            BY <2>2, <3>1 DEF ErrorCause
    <2>3. ASSUME NEW s \in Spawns(x),
                 \/ status[s] \in {"suspended", "failed"}
                 \/ /\ s \in prog.joined /\ x \notin prog.catching
                    /\ status[s] = "flush" /\ result[s] = "error"
          PROVE  ErrorCause(x)'
        <3>1. s \in Op /\ s \in Fn /\ prog.caller[s] = x /\ s \in Spawns(x)'
            BY <1>0, <1>2, FirmStays DEF Spawns, Calls
        <3>2. CASE s # f
            BY <2>3, <3>1, <3>2, <1>0, <1>1 DEF ErrorCause
        <3>3. CASE s = f
            <4>1. /\ status[f] = "flush" /\ result[f] = "error" /\ f \in prog.joined
                  /\ x \notin prog.catching /\ f \in Op
                BY <2>3, <3>1, <3>3, <1>3 DEF Active
            <4>2. CASE how \in {"suspended", "failed"}
                BY <3>1, <3>3, <4>2, <1>3 DEF ErrorCause
            <4>3. CASE how \notin {"suspended", "failed"}
                <5>1. how = "settle" /\ result'[f] = "error"
                    BY <4>1, <4>3, <1>3 DEF Records, Answers
                <5>2. prog.kind[f] # "detached"
                    BY <4>1, <1>2, <1>7 DEF Active
                <5>3. Blame(f)
                    BY <4>1, <5>1, <5>2, <1>3 DEF Records, Answers
                <5>4. Blame(x)
                    BY <1>0, <3>1, <3>3, <4>1, <5>3, BlamePasses
                <5> QED
                    BY <5>4, <1>5 DEF ErrorCause
            <4> QED
                BY <4>2, <4>3
        <3> QED
            BY <3>2, <3>3
    <2> QED
        BY <2>1, <2>2, <2>3, <1>17 DEF ErrorCause
<1>18. ErrorBlamed'
    <2>1. ASSUME NEW x \in Op, result'[x] = "error", prog.kind[x] # "detached"
          PROVE  /\ status'[x] \in {"done", "settle"} => Blame(x)
                 /\ status'[x] = "flush" => ErrorCause(x)
        <3>1. CASE x = f
            BY <2>1, <3>1 DEF Records, Answers
        <3>2. CASE x # f
            BY <2>1, <3>2, <1>0, <1>1, <1>2 DEF Record, ErrorBlamed
        <3> QED
            BY <3>1, <3>2
    <2> QED
        BY <2>1, <1>0, <1>5, <1>17 DEF ErrorBlamed
<1>19. SettleCovered'
    <2>1. SUFFICES ASSUME NEW x \in Op, status'[x] = "settle" PROVE Covered(x)'
        BY DEF SettleCovered
    <2>2. x \in Fn
        BY <1>2
    <2>3. CASE x = f
        <3>1. Covered(f)
            BY <2>1, <2>3 DEF Records, Promised, Answers
        <3>2. \A o \in Below(f) : promise'[o] = promise[o]
            BY <1>2, <1>8 DEF Below
        <3>3. Below(f)' = Below(f) /\ \A g : Cut(g)' = Cut(g)
            BY <1>0, FirmStays
        <3> QED
            BY <2>3, <3>1, <3>2, <3>3, <1>0 DEF Covered
    <2>4. CASE x # f
        <3>1. status[x] = "settle" /\ Covered(x)
            BY <2>1, <2>2, <2>4, <1>0, <1>1 DEF Record, SettleCovered
        <3> QED
            BY <2>2, <3>1, <1>0, CoveredStays DEF Open
    <2> QED
        BY <2>3, <2>4
<1> QED
    BY <1>9, <1>10, <1>11, <1>12, <1>13, <1>14, <1>15, <1>16, <1>18, <1>19 DEF Record

-----------------------------------------------------------------------------
(* The steps of a running attempt, and the record *)

LEMMA Moved ==
    ASSUME TypeOK, NEW f \in Fn, NEW how, NEW r, Takes(f, how, r)
    PROVE  status'[f] = how /\ result'[f] = r /\ status[f] \in Active \cup {"latent"}
BY Types DEF Takes, Moves, Legal

\* A running function goes on after calls that do not fail another time.
LEMMA CallFirm ==
    ASSUME TypeOK, Attempt, Record, NEW f \in Fn, Running(f),
           NEW p \in Calls(f), Inline(p) \/ p \in prog.unfit,
           status[p] # "latent", result[p] \notin {"error", "suspended"}
    PROVE  Firm(p) /\ p \notin prog.unfit
<1>1. p \in Op /\ prog.caller[p] = f /\ p \in Fn /\ status[f] = "body" /\ p # f
    BY Types, Tree DEF Calls, Running, Op, Fn
<1>2. status[p] # "gone"
    BY <1>1 DEF Attempt, GoneTogether
<1>3. p \notin prog.unfit /\ Inline(p)
    BY <1>2 DEF Record, UnfitRefused
<1>4. status[p] \in {"done", "suspended", "failed"}
    BY <1>1, <1>2, <1>3 DEF Running, Ended, Inline
<1>5. result[p] = "ok"
    BY <1>1, <1>4, Types DEF Attempt, ResultsFollow, ResultAt, Results
<1>6. prog.kind[p] # "detached"
    BY <1>1, <1>3, Types, ContextAssumption DEF Inline
<1> QED
    BY <1>1, <1>3, <1>5, <1>6 DEF Record, OkFirm

\* The first error of some ops is one of theirs.
LEMMA FirstBad ==
    ASSUME NEW S, S \subseteq Op, Bad(S) # {}
    PROVE  Min(Bad(S)) \in S /\ result[Min(Bad(S))] \in {"error", "suspended"}
<1>1. Bad(S) \subseteq S /\ S \subseteq Nat
    BY DEF Bad, Op
<1>2. Min(Bad(S)) \in Bad(S)
    BY <1>1, MinFound
<1> QED
    BY <1>1, <1>2 DEF Bad

\* What a function returns: Ok after calls that do not fail another time, an error for a
\* cause.
LEMMA ReturnedFirm ==
    ASSUME TypeOK, Attempt, Record, NEW f \in Op, Return(f), Returned(f) = "ok"
    PROVE  Firm(f)
<1>0. f \in Fn /\ Running(f) /\ status[f] = "body" /\ prog \in Programs
    BY Types, Tree DEF Return, Running, Op, Fn
<1>1. prog.kind[f] = "local" /\ f \notin prog.unfit
    BY <1>0 DEF Record, BusyPending, Active, Op, Root
<1>2. CASE f \in prog.catching
    BY <1>0, <1>1, <1>2, FunctionFirm
<1>3. CASE f \notin prog.catching
    <2> DEFINE seen == {o \in Calls(f) : Inline(o) \/ o \in prog.unfit}
    <2>1. /\ Met(f) = Bad(seen) /\ seen \subseteq Op /\ Calls(f) \cap prog.joined \subseteq Op
        BY DEF Met, Calls
    <2>2. ~Stopped(f)
        <3>1. SUFFICES ASSUME Stopped(f) PROVE FALSE
            OBVIOUS
        <3>2. Bad(seen) # {} /\ Returned(f) = result[Min(Bad(seen))]
            BY <1>3, <2>1, <3>1 DEF Returned, Stopped
        <3> HIDE DEF seen
        <3> QED
            BY <2>1, <3>2, FirstBad
    <2>3. Bad(Calls(f) \cap prog.joined) = {}
        <3>1. SUFFICES ASSUME Bad(Calls(f) \cap prog.joined) # {} PROVE FALSE
            OBVIOUS
        <3>2. Returned(f) = result[Min(Bad(Calls(f) \cap prog.joined))]
            BY <1>3, <2>2, <3>1 DEF Returned
        <3> QED
            BY <2>1, <3>1, <3>2, FirstBad
    <2>4. /\ \A o \in Calls(f) : status[o] # "latent"
          /\ \A o \in Calls(f) \cap prog.joined : result[o] # "none"
        BY <2>2 DEF Return
    <2>5. ASSUME NEW c \in Calls(f), Inline(c) \/ c \in prog.unfit
          PROVE  Firm(c) /\ c \notin prog.unfit
        <3>1. result[c] \notin {"error", "suspended"}
            BY <1>3, <2>2, <2>5 DEF Stopped, Met, Bad
        <3> QED
            BY <1>0, <2>4, <2>5, <3>1, CallFirm
    <2>6. ASSUME NEW c \in Calls(f) \cap prog.joined PROVE Firm(c)
        <3>1. c \in Op /\ c \in Fn
            BY <1>0, Tree DEF Calls, Op, Fn
        <3>2. result[c] = "ok"
            BY <2>3, <2>4, <3>1, Types DEF Bad, Results
        <3>3. prog.kind[c] # "detached"
            BY <1>0, <3>1, ContextAssumption
        <3> QED
            BY <3>1, <3>2, <3>3 DEF Record, OkFirm
    <2>7. \A c \in Calls(f) \ (prog.spawned \ prog.joined) : Firm(c)
        BY <2>5, <2>6 DEF Inline, Calls
    <2>8. Calls(f) \cap prog.unfit = {}
        BY <2>5
    <2> QED
        BY <1>0, <1>1, <2>7, <2>8, FunctionFirm
<1> QED
    BY <1>2, <1>3

LEMMA ReturnedBlamed ==
    ASSUME TypeOK, Attempt, Record, NEW f \in Op, Return(f), Returned(f) = "error"
    PROVE  ErrorCause(f)
<1>0. f \in Fn /\ Running(f) /\ status[f] = "body" /\ prog \in Programs /\ givenUp \subseteq Op
    BY Types, Tree DEF Return, Running, Op, Fn
<1>1. f \notin prog.catching
    BY DEF Returned
<1>2. PICK m \in Calls(f) : /\ Inline(m) \/ m \in prog.unfit \/ m \in prog.joined
                            /\ result[m] = "error"
    <2> DEFINE seen == {o \in Calls(f) : Inline(o) \/ o \in prog.unfit}
    <2>1. /\ Met(f) = Bad(seen) /\ seen \subseteq Op /\ Calls(f) \cap prog.joined \subseteq Op
        BY DEF Met, Calls
    <2>2. CASE Stopped(f)
        <3>1. Bad(seen) # {} /\ Returned(f) = result[Min(Bad(seen))]
            BY <1>1, <2>1, <2>2 DEF Returned, Stopped
        <3>2. Min(Bad(seen)) \in seen
            <4> HIDE DEF seen
            <4> QED
                BY <2>1, <3>1, FirstBad
        <3> QED
            BY <3>1, <3>2
    <2>3. CASE ~Stopped(f)
        <3>1. /\ Bad(Calls(f) \cap prog.joined) # {}
              /\ Returned(f) = result[Min(Bad(Calls(f) \cap prog.joined))]
            BY <1>1, <2>3 DEF Returned
        <3> QED
            BY <2>1, <3>1, FirstBad
    <2> QED
        BY <2>2, <2>3
<1>3. m \in Op /\ m \in Fn /\ prog.caller[m] = f /\ m # f
    BY <1>0, Tree DEF Calls, Op, Fn
<1>4. CASE m \in prog.spawned \ prog.joined
    <2>1. Unsound(f)
        BY <1>1, <1>2, <1>4 DEF Unsound, Inline
    <2> QED
        BY <1>0, <2>1, EndsItself DEF ErrorCause, Blame, Culprit
<1>5. CASE m \notin prog.spawned \ prog.joined
    <2>1. Blame(m) => ErrorCause(f)
        BY <1>0, <1>1, <1>3, <1>5, BlamePasses DEF ErrorCause
    <2>2. m \in givenUp => Blame(m)
        BY <1>0, <1>3, EndsItself DEF Blame, Excuse
    <2>3. prog.kind[m] # "detached"
        BY <1>0, <1>3, <1>5, ContextAssumption
    <2>4. CASE status[m] \in {"done", "settle"}
        BY <1>2, <1>3, <2>1, <2>3, <2>4 DEF Record, ErrorBlamed
    <2>5. CASE status[m] = "gone"
        BY <1>0, <1>3, <2>1, <2>2, <2>5 DEF Record, EndedGivenUp
    <2>6. CASE m \in prog.spawned /\ status[m] \in {"flush", "suspended", "failed"}
        <3>1. m \in Spawns(f) /\ m \in prog.joined
            BY <1>5, <2>6 DEF Spawns
        <3> QED
            BY <1>1, <1>2, <2>6, <3>1 DEF ErrorCause
    <2>7. CASE m \notin prog.spawned /\ status[m] \in {"flush", "suspended", "failed"}
        <3>1. Inline(m) /\ status[m] # "flush"
            BY <1>0, <1>3, <2>7 DEF Inline, Running, Ended
        <3>2. status[m] = "suspended" => todos[f] # {}
            BY <1>0, <1>3, <3>1 DEF Attempt, SuspendedHasTodos
        <3>3. status[m] = "failed" => m \in givenUp
            BY <1>3, <3>1 DEF Record, EndedGivenUp
        <3> QED
            BY <2>1, <2>2, <2>7, <3>1, <3>2, <3>3 DEF ErrorCause
    <2>8. status[m] \notin {"latent", "create", "body"}
        BY <1>2, <1>3 DEF Attempt, ResultsFollow, ResultAt
    <2> QED
        BY <1>3, <2>4, <2>5, <2>6, <2>7, <2>8, Types DEF Statuses
<1> QED
    BY <1>4, <1>5

LEMMA ReturnRecords ==
    ASSUME Known, NEW f \in Fn, Return(f)
    PROVE  Records(f)
<1>1. TypeOK /\ Attempt /\ Record /\ Running(f) /\ status[f] = "body"
    BY DEF Known, Return, Running
<1>2. status'[f] = "flush" /\ result'[f] = Returned(f)
    BY <1>1, ReturnStep, Moved
<1>3. InTurn(f) /\ Promised(f) /\ GivesUp(f)
    BY <1>1, <1>2 DEF Return, server, InTurn, Promised, GivesUp
<1>4. Answers(f)
    BY <1>1, <1>2, ReturnedFirm, ReturnedBlamed DEF Return, Answers
<1> QED
    BY <1>3, <1>4 DEF Records

LEMMA IssueRecords ==
    ASSUME Known, NEW o \in Op, Issue(o)
    PROVE  Records(o)
<1>0. o \in Fn /\ prog.caller[o] \in Fn /\ TypeOK
    BY Types, Tree DEF Known, Op, Fn
<1>1. /\ Attempt /\ Record /\ Running(prog.caller[o]) /\ ~Stopped(prog.caller[o])
      /\ status[o] = "latent" /\ o \notin prog.unfit
      /\ \A p \in Calls(prog.caller[o]) : p < o => status[p] # "latent"
    BY DEF Known, Issue, Reached, Running
<1>2. status'[o] = "create" /\ result'[o] = "none"
    BY <1>0, <1>1, IssueStep, Moved
<1>3. InFirmOrder(o)
    <2>1. ASSUME prog.caller[o] \notin prog.catching, NEW p \in Before(o) PROVE Firm(p)
        <3>1. p \in Calls(prog.caller[o]) /\ p < o /\ (Inline(p) \/ p \in prog.unfit)
            BY DEF Before
        <3>2. result[p] \notin {"error", "suspended"}
            BY <1>1, <2>1, <3>1 DEF Stopped, Met, Bad
        <3> QED
            BY <1>0, <1>1, <3>1, <3>2, CallFirm
    <2> QED
        BY <2>1 DEF InFirmOrder
<1>4. InTurn(o) /\ Promised(o) /\ GivesUp(o)
    BY <1>1, <1>2, <1>3 DEF Issue, server, InTurn, Promised, GivesUp
<1>5. Answers(o)
    BY <1>1, <1>2 DEF Answers
<1> QED
    BY <1>4, <1>5 DEF Records

LEMMA RefuseRecords ==
    ASSUME Known, NEW o \in Op, Refuse(o)
    PROVE  Records(o)
<1>0. o \in Fn /\ TypeOK /\ prog \in Programs
    BY Types, Tree DEF Known, Op, Fn
<1>1. /\ Attempt /\ status[o] = "latent" /\ o \in prog.unfit
      /\ \A p \in Calls(prog.caller[o]) : p < o => status[p] # "latent"
    BY DEF Known, Refuse, Reached, Running
<1>2. status'[o] = "done" /\ result'[o] = "error"
    BY <1>0, <1>1, RefuseStep, Moved
<1>3. InTurn(o) /\ Promised(o) /\ GivesUp(o)
    BY <1>1, <1>2 DEF Refuse, server, InTurn, Promised, GivesUp
<1>4. Blame(o)
    BY <1>0, <1>1, EndsItself DEF Blame, Culprit
<1>5. Answers(o)
    BY <1>1, <1>2, <1>4 DEF Answers
<1> QED
    BY <1>3, <1>5 DEF Records

\* A failure leaves nothing to say.
LEMMA FailingRecords ==
    ASSUME Known, NEW o \in Op, Takes(o, "failed", "error"), Failing(o), status[o] \in Active,
           Arrive(o) \/ UNCHANGED promise
    PROVE  Records(o)
<1>0. o \in Fn /\ TypeOK
    BY Types, Tree DEF Known, Op, Fn
<1>1. status'[o] = "failed" /\ result'[o] = "error"
    BY <1>0, Moved
<1>2. InTurn(o) /\ GivesUp(o)
    BY <1>1 DEF InTurn, GivesUp, Failing, Active
<1>3. Promised(o)
    BY <1>0, <1>1, Types DEF Promised, Arrive
<1>4. Answers(o)
    BY <1>1 DEF Answers
<1> QED
    BY <1>2, <1>3, <1>4 DEF Records

LEMMA AbortRecords ==
    ASSUME Known, NEW o \in Op, Abort(o) \/ LoseCreate(o)
    PROVE  Records(o)
<1>1. TypeOK /\ Attempt /\ status[o] = "create" /\ Failing(o) /\ (Arrive(o) \/ UNCHANGED promise)
    BY DEF Known, Abort, LoseCreate, Ready, Doomed
<1> QED
    BY <1>1, AbortStep, FailingRecords DEF Active

LEMMA FailFlushRecords ==
    ASSUME Known, NEW f \in Op, FailFlush(f)
    PROVE  Records(f)
<1>1. TypeOK /\ Attempt /\ status[f] = "flush" /\ Failing(f) /\ promise' = promise
    BY DEF Known, FailFlush, Flushed, Op, Root
<1> QED
    BY <1>1, FailFlushStep, FailingRecords DEF Active

LEMMA SettleRecords ==
    ASSUME Known, NEW f \in Op, Settle(f) \/ LoseSettle(f)
    PROVE  Records(f)
<1>0. f \in Fn /\ f # Root /\ TypeOK
    BY Types, Tree DEF Known, Op, Fn, Root
<1>1. /\ Attempt /\ Record /\ status[f] = "settle" /\ (Arrive(f) \/ UNCHANGED promise)
      /\ promise[f] = "pending"
    BY <1>0 DEF Known, Settle, LoseSettle, Record, BusyPending, Active
<1>2. CASE Takes(f, "failed", "error") /\ Failing(f)
    BY <1>1, <1>2, FailingRecords DEF Active
<1>3. CASE Takes(f, "done", result[f]) /\ End(f, "done", result[f])
    <2>1. status'[f] = "done" /\ result'[f] = result[f]
        BY <1>0, <1>3, Moved
    <2>2. ~Failing(f)
        BY <1>0, <2>1, Types DEF Failing, End
    <2>3. GivesUp(f) /\ InTurn(f)
        BY <1>1, <2>1, <2>2 DEF Settle, LoseSettle, GivesUp, InTurn
    <2>4. promise'[f] \in Settled \/ f \in givenUp'
        BY <1>0, <1>1, <2>2, Types DEF Settle, LoseSettle, Arrive, Arrived, Settled
    <2>5. Promised(f)
        BY <1>0, <1>1, <2>1, <2>4, Types DEF Promised, Arrive
    <2>6. Answers(f)
        BY <1>1, <2>1 DEF Answers, Record, OkFirm, ErrorBlamed
    <2> QED
        BY <2>3, <2>5, <2>6 DEF Records
<1> QED
    BY <1>0, <1>1, <1>2, <1>3, SettleStep

LEMMA FinishRecords ==
    ASSUME Known, NEW f \in Op, Finish(f)
    PROVE  Records(f)
<1>0. f \in Fn /\ f # Root /\ TypeOK
    BY Types, Tree DEF Known, Op, Fn, Root
<1>1. /\ mode = "running" /\ Attempt /\ Record /\ status[f] = "flush"
      /\ Flushed(f) /\ ~FlushError(f) /\ Collected(f) = {}
      /\ promise' = promise /\ givenUp' = givenUp
    BY <1>0 DEF Known, Finish, Flushed
<1>2. status'[f] = "settle" /\ result'[f] = result[f]
    BY <1>0, <1>1, FinishStep, Moved
<1>3. InTurn(f) /\ Promised(f) /\ GivesUp(f)
    BY <1>1, <1>2 DEF InTurn, Promised, GivesUp
<1>4. Covered(f)
    BY <1>0, <1>1, FinishCovered
<1>5. ASSUME ErrorCause(f) PROVE Blame(f)
    <2>1. todos[f] = {}
        BY <1>1 DEF Collected
    <2>2. ASSUME NEW s \in Spawns(f)
          PROVE  status[s] \notin {"suspended", "failed", "flush"}
        <3>1. s \in Op /\ ~Inline(s)
            BY DEF Spawns, Calls, Inline
        <3>2. status[s] # "failed" /\ status[s] # "flush"
            BY <1>1, <2>2 DEF FlushError, Flushed, Ended
        <3>3. status[s] = "suspended" => todos[s] # {} /\ todos[s] \subseteq Collected(f)
            BY <1>1, <3>1, <2>2 DEF Attempt, SuspendedHasTodos, Collected
        <3> QED
            BY <1>1, <3>2, <3>3
    <2> QED
        BY <1>5, <2>1, <2>2 DEF ErrorCause
<1>6. Answers(f)
    BY <1>1, <1>2, <1>4, <1>5 DEF Answers, Record, OkFirm, ErrorBlamed
<1> QED
    BY <1>3, <1>6 DEF Records

LEMMA SuspendRecords ==
    ASSUME Known, NEW f \in Op, Suspend(f)
    PROVE  Records(f)
<1>0. f \in Fn /\ f # Root /\ TypeOK
    BY Types, Tree DEF Known, Op, Fn, Root
<1>1. /\ Attempt /\ Record /\ status[f] = "flush" /\ promise' = promise /\ givenUp' = givenUp
    BY <1>0 DEF Known, Suspend, Flushed, server
<1>2. status'[f] = "suspended" /\ result'[f] \in {result[f], "suspended"}
    BY <1>0, <1>1, SuspendStep, Moved
<1>3. InTurn(f) /\ Promised(f) /\ GivesUp(f)
    BY <1>1, <1>2 DEF InTurn, Promised, GivesUp
<1>4. Answers(f)
    BY <1>1, <1>2 DEF Answers, Record, OkFirm
<1> QED
    BY <1>3, <1>4 DEF Records

LEMMA CreateRecords ==
    ASSUME Known, NEW o \in Op, Create(o)
    PROVE  Records(o)
<1>0. o \in Fn /\ o # Root /\ TypeOK /\ prog \in Programs
    BY Types, Tree DEF Known, Op, Fn, Root
<1>1. /\ Attempt /\ Record /\ History /\ status[o] = "create" /\ Arrive(o) /\ givenUp' = givenUp
    BY DEF Known, Create, Ready
<1>2. o \notin prog.unfit
    BY <1>0, <1>1 DEF Record, BusyPending, Active
<1>3. \A x \in Fn : promise'[x] = promise[x] \/ (x = o /\ promise'[x] = Arrived(x))
    BY <1>0, <1>1, Types DEF Arrive
<1>4. InTurn(o)
    BY <1>1 DEF InTurn
<1>5. CASE Takes(o, "body", "none") /\ prog.kind[o] = "local" /\ promise'[o] = "pending"
    <2>1. status'[o] = "body" /\ result'[o] = "none"
        BY <1>0, <1>5, Moved
    <2> QED
        BY <2>1, <1>1, <1>3, <1>4, <1>5 DEF Records, Promised, GivesUp, Answers
<1>6. CASE Takes(o, "suspended", "suspended")
    <2>1. status'[o] = "suspended" /\ result'[o] = "suspended"
        BY <1>0, <1>6, Moved
    <2> QED
        BY <2>1, <1>1, <1>3, <1>4 DEF Records, Promised, GivesUp, Answers
<1>7. CASE Takes(o, "done", "ok") /\ prog.kind[o] = "detached"
    <2>1. status'[o] = "done" /\ result'[o] = "ok"
        BY <1>0, <1>7, Moved
    <2> QED
        BY <2>1, <1>1, <1>3, <1>4, <1>7 DEF Records, Promised, GivesUp, Answers
<1>8. Arrived(o) \in Settled => promise[o] = Arrived(o) /\ promise'[o] = Arrived(o)
    BY <1>0, <1>1, Types DEF Arrived, Arrive, Settled
<1>9. CASE Takes(o, "done", "ok") /\ Arrived(o) = "resolved"
    <2>1. status'[o] = "done" /\ result'[o] = "ok"
        BY <1>0, <1>9, Moved
    <2>2. promise[o] = "resolved" /\ promise'[o] = "resolved"
        BY <1>8, <1>9 DEF Settled
    <2>3. prog.kind[o] # "detached" => Firm(o)
        BY <1>0, <1>1, <1>2, <2>2, RemoteFirm, Tree DEF History, ResolvedFirm
    <2> QED
        BY <2>1, <2>2, <2>3, <1>1, <1>3, <1>4 DEF Records, Promised, GivesUp, Answers, Settled
<1>10. CASE Takes(o, "done", "error") /\ Arrived(o) = "rejected"
    <2>1. status'[o] = "done" /\ result'[o] = "error"
        BY <1>0, <1>10, Moved
    <2>2. promise[o] = "rejected" /\ promise'[o] = "rejected"
        BY <1>8, <1>10 DEF Settled
    <2>3. prog.kind[o] = "local" => Blame(o)
        BY <1>1, <2>2 DEF History, RejectedBlamed, Blame, Excuse
    <2>4. prog.kind[o] \in Remote => Blame(o)
        BY <1>0, <2>2, EndsItself DEF Blame, Culprit
    <2>5. prog.kind[o] # "detached" => Blame(o)
        BY <1>0, <2>3, <2>4, Tree
    <2> QED
        BY <2>1, <2>2, <2>5, <1>1, <1>3, <1>4 DEF Records, Promised, GivesUp, Answers, Settled
<1> QED
    BY <1>0, <1>1, <1>5, <1>6, <1>7, <1>9, <1>10, CreateStep

-----------------------------------------------------------------------------
(* The other steps *)

\* A background task panics: it is given up, and what is below it is gone.
LEMMA PanicRemembers ==
    ASSUME Known, NEW f \in Fn, Panic(f)
    PROVE  Remembers
<1>1. /\ prog' = prog /\ givenUp \subseteq givenUp' /\ mode = "running"
      /\ \A x \in Fn : promise'[x] \in {promise[x], Arrived(x)}
    BY DEF Panic, Running
<1> QED
    BY <1>1 DEF Remembers, GivenUpStays, Changes

LEMMA PanicRecords ==
    ASSUME Known, NEW f \in Fn, Panic(f), Task(f) # Root
    PROVE  Record'
<1> DEFINE b == Task(f)
<1> DEFINE T == Below(b) \cup {b}
<1>0. /\ TypeOK /\ Attempt /\ Record /\ mode = "running" /\ Running(f)
      /\ Remembers /\ prog' = prog /\ prog \in Programs
    BY PanicRemembers, Types DEF Known, Panic, Running
<1>1. b \in Above[f] /\ b \in Fn /\ b \in prog.spawned /\ status[b] = "body" /\ b # Root
    BY <1>0, TaskRuns
<1>2. /\ todos' = todos
      /\ status' = [o \in Fn |-> IF o \in T THEN "gone" ELSE status[o]]
      /\ result' = [result EXCEPT ![b] = "error"]
      /\ givenUp' = givenUp \cup {b}
      /\ \E late \in SUBSET Below(b) : promise' = [o \in Fn |-> IF o \in late THEN Arrived(o) ELSE promise[o]]
    BY DEF Panic
<1>3. b \in Op
    BY <1>1 DEF Op, Fn, Root
<1> HIDE DEF b
<1>4. ASSUME NEW o \in Op
      PROVE  /\ o \in Fn /\ prog.caller[o] \in Fn
             /\ o \in T => o = b \/ prog.caller[o] \in T
             /\ prog.caller[o] \in T => o \in T
    BY <1>0, <1>1, <1>3, BelowCaller
<1>5. T \subseteq Op /\ Below(b) \subseteq T /\ b \in T
    BY <1>3 DEF Below
<1> HIDE DEF T
<1>6. /\ \A o \in Fn : status'[o] = (IF o \in T THEN "gone" ELSE status[o])
      /\ \A o \in Fn : result'[o] = (IF o = b THEN "error" ELSE result[o])
      /\ \A o \in Fn : o \notin T => promise'[o] = promise[o]
      /\ \A o \in Fn : promise[o] \in Settled => promise'[o] = promise[o]
      /\ givenUp \subseteq Op
    BY <1>0, <1>2, <1>5, Types, ChangesLast DEF Remembers
<1>7. \A g : (Firm(g) => Firm(g)') /\ (Blame(g) => Blame(g)')
    <2>1. \A g : Excuse(g) => Excuse(g)'
        BY <1>0, <1>2, FirmStays DEF Excuse
    <2> QED
        BY <2>1, <1>0, FirmStays DEF Blame
<1>8. GivenUpEnded'
    <2>1. ASSUME NEW g \in givenUp'
          PROVE  \/ status'[g] \in {"done", "failed", "gone"}
                 \/ \E y \in Above[g] \ {g} : promise'[y] \in Settled
        <3>1. CASE g = b
            BY <3>1, <1>1, <1>5, <1>6
        <3>2. CASE g # b
            <4>1. g \in givenUp /\ g \in Fn /\ Above[g] \subseteq Fn
                BY <3>2, <2>1, <1>0, <1>2, <1>4, <1>6, AboveClosed
            <4>2. \/ status[g] \in {"done", "failed", "gone"}
                  \/ \E y \in Above[g] \ {g} : promise[y] \in Settled
                BY <4>1, <1>0 DEF Record, GivenUpEnded
            <4> QED
                BY <4>1, <4>2, <1>6
        <3> QED
            BY <3>1, <3>2
    <2> QED
        BY <2>1, <1>0, FirmStays DEF GivenUpEnded, Settled
<1>9. BusyPending'
    <2>1. ASSUME NEW x \in Fn, status'[x] \in Active
          PROVE  x \notin T /\ x # b /\ status'[x] = status[x] /\ promise'[x] = promise[x]
        BY <2>1, <1>5, <1>6 DEF Active
    <2> QED
        BY <2>1, <1>0, <1>2 DEF Record, BusyPending
<1>10. DoneSettled' /\ UnfitRefused'
    <2>1. \A o \in Op : status'[o] = "done" => status[o] = "done"
        BY <1>4, <1>6
    <2>2. \A x \in prog.unfit : x \in Op
        BY <1>0, Tree
    <2> QED
        BY <2>1, <2>2, <1>0, <1>2, <1>4, <1>6 DEF Record, DoneSettled, UnfitRefused, Settled
<1>11. EndedGivenUp'
    <2>1. ASSUME NEW o \in Op, status'[o] = "failed", Inline(o) PROVE o \in givenUp'
        BY <2>1, <1>0, <1>2, <1>4, <1>6 DEF Record, EndedGivenUp
    <2>2. ASSUME NEW o \in Op, status'[o] = "gone"
          PROVE  status'[prog.caller[o]] = "gone" \/ o \in givenUp'
        <3>1. CASE o \in T
            BY <3>1, <1>2, <1>4, <1>6
        <3>2. CASE o \notin T
            BY <3>2, <2>2, <1>0, <1>2, <1>4, <1>6 DEF Record, EndedGivenUp
        <3> QED
            BY <3>1, <3>2
    <2> QED
        BY <2>1, <2>2, <1>0, FirmStays DEF EndedGivenUp
<1>12. InOrder'
    <2>1. SUFFICES ASSUME NEW o \in Op, NEW p \in Op, prog.caller[o] = prog.caller[p], o < p,
                          status'[o] = "latent"
                   PROVE  status'[p] = "latent" \/ status'[prog.caller[o]] = "gone"
        BY <1>0 DEF InOrder
    <2>2. status[o] = "latent"
        BY <2>1, <1>4, <1>6
    <2>3. status[p] = "latent" \/ status[prog.caller[o]] = "gone"
        BY <2>1, <2>2, <1>0 DEF Record, InOrder
    <2> QED
        BY <2>1, <2>3, <1>1, <1>4, <1>6
<1>13. StoppedEarly'
    <2>1. SUFFICES ASSUME NEW g \in Fn, status'[g] = "flush",
                          NEW o \in Calls(g), status'[o] = "latent"
                   PROVE  Stopped(g)'
        BY <1>0, FirmStays DEF StoppedEarly
    <2>2. status[o] = "latent" /\ status[g] = "flush"
        BY <2>1, <1>4, <1>6 DEF Calls
    <2>3. Stopped(g)
        BY <2>1, <2>2, <1>0 DEF Record, StoppedEarly
    <2>4. PICK m \in Calls(g) : (Inline(m) \/ m \in prog.unfit) /\ result[m] \in {"error", "suspended"}
        BY <2>3 DEF Stopped, Met, Bad
    <2>5. result'[m] \in {"error", "suspended"}
        BY <2>4, <1>4, <1>6 DEF Calls
    <2> QED
        BY <2>3, <2>4, <2>5, <1>0, FirmStays DEF Stopped, Met, Bad, Calls
<1>14. CreatePrepared'
    BY <1>0, <1>4, <1>6, FirmStays DEF Record, CreatePrepared
<1>15. OkFirm'
    BY <1>0, <1>4, <1>6, <1>7 DEF Record, OkFirm
<1>16. ErrorBlamed'
    <2>1. ASSUME NEW x \in Op, ErrorCause(x), x \notin T PROVE ErrorCause(x)'
        <3>1. ASSUME NEW s \in Spawns(x), status[s] # "body"
              PROVE  status'[s] = status[s] /\ result'[s] = result[s] /\ s \in Spawns(x)'
            <4>1. s \in Op /\ prog.caller[s] = x /\ s # b
                BY <3>1, <1>1 DEF Spawns, Calls
            <4> QED
                BY <2>1, <3>1, <4>1, <1>0, <1>4, <1>6, FirmStays
        <3> QED
            BY <2>1, <3>1, <1>0, <1>2, <1>7 DEF ErrorCause
    <2>2. ASSUME NEW x \in Op, result'[x] = "error", prog.kind[x] # "detached",
                 status'[x] \in {"done", "settle", "flush"}
          PROVE  x \notin T /\ status'[x] = status[x] /\ result[x] = "error"
        BY <2>2, <1>4, <1>5, <1>6
    <2>3. ASSUME NEW x \in Op, result'[x] = "error", prog.kind[x] # "detached"
          PROVE  /\ status'[x] \in {"done", "settle"} => Blame(x)'
                 /\ status'[x] = "flush" => ErrorCause(x)'
        BY <2>1, <2>2, <2>3, <1>0, <1>7 DEF Record, ErrorBlamed
    <2> QED
        BY <2>3, <1>0 DEF ErrorBlamed
<1>17. SettleCovered'
    <2>1. ASSUME NEW x \in Op, status'[x] = "settle" PROVE Covered(x)'
        <3>1. status[x] = "settle" /\ x \in Fn /\ Covered(x)
            BY <2>1, <1>0, <1>4, <1>6 DEF Record, SettleCovered
        <3> QED
            BY <3>1, <1>0, <1>2, CoveredStays DEF Open
    <2> QED
        BY <2>1 DEF SettleCovered
<1> QED
    BY <1>8, <1>9, <1>10, <1>11, <1>12, <1>13, <1>14, <1>15, <1>16, <1>17 DEF Record

\* Steps the attempt does not see.
LEMMA UnseenRecords ==
    ASSUME Known, Remembers, mode = "running",
           UNCHANGED <<status, result, todos, givenUp>>,
           \A x \in Fn : status[x] \in Active \ {"create"} => promise'[x] = promise[x]
    PROVE  Record'
<1>0. /\ TypeOK /\ Attempt /\ Record /\ prog' = prog /\ prog \in Programs
      /\ givenUp \subseteq Op
    BY Types DEF Known, Remembers
<1>1. \A o \in Op : o \in Fn
    BY <1>0, Tree DEF Op, Fn
<1>2. \A x \in Fn : promise[x] \in Settled => promise'[x] = promise[x]
    BY <1>0, ChangesLast DEF Remembers
<1>3. \A g : (Firm(g) => Firm(g)') /\ (Blame(g) => Blame(g)')
    <2>1. \A g : Excuse(g) => Excuse(g)'
        BY <1>0, FirmStays DEF Excuse
    <2> QED
        BY <2>1, <1>0, FirmStays DEF Blame
<1>4. GivenUpEnded'
    <2>1. \A g \in givenUp : Above[g] \subseteq Fn
        BY <1>0, <1>1, AboveClosed
    <2> QED
        BY <2>1, <1>0, <1>2, FirmStays DEF Record, GivenUpEnded
<1>5. BusyPending' /\ DoneSettled' /\ EndedGivenUp' /\ UnfitRefused' /\ InOrder'
    <2>1. BusyPending' /\ DoneSettled'
        BY <1>0, <1>1, <1>2 DEF Record, BusyPending, DoneSettled, Settled
    <2>2. EndedGivenUp' /\ UnfitRefused' /\ InOrder'
        BY <1>0, FirmStays DEF Record, EndedGivenUp, UnfitRefused, InOrder
    <2> QED
        BY <2>1, <2>2
<1>6. StoppedEarly'
    <2>1. \A f : Stopped(f)' = Stopped(f)
        BY <1>0, FirmStays DEF Stopped, Met, Bad
    <2> QED
        BY <2>1, <1>0, FirmStays DEF Record, StoppedEarly
<1>7. CreatePrepared' /\ OkFirm'
    BY <1>0, <1>3, FirmStays DEF Record, CreatePrepared, OkFirm
<1>8. ErrorBlamed'
    <2>1. \A x \in Op : ErrorCause(x) => ErrorCause(x)'
        BY <1>0, <1>3, FirmStays DEF ErrorCause
    <2> QED
        BY <2>1, <1>0, <1>3 DEF Record, ErrorBlamed
<1>9. SettleCovered'
    <2>1. ASSUME NEW x \in Op, status[x] = "settle" PROVE Covered(x)'
        <3>1. x \in Fn /\ Covered(x)
            BY <2>1, <1>0, <1>1 DEF Record, SettleCovered
        <3> QED
            BY <2>1, <3>1, <1>0, CoveredStays DEF Open
    <2> QED
        BY <2>1 DEF SettleCovered
<1> QED
    BY <1>4, <1>5, <1>6, <1>7, <1>8, <1>9 DEF Record

\* A fresh attempt knows nothing yet.
LEMMA FreshRecord ==
    ASSUME prog \in Programs, status = Fresh, result = [f \in Fn |-> "none"],
           promise[Root] = "pending", givenUp \subseteq Op,
           \A g \in givenUp : \E f \in Above[g] \ {g} : promise[f] \in Settled
    PROVE  Record
<1>1. /\ \A f \in Fn : status[f] = (IF f = Root THEN "body" ELSE "latent")
      /\ \A o \in Op : o \in Fn /\ o # Root /\ status[o] = "latent" /\ result[o] = "none"
      /\ prog.unfit \subseteq Op /\ Root \notin Op
    BY Tree DEF Fresh, Op, Fn, Root
<1>2. GivenUpEnded /\ BusyPending
    BY <1>1 DEF GivenUpEnded, BusyPending, Active
<1>3. DoneSettled /\ EndedGivenUp /\ UnfitRefused /\ InOrder
    BY <1>1 DEF DoneSettled, EndedGivenUp, UnfitRefused, InOrder
<1>4. StoppedEarly /\ CreatePrepared /\ OkFirm /\ ErrorBlamed /\ SettleCovered
    BY <1>1 DEF StoppedEarly, CreatePrepared, OkFirm, ErrorBlamed, SettleCovered
<1> QED
    BY <1>2, <1>3, <1>4 DEF Record

LEMMA RootFinishRemembers ==
    ASSUME Known, Finish(Root)
    PROVE  Remembers
<1>0. /\ mode = "running" /\ Attempt /\ Record /\ TypeOK /\ status[Root] = "flush"
      /\ Flushed(Root) /\ ~FlushError(Root) /\ Collected(Root) = {} /\ Root \in Fn
      /\ prog' = prog /\ givenUp' = givenUp
      /\ promise' = [promise EXCEPT ![Root] = IF result[Root] = "ok" THEN "resolved" ELSE "rejected"]
    BY Types, Tree DEF Known, Finish, Flushed, Fn, Root
<1>1. \A x \in Fn : x # Root => promise'[x] = promise[x]
    BY <1>0, Types
<1>2. promise[Root] = "pending" /\ promise'[Root] \in Settled
    BY <1>0, Types DEF Record, BusyPending, Active, Settled
<1>3. Covered(Root)
    BY <1>0, FinishCovered
<1>4. Covered(Root)'
    <2>1. Below(Root)' = Below(Root) /\ \A g : Cut(g)' = Cut(g)
        BY <1>0 DEF Below, Cut, EndedWith, Above
    <2>2. \A o \in Below(Root) : promise'[o] = promise[o]
        BY <1>0, <1>1, Types, Tree DEF Below, Op, Fn
    <2> QED
        BY <1>0, <1>3, <2>1, <2>2 DEF Covered
<1>5. \A x \in Fn : Changes(x)
    BY <1>1, <1>2, <1>4 DEF Changes
<1> QED
    BY <1>0, <1>5 DEF Remembers, GivenUpStays

LEMMA RootPendingStep ==
    ASSUME TypeOK, RootPending, [Next]_vars
    PROVE  RootPending'
<1>0. Root \in Fn /\ Root \notin Op /\ prog \in Programs
    BY Types, Tree DEF Op, Fn, Root
<1>1. ASSUME NEW o \in Op, Arrive(o) PROVE promise'[Root] = promise[Root]
    BY <1>0, <1>1, Types DEF Arrive
<1>2. ASSUME NEW f \in Fn, Step(f) \/ Panic(f)
      PROVE  mode = "running" /\ (mode' = "finished" \/ promise'[Root] = promise[Root])
    <2>1. mode = "running"
        BY <1>2 DEF Step, Return, Running, FailFlush, Suspend, Finish, Flushed, Issue, Refuse,
                    Reached, Create, Abort, Settle, Panic
    <2>2. CASE Panic(f)
        BY <2>1, <2>2, <1>0 DEF Panic, Below
    <2>3. CASE Finish(f)
        BY <2>1, <2>3 DEF Finish
    <2>4. CASE f \in Op /\ (Create(f) \/ Settle(f))
        BY <2>1, <2>4, <1>1 DEF Create, Settle
    <2>5. CASE Return(f) \/ FailFlush(f) \/ Suspend(f) \/ Issue(f) \/ Refuse(f) \/ Abort(f)
        BY <2>1, <2>5 DEF Return, FailFlush, Suspend, Issue, Refuse, Abort, server
    <2> QED
        BY <1>2, <2>2, <2>3, <2>4, <2>5 DEF Step
<1>3. ASSUME NEW o \in Op, LoseCreate(o) \/ LoseSettle(o)
      PROVE  mode = "running" /\ promise'[Root] = promise[Root]
    BY <1>1, <1>3 DEF LoseCreate, LoseSettle
<1>4. ASSUME NEW o \in Op, RemoteSettle(o) PROVE mode' = mode /\ promise'[Root] = promise[Root]
    BY <1>0, <1>4, Types DEF RemoteSettle, attempt
<1>5. CASE NewAttempt
    BY <1>5 DEF NewAttempt, RootPending
<1>6. CASE UNCHANGED vars
    BY <1>6 DEF vars, RootPending
<1> QED
    BY <1>2, <1>3, <1>4, <1>5, <1>6 DEF Next, RootPending

LEMMA KnownStep ==
    ASSUME Known, RootPending, [Next]_vars
    PROVE  Remembers /\ (mode' = "running" => Record')
<1>0. TypeOK /\ Op \subseteq Fn /\ prog \in Programs
    BY Types, Tree DEF Known, Op, Fn
<1>1. ASSUME NEW f \in Fn, NEW how, NEW r, Takes(f, how, r), Records(f)
      PROVE  Remembers /\ Record'
    BY <1>1, MoveRemembers, MoveRecords
<1>2. ASSUME NEW f \in Fn, Step(f) PROVE Remembers /\ (mode' = "running" => Record')
    <2>1. mode = "running" /\ Attempt /\ Record
        BY <1>2 DEF Known, Step, Return, Running, FailFlush, Suspend, Finish, Flushed, Issue, Refuse,
                    Reached, Create, Abort, Settle
    <2>2. CASE Return(f)
        BY <1>0, <1>1, <2>1, <2>2, ReturnStep, ReturnRecords
    <2>3. CASE f = Root /\ Finish(f)
        BY <2>3, RootFinishRemembers DEF Finish
    <2>4. CASE f = Root /\ (FailFlush(f) \/ Suspend(f))
        <3>1. prog' = prog /\ promise' = promise /\ givenUp' = givenUp /\ mode' # "running"
            BY <2>4 DEF FailFlush, Suspend, server
        <3> QED
            BY <3>1 DEF Remembers, GivenUpStays, Changes
    <2>5. CASE f \in Op /\ FailFlush(f)
        BY <1>0, <1>1, <2>1, <2>5, FailFlushStep, FailFlushRecords
    <2>6. CASE f \in Op /\ Suspend(f)
        BY <1>0, <1>1, <2>1, <2>6, SuspendStep, SuspendRecords
    <2>7. CASE f \in Op /\ Finish(f)
        BY <1>0, <1>1, <2>1, <2>7, FinishStep, FinishRecords
    <2>8. CASE f \in Op /\ Issue(f)
        BY <1>0, <1>1, <2>1, <2>8, IssueStep, IssueRecords
    <2>9. CASE f \in Op /\ Refuse(f)
        BY <1>0, <1>1, <2>1, <2>9, RefuseStep, RefuseRecords
    <2>10. CASE f \in Op /\ Create(f)
        BY <1>0, <1>1, <2>1, <2>10, CreateStep, CreateRecords
    <2>11. CASE f \in Op /\ Abort(f)
        BY <1>0, <1>1, <2>1, <2>11, AbortStep, AbortRecords
    <2>12. CASE f \in Op /\ Settle(f)
        BY <1>0, <1>1, <2>1, <2>12, SettleStep, SettleRecords
    <2>13. f = Root \/ f \in Op
        BY DEF Fn, Op, Root
    <2> QED
        BY <1>2, <2>2, <2>3, <2>4, <2>5, <2>6, <2>7, <2>8, <2>9, <2>10, <2>11, <2>12, <2>13 DEF Step
<1>3. ASSUME NEW f \in Fn, Panic(f) PROVE Remembers /\ (mode' = "running" => Record')
    <2>1. mode' = "running" => Task(f) # Root
        BY <1>3 DEF Panic
    <2> QED
        BY <1>3, <2>1, PanicRemembers, PanicRecords
<1>4. ASSUME NEW o \in Op, LoseCreate(o) \/ LoseSettle(o) PROVE Remembers /\ Record'
    <2>1. mode = "running" /\ Attempt
        BY <1>4 DEF Known, LoseCreate, LoseSettle
    <2> QED
        BY <1>0, <1>1, <1>4, <2>1, AbortStep, AbortRecords, SettleStep, SettleRecords
<1>5. ASSUME NEW o \in Op, RemoteSettle(o) PROVE Remembers /\ (mode' = "running" => Record')
    <2>1. /\ prog' = prog /\ givenUp' = givenUp /\ mode' = mode
          /\ UNCHANGED <<status, result, todos, givenUp>>
        BY <1>5 DEF RemoteSettle, attempt
    <2>2. /\ \A x \in Fn : x # o => promise'[x] = promise[x]
          /\ promise[o] = "pending" /\ promise'[o] \in Settled
          /\ prog.kind[o] # "local" /\ o # Root
        BY <1>0, <1>5, Types DEF RemoteSettle, Outcomes, Settled, Op, Root
    <2>3. Remembers
        BY <2>1, <2>2 DEF Remembers, GivenUpStays, Changes
    <2>4. ASSUME mode = "running", NEW x \in Fn, status[x] \in Active \ {"create"}
          PROVE  promise'[x] = promise[x]
        BY <2>2, <2>4 DEF Known, Record, BusyPending
    <2> QED
        BY <2>1, <2>3, <2>4, UnseenRecords
<1>6. CASE NewAttempt
    <2>1. /\ (prog \in Programs)' /\ (status = Fresh)' /\ (result = [f \in Fn |-> "none"])'
          /\ (promise[Root] = "pending")' /\ (givenUp \subseteq Op)'
          /\ (\A g \in givenUp : \E f \in Above[g] \ {g} : promise[f] \in Settled)'
        BY <1>0, <1>6, Types DEF NewAttempt, RootPending, Fresh, Above
    <2>2. Record'
        BY <2>1, FreshRecord, PTL
    <2>3. Remembers
        BY <1>6 DEF NewAttempt, Remembers, GivenUpStays, Changes
    <2> QED
        BY <2>2, <2>3
<1>7. CASE UNCHANGED vars
    <2>1. Remembers
        BY <1>7 DEF vars, Remembers, GivenUpStays, Changes
    <2> QED
        BY <1>7, <2>1, UnseenRecords DEF vars
<1> QED
    BY <1>2, <1>3, <1>4, <1>5, <1>6, <1>7 DEF Next

-----------------------------------------------------------------------------
(* Theorems *)

LEMMA IInvInit == Init => IInv
<1> SUFFICES ASSUME Init PROVE IInv
    OBVIOUS
<1>1. TypeOK
    BY TypeInit
<1>2. Attempt
    BY FreshAttempt DEF Init
<1>3. mode = "running" /\ \A f \in Op : status[f] # "settle"
    BY Types, <1>1, Tree DEF Init, Fresh, Op, Fn
<1> QED
    BY <1>1, <1>2, <1>3 DEF IInv, SuspensionHasCause, WaitsForItsWork

LEMMA IInvStep == IInv /\ [Next]_vars => IInv'
BY TypeStep, AttemptStep, CauseStep, WaitsStep DEF IInv

\* Error::Suspended never becomes the outcome of a promise, for any workflow, whatever
\* is lost or panics (the debug_asserts of RunTask and execute_until_blocked_inner).
THEOREM SuspensionsAreCaused == Spec => []SuspensionHasCause
<1>1. IInv => SuspensionHasCause
    BY DEF IInv
<1> QED
    BY <1>1, IInvInit, IInvStep, PTL DEF Spec

\* A suspended task waits for the remote ops of its attempt that are pending, and for no
\* others, however deep they are called (collect_remote_todos, take_remote_todos,
\* flush_local_work).
THEOREM NoWorkIsForgotten == Spec => []WaitsForItsWork
<1>1. IInv => WaitsForItsWork
    BY DEF IInv
<1> QED
    BY <1>1, IInvInit, IInvStep, PTL DEF Spec

SInv ==
    /\ IInv /\ RootPending
    /\ History /\ StructuredConcurrency
    /\ mode = "running" => Record

LEMMA SInvInit == Init => SInv
<1> SUFFICES ASSUME Init PROVE SInv
    OBVIOUS
<1>0. prog \in Programs /\ Root \in Fn /\ Root \notin Op /\ Op \subseteq Fn
    BY Tree DEF Init, Op, Fn, Root
<1>1. IInv
    BY IInvInit
<1>2. /\ RootPending /\ promise[Root] = "pending" /\ givenUp = {}
      /\ \A o \in Op : promise[o] = "absent"
      /\ \A f \in Fn : promise[f] \notin Settled
    BY <1>0 DEF Init, RootPending, Settled
<1>3. History
    BY <1>2 DEF History, CallersThere, Prepared, ResolvedFirm, RejectedBlamed
<1>4. StructuredConcurrency
    BY <1>2 DEF StructuredConcurrency
<1>5. Record
    BY <1>0, <1>2, FreshRecord DEF Init
<1> QED
    BY <1>1, <1>2, <1>3, <1>4, <1>5 DEF SInv

LEMMA SInvStep == SInv /\ [Next]_vars => SInv'
<1> SUFFICES ASSUME SInv, [Next]_vars PROVE SInv'
    OBVIOUS
<1>1. Known /\ RootPending /\ IInv
    BY DEF SInv, IInv, Known
<1>2. IInv' /\ RootPending'
    BY <1>1, IInvStep, RootPendingStep DEF Known
<1>3. Remembers /\ (mode' = "running" => Record')
    BY <1>1, KnownStep
<1>4. History' /\ StructuredConcurrency'
    BY <1>1, <1>3, HistoryStays, StructureStays
<1> QED
    BY <1>2, <1>3, <1>4 DEF SInv

\* Structured concurrency, for any workflow, however its background tasks interleave,
\* attempts follow one another, and requests are lost: a function whose promise is
\* settled left nothing pending below it but detached ops, and what was cut off when a
\* failure was passed on or ignored (flush_local_work, RunTask::into_future and spawn,
\* the Drop of SpawnedHandle).
THEOREM ConcurrencyIsStructured == Spec => []StructuredConcurrency
<1>1. SInv => StructuredConcurrency
    BY DEF SInv
<1> QED
    BY <1>1, SInvInit, SInvStep, PTL DEF Spec

-----------------------------------------------------------------------------
(* Ids *)

\* A sequence of tokens.
Word(x) == \E S : x \in Seq(S)

\* Its tokens are numbered from 1.
LEMMA Letters ==
    ASSUME NEW x, Word(x)
    PROVE  Len(x) \in Nat /\ DOMAIN x = 1 .. Len(x)
BY DEF Word

\* Words of the same tokens are one.
LEMMA SameWord ==
    ASSUME NEW x, Word(x), NEW y, Word(y), Len(x) = Len(y),
           \A k \in 1 .. Len(x) : x[k] = y[k]
    PROVE  x = y
<1>1. PICK S : x \in Seq(S)
    BY DEF Word
<1>2. PICK T : y \in Seq(T)
    BY DEF Word
<1>3. x \in Seq(S \cup T) /\ y \in Seq(S \cup T)
    BY <1>1, <1>2, SeqMonotonic
<1> QED
    BY <1>3, SeqEqual

\* The beginning of a word.
LEMMA Beginning ==
    ASSUME NEW x, Word(x), NEW n \in 0 .. Len(x)
    PROVE  LET y == SubSeq(x, 1, n)
           IN  /\ Word(y) /\ Len(y) = n
               /\ \A k \in 1 .. n : y[k] = x[k]
<1>1. PICK S : x \in Seq(S)
    BY DEF Word
<1>2. n \in Int /\ \A k \in 1 .. n : x[k] \in S
    BY <1>1, Letters
<1> DEFINE y == SubSeq(x, 1, n)
<1>3. /\ y \in Seq(S) /\ Len(y) = IF 1 <= n THEN n - 1 + 1 ELSE 0
      /\ \A k \in 1 .. n - 1 + 1 : y[k] = x[1 + k - 1]
    BY <1>2, SubSeqProperties
<1> HIDE DEF y
<1>4. Word(y)
    BY <1>3 DEF Word
<1>5. n \in Nat
    BY Letters
<1>6. Len(y) = n /\ \A k \in 1 .. n : y[k] = x[k]
    BY <1>3, <1>5
<1> QED
    BY <1>4, <1>6 DEF y

\* Words that begin alike have one beginning.
LEMMA SameBeginning ==
    ASSUME NEW x, Word(x), NEW y, Word(y), NEW n \in Nat, n <= Len(x), n <= Len(y),
           \A k \in 1 .. n : x[k] = y[k]
    PROVE  SubSeq(x, 1, n) = SubSeq(y, 1, n)
<1> DEFINE u == SubSeq(x, 1, n)
           v == SubSeq(y, 1, n)
<1>1. n \in 0 .. Len(x) /\ n \in 0 .. Len(y)
    BY Letters
<1>2. Word(u) /\ Len(u) = n /\ \A k \in 1 .. n : u[k] = x[k]
    BY <1>1, Beginning
<1>3. Word(v) /\ Len(v) = n /\ \A k \in 1 .. n : v[k] = y[k]
    BY <1>1, Beginning
<1> HIDE DEF u, v
<1>4. u = v
    BY <1>2, <1>3, SameWord
<1> QED
    BY <1>4 DEF u, v

\* A word begins with itself.
LEMMA WholeWord ==
    ASSUME NEW x, Word(x)
    PROVE  SubSeq(x, 1, Len(x)) = x
<1>1. Len(x) \in 0 .. Len(x)
    BY Letters
<1> DEFINE y == SubSeq(x, 1, Len(x))
<1>2. Word(y) /\ Len(y) = Len(x) /\ \A k \in 1 .. Len(x) : y[k] = x[k]
    BY <1>1, Beginning
<1> HIDE DEF y
<1>3. y = x
    BY <1>2, SameWord
<1> QED
    BY <1>3 DEF y

\* The separator before the next segment.
SepOf(x) == IF HasOrigin(x) THEN LineageSep ELSE OriginSep

\* What join_id makes.
LEMMA Joined ==
    ASSUME NEW x, Word(x), NEW seg
    PROVE  LET y == JoinId(x, seg)
           IN  /\ Word(y) /\ Len(y) = Len(x) + 2
               /\ \A k \in 1 .. Len(x) : y[k] = x[k]
               /\ y[Len(x) + 1] = SepOf(x) /\ y[Len(x) + 2] = seg
<1> DEFINE tail == <<SepOf(x), seg>>
           y == JoinId(x, seg)
<1>1. PICK S : x \in Seq(S)
    BY DEF Word
<1> DEFINE T == S \cup {SepOf(x), seg}
<1>2. x \in Seq(T)
    BY <1>1, SeqMonotonic
<1>3. tail \in Seq(T) /\ Len(tail) = 2 /\ tail[1] = SepOf(x) /\ tail[2] = seg
    OBVIOUS
<1>4. y = x \o tail
    BY DEF JoinId, SepOf
<1> HIDE DEF T, tail, y
<1>5. tail \in Seq(T)
    BY <1>3
<1>6. /\ x \o tail \in Seq(T) /\ Len(x \o tail) = Len(x) + Len(tail)
      /\ \A k \in 1 .. Len(x) + Len(tail) :
            (x \o tail)[k] = IF k <= Len(x) THEN x[k] ELSE tail[k - Len(x)]
    BY <1>2, <1>5, ConcatProperties, Zenon
<1>7. /\ y \in Seq(T) /\ Len(y) = Len(x) + 2
      /\ \A k \in 1 .. Len(x) + 2 :
            y[k] = IF k <= Len(x) THEN x[k] ELSE tail[k - Len(x)]
    BY <1>3, <1>4, <1>6
<1>8. Len(x) \in Nat
    BY Letters
<1>9. y[Len(x) + 1] = tail[1] /\ y[Len(x) + 2] = tail[2] /\ \A k \in 1 .. Len(x) : y[k] = x[k]
    BY <1>7, <1>8
<1>10. Word(y)
    BY <1>7 DEF Word
<1> QED
    BY <1>3, <1>7, <1>9, <1>10 DEF y

\* It forgets nothing.
LEMMA JoinInjective ==
    ASSUME NEW x, Word(x), NEW y, Word(y), NEW s, NEW t, JoinId(x, s) = JoinId(y, t)
    PROVE  x = y /\ s = t
<1> DEFINE u == JoinId(x, s)
           v == JoinId(y, t)
<1>1. /\ Len(u) = Len(x) + 2 /\ u[Len(x) + 2] = s
      /\ \A k \in 1 .. Len(x) : u[k] = x[k]
    BY Joined
<1>2. /\ Len(v) = Len(y) + 2 /\ v[Len(y) + 2] = t
      /\ \A k \in 1 .. Len(y) : v[k] = y[k]
    BY Joined
<1>3. u = v
    OBVIOUS
<1>4. Len(x) \in Nat /\ Len(y) \in Nat
    BY Letters
<1> HIDE DEF u, v
<1>5. Len(x) = Len(y)
    BY <1>1, <1>2, <1>3, <1>4
<1>6. \A k \in 1 .. Len(x) : x[k] = y[k]
    BY <1>1, <1>2, <1>3, <1>5
<1>7. x = y
    BY <1>5, <1>6, SameWord
<1> QED
    BY <1>1, <1>2, <1>3, <1>5, <1>7

\* What is joined extends what it is joined to, and what that extends.
LEMMA JoinExtends ==
    ASSUME NEW x, Word(x), NEW y, Word(y), Extends(y, x), NEW seg
    PROVE  Extends(JoinId(y, seg), x) /\ JoinId(y, seg) # x
<1> DEFINE z == JoinId(y, seg)
<1>1. /\ Word(z) /\ Len(z) = Len(y) + 2
      /\ \A k \in 1 .. Len(y) : z[k] = y[k]
      /\ z[Len(y) + 1] = SepOf(y)
    BY Joined
<1>2. Len(x) \in Nat /\ Len(y) \in Nat /\ Len(x) <= Len(y)
    BY Letters DEF Extends
<1> HIDE DEF z
<1>3. Len(x) < Len(z) /\ z # x
    BY <1>1, <1>2
<1>4. SubSeq(z, 1, Len(x)) = SubSeq(y, 1, Len(x))
    BY <1>1, <1>2, SameBeginning
<1>5. SubSeq(y, 1, Len(x)) = x
    BY WholeWord DEF Extends
<1>6. z[Len(x) + 1] = SepOf(x)
    <2>1. CASE y = x
        BY <1>1, <2>1
    <2>2. CASE y # x
        <3>1. Len(x) + 1 \in 1 .. Len(y) /\ y[Len(x) + 1] = SepOf(x)
            BY <1>2, <2>2 DEF Extends, SepOf
        <3> QED
            BY <1>1, <3>1
    <2> QED
        BY <2>1, <2>2
<1>7. Extends(z, x)
    BY <1>3, <1>4, <1>5, <1>6 DEF Extends, SepOf
<1> QED
    BY <1>3, <1>7 DEF z

-----------------------------------------------------------------------------
(* Origins *)

\* What comes before the first ":".
LEMMA OriginFound ==
    ASSUME NEW x, Word(x), NEW k \in 1 .. Len(x), x[k] = OriginSep,
           \A j \in 1 .. k - 1 : x[j] # OriginSep
    PROVE  HasOrigin(x) /\ OriginOf(x) = SubSeq(x, 1, k - 1)
<1> DEFINE First(i) == /\ x[i] = OriginSep
                       /\ \A j \in DOMAIN x : x[j] = OriginSep => i <= j
           first == CHOOSE i \in DOMAIN x : First(i)
<1>1. DOMAIN x = 1 .. Len(x) /\ Len(x) \in Nat
    BY Letters
<1>2. k \in DOMAIN x /\ First(k)
    BY <1>1
<1>3. HasOrigin(x)
    BY <1>2 DEF HasOrigin
<1>4. first \in DOMAIN x /\ First(first)
    <2> HIDE DEF First
    <2> QED
        BY <1>2
<1>5. OriginOf(x) = SubSeq(x, 1, first - 1)
    BY <1>3 DEF OriginOf
<1> HIDE DEF first
<1>6. first = k
    BY <1>1, <1>2, <1>4
<1> QED
    BY <1>3, <1>5, <1>6

\* There is a first ":", if there is one.
LEMMA OriginThere ==
    ASSUME NEW x, Word(x), HasOrigin(x)
    PROVE  \E k \in 1 .. Len(x) : x[k] = OriginSep /\ \A j \in 1 .. k - 1 : x[j] # OriginSep
<1> DEFINE K == {k \in 1 .. Len(x) : x[k] = OriginSep}
<1>1. DOMAIN x = 1 .. Len(x) /\ Len(x) \in Nat
    BY Letters
<1>2. K \subseteq Nat /\ K # {}
    BY <1>1 DEF HasOrigin
<1>3. PICK k \in K : \A j \in K : k <= j
    <2> HIDE DEF K
    <2> QED
        BY <1>2, LeastNumber
<1>4. ASSUME NEW j \in 1 .. k - 1
      PROVE  x[j] # OriginSep
    BY <1>1, <1>3
<1> QED
    BY <1>3, <1>4

\* An origin is a word without ":", its own origin.
LEMMA OriginPlain ==
    ASSUME NEW x, Word(x)
    PROVE  /\ Word(OriginOf(x)) /\ ~ HasOrigin(OriginOf(x))
           /\ OriginOf(OriginOf(x)) = OriginOf(x)
<1>1. CASE ~ HasOrigin(x)
    BY <1>1 DEF OriginOf
<1>2. CASE HasOrigin(x)
    <2>1. PICK k \in 1 .. Len(x) : x[k] = OriginSep /\ \A j \in 1 .. k - 1 : x[j] # OriginSep
        BY <1>2, OriginThere
    <2> DEFINE o == SubSeq(x, 1, k - 1)
    <2>2. OriginOf(x) = o
        BY <2>1, OriginFound
    <2>3. k - 1 \in 0 .. Len(x)
        BY Letters
    <2>4. Word(o) /\ Len(o) = k - 1 /\ \A j \in 1 .. k - 1 : o[j] = x[j]
        BY <2>3, Beginning
    <2> HIDE DEF o
    <2>5. ~ HasOrigin(o)
        BY <2>1, <2>4, Letters DEF HasOrigin
    <2>6. OriginOf(o) = o
        BY <2>5 DEF OriginOf
    <2> QED
        BY <2>2, <2>4, <2>5, <2>6
<1> QED
    BY <1>1, <1>2

\* Joining keeps the origin.
LEMMA OriginStays ==
    ASSUME NEW x, Word(x), NEW seg, seg # OriginSep
    PROVE  OriginOf(JoinId(x, seg)) = OriginOf(x)
<1> DEFINE y == JoinId(x, seg)
<1>1. /\ Word(y) /\ Len(y) = Len(x) + 2
      /\ \A k \in 1 .. Len(x) : y[k] = x[k]
      /\ y[Len(x) + 1] = SepOf(x)
    BY Joined
<1>2. Len(x) \in Nat /\ DOMAIN x = 1 .. Len(x)
    BY Letters
<1> HIDE DEF y
<1>3. CASE HasOrigin(x)
    <2>1. PICK k \in 1 .. Len(x) : x[k] = OriginSep /\ \A j \in 1 .. k - 1 : x[j] # OriginSep
        BY <1>3, OriginThere
    <2>2. OriginOf(x) = SubSeq(x, 1, k - 1)
        BY <2>1, OriginFound
    <2>3. k \in 1 .. Len(y) /\ y[k] = OriginSep /\ \A j \in 1 .. k - 1 : y[j] = x[j]
        BY <1>1, <1>2, <2>1
    <2>4. OriginOf(y) = SubSeq(y, 1, k - 1)
        BY <1>1, <2>1, <2>3, OriginFound
    <2>5. k - 1 \in Nat /\ k - 1 <= Len(x) /\ k - 1 <= Len(y)
        BY <1>1, <1>2
    <2>6. SubSeq(y, 1, k - 1) = SubSeq(x, 1, k - 1)
        BY <1>1, <2>3, <2>5, SameBeginning
    <2> QED
        BY <2>2, <2>4, <2>6 DEF y
<1>4. CASE ~ HasOrigin(x)
    <2> DEFINE k == Len(x) + 1
    <2>1. k \in 1 .. Len(y) /\ y[k] = OriginSep /\ k - 1 = Len(x)
        BY <1>1, <1>2, <1>4 DEF SepOf
    <2>2. \A j \in 1 .. k - 1 : y[j] # OriginSep
        BY <1>1, <1>2, <1>4 DEF HasOrigin
    <2>3. OriginOf(y) = SubSeq(y, 1, Len(x))
        BY <1>1, <2>1, <2>2, OriginFound
    <2>4. SubSeq(y, 1, Len(x)) = SubSeq(x, 1, Len(x))
        BY <1>1, <1>2, SameBeginning
    <2>5. OriginOf(y) = x
        BY <2>3, <2>4, WholeWord
    <2> QED
        BY <1>4, <2>5 DEF OriginOf, y
<1> QED
    BY <1>3, <1>4

-----------------------------------------------------------------------------
(* The ids of a task *)

\* The ids of the first k ops.
IdsTo(root, g, k) == g = [f \in 0 .. k |->
    IF f = Root THEN root
    ELSE LET raw == NextId(g[prog.caller[f]], Number(f))
         IN  IF prog.kind[f] = "detached" THEN DetachedId(OriginOf(root), raw) ELSE raw]

\* The id of op f, whose caller has the id up.
IdBelow(root, up, f) ==
    IF prog.kind[f] = "detached"
    THEN DetachedId(OriginOf(root), NextId(up, Number(f))) ELSE NextId(up, Number(f))

\* There are such ids, since callers come first.
LEMMA IdsExist ==
    ASSUME prog \in Programs, NEW root
    PROVE  \A k \in Fn : \E g : IdsTo(root, g, k)
<1> DEFINE Missed == {k \in Fn : ~ \E g : IdsTo(root, g, k)}
<1>1. ASSUME Missed # {}
      PROVE  FALSE
    <2>1. PICK k \in Missed : \A y \in Missed : k <= y
        <3>1. Missed \subseteq Nat
            BY Tree DEF Fn
        <3> HIDE DEF Missed
        <3> QED
            BY <1>1, <3>1, LeastNumber
    <2>2. k \in 0 .. N /\ N \in Nat /\ \A y \in Missed : ~ (y < k)
        <3>1. Missed \subseteq 0 .. N
            BY DEF Fn
        <3> QED
            BY <2>1, <3>1, Tree
    <2>3. CASE k = 0
        <3>1. IdsTo(root, [f \in 0 .. 0 |-> root], 0)
            BY DEF IdsTo, Root
        <3> QED
            BY <2>1, <2>3, <3>1
    <2>4. CASE k # 0
        <3>1. k - 1 \in Fn /\ k - 1 \notin Missed /\ k \in Op
            BY <2>2, <2>4 DEF Fn, Op
        <3>2. PICK g : IdsTo(root, g, k - 1)
            BY <3>1
        <3> DEFINE last == IdBelow(root, g[prog.caller[k]], k)
                   h == [f \in 0 .. k |-> IF f = k THEN last ELSE g[f]]
        <3>3. \A f \in 0 .. k - 1 : g[f] =
                    IF f = Root THEN root ELSE IdBelow(root, g[prog.caller[f]], f)
            BY <3>2 DEF IdsTo, IdBelow
        <3>4. \A f \in 0 .. k : f # Root => prog.caller[f] \in 0 .. f - 1 /\ f \in Op
            BY <2>2, Tree DEF Fn, Op, Root
        <3>5. ASSUME NEW f \in 0 .. k
              PROVE  h[f] = IF f = Root THEN root ELSE IdBelow(root, h[prog.caller[f]], f)
            <4>1. CASE f = k
                <5>1. f # Root /\ prog.caller[k] \in 0 .. k /\ prog.caller[k] # k
                    BY <2>2, <2>4, <3>4, <4>1 DEF Root
                <5>2. h[f] = last /\ h[prog.caller[f]] = g[prog.caller[k]]
                    BY <4>1, <5>1
                <5> HIDE DEF h
                <5> QED
                    BY <4>1, <5>1, <5>2
            <4>2. CASE f = Root
                <5>1. h[f] = g[f] /\ f \in 0 .. k - 1
                    BY <2>2, <2>4, <4>2 DEF Root
                <5> HIDE DEF h
                <5> QED
                    BY <3>3, <4>2, <5>1
            <4>3. CASE f # k /\ f # Root
                <5>1. prog.caller[f] \in 0 .. k /\ prog.caller[f] # k /\ f \in 0 .. k - 1
                    BY <2>2, <3>4, <4>3
                <5>2. h[f] = g[f] /\ h[prog.caller[f]] = g[prog.caller[f]]
                    BY <4>3, <5>1
                <5> HIDE DEF h
                <5> QED
                    BY <3>3, <4>3, <5>1, <5>2
            <4> QED
                BY <4>1, <4>2, <4>3
        <3>6. h = [f \in 0 .. k |-> h[f]]
            OBVIOUS
        <3> HIDE DEF h
        <3>7. h = [f \in 0 .. k |->
                    IF f = Root THEN root ELSE IdBelow(root, h[prog.caller[f]], f)]
            BY <3>5, <3>6
        <3>8. IdsTo(root, h, k)
            BY <3>7 DEF IdsTo, IdBelow
        <3> QED
            BY <2>1, <3>8
    <2> QED
        BY <2>3, <2>4
<1> QED
    BY <1>1

\* Each id from that of the caller.
LEMMA IdsFollow ==
    ASSUME prog \in Programs, NEW root
    PROVE  LET id == IdOf(root)
           IN  /\ id[Root] = root
               /\ \A o \in Op : id[o] = IdBelow(root, id[prog.caller[o]], o)
<1> DEFINE id == IdOf(root)
<1>1. id = CHOOSE g : IdsTo(root, g, N)
    BY DEF IdOf, IdsTo, Fn
<1>2. \E g : IdsTo(root, g, N)
    BY IdsExist, Tree DEF Fn
<1> HIDE DEF id
<1>3. IdsTo(root, id, N)
    BY <1>1, <1>2
<1>4. \A f \in 0 .. N : id[f] = IF f = Root THEN root ELSE IdBelow(root, id[prog.caller[f]], f)
    BY <1>3 DEF IdsTo, IdBelow
<1>5. Root \in 0 .. N /\ \A o \in Op : o \in 0 .. N /\ o # Root
    BY Tree DEF Root, Op
<1>6. id[Root] = root /\ \A o \in Op : id[o] = IdBelow(root, id[prog.caller[o]], o)
    BY <1>4, <1>5
<1> QED
    BY <1>6 DEF id

\* A call is told from its caller's others by its number.
LEMMA NumbersDiffer ==
    ASSUME prog \in Programs, NEW o \in Op, NEW q \in Op, o < q,
           prog.caller[o] = prog.caller[q]
    PROVE  Number(o) # Number(q)
<1> DEFINE A == {p \in Calls(prog.caller[o]) : p < o}
           B == {p \in Calls(prog.caller[q]) : p < q}
<1>1. Op \subseteq 0 .. N /\ N \in Nat
    BY Tree DEF Op
<1>0. \A p \in Op : p \in Nat
    BY <1>1
<1>2. A \subseteq B /\ o \in B /\ o \notin A
    <2>1. ASSUME NEW p \in A
          PROVE  p \in B
        <3>1. p \in Op /\ prog.caller[p] = prog.caller[o] /\ p < o
            BY DEF Calls
        <3>2. p < q
            BY <1>0, <3>1
        <3> QED
            BY <3>1, <3>2 DEF Calls
    <2>2. o \in B
        BY DEF Calls
    <2>3. o \notin A
        BY <1>0
    <2> QED
        BY <2>1, <2>2, <2>3
<1>3. IsFiniteSet(B)
    <2>1. B \subseteq 0 .. N
        BY <1>1 DEF Calls
    <2>2. IsFiniteSet(0 .. N)
        BY <1>1, FS_Interval
    <2> HIDE DEF B
    <2> QED
        BY <2>1, <2>2, FS_Subset
<1>4. Number(o) = Cardinality(A) /\ Number(q) = Cardinality(B)
    BY DEF Number
<1> HIDE DEF A, B
<1> QED
    BY <1>2, <1>3, <1>4, FS_Subset

\* The segment of a call is no separator, and none of a call is one of a detached call.
LEMMA Segments ==
    /\ \A n : <<"seq", n>> # OriginSep
    /\ \A raw : <<"d", raw>> # OriginSep
    /\ \A n, raw : <<"seq", n>> # <<"d", raw>>
    /\ \A n, m : <<"seq", n>> = <<"seq", m>> => n = m
    /\ \A x, y : <<"d", x>> = <<"d", y>> => x = y
    /\ \A raw : <<"d", raw>>[1] = "d" /\ <<"d", raw>>[2] = raw
BY DEF OriginSep

\* The task's own id, or one that lies below it and keeps its origin.
Lies(x, root) ==
    /\ Word(x)
    /\ OriginOf(x) = OriginOf(root)
    /\ Extends(x, root)

\* Functions, and remote calls, lie below the task.
LEMMA CallsLie ==
    ASSUME prog \in Programs, NEW root, Word(root),
           NEW f \in Fn, f = Root \/ prog.kind[f] # "detached"
    PROVE  Lies(IdOf(root)[f], root)
<1> DEFINE id == IdOf(root)
           Kept(g) == g = Root \/ prog.kind[g] # "detached"
           Stray == {g \in Fn : Kept(g) /\ ~ Lies(id[g], root)}
<1>1. id[Root] = root /\ \A o \in Op : id[o] = IdBelow(root, id[prog.caller[o]], o)
    BY IdsFollow
<1> HIDE DEF id
<1>2. Lies(root, root)
    BY DEF Lies, Extends
<1>3. ASSUME Stray # {}
      PROVE  FALSE
    <2>1. PICK g \in Stray : \A y \in Stray : g <= y
        <3>1. Stray \subseteq Nat
            BY Tree DEF Fn
        <3> HIDE DEF Stray
        <3> QED
            BY <1>3, <3>1, LeastNumber
    <2>2. g # Root /\ g \in Op
        BY <1>1, <1>2, <2>1, Tree DEF Fn, Op, Root
    <2> DEFINE c == prog.caller[g]
               up == id[c]
    <2>3. c \in Fn /\ c < g /\ Kept(c)
        BY <2>2, Tree, ContextAssumption
    <2>4. c \notin Stray
        <3>1. g \in Nat /\ c \in Nat
            BY <2>3, Tree DEF Fn
        <3> QED
            BY <2>1, <2>3, <3>1
    <2>5. Lies(up, root)
        BY <2>3, <2>4
    <2>6. id[g] = JoinId(up, <<"seq", Number(g)>>)
        BY <1>1, <2>1, <2>2 DEF IdBelow, NextId
    <2> HIDE DEF up
    <2>7. Word(id[g]) /\ OriginOf(id[g]) = OriginOf(root) /\ Extends(id[g], root)
        BY <2>5, <2>6, Joined, OriginStays, JoinExtends, Segments DEF Lies
    <2> QED
        BY <2>1, <2>7 DEF Lies
<1> QED
    BY <1>3 DEF id

\* A detached call is a child of the task's origin, and not the task itself.
LEMMA DetachedLie ==
    ASSUME prog \in Programs, NEW root \in Roots, NEW o \in Op, prog.kind[o] = "detached"
    PROVE  LET id == IdOf(root)
               raw == NextId(id[prog.caller[o]], Number(o))
               origin == OriginOf(root)
           IN  /\ id[o] = JoinId(origin, <<"d", raw>>)
               /\ Extends(id[o], origin) /\ id[o] # origin
               /\ OriginOf(id[o]) = origin
               /\ id[o] # root
<1> DEFINE id == IdOf(root)
           up == id[prog.caller[o]]
           raw == NextId(up, Number(o))
           origin == OriginOf(root)
           x == JoinId(origin, <<"d", raw>>)
<1>1. Word(root)
    BY LineageAssumption DEF Word
<1>2. Word(origin) /\ OriginOf(origin) = origin
    BY <1>1, OriginPlain
<1>3. id[o] = x
    BY IdsFollow DEF IdBelow, DetachedId
<1>4. Lies(up, root)
    <2>1. prog.caller[o] \in Fn
          /\ (prog.caller[o] = Root \/ prog.kind[prog.caller[o]] # "detached")
        BY Tree, ContextAssumption
    <2> QED
        BY <1>1, <2>1, CallsLie
<1>5. Extends(raw, root)
    BY <1>1, <1>4, JoinExtends DEF Lies, NextId
<1> HIDE DEF id, up, raw, origin
<1>6. Extends(origin, origin)
    BY DEF Extends
<1>7. Extends(x, origin) /\ x # origin /\ OriginOf(x) = origin
    BY <1>2, <1>6, JoinExtends, OriginStays, Segments
<1>8. x # root
    <2>1. SUFFICES ASSUME x = root PROVE FALSE
        OBVIOUS
    <2>2. Len(x) = Len(origin) + 2 /\ x[Len(origin) + 2] = <<"d", raw>>
        BY <1>2, Joined
    <2>3. root[Len(root)] = <<"d", raw>>
        BY <2>1, <2>2
    <2>4. root[Len(root)][1] = "d" /\ root[Len(root)][2] = raw
        BY <2>3, Segments
    <2> QED
        BY <1>5, <2>4, LineageAssumption
<1> QED
    BY <1>3, <1>7, <1>8 DEF id, up, raw, origin

\* A call is the child of its caller.
LEMMA ChildLies ==
    ASSUME prog \in Programs, NEW root \in Roots, NEW o \in Op, prog.kind[o] # "detached"
    PROVE  LET id == IdOf(root)
               up == id[prog.caller[o]]
           IN  /\ id[o] = JoinId(up, <<"seq", Number(o)>>)
               /\ Lies(up, root)
               /\ Extends(id[o], up) /\ id[o] # up
               /\ OriginOf(id[o]) = OriginOf(root)
               /\ id[o] # root
<1> DEFINE id == IdOf(root)
           up == id[prog.caller[o]]
<1>1. Word(root)
    BY LineageAssumption DEF Word
<1>2. Lies(up, root)
    <2>1. prog.caller[o] \in Fn
          /\ (prog.caller[o] = Root \/ prog.kind[prog.caller[o]] # "detached")
        BY Tree, ContextAssumption
    <2> QED
        BY <1>1, <2>1, CallsLie
<1>3. id[o] = JoinId(up, <<"seq", Number(o)>>)
    BY IdsFollow DEF IdBelow, NextId
<1> HIDE DEF id, up
<1>4. Extends(up, up)
    BY DEF Extends
<1>5. Extends(id[o], up) /\ id[o] # up
    BY <1>2, <1>3, <1>4, JoinExtends DEF Lies
<1>6. id[o] # root
    BY <1>1, <1>2, <1>3, JoinExtends DEF Lies
<1>7. OriginOf(id[o]) = OriginOf(root)
    BY <1>2, <1>3, OriginStays, Segments DEF Lies
<1> QED
    BY <1>2, <1>3, <1>5, <1>6, <1>7 DEF id, up

\* Two calls of one id have callers of one id, and one number.
LEMMA SameCall ==
    ASSUME prog \in Programs, NEW root \in Roots, NEW f \in Op, NEW g \in Op,
           IdOf(root)[f] = IdOf(root)[g]
    PROVE  /\ IdOf(root)[prog.caller[f]] = IdOf(root)[prog.caller[g]]
           /\ Number(f) = Number(g)
<1> DEFINE id == IdOf(root)
           a == id[prog.caller[f]]
           b == id[prog.caller[g]]
           s == <<"seq", Number(f)>>
           t == <<"seq", Number(g)>>
           origin == OriginOf(root)
<1>1. Word(root)
    BY LineageAssumption DEF Word
<1>2. Word(origin)
    BY <1>1, OriginPlain
<1>3. Word(a) /\ Word(b)
    <2>1. ASSUME NEW o \in Op
          PROVE  Word(id[prog.caller[o]])
        <3>1. prog.caller[o] \in Fn
              /\ (prog.caller[o] = Root \/ prog.kind[prog.caller[o]] # "detached")
            BY Tree, ContextAssumption
        <3> QED
            BY <1>1, <3>1, CallsLie DEF Lies
    <2> QED
        BY <2>1
<1>4. \A o \in Op : prog.kind[o] # "detached" =>
          id[o] = JoinId(id[prog.caller[o]], <<"seq", Number(o)>>)
    BY ChildLies
<1>5. \A o \in Op : prog.kind[o] = "detached" =>
          id[o] = JoinId(origin, <<"d", JoinId(id[prog.caller[o]], <<"seq", Number(o)>>)>>)
    BY DetachedLie DEF NextId
<1>6. id[f] = id[g]
    OBVIOUS
<1> HIDE DEF id, origin
<1>7. CASE prog.kind[f] # "detached" /\ prog.kind[g] # "detached"
    <2>1. JoinId(a, s) = JoinId(b, t)
        BY <1>4, <1>6, <1>7
    <2>2. a = b /\ s = t
        BY <1>3, <2>1, JoinInjective
    <2> QED
        BY <2>2, Segments DEF id
<1>8. CASE prog.kind[f] = "detached" /\ prog.kind[g] = "detached"
    <2>1. JoinId(origin, <<"d", JoinId(a, s)>>) = JoinId(origin, <<"d", JoinId(b, t)>>)
        BY <1>5, <1>6, <1>8
    <2>2. <<"d", JoinId(a, s)>> = <<"d", JoinId(b, t)>>
        BY <1>2, <2>1, JoinInjective
    <2>3. JoinId(a, s) = JoinId(b, t)
        BY <2>2, Segments
    <2>4. a = b /\ s = t
        BY <1>3, <2>3, JoinInjective
    <2> QED
        BY <2>4, Segments DEF id
<1>9. CASE prog.kind[f] # "detached" /\ prog.kind[g] = "detached"
    <2>1. JoinId(a, s) = JoinId(origin, <<"d", JoinId(b, t)>>)
        BY <1>4, <1>5, <1>6, <1>9
    <2>2. s = <<"d", JoinId(b, t)>>
        BY <1>2, <1>3, <2>1, JoinInjective
    <2> QED
        BY <2>2, Segments
<1>10. CASE prog.kind[f] = "detached" /\ prog.kind[g] # "detached"
    <2>1. JoinId(b, t) = JoinId(origin, <<"d", JoinId(a, s)>>)
        BY <1>4, <1>5, <1>6, <1>10
    <2>2. t = <<"d", JoinId(a, s)>>
        BY <1>2, <1>3, <2>1, JoinInjective
    <2> QED
        BY <2>2, Segments
<1> QED
    BY <1>7, <1>8, <1>9, <1>10

\* No two functions of a task have one id: otherwise their callers would have.
LEMMA IdsDiffer ==
    ASSUME prog \in Programs, NEW root \in Roots
    PROVE  \A f, g \in Fn : IdOf(root)[f] = IdOf(root)[g] => f = g
<1> DEFINE id == IdOf(root)
           Twins == {f \in Fn : \E g \in Fn : g # f /\ id[f] = id[g]}
<1>1. id[Root] = root
    BY IdsFollow
<1>2. \A o \in Op : id[o] # root
    BY ChildLies, DetachedLie
<1>3. \A f, g \in Op : id[f] = id[g] =>
          id[prog.caller[f]] = id[prog.caller[g]] /\ Number(f) = Number(g)
    BY SameCall
<1> HIDE DEF id
<1>4. ASSUME Twins # {}
      PROVE  FALSE
    <2>1. Twins \subseteq Nat /\ Fn \subseteq Nat
        BY Tree DEF Fn
    <2>2. PICK f \in Twins : \A y \in Twins : f <= y
        <3> HIDE DEF Twins
        <3> QED
            BY <1>4, <2>1, LeastNumber
    <2>3. PICK g \in Fn : g # f /\ id[f] = id[g]
        BY <2>2
    <2>4. f \in Fn /\ g \in Twins
        BY <2>2, <2>3
    <2>5. f < g
        BY <2>1, <2>2, <2>3, <2>4
    <2>6. g \in Op
        BY <2>1, <2>4, <2>5, Tree DEF Fn, Op
    <2>7. f \in Op
        BY <1>1, <1>2, <2>3, <2>4, <2>6, Tree DEF Fn, Op, Root
    <2> DEFINE a == prog.caller[f]
               b == prog.caller[g]
    <2>8. id[a] = id[b] /\ Number(f) = Number(g)
        BY <1>3, <2>3, <2>6, <2>7
    <2>9. a \in Fn /\ b \in Fn /\ a < f
        BY <2>6, <2>7, Tree
    <2>10. a \notin Twins
        <3>1. f \in Nat /\ a \in Nat
            BY <2>1, <2>4, <2>9
        <3>2. ~ (f <= a)
            <4> HIDE DEF a
            <4> QED
                BY <2>9, <3>1
        <3> QED
            BY <2>2, <3>2
    <2>11. a = b
        BY <2>8, <2>9, <2>10
    <2> QED
        BY <2>5, <2>6, <2>7, <2>8, <2>11, NumbersDiffer
<1>5. Twins = {}
    BY <1>4
<1> QED
    BY <1>5 DEF id

\* Each call's id extends what it declares, and no other has it.
LEMMA LineageKept == prog \in Programs => LineageHolds
<1> SUFFICES ASSUME prog \in Programs, NEW root \in Roots
    PROVE  LET id == IdOf(root)
           IN  /\ \A f, g \in Fn : id[f] = id[g] => f = g
               /\ \A o \in Op :
                     LET tags == Tags(id, o)
                     IN  /\ Extends(id[o], tags.parent) /\ id[o] # tags.parent
                         /\ Extends(id[o], tags.branch)
                         /\ OriginOf(id[o]) = tags.origin
    BY DEF LineageHolds
<1> DEFINE id == IdOf(root)
<1>1. \A f, g \in Fn : id[f] = id[g] => f = g
    BY IdsDiffer
<1>2. id[Root] = root
    BY IdsFollow
<1>3. ASSUME NEW o \in Op
      PROVE  /\ Extends(id[o], Tags(id, o).parent) /\ id[o] # Tags(id, o).parent
             /\ Extends(id[o], Tags(id, o).branch)
             /\ OriginOf(id[o]) = Tags(id, o).origin
    <2> DEFINE tags == Tags(id, o)
    <2>1. Extends(id[o], id[o])
        BY DEF Extends
    <2>2. CASE prog.kind[o] = "detached"
        <3>1. /\ Extends(id[o], OriginOf(root)) /\ id[o] # OriginOf(root)
              /\ OriginOf(id[o]) = OriginOf(root)
            BY <2>2, DetachedLie
        <3> HIDE DEF id
        <3>2. tags.parent = OriginOf(root) /\ tags.branch = id[o] /\ tags.origin = OriginOf(root)
            BY <1>2, <2>2 DEF Tags
        <3> QED
            BY <2>1, <3>1, <3>2
    <2>3. CASE prog.kind[o] # "detached"
        <3>1. /\ Extends(id[o], id[prog.caller[o]]) /\ id[o] # id[prog.caller[o]]
              /\ OriginOf(id[o]) = OriginOf(root)
            BY <2>3, ChildLies
        <3> HIDE DEF id
        <3>2. /\ tags.parent = id[prog.caller[o]] /\ tags.origin = OriginOf(root)
              /\ tags.branch = id[o] \/ tags.branch = id[prog.caller[o]]
            BY <1>2, <2>3 DEF Tags
        <3> QED
            BY <2>1, <3>1, <3>2
    <2> QED
        BY <2>2, <2>3
<1> QED
    BY <1>1, <1>3

\* Whatever workflow runs, as whatever task, at any depth: its calls have ids of
\* their own, and each extends the parent and the branch it declares and has the
\* origin it declares (join_id, root_id, the detached builder).
THEOREM LineageIsSound == Spec => []LineageHolds
<1>1. TypeOK => LineageHolds
    BY LineageKept DEF TypeOK
<1> QED
    BY <1>1, TypeCorrect, PTL
=============================================================================
