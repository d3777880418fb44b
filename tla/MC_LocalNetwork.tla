-------------------------- MODULE MC_LocalNetwork --------------------------
(***************************************************************************)
(* Instances of LocalNetwork for TLC.                                      *)
(***************************************************************************)
EXTENDS WireContract, TLC

CONSTANTS p1, p2, p3

Workflow == [target |-> TRUE, timer |-> FALSE, delay |-> None]
Bare == [target |-> FALSE, timer |-> FALSE, delay |-> None]
\* A durable timer, deferred when it is created at time 0.
Sleep == [target |-> TRUE, timer |-> TRUE, delay |-> 1]

TimedTags == {Sleep, Bare}
LoopTags == {Workflow}

Symmetry == Permutations({p1, p2, p3})
=============================================================================
