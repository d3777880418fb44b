-------------------------- MODULE MC_TaskLifecycle --------------------------
(***************************************************************************)
(* Instances of TaskLifecycle for TLC: a workflow wf that starts the sleep *)
(* slp, runs the local child lcl, and calls the remote child rmt.          *)
(***************************************************************************)
EXTENDS TaskLifecycle, TLC

CONSTANTS wf, lcl, rmt, slp

AllCalls == [i \in Id |-> IF i = wf THEN <<slp, lcl, rmt>> ELSE <<>>]
LocalCalls == [i \in Id |-> IF i = wf THEN <<lcl>> ELSE <<>>]
RemoteCalls == [i \in Id |-> IF i = wf THEN <<lcl, rmt>> ELSE <<>>]

Symmetry == Permutations(Execution)
=============================================================================
