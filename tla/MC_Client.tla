----------------------------- MODULE MC_Client -----------------------------
(***************************************************************************)
(* Instances of Client for TLC.                                            *)
(***************************************************************************)
EXTENDS Client

Workflow == <<"wf">>
OneRoot == {Workflow}
Firings == {"1"}
Ids == OneRoot \cup {FiredId(i, t) : i \in OneRoot, t \in Firings}
Value == <<"v">>
Values == {Value}
Strings == {"null", "empty", "b64", "object", "error", "failed", "v"}
BySomeone == {<<"rejected", {Value}>>}

CONSTANTS p1, p2, c1, c2

Symmetry == Permutations({p1, p2}) \cup Permutations({c1, c2})
=============================================================================
