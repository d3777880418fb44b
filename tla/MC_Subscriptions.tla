------------------------- MODULE MC_Subscriptions --------------------------
(***************************************************************************)
(* Instances of Subscriptions for TLC.                                     *)
(***************************************************************************)
EXTENDS Subscriptions

Workflow == [target |-> TRUE, timer |-> FALSE, delay |-> None]
Bare == [target |-> FALSE, timer |-> FALSE, delay |-> None]
BothTags == {Workflow, Bare}
=============================================================================
