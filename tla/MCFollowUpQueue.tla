-------------------------- MODULE MCFollowUpQueue --------------------------
(* Instances of FollowUpQueue for TLC.                                     *)
EXTENDS FollowUpQueue

\* The prompts differ in nothing but their identity.
Symmetry == Permutations(Message)
=============================================================================
