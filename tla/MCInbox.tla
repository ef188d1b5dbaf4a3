------------------------------ MODULE MCInbox ------------------------------
(* Instances of Inbox for TLC.                                             *)
EXTENDS Inbox, TLC

\* The senders differ in nothing but their identity.
Symmetry == Permutations(Sender)
=============================================================================
