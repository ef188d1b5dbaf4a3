-------------------------- MODULE MCDurableJournal --------------------------
(* Instances of DurableJournal for TLC. *)
EXTENDS DurableJournal

CONSTANTS p1, p2, o1, o2

Processes == {p1, p2}
Batch == {o1, o2}
=============================================================================
