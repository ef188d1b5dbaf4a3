--------------------------- MODULE MCBudgetLedger ---------------------------
(* Instances of BudgetLedger for TLC.                                      *)
EXTENDS BudgetLedger, TLC

\* Neither threads nor children differ in anything but their identity.
Symmetry == Permutations(Thread) \cup Permutations(Child)
=============================================================================
