--------------------------- MODULE MCDurableTasks ---------------------------
(* Instances of DurableTasks for TLC. *)
EXTENDS DurableTasks

Defs(owners, backgrounds, replays) ==
    [owner : owners, background : backgrounds, replay : replays]

\* A chain of three, or a root with two children, the first of them in the
\* foreground or the background.
ThreeTasks == [t \in 1..3 |->
    CASE t = 1 -> Defs({NoTask}, {FALSE}, {"safe"})
      [] t = 2 -> Defs({1}, BOOLEAN, {"unsafe"})
      [] t = 3 -> Defs({1, 2}, {FALSE}, {"safe"})]

\* A root with two children and a grandchild.
Family == [t \in 1..4 |->
    CASE t = 1 -> Defs({NoTask}, {FALSE}, {"safe"})
      [] t = 2 -> Defs({1}, {FALSE}, {"safe"})
      [] t = 3 -> Defs({1}, {FALSE}, {"safe"})
      [] t = 4 -> Defs({3}, {FALSE}, {"safe"})]
=============================================================================
