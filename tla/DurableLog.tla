----------------------------- MODULE DurableLog -----------------------------
(***************************************************************************)
(* What glass-core's durable store promises of its commits: one history    *)
(* that grows at its end, of which a commit that was acknowledged is never *)
(* lost.  A commit that was never acknowledged may be in the history (its  *)
(* append was uncertain) and may still be lost.                            *)
(***************************************************************************)
EXTENDS Sequences, Naturals

CONSTANT Op  \* the batches of operations

VARIABLES
    log,    \* the history
    acked   \* the history as of the last acknowledged commit

vars == <<log, acked>>

Init == log = <<>> /\ acked = <<>>

Commit(op) ==
    /\ log' = Append(log, op)
    /\ UNCHANGED acked

Acknowledge ==
    /\ acked' = log
    /\ UNCHANGED log

Lose(n) ==
    /\ Len(acked) <= n
    /\ log' = SubSeq(log, 1, n)
    /\ UNCHANGED acked

Next ==
    \/ \E op \in Op : Commit(op)
    \/ Acknowledge
    \/ \E n \in 0..Len(log) : Lose(n)

Spec == Init /\ [][Next]_vars

=============================================================================
