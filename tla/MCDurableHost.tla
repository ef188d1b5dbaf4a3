--------------------------- MODULE MCDurableHost ---------------------------
(* Instances of DurableHost for TLC.                                       *)
EXTENDS DurableHost, TLC

CONSTANTS r1, r2, c1, c2

\* The provider never hands out a call ID twice in a conversation, except
\* again in a later turn of the same generation.
TwoThenNone == (r1 :> {c1, c2}) @@ (r2 :> {})

\* A bound: two and more pieces of text are followed only until a tool is called.
TextOrTools == chunk < 2 \/ \A k \in Request \X Call : tool[k].status = "absent"

\* The calls of a response differ in nothing but their identity.
Symmetry == Permutations({c1, c2})
=============================================================================
