--------------------------- MODULE MCNetplayAdmit ---------------------------
(* Model-checking instances of NetplayAdmit. *)
EXTENDS NetplayAdmit

CONSTANTS D0, D1        \* the delays of the two peers

MCInputDelay == [p \in Slots |-> IF p = 0 THEN D0 ELSE D1]
=============================================================================
