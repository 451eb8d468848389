---------------------------- MODULE MCDelaySync ----------------------------
(* Model-checking instances of DelaySync. *)
EXTENDS DelaySync

CONSTANTS D0, D1        \* the delays of the two peers

MCInputDelay == [p \in Slots |-> IF p = 0 THEN D0 ELSE D1]
=============================================================================
