-------------------------- MODULE MCSessionBootstrap --------------------------
(* Model-checking instances of SessionBootstrap. *)
EXTENDS SessionBootstrap

CONSTANTS HostDelay, GuestDelay

MCConfigDelay == [p \in Slots |-> IF p = Authority THEN HostDelay ELSE GuestDelay]
=============================================================================
