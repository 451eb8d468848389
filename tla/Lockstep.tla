------------------------------- MODULE Lockstep -------------------------------
(***************************************************************************)
(* What delay-sync netplay promises the game, whatever the network does.   *)
(*                                                                         *)
(* Every player commits one input per tick, InputDelay ticks before it is  *)
(* played (the first InputDelay ticks are neutral), and never takes it     *)
(* back; every peer plays the ticks in order, each with the inputs all the *)
(* players committed for it.                                               *)
(***************************************************************************)
EXTENDS Integers, Sequences

CONSTANTS
    Slots,
    Inputs,         \* what a player can press
    Neutral,        \* pressed by nobody: one of Inputs
    InputDelay      \* in [Slots -> Nat]

VARIABLES
    chosen,     \* chosen[p]: the inputs player p committed, by tick
    played      \* played[p]: the rows peer p handed to its game, by tick

vars == <<chosen, played>>

Row == [Slots -> Inputs]

TypeOK ==
    /\ chosen \in [Slots -> Seq(Inputs)]
    /\ played \in [Slots -> Seq(Row)]

Init ==
    /\ chosen = [p \in Slots |-> [t \in 1 .. InputDelay[p] |-> Neutral]]
    /\ played = [p \in Slots |-> << >>]

\* An input pressed while tick T is due takes effect at tick T + InputDelay.
Choose(p) ==
    /\ Len(chosen[p]) = Len(played[p]) + InputDelay[p]
    /\ \E input \in Inputs : chosen' = [chosen EXCEPT ![p] = Append(@, input)]

Play(p) ==
    LET t == Len(played[p]) + 1
    IN  /\ \A q \in Slots : t <= Len(chosen'[q])
        /\ played' = [played EXCEPT ![p] = Append(@, [q \in Slots |-> chosen'[q][t]])]

\* A peer samples its player and plays the tick due in one call.
Step(p) ==
    /\ Choose(p) \/ UNCHANGED chosen
    /\ Play(p) \/ UNCHANGED played

Next == \E p \in Slots : Step(p)

Spec == Init /\ [][Next]_vars

\* No two peers ever play different inputs for a tick: two games that start
\* from one state stay in one state.
Agreement ==
    \A p, q \in Slots : \A t \in (1 .. Len(played[p])) \cap (1 .. Len(played[q])) :
        played[p][t] = played[q][t]
=============================================================================
