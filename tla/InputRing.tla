------------------------------ MODULE InputRing ------------------------------
(***************************************************************************)
(* The fixed-size tick-indexed tables of recomp-net (rnet_rings.c, and the *)
(* published / peer_history arrays of RNetSession): HistoryLength places,  *)
(* the entry of a tick at place tick % HistoryLength, an entry valid only  *)
(* for the tick it carries.                                                *)
(*                                                                         *)
(* A ring is the set of its valid entries: records with a field tick, no   *)
(* two of which share a place.  The empty set is a cleared ring.           *)
(***************************************************************************)
EXTENDS Integers, FiniteSetsExt

CONSTANT HistoryLength      \* RNET_HISTORY_LENGTH (128)

ASSUME HistoryAssumption == HistoryLength \in Nat \ {0}

SamePlace(t, u) == t % HistoryLength = u % HistoryLength

\* Storing an entry evicts whatever held its place, older or newer.
Store(ring, entries) ==
    {e \in ring : \A s \in entries : ~SamePlace(e.tick, s.tick)} \cup entries

Has(ring, t) == \E e \in ring : e.tick = t

Get(ring, t) == CHOOSE e \in ring : e.tick = t

\* Mutant: an empty ring has no highest tick.
HighestValid_Unset(ring) == IF ring = {} THEN -1 ELSE Max({e.tick : e \in ring})

\* 0 both for an empty ring and for a ring that holds tick 0 only.
HighestValid(ring) == IF ring = {} THEN 0 ELSE Max({e.tick : e \in ring})

OnePerPlace(ring) == \A e, f \in ring : SamePlace(e.tick, f.tick) => e = f
=============================================================================
