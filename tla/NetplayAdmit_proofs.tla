------------------------- MODULE NetplayAdmit_proofs -------------------------
(***************************************************************************)
(* The frame loop with its starvation hold is a user of the delay-sync     *)
(* pipeline like any other: what is proved of DelaySync holds under it,    *)
(* for every number of peers and every setting of the hold.                *)
(*                                                                         *)
(* And the hold is never mutual, whatever the delays: a peer latches only  *)
(* in a poll that has sampled its tip, and keeps the row while latched, so *)
(* the peer with the lowest tip has rows of all others to be released by.  *)
(***************************************************************************)
EXTENDS NetplayAdmit, DelaySync_proofs, WellFoundedInduction

\* A latched peer waits, and has sampled the row of its tip.
LatchedSampled == \A p \in Slots :
    latched[p] => ~needs_advance[p] /\ Has(local_ring[p], Tip(p))

HostInv == Inv /\ HostTypeOK /\ LatchedSampled

-----------------------------------------------------------------------------
(* The frame loop takes only steps of the pipeline *)

LEMMA HostStepIsStep == HostNext => Next
<1> SUFFICES ASSUME NEW p \in Slots, Poll(p) \/ Session(p) PROVE Next
    BY DEF HostNext
<1>1. SendInputBundle(p) \/ Receive(p) \/ Admit(p) \/ Stall(p) \/ Advance(p)
    BY DEF Poll, PollLatched, PollAdmitted, PollMissed, Session
<1> QED BY <1>1 DEF Next

\* The game's frame loop (psx_netplay_poll_admit, finish_frame) calls the
\* session as DelaySync says a frame loop may, with a hold of any length.
THEOREM HostRunsTheSession == HostSpec => Spec
<1>1. HostInit => Init
    BY DEF HostInit
<1>2. [HostNext]_hostVars => [Next]_vars
    BY HostStepIsStep DEF hostVars
<1> QED BY <1>1, <1>2, PTL DEF HostSpec, Spec

\* So no hold makes two games play different rows of one tick ...
THEOREM HeldGamesAgree == HostSpec => []Agreement
BY HostRunsTheSession, GamesAgree, PTL

\* ... or stops a session over a confirmation that is only old.
THEOREM HeldDesyncIsNeverSpurious == HostSpec => []NoSpuriousDesync
BY HostRunsTheSession, DesyncIsNeverSpurious, PTL

-----------------------------------------------------------------------------
(* The hold *)

LEMMA InitHostInv == HostInit => HostInv
<1> SUFFICES ASSUME HostInit PROVE HostInv
    OBVIOUS
<1>1. Inv
    BY InitInv DEF HostInit
<1>2. HostTypeOK
    BY StarvationAssumption DEF HostInit, HostTypeOK
<1>3. LatchedSampled
    BY DEF HostInit, LatchedSampled
<1> QED BY <1>1, <1>2, <1>3 DEF HostInv

\* What a step leaves alone of a peer that is or becomes latched.
LEMMA KeepLatched ==
    ASSUME LatchedSampled,
           \A q \in Slots : latched'[q] /\ latched[q] =>
               /\ needs_advance'[q] = needs_advance[q]
               /\ local_ring'[q] = local_ring[q] /\ sim_tick'[q] = sim_tick[q],
           \A q \in Slots : latched'[q] => latched[q]
    PROVE  LatchedSampled'
BY DEF LatchedSampled, Tip, Has

LEMMA PollLatchedInv ==
    ASSUME HostInv, NEW p \in Slots, PollLatched(p)
    PROVE  HostTypeOK' /\ LatchedSampled'
<1>1. HostTypeOK'
    BY StarvationAssumption DEF HostInv, HostTypeOK, PollLatched
<1>2. LatchedSampled'
    BY KeepLatched DEF HostInv, PollLatched, SendInputBundle, sessionVars
<1> QED BY <1>1, <1>2

LEMMA PollAdmittedInv ==
    ASSUME HostInv, NEW p \in Slots, PollAdmitted(p)
    PROVE  HostTypeOK' /\ LatchedSampled'
<1>1. HostTypeOK'
    BY StarvationAssumption DEF HostInv, HostTypeOK, PollAdmitted
<1>2. ~needs_advance[p] /\ SampleLocal(p) /\ needs_advance' = [needs_advance EXCEPT ![p] = TRUE]
      /\ sim_tick' = sim_tick /\ latched' = [latched EXCEPT ![p] = FALSE]
    BY DEF PollAdmitted, Admit, PrepareAdmit
<1>3. \A q \in Slots \ {p} : local_ring'[q] = local_ring[q]
    BY <1>2, SampleLocalTrue DEF HostInv
<1>4. LatchedSampled'
    BY <1>2, <1>3, KeepLatched DEF HostInv, HostTypeOK, Inv, TypeOK
<1> QED BY <1>1, <1>4

\* The poll that latches has sampled the tip, or found it sampled.
LEMMA PollMissedInv ==
    ASSUME HostInv, NEW p \in Slots, PollMissed(p)
    PROVE  HostTypeOK' /\ LatchedSampled'
<1> DEFINE latches == ~InGrace(p) /\ enter_run[p] + 1 >= EnterFrames
<1>1. /\ latched' = [latched EXCEPT ![p] = latches]
      /\ enter_run' = [enter_run EXCEPT ![p] = IF InGrace(p) \/ latches THEN 0 ELSE enter_run[p] + 1]
      /\ exit_run' = [exit_run EXCEPT ![p] = 0]
    BY DEF PollMissed
<1>2. HostTypeOK'
    BY <1>1, StarvationAssumption DEF HostInv, HostTypeOK
<1>3. ~needs_advance[p] /\ SampleLocal(p) /\ UNCHANGED <<needs_advance, sim_tick>>
    BY DEF PollMissed, Stall, PrepareAdmit
<1>4. /\ \A q \in Slots \ {p} : local_ring'[q] = local_ring[q]
      /\ Has(local_ring'[p], Tip(p))
    BY <1>3, SampleLocalTrue DEF HostInv
<1>5. ASSUME NEW q \in Slots, latched'[q]
      PROVE  ~needs_advance'[q] /\ Has(local_ring[q], Tip(q))'
    <2>1. CASE q = p
        BY <1>3, <1>4, <2>1 DEF Tip, Has
    <2>2. CASE q # p
        BY <1>1, <1>3, <1>4, <1>5, <2>2 DEF HostInv, HostTypeOK, LatchedSampled, Tip, Has
    <2> QED BY <2>1, <2>2
<1> QED BY <1>2, <1>5 DEF LatchedSampled

\* A latched peer has no frame to finish, and no datagram touches its own ring.
LEMMA SessionInv ==
    ASSUME HostInv, NEW p \in Slots, Session(p)
    PROVE  HostTypeOK' /\ LatchedSampled'
<1>1. UNCHANGED starvVars
    BY DEF Session
<1>2. HostTypeOK'
    BY <1>1 DEF HostInv, HostTypeOK, starvVars
<1>3. CASE SendInputBundle(p) \/ Receive(p)
    <2>1. UNCHANGED <<sim_tick, needs_advance, local_ring>>
        BY <1>3 DEF SendInputBundle, Receive, ReceiveInput, ReceiveConfirm, sessionVars
    <2> QED BY <1>1, <1>2, <2>1, KeepLatched DEF HostInv, starvVars
<1>4. CASE Advance(p)
    <2>1. ~latched[p]
        BY <1>4 DEF Advance, HostInv, LatchedSampled
    <2> QED BY <1>1, <1>2, <1>4, <2>1, KeepLatched
            DEF HostInv, Inv, TypeOK, Advance, sessionVars, starvVars
<1> QED BY <1>3, <1>4 DEF Session

LEMMA NextHostInv ==
    ASSUME HostInv, [HostNext]_hostVars
    PROVE  HostInv'
<1>1. Inv'
    BY HostStepIsStep, StepInv DEF HostInv, hostVars
<1>2. CASE HostNext
    BY <1>1, <1>2, PollLatchedInv, PollAdmittedInv, PollMissedInv, SessionInv
    DEF HostNext, Poll, HostInv
<1>3. CASE UNCHANGED hostVars
    BY <1>1, <1>3 DEF hostVars, vars, starvVars, sessionVars, HostInv, HostTypeOK,
       LatchedSampled, Tip, Has
<1> QED BY <1>2, <1>3

\* The inductive invariant of the frame loop (psx_netplay_poll_admit, g_starv).
THEOREM HostInvariance == HostSpec => []HostInv
BY InitHostInv, NextHostInv, PTL DEF HostSpec

\* The counters of the hold stay below the number of polls they count to.
THEOREM HoldTypeCorrect == HostSpec => []HostTypeOK
<1>1. HostInv => HostTypeOK
    BY DEF HostInv
<1> QED BY <1>1, HostInvariance, PTL

-----------------------------------------------------------------------------

\* Some peer's tip is the lowest.
LEMMA LowestTip ==
    ASSUME Inv
    PROVE  \E p \in Slots : \A q \in Slots : Tip(p) <= Tip(q)
<1> DEFINE T == {Tip(p) : p \in Slots}
<1>1. T \subseteq Nat
    BY ConfigAssumption DEF Inv, TypeOK, Tip
<1>2. T # {}
    <2>1. 0 \in Slots
        BY ConfigAssumption DEF Slots
    <2> QED BY <2>1
<1>3. PICK x \in T : \A y \in T : ~(<<y, x>> \in OpToRel(<, Nat))
    <2> HIDE DEF T
    <2> QED BY <1>1, <1>2, NatLessThanWellFounded, WFMin
<1>4. \A y \in T : x <= y
    <2> HIDE DEF T
    <2>1. ASSUME NEW y \in Nat, NEW z \in Nat, y < z PROVE <<y, z>> \in OpToRel(<, Nat)
        <3>1. <<y, z>> \in Nat \X Nat /\ <<y, z>>[1] = y /\ <<y, z>>[2] = z
            OBVIOUS
        <3>2. <<y, z>>[1] < <<y, z>>[2]
            BY <2>1, <3>1
        <3> QED BY <3>1, <3>2, Zenon DEF OpToRel
    <2>2. \A y \in T : ~(y < x)
        BY <1>1, <1>3, <2>1, Zenon
    <2> QED BY <1>1, <2>2
<1> QED BY <1>4

\* When every peer is latched, the one with the lowest tip is released by rows
\* that the others have sampled and send on every poll: the hold cannot keep
\* all peers waiting for each other, whatever the delay of each.
THEOREM HoldIsNeverMutual == HostSpec => []HoldNeverMutual
<1>1. ASSUME HostInv PROVE HoldNeverMutual
    <2> SUFFICES ASSUME \A p \in Slots : latched[p]
                 PROVE  \E p \in Slots : \A q \in Peers(p) :
                            \E s \in local_ring[q] : s.tick - sim_tick[p] >= InputDelay[p]
        BY DEF HoldNeverMutual
    <2>1. PICK p \in Slots : \A q \in Slots : Tip(p) <= Tip(q)
        BY <1>1, LowestTip DEF HostInv
    <2>2. ASSUME NEW q \in Peers(p)
          PROVE  \E s \in local_ring[q] : s.tick - sim_tick[p] >= InputDelay[p]
        <3>1. q \in Slots /\ Has(local_ring[q], Tip(q))
            BY <1>1 DEF Peers, HostInv, LatchedSampled
        <3>2. PICK s \in local_ring[q] : s.tick = Tip(q)
            BY <3>1 DEF Has
        <3>3. /\ sim_tick[p] \in Nat /\ InputDelay[p] \in Nat
              /\ sim_tick[q] \in Nat /\ InputDelay[q] \in Nat
            BY <1>1, <3>1, ConfigAssumption DEF HostInv, Inv, TypeOK
        <3> QED BY <2>1, <3>1, <3>2, <3>3 DEF Tip
    <2> QED BY <2>2
<1> QED BY <1>1, HostInvariance, PTL
=============================================================================
