------------------------------ MODULE DelaySync ------------------------------
(***************************************************************************)
(* The delay-sync pipeline of a running recomp-net session                 *)
(* (rnet_session.c): INPUT bundles, the receive path, INPUT_CONFIRM, and   *)
(* rnet_session_try_admit / rnet_session_advance as the game's frame loop  *)
(* calls them (psx_netplay.c).                                             *)
(*                                                                         *)
(* Every peer is past START (SessionBootstrap models how it gets there),   *)
(* with its own delay fixed; no savestate transfer is in flight.  The      *)
(* network loses, duplicates, reorders and delays datagrams: net is what   *)
(* was sent, and any of it may arrive at any time, any number of times or  *)
(* never.  The confirm hash is the resolved row itself (no collision of    *)
(* the 32-bit checksum), a pad sample a member of Inputs.                  *)
(***************************************************************************)
EXTENDS InputRing, Sequences

CONSTANTS
    SlotCount,      \* RNetConfig.slot_count
    Inputs,         \* pad samples
    Neutral,        \* the zeroed sample of the startup prefix
    InputDelay,     \* InputDelay[p]: the delay D peer p entered RUNNING with
    Redundancy,     \* RNetConfig.bundle_redundancy (default 3)
    Slack,          \* the literal 8 of the live window and the confirm trail
    Ancient,        \* how far behind sim a gap-filling row may be (64)
    MaxBack,        \* how far back an unacknowledged row is resent (64)
    TrailFloor,     \* the least confirm trail (16)
    MaxBundle,      \* RNET_MAX_BUNDLE (21)
    MaxTick         \* bound: the tick at which the model stops admitting

Slots == 0 .. SlotCount - 1

ASSUME ConfigAssumption ==
    /\ SlotCount \in Nat \ {0, 1}
    /\ Neutral \in Inputs
    /\ InputDelay \in [Slots -> Nat]
    /\ {Redundancy, Slack, Ancient, MaxBack, TrailFloor, MaxTick} \subseteq Nat
    /\ MaxBundle \in Nat \ {0}

VARIABLES
    sim_tick,           \* the session clock
    needs_advance,      \* the tick was admitted and its frame is being run
    local_ring,         \* own samples by wire tick
    remote_rings,       \* remote_rings[p][q]: q's samples as p latched them
    highest_remote_ack,
    published,          \* rows p resolved (published_tick/hash)
    peer_history,       \* peer_history[p][q]: rows q confirmed to p
    input_desync,
    net,                \* every datagram sent so far
    sampled,            \* history: every sample p ever stored, in tick order
    played              \* history: every row p handed to host.publish

sessionVars == <<local_ring, remote_rings, highest_remote_ack, published,
                 peer_history, input_desync>>
historyVars == <<sampled, played>>
vars == <<sim_tick, needs_advance, sessionVars, net, historyVars>>

Peers(p) == Slots \ {p}
Maximum(a, b) == IF a >= b THEN a ELSE b
Minimum(a, b) == IF a <= b THEN a ELSE b

Row == [Slots -> Inputs]
Sample == [tick : Nat, val : Inputs]
ResolvedRow == [tick : Nat, row : Row]
InputPacket == [type : {"INPUT"}, from : Slots, ack : Nat, frames : SUBSET Sample]
ConfirmPacket == [type : {"INPUT_CONFIRM"}, from : Slots, entry : ResolvedRow]

TypeOK ==
    /\ sim_tick \in [Slots -> Nat]
    /\ needs_advance \in [Slots -> BOOLEAN]
    /\ local_ring \in [Slots -> SUBSET Sample]
    /\ remote_rings \in [Slots -> [Slots -> SUBSET Sample]]
    /\ highest_remote_ack \in [Slots -> Nat]
    /\ published \in [Slots -> SUBSET ResolvedRow]
    /\ peer_history \in [Slots -> [Slots -> SUBSET ResolvedRow]]
    /\ input_desync \in [Slots -> BOOLEAN]
    /\ net \subseteq InputPacket \cup ConfirmPacket
    /\ sampled \in [Slots -> Seq(Inputs)]
    /\ played \in [Slots -> Seq(Row)]

-----------------------------------------------------------------------------
(* INPUT bundles *)

Tip(p) == sim_tick[p] + InputDelay[p]

\* Mutant: the window is clamped to the redundancy.
BundleLow_NoPrefix(p) ==
    LET low == Maximum(Tip(p) + 1 - Maximum(Redundancy, 1), 0)
    IN  IF highest_remote_ack[p] < Tip(p) THEN Minimum(low, highest_remote_ack[p] + 1) ELSE low

\* First tick of a bundle: D + 1 ticks back at least, so that a bundle always
\* reaches down to the sim tick; further back when the peer has fallen behind.
BundleLow(p) ==
    LET tip      == Tip(p)
        red      == Maximum(Maximum(Redundancy, 1), InputDelay[p] + 1)
        low      == Maximum(tip + 1 - red, 0)
        unacked  == highest_remote_ack[p] + 1
        ack_low  == IF tip + 1 > MaxBack /\ unacked + MaxBack <= tip
                    THEN tip + 1 - MaxBack ELSE unacked
    IN  IF highest_remote_ack[p] < tip THEN Minimum(low, ack_low) ELSE low

\* A bound on the network: it keeps one copy of a row, the last one sent.  (Two
\* copies differ in their acknowledgement only, and a receiver keeps the highest.)
Ticks(m) == {s.tick : s \in m.frames}
Transmit(sent) ==
    {m \in net : ~\E n \in sent : /\ m.type = "INPUT" /\ n.type = "INPUT"
                                  /\ m.from = n.from  /\ Ticks(m) = Ticks(n)} \cup sent

\* The acknowledgement is about the next slot's samples only, and goes to all.
AckOf(p) == HighestValid(remote_rings[p][(p + 1) % SlotCount])

\* The rows of the window that the ring holds, MaxBundle to a datagram.
Bundle(p, ring) ==
    LET rows   == {s \in ring : s.tick \in BundleLow(p) .. Tip(p)}
        part(s) == Cardinality({r \in rows : r.tick < s.tick}) \div MaxBundle
    IN  {[type |-> "INPUT", from |-> p, ack |-> AckOf(p),
          frames |-> {r \in rows : part(r) = part(s)}] : s \in rows}

\* rnet_session_pump, past its receive loop.  The 8 ms resend limit only puts
\* a resend off, so a pump that sends nothing is a stutter.
SendInputBundle(p) ==
    /\ net' = Transmit(Bundle(p, local_ring[p]))
    /\ UNCHANGED <<sim_tick, needs_advance, sessionVars, historyVars>>

-----------------------------------------------------------------------------
(* The receive path *)

\* Rows of [sim - slop, tip + slop]; below it, only a row above everything
\* latched so far and not ancient.  Frames come in tick order, so a row stored
\* by an earlier frame of the datagram never changes the verdict on a later one.
InLiveWindow(p, q, t) ==
    LET slop == Redundancy + Slack
        high == Tip(p) + slop
    IN  /\ t <= high
        /\ \/ t >= sim_tick[p] - slop
           \/ /\ t > HighestValid(remote_rings[p][q])
              /\ sim_tick[p] <= Ancient \/ t + Ancient >= sim_tick[p]

ReceiveInput(p, m) ==
    LET ring  == remote_rings[p][m.from]
        fresh == {s \in m.frames : InLiveWindow(p, m.from, s.tick) /\ ~Has(ring, s.tick)}
    IN  /\ m.type = "INPUT"
        /\ m.from # p
        /\ remote_rings' = [remote_rings EXCEPT ![p][m.from] = Store(ring, fresh)]
        /\ highest_remote_ack' = [highest_remote_ack EXCEPT ![p] = Maximum(@, m.ack)]
        /\ UNCHANGED <<sim_tick, needs_advance, local_ring, published, peer_history,
                       input_desync, net, historyVars>>

\* Mutant: the place is compared, not the tick it holds.
Contradicts_ByPlace(entry, ring) == \E e \in ring : SamePlace(e.tick, entry.tick) /\ e # entry

Contradicts(entry, ring) == \E e \in ring : e.tick = entry.tick /\ e.row # entry.row

\* Latest wins: a late duplicate of an older tick evicts a newer confirmation.
ReceiveConfirm(p, m) ==
    /\ m.type = "INPUT_CONFIRM"
    /\ m.from # p
    /\ peer_history' = [peer_history EXCEPT ![p][m.from] = Store(@, {m.entry})]
    /\ input_desync' = [input_desync EXCEPT ![p] = @ \/ Contradicts(m.entry, published[p])]
    /\ UNCHANGED <<sim_tick, needs_advance, local_ring, remote_rings,
                   highest_remote_ack, published, net, historyVars>>

-----------------------------------------------------------------------------
(* Admission *)

\* Mutant: a retry samples again.
SampleLocal_Again(p) == \E input \in Inputs :
    /\ local_ring' = [local_ring EXCEPT ![p] = Store(@, {[tick |-> Tip(p), val |-> input]})]
    /\ sampled' = [sampled EXCEPT
         ![p] = Append(SubSeq(@, 1, Tip(p)), input)]

\* The local row of the tip is sampled once: a retry finds it in the ring.
SampleLocal(p) ==
    IF Has(local_ring[p], Tip(p))
    THEN UNCHANGED <<local_ring, sampled>>
    ELSE \E input \in Inputs :
           /\ local_ring' = [local_ring EXCEPT
                ![p] = Store(@, {[tick |-> Tip(p), val |-> input]})]
           /\ sampled' = [sampled EXCEPT ![p] = Append(@, input)]

\* collect_wire_inputs, after SampleLocal.
Resolvable(p, t) ==
    /\ Has(local_ring'[p], t)
    /\ \A q \in Peers(p) : Has(remote_rings[p][q], t)

Resolve(p, t) ==
    [tick |-> t,
     row  |-> [q \in Slots |-> IF q = p THEN Get(local_ring'[p], t).val
                                        ELSE Get(remote_rings[p][q], t).val]]

\* Mutant: no trail.
ConfirmLow_NoTrail(p) == sim_tick[p]

\* Confirms go out for a window that trails the tick due, so that a peer that
\* lost the confirm of a tick this one has admitted still gets it.
ConfirmLow(p) ==
    LET trail == Minimum(Maximum(InputDelay[p] + Redundancy + Slack, TrailFloor),
                         HistoryLength \div 2)
    IN  Maximum(sim_tick[p] - trail, 0)

ConfirmWindow(p) == ConfirmLow(p) .. Tip(p)

\* Rows refresh_confirm_window resolves: those not published yet, and the row
\* of the tick due, which the admission test resolves again.
NewlyResolved(p) ==
    {Resolve(p, t) : t \in {u \in ConfirmWindow(p) :
        /\ Resolvable(p, u)
        /\ u = sim_tick[p] \/ ~Has(published[p], u)}}

\* A confirmation already received says otherwise: not sent, and input_desync.
Refuted(p, new) == {e \in new : \E q \in Peers(p) : Contradicts(e, peer_history[p][q])}

Confirm(p, entry) == [type |-> "INPUT_CONFIRM", from |-> p, entry |-> entry]

\* What every call of try_admit does before it decides.
PrepareAdmit(p) ==
    /\ ~needs_advance[p]
    /\ ~input_desync[p]
    /\ SampleLocal(p)
    /\ LET new     == NewlyResolved(p)
           refuted == Refuted(p, new)
           cached  == {e \in published[p] : e.tick \in ConfirmWindow(p)}
       IN  /\ published' = [published EXCEPT ![p] = Store(@, new)]
           /\ input_desync' = [input_desync EXCEPT ![p] = refuted # {}]
           /\ net' = Transmit(Bundle(p, local_ring'[p]) \cup
                              {Confirm(p, e) : e \in cached \cup (new \ refuted)})
    /\ UNCHANGED <<sim_tick, remote_rings, highest_remote_ack, peer_history>>

\* wire_confirmations_agree
ConfirmationsAgree(p, entry) == \A q \in Peers(p) : entry \in peer_history[p][q]

\* Mutant: a complete row is admitted without its confirmations.
MayAdmit_Unconfirmed(p) == Resolvable(p, sim_tick[p]) /\ ~input_desync'[p]

MayAdmit(p) ==
    /\ Resolvable(p, sim_tick[p])
    /\ ~input_desync'[p]
    /\ ConfirmationsAgree(p, Resolve(p, sim_tick[p]))

\* Mutant: the own sample played is the one of the tick before.
Admit_OwnEarlier(p) ==
    /\ sim_tick[p] < MaxTick
    /\ PrepareAdmit(p)
    /\ MayAdmit(p)
    /\ played' = [played EXCEPT ![p] = Append(@, [Resolve(p, sim_tick[p]).row EXCEPT
                     ![p] = Resolve(p, Maximum(sim_tick[p] - 1, 0)).row[p]])]
    /\ needs_advance' = [needs_advance EXCEPT ![p] = TRUE]

\* rnet_session_try_admit returns 1: the row goes to the game.
Admit(p) ==
    /\ sim_tick[p] < MaxTick
    /\ PrepareAdmit(p)
    /\ MayAdmit(p)
    /\ played' = [played EXCEPT ![p] = Append(@, Resolve(p, sim_tick[p]).row)]
    /\ needs_advance' = [needs_advance EXCEPT ![p] = TRUE]

\* It returns 0: wait_local_input, wait_remote_input, wait_confirm or desync.
\* (At the bound a peer goes on answering like one that is waiting.)
Stall(p) ==
    /\ PrepareAdmit(p)
    /\ sim_tick[p] = MaxTick \/ ~MayAdmit(p)
    /\ UNCHANGED <<needs_advance, played>>

\* Mutant: the frame is finished whether or not its tick was admitted.
Advance_Unchecked(p) ==
    /\ sim_tick[p] < MaxTick
    /\ needs_advance' = [needs_advance EXCEPT ![p] = FALSE]
    /\ sim_tick' = [sim_tick EXCEPT ![p] = @ + 1]
    /\ UNCHANGED <<sessionVars, net, historyVars>>

\* psx_netplay_finish_frame -> rnet_session_advance
Advance(p) ==
    /\ needs_advance[p]
    /\ needs_advance' = [needs_advance EXCEPT ![p] = FALSE]
    /\ sim_tick' = [sim_tick EXCEPT ![p] = @ + 1]
    /\ UNCHANGED <<sessionVars, net, historyVars>>

-----------------------------------------------------------------------------

Prefix(p) == {[tick |-> t, val |-> Neutral] : t \in 0 .. InputDelay[p] - 1}

\* Both peers have just handled START: seed_delay_prefix, then a first bundle.
Init ==
    /\ sim_tick = [p \in Slots |-> 0]
    /\ needs_advance = [p \in Slots |-> FALSE]
    /\ local_ring = [p \in Slots |-> Prefix(p)]
    /\ remote_rings = [p \in Slots |-> [q \in Slots |-> {}]]
    /\ highest_remote_ack = [p \in Slots |-> 0]
    /\ published = [p \in Slots |-> {}]
    /\ peer_history = [p \in Slots |-> [q \in Slots |-> {}]]
    /\ input_desync = [p \in Slots |-> FALSE]
    /\ net = UNION {Bundle(p, Prefix(p)) : p \in Slots}
    /\ sampled = [p \in Slots |-> [t \in 1 .. InputDelay[p] |-> Neutral]]
    /\ played = [p \in Slots |-> << >>]

Receive(p) == \E m \in net : ReceiveInput(p, m) \/ ReceiveConfirm(p, m)

Next == \E p \in Slots :
    \/ SendInputBundle(p)
    \/ Receive(p)
    \/ Admit(p)
    \/ Stall(p)
    \/ Advance(p)

Spec == Init /\ [][Next]_vars

-----------------------------------------------------------------------------
(* Fairness.  A frame loop that is not killed keeps polling and finishing     *)
(* frames (a poll sends all that a pump sends, so pumps need no fairness).    *)
(* The network may lose any datagram, but not every copy of one that its      *)
(* sender sends again on every call.                                          *)

\* What p's next pump or poll puts on the wire once more.
Repeated(p) ==
    Bundle(p, local_ring[p]) \cup
    {Confirm(p, e) : e \in {f \in published[p] : f.tick \in ConfirmWindow(p)}}

ReceiveRepeated(p) ==
    \E q \in Peers(p) : \E m \in net \cap Repeated(q) : ReceiveInput(p, m) \/ ReceiveConfirm(p, m)

Fairness == \A p \in Slots :
    /\ WF_vars(Admit(p) \/ Stall(p))
    /\ WF_vars(Advance(p))
    /\ WF_vars(ReceiveRepeated(p))

FairSpec == Spec /\ Fairness

-----------------------------------------------------------------------------
(* What the pipeline guarantees *)

Committed == INSTANCE Lockstep WITH chosen <- sampled

\* The pipeline implements Lockstep: a sample, once taken, is the input of its
\* tick for good, sampled InputDelay ticks ahead, and a row reaches the game
\* only complete, in order and as its players sampled it.
ImplementsLockstep == Committed!Spec

\* host.publish never hands two games different rows for one tick
\* (try_admit, rnet_session.c:1900-2020).
Agreement == Committed!Agreement

\* input_desync stops a session for good; honest peers never raise it, however
\* old the confirmations that reach them (rnet_session.c:506-526, 1484-1518).
NoSpuriousDesync == \A p \in Slots : ~input_desync[p]

\* A row of a tick its owner has admitted is in the ring of every peer that
\* still has to play it.  This is what makes it safe that send_input_bundle
\* takes "the highest row you hold" for an acknowledgement of all below it.
AdmittedRowsHeld ==
    \A p \in Slots : \A q \in Peers(p) :
        \A t \in sim_tick[q] .. Len(played[p]) - 1 : Has(remote_rings[q][p], t)

\* No peer's clock outruns another's by more than the other's delay and one.
SkewBound ==
    \A p, q \in Slots : sim_tick[p] <= sim_tick[q] + InputDelay[q] + 1

\* A peer that waits for a row is sent it again on every pump, and will take it.
WaiterIsSentRow ==
    \A p \in Slots : \A q \in Peers(p) :
        LET t == sim_tick[q]
        IN  t < Len(sampled[p]) /\ ~Has(remote_rings[q][p], t)
            => /\ t \in BundleLow(p) .. Tip(p)
               /\ Has(local_ring[p], t)
               /\ InLiveWindow(q, p, t)

\* A peer that waits for the confirmation of a row another has resolved is sent
\* it again on every poll (refresh_confirm_window, rnet_session.c:1538-1578).
WaiterIsSentConfirm ==
    \A p \in Slots : \A q \in Peers(p) :
        LET t == sim_tick[q]
        IN  (\E m \in net : m.type = "INPUT_CONFIRM" /\ m.from = p /\ m.entry.tick = t)
            => \/ Has(peer_history[q][p], t)
               \/ t \in ConfirmWindow(p) /\ Has(published[p], t)

\* Every peer plays on to the bound, whatever is lost on the way.
Progress == \A p \in Slots : <>(sim_tick[p] = MaxTick)
=============================================================================
