-------------------------- MODULE DelaySync_proofs --------------------------
(***************************************************************************)
(* The delay-sync pipeline implements Lockstep and never raises a spurious *)
(* desync, for every number of peers, every delay of each, every ring size *)
(* and every constant of the windows, over a network that loses,           *)
(* duplicates, reorders and delays.                                        *)
(*                                                                         *)
(* The argument: every row anywhere - in a ring, on the wire, published,   *)
(* confirmed, played - is the row its owner sampled for that tick, and a   *)
(* sample is taken once.  The rings and windows only decide which of these *)
(* rows a peer still has.                                                  *)
(***************************************************************************)
EXTENDS DelaySync, SequenceTheorems, WellFoundedInduction, TLAPS

-----------------------------------------------------------------------------
(* What the ring operators return, for every size of the ring. *)

\* A non-empty set of ticks below a bound has a greatest element, and Max is it.
LEMMA MaxOfBounded ==
    ASSUME NEW S, S \subseteq Nat, S # {}, NEW n \in Nat, \A x \in S : x <= n
    PROVE  Max(S) \in S /\ \A y \in S : Max(S) >= y
<1> DEFINE T == {n - x : x \in S}
<1>1. T \subseteq Nat /\ T # {}
    <2>1. \A x \in S : x \in Nat /\ n - x \in Nat
        OBVIOUS
    <2>2. PICK x \in S : TRUE
        OBVIOUS
    <2>3. n - x \in T
        BY <2>2
    <2>4. \A y \in T : y \in Nat
        BY <2>1
    <2> QED BY <2>3, <2>4
<1>2. PICK m \in T : \A y \in T : ~(<<y, m>> \in OpToRel(<, Nat))
    <2> HIDE DEF T
    <2> QED BY <1>1, NatLessThanWellFounded, WFMin
<1>3. \A y \in T : m <= y
    <2> HIDE DEF T
    <2> SUFFICES ASSUME NEW y \in T, y < m PROVE FALSE
        BY <1>1
    <2>1. y \in Nat /\ m \in Nat
        BY <1>1
    <2>2. <<y, m>> \in OpToRel(<, Nat)
        BY <2>1, y < m DEF OpToRel
    <2> QED BY <2>2, <1>2
<1>4. PICK x \in S : m = n - x
    OBVIOUS
<1>5. \A y \in S : x >= y
    <2> TAKE y \in S
    <2>1. n - y \in T
        OBVIOUS
    <2> QED BY <2>1, <1>3, <1>4
<1> QED BY <1>5 DEF Max

\* rnet_ring_highest_valid returns a tick the ring holds, and none is higher; 0
\* when it holds none.
LEMMA HighestValidIsTick ==
    ASSUME NEW ring, NEW n \in Nat, \A e \in ring : e.tick \in Nat /\ e.tick <= n
    PROVE  /\ HighestValid(ring) \in Nat
           /\ \A e \in ring : e.tick <= HighestValid(ring)
           /\ ring # {} => Has(ring, HighestValid(ring))
<1> DEFINE S == {e.tick : e \in ring}
<1>1. CASE ring = {}
    BY <1>1 DEF HighestValid
<1>2. CASE ring # {}
    <2>1. S \subseteq Nat /\ S # {} /\ \A x \in S : x <= n
        BY <1>2
    <2>2. HighestValid(ring) = Max(S)
        BY <1>2 DEF HighestValid
    <2>3. Max(S) \in S /\ \A y \in S : Max(S) >= y
        <3> HIDE DEF S
        <3> QED BY <2>1, MaxOfBounded
    <2> QED BY <2>1, <2>2, <2>3 DEF Has
<1> QED BY <1>1, <1>2

\* rnet_ring_get returns the entry of the tick asked for.
LEMMA GetIsEntry ==
    ASSUME NEW ring, NEW t, Has(ring, t)
    PROVE  Get(ring, t) \in ring /\ Get(ring, t).tick = t
BY DEF Has, Get

\* A store adds its entries and nothing else; what it evicts is a tick that
\* shares a place with one of them.
LEMMA StoreMembers ==
    ASSUME NEW ring, NEW entries
    PROVE  /\ entries \subseteq Store(ring, entries)
           /\ \A e \in Store(ring, entries) : e \in ring \/ e \in entries
BY DEF Store

\* Two ticks less than HistoryLength apart never share a place.
LEMMA NearTicksApart ==
    ASSUME NEW t \in Nat, NEW u \in Nat, t < u, u - t < HistoryLength
    PROVE  ~SamePlace(t, u)
<1> DEFINE h == HistoryLength
           a == t \div h
           b == u \div h
<1> h \in Nat \ {0}
    BY HistoryAssumption
<1>1. t = (h * a) + (t % h) /\ u = (h * b) + (u % h) /\ a \in Int /\ b \in Int
    OBVIOUS
<1> SUFFICES ASSUME t % h = u % h PROVE FALSE
    BY DEF SamePlace
<1>2. u - t = h * b - h * a
    BY <1>1
<1>3. h * b - h * a = h * (b - a)
    BY <1>1
<1>4. CASE b - a <= 0
    <2>1. h * (b - a) <= 0
        BY <1>1, <1>4
    <2> QED BY <2>1, <1>2, <1>3, <1>1
<1>5. CASE b - a >= 1
    <2>1. h * (b - a) >= h
        BY <1>1, <1>5
    <2> QED BY <2>1, <1>2, <1>3, <1>1
<1> QED BY <1>4, <1>5, <1>1

-----------------------------------------------------------------------------
(* The invariant *)

SampleTrue(q, s) == s.tick < Len(sampled[q]) /\ s.val = sampled[q][s.tick + 1]

EntryTrue(e) == \A q \in Slots : e.tick < Len(sampled[q]) /\ e.row[q] = sampled[q][e.tick + 1]

\* The clock of a peer, what it has played and what it has sampled keep step.
Clocks == \A p \in Slots :
    /\ Len(played[p]) = IF needs_advance[p] THEN sim_tick[p] + 1 ELSE sim_tick[p]
    /\ Len(sampled[p]) = IF Has(local_ring[p], Tip(p)) THEN Tip(p) + 1 ELSE Tip(p)
    /\ needs_advance[p] => Has(local_ring[p], Tip(p))

LocalTrue == \A p \in Slots : \A s \in local_ring[p] : SampleTrue(p, s)

RemoteTrue == \A p, q \in Slots : \A s \in remote_rings[p][q] : SampleTrue(q, s)

PublishedTrue == \A p \in Slots : \A e \in published[p] : EntryTrue(e)

HistoryTrue == \A p, q \in Slots : \A e \in peer_history[p][q] : EntryTrue(e)

NetTrue == \A m \in net :
    /\ m.type = "INPUT" => \A s \in m.frames : SampleTrue(m.from, s)
    /\ m.type = "INPUT_CONFIRM" => EntryTrue(m.entry)

PlayedTrue == \A p \in Slots : \A t \in 1 .. Len(played[p]) : \A q \in Slots :
    t <= Len(sampled[q]) /\ played[p][t][q] = sampled[q][t]

Inv ==
    /\ TypeOK
    /\ Clocks
    /\ LocalTrue
    /\ RemoteTrue
    /\ PublishedTrue
    /\ HistoryTrue
    /\ NetTrue
    /\ PlayedTrue
    /\ NoSpuriousDesync

\* Samples are only ever added.
SampledGrows == \A q \in Slots :
    /\ sampled[q] \in Seq(Inputs) /\ sampled'[q] \in Seq(Inputs)
    /\ Len(sampled[q]) <= Len(sampled'[q])
    /\ \A t \in 1 .. Len(sampled[q]) : sampled'[q][t] = sampled[q][t]

LEMMA SampleStaysTrue ==
    ASSUME SampledGrows, NEW q \in Slots, NEW s \in Sample, SampleTrue(q, s)
    PROVE  SampleTrue(q, s)'
<1>1. s.tick \in Nat
    BY DEF Sample
<1>2. s.tick + 1 \in 1 .. Len(sampled[q])
    BY <1>1, LenProperties DEF SampleTrue, SampledGrows
<1> QED BY <1>1, <1>2, LenProperties DEF SampleTrue, SampledGrows

LEMMA EntryStaysTrue ==
    ASSUME SampledGrows, NEW e \in ResolvedRow, EntryTrue(e)
    PROVE  EntryTrue(e)'
<1>1. e.tick \in Nat
    BY DEF ResolvedRow
<1> SUFFICES ASSUME NEW q \in Slots
             PROVE  e.tick < Len(sampled'[q]) /\ e.row[q] = sampled'[q][e.tick + 1]
    BY DEF EntryTrue
<1>2. e.tick + 1 \in 1 .. Len(sampled[q])
    BY <1>1, LenProperties DEF EntryTrue, SampledGrows
<1> QED BY <1>1, <1>2, LenProperties DEF EntryTrue, SampledGrows

\* Two true entries of a tick agree: a confirmation never contradicts a row.
LEMMA TrueEntriesAgree ==
    ASSUME NEW e \in ResolvedRow, NEW f \in ResolvedRow,
           EntryTrue(e), EntryTrue(f), e.tick = f.tick
    PROVE  e.row = f.row
<1>1. e.row \in Row /\ f.row \in Row
    BY DEF ResolvedRow
<1>2. \A q \in Slots : e.row[q] = f.row[q]
    BY DEF EntryTrue
<1> QED BY <1>1, <1>2 DEF Row

LEMMA NextSlot ==
    ASSUME NEW p \in Slots
    PROVE  (p + 1) % SlotCount \in Slots
BY ConfigAssumption DEF Slots

LEMMA AckIsTick ==
    ASSUME TypeOK, RemoteTrue, NEW p \in Slots
    PROVE  AckOf(p) \in Nat
<1> DEFINE q == (p + 1) % SlotCount
           ring == remote_rings[p][q]
<1>1. q \in Slots
    BY NextSlot
<1>2. Len(sampled[q]) \in Nat
    BY <1>1, LenProperties DEF TypeOK
<1>3. \A e \in ring : e.tick \in Nat /\ e.tick <= Len(sampled[q])
    <2> TAKE e \in ring
    <2>1. e \in Sample /\ SampleTrue(q, e)
        BY <1>1 DEF TypeOK, RemoteTrue
    <2> QED BY <2>1, <1>2 DEF Sample, SampleTrue
<1>4. HighestValid(ring) \in Nat
    <2> HIDE DEF ring
    <2> QED BY <1>2, <1>3, HighestValidIsTick
<1> QED BY <1>4 DEF AckOf

\* A bundle is made of rows of the ring it is taken from.
LEMMA BundlePackets ==
    ASSUME NEW p \in Slots, NEW ring \in SUBSET Sample, AckOf(p) \in Nat
    PROVE  /\ Bundle(p, ring) \subseteq InputPacket
           /\ \A m \in Bundle(p, ring) :
                m.type = "INPUT" /\ m.from = p /\ m.frames \subseteq ring
<1> SUFFICES ASSUME NEW m \in Bundle(p, ring)
             PROVE  /\ m \in InputPacket
                    /\ m.type = "INPUT" /\ m.from = p /\ m.frames \subseteq ring
    OBVIOUS
<1>1. PICK frames \in SUBSET ring :
        m = [type |-> "INPUT", from |-> p, ack |-> AckOf(p), frames |-> frames]
    BY DEF Bundle
<1>2. frames \in SUBSET Sample
    OBVIOUS
<1> QED BY <1>1, <1>2 DEF InputPacket

\* One place of a table of peers by peers is written.
LEMMA UpdateOfTable ==
    ASSUME NEW S, NEW table \in [Slots -> [Slots -> S]],
           NEW p \in Slots, NEW q \in Slots, NEW x \in S
    PROVE  [table EXCEPT ![p][q] = x] \in [Slots -> [Slots -> S]]
<1>1. [table[p] EXCEPT ![q] = x] \in [Slots -> S]
    OBVIOUS
<1> QED BY <1>1

LEMMA TransmitMembers ==
    ASSUME NEW sent
    PROVE  Transmit(sent) \subseteq net \cup sent
BY DEF Transmit

-----------------------------------------------------------------------------
(* Initially *)

LEMMA PrefixTrue ==
    ASSUME Init, NEW p \in Slots
    PROVE  /\ Prefix(p) \in SUBSET Sample
           /\ sampled[p] \in Seq(Inputs)
           /\ Len(sampled[p]) = InputDelay[p]
           /\ \A s \in Prefix(p) : SampleTrue(p, s)
<1>1. InputDelay[p] \in Nat /\ Neutral \in Inputs
    BY ConfigAssumption
<1>2. sampled[p] = [t \in 1 .. InputDelay[p] |-> Neutral]
    BY DEF Init
<1>3. sampled[p] \in Seq(Inputs) /\ Len(sampled[p]) = InputDelay[p]
    BY <1>1, <1>2, IsASeq, LenProperties
<1>4. Prefix(p) \in SUBSET Sample
    BY <1>1 DEF Prefix, Sample
<1>5. \A s \in Prefix(p) : SampleTrue(p, s)
    BY <1>1, <1>2, <1>3 DEF Prefix, SampleTrue
<1> QED BY <1>3, <1>4, <1>5

LEMMA InitInv == Init => Inv
<1> SUFFICES ASSUME Init PROVE Inv
    OBVIOUS
<1>1. \A p \in Slots : AckOf(p) = 0
    BY NextSlot DEF Init, AckOf, HighestValid
<1>2. \A p \in Slots : /\ Prefix(p) \in SUBSET Sample
                       /\ sampled[p] \in Seq(Inputs) /\ Len(sampled[p]) = InputDelay[p]
                       /\ \A s \in Prefix(p) : SampleTrue(p, s)
    BY PrefixTrue
<1>3. \A m \in net : /\ m \in InputPacket
                      /\ m.type = "INPUT" /\ m.from \in Slots
                      /\ m.frames \subseteq Prefix(m.from)
    <2> TAKE m \in net
    <2>1. PICK p \in Slots : m \in Bundle(p, Prefix(p))
        BY DEF Init
    <2> QED BY <2>1, <1>1, <1>2, BundlePackets
<1>4. TypeOK
    <2>1. sampled \in [Slots -> Seq(Inputs)]
        BY <1>2 DEF Init
    <2>2. played \in [Slots -> Seq(Row)]
        BY DEF Init
    <2>3. local_ring \in [Slots -> SUBSET Sample]
        BY <1>2 DEF Init
    <2>4. net \subseteq InputPacket
        BY <1>3
    <2> QED BY <2>1, <2>2, <2>3, <2>4 DEF Init, TypeOK
<1>5. Clocks
    <2> SUFFICES ASSUME NEW p \in Slots
                 PROVE  /\ Len(played[p]) = 0 /\ sim_tick[p] = 0 /\ ~needs_advance[p]
                        /\ Len(sampled[p]) = Tip(p)
                        /\ ~Has(local_ring[p], Tip(p))
        BY DEF Clocks
    <2>1. Len(played[p]) = 0 /\ sim_tick[p] = 0 /\ ~needs_advance[p]
        BY EmptySeq DEF Init
    <2>2. Tip(p) = InputDelay[p] /\ InputDelay[p] \in Nat
        BY <2>1, ConfigAssumption DEF Tip
    <2>3. ~Has(local_ring[p], Tip(p))
        BY <2>2 DEF Init, Has, Prefix
    <2> QED BY <2>1, <2>2, <2>3, <1>2
<1>6. LocalTrue
    BY <1>2 DEF Init, LocalTrue
<1>7. RemoteTrue /\ PublishedTrue /\ HistoryTrue /\ NoSpuriousDesync
    BY DEF Init, RemoteTrue, PublishedTrue, HistoryTrue, NoSpuriousDesync
<1>8. NetTrue
    BY <1>2, <1>3 DEF NetTrue
<1>9. PlayedTrue
    BY EmptySeq DEF Init, PlayedTrue
<1> QED BY <1>4, <1>5, <1>6, <1>7, <1>8, <1>9 DEF Inv

-----------------------------------------------------------------------------
(* The steps *)

LEMMA SendInputBundleInv ==
    ASSUME Inv, NEW p \in Slots, SendInputBundle(p)
    PROVE  Inv'
<1> USE DEF SendInputBundle, sessionVars, historyVars
<1>1. local_ring[p] \in SUBSET Sample
    BY DEF Inv, TypeOK
<1>2. \A m \in net' : \/ m \in net
                       \/ /\ m \in InputPacket /\ m.type = "INPUT" /\ m.from = p
                          /\ m.frames \subseteq local_ring[p]
    BY <1>1, AckIsTick, BundlePackets, TransmitMembers DEF Inv
<1>3. TypeOK'
    BY <1>2 DEF Inv, TypeOK
<1>4. Clocks' /\ PlayedTrue' /\ NoSpuriousDesync'
    BY DEF Inv, Clocks, Tip, PlayedTrue, NoSpuriousDesync
<1>5. LocalTrue' /\ RemoteTrue'
    BY DEF Inv, LocalTrue, RemoteTrue, SampleTrue
<1>6. PublishedTrue' /\ HistoryTrue'
    BY DEF Inv, PublishedTrue, HistoryTrue, EntryTrue
<1>7. NetTrue'
    <2> SUFFICES ASSUME NEW m \in net'
                 PROVE  /\ m.type = "INPUT" => \A s \in m.frames : SampleTrue(m.from, s)
                        /\ m.type = "INPUT_CONFIRM" => EntryTrue(m.entry)
        BY DEF NetTrue, SampleTrue, EntryTrue
    <2>1. CASE m \in net
        BY <2>1 DEF Inv, NetTrue
    <2>2. CASE m.type = "INPUT" /\ m.from = p /\ m.frames \subseteq local_ring[p]
        BY <2>2 DEF Inv, LocalTrue
    <2> QED BY <1>2, <2>1, <2>2
<1> QED BY <1>3, <1>4, <1>5, <1>6, <1>7 DEF Inv

LEMMA ReceiveInputInv ==
    ASSUME Inv, NEW p \in Slots, NEW m \in net, ReceiveInput(p, m)
    PROVE  Inv'
<1> USE DEF ReceiveInput, historyVars
<1>1. m \in InputPacket /\ m.from \in Slots
    BY DEF Inv, TypeOK, InputPacket, ConfirmPacket
<1>2. \A s \in m.frames : s \in Sample /\ SampleTrue(m.from, s)
    BY <1>1 DEF Inv, NetTrue, InputPacket
<1>3. \A q, r \in Slots : \A s \in remote_rings'[q][r] :
        s \in remote_rings[q][r] \/ (r = m.from /\ s \in m.frames)
    <2> DEFINE ring  == remote_rings[p][m.from]
               fresh == {s \in m.frames : InLiveWindow(p, m.from, s.tick) /\ ~Has(ring, s.tick)}
    <2>1. remote_rings' = [remote_rings EXCEPT ![p][m.from] = Store(ring, fresh)]
        OBVIOUS
    <2>2. \A s \in Store(ring, fresh) : s \in ring \/ s \in m.frames
        BY StoreMembers
    <2> HIDE DEF ring, fresh
    <2> QED BY <2>1, <2>2, <1>1 DEF Inv, TypeOK, ring
<1>4. TypeOK'
    <2>1. remote_rings' \in [Slots -> [Slots -> SUBSET Sample]]
        <3> DEFINE ring  == remote_rings[p][m.from]
                   fresh == {s \in m.frames : InLiveWindow(p, m.from, s.tick) /\ ~Has(ring, s.tick)}
                   stored == Store(ring, fresh)
        <3>1. stored \in SUBSET Sample
            BY <1>1, <1>2, StoreMembers DEF Inv, TypeOK
        <3>2. remote_rings' = [remote_rings EXCEPT ![p][m.from] = stored]
            OBVIOUS
        <3>3. remote_rings \in [Slots -> [Slots -> SUBSET Sample]]
            BY DEF Inv, TypeOK
        <3>4. m.from \in Slots
            BY <1>1
        <3> HIDE DEF stored, ReceiveInput
        <3>5. [remote_rings EXCEPT ![p][m.from] = stored] \in [Slots -> [Slots -> SUBSET Sample]]
            BY <3>1, <3>3, <3>4, UpdateOfTable
        <3> QED BY <3>2, <3>5
    <2>2. highest_remote_ack' \in [Slots -> Nat]
        BY <1>1 DEF Inv, TypeOK, InputPacket, Maximum
    <2> QED BY <2>1, <2>2 DEF Inv, TypeOK
<1>5. Clocks' /\ PlayedTrue' /\ NoSpuriousDesync'
    BY DEF Inv, Clocks, Tip, PlayedTrue, NoSpuriousDesync
<1>6. LocalTrue' /\ PublishedTrue' /\ HistoryTrue' /\ NetTrue'
    BY DEF Inv, LocalTrue, PublishedTrue, HistoryTrue, NetTrue, SampleTrue, EntryTrue
<1>7. RemoteTrue'
    BY <1>2, <1>3 DEF Inv, RemoteTrue, SampleTrue
<1> QED BY <1>4, <1>5, <1>6, <1>7 DEF Inv

LEMMA ReceiveConfirmInv ==
    ASSUME Inv, NEW p \in Slots, NEW m \in net, ReceiveConfirm(p, m)
    PROVE  Inv'
<1> USE DEF ReceiveConfirm, historyVars
<1>1. m \in ConfirmPacket /\ m.from \in Slots /\ m.entry \in ResolvedRow /\ EntryTrue(m.entry)
    BY DEF Inv, TypeOK, NetTrue, InputPacket, ConfirmPacket
<1>2. ~Contradicts(m.entry, published[p])
    BY <1>1, TrueEntriesAgree DEF Inv, TypeOK, PublishedTrue, Contradicts
<1>3. input_desync' = [input_desync EXCEPT ![p] = FALSE] /\ NoSpuriousDesync'
    BY <1>2 DEF Inv, TypeOK, NoSpuriousDesync
<1>4. /\ peer_history' \in [Slots -> [Slots -> SUBSET ResolvedRow]]
      /\ HistoryTrue'
    <2> DEFINE stored == Store(peer_history[p][m.from], {m.entry})
    <2>1. stored \in SUBSET ResolvedRow /\ \A e \in stored : EntryTrue(e)
        BY <1>1, StoreMembers DEF Inv, TypeOK, HistoryTrue
    <2>2. peer_history' = [peer_history EXCEPT ![p][m.from] = stored] /\ sampled' = sampled
        OBVIOUS
    <2>3. peer_history \in [Slots -> [Slots -> SUBSET ResolvedRow]] /\ HistoryTrue
        BY DEF Inv, TypeOK
    <2>4. m.from \in Slots
        BY <1>1
    <2> HIDE DEF stored, ReceiveConfirm
    <2>5. peer_history' \in [Slots -> [Slots -> SUBSET ResolvedRow]]
        BY <2>1, <2>2, <2>3, <2>4, UpdateOfTable
    <2>6. \A q, r \in Slots : peer_history'[q][r] = stored \/ peer_history'[q][r] = peer_history[q][r]
        BY <2>2, <2>3, <2>4
    <2> QED BY <2>1, <2>2, <2>3, <2>5, <2>6 DEF HistoryTrue, EntryTrue
<1>5. TypeOK'
    BY <1>3, <1>4 DEF Inv, TypeOK
<1>6. Clocks' /\ PlayedTrue'
    BY DEF Inv, Clocks, Tip, PlayedTrue
<1>7. LocalTrue' /\ RemoteTrue' /\ PublishedTrue' /\ NetTrue'
    BY DEF Inv, LocalTrue, RemoteTrue, PublishedTrue, NetTrue, SampleTrue, EntryTrue
<1> QED BY <1>3, <1>4, <1>5, <1>6, <1>7 DEF Inv

LEMMA AdvanceInv ==
    ASSUME Inv, NEW p \in Slots, Advance(p)
    PROVE  Inv'
<1> USE DEF Advance, sessionVars, historyVars
<1>1. TypeOK'
    BY DEF Inv, TypeOK
<1>2. Clocks'
    <2> SUFFICES ASSUME NEW q \in Slots
                 PROVE  /\ Len(played[q]) = IF needs_advance'[q] THEN sim_tick'[q] + 1 ELSE sim_tick'[q]
                        /\ Len(sampled[q]) = IF Has(local_ring[q], Tip(q)') THEN Tip(q)' + 1 ELSE Tip(q)'
                        /\ needs_advance'[q] => Has(local_ring[q], Tip(q)')
        BY DEF Clocks
    <2>1. CASE q # p
        BY <2>1 DEF Inv, TypeOK, Clocks, Tip
    <2>2. CASE q = p
        <3>0. /\ sim_tick \in [Slots -> Nat] /\ needs_advance \in [Slots -> BOOLEAN]
              /\ InputDelay \in [Slots -> Nat]
            BY ConfigAssumption DEF Inv, TypeOK
        <3>1. /\ sim_tick[p] \in Nat /\ InputDelay[p] \in Nat
              /\ sim_tick'[p] = sim_tick[p] + 1 /\ ~needs_advance'[p]
              /\ Tip(p)' = Tip(p) + 1 /\ Tip(p) \in Nat
            BY <3>0 DEF Tip
        <3>2. Len(played[p]) = sim_tick[p] + 1 /\ Len(sampled[p]) = Tip(p) + 1
            BY DEF Inv, Clocks
        <3>3. ~Has(local_ring[p], Tip(p) + 1)
            BY <3>1, <3>2 DEF Inv, LocalTrue, SampleTrue, Has
        <3> QED BY <2>2, <3>1, <3>2, <3>3
    <2> QED BY <2>1, <2>2
<1>3. LocalTrue' /\ RemoteTrue' /\ PublishedTrue' /\ HistoryTrue' /\ NetTrue'
    BY DEF Inv, LocalTrue, RemoteTrue, PublishedTrue, HistoryTrue, NetTrue, SampleTrue, EntryTrue
<1>4. PlayedTrue' /\ NoSpuriousDesync'
    BY DEF Inv, PlayedTrue, NoSpuriousDesync
<1> QED BY <1>1, <1>2, <1>3, <1>4 DEF Inv

-----------------------------------------------------------------------------
(* Admission *)

\* What sampling leaves behind, whether it is a first call or a retry.
LEMMA SampleLocalTrue ==
    ASSUME Inv, NEW p \in Slots, ~needs_advance[p], SampleLocal(p)
    PROVE  /\ local_ring' \in [Slots -> SUBSET Sample]
           /\ sampled' \in [Slots -> Seq(Inputs)]
           /\ SampledGrows
           /\ \A q \in Slots \ {p} : local_ring'[q] = local_ring[q] /\ sampled'[q] = sampled[q]
           /\ Has(local_ring'[p], Tip(p))
           /\ Len(sampled'[p]) = Tip(p) + 1
           /\ LocalTrue'
<1>1. Tip(p) \in Nat /\ sampled[p] \in Seq(Inputs) /\ local_ring[p] \in SUBSET Sample
    BY ConfigAssumption DEF Inv, TypeOK, Tip
<1>2. CASE Has(local_ring[p], Tip(p))
    <2>1. UNCHANGED <<local_ring, sampled>>
        BY <1>2 DEF SampleLocal
    <2> QED BY <2>1, <1>2, LenProperties
            DEF Inv, TypeOK, Clocks, SampledGrows, LocalTrue, SampleTrue
<1>3. CASE ~Has(local_ring[p], Tip(p))
    <2>1. PICK input \in Inputs :
            /\ local_ring' = [local_ring EXCEPT
                 ![p] = Store(local_ring[p], {[tick |-> Tip(p), val |-> input]})]
            /\ sampled' = [sampled EXCEPT ![p] = Append(sampled[p], input)]
        BY <1>3 DEF SampleLocal
    <2>2. Len(sampled[p]) = Tip(p)
        BY <1>3 DEF Inv, Clocks
    <2>3. /\ sampled'[p] = Append(sampled[p], input)
          /\ \A q \in Slots \ {p} : local_ring'[q] = local_ring[q] /\ sampled'[q] = sampled[q]
          /\ local_ring'[p] = Store(local_ring[p], {[tick |-> Tip(p), val |-> input]})
        BY <2>1 DEF Inv, TypeOK
    <2>4. /\ sampled'[p] \in Seq(Inputs)
          /\ Len(sampled'[p]) = Tip(p) + 1
          /\ sampled'[p][Tip(p) + 1] = input
          /\ \A t \in 1 .. Tip(p) : sampled'[p][t] = sampled[p][t]
        BY <1>1, <2>2, <2>3, AppendProperties, LenProperties
    <2>5. \A s \in local_ring'[p] : s \in local_ring[p] \/ s = [tick |-> Tip(p), val |-> input]
        BY <2>3, StoreMembers
    <2>6. local_ring'[p] \in SUBSET Sample
        BY <1>1, <2>5 DEF Sample
    <2>7. local_ring' \in [Slots -> SUBSET Sample]
        BY <2>1, <2>3, <2>6 DEF Inv, TypeOK
    <2>8. sampled' \in [Slots -> Seq(Inputs)]
        BY <2>1, <2>3, <2>4 DEF Inv, TypeOK
    <2>9. SampledGrows
        <3> SUFFICES ASSUME NEW q \in Slots
                     PROVE  /\ sampled[q] \in Seq(Inputs) /\ sampled'[q] \in Seq(Inputs)
                            /\ Len(sampled[q]) <= Len(sampled'[q])
                            /\ \A t \in 1 .. Len(sampled[q]) : sampled'[q][t] = sampled[q][t]
            BY DEF SampledGrows
        <3>1. CASE q = p
            BY <3>1, <1>1, <2>2, <2>4
        <3>2. CASE q # p
            <4>1. sampled[q] \in Seq(Inputs) /\ sampled'[q] = sampled[q]
                BY <3>2, <2>3 DEF Inv, TypeOK
            <4> QED BY <4>1, LenProperties
        <3> QED BY <3>1, <3>2
    <2>10. Has(local_ring'[p], Tip(p))
        <3>1. [tick |-> Tip(p), val |-> input] \in local_ring'[p]
            BY <2>3, StoreMembers
        <3> QED BY <3>1 DEF Has
    <2>11. LocalTrue'
        <3> SUFFICES ASSUME NEW q \in Slots, NEW s \in local_ring'[q]
                     PROVE  SampleTrue(q, s)'
            BY DEF LocalTrue
        <3>1. CASE s \in local_ring[q]
            BY <3>1, <2>9, SampleStaysTrue DEF Inv, TypeOK, LocalTrue
        <3>2. CASE q = p /\ s = [tick |-> Tip(p), val |-> input]
            BY <3>2, <2>4, <1>1 DEF SampleTrue
        <3> QED BY <3>1, <3>2, <2>3, <2>5
    <2> QED BY <2>3, <2>4, <2>7, <2>8, <2>9, <2>10, <2>11
<1> QED BY <1>2, <1>3

\* A row is resolved from samples, each of them its player's.
LEMMA ResolveTrue ==
    ASSUME Inv, NEW p \in Slots, ~needs_advance[p], SampleLocal(p),
           UNCHANGED remote_rings, NEW t \in Nat, Resolvable(p, t), NEW e, e = Resolve(p, t)
    PROVE  e \in ResolvedRow /\ e.tick = t /\ EntryTrue(e)'
<1> DEFINE val(q) == IF q = p THEN Get(local_ring'[p], t).val ELSE Get(remote_rings[p][q], t).val
           row == [q \in Slots |-> val(q)]
<1>1. \A q \in Slots : val(q) \in Inputs /\ t < Len(sampled'[q]) /\ val(q) = sampled'[q][t + 1]
    <2> TAKE q \in Slots
    <2>1. CASE q = p
        <3>1. Get(local_ring'[p], t) \in local_ring'[p] /\ Get(local_ring'[p], t).tick = t
            BY GetIsEntry DEF Resolvable
        <3>2. local_ring'[p] \in SUBSET Sample /\ \A s \in local_ring'[p] : SampleTrue(p, s)'
            BY SampleLocalTrue DEF LocalTrue
        <3> QED BY <2>1, <3>1, <3>2 DEF Sample, SampleTrue
    <2>2. CASE q # p
        <3>1. /\ Get(remote_rings[p][q], t) \in remote_rings[p][q]
              /\ Get(remote_rings[p][q], t).tick = t
            BY <2>2, GetIsEntry DEF Resolvable, Peers
        <3>2. \A s \in remote_rings[p][q] : s \in Sample /\ SampleTrue(q, s)
            BY DEF Inv, TypeOK, RemoteTrue
        <3>3. \A s \in remote_rings[p][q] : SampleTrue(q, s)'
            BY <3>2, SampleLocalTrue, SampleStaysTrue
        <3> QED BY <2>2, <3>1, <3>2, <3>3 DEF Sample, SampleTrue
    <2> QED BY <2>1, <2>2
<1>2. e = [tick |-> t, row |-> row]
    BY DEF Resolve
<1> HIDE DEF val
<1>3. row \in Row
    BY <1>1 DEF Row
<1> QED BY <1>1, <1>2, <1>3 DEF ResolvedRow, EntryTrue

LEMMA WindowIsTicks ==
    ASSUME TypeOK, NEW p \in Slots
    PROVE  ConfirmWindow(p) \subseteq Nat
<1>1. sim_tick[p] \in Nat /\ Tip(p) \in Nat
    BY ConfigAssumption DEF TypeOK, Tip
<1>2. HistoryLength \div 2 \in Nat
    BY HistoryAssumption
<1>3. ConfirmLow(p) \in Nat
    BY <1>1, <1>2, ConfigAssumption DEF ConfirmLow, Maximum, Minimum
<1> QED BY <1>1, <1>3 DEF ConfirmWindow

\* Whatever a call resolves is true, so no confirmation ever received refutes it.
LEMMA NewlyResolvedTrue ==
    ASSUME Inv, NEW p \in Slots, PrepareAdmit(p)
    PROVE  /\ \A e \in NewlyResolved(p) : e \in ResolvedRow /\ EntryTrue(e)'
           /\ Refuted(p, NewlyResolved(p)) = {}
<1>1. ~needs_advance[p] /\ SampleLocal(p) /\ UNCHANGED remote_rings
    BY DEF PrepareAdmit
<1>2. ASSUME NEW e \in NewlyResolved(p)
      PROVE  e \in ResolvedRow /\ EntryTrue(e)'
    <2>1. PICK t \in ConfirmWindow(p) : Resolvable(p, t) /\ e = Resolve(p, t)
        BY DEF NewlyResolved
    <2>2. t \in Nat
        BY WindowIsTicks DEF Inv
    <2> QED BY <1>1, <2>1, <2>2, ResolveTrue
<1>3. ASSUME NEW e \in NewlyResolved(p), NEW q \in Slots, NEW f \in peer_history[p][q],
             f.tick = e.tick, f.row # e.row
      PROVE  FALSE
    <2>1. f \in ResolvedRow /\ EntryTrue(f)
        BY DEF Inv, TypeOK, HistoryTrue
    <2>2. EntryTrue(f)'
        BY <1>1, <2>1, SampleLocalTrue, EntryStaysTrue
    <2>3. e \in ResolvedRow /\ EntryTrue(e)'
        BY <1>2
    <2>4. e.row \in Row /\ f.row \in Row
        BY <2>1, <2>3 DEF ResolvedRow
    <2>5. \A r \in Slots : e.row[r] = f.row[r]
        BY <2>2, <2>3, <1>3 DEF EntryTrue
    <2> QED BY <1>3, <2>4, <2>5 DEF Row
<1>4. Refuted(p, NewlyResolved(p)) = {}
    BY <1>3 DEF Refuted, Contradicts, Peers
<1> QED BY <1>2, <1>4

\* Everything a call of try_admit does before it decides keeps the invariant.
LEMMA PrepareAdmitKeeps ==
    ASSUME Inv, NEW p \in Slots, PrepareAdmit(p)
    PROVE  /\ published' \in [Slots -> SUBSET ResolvedRow]
           /\ input_desync' \in [Slots -> BOOLEAN]
           /\ net' \subseteq InputPacket \cup ConfirmPacket
           /\ RemoteTrue' /\ PublishedTrue' /\ HistoryTrue' /\ NetTrue' /\ NoSpuriousDesync'
<1> DEFINE new    == NewlyResolved(p)
           cached == {e \in published[p] : e.tick \in ConfirmWindow(p)}
           bundle == Bundle(p, local_ring'[p])
<1>1. /\ ~needs_advance[p] /\ SampleLocal(p)
      /\ published' = [published EXCEPT ![p] = Store(published[p], new)]
      /\ input_desync' = [input_desync EXCEPT ![p] = Refuted(p, new) # {}]
      /\ net' = Transmit(bundle \cup {Confirm(p, e) : e \in cached \cup (new \ Refuted(p, new))})
      /\ remote_rings' = remote_rings /\ peer_history' = peer_history
    BY DEF PrepareAdmit
<1>2. /\ \A e \in new : e \in ResolvedRow /\ EntryTrue(e)'
      /\ Refuted(p, new) = {}
    BY NewlyResolvedTrue
<1>3. SampledGrows /\ local_ring'[p] \in SUBSET Sample /\ \A s \in local_ring'[p] : SampleTrue(p, s)'
    BY <1>1, SampleLocalTrue DEF LocalTrue
<1>4. \A q \in Slots : \A e \in published[q] : e \in ResolvedRow /\ EntryTrue(e)'
    BY <1>3, EntryStaysTrue DEF Inv, TypeOK, PublishedTrue
<1>5. \A m \in bundle : m \in InputPacket /\ m.type = "INPUT" /\ m.from = p /\ m.frames \subseteq local_ring'[p]
    BY <1>3, AckIsTick, BundlePackets DEF Inv
<1> HIDE DEF new, bundle
<1>6. \A q \in Slots : \A e \in published'[q] : e \in ResolvedRow /\ EntryTrue(e)'
    <2> SUFFICES ASSUME NEW q \in Slots, NEW e \in published'[q]
                 PROVE  e \in ResolvedRow /\ EntryTrue(e)'
        OBVIOUS
    <2>1. published'[q] = IF q = p THEN Store(published[p], new) ELSE published[q]
        BY <1>1 DEF Inv, TypeOK
    <2>2. e \in published[q] \/ e \in new
        BY <2>1, StoreMembers
    <2> QED BY <2>2, <1>2, <1>4
<1>7. published' \in [Slots -> SUBSET ResolvedRow]
    <2>1. Store(published[p], new) \in SUBSET ResolvedRow
        BY <1>2, <1>4, StoreMembers
    <2>2. published \in [Slots -> SUBSET ResolvedRow]
        BY DEF Inv, TypeOK
    <2> QED BY <1>1, <2>1, <2>2
<1>8. PublishedTrue'
    BY <1>6 DEF PublishedTrue
<1>9. input_desync' \in [Slots -> BOOLEAN] /\ NoSpuriousDesync'
    BY <1>1, <1>2 DEF Inv, TypeOK, NoSpuriousDesync
<1>10. RemoteTrue'
    <2>1. \A q, r \in Slots : \A s \in remote_rings[q][r] : s \in Sample /\ SampleTrue(r, s)
        BY DEF Inv, TypeOK, RemoteTrue
    <2> QED BY <1>1, <1>3, <2>1, SampleStaysTrue DEF RemoteTrue
<1>11. HistoryTrue'
    <2>1. \A q, r \in Slots : \A e \in peer_history[q][r] : e \in ResolvedRow /\ EntryTrue(e)
        BY DEF Inv, TypeOK, HistoryTrue
    <2> QED BY <1>1, <1>3, <2>1, EntryStaysTrue DEF HistoryTrue
<1>12. \A m \in net' : \/ m \in net
                       \/ m \in bundle
                       \/ \E e \in cached \cup new : m = Confirm(p, e)
    BY <1>1, TransmitMembers
<1>13. \A e \in cached \cup new : e \in ResolvedRow /\ EntryTrue(e)'
    BY <1>2, <1>4
<1> HIDE DEF cached
<1>14. net' \subseteq InputPacket \cup ConfirmPacket
    <2>1. \A e \in cached \cup new : Confirm(p, e) \in ConfirmPacket
        BY <1>13 DEF Confirm, ConfirmPacket
    <2> QED BY <1>12, <1>5, <2>1 DEF Inv, TypeOK
<1>15. NetTrue'
    <2> SUFFICES ASSUME NEW m \in net'
                 PROVE  /\ m.type = "INPUT" => \A s \in m.frames : SampleTrue(m.from, s)'
                        /\ m.type = "INPUT_CONFIRM" => EntryTrue(m.entry)'
        BY DEF NetTrue
    <2>1. CASE m \in net
        <3>1. CASE m \in InputPacket
            BY <2>1, <3>1, <1>3, SampleStaysTrue DEF Inv, NetTrue, InputPacket
        <3>2. CASE m \in ConfirmPacket
            BY <2>1, <3>2, <1>3, EntryStaysTrue DEF Inv, NetTrue, ConfirmPacket
        <3> QED BY <2>1, <3>1, <3>2 DEF Inv, TypeOK
    <2>2. CASE m \in bundle
        BY <2>2, <1>5, <1>3
    <2>3. CASE \E e \in cached \cup new : m = Confirm(p, e)
        BY <2>3, <1>13 DEF Confirm
    <2> QED BY <1>12, <2>1, <2>2, <2>3
<1> QED BY <1>7, <1>8, <1>9, <1>10, <1>11, <1>14, <1>15

\* The clocks after p sampled and, if it admitted, played one row more.
LEMMA ClocksAfterPrepare ==
    ASSUME Inv, NEW p \in Slots, PrepareAdmit(p),
           \A q \in Slots \ {p} : needs_advance'[q] = needs_advance[q] /\ played'[q] = played[q],
           Len(played'[p]) = IF needs_advance'[p] THEN sim_tick[p] + 1 ELSE sim_tick[p]
    PROVE  Clocks'
<1>1. ~needs_advance[p] /\ SampleLocal(p) /\ sim_tick' = sim_tick
    BY DEF PrepareAdmit
<1> SUFFICES ASSUME NEW q \in Slots
             PROVE  /\ Len(played'[q]) = IF needs_advance'[q] THEN sim_tick[q] + 1 ELSE sim_tick[q]
                    /\ Len(sampled'[q]) = IF Has(local_ring'[q], Tip(q)) THEN Tip(q) + 1 ELSE Tip(q)
                    /\ needs_advance'[q] => Has(local_ring'[q], Tip(q))
    BY <1>1 DEF Clocks, Tip
<1>2. CASE q = p
    BY <1>1, <1>2, SampleLocalTrue
<1>3. CASE q # p
    <2>1. local_ring'[q] = local_ring[q] /\ sampled'[q] = sampled[q]
        BY <1>1, <1>3, SampleLocalTrue
    <2> QED BY <2>1, <1>3 DEF Inv, Clocks
<1> QED BY <1>2, <1>3

\* What the games played stays what was sampled.
LEMMA PlayedStaysTrue ==
    ASSUME Inv, SampledGrows, NEW p \in Slots, NEW t \in 1 .. Len(played[p]), NEW q \in Slots
    PROVE  t <= Len(sampled'[q]) /\ played[p][t][q] = sampled'[q][t]
<1>1. t <= Len(sampled[q]) /\ played[p][t][q] = sampled[q][t]
    BY DEF Inv, PlayedTrue
<1>2. /\ Len(sampled[q]) \in Nat /\ Len(sampled'[q]) \in Nat
      /\ t \in Nat /\ t >= 1
    BY LenProperties DEF Inv, TypeOK, SampledGrows
<1>3. t \in 1 .. Len(sampled[q])
    BY <1>1, <1>2
<1> QED BY <1>1, <1>2, <1>3 DEF SampledGrows

LEMMA StallInv ==
    ASSUME Inv, NEW p \in Slots, Stall(p)
    PROVE  Inv'
<1>1. /\ PrepareAdmit(p) /\ UNCHANGED <<needs_advance, played>>
      /\ ~needs_advance[p] /\ SampleLocal(p)
      /\ UNCHANGED <<sim_tick, remote_rings, highest_remote_ack, peer_history>>
    BY DEF Stall, PrepareAdmit
<1>2. SampledGrows /\ LocalTrue'
    BY <1>1, SampleLocalTrue
<1>3. TypeOK'
    <2>1. local_ring' \in [Slots -> SUBSET Sample] /\ sampled' \in [Slots -> Seq(Inputs)]
        BY <1>1, SampleLocalTrue
    <2>2. /\ published' \in [Slots -> SUBSET ResolvedRow]
          /\ input_desync' \in [Slots -> BOOLEAN]
          /\ net' \subseteq InputPacket \cup ConfirmPacket
        BY <1>1, PrepareAdmitKeeps
    <2> QED BY <1>1, <2>1, <2>2 DEF Inv, TypeOK
<1>4. Clocks'
    <2>1. Len(played[p]) = sim_tick[p]
        BY <1>1 DEF Inv, Clocks
    <2> QED BY <1>1, <2>1, ClocksAfterPrepare
<1>5. PlayedTrue'
    BY <1>1, <1>2, PlayedStaysTrue DEF PlayedTrue
<1> QED BY <1>1, <1>2, <1>3, <1>4, <1>5, PrepareAdmitKeeps DEF Inv

\* The row a call admits is, player by player, the one sampled for its tick.
LEMMA AdmittedRow ==
    ASSUME Inv, NEW p \in Slots, Admit(p)
    PROVE  \E row \in Row :
             /\ played' = [played EXCEPT ![p] = Append(played[p], row)]
             /\ Len(played[p]) = sim_tick[p]
             /\ \A q \in Slots : /\ sim_tick[p] + 1 <= Len(sampled'[q])
                                 /\ row[q] = sampled'[q][sim_tick[p] + 1]
<1>1. /\ ~needs_advance[p] /\ SampleLocal(p) /\ UNCHANGED remote_rings
      /\ Resolvable(p, sim_tick[p])
      /\ played' = [played EXCEPT ![p] = Append(played[p], Resolve(p, sim_tick[p]).row)]
    BY DEF Admit, PrepareAdmit, MayAdmit
<1>2. sim_tick[p] \in Nat
    BY DEF Inv, TypeOK
<1>3. PICK e : e = Resolve(p, sim_tick[p])
    OBVIOUS
<1>4. e \in ResolvedRow /\ e.tick = sim_tick[p] /\ EntryTrue(e)'
    BY <1>1, <1>2, <1>3, ResolveTrue
<1>5. e.row \in Row
    BY <1>4 DEF ResolvedRow
<1>6. Len(played[p]) = sim_tick[p]
    BY <1>1 DEF Inv, Clocks
<1>7. \A q \in Slots : Len(sampled'[q]) \in Nat
    BY <1>1, SampleLocalTrue, LenProperties
<1>8. \A q \in Slots : /\ sim_tick[p] + 1 <= Len(sampled'[q])
                       /\ e.row[q] = sampled'[q][sim_tick[p] + 1]
    BY <1>2, <1>4, <1>7 DEF EntryTrue
<1> QED BY <1>1, <1>3, <1>5, <1>6, <1>8

LEMMA AdmitInv ==
    ASSUME Inv, NEW p \in Slots, Admit(p)
    PROVE  Inv'
<1>1. /\ PrepareAdmit(p)
      /\ needs_advance' = [needs_advance EXCEPT ![p] = TRUE]
      /\ ~needs_advance[p] /\ SampleLocal(p)
      /\ UNCHANGED <<sim_tick, remote_rings, highest_remote_ack, peer_history>>
    BY DEF Admit, PrepareAdmit
<1>2. SampledGrows /\ LocalTrue'
    BY <1>1, SampleLocalTrue
<1>3. PICK row \in Row :
         /\ played' = [played EXCEPT ![p] = Append(played[p], row)]
         /\ Len(played[p]) = sim_tick[p]
         /\ \A q \in Slots : /\ sim_tick[p] + 1 <= Len(sampled'[q])
                             /\ row[q] = sampled'[q][sim_tick[p] + 1]
    BY AdmittedRow
<1>4. played \in [Slots -> Seq(Row)] /\ played[p] \in Seq(Row)
    BY DEF Inv, TypeOK
<1>5. /\ played'[p] = Append(played[p], row)
      /\ \A q \in Slots \ {p} : played'[q] = played[q]
    BY <1>3, <1>4
<1>6. /\ played'[p] \in Seq(Row)
      /\ Len(played'[p]) = sim_tick[p] + 1
      /\ played'[p][sim_tick[p] + 1] = row
      /\ \A t \in 1 .. sim_tick[p] : played'[p][t] = played[p][t]
    BY <1>3, <1>4, <1>5, AppendProperties
<1>7. TypeOK'
    <2>1. local_ring' \in [Slots -> SUBSET Sample] /\ sampled' \in [Slots -> Seq(Inputs)]
        BY <1>1, SampleLocalTrue
    <2>2. /\ published' \in [Slots -> SUBSET ResolvedRow]
          /\ input_desync' \in [Slots -> BOOLEAN]
          /\ net' \subseteq InputPacket \cup ConfirmPacket
        BY <1>1, PrepareAdmitKeeps
    <2>3. played' \in [Slots -> Seq(Row)]
        BY <1>3, <1>4, <1>5, <1>6
    <2> QED BY <1>1, <2>1, <2>2, <2>3 DEF Inv, TypeOK
<1>8. Clocks'
    <2>1. needs_advance'[p] /\ \A q \in Slots \ {p} : needs_advance'[q] = needs_advance[q]
        BY <1>1 DEF Inv, TypeOK
    <2> QED BY <1>1, <1>5, <1>6, <2>1, ClocksAfterPrepare
<1>9. PlayedTrue'
    <2> SUFFICES ASSUME NEW q \in Slots, NEW t \in 1 .. Len(played'[q]), NEW r \in Slots
                 PROVE  t <= Len(sampled'[r]) /\ played'[q][t][r] = sampled'[r][t]
        BY DEF PlayedTrue
    <2>1. CASE q # p
        BY <2>1, <1>2, <1>5, PlayedStaysTrue
    <2>2. CASE q = p /\ t \in 1 .. sim_tick[p]
        BY <2>2, <1>2, <1>3, <1>6, PlayedStaysTrue
    <2>3. CASE q = p /\ t = sim_tick[p] + 1
        BY <2>3, <1>3, <1>6
    <2>4. sim_tick[p] \in Nat
        BY DEF Inv, TypeOK
    <2> QED BY <2>1, <2>2, <2>3, <2>4, <1>6
<1> QED BY <1>1, <1>2, <1>7, <1>8, <1>9, PrepareAdmitKeeps DEF Inv

LEMMA StepInv == Inv /\ [Next]_vars => Inv'
<1> SUFFICES ASSUME Inv, [Next]_vars PROVE Inv'
    OBVIOUS
<1>1. CASE UNCHANGED vars
    <2> USE <1>1 DEF vars, sessionVars, historyVars
    <2>1. TypeOK' /\ NoSpuriousDesync' /\ PlayedTrue'
        BY DEF Inv, TypeOK, NoSpuriousDesync, PlayedTrue
    <2>2. Clocks'
        BY DEF Inv, Clocks, Tip
    <2>3. LocalTrue' /\ RemoteTrue' /\ PublishedTrue' /\ HistoryTrue' /\ NetTrue'
        BY DEF Inv, LocalTrue, RemoteTrue, PublishedTrue, HistoryTrue, NetTrue,
               SampleTrue, EntryTrue
    <2> QED BY <2>1, <2>2, <2>3 DEF Inv
<1>2. ASSUME NEW p \in Slots, SendInputBundle(p) PROVE Inv'
    BY <1>2, SendInputBundleInv
<1>3. ASSUME NEW p \in Slots, Receive(p) PROVE Inv'
    BY <1>3, ReceiveInputInv, ReceiveConfirmInv DEF Receive
<1>4. ASSUME NEW p \in Slots, Admit(p) PROVE Inv'
    BY <1>4, AdmitInv
<1>5. ASSUME NEW p \in Slots, Stall(p) PROVE Inv'
    BY <1>5, StallInv
<1>6. ASSUME NEW p \in Slots, Advance(p) PROVE Inv'
    BY <1>6, AdvanceInv
<1> QED BY <1>1, <1>2, <1>3, <1>4, <1>5, <1>6 DEF Next

\* The invariant holds in every reachable state of the pipeline.
THEOREM Invariance == Spec => []Inv
BY InitInv, StepInv, PTL DEF Spec

-----------------------------------------------------------------------------
(* The theorems *)

\* Every variable of the pipeline keeps its type.
THEOREM TypeCorrect == Spec => []TypeOK
<1>1. Inv => TypeOK
    BY DEF Inv
<1> QED BY <1>1, Invariance, PTL

\* Honest peers never raise input_desync, whatever the network makes of their
\* confirmations and however old the rows the rings still hold.
THEOREM DesyncIsNeverSpurious == Spec => []NoSpuriousDesync
<1>1. Inv => NoSpuriousDesync
    BY DEF Inv
<1> QED BY <1>1, Invariance, PTL

\* rnet_session_try_admit never publishes different rows for one tick to two
\* games.
THEOREM GamesAgree == Spec => []Agreement
<1>1. Inv => Agreement
    <2> SUFFICES ASSUME Inv, NEW p \in Slots, NEW q \in Slots,
                        NEW t \in (1 .. Len(played[p])) \cap (1 .. Len(played[q]))
                 PROVE  played[p][t] = played[q][t]
        BY DEF Agreement, Committed!Agreement
    <2>1. played[p][t] \in Row /\ played[q][t] \in Row
        BY ElementOfSeq DEF Inv, TypeOK
    <2>2. \A r \in Slots : played[p][t][r] = played[q][t][r]
        BY DEF Inv, PlayedTrue
    <2> QED BY <2>1, <2>2 DEF Row
<1> QED BY <1>1, Invariance, PTL

\* A peer is never more than another's delay and one tick ahead of it.
THEOREM ClocksStayClose == Spec => []SkewBound
<1>1. Inv => SkewBound
    <2> SUFFICES ASSUME Inv, NEW p \in Slots, NEW q \in Slots
                 PROVE  sim_tick[p] <= sim_tick[q] + InputDelay[q] + 1
        BY DEF SkewBound
    <2>1. sim_tick[p] \in Nat /\ sim_tick[q] \in Nat /\ InputDelay[q] \in Nat
        BY ConfigAssumption DEF Inv, TypeOK
    <2>2. Len(sampled[q]) <= sim_tick[q] + InputDelay[q] + 1
        BY <2>1 DEF Inv, Clocks, Tip
    <2>3. Len(played[p]) >= sim_tick[p] /\ Len(played[p]) \in Nat
        BY <2>1 DEF Inv, Clocks
    <2>4. Len(sampled[q]) \in Nat
        BY LenProperties DEF Inv, TypeOK
    <2>5. CASE Len(played[p]) = 0
        BY <2>1, <2>3, <2>5
    <2>6. CASE Len(played[p]) \in 1 .. Len(played[p])
        <3>1. Len(played[p]) <= Len(sampled[q])
            BY <2>6 DEF Inv, PlayedTrue
        <3> QED BY <3>1, <2>1, <2>2, <2>3, <2>4
    <2> QED BY <2>3, <2>5, <2>6
<1> QED BY <1>1, Invariance, PTL

LEMMA InitRefines == Init => Committed!Init
BY DEF Init, Committed!Init

\* Sampling is a Choose, a retry of it a stutter.
LEMMA SampleIsChoose ==
    ASSUME Inv, NEW p \in Slots, ~needs_advance[p], SampleLocal(p)
    PROVE  Committed!Choose(p) \/ UNCHANGED sampled
<1>1. CASE Has(local_ring[p], Tip(p))
    BY <1>1 DEF SampleLocal
<1>2. CASE ~Has(local_ring[p], Tip(p))
    <2>1. Len(sampled[p]) = Len(played[p]) + InputDelay[p]
        BY <1>2 DEF Inv, Clocks, Tip
    <2> QED BY <1>2, <2>1 DEF SampleLocal, Committed!Choose
<1> QED BY <1>1, <1>2

LEMMA AdmitIsPlay ==
    ASSUME Inv, NEW p \in Slots, Admit(p)
    PROVE  Committed!Play(p)
<1>1. PICK row \in Row :
         /\ played' = [played EXCEPT ![p] = Append(played[p], row)]
         /\ Len(played[p]) = sim_tick[p]
         /\ \A q \in Slots : /\ sim_tick[p] + 1 <= Len(sampled'[q])
                             /\ row[q] = sampled'[q][sim_tick[p] + 1]
    BY AdmittedRow
<1>2. row = [q \in Slots |-> sampled'[q][Len(played[p]) + 1]]
    BY <1>1 DEF Row
<1> QED BY <1>1, <1>2 DEF Committed!Play

LEMMA StepRefines == Inv /\ [Next]_vars => [Committed!Next]_(Committed!vars)
<1> SUFFICES ASSUME Inv, [Next]_vars PROVE [Committed!Next]_(Committed!vars)
    OBVIOUS
<1>1. CASE UNCHANGED vars
    BY <1>1 DEF vars, historyVars, Committed!vars
<1>2. ASSUME NEW p \in Slots, SendInputBundle(p) \/ Receive(p) \/ Advance(p)
      PROVE  UNCHANGED Committed!vars
    BY <1>2 DEF SendInputBundle, Receive, ReceiveInput, ReceiveConfirm, Advance,
                historyVars, Committed!vars
<1>3. ASSUME NEW p \in Slots, Admit(p) PROVE Committed!Step(p)
    <2>1. ~needs_advance[p] /\ SampleLocal(p)
        BY <1>3 DEF Admit, PrepareAdmit
    <2> QED BY <1>3, <2>1, SampleIsChoose, AdmitIsPlay DEF Committed!Step
<1>4. ASSUME NEW p \in Slots, Stall(p) PROVE Committed!Step(p)
    <2>1. ~needs_advance[p] /\ SampleLocal(p) /\ UNCHANGED played
        BY <1>4 DEF Stall, PrepareAdmit
    <2> QED BY <2>1, SampleIsChoose DEF Committed!Step
<1> QED BY <1>1, <1>2, <1>3, <1>4 DEF Next, Committed!Next

\* The pipeline implements Lockstep: whatever the network does, every game is
\* handed, tick by tick, what each player sampled for that tick, and a sample
\* is never taken back.
THEOREM Refinement == Spec => ImplementsLockstep
BY InitRefines, StepRefines, Invariance, PTL DEF Spec, ImplementsLockstep, Committed!Spec

-----------------------------------------------------------------------------
(***************************************************************************)
(* No ring of the pipeline lets go of what another peer still waits for,   *)
(* for every number of peers and every delay and window that RingsSuffice  *)
(* allows.                                                                 *)
(*                                                                         *)
(* The argument: a peer that confirms a tick holds everybody's row of it,  *)
(* and what is stored after that is too close to share its place.  A tick  *)
(* is admitted only once all the others have confirmed it, so they hold    *)
(* the row; and as no clock runs far ahead (SkewBound), the own rows and   *)
(* the published rows that a slow peer asks for are still in their rings.  *)
(***************************************************************************)

\* How far back a poll repeats its confirmations (ConfirmLow).
Trail(p) == Minimum(Maximum(InputDelay[p] + Redundancy + Slack, TrailFloor), HistoryLength \div 2)

\* What the code's constants owe the delays.  With 128 places, a slack of 8 and
\* delays up to 20 the first three hold; the last one holds of equal delays, and
\* of any up to 15.
RingsSuffice == \A p, q \in Slots :
    /\ InputDelay[p] + InputDelay[q] + 1 < HistoryLength
    /\ InputDelay[p] + Redundancy + Slack < HistoryLength
    /\ Trail(p) + InputDelay[p] < HistoryLength
    /\ InputDelay[q] + 1 <= Trail(p)

Confirmed(q, t) == \E m \in net : m.type = "INPUT_CONFIRM" /\ m.from = q /\ m.entry.tick = t

\* A confirmed tick that its peer has not played is in all its rings.
RowsHeld == \A q \in Slots : \A t \in Nat :
    t >= sim_tick[q] /\ Confirmed(q, t) => \A r \in Peers(q) : Has(remote_rings[q][r], t)

\* A confirmed tick of the confirm window is published still.
Kept == \A p \in Slots : \A t \in ConfirmWindow(p) : Confirmed(p, t) => Has(published[p], t)

\* What is published or latched as confirmed was sent,
OnWire == \A p, q \in Slots :
    /\ \A e \in published[p] : Confirmed(p, e.tick)
    /\ \A e \in peer_history[p][q] : Confirmed(q, e.tick)

\* ... nobody confirms beyond its tip,
NotBeyondTip == \A p \in Slots : \A t \in Nat : Confirmed(p, t) => t <= Tip(p)

\* ... and a tick that is played was confirmed by all the others.
PlayedConfirmed == \A p \in Slots : \A q \in Peers(p) : \A t \in Nat :
    t < Len(played[p]) => Confirmed(q, t)

\* A ring holds the last HistoryLength own samples.
LocalHeld == \A p \in Slots : \A t \in Nat :
    t < Len(sampled[p]) /\ Len(sampled[p]) <= t + HistoryLength => Has(local_ring[p], t)

Rings == RowsHeld /\ Kept /\ OnWire /\ NotBeyondTip /\ PlayedConfirmed /\ LocalHeld

RingInv == Inv /\ Rings

-----------------------------------------------------------------------------
(* Ticks and lengths *)

LEMMA ClockBounds ==
    ASSUME Inv, NEW p \in Slots
    PROVE  /\ sim_tick[p] \in Nat /\ InputDelay[p] \in Nat /\ Tip(p) \in Nat
           /\ Tip(p) = sim_tick[p] + InputDelay[p]
           /\ Len(sampled[p]) \in Nat /\ Len(played[p]) \in Nat
           /\ Len(sampled[p]) = Tip(p) \/ Len(sampled[p]) = Tip(p) + 1
           /\ sim_tick[p] <= Len(played[p]) /\ Len(played[p]) <= sim_tick[p] + 1
<1>1. sim_tick[p] \in Nat /\ InputDelay[p] \in Nat /\ Tip(p) \in Nat
    BY ConfigAssumption DEF Inv, TypeOK, Tip
<1>2. Len(sampled[p]) \in Nat /\ Len(played[p]) \in Nat
    BY LenProperties DEF Inv, TypeOK
<1> QED BY <1>1, <1>2 DEF Inv, Clocks, Tip

LEMMA TrailType ==
    ASSUME NEW p \in Slots
    PROVE  Trail(p) \in Nat
<1>1. HistoryLength \div 2 \in Nat
    BY HistoryAssumption
<1> QED BY <1>1, ConfigAssumption DEF Trail, Maximum, Minimum

LEMMA WindowBounds ==
    ASSUME Inv, NEW p \in Slots, NEW t
    PROVE  t \in ConfirmWindow(p) <=>
             t \in Nat /\ t + Trail(p) >= sim_tick[p] /\ t <= Tip(p)
<1>1. sim_tick[p] \in Nat /\ Tip(p) \in Nat /\ Trail(p) \in Nat
    BY ClockBounds, TrailType
<1>2. ConfirmLow(p) = Maximum(sim_tick[p] - Trail(p), 0)
    BY DEF ConfirmLow, Trail
<1> QED BY <1>1, <1>2 DEF ConfirmWindow, Maximum

\* SkewBound, as proved of every reachable state.
LEMMA Skew ==
    ASSUME Inv, NEW p \in Slots, NEW q \in Slots
    PROVE  sim_tick[p] <= sim_tick[q] + InputDelay[q] + 1
<1>1. Len(played[p]) \in Nat /\ Len(sampled[q]) \in Nat
    BY ClockBounds
<1>2. Len(played[p]) <= Len(sampled[q])
    <2>1. CASE Len(played[p]) \in 1 .. Len(played[p])
        BY <2>1 DEF Inv, PlayedTrue
    <2>2. CASE Len(played[p]) = 0
        BY <2>2, <1>1
    <2> QED BY <1>1, <2>1, <2>2
<1>3. sim_tick[p] \in Nat /\ sim_tick[p] <= Len(played[p])
    BY ClockBounds
<1>4. /\ sim_tick[q] \in Nat /\ InputDelay[q] \in Nat
      /\ Len(sampled[q]) <= sim_tick[q] + InputDelay[q] + 1
    <2>1. /\ sim_tick[q] \in Nat /\ InputDelay[q] \in Nat /\ Tip(q) \in Nat
          /\ Tip(q) = sim_tick[q] + InputDelay[q] /\ Len(sampled[q]) \in Nat
          /\ Len(sampled[q]) = Tip(q) \/ Len(sampled[q]) = Tip(q) + 1
        BY ClockBounds
    <2> QED BY <2>1
<1> QED BY <1>1, <1>2, <1>3, <1>4

\* Storing what is close to a tick, but not of it, leaves the tick alone.
LEMMA StoreKeepsNear ==
    ASSUME NEW ring, NEW entries, NEW t \in Nat, Has(ring, t),
           \A s \in entries : /\ s.tick \in Nat
                              /\ s.tick < t + HistoryLength /\ t < s.tick + HistoryLength
    PROVE  Has(Store(ring, entries), t)
<1>1. PICK e \in ring : e.tick = t
    BY DEF Has
<1>2. CASE \E s \in entries : s.tick = t
    BY <1>2 DEF Store, Has
<1>3. CASE ~\E s \in entries : s.tick = t
    <2>1. ASSUME NEW s \in entries PROVE ~SamePlace(t, s.tick)
        <3>1. s.tick \in Nat /\ s.tick # t /\ HistoryLength \in Nat
            BY <1>3, <2>1, HistoryAssumption
        <3>2. CASE s.tick < t
            <4>1. ~SamePlace(s.tick, t)
                BY <3>1, <3>2, <2>1, NearTicksApart
            <4> QED BY <4>1 DEF SamePlace
        <3>3. CASE t < s.tick
            BY <3>1, <3>3, <2>1, NearTicksApart
        <3> QED BY <3>1, <3>2, <3>3
    <2> QED BY <1>1, <2>1 DEF Store, Has
<1> QED BY <1>2, <1>3

-----------------------------------------------------------------------------
(* Initially *)

LEMMA RingsInit == Init => Rings
<1> SUFFICES ASSUME Init PROVE Rings
    OBVIOUS
<1>0. Inv
    BY InitInv
<1>1. \A q \in Slots, t \in Nat : ~Confirmed(q, t)
    BY DEF Init, Confirmed, Bundle
<1>2. RowsHeld /\ NotBeyondTip
    BY <1>1 DEF RowsHeld, NotBeyondTip
<1>3. Kept
    BY <1>0, <1>1, WindowBounds DEF Kept
<1>4. OnWire /\ PlayedConfirmed
    <2>1. \A p, q \in Slots : published[p] = {} /\ peer_history[p][q] = {} /\ played[p] = << >>
        BY DEF Init
    <2> QED BY <2>1 DEF OnWire, PlayedConfirmed
<1>5. LocalHeld
    <2> SUFFICES ASSUME NEW p \in Slots, NEW t \in Nat, t < Len(sampled[p])
                 PROVE  Has(local_ring[p], t)
        BY DEF LocalHeld
    <2>1. Len(sampled[p]) = InputDelay[p] /\ InputDelay[p] \in Nat
        BY PrefixTrue, ConfigAssumption
    <2>2. [tick |-> t, val |-> Neutral] \in local_ring[p]
        BY <2>1 DEF Init, Prefix
    <2> QED BY <2>2 DEF Has
<1> QED BY <1>2, <1>3, <1>4, <1>5 DEF Rings

-----------------------------------------------------------------------------
(* Each operation *)

\* Transmit takes back no confirmation, and a bundle holds none.
LEMMA BundleConfirmsNothing ==
    ASSUME NEW p \in Slots, NEW ring, net' = Transmit(Bundle(p, ring)), NEW q, NEW t
    PROVE  Confirmed(q, t)' <=> Confirmed(q, t)
BY DEF Confirmed, Transmit, Bundle

LEMMA SendInputBundleRings ==
    ASSUME RingInv, NEW p \in Slots, SendInputBundle(p)
    PROVE  Rings'
<1>1. \A q, t : Confirmed(q, t)' <=> Confirmed(q, t)
    BY BundleConfirmsNothing DEF SendInputBundle
<1>2. UNCHANGED <<sim_tick, needs_advance, local_ring, remote_rings, published, peer_history,
                  sampled, played>>
    BY DEF SendInputBundle, sessionVars, historyVars
<1> QED BY <1>1, <1>2 DEF RingInv, Rings, RowsHeld, Kept, OnWire, NotBeyondTip,
        PlayedConfirmed, LocalHeld, ConfirmWindow, ConfirmLow, Tip, Has

\* A row that gets in is of a tick too near to what is still to be played.
LEMMA ReceiveInputRings ==
    ASSUME RingsSuffice, RingInv, NEW p \in Slots, NEW m \in net, ReceiveInput(p, m)
    PROVE  Rings'
<1> DEFINE from  == m.from
           ring  == remote_rings[p][from]
           fresh == {s \in m.frames : InLiveWindow(p, from, s.tick) /\ ~Has(ring, s.tick)}
<1>1. UNCHANGED <<sim_tick, needs_advance, local_ring, published, peer_history, net,
                  sampled, played>>
    BY DEF ReceiveInput, historyVars
<1>2. m.type = "INPUT" /\ m \in InputPacket /\ from \in Slots /\ m.frames \subseteq Sample
    BY DEF ReceiveInput, RingInv, Inv, TypeOK, InputPacket, ConfirmPacket
<1>3. \A q, r \in Slots : remote_rings'[q][r] =
          IF q = p /\ r = from THEN Store(ring, fresh) ELSE remote_rings[q][r]
    BY <1>2 DEF ReceiveInput, RingInv, Inv, TypeOK
<1>4. \A q, t : Confirmed(q, t)' <=> Confirmed(q, t)
    BY <1>1 DEF Confirmed
<1>5. \A s \in fresh : s \in Sample /\ s.tick \in Nat /\ s.tick < Len(sampled[from])
    BY <1>2 DEF RingInv, Inv, NetTrue, SampleTrue, Sample
<1>6. ASSUME NEW t \in Nat, t >= sim_tick[p], Confirmed(p, t), Has(ring, t)
      PROVE  Has(Store(ring, fresh), t)
    <2>1. t <= Tip(p)
        BY <1>6 DEF RingInv, Rings, NotBeyondTip
    <2>2. ASSUME NEW s \in fresh
          PROVE  s.tick < t + HistoryLength
        <3>1. s.tick \in Nat /\ s.tick < Len(sampled[from])
            BY <1>5
        <3>2. /\ sim_tick[from] \in Nat /\ InputDelay[from] \in Nat /\ Tip(from) \in Nat
              /\ Tip(from) = sim_tick[from] + InputDelay[from] /\ Len(sampled[from]) \in Nat
              /\ Len(sampled[from]) = Tip(from) \/ Len(sampled[from]) = Tip(from) + 1
            BY <1>2, ClockBounds DEF RingInv
        <3>3. sim_tick[from] <= sim_tick[p] + InputDelay[p] + 1
            BY <1>2, Skew DEF RingInv
        <3>4. sim_tick[p] \in Nat /\ InputDelay[p] \in Nat
            BY ClockBounds DEF RingInv
        <3>5. InputDelay[p] + InputDelay[from] + 1 < HistoryLength
            BY <1>2 DEF RingsSuffice
        <3>6. HistoryLength \in Nat
            BY HistoryAssumption
        <3> HIDE DEF fresh, from
        <3>7. Len(sampled[from]) <= sim_tick[from] + InputDelay[from] + 1
            BY <3>2
        <3>8. s.tick <= sim_tick[p] + InputDelay[p] + InputDelay[from] + 1
            BY <3>1, <3>2, <3>3, <3>4, <3>7, SMTT(40)
        <3>9. sim_tick[p] <= t
            BY <1>6, <3>4
        <3> QED BY <3>1, <3>2, <3>4, <3>5, <3>6, <3>8, <3>9, SMTT(40)
    <2>3. ASSUME NEW s \in fresh
          PROVE  t < s.tick + HistoryLength
        <3>1. s.tick \in Nat /\ InLiveWindow(p, from, s.tick)
            BY <1>5
        <3>2. /\ sim_tick[p] \in Nat /\ InputDelay[p] \in Nat
              /\ Tip(p) = sim_tick[p] + InputDelay[p] /\ Tip(p) \in Nat
            BY ClockBounds DEF RingInv
        <3>3. Redundancy \in Nat /\ Slack \in Nat /\ HistoryLength \in Nat
              /\ InputDelay[p] + Redundancy + Slack < HistoryLength
            BY ConfigAssumption, HistoryAssumption DEF RingsSuffice
        <3>4. CASE s.tick >= sim_tick[p] - (Redundancy + Slack)
            BY <2>1, <3>1, <3>2, <3>3, <3>4
        <3>5. CASE s.tick > HighestValid(ring)
            <4>1. Len(sampled[from]) \in Nat
                BY <1>2, ClockBounds DEF RingInv
            <4>2. \A e \in ring : e.tick \in Nat /\ e.tick <= Len(sampled[from])
                BY <4>1, <1>2 DEF RingInv, Inv, TypeOK, RemoteTrue, SampleTrue, Sample
            <4>3. HighestValid(ring) \in Nat /\ \A e \in ring : e.tick <= HighestValid(ring)
                <5> HIDE DEF ring
                <5> QED BY <4>1, <4>2, HighestValidIsTick
            <4>4. t <= HighestValid(ring)
                BY <1>6, <4>3 DEF Has
            <4> QED BY <3>1, <3>3, <3>5, <4>3, <4>4
        <3> QED BY <3>1, <3>4, <3>5 DEF InLiveWindow
    <2> HIDE DEF ring, fresh
    <2> QED BY <1>6, <1>5, <2>2, <2>3, StoreKeepsNear
<1> HIDE DEF ring, fresh, from
<1>7. RowsHeld'
    <2> SUFFICES ASSUME NEW q \in Slots, NEW t \in Nat, t >= sim_tick[q], Confirmed(q, t),
                        NEW r \in Peers(q)
                 PROVE  Has(remote_rings'[q][r], t)
        BY <1>1, <1>4 DEF RowsHeld, Has
    <2>1. r \in Slots /\ Has(remote_rings[q][r], t)
        BY DEF RingInv, Rings, RowsHeld, Peers
    <2> QED BY <2>1, <1>3, <1>6 DEF ring
<1>8. Kept' /\ OnWire' /\ NotBeyondTip' /\ PlayedConfirmed' /\ LocalHeld'
    BY <1>1, <1>4 DEF RingInv, Rings, Kept, OnWire, NotBeyondTip,
       PlayedConfirmed, LocalHeld, ConfirmWindow, ConfirmLow, Tip, Has
<1> QED BY <1>7, <1>8 DEF Rings

LEMMA ReceiveConfirmRings ==
    ASSUME RingInv, NEW p \in Slots, NEW m \in net, ReceiveConfirm(p, m)
    PROVE  Rings'
<1>1. UNCHANGED <<sim_tick, needs_advance, local_ring, remote_rings, published, net,
                  sampled, played>>
    BY DEF ReceiveConfirm, historyVars
<1>2. m.type = "INPUT_CONFIRM" /\ m.from \in Slots
    BY DEF ReceiveConfirm, RingInv, Inv, TypeOK, InputPacket, ConfirmPacket
<1>3. \A q, t : Confirmed(q, t)' <=> Confirmed(q, t)
    BY <1>1 DEF Confirmed
<1>4. \A q, r \in Slots : peer_history'[q][r] =
          IF q = p /\ r = m.from THEN Store(peer_history[q][r], {m.entry}) ELSE peer_history[q][r]
    BY <1>2 DEF ReceiveConfirm, RingInv, Inv, TypeOK
<1>5. OnWire'
    <2>1. Confirmed(m.from, m.entry.tick)
        BY <1>2 DEF Confirmed
    <2>2. ASSUME NEW q \in Slots, NEW r \in Slots, NEW e \in peer_history'[q][r]
          PROVE  Confirmed(r, e.tick)
        <3>1. e \in peer_history[q][r] \/ (r = m.from /\ e = m.entry)
            BY <1>4, StoreMembers
        <3> QED BY <2>1, <3>1 DEF RingInv, Rings, OnWire
    <2> QED BY <1>1, <1>3, <2>2 DEF RingInv, Rings, OnWire
<1>6. RowsHeld' /\ Kept' /\ NotBeyondTip' /\ PlayedConfirmed' /\ LocalHeld'
    BY <1>1, <1>3 DEF RingInv, Rings, RowsHeld, Kept, NotBeyondTip,
       PlayedConfirmed, LocalHeld, ConfirmWindow, ConfirmLow, Tip, Has
<1> QED BY <1>5, <1>6 DEF Rings

\* The clock moves on, and the windows with it; nothing is confirmed that far.
LEMMA AdvanceRings ==
    ASSUME RingInv, NEW p \in Slots, Advance(p)
    PROVE  Rings'
<1>1. UNCHANGED <<local_ring, remote_rings, published, peer_history, net, sampled, played>>
    BY DEF Advance, sessionVars, historyVars
<1>2. \A q, t : Confirmed(q, t)' <=> Confirmed(q, t)
    BY <1>1 DEF Confirmed
<1>3. /\ \A q \in Slots : sim_tick[q] \in Nat /\ InputDelay[q] \in Nat
      /\ \A q \in Slots : sim_tick[q] <= sim_tick'[q] /\ sim_tick'[q] \in Nat
    <2>1. \A q \in Slots : sim_tick[q] \in Nat /\ InputDelay[q] \in Nat
        BY ClockBounds DEF RingInv
    <2>2. sim_tick' = [sim_tick EXCEPT ![p] = sim_tick[p] + 1] /\ sim_tick \in [Slots -> Nat]
        BY DEF RingInv, Inv, TypeOK, Advance
    <2> QED BY <2>1, <2>2
<1>4. \A q \in Slots : Tip(q) <= Tip(q)'
    BY <1>3 DEF Tip
<1>5. RowsHeld'
    BY <1>1, <1>2, <1>3 DEF RingInv, Rings, RowsHeld, Has
<1>6. NotBeyondTip'
    <2> SUFFICES ASSUME NEW q \in Slots, NEW t \in Nat, Confirmed(q, t)
                 PROVE  t <= Tip(q)'
        BY <1>2 DEF NotBeyondTip
    <2>1. t <= Tip(q)
        BY DEF RingInv, Rings, NotBeyondTip
    <2>2. Tip(q) \in Nat /\ Tip(q)' \in Nat
        BY <1>3 DEF Tip
    <2> QED BY <2>1, <2>2, <1>4
<1>7. Kept'
    <2> SUFFICES ASSUME NEW q \in Slots, NEW t \in ConfirmWindow(q)', Confirmed(q, t)
                 PROVE  Has(published[q], t)
        BY <1>1, <1>2 DEF Kept, Has
    <2>1. Inv'
        BY AdvanceInv DEF RingInv
    <2>2. t \in Nat /\ t + Trail(q) >= sim_tick'[q]
        <3>1. \A x : x \in ConfirmWindow(q)' =>
                 x \in Nat /\ x + Trail(q) >= sim_tick'[q]
            <4>1. sim_tick'[q] \in Nat /\ Tip(q)' \in Nat /\ Trail(q) \in Nat
                BY <1>3, TrailType DEF Tip
            <4>2. ConfirmLow(q)' = Maximum(sim_tick'[q] - Trail(q), 0)
                BY DEF ConfirmLow, Trail
            <4> QED BY <4>1, <4>2 DEF ConfirmWindow, Maximum
        <3> QED BY <3>1
    <2>3. t <= Tip(q)
        BY <2>2 DEF RingInv, Rings, NotBeyondTip
    <2>4. t + Trail(q) >= sim_tick[q]
        BY <2>2, <1>3, TrailType
    <2>5. t \in ConfirmWindow(q)
        BY <2>2, <2>3, <2>4, WindowBounds DEF RingInv
    <2> QED BY <2>5 DEF RingInv, Rings, Kept
<1>8. OnWire' /\ PlayedConfirmed' /\ LocalHeld'
    BY <1>1, <1>2 DEF RingInv, Rings, OnWire, PlayedConfirmed, LocalHeld, Has
<1> QED BY <1>5, <1>6, <1>7, <1>8 DEF Rings

\* The new own sample takes the place of one HistoryLength back.
LEMMA SampleLocalHeld ==
    ASSUME RingInv, NEW p \in Slots, ~needs_advance[p], SampleLocal(p)
    PROVE  LocalHeld'
<1>1. /\ Tip(p) \in Nat /\ Len(sampled[p]) \in Nat
      /\ Len(sampled[p]) = IF Has(local_ring[p], Tip(p)) THEN Tip(p) + 1 ELSE Tip(p)
    BY ClockBounds DEF RingInv, Inv, Clocks
<1>2. /\ \A q \in Slots \ {p} : local_ring'[q] = local_ring[q] /\ sampled'[q] = sampled[q]
      /\ Has(local_ring'[p], Tip(p)) /\ Len(sampled'[p]) = Tip(p) + 1
    BY SampleLocalTrue DEF RingInv
<1>3. CASE Has(local_ring[p], Tip(p))
    BY <1>3 DEF SampleLocal, RingInv, Rings, LocalHeld, Has
<1>4. CASE ~Has(local_ring[p], Tip(p))
    <2>1. PICK input \in Inputs :
            local_ring' = [local_ring EXCEPT
                ![p] = Store(local_ring[p], {[tick |-> Tip(p), val |-> input]})]
        BY <1>4 DEF SampleLocal
    <2>2. local_ring'[p] = Store(local_ring[p], {[tick |-> Tip(p), val |-> input]})
        BY <2>1 DEF RingInv, Inv, TypeOK
    <2>3. ASSUME NEW t \in Nat, t < Tip(p) + 1, Tip(p) + 1 <= t + HistoryLength
          PROVE  Has(local_ring'[p], t)
        <3>1. CASE t = Tip(p)
            BY <3>1, <1>2
        <3>2. CASE t # Tip(p)
            <4>1. HistoryLength \in Nat
                BY HistoryAssumption
            <4>2. t < Len(sampled[p]) /\ Len(sampled[p]) <= t + HistoryLength
                BY <1>1, <1>4, <2>3, <3>2, <4>1
            <4>3. Has(local_ring[p], t)
                BY <4>2 DEF RingInv, Rings, LocalHeld
            <4>4. Tip(p) < t + HistoryLength /\ t < Tip(p) + HistoryLength
                BY <1>1, <2>3, <3>2, <4>1
            <4> QED BY <1>1, <2>2, <4>3, <4>4, StoreKeepsNear
        <3> QED BY <3>1, <3>2
    <2>4. ASSUME NEW q \in Slots, NEW t \in Nat, t < Len(sampled'[q]),
                 Len(sampled'[q]) <= t + HistoryLength
          PROVE  Has(local_ring'[q], t)
        <3>1. CASE q = p
            BY <3>1, <1>2, <2>3, <2>4
        <3>2. CASE q # p
            BY <3>2, <1>2, <2>4 DEF RingInv, Rings, LocalHeld
        <3> QED BY <3>1, <3>2
    <2> QED BY <2>4 DEF LocalHeld, Has
<1> QED BY <1>3, <1>4

\* What a call of try_admit resolves it holds all rows of, says, and publishes.
LEMMA PrepareAdmitRings ==
    ASSUME RingsSuffice, RingInv, NEW p \in Slots, PrepareAdmit(p)
    PROVE  RowsHeld' /\ Kept' /\ OnWire' /\ NotBeyondTip' /\ LocalHeld'
           /\ \A q, t : Confirmed(q, t) => Confirmed(q, t)'
<1> DEFINE new    == NewlyResolved(p)
           cached == {e \in published[p] : e.tick \in ConfirmWindow(p)}
<1>1. /\ ~needs_advance[p] /\ SampleLocal(p)
      /\ published' = [published EXCEPT ![p] = Store(published[p], new)]
      /\ net' = Transmit(Bundle(p, local_ring'[p]) \cup {Confirm(p, e) : e \in cached \cup new})
      /\ UNCHANGED <<sim_tick, remote_rings, peer_history>>
    BY NewlyResolvedTrue DEF PrepareAdmit, RingInv
<1>2. \A e \in new : /\ e.tick \in ConfirmWindow(p)
                     /\ \A q \in Peers(p) : Has(remote_rings[p][q], e.tick)
    BY DEF NewlyResolved, Resolvable, Resolve
<1>3. \A e \in cached : Confirmed(p, e.tick)
    BY DEF RingInv, Rings, OnWire
<1>4. \A q, t : Confirmed(q, t) => Confirmed(q, t)'
    BY <1>1 DEF Confirmed, Transmit
<1>5. \A e \in new : Confirmed(p, e.tick)'
    <2> TAKE e \in new
    <2>1. Confirm(p, e) \in net'
        BY <1>1 DEF Transmit
    <2> QED BY <2>1 DEF Confirmed, Confirm
<1>6. ASSUME NEW q, NEW t, Confirmed(q, t)'
      PROVE  Confirmed(q, t) \/ (q = p /\ \E e \in new : e.tick = t)
    <2>1. PICK m \in net' : m.type = "INPUT_CONFIRM" /\ m.from = q /\ m.entry.tick = t
        BY <1>6 DEF Confirmed
    <2>2. m \in net \/ m \in Bundle(p, local_ring'[p]) \/ \E e \in cached \cup new : m = Confirm(p, e)
        BY <1>1, TransmitMembers
    <2>3. m \notin Bundle(p, local_ring'[p])
        BY <2>1 DEF Bundle
    <2>4. CASE m \in net
        BY <2>1, <2>4 DEF Confirmed
    <2>5. CASE \E e \in cached \cup new : m = Confirm(p, e)
        <3>1. PICK e \in cached \cup new : m = Confirm(p, e)
            BY <2>5
        <3>2. q = p /\ t = e.tick
            BY <2>1, <3>1 DEF Confirm
        <3> QED BY <3>1, <3>2, <1>3
    <2> QED BY <2>2, <2>3, <2>4, <2>5
<1>7. \A q \in Slots : published'[q] = IF q = p THEN Store(published[p], new) ELSE published[q]
    BY <1>1 DEF RingInv, Inv, TypeOK
<1> HIDE DEF new, cached
<1>8. RowsHeld'
    <2> SUFFICES ASSUME NEW q \in Slots, NEW t \in Nat, t >= sim_tick[q], Confirmed(q, t)',
                        NEW r \in Peers(q)
                 PROVE  Has(remote_rings[q][r], t)
        BY <1>1 DEF RowsHeld, Has
    <2>1. CASE Confirmed(q, t)
        BY <2>1 DEF RingInv, Rings, RowsHeld
    <2>2. CASE q = p /\ \E e \in new : e.tick = t
        BY <2>2, <1>2
    <2> QED BY <1>6, <2>1, <2>2
<1>9. NotBeyondTip'
    <2> SUFFICES ASSUME NEW q \in Slots, NEW t \in Nat, Confirmed(q, t)'
                 PROVE  t <= Tip(q)
        BY <1>1 DEF NotBeyondTip, Tip
    <2>1. CASE Confirmed(q, t)
        BY <2>1 DEF RingInv, Rings, NotBeyondTip
    <2>2. CASE q = p /\ \E e \in new : e.tick = t
        BY <2>2, <1>2, WindowBounds DEF RingInv
    <2> QED BY <1>6, <2>1, <2>2
<1>10. OnWire'
    <2>1. ASSUME NEW q \in Slots, NEW e \in published'[q] PROVE Confirmed(q, e.tick)'
        <3>1. e \in published[q] \/ (q = p /\ e \in new)
            BY <1>7, StoreMembers
        <3> QED BY <3>1, <1>4, <1>5 DEF RingInv, Rings, OnWire
    <2> QED BY <1>1, <1>4, <2>1 DEF RingInv, Rings, OnWire
<1>11. Kept'
    <2> SUFFICES ASSUME NEW q \in Slots, NEW t \in ConfirmWindow(q), Confirmed(q, t)'
                 PROVE  Has(published'[q], t)
        BY <1>1 DEF Kept, ConfirmWindow, ConfirmLow, Tip, Has
    <2>1. CASE q = p /\ \E e \in new : e.tick = t
        BY <2>1, <1>7, StoreMembers DEF Has
    <2>2. CASE Confirmed(q, t)
        <3>1. Has(published[q], t)
            BY <2>2 DEF RingInv, Rings, Kept
        <3>2. CASE q # p
            BY <3>1, <3>2, <1>7
        <3>3. CASE q = p
            <4>1. /\ t \in Nat /\ t + Trail(p) >= sim_tick[p] /\ t <= Tip(p)
                  /\ \A e \in new : e.tick \in Nat /\ e.tick + Trail(p) >= sim_tick[p] /\ e.tick <= Tip(p)
                BY <3>3, <1>2, WindowBounds DEF RingInv
            <4>2. /\ sim_tick[p] \in Nat /\ InputDelay[p] \in Nat /\ Trail(p) \in Nat
                  /\ Tip(p) = sim_tick[p] + InputDelay[p] /\ HistoryLength \in Nat
                  /\ Trail(p) + InputDelay[p] < HistoryLength
                BY ClockBounds, TrailType, HistoryAssumption DEF RingInv, RingsSuffice
            <4>3. \A e \in new : /\ e.tick \in Nat
                                 /\ e.tick < t + HistoryLength /\ t < e.tick + HistoryLength
                BY <4>1, <4>2
            <4> QED BY <3>1, <3>3, <4>1, <4>3, <1>7, StoreKeepsNear
        <3> QED BY <3>2, <3>3
    <2> QED BY <1>6, <2>1, <2>2
<1>12. LocalHeld'
    BY <1>1, SampleLocalHeld
<1> QED BY <1>4, <1>8, <1>9, <1>10, <1>11, <1>12

LEMMA StallRings ==
    ASSUME RingsSuffice, RingInv, NEW p \in Slots, Stall(p)
    PROVE  Rings'
<1>1. PrepareAdmit(p) /\ UNCHANGED played
    BY DEF Stall
<1>2. RowsHeld' /\ Kept' /\ OnWire' /\ NotBeyondTip' /\ LocalHeld'
      /\ \A q, t : Confirmed(q, t) => Confirmed(q, t)'
    BY <1>1, PrepareAdmitRings
<1>3. PlayedConfirmed'
    BY <1>1, <1>2 DEF RingInv, Rings, PlayedConfirmed
<1> QED BY <1>2, <1>3 DEF Rings

\* The tick admitted is confirmed by all the others.
LEMMA AdmitRings ==
    ASSUME RingsSuffice, RingInv, NEW p \in Slots, Admit(p)
    PROVE  Rings'
<1>1. PrepareAdmit(p) /\ MayAdmit(p)
    BY DEF Admit
<1>2. RowsHeld' /\ Kept' /\ OnWire' /\ NotBeyondTip' /\ LocalHeld'
      /\ \A q, t : Confirmed(q, t) => Confirmed(q, t)'
    BY <1>1, PrepareAdmitRings
<1>3. \A q \in Peers(p) : Confirmed(q, sim_tick[p])
    <2> TAKE q \in Peers(p)
    <2>1. Resolve(p, sim_tick[p]) \in peer_history[p][q] /\ Resolve(p, sim_tick[p]).tick = sim_tick[p]
        BY <1>1 DEF MayAdmit, ConfirmationsAgree, Resolve
    <2> QED BY <2>1 DEF RingInv, Rings, OnWire, Peers
<1>4. PICK row \in Row :
         /\ played' = [played EXCEPT ![p] = Append(played[p], row)]
         /\ Len(played[p]) = sim_tick[p]
    BY AdmittedRow DEF RingInv
<1>5. /\ Len(played'[p]) = sim_tick[p] + 1
      /\ \A q \in Slots \ {p} : played'[q] = played[q]
    <2>1. played[p] \in Seq(Row) /\ played \in [Slots -> Seq(Row)]
        BY DEF RingInv, Inv, TypeOK
    <2> QED BY <1>4, <2>1, AppendProperties
<1>6. PlayedConfirmed'
    <2> SUFFICES ASSUME NEW r \in Slots, NEW q \in Peers(r), NEW t \in Nat, t < Len(played'[r])
                 PROVE  Confirmed(q, t)
        BY <1>2 DEF PlayedConfirmed
    <2>1. CASE r = p /\ t = sim_tick[p]
        BY <2>1, <1>3
    <2>2. CASE ~(r = p /\ t = sim_tick[p])
        <3>1. sim_tick[p] \in Nat
            BY ClockBounds DEF RingInv
        <3>2. t < Len(played[r])
            BY <1>4, <1>5, <2>2, <3>1
        <3> QED BY <3>2 DEF RingInv, Rings, PlayedConfirmed
    <2> QED BY <2>1, <2>2
<1> QED BY <1>2, <1>6 DEF Rings

LEMMA RingStep ==
    ASSUME RingsSuffice, RingInv, [Next]_vars
    PROVE  RingInv'
<1>1. Inv'
    BY StepInv DEF RingInv
<1>2. CASE UNCHANGED vars
    <2>1. UNCHANGED <<sim_tick, local_ring, remote_rings, published, peer_history, net, sampled, played>>
        BY <1>2 DEF vars, sessionVars, historyVars
    <2>2. \A q, t : Confirmed(q, t)' <=> Confirmed(q, t)
        BY <2>1 DEF Confirmed
    <2>3. RowsHeld' /\ OnWire' /\ NotBeyondTip' /\ PlayedConfirmed' /\ LocalHeld'
        BY <2>1, <2>2 DEF RingInv, Rings, RowsHeld, OnWire, NotBeyondTip, PlayedConfirmed,
           LocalHeld, Tip, Has
    <2>4. Kept'
        BY <2>1, <2>2 DEF RingInv, Rings, Kept, ConfirmWindow, ConfirmLow, Tip, Has
    <2> QED BY <2>3, <2>4, <1>1 DEF RingInv, Rings
<1>3. CASE Next
    <2>1. PICK p \in Slots :
            SendInputBundle(p) \/ Receive(p) \/ Admit(p) \/ Stall(p) \/ Advance(p)
        BY <1>3 DEF Next
    <2>2. CASE SendInputBundle(p)
        BY <2>2, <1>1, SendInputBundleRings DEF RingInv
    <2>3. CASE Receive(p)
        <3>1. PICK m \in net : ReceiveInput(p, m) \/ ReceiveConfirm(p, m)
            BY <2>3 DEF Receive
        <3>2. Rings'
            BY <3>1, ReceiveInputRings, ReceiveConfirmRings
        <3> QED BY <1>1, <3>2 DEF RingInv
    <2>4. CASE Admit(p)
        BY <2>4, <1>1, AdmitRings DEF RingInv
    <2>5. CASE Stall(p)
        BY <2>5, <1>1, StallRings DEF RingInv
    <2>6. CASE Advance(p)
        BY <2>6, <1>1, AdvanceRings DEF RingInv
    <2> QED BY <2>1, <2>2, <2>3, <2>4, <2>5, <2>6
<1> QED BY <1>2, <1>3

\* No ring lets go of what another peer may still ask for (rnet_ring.c as
\* rnet_session.c fills it).
THEOREM RingInvariance ==
    ASSUME RingsSuffice
    PROVE  Spec => []RingInv
<1>1. Init => RingInv
    BY InitInv, RingsInit DEF RingInv
<1>2. RingInv /\ [Next]_vars => RingInv'
    BY RingStep
<1> QED BY <1>1, <1>2, PTL DEF Spec

-----------------------------------------------------------------------------
(* The theorems *)

LEMMA AdmittedAreHeld == RingInv => AdmittedRowsHeld
<1> SUFFICES ASSUME RingInv, NEW p \in Slots, NEW q \in Peers(p),
                    NEW t \in sim_tick[q] .. Len(played[p]) - 1
             PROVE  Has(remote_rings[q][p], t)
    BY DEF AdmittedRowsHeld
<1>1. q \in Slots /\ p \in Peers(q)
    BY DEF Peers
<1>2. sim_tick[q] \in Nat /\ Len(played[p]) \in Nat
    BY <1>1, ClockBounds DEF RingInv
<1>3. t \in Nat /\ t >= sim_tick[q] /\ t < Len(played[p])
    BY <1>2
<1>4. Confirmed(q, t)
    BY <1>3 DEF RingInv, Rings, PlayedConfirmed
<1> QED BY <1>1, <1>3, <1>4 DEF RingInv, Rings, RowsHeld

\* A row of a tick its owner has admitted stays in the ring of every peer that
\* still has to play it, for all delays, windows and rings that suffice.
THEOREM AdmittedRowsStay ==
    ASSUME RingsSuffice
    PROVE  Spec => []AdmittedRowsHeld
BY RingInvariance, AdmittedAreHeld, PTL

\* A peer that waits for a row is sent it again on every pump, and takes it.
THEOREM WaiterGetsRow ==
    ASSUME RingsSuffice
    PROVE  Spec => []WaiterIsSentRow
<1>1. ASSUME RingInv PROVE WaiterIsSentRow
    <2> SUFFICES ASSUME NEW p \in Slots, NEW q \in Peers(p),
                        sim_tick[q] < Len(sampled[p]), ~Has(remote_rings[q][p], sim_tick[q])
                 PROVE  /\ sim_tick[q] \in BundleLow(p) .. Tip(p)
                        /\ Has(local_ring[p], sim_tick[q])
                        /\ InLiveWindow(q, p, sim_tick[q])
        BY DEF WaiterIsSentRow
    <2>0. q \in Slots
        BY DEF Peers
    <2>1. /\ sim_tick[p] \in Nat /\ InputDelay[p] \in Nat /\ Tip(p) \in Nat
          /\ Tip(p) = sim_tick[p] + InputDelay[p] /\ Len(sampled[p]) \in Nat
          /\ Len(sampled[p]) = Tip(p) \/ Len(sampled[p]) = Tip(p) + 1
          /\ Len(played[p]) \in Nat /\ sim_tick[p] <= Len(played[p])
        BY <1>1, ClockBounds DEF RingInv
    <2>2. sim_tick[q] \in Nat /\ InputDelay[q] \in Nat /\ Tip(q) = sim_tick[q] + InputDelay[q]
        BY <1>1, <2>0, ClockBounds DEF RingInv
    <2>3. sim_tick[p] <= sim_tick[q]
        <3> SUFFICES ASSUME sim_tick[q] < sim_tick[p] PROVE FALSE
            BY <2>1, <2>2
        <3>1. sim_tick[q] \in sim_tick[q] .. Len(played[p]) - 1
            BY <2>1, <2>2
        <3>2. AdmittedRowsHeld
            BY <1>1, AdmittedAreHeld
        <3> QED BY <3>1, <3>2 DEF AdmittedRowsHeld
    <2>4. /\ {Redundancy, Slack, MaxBack, Ancient} \subseteq Nat
          /\ HistoryLength \in Nat /\ InputDelay[p] + InputDelay[q] + 1 < HistoryLength
        BY <2>0, <1>1, ConfigAssumption, HistoryAssumption, RingsSuffice DEF RingsSuffice
    <2>5. BundleLow(p) \in Int /\ BundleLow(p) <= sim_tick[p]
        <3> DEFINE red     == Maximum(Maximum(Redundancy, 1), InputDelay[p] + 1)
                   low     == Maximum(Tip(p) + 1 - red, 0)
                   unacked == highest_remote_ack[p] + 1
                   ack_low == IF Tip(p) + 1 > MaxBack /\ unacked + MaxBack <= Tip(p)
                              THEN Tip(p) + 1 - MaxBack ELSE unacked
        <3>1. red \in Nat /\ InputDelay[p] + 1 <= red
            BY <2>1, <2>4 DEF Maximum
        <3>2. low \in Nat /\ low <= sim_tick[p]
            <4> HIDE DEF red
            <4> QED BY <2>1, <3>1 DEF Maximum
        <3>3. ack_low \in Int
            <4>1. highest_remote_ack[p] \in Nat /\ MaxBack \in Nat
                BY <1>1, <2>4 DEF RingInv, Inv, TypeOK
            <4> QED BY <2>1, <4>1
        <3>4. BundleLow(p) = IF highest_remote_ack[p] < Tip(p) THEN Minimum(low, ack_low) ELSE low
            BY DEF BundleLow
        <3> HIDE DEF low, ack_low
        <3> QED BY <2>1, <3>2, <3>3, <3>4 DEF Minimum
    <2>6. sim_tick[q] \in BundleLow(p) .. Tip(p)
        <3>1. sim_tick[q] <= Tip(p)
            BY <2>1, <2>2
        <3> QED BY <2>1, <2>2, <2>3, <2>5, <3>1
    <2>7. Has(local_ring[p], sim_tick[q])
        <3>1. Len(sampled[p]) <= sim_tick[p] + InputDelay[p] + 1
            BY <2>1
        <3>2. InputDelay[p] + 1 <= HistoryLength
            BY <2>1, <2>2, <2>4
        <3>3. HistoryLength \in Nat
            BY <2>4
        <3>4. Len(sampled[p]) <= sim_tick[q] + HistoryLength
            BY <2>1, <2>2, <2>3, <3>1, <3>2, <3>3, SMTT(40)
        <3> QED BY <1>1, <2>2, <3>4 DEF RingInv, Rings, LocalHeld
    <2>8. InLiveWindow(q, p, sim_tick[q])
        BY <2>2, <2>4 DEF InLiveWindow
    <2> QED BY <2>6, <2>7, <2>8
<1> QED BY <1>1, RingInvariance, PTL

\* A peer that waits for the confirmation of a row another has resolved is sent
\* it again on every poll.
THEOREM WaiterGetsConfirm ==
    ASSUME RingsSuffice
    PROVE  Spec => []WaiterIsSentConfirm
<1>1. ASSUME RingInv PROVE WaiterIsSentConfirm
    <2> SUFFICES ASSUME NEW p \in Slots, NEW q \in Peers(p), Confirmed(p, sim_tick[q])
                 PROVE  sim_tick[q] \in ConfirmWindow(p) /\ Has(published[p], sim_tick[q])
        BY DEF WaiterIsSentConfirm, Confirmed
    <2>0. q \in Slots
        BY DEF Peers
    <2>1. sim_tick[q] \in Nat /\ InputDelay[q] \in Nat /\ sim_tick[p] \in Nat /\ Trail(p) \in Nat
        BY <1>1, <2>0, ClockBounds, TrailType DEF RingInv
    <2>2. sim_tick[p] <= sim_tick[q] + InputDelay[q] + 1 /\ InputDelay[q] + 1 <= Trail(p)
        BY <1>1, <2>0, Skew DEF RingInv, RingsSuffice
    <2>3. sim_tick[q] <= Tip(p)
        BY <1>1, <2>1 DEF RingInv, Rings, NotBeyondTip
    <2>4. sim_tick[q] \in ConfirmWindow(p)
        BY <1>1, <2>1, <2>2, <2>3, WindowBounds DEF RingInv
    <2> QED BY <1>1, <2>4 DEF RingInv, Rings, Kept
<1> QED BY <1>1, RingInvariance, PTL
=============================================================================
