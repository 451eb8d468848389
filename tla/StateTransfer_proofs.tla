------------------------ MODULE StateTransfer_proofs ------------------------
(***************************************************************************)
(* A savestate transfer hands over the host's blob, and only a blob that   *)
(* was received whole is reported complete: for every number and size of   *)
(* transfers, every pace, and every order, loss and repetition of          *)
(* datagrams.                                                              *)
(***************************************************************************)
EXTENDS StateTransfer, WellFoundedInduction, TLAPS

LEMMA PaceType ==
    ASSUME NEW p \in Pace, NEW q \in Pace \cup {NoPace}
    PROVE  /\ AtMost(q, p) \in Pace \cup {NoPace}
           /\ AtLeast(q, p) \in Pace
           /\ AtMost(AtLeast(q, PaceStart), PaceMax) \in Pace
           /\ Faster(p) \in Pace
           /\ Slower(p) \in Pace
<1> USE DEF Pace, NoPace, Least, Greatest
<1>1. /\ PaceMin \in Pace /\ PaceStart \in Pace /\ PaceMax \in Pace /\ PaceStep \in Pace
    BY TransferAssumption
<1>2. AtMost(q, p) \in Pace \cup {NoPace}
    BY DEF AtMost
<1>3. AtLeast(q, p) \in Pace
    BY DEF AtLeast
<1>4. AtMost(AtLeast(q, PaceStart), PaceMax) \in Pace
    BY <1>1 DEF AtMost, AtLeast
<1>5. Faster(p) \in Pace
    BY <1>1 DEF AtMost, Faster
<1>6. Slower(p) \in Pace
    BY <1>1 DEF AtLeast, Half, Slower
<1> QED BY <1>2, <1>3, <1>4, <1>5, <1>6

LEMMA ProfileType ==
    /\ PaceMin \in Pace /\ PaceStart \in Pace /\ PaceMax \in Pace /\ PaceStep \in Pace
    /\ Sizes \subseteq Nat \ {0}
    /\ Guests \subseteq Nat \ {Host}
    /\ Probes \subseteq Probe
BY TransferAssumption

LEMMA WindowType ==
    ASSUME NEW t \in TxState, NEW from \in Nat
    PROVE  WindowEnd(t, from) \in Nat
<1>1. t.ack \in Nat /\ t.total \in Nat /\ t.pace \in Pace
    BY ProfileType DEF TxState
<1>2. t.pace.cwnd \in Nat /\ t.pace.chunks \in Nat
    BY <1>1 DEF Pace
<1> QED BY <1>1, <1>2 DEF WindowEnd, Least

\* The first chunk that is missing: state_rx_advance_contiguity stops at it.
LEMMA ContiguousIsFirstMissing ==
    ASSUME NEW r, r.total \in Nat, r.contiguity \in 0 .. r.total, NEW bits
    PROVE  LET n == Contiguous(r, bits)
           IN  /\ n \in r.contiguity .. r.total
               /\ r.contiguity .. n - 1 \subseteq bits
               /\ n < r.total => n \notin bits
<1> DEFINE T == {n \in r.contiguity .. r.total : n = r.total \/ n \notin bits}
<1>1. T \subseteq Nat /\ T # {}
    <2>1. r.total \in T
        OBVIOUS
    <2>2. \A x \in T : x \in Nat
        OBVIOUS
    <2> QED BY <2>1, <2>2
<1>2. PICK n \in T : \A y \in T : ~(<<y, n>> \in OpToRel(<, Nat))
    <2> HIDE DEF T
    <2> QED BY <1>1, NatLessThanWellFounded, WFMin
<1>3. \A y \in T : n <= y
    <2> HIDE DEF T
    <2> SUFFICES ASSUME NEW y \in T, y < n PROVE FALSE
        BY <1>1
    <2>1. y \in Nat /\ n \in Nat
        BY <1>1
    <2>2. <<y, n>> \in OpToRel(<, Nat)
        BY <2>1, y < n DEF OpToRel
    <2> QED BY <2>2, <1>2
<1>4. r.contiguity .. n - 1 \subseteq bits
    <2> SUFFICES ASSUME NEW i \in r.contiguity .. n - 1, i \notin bits PROVE FALSE
        OBVIOUS
    <2>1. i \in T
        OBVIOUS
    <2> QED BY <2>1, <1>3
<1>5. /\ n \in r.contiguity .. r.total
      /\ r.contiguity .. n - 1 \subseteq bits
      /\ n < r.total => n \notin bits
    BY <1>4
<1> HIDE DEF T
<1> QED BY <1>5 DEF Contiguous

-----------------------------------------------------------------------------
(* Types *)

Fresh(id, n) == [active |-> TRUE, ready |-> FALSE, id |-> id, total |-> n, ack |-> 0,
                 cursor |-> 0, timed |-> FALSE, pace |-> StartPace]

LEMMA FreshType ==
    ASSUME NEW id \in Nat, NEW n \in Sizes, sticky \in Pace \cup {NoPace}
    PROVE  Fresh(id, n) \in TxState
<1>1. StartPace \in Pace
    BY PaceType, ProfileType DEF StartPace
<1> QED BY <1>1 DEF Fresh, TxState

\* What state_drive_sender leaves alone of the transfer it drives, and sends.
LEMMA DriveSenderDoes ==
    ASSUME NEW t \in TxState, sticky \in Pace \cup {NoPace}, net \subseteq Packet, DriveSender(t)
    PROVE  /\ tx' \in TxState
           /\ tx'.id = t.id /\ tx'.total = t.total /\ tx'.ready = t.ready /\ tx'.ack = t.ack
           /\ sticky' \in Pace \cup {NoPace}
           /\ net' \subseteq Packet
           /\ net \subseteq net'
           /\ t.ack = 0 => Begin(t.id, t.total) \in net'
           /\ \A m \in net' : \/ m \in net
                              \/ t.ack = 0 /\ m = Begin(t.id, t.total)
                              \/ \E i \in Nat : m = Chunk(t.id, i)
<1> DEFINE Paced(rewind) == IF rewind THEN [t EXCEPT !.pace = Slower(@)] ELSE t
           From(rewind)  == IF rewind THEN t.ack ELSE Greatest(t.cursor, t.ack)
           Upto(rewind)  == Greatest(From(rewind), WindowEnd(Paced(rewind), From(rewind)))
<1>1. t.ack \in Nat /\ t.cursor \in Nat /\ t.total \in Sizes /\ t.pace \in Pace /\ t.id \in Nat
    BY DEF TxState
<1>2. PICK rewind \in {FALSE, t.timed} :
          /\ tx' = [Paced(rewind) EXCEPT !.cursor = Upto(rewind)]
          /\ sticky' = IF rewind THEN AtMost(sticky, Paced(rewind).pace) ELSE sticky
          /\ net' = net \cup (IF t.ack = 0 THEN {Begin(t.id, t.total)} ELSE {})
                        \cup {Chunk(t.id, i) : i \in From(rewind) .. Upto(rewind) - 1}
    BY DEF DriveSender
<1>3. rewind \in BOOLEAN
    BY DEF TxState
<1>4. /\ Paced(rewind) \in TxState /\ Paced(rewind).id = t.id /\ Paced(rewind).total = t.total
      /\ Paced(rewind).ready = t.ready /\ Paced(rewind).ack = t.ack
    <2>1. Slower(t.pace) \in Pace
        BY <1>1, PaceType
    <2> QED BY <1>3, <2>1 DEF TxState
<1>5. From(rewind) \in Nat
    BY <1>1, <1>3 DEF Greatest
<1> HIDE DEF Paced, From
<1>6. Upto(rewind) \in Nat
    BY <1>4, <1>5, WindowType DEF Greatest
<1> HIDE DEF Upto
<1>7. /\ tx' \in TxState
      /\ tx'.id = t.id /\ tx'.total = t.total /\ tx'.ready = t.ready /\ tx'.ack = t.ack
    BY <1>2, <1>4, <1>6 DEF TxState
<1>8. sticky' \in Pace \cup {NoPace}
    <2>1. Paced(rewind).pace \in Pace
        BY <1>4 DEF TxState
    <2>2. AtMost(sticky, Paced(rewind).pace) \in Pace \cup {NoPace}
        BY <2>1, PaceType
    <2> QED BY <1>2, <2>2
<1>9. Begin(t.id, t.total) \in Packet
    BY <1>1 DEF Begin, Packet
<1>10. \A i \in Nat : Chunk(t.id, i) \in Packet
    BY <1>1 DEF Chunk, Packet
<1>11. \A i \in From(rewind) .. Upto(rewind) - 1 : i \in Nat
    BY <1>5, <1>6
<1>12. \A m \in net' : \/ m \in net
                       \/ t.ack = 0 /\ m = Begin(t.id, t.total)
                       \/ \E i \in Nat : m = Chunk(t.id, i)
    BY <1>2, <1>11
<1>13. net' \subseteq Packet
    BY <1>9, <1>10, <1>12
<1>14. net \subseteq net' /\ (t.ack = 0 => Begin(t.id, t.total) \in net')
    BY <1>2
<1> QED BY <1>7, <1>8, <1>12, <1>13, <1>14

Rx(n) == [active : {TRUE}, ready : BOOLEAN, id : Nat, total : {n}, contiguity : 0 .. n,
          buf : [0 .. n - 1 -> Nat], bits : SUBSET (0 .. n - 1)]

LEMMA RxFields ==
    ASSUME NEW r \in RxState
    PROVE  /\ r \in Rx(r.total)
           /\ r.active = TRUE /\ r.ready \in BOOLEAN /\ r.id \in Nat
           /\ r.total \in Sizes /\ r.total \in Nat \ {0}
           /\ r.contiguity \in 0 .. r.total /\ r.contiguity \in Nat
           /\ r.buf \in [0 .. r.total - 1 -> Nat]
           /\ r.bits \subseteq 0 .. r.total - 1
<1>1. PICK n \in Sizes : r \in Rx(n)
    BY DEF RxState, Rx
<1>2. r.total = n
    BY <1>1 DEF Rx
<1>3. n \in Nat \ {0}
    BY ProfileType
<1>4. r \in Rx(r.total)
    BY <1>1, <1>2
<1>5. r.active = TRUE /\ r.ready \in BOOLEAN /\ r.id \in Nat /\ r.contiguity \in 0 .. r.total
    BY <1>4 DEF Rx
<1>6. r.buf \in [0 .. r.total - 1 -> Nat]
    BY <1>4 DEF Rx
<1>7. r.bits \subseteq 0 .. r.total - 1
    BY <1>4 DEF Rx
<1> QED BY <1>2, <1>3, <1>4, <1>5, <1>6, <1>7

LEMMA RxIsState ==
    ASSUME NEW n \in Sizes
    PROVE  Rx(n) \subseteq RxState
BY DEF RxState, Rx

\* The guest's transfer after a chunk: r0 is before it is checked.
Taken(g, m) == [rx[g] EXCEPT !.buf[m.off] = m.id, !.bits = rx[g].bits \cup {m.off},
                             !.contiguity = Contiguous(rx[g], rx[g].bits \cup {m.off})]

LEMMA TakenType ==
    ASSUME NEW g, rx[g] \in RxState, NEW m, m.off \in Nat, m.off < rx[g].total, m.id \in Nat
    PROVE  /\ Taken(g, m) \in Rx(rx[g].total)
           /\ Taken(g, m).active = TRUE /\ Taken(g, m).ready = rx[g].ready
           /\ Taken(g, m).id = rx[g].id /\ Taken(g, m).total = rx[g].total
           /\ Taken(g, m).bits = rx[g].bits \cup {m.off}
           /\ Taken(g, m).contiguity = Contiguous(rx[g], rx[g].bits \cup {m.off})
           /\ Taken(g, m).buf = [rx[g].buf EXCEPT ![m.off] = m.id]
<1> DEFINE bits == rx[g].bits \cup {m.off}
<1>0. /\ rx[g].total \in Nat /\ rx[g].contiguity \in 0 .. rx[g].total
      /\ rx[g].bits \subseteq 0 .. rx[g].total - 1
      /\ rx[g].buf \in [0 .. rx[g].total - 1 -> Nat]
    BY RxFields
<1>1. Contiguous(rx[g], bits) \in rx[g].contiguity .. rx[g].total
    BY <1>0, ContiguousIsFirstMissing
<1>2. bits \subseteq 0 .. rx[g].total - 1
    BY <1>0
<1>3. [rx[g].buf EXCEPT ![m.off] = m.id] \in [0 .. rx[g].total - 1 -> Nat]
    BY <1>0
<1>4. Contiguous(rx[g], bits) \in 0 .. rx[g].total
    BY <1>0, <1>1
<1> HIDE DEF bits
<1>5. rx[g] \in Rx(rx[g].total)
    BY RxFields
<1> QED BY <1>2, <1>3, <1>4, <1>5 DEF Taken, Rx, bits

LEMMA PacketFields ==
    ASSUME NEW m \in Packet
    PROVE  /\ m.type = "BEGIN" => m.id \in Nat /\ m.total \in Sizes /\ m = Begin(m.id, m.total)
           /\ m.type = "CHUNK" => m.id \in Nat /\ m.off \in Nat
           /\ m.type = "ACK" => m.from \in Guests /\ m.id \in Nat /\ m.bytes \in Nat
           /\ m.type = "PROBE" => m.what \in Probe
           /\ m.type = "REPLY" => /\ m.from \in Guests /\ m.what \in Probe /\ m.match \in BOOLEAN
                                  /\ m = Reply(m.from, m.what, m.match)
BY DEF Packet, Begin, Reply

LEMMA PacketType ==
    /\ \A id \in Nat, n \in Sizes : Begin(id, n) \in Packet
    /\ \A id, i \in Nat : Chunk(id, i) \in Packet
    /\ \A g \in Guests, id, n \in Nat : Ack(g, id, n) \in Packet
    /\ \A w \in Probe : AskProbe(w) \in Packet
    /\ \A g \in Guests, w \in Probe, yes \in BOOLEAN : Reply(g, w, yes) \in Packet
BY DEF Packet, Begin, Chunk, Ack, AskProbe, Reply

LEMMA ProbeFields ==
    ASSUME NEW w \in Probe
    PROVE  w.op \in {"SAVE", "LOAD", "SRAM", "RB_KF", "BOOT"} /\ w.size \in Nat
BY DEF Probe

LEMMA ProbeActive ==
    ASSUME TypeOK, NEW p \in Slots
    PROVE  /\ probe[p].active \in BOOLEAN
           /\ probe[p].active => /\ probe[p] \in ProbeState
                                 /\ probe[p].what \in Probe
                                 /\ probe[p].match \in BOOLEAN
<1>1. probe[p] \in ProbeState \cup {Nothing}
    BY DEF TypeOK
<1>2. CASE probe[p] = Nothing
    BY <1>2 DEF Nothing
<1>3. CASE probe[p] \in ProbeState
    BY <1>3 DEF ProbeState
<1> QED BY <1>1, <1>2, <1>3

LEMMA RxActive ==
    ASSUME TypeOK, NEW g \in Guests
    PROVE  /\ rx[g].active \in BOOLEAN
           /\ rx[g].active => rx[g] \in RxState
<1>1. rx[g] \in RxState \cup {Nothing}
    BY DEF TypeOK
<1>2. CASE rx[g] = Nothing
    BY <1>2 DEF Nothing
<1>3. CASE rx[g] \in RxState
    BY <1>3, RxFields
<1> QED BY <1>1, <1>2, <1>3

LEMMA TxActive ==
    ASSUME TypeOK
    PROVE  /\ tx.active \in BOOLEAN
           /\ tx.active => tx \in TxState
<1>1. CASE tx = Nothing
    BY <1>1 DEF Nothing
<1>2. CASE tx \in TxState
    BY <1>2 DEF TxState
<1> QED BY <1>1, <1>2 DEF TypeOK

\* A step of the session.  A game may probe for anything, not just for Probes.
SessionStep == [Next]_vars \/ \E w \in Probe : StateProbe(w)

LEMMA TypeInit == Init => TypeOK
BY DEF Init, TypeOK

\* A step types: what is not changed has its type still.
LEMMA TypeStep ==
    ASSUME TypeOK, SessionStep
    PROVE  TypeOK'
<1> USE DEF TypeOK
<1> DEFINE TxT == tx' \in TxState \cup {Nothing}
           RxT == rx' \in [Guests -> RxState \cup {Nothing}]
           ProbeT == probe' \in [Slots -> ProbeState \cup {Nothing}]
           StallT == stall' \in [Slots -> BOOLEAN]
<1>g. \A g \in Guests : g \in Slots
    BY DEF Slots
<1>h. Host \in Slots
    BY DEF Slots
<1>0. ASSUME UNCHANGED vars PROVE TypeOK'
    BY <1>0 DEF vars, transferVars
<1>1. ASSUME NEW n \in Sizes, StateBegin(n) PROVE TypeOK'
    <2> DEFINE t == Fresh(next_xfer_id + 1, n)
    <2>1. next_xfer_id + 1 \in Nat /\ t \in TxState
        BY FreshType
    <2>2. DriveSender(t)
        BY <1>1 DEF StateBegin, Fresh
    <2> HIDE DEF t
    <2>3. tx' \in TxState /\ sticky' \in Pace \cup {NoPace} /\ net' \subseteq Packet
        BY <2>1, <2>2, DriveSenderDoes
    <2>4. ProbeT /\ StallT
        BY <1>1, <1>h DEF StateBegin
    <2>5. next_xfer_id' \in Nat /\ UNCHANGED <<rx, finished, delivered>>
        BY <1>1, <2>1 DEF StateBegin
    <2> QED BY <2>3, <2>4, <2>5
<1>2. ASSUME Pump PROVE TypeOK'
    <2>1. tx \in TxState
        BY <1>2 DEF Pump, Nothing
    <2>2. tx' \in TxState /\ sticky' \in Pace \cup {NoPace} /\ net' \subseteq Packet
        BY <1>2, <2>1, DriveSenderDoes DEF Pump
    <2> QED BY <1>2, <2>2 DEF Pump
<1>3. ASSUME HostFinish PROVE TypeOK'
    <2>1. probe[Host].active \in BOOLEAN
        BY <1>h, ProbeActive
    <2>2. StallT
        BY <1>3, <2>1, <1>h DEF HostFinish
    <2> QED BY <1>3, <2>2 DEF HostFinish
<1>4. ASSUME NEW w \in Probe, StateProbe(w) PROVE TypeOK'
    <2>1. ProbeT
        BY <1>4, <1>h DEF StateProbe, ProbeState
    <2>2. StallT
        BY <1>4, <1>h DEF StateProbe
    <2>3. net' \subseteq Packet
        BY <1>4, PacketType DEF StateProbe
    <2> QED BY <1>4, <2>1, <2>2, <2>3 DEF StateProbe, transferVars
<1>5. ASSUME DriveProbe PROVE TypeOK'
    <2>1. probe[Host].what \in Probe
        BY <1>5, <1>h, ProbeActive DEF DriveProbe
    <2>2. net' \subseteq Packet
        BY <1>5, <2>1, PacketType DEF DriveProbe
    <2> QED BY <1>5, <2>2 DEF DriveProbe, transferVars
<1>6. ASSUME ProbeFinish PROVE TypeOK'
    <2>1. ProbeT
        BY <1>6, <1>h DEF ProbeFinish
    <2>2. StallT
        BY <1>6, <1>h DEF ProbeFinish, TxState, Nothing
    <2> QED BY <1>6, <2>1, <2>2 DEF ProbeFinish, transferVars
<1>7. ASSUME NEW g \in Guests, GuestFinish(g) PROVE TypeOK'
    <2>1. rx[g].id \in Nat
        BY <1>7, RxActive, RxFields DEF GuestFinish
    <2>2. finished' \in [Guests -> Nat] /\ RxT
        BY <1>7, <2>1 DEF GuestFinish
    <2>3. probe[g].active \in BOOLEAN
        BY <1>g, ProbeActive
    <2>4. StallT
        BY <1>7, <2>3, <1>g DEF GuestFinish
    <2> QED BY <1>7, <2>2, <2>4 DEF GuestFinish
<1>8. ASSUME NEW g \in Guests, FinishFailedLoad(g) PROVE TypeOK'
    <2>1. finished' \in [Guests -> Nat]
        BY <1>8 DEF FinishFailedLoad
    <2>2. probe[g].active \in BOOLEAN
        BY <1>g, ProbeActive
    <2>3. StallT
        BY <1>8, <2>2, <1>g DEF FinishFailedLoad
    <2> QED BY <1>8, <2>1, <2>3 DEF FinishFailedLoad
<1>9. ASSUME NEW g \in Guests, NEW yes \in BOOLEAN, ProbeReply(g, yes) PROVE TypeOK'
    <2> DEFINE w == probe[g].what
               over == IF w.size = 0 THEN w.op \in {"LOAD", "BOOT"} ELSE yes
    <2>1. probe[g] \in ProbeState /\ w \in Probe
        BY <1>9, <1>g, ProbeActive DEF ProbeReply
    <2>3. /\ net' = net \cup {Reply(g, w, yes)}
          /\ probe' = [probe EXCEPT ![g] =
                          IF over THEN Nothing ELSE [@ EXCEPT !.pending = FALSE, !.match = yes]]
          /\ stall' = [stall EXCEPT ![g] = IF over THEN ClearedStall(g) ELSE @ /\ w.size # 0]
          /\ UNCHANGED <<transferVars, delivered>>
        BY <1>9 DEF ProbeReply
    <2> HIDE DEF over
    <2>4. ProbeT
        <3>1. [probe[g] EXCEPT !.pending = FALSE, !.match = yes] \in ProbeState
            BY <2>1 DEF ProbeState
        <3> QED BY <2>3, <3>1, <1>g
    <2>5. StallT
        <3>1. ClearedStall(g) \in BOOLEAN
            BY DEF ClearedStall
        <3>2. (stall[g] /\ w.size # 0) \in BOOLEAN
            OBVIOUS
        <3>3. (IF over THEN ClearedStall(g) ELSE stall[g] /\ w.size # 0) \in BOOLEAN
            BY <3>1, <3>2
        <3> QED BY <2>3, <3>3, <1>g
    <2>6. net' \subseteq Packet
        BY <2>1, <2>3, PacketType
    <2> QED BY <2>3, <2>4, <2>5, <2>6 DEF transferVars
<1>10. ASSUME NEW m \in net, OnAck(m) PROVE TypeOK'
    <2> DEFINE pace == Faster(tx.pace)
               done == m.bytes >= tx.total
    <2>1. tx \in TxState /\ m \in Packet /\ m.type = "ACK"
        BY <1>10 DEF OnAck, Nothing
    <2>2. m.bytes \in Nat /\ tx.total \in Nat /\ tx.pace \in Pace
        BY <2>1, PacketFields, ProfileType DEF TxState
    <2>3. pace \in Pace
        BY <2>2, PaceType
    <2>4. Least(m.bytes, tx.total) \in Nat /\ done \in BOOLEAN
        BY <2>2 DEF Least
    <2>5. /\ tx' = [tx EXCEPT !.ack = Least(m.bytes, tx.total), !.timed = TRUE,
                               !.ready = done, !.pace = pace]
          /\ sticky' = IF done THEN AtLeast(sticky, pace) ELSE sticky
          /\ net' = net
          /\ UNCHANGED <<rx, next_xfer_id, finished, probe, stall, delivered>>
        BY <1>10 DEF OnAck, Arrives
    <2>6. AtLeast(sticky, pace) \in Pace
        BY <2>3, PaceType
    <2> HIDE DEF pace, done
    <2>7. tx' \in TxState
        BY <2>1, <2>3, <2>4, <2>5 DEF TxState
    <2> QED BY <2>4, <2>5, <2>6, <2>7
<1>11. ASSUME NEW m \in net, OnProbeReply(m) PROVE TypeOK'
    <2>1. probe[Host] \in ProbeState /\ m \in Packet /\ m.type = "REPLY"
        BY <1>11, <1>h DEF OnProbeReply, Nothing
    <2>2. m.match \in BOOLEAN
        BY <2>1, PacketFields
    <2>3. [probe[Host] EXCEPT !.match = m.match, !.replied = TRUE] \in ProbeState
        BY <2>1, <2>2 DEF ProbeState
    <2>4. probe' = [probe EXCEPT ![Host] = [@ EXCEPT !.match = m.match, !.replied = TRUE]]
        BY <1>11, <1>h DEF OnProbeReply
    <2>5. ProbeT
        BY <2>3, <2>4, <1>h
    <2> QED BY <1>11, <2>5 DEF OnProbeReply, Arrives, transferVars
<1>12. ASSUME NEW m \in net, NEW g \in Guests, OnBegin(g, m) PROVE TypeOK'
    <2>1. m \in Packet /\ m.id \in Nat /\ m.total \in Sizes /\ m.total \in Nat \ {0}
        BY <1>12, PacketFields, ProfileType DEF OnBegin
    <2>2. CASE ReAck(g, m)
        <3>1. net' \subseteq Packet
            BY <2>1, <2>2, PacketType DEF ReAck, Arrives
        <3> QED BY <2>2, <3>1 DEF ReAck, transferVars
    <2>3. CASE AckAgain(g, m)
        <3>1. rx[g].contiguity \in Nat
            BY <2>3, RxActive, RxFields DEF AckAgain
        <3>2. net' \subseteq Packet
            BY <2>1, <2>3, <3>1, PacketType DEF AckAgain, Arrives
        <3> QED BY <2>3, <3>2 DEF AckAgain, transferVars
    <2>4. CASE Open(g, m)
        <3>1. net' \subseteq Packet
            BY <2>1, <2>4, PacketType DEF Open, Arrives
        <3>2. [active |-> TRUE, ready |-> FALSE, id |-> m.id, total |-> m.total, contiguity |-> 0,
               buf |-> [i \in 0 .. m.total - 1 |-> 0], bits |-> {}] \in Rx(m.total)
            BY <2>1 DEF Rx
        <3>3. RxT
            BY <2>1, <2>4, <3>2, RxIsState DEF Open
        <3>4. ProbeT /\ StallT
            BY <2>4, <1>g DEF Open
        <3> QED BY <2>4, <3>1, <3>3, <3>4 DEF Open
    <2> QED BY <1>12, <2>2, <2>3, <2>4 DEF OnBegin
<1>13. ASSUME NEW m \in net, NEW g \in Guests, OnChunk(g, m) PROVE TypeOK'
    <2> DEFINE r == Taken(g, m)
               n == Contiguous(rx[g], rx[g].bits \cup {m.off})
               bad == ~r.ready /\ n = r.total /\ ~Intact(r)
    <2>1. m \in Packet /\ m.id \in Nat /\ m.off \in Nat /\ rx[g] \in RxState /\ m.off < rx[g].total
        BY <1>13, PacketFields DEF OnChunk, Nothing
    <2>2. /\ r \in Rx(rx[g].total) /\ rx[g].total \in Sizes /\ rx[g].total \in Nat
          /\ n \in Nat /\ r.total \in Nat
        <3>1. r \in Rx(rx[g].total) /\ r.total = rx[g].total /\ r.contiguity = n
            BY <2>1, TakenType
        <3>2. rx[g].total \in Sizes /\ rx[g].total \in Nat
            BY <2>1, RxFields
        <3>3. n \in Nat
            BY <3>1, <3>2 DEF Rx
        <3> QED BY <3>1, <3>2, <3>3
    <2>3. /\ rx' = [rx EXCEPT ![g] = IF bad THEN [r EXCEPT !.contiguity = 0]
                                            ELSE [r EXCEPT !.ready = (n = r.total)]]
          /\ delivered' = [delivered EXCEPT ![g] = IF rx'[g].ready THEN @ \cup {m.id} ELSE @]
          /\ net' = net \cup {Ack(g, m.id, n)} \cup (IF bad THEN {Ack(g, m.id, 0)} ELSE {})
          /\ UNCHANGED <<tx, next_xfer_id, finished, sticky, probe, stall>>
        BY <1>13 DEF OnChunk, Arrives, Taken
    <2> HIDE DEF r, n, bad
    <2>4. [r EXCEPT !.contiguity = 0] \in RxState /\ [r EXCEPT !.ready = (n = r.total)] \in RxState
        <3>1. [r EXCEPT !.contiguity = 0] \in Rx(rx[g].total)
            BY <2>2, 0 \in 0 .. rx[g].total DEF Rx
        <3>2. [r EXCEPT !.ready = (n = r.total)] \in Rx(rx[g].total)
            BY <2>2 DEF Rx
        <3> QED BY <2>2, <3>1, <3>2, RxIsState
    <2>5. RxT
        BY <2>3, <2>4
    <2>6. delivered' \in [Guests -> SUBSET Nat]
        BY <2>1, <2>3
    <2>7. net' \subseteq Packet
        BY <2>1, <2>2, <2>3, PacketType
    <2> QED BY <2>3, <2>5, <2>6, <2>7
<1>14. ASSUME NEW m \in net, NEW g \in Guests, OnProbe(g, m) PROVE TypeOK'
    <2>1. m \in Packet /\ m.type = "PROBE" /\ m.what \in Probe
        BY <1>14, PacketFields DEF OnProbe, Surface
    <2>2. CASE probe[g].active /\ ~probe[g].pending /\ probe[g].what = m.what
        <3>1. probe[g].match \in BOOLEAN
            BY <2>2, <1>g, ProbeActive
        <3>2. net' \subseteq Packet /\ UNCHANGED <<transferVars, delivered, probe, stall>>
            BY <1>14, <2>1, <2>2, <3>1, PacketType DEF OnProbe, Surface, Arrives
        <3> QED BY <3>2 DEF transferVars
    <2>3. CASE ~(probe[g].active /\ ~probe[g].pending /\ probe[g].what = m.what)
        <3>1. /\ net' = net
              /\ probe' = [probe EXCEPT ![g] = [active |-> TRUE, pending |-> TRUE,
                                replied |-> FALSE, match |-> FALSE, what |-> m.what]]
              /\ stall' = [stall EXCEPT ![g] = m.what.size # 0]
              /\ UNCHANGED <<transferVars, delivered>>
            BY <1>14, <2>3 DEF OnProbe, Surface, Arrives
        <3>2. ProbeT
            BY <2>1, <3>1, <1>g DEF ProbeState
        <3>3. StallT
            BY <3>1, <1>g
        <3> QED BY <3>1, <3>2, <3>3 DEF transferVars
    <2> QED BY <2>2, <2>3
<1>15. ASSUME NEW m \in net, Lose(m) PROVE TypeOK'
    BY <1>15 DEF Lose, transferVars
<1> QED BY <1>0, <1>1, <1>2, <1>3, <1>4, <1>5, <1>6, <1>7, <1>8, <1>9, <1>10, <1>11, <1>12,
           <1>13, <1>14, <1>15, ProfileType DEF SessionStep, Next, Step, HostStep, GuestStep, Receive

-----------------------------------------------------------------------------
(* What holds of the transfers in every state.  A transfer's size is fixed *)
(* by the BEGIN of its id, an id is never used twice, and an ACK is made   *)
(* by the guest that has what it acknowledges.                             *)

\* No datagram is of a transfer not begun yet.
IdTrue(m) == m.type \in {"BEGIN", "CHUNK", "ACK"} => m.id \in 1 .. next_xfer_id

BeginsAgree == \A id \in Nat : \A n, k \in Sizes :
    Begin(id, n) \in net /\ Begin(id, k) \in net => n = k

\* A guest that acknowledges every byte has had the blob.
AckTrue(m) == m.type = "ACK" =>
    \A n \in Sizes : Begin(m.id, n) \in net /\ m.bytes >= n => m.id \in delivered[m.from]

NetTrue == \A m \in net : IdTrue(m) /\ AckTrue(m)

RxTrue(g) == rx[g].active =>
    /\ Begin(rx[g].id, rx[g].total) \in net
    /\ \A i \in rx[g].bits : rx[g].buf[i] = rx[g].id
    /\ 0 .. rx[g].contiguity - 1 \subseteq rx[g].bits
    /\ rx[g].contiguity < rx[g].total => rx[g].contiguity \notin rx[g].bits
    /\ rx[g].contiguity = rx[g].total <=> rx[g].ready
    /\ rx[g].ready => rx[g].id \in delivered[g]

TxTrue == tx.active =>
    /\ Begin(tx.id, tx.total) \in net
    /\ tx.ready => \E g \in Guests : tx.id \in delivered[g]

\* The id a guest re-acknowledges is of a transfer it has had.
FinishedTrue(g) == finished[g] = 0 \/ finished[g] \in delivered[g]

TransferInv ==
    /\ BeginsAgree
    /\ NetTrue
    /\ \A g \in Guests : RxTrue(g) /\ FinishedTrue(g)
    /\ TxTrue

LEMMA TransferInit == Init => TransferInv
BY DEF Init, TransferInv, BeginsAgree, NetTrue, RxTrue, FinishedTrue, TxTrue, Nothing

\* What a step must show of what it changes when it begins no transfer.
LEMMA TransferStep ==
    ASSUME TypeOK, TypeOK', TransferInv,
           next_xfer_id' = next_xfer_id,
           \A g \in Guests : delivered[g] \subseteq delivered'[g],
           \A m \in net : m.type = "BEGIN" => m \in net',
           \A m \in net' : m.type = "BEGIN" => m \in net,
           \A m \in net' : m \in net \/ (IdTrue(m) /\ AckTrue(m)'),
           \A g \in Guests : rx'[g] = rx[g] \/ RxTrue(g)',
           \A g \in Guests : finished'[g] = finished[g] \/ finished'[g] = 0
                                \/ finished'[g] \in delivered[g],
           tx' = tx \/ TxTrue'
    PROVE  TransferInv'
<1>1. \A id \in Nat, n \in Sizes : Begin(id, n) \in net <=> Begin(id, n) \in net'
    BY DEF Begin
<1>2. BeginsAgree'
    BY <1>1 DEF BeginsAgree, TransferInv
<1>3. ASSUME NEW m \in net' PROVE IdTrue(m)' /\ AckTrue(m)'
    <2>1. CASE m \in net
        <3>1. IdTrue(m) /\ AckTrue(m)
            BY <2>1 DEF TransferInv, NetTrue
        <3>2. IdTrue(m)'
            BY <3>1 DEF IdTrue
        <3>3. ASSUME m.type = "ACK" PROVE m.id \in Nat /\ m.from \in Guests
            BY <2>1, <3>3, PacketFields DEF TypeOK
        <3>4. AckTrue(m)'
            BY <3>1, <3>3, <1>1 DEF AckTrue
        <3> QED BY <3>2, <3>4
    <2>2. CASE IdTrue(m) /\ AckTrue(m)'
        BY <2>2 DEF IdTrue
    <2> QED BY <2>1, <2>2
<1>4. ASSUME NEW g \in Guests PROVE RxTrue(g)'
    <2>1. CASE rx'[g] = rx[g]
        <3>1. rx[g].active => rx[g].id \in Nat /\ rx[g].total \in Sizes
            BY RxActive, RxFields
        <3>2. RxTrue(g)
            BY DEF TransferInv
        <3> QED BY <2>1, <3>1, <3>2, <1>1 DEF RxTrue
    <2> QED BY <2>1
<1>5. \A g \in Guests : FinishedTrue(g)'
    BY DEF TransferInv, FinishedTrue
<1>6. TxTrue'
    <2>1. CASE tx' = tx
        <3>1. tx.active => tx.id \in Nat /\ tx.total \in Sizes
            BY TxActive DEF TxState
        <3> QED BY <2>1, <3>1, <1>1 DEF TransferInv, TxTrue
    <2> QED BY <2>1
<1> QED BY <1>2, <1>3, <1>4, <1>5, <1>6 DEF TransferInv, NetTrue

\* The frame of the actions that only send probes and replies, and of Lose.
LEMMA TransferFrame ==
    ASSUME TypeOK, TypeOK', TransferInv, UNCHANGED <<transferVars, delivered>>,
           \A m \in net : m.type = "BEGIN" => m \in net',
           \A m \in net' : m \in net \/ m.type \in {"PROBE", "REPLY"}
    PROVE  TransferInv'
<1>1. \A m \in net' : m.type = "BEGIN" => m \in net
    OBVIOUS
<1>2. \A m \in net' : m \in net \/ (IdTrue(m) /\ AckTrue(m)')
    BY DEF IdTrue, AckTrue
<1> QED BY <1>1, <1>2, TransferStep DEF transferVars

LEMMA BeginTransfer ==
    ASSUME TypeOK, TypeOK', TransferInv, NEW n \in Sizes, StateBegin(n)
    PROVE  TransferInv'
<1> DEFINE id == next_xfer_id + 1
           t  == Fresh(id, n)
<1>1. id \in Nat /\ t \in TxState
    BY FreshType DEF TypeOK
<1>2. DriveSender(t) /\ next_xfer_id' = id /\ UNCHANGED <<rx, finished, delivered>>
    BY DEF StateBegin, Fresh
<1>3. t.id = id /\ t.total = n /\ ~t.ready /\ t.ack = 0
    BY DEF Fresh
<1> HIDE DEF t
<1>4. /\ tx' \in TxState
      /\ tx'.id = id /\ tx'.total = n /\ ~tx'.ready
      /\ net \subseteq net'
      /\ Begin(id, n) \in net'
      /\ \A m \in net' : m \in net \/ m = Begin(id, n) \/ \E i \in Nat : m = Chunk(id, i)
    BY <1>1, <1>2, <1>3, DriveSenderDoes DEF TypeOK
<1>5. next_xfer_id \in Nat
    BY DEF TypeOK
<1>6. \A m \in net : m.type \in {"BEGIN", "CHUNK", "ACK"} => m.id \in 1 .. next_xfer_id
    BY DEF TransferInv, NetTrue, IdTrue
<1>7. \A k \in Sizes : Begin(id, k) \notin net
    BY <1>5, <1>6 DEF Begin
<1>8. ASSUME NEW j \in Nat, NEW k \in Sizes, Begin(j, k) \in net'
      PROVE  Begin(j, k) \in net \/ (j = id /\ k = n)
    <2>1. Begin(j, k) \in net \/ Begin(j, k) = Begin(id, n) \/ \E i \in Nat : Begin(j, k) = Chunk(id, i)
        BY <1>4, <1>8
    <2>2. \A i \in Nat : Begin(j, k) # Chunk(id, i)
        BY DEF Begin, Chunk
    <2>3. Begin(j, k) = Begin(id, n) => j = id /\ k = n
        BY DEF Begin
    <2> QED BY <2>1, <2>2, <2>3
<1>9. BeginsAgree'
    <2> SUFFICES ASSUME NEW j \in Nat, NEW k1 \in Sizes, NEW k2 \in Sizes,
                        Begin(j, k1) \in net', Begin(j, k2) \in net'
                 PROVE  k1 = k2
        BY DEF BeginsAgree
    <2>1. CASE j = id
        BY <2>1, <1>7, <1>8
    <2>2. CASE j # id
        BY <2>2, <1>8 DEF TransferInv, BeginsAgree
    <2> QED BY <2>1, <2>2
<1>10. ASSUME NEW m \in net' PROVE IdTrue(m)' /\ AckTrue(m)'
    <2>1. CASE m \in net
        <3>1. IdTrue(m)'
            BY <2>1, <1>2, <1>5, <1>6 DEF IdTrue
        <3>2. SUFFICES ASSUME m.type = "ACK", NEW k \in Sizes, Begin(m.id, k) \in net', m.bytes >= k
                       PROVE  m.id \in delivered'[m.from]
            BY <3>1 DEF AckTrue
        <3>3. m.id \in Nat /\ m.id # id
            BY <2>1, <3>2, <1>5, <1>6
        <3>4. Begin(m.id, k) \in net
            BY <1>8, <3>2, <3>3
        <3> QED BY <1>2, <2>1, <3>2, <3>4 DEF TransferInv, NetTrue, AckTrue
    <2>2. CASE m = Begin(id, n)
        BY <2>2, <1>2, <1>5 DEF IdTrue, AckTrue, Begin
    <2>3. CASE \E i \in Nat : m = Chunk(id, i)
        BY <2>3, <1>2, <1>5 DEF IdTrue, AckTrue, Chunk
    <2> QED BY <1>4, <2>1, <2>2, <2>3
<1>11. \A g \in Guests : RxTrue(g)' /\ FinishedTrue(g)'
    BY <1>2, <1>4 DEF TransferInv, RxTrue, FinishedTrue
<1>12. TxTrue'
    BY <1>4 DEF TxTrue
<1> QED BY <1>9, <1>10, <1>11, <1>12 DEF TransferInv, NetTrue

LEMMA ChunkTaken ==
    ASSUME TypeOK, TransferInv, NEW m \in net, NEW g \in Guests, OnChunk(g, m)
    PROVE  LET n == Contiguous(rx[g], rx[g].bits \cup {m.off})
           IN  /\ n \in rx[g].contiguity .. rx[g].total
               /\ rx' = [rx EXCEPT ![g] = [Taken(g, m) EXCEPT !.ready = (n = rx[g].total)]]
               /\ RxTrue(g)'
               /\ n >= rx[g].total => rx[g].id \in delivered'[g]
               /\ net' = net \cup {Ack(g, rx[g].id, n)}
               /\ delivered[g] \subseteq delivered'[g]
               /\ \A h \in Guests : h # g => delivered'[h] = delivered[h]
<1> DEFINE bits == rx[g].bits \cup {m.off}
           n == Contiguous(rx[g], bits)
           r == Taken(g, m)
           bad == ~r.ready /\ n = r.total /\ ~Intact(r)
<1>1. /\ rx[g] \in RxState /\ m.id = rx[g].id /\ m.off \in Nat /\ m.off < rx[g].total
      /\ m.id \in Nat /\ rx[g].active
    BY RxActive, PacketFields DEF OnChunk, TypeOK
<1>2. /\ rx[g].total \in Nat /\ rx[g].contiguity \in 0 .. rx[g].total
      /\ rx[g].bits \subseteq 0 .. rx[g].total - 1
      /\ rx[g].buf \in [0 .. rx[g].total - 1 -> Nat]
    BY <1>1, RxFields
<1>3. RxTrue(g)
    BY DEF TransferInv
<1>4. /\ n \in rx[g].contiguity .. rx[g].total
      /\ rx[g].contiguity .. n - 1 \subseteq bits
      /\ n < rx[g].total => n \notin bits
    BY <1>2, ContiguousIsFirstMissing
<1>5. /\ r \in Rx(rx[g].total) /\ r.active = TRUE /\ r.ready = rx[g].ready /\ r.id = rx[g].id
      /\ r.total = rx[g].total /\ r.bits = bits /\ r.contiguity = n
      /\ r.buf = [rx[g].buf EXCEPT ![m.off] = m.id]
    <2>1. rx[g] \in RxState /\ m.off \in Nat /\ m.off < rx[g].total /\ m.id \in Nat
        BY <1>1
    <2>2. /\ Taken(g, m) \in Rx(rx[g].total)
          /\ Taken(g, m).active = TRUE /\ Taken(g, m).ready = rx[g].ready
          /\ Taken(g, m).id = rx[g].id /\ Taken(g, m).total = rx[g].total
          /\ Taken(g, m).bits = rx[g].bits \cup {m.off}
          /\ Taken(g, m).contiguity = Contiguous(rx[g], rx[g].bits \cup {m.off})
          /\ Taken(g, m).buf = [rx[g].buf EXCEPT ![m.off] = m.id]
        <3> HIDE DEF bits, n, r, bad
        <3> QED BY <2>1, TakenType, ZenonT(60)
    <2> QED BY <2>2
<1>6. /\ rx' = [rx EXCEPT ![g] = IF bad THEN [r EXCEPT !.contiguity = 0]
                                        ELSE [r EXCEPT !.ready = (n = r.total)]]
      /\ delivered' = [delivered EXCEPT ![g] = IF rx'[g].ready THEN @ \cup {m.id} ELSE @]
      /\ net' = net \cup {Ack(g, m.id, n)} \cup (IF bad THEN {Ack(g, m.id, 0)} ELSE {})
    BY DEF OnChunk, Arrives, Taken
<1> HIDE DEF n, r
<1>7. \A i \in bits : r.buf[i] = r.id
    BY <1>1, <1>2, <1>3, <1>5 DEF RxTrue
<1>8. 0 .. n - 1 \subseteq bits
    <2> SUFFICES ASSUME NEW i \in 0 .. n - 1 PROVE i \in bits
        OBVIOUS
    <2>1. n \in Nat /\ rx[g].contiguity \in Nat
        BY <1>2, <1>4
    <2>2. CASE i < rx[g].contiguity
        BY <2>1, <2>2, <1>1, <1>3 DEF RxTrue
    <2>3. CASE i >= rx[g].contiguity
        BY <2>1, <2>3, <1>4
    <2> QED BY <2>1, <2>2, <2>3
<1> HIDE DEF bits
<1>9. ~bad
    <2> SUFFICES ASSUME n = rx[g].total PROVE Intact(r)
        BY <1>5
    <2>1. DOMAIN r.buf = 0 .. n - 1
        BY <1>2, <1>5
    <2> QED BY <2>1, <1>7, <1>8 DEF Intact
<1> HIDE DEF bad
<1> DEFINE r1 == [r EXCEPT !.ready = (n = rx[g].total)]
<1>10. rx' = [rx EXCEPT ![g] = r1] /\ net' = net \cup {Ack(g, rx[g].id, n)}
    BY <1>1, <1>5, <1>6, <1>9
<1>11. /\ r1.active = TRUE /\ r1.ready = (n = rx[g].total) /\ r1.id = rx[g].id
       /\ r1.total = rx[g].total /\ r1.bits = bits /\ r1.contiguity = n /\ r1.buf = r.buf
    BY <1>5 DEF Rx
<1> HIDE DEF r1
<1>12. rx'[g] = r1
    BY <1>10 DEF TypeOK
<1>13. /\ n = rx[g].total => rx[g].id \in delivered'[g]
       /\ delivered[g] \subseteq delivered'[g]
       /\ \A h \in Guests : h # g => delivered'[h] = delivered[h]
    BY <1>1, <1>6, <1>11, <1>12 DEF TypeOK
<1>14. RxTrue(g)'
    <2>1. Begin(rx[g].id, rx[g].total) \in net'
        BY <1>1, <1>3, <1>10 DEF RxTrue
    <2> QED BY <2>1, <1>4, <1>5, <1>7, <1>8, <1>11, <1>12, <1>13, ZenonT(60) DEF RxTrue
<1>15. n >= rx[g].total => n = rx[g].total
    BY <1>2, <1>4
<1> QED BY <1>4, <1>10, <1>13, <1>14, <1>15 DEF r, n, bits, r1

LEMMA TransferInvStep ==
    ASSUME TypeOK, TypeOK', TransferInv, SessionStep
    PROVE  TransferInv'
<1>0. ASSUME UNCHANGED vars PROVE TransferInv'
    BY <1>0, TransferFrame DEF vars, transferVars
<1>1. ASSUME NEW n \in Sizes, StateBegin(n) PROVE TransferInv'
    BY <1>1, BeginTransfer
<1>2. ASSUME Pump PROVE TransferInv'
    <2>1. tx \in TxState /\ tx.active /\ ~tx.ready
        BY <1>2, TxActive DEF Pump
    <2>2. DriveSender(tx) /\ UNCHANGED <<rx, next_xfer_id, finished, delivered>>
        BY <1>2 DEF Pump
    <2>3. /\ tx' \in TxState
          /\ tx'.id = tx.id /\ tx'.total = tx.total /\ tx'.ready = tx.ready
          /\ net \subseteq net'
          /\ \A m \in net' : \/ m \in net
                             \/ tx.ack = 0 /\ m = Begin(tx.id, tx.total)
                             \/ \E i \in Nat : m = Chunk(tx.id, i)
        BY <2>1, <2>2, DriveSenderDoes DEF TypeOK
    <2>4. Begin(tx.id, tx.total) \in net
        BY <2>1 DEF TransferInv, TxTrue
    <2>5. tx.id \in 1 .. next_xfer_id
        BY <2>4 DEF TransferInv, NetTrue, IdTrue, Begin
    <2>6. \A m \in net' : m \in net \/ \E i \in Nat : m = Chunk(tx.id, i)
        BY <2>3, <2>4
    <2>7. \A m \in net' : m.type = "BEGIN" => m \in net
        BY <2>6 DEF Chunk
    <2>8. \A m \in net' : m \in net \/ (IdTrue(m) /\ AckTrue(m)')
        BY <2>5, <2>6 DEF IdTrue, AckTrue, Chunk
    <2>9. TxTrue'
        BY <2>1, <2>3, <2>4 DEF TxTrue
    <2> QED BY <2>2, <2>3, <2>7, <2>8, <2>9, TransferStep
<1>3. ASSUME HostFinish PROVE TransferInv'
    <2>1. TxTrue'
        BY <1>3 DEF HostFinish, TxTrue, Nothing
    <2> QED BY <1>3, <2>1, TransferStep DEF HostFinish
<1>4. ASSUME NEW w \in Probe, StateProbe(w) PROVE TransferInv'
    BY <1>4, TransferFrame DEF StateProbe, AskProbe
<1>5. ASSUME DriveProbe PROVE TransferInv'
    BY <1>5, TransferFrame DEF DriveProbe, AskProbe
<1>6. ASSUME ProbeFinish PROVE TransferInv'
    BY <1>6, TransferFrame DEF ProbeFinish
<1>7. ASSUME NEW g \in Guests, GuestFinish(g) PROVE TransferInv'
    <2>1. rx[g].id \in delivered[g]
        BY <1>7 DEF GuestFinish, TransferInv, RxTrue
    <2>2. finished' = [finished EXCEPT ![g] = rx[g].id] /\ rx' = [rx EXCEPT ![g] = Nothing]
          /\ UNCHANGED <<tx, next_xfer_id, net, delivered>>
        BY <1>7 DEF GuestFinish
    <2>3. \A h \in Guests : rx'[h] = rx[h] \/ RxTrue(h)'
        BY <2>2 DEF RxTrue, Nothing, TypeOK
    <2>4. \A h \in Guests : finished'[h] = finished[h] \/ finished'[h] \in delivered[h]
        BY <2>1, <2>2 DEF TypeOK
    <2> QED BY <2>2, <2>3, <2>4, TransferStep
<1>8. ASSUME NEW g \in Guests, FinishFailedLoad(g) PROVE TransferInv'
    <2>1. finished' = [finished EXCEPT ![g] = 0] /\ UNCHANGED <<tx, rx, next_xfer_id, net, delivered>>
        BY <1>8 DEF FinishFailedLoad
    <2>2. \A h \in Guests : finished'[h] = finished[h] \/ finished'[h] = 0
        BY <2>1 DEF TypeOK
    <2> QED BY <2>1, <2>2, TransferStep
<1>9. ASSUME NEW g \in Guests, NEW yes \in BOOLEAN, ProbeReply(g, yes) PROVE TransferInv'
    <2>1. net' = net \cup {Reply(g, probe[g].what, yes)} /\ UNCHANGED <<transferVars, delivered>>
        BY <1>9 DEF ProbeReply
    <2> QED BY <2>1, TransferFrame DEF Reply
<1>10. ASSUME NEW m \in net, OnAck(m) PROVE TransferInv'
    <2>1. tx \in TxState /\ tx.active /\ m.type = "ACK" /\ m.id = tx.id
        BY <1>10, TxActive DEF OnAck
    <2>2. m.from \in Guests
        BY <2>1, PacketFields DEF TypeOK
    <2>3. /\ tx'.id = tx.id /\ tx'.total = tx.total
          /\ tx'.ready => m.bytes >= tx.total
          /\ UNCHANGED <<rx, next_xfer_id, finished, delivered, net>>
        BY <1>10, <2>1 DEF OnAck, Arrives, TxState
    <2>4. Begin(tx.id, tx.total) \in net /\ tx.total \in Sizes
        BY <2>1 DEF TransferInv, TxTrue, TxState
    <2>5. m.bytes >= tx.total => tx.id \in delivered[m.from]
        BY <2>1, <2>4 DEF TransferInv, NetTrue, AckTrue
    <2>6. TxTrue'
        BY <2>2, <2>3, <2>4, <2>5 DEF TxTrue
    <2> QED BY <2>3, <2>6, TransferStep
<1>11. ASSUME NEW m \in net, OnProbeReply(m) PROVE TransferInv'
    BY <1>11, TransferFrame DEF OnProbeReply, Arrives
<1>12. ASSUME NEW m \in net, NEW g \in Guests, OnBegin(g, m) PROVE TransferInv'
    <2>1. /\ m \in Packet /\ m.type = "BEGIN" /\ m.id \in Nat /\ m.total \in Sizes
          /\ m.total \in Nat \ {0} /\ m = Begin(m.id, m.total)
        BY <1>12, PacketFields, ProfileType DEF OnBegin, TypeOK
    <2>2. m.id \in 1 .. next_xfer_id /\ next_xfer_id \in Nat
        BY <2>1 DEF TransferInv, NetTrue, IdTrue, TypeOK
    <2>3. \A k \in Nat : /\ IdTrue(Ack(g, m.id, k))
                         /\ Ack(g, m.id, k).type = "ACK"
                         /\ Ack(g, m.id, k).id = m.id
                         /\ Ack(g, m.id, k).bytes = k
                         /\ Ack(g, m.id, k).from = g
        BY <2>2 DEF IdTrue, Ack
    <2>4. \A n \in Sizes : Begin(m.id, n) \in net => n = m.total
        BY <2>1 DEF TransferInv, BeginsAgree
    <2>5. ASSUME NEW k \in Nat, net' = net \cup {Ack(g, m.id, k)},
                 k >= m.total => m.id \in delivered[g], delivered' = delivered
          PROVE  /\ \A a \in net' : a \in net \/ (IdTrue(a) /\ AckTrue(a)')
                 /\ \A a \in net' : a.type = "BEGIN" => a \in net
        <3>1. \A n \in Sizes : Begin(m.id, n) \in net' => n = m.total
            BY <2>3, <2>4, <2>5 DEF Begin
        <3>2. AckTrue(Ack(g, m.id, k))'
            BY <2>3, <2>5, <3>1 DEF AckTrue
        <3> QED BY <2>3, <2>5, <3>2
    <2>6. CASE ReAck(g, m)
        <3>1. m.id = finished[g] /\ m.id \in delivered[g]
            BY <2>2, <2>6 DEF ReAck, TransferInv, FinishedTrue
        <3>2. net' = net \cup {Ack(g, m.id, m.total)} /\ UNCHANGED <<transferVars, delivered>>
            BY <2>6 DEF ReAck, Arrives
        <3> QED BY <2>1, <2>5, <3>1, <3>2, TransferStep DEF transferVars
    <2>7. CASE AckAgain(g, m)
        <3>1. rx[g].active /\ rx[g].id = m.id /\ rx[g] \in RxState
            BY <2>7, RxActive DEF AckAgain
        <3>2. /\ rx[g].total \in Sizes /\ rx[g].contiguity \in 0 .. rx[g].total
              /\ rx[g].total \in Nat /\ rx[g].contiguity \in Nat
            BY <3>1, RxFields
        <3>3. rx[g].total = m.total
            BY <2>4, <3>1, <3>2 DEF TransferInv, RxTrue
        <3>4. rx[g].contiguity >= m.total => m.id \in delivered[g]
            BY <3>1, <3>2, <3>3 DEF TransferInv, RxTrue
        <3>5. net' = net \cup {Ack(g, m.id, rx[g].contiguity)} /\ UNCHANGED <<transferVars, delivered>>
            BY <2>7 DEF AckAgain, Arrives
        <3> QED BY <2>5, <3>2, <3>4, <3>5, TransferStep DEF transferVars
    <2>8. CASE Open(g, m)
        <3>1. /\ net' = net \cup {Ack(g, m.id, 0)}
              /\ rx' = [rx EXCEPT ![g] =
                          [active |-> TRUE, ready |-> FALSE, id |-> m.id, total |-> m.total,
                           contiguity |-> 0, buf |-> [i \in 0 .. m.total - 1 |-> 0], bits |-> {}]]
              /\ UNCHANGED <<tx, next_xfer_id, finished, delivered>>
            BY <2>8 DEF Open, Arrives
        <3>2. /\ rx'[g].id = m.id /\ rx'[g].total = m.total /\ ~rx'[g].ready
              /\ rx'[g].contiguity = 0 /\ rx'[g].bits = {}
            BY <3>1 DEF TypeOK
        <3>3. RxTrue(g)'
            BY <2>1, <3>1, <3>2 DEF RxTrue
        <3>4. \A h \in Guests : rx'[h] = rx[h] \/ RxTrue(h)'
            BY <3>1, <3>3 DEF TypeOK
        <3>5. ~(0 >= m.total)
            BY <2>1
        <3> QED BY <2>5, <3>1, <3>4, <3>5, TransferStep
    <2> QED BY <1>12, <2>6, <2>7, <2>8 DEF OnBegin
<1>13. ASSUME NEW m \in net, NEW g \in Guests, OnChunk(g, m) PROVE TransferInv'
    <2> DEFINE n == Contiguous(rx[g], rx[g].bits \cup {m.off})
               a == Ack(g, rx[g].id, n)
    <2>1. /\ n \in rx[g].contiguity .. rx[g].total
          /\ rx' = [rx EXCEPT ![g] = [Taken(g, m) EXCEPT !.ready = (n = rx[g].total)]]
          /\ RxTrue(g)'
          /\ n >= rx[g].total => rx[g].id \in delivered'[g]
          /\ net' = net \cup {a}
          /\ \A h \in Guests : delivered[h] \subseteq delivered'[h]
          /\ UNCHANGED <<tx, next_xfer_id, finished>>
        BY <1>13, ChunkTaken DEF OnChunk
    <2> HIDE DEF n
    <2>2. rx[g].active /\ m.type = "CHUNK" /\ m.id = rx[g].id
        BY <1>13 DEF OnChunk
    <2>3. rx[g].total \in Sizes /\ rx[g].id \in Nat
        BY <2>2, RxActive, RxFields
    <2>4. a.type = "ACK" /\ a.id = rx[g].id /\ a.bytes = n /\ a.from = g
        BY DEF Ack
    <2> HIDE DEF a
    <2>5. \A k \in Sizes : Begin(rx[g].id, k) \in net' => k = rx[g].total
        <3>1. Begin(rx[g].id, rx[g].total) \in net
            BY <2>2 DEF TransferInv, RxTrue
        <3> SUFFICES ASSUME NEW k \in Sizes, Begin(rx[g].id, k) \in net' PROVE k = rx[g].total
            OBVIOUS
        <3>2. Begin(rx[g].id, k) # a
            BY <2>4 DEF Begin
        <3>3. Begin(rx[g].id, k) \in net
            BY <2>1, <3>2
        <3> QED BY <2>3, <3>1, <3>3 DEF TransferInv, BeginsAgree
    <2>6. ASSUME NEW x \in net' PROVE x \in net \/ (IdTrue(x) /\ AckTrue(x)')
        <3> SUFFICES ASSUME x = a PROVE IdTrue(x) /\ AckTrue(x)'
            BY <2>1
        <3>1. IdTrue(x)
            BY <2>2, <2>4 DEF TransferInv, NetTrue, IdTrue
        <3>2. ASSUME NEW k \in Sizes, Begin(x.id, k) \in net', x.bytes >= k
              PROVE  x.id \in delivered'[x.from]
            BY <2>1, <2>4, <2>5, <3>2
        <3> QED BY <3>1, <3>2 DEF AckTrue
    <2>7. \A x \in net' : x.type = "BEGIN" => x \in net
        BY <2>1, <2>4
    <2>8. \A h \in Guests : rx'[h] = rx[h] \/ RxTrue(h)'
        BY <2>1 DEF TypeOK
    <2> QED BY <2>1, <2>6, <2>7, <2>8, TransferStep, SMTT(40)
<1>14. ASSUME NEW m \in net, NEW g \in Guests, OnProbe(g, m) PROVE TransferInv'
    <2>1. UNCHANGED <<transferVars, delivered>>
        BY <1>14 DEF OnProbe, Surface
    <2>2. net \subseteq net' /\ \A a \in net' : a \in net \/ a.type = "REPLY"
        BY <1>14 DEF OnProbe, Surface, Arrives, Reply
    <2> QED BY <2>1, <2>2, TransferFrame
<1>15. ASSUME NEW m \in net, Lose(m) PROVE TransferInv'
    BY <1>15, TransferFrame DEF Lose
<1> QED BY <1>0, <1>1, <1>2, <1>3, <1>4, <1>5, <1>6, <1>7, <1>8, <1>9, <1>10, <1>11, <1>12,
           <1>13, <1>14, <1>15, ProfileType DEF SessionStep, Next, Step, HostStep, GuestStep, Receive

-----------------------------------------------------------------------------
(* The stall, and the answer to a probe *)

\* A guest's transfer has ended its probe, and keeps another from opening.
Exclusive == \A g \in Guests : rx[g].active => ~probe[g].active

ProbeInv == Exclusive /\ TransferStalls /\ ReplyIsAnswer

LEMMA ProbeInit == Init => ProbeInv
BY DEF Init, ProbeInv, Exclusive, TransferStalls, ReplyIsAnswer, Nothing, Slots

\* The host's part and the guests' part are of different slots.
LEMMA SlotsDiffer ==
    /\ Host \in Slots
    /\ \A g \in Guests : g \in Slots /\ g # Host
BY ProfileType DEF Slots

\* An answer stays where it is: only chunks and ACKs are lost.
LEMMA AnswerStays ==
    ASSUME ReplyIsAnswer, UNCHANGED probe,
           \A m \in net : m.type = "REPLY" => m \in net'
    PROVE  ReplyIsAnswer'
BY DEF ReplyIsAnswer, Reply

\* What a step of the host, or one of a guest, must show.
LEMMA HostProbeStep ==
    ASSUME TypeOK, Exclusive, TransferStalls, UNCHANGED rx,
           \A g \in Guests : probe'[g] = probe[g] /\ stall'[g] = stall[g],
           tx'.active => stall'[Host],
           ReplyIsAnswer'
    PROVE  ProbeInv'
BY DEF ProbeInv, Exclusive, TransferStalls

LEMMA GuestProbeStep ==
    ASSUME TypeOK, Exclusive, TransferStalls, ReplyIsAnswer, UNCHANGED tx, NEW g \in Guests,
           \A h \in Slots : h # g => probe'[h] = probe[h] /\ stall'[h] = stall[h],
           \A h \in Guests : h # g => rx'[h].active = rx[h].active,
           rx'[g].active => ~probe'[g].active /\ stall'[g],
           \A m \in net : m.type = "REPLY" => m \in net'
    PROVE  ProbeInv'
<1>1. probe'[Host] = probe[Host] /\ stall'[Host] = stall[Host]
    BY SlotsDiffer
<1>2. ReplyIsAnswer'
    BY <1>1 DEF ReplyIsAnswer, Reply
<1>3. TransferStalls'
    BY <1>1, SlotsDiffer DEF TransferStalls
<1>4. Exclusive'
    BY SlotsDiffer DEF Exclusive
<1> QED BY <1>2, <1>3, <1>4 DEF ProbeInv

LEMMA ProbeInvStep ==
    ASSUME TypeOK, ProbeInv, SessionStep
    PROVE  ProbeInv'
<1> USE SlotsDiffer
<1>a. Exclusive /\ TransferStalls /\ ReplyIsAnswer
    BY DEF ProbeInv
<1>0. ASSUME UNCHANGED vars PROVE ProbeInv'
    BY <1>0 DEF vars, transferVars, ProbeInv, Exclusive, TransferStalls, ReplyIsAnswer
<1>1. ASSUME NEW n \in Sizes, StateBegin(n) PROVE ProbeInv'
    <2>1. /\ probe' = [probe EXCEPT ![Host] = Nothing]
          /\ stall' = [stall EXCEPT ![Host] = TRUE]
          /\ UNCHANGED rx
        BY <1>1 DEF StateBegin
    <2>2. ~probe'[Host].active /\ stall'[Host]
        BY <2>1 DEF TypeOK, Nothing
    <2>3. ReplyIsAnswer'
        BY <2>2 DEF ReplyIsAnswer
    <2> QED BY <1>a, <2>1, <2>2, <2>3, HostProbeStep DEF TypeOK
<1>2. ASSUME Pump PROVE ProbeInv'
    <2>1. tx \in TxState /\ tx.active
        BY <1>2, TxActive DEF Pump
    <2>2. net \subseteq net'
        BY <1>2, <2>1, DriveSenderDoes DEF Pump, TypeOK
    <2>3. ReplyIsAnswer'
        BY <1>2, <1>a, <2>2, AnswerStays DEF Pump
    <2> QED BY <1>2, <1>a, <2>1, <2>3, HostProbeStep DEF Pump, TransferStalls
<1>3. ASSUME HostFinish PROVE ProbeInv'
    <2>1. ReplyIsAnswer'
        BY <1>3, <1>a, AnswerStays DEF HostFinish
    <2>2. ~tx'.active
        BY <1>3 DEF HostFinish, Nothing
    <2> QED BY <1>3, <1>a, <2>1, <2>2, HostProbeStep DEF HostFinish, TypeOK
<1>4. ASSUME NEW w \in Probe, StateProbe(w) PROVE ProbeInv'
    <2>1. ~tx'.active
        BY <1>4 DEF StateProbe, transferVars
    <2>2. ~probe'[Host].replied
        BY <1>4 DEF StateProbe, TypeOK
    <2>3. ReplyIsAnswer'
        BY <2>2 DEF ReplyIsAnswer
    <2> QED BY <1>4, <1>a, <2>1, <2>3, HostProbeStep DEF StateProbe, TypeOK, transferVars
<1>5. ASSUME DriveProbe PROVE ProbeInv'
    <2>1. ReplyIsAnswer'
        BY <1>5, <1>a, AnswerStays DEF DriveProbe
    <2> QED BY <1>5, <1>a, <2>1, HostProbeStep DEF DriveProbe, transferVars, TransferStalls
<1>6. ASSUME ProbeFinish PROVE ProbeInv'
    <2>1. /\ probe' = [probe EXCEPT ![Host] = Nothing]
          /\ stall' = [stall EXCEPT ![Host] = @ /\ tx.active]
          /\ UNCHANGED transferVars
        BY <1>6 DEF ProbeFinish
    <2>2. ~probe'[Host].active
        BY <2>1 DEF TypeOK, Nothing
    <2>3. ReplyIsAnswer'
        BY <2>2 DEF ReplyIsAnswer
    <2>4. tx'.active => stall'[Host]
        BY <1>a, <2>1 DEF TypeOK, TransferStalls, transferVars
    <2> QED BY <1>a, <2>1, <2>3, <2>4, HostProbeStep DEF TypeOK, transferVars
<1>7. ASSUME NEW g \in Guests, GuestFinish(g) PROVE ProbeInv'
    <2>1. /\ rx' = [rx EXCEPT ![g] = Nothing]
          /\ stall' = [stall EXCEPT ![g] = probe[g].active]
          /\ UNCHANGED <<tx, net, probe>>
        BY <1>7 DEF GuestFinish
    <2>2. ~rx'[g].active
        BY <2>1 DEF TypeOK, Nothing
    <2> QED BY <1>a, <2>1, <2>2, GuestProbeStep DEF TypeOK
<1>8. ASSUME NEW g \in Guests, FinishFailedLoad(g) PROVE ProbeInv'
    <2>1. /\ ~rx[g].active
          /\ stall' = [stall EXCEPT ![g] = probe[g].active]
          /\ UNCHANGED <<tx, rx, net, probe>>
        BY <1>8 DEF FinishFailedLoad
    <2> QED BY <1>a, <2>1, GuestProbeStep DEF TypeOK
<1>9. ASSUME NEW g \in Guests, NEW yes \in BOOLEAN, ProbeReply(g, yes) PROVE ProbeInv'
    <2>1. probe[g].active /\ UNCHANGED transferVars
        BY <1>9 DEF ProbeReply
    <2>2. ~rx'[g].active
        BY <1>a, <2>1 DEF Exclusive, transferVars
    <2>3. \A h \in Slots : h # g => probe'[h] = probe[h] /\ stall'[h] = stall[h]
        BY <1>9 DEF ProbeReply, TypeOK
    <2>4. net \subseteq net'
        BY <1>9 DEF ProbeReply
    <2> QED BY <1>a, <2>1, <2>2, <2>3, <2>4, GuestProbeStep DEF transferVars
<1>10. ASSUME NEW m \in net, OnAck(m) PROVE ProbeInv'
    <2>1. tx \in TxState /\ tx.active
        BY <1>10, TxActive DEF OnAck
    <2>2. net' = net /\ UNCHANGED <<rx, probe, stall>>
        BY <1>10 DEF OnAck, Arrives
    <2>3. ReplyIsAnswer'
        BY <1>a, <2>2, AnswerStays
    <2> QED BY <1>a, <2>1, <2>2, <2>3, HostProbeStep DEF TransferStalls
<1>11. ASSUME NEW m \in net, OnProbeReply(m) PROVE ProbeInv'
    <2>1. /\ probe[Host] \in ProbeState /\ m \in Packet /\ m.type = "REPLY"
          /\ m.what = probe[Host].what
          /\ net' = net /\ UNCHANGED <<transferVars, stall>>
        BY <1>11, ProbeActive DEF OnProbeReply, Arrives, TypeOK
    <2>2. m.from \in Guests /\ m = Reply(m.from, m.what, m.match)
        BY <2>1, PacketFields
    <2>3. probe' = [probe EXCEPT ![Host] = [@ EXCEPT !.match = m.match, !.replied = TRUE]]
        BY <1>11 DEF OnProbeReply
    <2>4. probe'[Host].what = probe[Host].what /\ probe'[Host].match = m.match
        BY <2>1, <2>3 DEF TypeOK, ProbeState
    <2>5. ReplyIsAnswer'
        BY <2>1, <2>2, <2>4 DEF ReplyIsAnswer
    <2> QED BY <1>a, <2>1, <2>3, <2>5, HostProbeStep DEF TypeOK, transferVars, TransferStalls
<1>12. ASSUME NEW m \in net, NEW g \in Guests, OnBegin(g, m) PROVE ProbeInv'
    <2>1. CASE ReAck(g, m) \/ AckAgain(g, m)
        <3>1. net \subseteq net' /\ UNCHANGED <<tx, rx, probe, stall>>
            BY <2>1 DEF ReAck, AckAgain, Arrives, transferVars
        <3> QED BY <1>a, <3>1, GuestProbeStep DEF Exclusive, TransferStalls
    <2>2. CASE Open(g, m)
        <3>1. /\ probe' = [probe EXCEPT ![g] = Nothing]
              /\ stall' = [stall EXCEPT ![g] = TRUE]
              /\ net \subseteq net'
              /\ UNCHANGED tx
              /\ \A h \in Guests : h # g => rx'[h] = rx[h]
            BY <2>2 DEF Open, Arrives, TypeOK
        <3>2. ~probe'[g].active /\ stall'[g]
            BY <3>1 DEF TypeOK, Nothing
        <3> QED BY <1>a, <3>1, <3>2, GuestProbeStep DEF TypeOK
    <2> QED BY <1>12, <2>1, <2>2 DEF OnBegin
<1>13. ASSUME NEW m \in net, NEW g \in Guests, OnChunk(g, m) PROVE ProbeInv'
    <2>1. /\ net \subseteq net' /\ rx[g].active
          /\ \A h \in Guests : h # g => rx'[h] = rx[h]
          /\ UNCHANGED <<tx, probe, stall>>
        BY <1>13 DEF OnChunk, Arrives, TypeOK
    <2> QED BY <1>a, <2>1, GuestProbeStep DEF Exclusive, TransferStalls
<1>14. ASSUME NEW m \in net, NEW g \in Guests, OnProbe(g, m) PROVE ProbeInv'
    <2>1. ~rx[g].active /\ UNCHANGED transferVars
        BY <1>14 DEF OnProbe, Surface
    <2>2. \A h \in Slots : h # g => probe'[h] = probe[h] /\ stall'[h] = stall[h]
        BY <1>14 DEF OnProbe, Surface, TypeOK
    <2>3. net \subseteq net'
        BY <1>14 DEF OnProbe, Surface, Arrives
    <2> QED BY <1>a, <2>1, <2>2, <2>3, GuestProbeStep DEF transferVars
<1>15. ASSUME NEW m \in net, Lose(m) PROVE ProbeInv'
    <2>1. \A a \in net : a.type = "REPLY" => a \in net'
        BY <1>15 DEF Lose
    <2>2. ReplyIsAnswer'
        BY <1>15, <1>a, <2>1, AnswerStays DEF Lose
    <2> QED BY <1>15, <1>a, <2>2, HostProbeStep DEF Lose, transferVars, TransferStalls
<1> QED BY <1>0, <1>1, <1>2, <1>3, <1>4, <1>5, <1>6, <1>7, <1>8, <1>9, <1>10, <1>11, <1>12,
           <1>13, <1>14, <1>15, ProfileType DEF SessionStep, Next, Step, HostStep, GuestStep, Receive

-----------------------------------------------------------------------------
(* The theorems *)

IInv == TypeOK /\ TransferInv /\ ProbeInv

\* A chunk that was received holds the host's bytes, so a blob all of whose
\* chunks are in is ready.
LEMMA WholeIsIntact ==
    ASSUME TypeOK, TransferInv
    PROVE  WholeBlobIsIntact
<1> SUFFICES ASSUME NEW g \in Guests, rx[g].active, rx[g].bits = 0 .. rx[g].total - 1
             PROVE  rx[g].ready /\ Intact(rx[g])
    BY DEF WholeBlobIsIntact
<1>1. /\ rx[g].total \in Nat \ {0} /\ rx[g].contiguity \in 0 .. rx[g].total
      /\ rx[g].buf \in [0 .. rx[g].total - 1 -> Nat]
    BY RxActive, RxFields
<1>2. RxTrue(g)
    BY DEF TransferInv
<1>3. Intact(rx[g])
    BY <1>1, <1>2 DEF Intact, RxTrue
<1>4. rx[g].contiguity = rx[g].total
    BY <1>1, <1>2 DEF RxTrue
<1> QED BY <1>2, <1>3, <1>4 DEF RxTrue

\* The strengthened invariant holds in every reachable state.
THEOREM Invariance == Spec => []IInv
<1>1. Init => IInv
    BY TypeInit, TransferInit, ProbeInit DEF IInv
<1>2. IInv /\ [Next]_vars => IInv'
    BY TypeStep, TransferInvStep, ProbeInvStep DEF IInv, SessionStep
<1> QED BY <1>1, <1>2, PTL DEF Spec

\* Type correctness of the session's transfer state, of every size and pace.
THEOREM TypeCorrect == Spec => []TypeOK
<1>1. IInv => TypeOK
    BY DEF IInv
<1> QED BY <1>1, Invariance, PTL

\* A blob all of whose chunks a guest has is the host's blob, checked and ready:
\* state_mark_ready_if_complete never meets a checksum that fails.
THEOREM WholeIsTheHosts == Spec => []WholeBlobIsIntact
<1>1. IInv => WholeBlobIsIntact
    BY WholeIsIntact DEF IInv
<1> QED BY <1>1, Invariance, PTL

\* While a transfer is open on a side, no probe, reply or finish lets its sim run.
THEOREM AdmitStalls == Spec => []TransferStalls
<1>1. IInv => TransferStalls
    BY DEF IInv, ProbeInv
<1> QED BY <1>1, Invariance, PTL

\* The match the host acts on was said by a guest of the probe that is out.
THEOREM AnswerIsToTheProbe == Spec => []ReplyIsAnswer
<1>1. IInv => ReplyIsAnswer
    BY DEF IInv, ProbeInv
<1> QED BY <1>1, Invariance, PTL

SomeGuestHasIt == tx.active /\ tx.ready => \E g \in Guests : tx.id \in delivered[g]

\* A transfer the host takes for complete is one that some guest had whole,
\* checksum and all.  With several guests it need not be every guest.
THEOREM ReadyIsSomeones == Spec => []SomeGuestHasIt
<1>1. IInv => SomeGuestHasIt
    BY DEF IInv, TransferInv, TxTrue, SomeGuestHasIt
<1> QED BY <1>1, Invariance, PTL

\* In a session of two, the host goes on only when the guest has the blob.
THEOREM ReadyIsDelivered ==
    ASSUME NEW g, Guests = {g}
    PROVE  Spec => []ReadyMeansDelivered
<1>1. IInv => ReadyMeansDelivered
    BY DEF IInv, TransferInv, TxTrue, ReadyMeansDelivered
<1> QED BY <1>1, Invariance, PTL
=============================================================================
