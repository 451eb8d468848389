---------------------------- MODULE StateTransfer ----------------------------
(***************************************************************************)
(* How a recomp-net host gets a savestate to its guests: STATE_PROBE and   *)
(* its reply, STATE_BEGIN / STATE_CHUNK / STATE_ACK, the pacing of the     *)
(* chunks, and the stall of the sim meanwhile (rnet_session.c:712-1268,    *)
(* 2397-2722).                                                             *)
(*                                                                         *)
(* The calls of the game's netplay loop are actions too, in any order the  *)
(* return codes of the session allow.  Sizes are in chunks; each transfer  *)
(* carries a blob of its own, so a chunk's data is the transfer it is of.  *)
(* net is what is under way: a datagram may be lost, may arrive late, and  *)
(* may arrive again.  Time only puts repetitions off: a retransmission or  *)
(* an ACK timeout may come at any moment.                                  *)
(***************************************************************************)
EXTENDS Integers, FiniteSets

CONSTANTS
    Guests,         \* the slots but 0
    Sizes,          \* sizes a blob may have
    Probes,         \* what may be probed: op, slot, size and crc
    PaceMin,        \* cwnd and chunks per pump: the least,
    PaceStart,      \* ... at first,
    PaceMax,        \* ... at most,
    PaceStep,       \* ... and what an advancing ACK adds.  On a LAN the first
                    \* three are the same.
    MaxXfer         \* bound: transfers begun

Host == 0
Slots == {Host} \cup Guests
Pace == [cwnd : Nat \ {0}, chunks : Nat \ {0}]
Probe == [op : {"SAVE", "LOAD", "SRAM", "RB_KF", "BOOT"}, slot : Nat, size : Nat, crc : Nat]

ASSUME TransferAssumption ==
    /\ Guests \subseteq Nat \ {Host}
    /\ Sizes \subseteq Nat \ {0}
    /\ Probes \subseteq Probe
    /\ {PaceMin, PaceStart, PaceMax, PaceStep} \subseteq Pace
    /\ MaxXfer \in Nat

VARIABLES
    tx,             \* the host's transfer
    rx,             \* rx[g]: g's transfer
    probe,          \* probe[p]: the probe p has sent, or was sent
    stall,          \* state_stall_sim
    next_xfer_id,
    finished,       \* state_finished_xfer_id (the host's is never read)
    sticky,         \* state_sticky_cwnd, state_sticky_chunks
    net,
    delivered       \* history: the transfers g received whole, checksum and all

transferVars == <<tx, rx, next_xfer_id, finished, sticky>>
vars == <<transferVars, probe, stall, net, delivered>>

Nothing == [active |-> FALSE]
NoPace  == [cwnd |-> 0, chunks |-> 0]

ProbeState == [active : {TRUE}, pending : BOOLEAN, replied : BOOLEAN,
               match : BOOLEAN, what : Probe]
TxState == [active : {TRUE}, ready : BOOLEAN, id : Nat, total : Sizes, ack : Nat,
            cursor : Nat, timed : BOOLEAN, pace : Pace]
RxState == UNION {[active : {TRUE}, ready : BOOLEAN, id : Nat, total : {n},
                   contiguity : 0 .. n, buf : [0 .. n - 1 -> Nat],
                   bits : SUBSET (0 .. n - 1)] : n \in Sizes}
Packet == [type : {"BEGIN"}, id : Nat, total : Sizes] \cup
          [type : {"CHUNK"}, id : Nat, off : Nat] \cup
          [type : {"ACK"}, from : Guests, id : Nat, bytes : Nat] \cup
          [type : {"PROBE"}, what : Probe] \cup
          [type : {"REPLY"}, from : Guests, what : Probe, match : BOOLEAN]

TypeOK ==
    /\ tx \in TxState \cup {Nothing}
    /\ rx \in [Guests -> RxState \cup {Nothing}]
    /\ probe \in [Slots -> ProbeState \cup {Nothing}]
    /\ stall \in [Slots -> BOOLEAN]
    /\ next_xfer_id \in Nat
    /\ finished \in [Guests -> Nat]
    /\ sticky \in Pace \cup {NoPace}
    /\ net \subseteq Packet
    /\ delivered \in [Guests -> SUBSET Nat]

Init ==
    /\ tx = Nothing
    /\ rx = [g \in Guests |-> Nothing]
    /\ probe = [p \in Slots |-> Nothing]
    /\ stall = [p \in Slots |-> FALSE]
    /\ next_xfer_id = 0
    /\ finished = [g \in Guests |-> 0]
    /\ sticky = NoPace
    /\ net = {}
    /\ delivered = [g \in Guests |-> {}]

-----------------------------------------------------------------------------
(* Datagrams *)

Begin(id, n)     == [type |-> "BEGIN", id |-> id, total |-> n]
Chunk(id, off)   == [type |-> "CHUNK", id |-> id, off |-> off]
Ack(g, id, n)    == [type |-> "ACK", from |-> g, id |-> id, bytes |-> n]
AskProbe(w)      == [type |-> "PROBE", what |-> w]
Reply(g, w, yes) == [type |-> "REPLY", from |-> g, what |-> w, match |-> yes]

\* A datagram in net may arrive now, later, again, or never.  Those whose
\* repetition the liveness is about are taken out when they are lost.
Arrives(m, sent) == m \in net /\ net' = net \cup sent

Lose(m) ==
    /\ m.type \in {"CHUNK", "ACK"}
    /\ net' = net \ {m}
    /\ UNCHANGED <<transferVars, probe, stall, delivered>>

-----------------------------------------------------------------------------
(* Pacing: additive increase, multiplicative decrease, a sticky warm start *)

Least(a, b)    == IF a <= b THEN a ELSE b
Greatest(a, b) == IF a >= b THEN a ELSE b

AtMost(p, q)  == [cwnd |-> Least(p.cwnd, q.cwnd), chunks |-> Least(p.chunks, q.chunks)]
AtLeast(p, q) == [cwnd |-> Greatest(p.cwnd, q.cwnd), chunks |-> Greatest(p.chunks, q.chunks)]
Half(p)       == [cwnd |-> p.cwnd \div 2, chunks |-> p.chunks \div 2]

StartPace == AtMost(AtLeast(sticky, PaceStart), PaceMax)
Faster(p) ==
    AtMost([cwnd |-> p.cwnd + PaceStep.cwnd, chunks |-> p.chunks + PaceStep.chunks], PaceMax)

\* Mutant: no floor.
Slower_NoFloor(p) == Half(p)

Slower(p) == AtLeast(Half(p), PaceMin)

-----------------------------------------------------------------------------
(* The host *)

\* Where the chunks sent in one pump end.
WindowEnd(t, from) ==
    Least(Least(t.ack + t.pace.cwnd, t.total), from + t.pace.chunks)

\* Mutant: an ACK timeout does not rewind.
DriveSender_NoRewind(t) ==
    LET from == Greatest(t.cursor, t.ack)
        upto == Greatest(from, WindowEnd(t, from))
    IN  /\ tx' = [t EXCEPT !.cursor = upto]
        /\ net' = net \cup (IF t.ack = 0 THEN {Begin(t.id, t.total)} ELSE {})
                     \cup {Chunk(t.id, i) : i \in from .. upto - 1}
        /\ UNCHANGED sticky

\* state_drive_sender for the transfer t.  An ACK timeout, which needs an ACK
\* to run from, rewinds the cursor; BEGIN is repeated until a chunk is
\* acknowledged.  state_on_ack has marked a wholly acknowledged transfer ready.
DriveSender(t) ==
    \E rewind \in {FALSE, t.timed} :
        LET paced == IF rewind THEN [t EXCEPT !.pace = Slower(@)] ELSE t
            from  == IF rewind THEN t.ack ELSE Greatest(t.cursor, t.ack)
            upto  == Greatest(from, WindowEnd(paced, from))
        IN  /\ tx' = [paced EXCEPT !.cursor = upto]
            /\ sticky' = IF rewind THEN AtMost(sticky, paced.pace) ELSE sticky
            /\ net' = net \cup (IF t.ack = 0 THEN {Begin(t.id, t.total)} ELSE {})
                          \cup {Chunk(t.id, i) : i \in from .. upto - 1}

\* rnet_session_state_begin, which sends the first window too.
StateBegin(n) ==
    /\ ~tx.active
    /\ next_xfer_id < MaxXfer
    /\ next_xfer_id' = next_xfer_id + 1
    /\ probe' = [probe EXCEPT ![Host] = Nothing]
    /\ stall' = [stall EXCEPT ![Host] = TRUE]
    /\ DriveSender([active |-> TRUE, ready |-> FALSE, id |-> next_xfer_id + 1, total |-> n,
                    ack |-> 0, cursor |-> 0, timed |-> FALSE, pace |-> StartPace])
    /\ UNCHANGED <<rx, finished, delivered>>

\* rnet_session_pump while a transfer is under way.
Pump ==
    /\ tx.active /\ ~tx.ready
    /\ DriveSender(tx)
    /\ UNCHANGED <<rx, next_xfer_id, finished, probe, stall, delivered>>

\* Mutant: an ACK of any transfer counts.
OnAck_AnyTransfer(m) ==
    /\ tx.active
    /\ Arrives(m, {})
    /\ m.type = "ACK" /\ m.bytes > tx.ack
    /\ tx' = [tx EXCEPT !.ack = Least(m.bytes, tx.total), !.timed = TRUE,
                        !.ready = @ \/ m.bytes >= tx.total]
    /\ UNCHANGED <<rx, next_xfer_id, finished, sticky, probe, stall, delivered>>

\* state_on_ack and state_mark_ready_if_complete.
OnAck(m) ==
    /\ tx.active
    /\ Arrives(m, {})
    /\ m.type = "ACK" /\ m.id = tx.id /\ m.bytes > tx.ack
    /\ LET pace == Faster(tx.pace)
           done == m.bytes >= tx.total
       IN  /\ tx' = [tx EXCEPT !.ack = Least(m.bytes, tx.total), !.timed = TRUE,
                               !.ready = done, !.pace = pace]
           /\ sticky' = IF done THEN AtLeast(sticky, pace) ELSE sticky
    /\ UNCHANGED <<rx, next_xfer_id, finished, probe, stall, delivered>>

\* rnet_session_state_finish once take_ready has handed the transfer over.
HostFinish ==
    /\ tx.active /\ tx.ready
    /\ tx' = Nothing
    /\ stall' = [stall EXCEPT ![Host] = probe[Host].active]
    /\ UNCHANGED <<rx, next_xfer_id, finished, sticky, probe, net, delivered>>

-----------------------------------------------------------------------------
(* A guest's transfer *)

\* state_probe_clear: only a transfer keeps the sim stalled.
ClearedStall(g) == stall[g] /\ rx[g].active

\* state_on_begin.
ReAck(g, m) ==
    /\ m.id = finished[g]
    /\ Arrives(m, {Ack(g, m.id, m.total)})
    /\ UNCHANGED <<transferVars, probe, stall, delivered>>

AckAgain(g, m) ==
    /\ m.id # finished[g]
    /\ rx[g].active /\ rx[g].id = m.id
    /\ Arrives(m, {Ack(g, m.id, rx[g].contiguity)})
    /\ UNCHANGED <<transferVars, probe, stall, delivered>>

Open(g, m) ==
    /\ m.id # finished[g]
    /\ rx[g].active => rx[g].id # m.id
    /\ Arrives(m, {Ack(g, m.id, 0)})
    /\ rx' = [rx EXCEPT ![g] =
                [active |-> TRUE, ready |-> FALSE, id |-> m.id, total |-> m.total,
                 contiguity |-> 0, buf |-> [i \in 0 .. m.total - 1 |-> 0], bits |-> {}]]
    /\ probe' = [probe EXCEPT ![g] = Nothing]
    /\ stall' = [stall EXCEPT ![g] = TRUE]
    /\ UNCHANGED <<tx, next_xfer_id, finished, sticky, delivered>>

OnBegin(g, m) == m.type = "BEGIN" /\ (ReAck(g, m) \/ AckAgain(g, m) \/ Open(g, m))

\* Mutant: one chunk further at most.
Contiguous_Single(r, bits) ==
    IF r.contiguity \in bits THEN r.contiguity + 1 ELSE r.contiguity

\* state_rx_advance_contiguity: up to the first chunk not received.
Contiguous(r, bits) ==
    CHOOSE n \in r.contiguity .. r.total :
        /\ r.contiguity .. n - 1 \subseteq bits
        /\ n < r.total => n \notin bits

Intact(r) == \A i \in DOMAIN r.buf : r.buf[i] = r.id

\* Mutant: a chunk of any transfer is taken.
OnChunk_AnyTransfer(g, m) ==
    /\ rx[g].active /\ m.type = "CHUNK"
    /\ m.off < rx[g].total
    /\ LET bits == rx[g].bits \cup {m.off}
           n    == Contiguous(rx[g], bits)
       IN  /\ rx' = [rx EXCEPT ![g].buf[m.off] = m.id, ![g].bits = bits, ![g].contiguity = n,
                               ![g].ready = (n = rx[g].total)]
           /\ Arrives(m, {Ack(g, m.id, n)})
    /\ UNCHANGED <<tx, next_xfer_id, finished, sticky, probe, stall, delivered>>

\* state_on_chunk and state_mark_ready_if_complete.  On a LAN an ACK within
\* 4 ms of the last is left out: one that is lost, to the host.  A blob whose
\* checksum fails is acknowledged from 0 again, with its bits left set.
OnChunk(g, m) ==
    /\ rx[g].active /\ m.type = "CHUNK"
    /\ m.id = rx[g].id
    /\ m.off < rx[g].total
    /\ LET bits == rx[g].bits \cup {m.off}
           n    == Contiguous(rx[g], bits)
           r    == [rx[g] EXCEPT !.buf[m.off] = m.id, !.bits = bits, !.contiguity = n]
           bad  == ~r.ready /\ n = r.total /\ ~Intact(r)
       IN  /\ rx' = [rx EXCEPT ![g] =
                        IF bad THEN [r EXCEPT !.contiguity = 0]
                               ELSE [r EXCEPT !.ready = (n = r.total)]]
           /\ delivered' = [delivered EXCEPT ![g] = IF rx'[g].ready THEN @ \cup {m.id} ELSE @]
           /\ Arrives(m, {Ack(g, m.id, n)} \cup (IF bad THEN {Ack(g, m.id, 0)} ELSE {}))
    /\ UNCHANGED <<tx, next_xfer_id, finished, sticky, probe, stall>>

\* state_finish, once take_ready has given the game the blob.
GuestFinish(g) ==
    /\ rx[g].active /\ rx[g].ready
    /\ finished' = [finished EXCEPT ![g] = rx[g].id]
    /\ rx' = [rx EXCEPT ![g] = Nothing]
    /\ stall' = [stall EXCEPT ![g] = probe[g].active]
    /\ UNCHANGED <<tx, next_xfer_id, sticky, probe, net, delivered>>

\* state_finish with no transfer under way, as np_drive_load_barrier calls it
\* when a load that was already taken cannot be applied (psx_netplay.c:1728).
FinishFailedLoad(g) ==
    /\ ~rx[g].active /\ delivered[g] # {}
    /\ finished' = [finished EXCEPT ![g] = 0]
    /\ stall' = [stall EXCEPT ![g] = probe[g].active]
    /\ UNCHANGED <<tx, rx, next_xfer_id, sticky, probe, net, delivered>>

-----------------------------------------------------------------------------
(* Probes *)

\* rnet_session_state_probe: a size of 0 coordinates a save, or says "ready".
StateProbe(w) ==
    /\ ~tx.active
    /\ probe[Host].active => probe[Host].replied
    /\ probe' = [probe EXCEPT ![Host] = [active |-> TRUE, pending |-> FALSE, replied |-> FALSE,
                                         match |-> FALSE, what |-> w]]
    /\ stall' = [stall EXCEPT ![Host] = w.size # 0]
    /\ net' = net \cup {AskProbe(w)}
    /\ UNCHANGED <<transferVars, delivered>>

\* state_drive_probe: the probe is repeated until it is answered.
DriveProbe ==
    /\ probe[Host].active /\ ~probe[Host].replied
    /\ net' = net \cup {AskProbe(probe[Host].what)}
    /\ UNCHANGED <<transferVars, probe, stall, delivered>>

\* state_on_probe: answered before, or new.
Surface(g, m) ==
    /\ m.type = "PROBE"
    /\ IF probe[g].active /\ ~probe[g].pending /\ probe[g].what = m.what
       THEN /\ Arrives(m, {Reply(g, m.what, probe[g].match)})
            /\ UNCHANGED <<probe, stall>>
       ELSE /\ Arrives(m, {})
            /\ probe' = [probe EXCEPT ![g] = [active |-> TRUE, pending |-> TRUE,
                                  replied |-> FALSE, match |-> FALSE, what |-> m.what]]
            /\ stall' = [stall EXCEPT ![g] = m.what.size # 0]
    /\ UNCHANGED <<transferVars, delivered>>

\* Mutant: it is taken during a transfer too.
OnProbe_Always(g, m) == Surface(g, m)

\* A transfer under way takes precedence.
OnProbe(g, m) == ~rx[g].active /\ Surface(g, m)

\* rnet_session_state_probe_reply.
ProbeReply(g, yes) ==
    /\ probe[g].active /\ probe[g].pending
    /\ LET w    == probe[g].what
           over == IF w.size = 0 THEN w.op \in {"LOAD", "BOOT"} ELSE yes
       IN  /\ net' = net \cup {Reply(g, w, yes)}
           /\ probe' = [probe EXCEPT ![g] =
                           IF over THEN Nothing ELSE [@ EXCEPT !.pending = FALSE, !.match = yes]]
           /\ stall' = [stall EXCEPT ![g] =
                           IF over THEN ClearedStall(g) ELSE @ /\ w.size # 0]
    /\ UNCHANGED <<transferVars, delivered>>

\* Mutant: a reply to any probe counts.
OnProbeReply_AnyProbe(m) ==
    /\ probe[Host].active
    /\ m.type = "REPLY"
    /\ Arrives(m, {})
    /\ probe' = [probe EXCEPT ![Host].match = m.match, ![Host].replied = TRUE]
    /\ UNCHANGED <<transferVars, stall, delivered>>

\* state_on_probe_reply: the reply must echo the probe that is out.
OnProbeReply(m) ==
    /\ probe[Host].active
    /\ m.type = "REPLY" /\ m.what = probe[Host].what
    /\ Arrives(m, {})
    /\ probe' = [probe EXCEPT ![Host].match = m.match, ![Host].replied = TRUE]
    /\ UNCHANGED <<transferVars, stall, delivered>>

\* take_reply and probe_finish.
ProbeFinish ==
    /\ probe[Host].active /\ probe[Host].replied
    /\ probe' = [probe EXCEPT ![Host] = Nothing]
    /\ stall' = [stall EXCEPT ![Host] = @ /\ tx.active]
    /\ UNCHANGED <<transferVars, net, delivered>>

-----------------------------------------------------------------------------
Receive(m) ==
    \/ OnAck(m) \/ OnProbeReply(m)
    \/ \E g \in Guests : OnBegin(g, m) \/ OnChunk(g, m) \/ OnProbe(g, m)

HostStep ==
    \/ \E n \in Sizes : StateBegin(n)
    \/ Pump
    \/ HostFinish
    \/ \E w \in Probes : StateProbe(w)
    \/ DriveProbe
    \/ ProbeFinish

GuestStep(g) ==
    \/ GuestFinish(g)
    \/ FinishFailedLoad(g)
    \/ \E yes \in BOOLEAN : ProbeReply(g, yes)

Step ==
    \/ HostStep
    \/ \E g \in Guests : GuestStep(g)
    \/ \E m \in net : Receive(m)

Next == Step \/ \E m \in net : Lose(m)

Spec == Init /\ [][Next]_vars

\* For safety a lost datagram is one that never arrives.
LateSpec == Init /\ [][Step]_vars

\* The network does not lose every copy of the chunk the host is asked for, nor
\* every acknowledgement that is news to it; the frame loop pumps on, and an ACK
\* timeout comes in the end.
Resend  == Pump /\ Chunk(tx.id, tx.ack) \in net'
GetsAck == tx.active /\ \E m \in net : OnAck(m)
GetsNext(g) == tx.active /\ OnChunk(g, Chunk(tx.id, tx.ack))
GetsBegin(g) == tx.active /\ tx.ack = 0 /\ \E n \in Sizes : OnBegin(g, Begin(tx.id, n))

Fairness ==
    /\ WF_vars(Resend) /\ WF_vars(Pump)
    /\ SF_vars(GetsAck)
    /\ \A g \in Guests : SF_vars(GetsNext(g)) /\ SF_vars(GetsBegin(g))

FairSpec == Spec /\ Fairness

-----------------------------------------------------------------------------
(* What the transfer promises *)

\* A blob whose chunks are all in is the host's, so the checksum never fails: it
\* must not, for the host has by then been acknowledged every byte and the bits
\* that would have to be asked for again stay set (rnet_session.c:924-954).
WholeBlobIsIntact ==
    \A g \in Guests :
        rx[g].active /\ rx[g].bits = 0 .. rx[g].total - 1 => rx[g].ready /\ Intact(rx[g])

\* The host's game goes on (loads, or reports the save done) only when the guest
\* has had the whole blob of this very transfer: "Both peers request apply so
\* host cannot restore before guest has bytes" (psx_netplay.c:1263).
ReadyMeansDelivered ==
    tx.active /\ tx.ready => \A g \in Guests : tx.id \in delivered[g]

\* "Admit stalls for the whole transfer" (protocol.md:95), whatever probes,
\* late ones of size 0 among them, arrive meanwhile.
TransferStalls ==
    /\ tx.active => stall[Host]
    /\ \A g \in Guests : rx[g].active => stall[g]

\* The host acts on an answer that some guest's game gave to what it asked, not
\* on a late one to an earlier probe of the same op and slot.
ReplyIsAnswer ==
    probe[Host].active /\ probe[Host].replied =>
        \E g \in Guests : Reply(g, probe[Host].what, probe[Host].match) \in net

\* A transfer the host has an acknowledgement in and the guest has not had whole
\* moves on: timeouts rewind the cursor to what is missing, at any pace.
MidTransferProgress ==
    \A n \in 1 .. MaxXfer : \A g \in Guests : \A k \in UNION {1 .. z - 1 : z \in Sizes} :
        (tx.active /\ tx.id = n /\ tx.ack = k /\ k < tx.total)
            ~> \/ ~tx.active \/ tx.id # n \/ tx.ack > k
               \/ ~rx[g].active \/ rx[g].id # n \/ n \in delivered[g]

\* A transfer begun is completed.
TransferCompletes ==
    \A n \in 1 .. MaxXfer : (tx.active /\ tx.id = n) ~> (tx.active /\ tx.id = n /\ tx.ready)
=============================================================================
