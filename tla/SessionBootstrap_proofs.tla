----------------------- MODULE SessionBootstrap_proofs -----------------------
(***************************************************************************)
(* Proofs about the bootstrap of a session, for any number of slots, any   *)
(* configured delays and any set of peers with a relay: no peer runs       *)
(* before every slot has said READY, and the delay is settled once tick 0  *)
(* is played.  BootInv is the inductive invariant: a peer knows only of    *)
(* READYs that were sent, START was said only once all of them were, and   *)
(* who has played is running.                                              *)
(***************************************************************************)
EXTENDS SessionBootstrap, TLAPS

AllReady == \A q \in Slots : Ready(q) \in net

\* A READY in peer_ready was sent: by its slot, or by the peer itself, which
\* counts itself in the pump that sends its own.
KnownReady == \A p \in Slots : \A q \in peer_ready[p] : Ready(q) \in net

\* START is on the wire only once every slot has said READY.
StartBarrier == (\E m \in net : m.type = "START") => AllReady

RunBarrier == (\E p \in Slots : phase[p] = "RUNNING") => AllReady

\* RUNNING is never left, so a peer that has played still runs.
PlayedRuns == \A p \in Slots : sim_tick[p] > 0 => phase[p] = "RUNNING"

BootInv == TypeOK /\ KnownReady /\ StartBarrier /\ RunBarrier /\ PlayedRuns

-----------------------------------------------------------------------------
(* Packets *)

\* The datagrams a peer builds are packets of their type.
LEMMA BuiltPackets ==
    ASSUME NEW p \in Slots, TypeOK
    PROVE  /\ Hello(p) \in Packet /\ Hello(p).type = "HELLO"
           /\ Ready(p) \in Packet /\ Ready(p).type = "READY"
BY DEF Hello, Ready, Packet, TypeOK

LEMMA StartIsPacket == Start \in Packet /\ Start.type = "START"
BY DEF Start, Packet

\* A READY is known by the slot it comes from, and a HELLO carries a delay.
LEMMA PacketFields ==
    ASSUME NEW m \in Packet
    PROVE  /\ m.from \in Slots
           /\ m.type = "READY" => m = Ready(m.from)
           /\ m.type = "HELLO" => m.delay \in Nat
<1>1. Authority \in Slots
  BY BootstrapAssumption DEF Authority, Slots
<1> QED
  BY <1>1 DEF Packet, Ready

-----------------------------------------------------------------------------

LEMMA InitBootInv == Init => BootInv
<1> SUFFICES ASSUME Init PROVE BootInv
  OBVIOUS
<1>1. TypeOK
  <2>1. phase \in [Slots -> {"IDLE", "LINKING", "READY", "RUNNING"}] /\ delay \in [Slots -> Nat]
    BY BootstrapAssumption DEF Init
  <2>2. /\ peer_ready \in [Slots -> SUBSET Slots] /\ sim_tick \in [Slots -> 0 .. 1]
        /\ local_ring \in [Slots -> SUBSET Nat]
    BY DEF Init
  <2>3. start_sent \in BOOLEAN /\ relay_tried \subseteq HasTurn /\ net \subseteq Packet
    BY DEF Init
  <2> QED
    BY <2>1, <2>2, <2>3 DEF TypeOK
<1>2. KnownReady
  BY DEF Init, KnownReady
<1>3. StartBarrier /\ RunBarrier /\ PlayedRuns
  BY DEF Init, StartBarrier, RunBarrier, PlayedRuns
<1> QED
  BY <1>1, <1>2, <1>3 DEF BootInv

\* What a step does to the packets on the wire: it takes none back, and what it
\* adds are packets.  Only START needs a reason.
LEMMA WireStep ==
    ASSUME NEW B \in SUBSET Packet, net' = net \cup B,
           (\E m \in B : m.type = "START") => AllReady',
           StartBarrier
    PROVE  StartBarrier' /\ (AllReady => AllReady')
BY DEF StartBarrier, AllReady, Ready

-----------------------------------------------------------------------------
(* Each operation preserves BootInv *)

LEMMA LinkStep ==
    ASSUME BootInv, NEW p \in Slots, Link(p)
    PROVE  BootInv'
<1>1. TypeOK'
  BY DEF BootInv, TypeOK, Link
<1>2. KnownReady' /\ StartBarrier'
  BY DEF BootInv, Link, KnownReady, StartBarrier, AllReady, Ready
<1>3. RunBarrier'
  BY DEF BootInv, TypeOK, Link, RunBarrier, AllReady, Ready
<1>4. PlayedRuns'
  BY DEF BootInv, TypeOK, Link, PlayedRuns
<1> QED
  BY <1>1, <1>2, <1>3, <1>4 DEF BootInv

LEMMA RelayFallbackStep ==
    ASSUME BootInv, NEW p \in Slots, RelayFallback(p)
    PROVE  BootInv'
<1>1. TypeOK'
  BY DEF BootInv, TypeOK, RelayFallback
<1>2. KnownReady' /\ StartBarrier'
  BY DEF BootInv, RelayFallback, KnownReady, StartBarrier, AllReady, Ready
<1>3. RunBarrier'
  BY DEF BootInv, TypeOK, RelayFallback, RunBarrier, AllReady, Ready
<1>4. PlayedRuns'
  BY DEF BootInv, TypeOK, RelayFallback, PlayedRuns
<1> QED
  BY <1>1, <1>2, <1>3, <1>4 DEF BootInv

\* The pump that says START knows the READY of every slot, its own included:
\* that one goes out before START in the same pump.
LEMMA BootstrapStep ==
    ASSUME BootInv, NEW p \in Slots, Bootstrap(p)
    PROVE  BootInv'
<1> DEFINE B == {Ready(p)} \cup (IF phase[p] = "LINKING" THEN {Hello(p)} ELSE {})
                          \cup (IF Starts(p) THEN {Start} ELSE {})
<1>1. B \in SUBSET Packet /\ net' = net \cup B
  BY BuiltPackets, StartIsPacket DEF BootInv, Bootstrap
<1>2. (\E m \in B : m.type = "START") => Starts(p)
  BY BuiltPackets DEF BootInv
<1>3. KnownReady'
  BY <1>1 DEF BootInv, TypeOK, Bootstrap, KnownReady, Ready
<1>4. Starts(p) => AllReady'
  BY <1>3 DEF Starts, KnownReady, AllReady, Ready
<1>5. StartBarrier' /\ (AllReady => AllReady')
  <2> HIDE DEF B
  <2> QED
    BY <1>1, <1>2, <1>4, WireStep DEF BootInv
<1>6. TypeOK'
  <2>1. phase' \in [Slots -> {"IDLE", "LINKING", "READY", "RUNNING"}]
    BY DEF BootInv, TypeOK, Bootstrap
  <2>2. peer_ready' \in [Slots -> SUBSET Slots] /\ start_sent' \in BOOLEAN
    BY DEF BootInv, TypeOK, Bootstrap, Starts
  <2>3. Seed(p, delay[p]) \in SUBSET Nat
    BY DEF BootInv, TypeOK, Seed
  <2>4. local_ring' \in [Slots -> SUBSET Nat]
    BY <2>3 DEF BootInv, TypeOK, Bootstrap
  <2>5. net' \subseteq Packet
    BY <1>1 DEF BootInv, TypeOK
  <2> QED
    BY <2>1, <2>2, <2>4, <2>5 DEF BootInv, TypeOK, Bootstrap
<1>7. RunBarrier'
  BY <1>4, <1>5 DEF BootInv, TypeOK, Bootstrap, RunBarrier
<1>8. PlayedRuns'
  BY DEF BootInv, TypeOK, Bootstrap, PlayedRuns
<1> QED
  BY <1>3, <1>5, <1>6, <1>7, <1>8 DEF BootInv

LEMMA ReceiveStep ==
    ASSUME BootInv, NEW p \in Slots, NEW m \in net, Receive(p, m)
    PROVE  BootInv'
<1>1. m \in Packet
  BY DEF BootInv, TypeOK
<1>2. net' = net /\ sim_tick' = sim_tick /\ start_sent' = start_sent /\ relay_tried' = relay_tried
  BY DEF Receive, ReceiveHello, ReceiveReady, ReceiveStart
<1>3. StartBarrier' /\ (AllReady => AllReady')
  BY <1>2 DEF BootInv, StartBarrier, AllReady, Ready
<1>4. CASE ReceiveHello(p, m)
  <2> DEFINE linked == IF phase[p] = "LINKING" THEN "READY" ELSE phase[p]
  <2>1. phase' = [phase EXCEPT ![p] = linked] /\ peer_ready' = peer_ready
    BY <1>4 DEF ReceiveHello
  <2>2. m.delay \in Nat
    BY <1>1, <1>4, PacketFields DEF ReceiveHello
  <2>3. delay' \in [Slots -> Nat]
    BY <1>4, <2>2 DEF BootInv, TypeOK, ReceiveHello
  <2>4. Seed(p, m.delay) \in SUBSET Nat
    BY <2>2 DEF BootInv, TypeOK, Seed
  <2>5. local_ring' \in [Slots -> SUBSET Nat]
    BY <1>4, <2>4 DEF BootInv, TypeOK, ReceiveHello
  <2>6. TypeOK'
    BY <1>2, <2>1, <2>3, <2>5 DEF BootInv, TypeOK
  <2>7. KnownReady'
    BY <1>2, <2>1 DEF BootInv, KnownReady, Ready
  <2>8. RunBarrier' /\ PlayedRuns'
    BY <1>2, <1>3, <2>1 DEF BootInv, TypeOK, RunBarrier, PlayedRuns
  <2> QED
    BY <1>3, <2>6, <2>7, <2>8 DEF BootInv
<1>5. CASE ReceiveReady(p, m)
  <2>1. m.from \in Slots /\ m = Ready(m.from)
    BY <1>1, <1>5, PacketFields DEF ReceiveReady
  <2>2. TypeOK'
    BY <1>5, <2>1 DEF BootInv, TypeOK, ReceiveReady
  <2>3. KnownReady'
    BY <1>2, <1>5, <2>1 DEF BootInv, TypeOK, ReceiveReady, KnownReady, Ready
  <2>4. RunBarrier' /\ PlayedRuns'
    BY <1>3, <1>5 DEF BootInv, ReceiveReady, RunBarrier, PlayedRuns
  <2> QED
    BY <1>3, <2>2, <2>3, <2>4 DEF BootInv
<1>6. CASE ReceiveStart(p, m)
  <2>1. AllReady
    BY <1>6 DEF BootInv, StartBarrier, ReceiveStart
  <2>2. Seed(p, delay[p]) \in SUBSET Nat
    BY DEF BootInv, TypeOK, Seed
  <2>3. TypeOK'
    BY <1>6, <2>2 DEF BootInv, TypeOK, ReceiveStart
  <2>4. KnownReady'
    BY <1>6 DEF BootInv, ReceiveStart, KnownReady, Ready
  <2>5. RunBarrier' /\ PlayedRuns'
    BY <1>3, <1>6, <2>1 DEF BootInv, TypeOK, ReceiveStart, RunBarrier, PlayedRuns
  <2> QED
    BY <1>3, <2>3, <2>4, <2>5 DEF BootInv
<1> QED
  BY <1>4, <1>5, <1>6 DEF Receive

LEMMA FirstTickStep ==
    ASSUME BootInv, NEW p \in Slots, SampleFirst(p) \/ PlayFirst(p)
    PROVE  BootInv'
<1>1. KnownReady' /\ StartBarrier' /\ RunBarrier'
  BY DEF BootInv, SampleFirst, PlayFirst, KnownReady, StartBarrier, RunBarrier, AllReady, Ready
<1>2. CASE SampleFirst(p)
  <2>1. TypeOK'
    BY <1>2 DEF BootInv, TypeOK, SampleFirst
  <2>2. PlayedRuns'
    BY <1>2 DEF BootInv, SampleFirst, PlayedRuns
  <2> QED
    BY <1>1, <2>1, <2>2 DEF BootInv
<1>3. CASE PlayFirst(p)
  <2>1. TypeOK'
    BY <1>3 DEF BootInv, TypeOK, PlayFirst
  <2>2. PlayedRuns'
    BY <1>3 DEF BootInv, PlayFirst, PlayedRuns
  <2> QED
    BY <1>1, <2>1, <2>2 DEF BootInv
<1> QED
  BY <1>2, <1>3

LEMMA NextBootInv ==
    ASSUME BootInv, [Next]_vars
    PROVE  BootInv'
<1>1. CASE Next
  BY <1>1, LinkStep, RelayFallbackStep, BootstrapStep, ReceiveStep, FirstTickStep DEF Next
<1>2. CASE UNCHANGED vars
  BY <1>2 DEF vars, BootInv, TypeOK, KnownReady, StartBarrier, RunBarrier, PlayedRuns,
     AllReady, Ready
<1> QED
  BY <1>1, <1>2

-----------------------------------------------------------------------------

\* The inductive invariant of the bootstrap (maybe_bootstrap, handle_decoded and
\* the pump of rnet_session.c).
THEOREM BootInvariance == Spec => []BootInv
<1> QED
  BY InitBootInv, NextBootInv, PTL DEF Spec

\* Every phase, delay, tick and ring stays in its range, and every datagram is
\* a HELLO, a READY or a START with a sender.
THEOREM BootTypeCorrect == Spec => []TypeOK
<1>1. BootInv => TypeOK
  BY DEF BootInv
<1> QED
  BY <1>1, BootInvariance, PTL

\* No peer runs before every slot has said READY, however its datagrams are
\* lost, repeated or reordered and whoever restarts ICE meanwhile.
THEOREM NoEarlyStart == Spec => []ReadyBarrier
<1>1. BootInv => ReadyBarrier
  BY DEF BootInv, RunBarrier, AllReady, ReadyBarrier
<1> QED
  BY <1>1, BootInvariance, PTL

\* No HELLO, however late, moves the delay of a peer that has played tick 0.
THEOREM DelayIsSettled == Spec => DelaySettles
<1>1. ASSUME BootInv, [Next]_vars, NEW p \in Slots, sim_tick[p] > 0
      PROVE  delay'[p] = delay[p]
  <2>1. phase[p] = "RUNNING" /\ sim_tick[p] # 0
    BY <1>1 DEF BootInv, PlayedRuns, TypeOK
  <2>2. ASSUME NEW q \in Slots, NEW m \in net, ReceiveHello(q, m)
        PROVE  delay'[p] = delay[p]
    <3>1. ~Adopts(p, m)
      BY <2>1 DEF Adopts
    <3> QED
      BY <1>1, <2>2, <3>1 DEF BootInv, TypeOK, ReceiveHello
  <2>3. Next => delay'[p] = delay[p]
    BY <2>2 DEF Next, Link, RelayFallback, Bootstrap, Receive, ReceiveReady, ReceiveStart,
       SampleFirst, PlayFirst
  <2> QED
    BY <1>1, <2>3 DEF vars
<1>2. BootInv /\ [Next]_vars => [\A p \in Slots : sim_tick[p] > 0 => delay'[p] = delay[p]]_vars
  BY <1>1
<1> QED
  BY <1>2, BootInvariance, PTL DEF Spec, DelaySettles
=============================================================================
