---------------------- MODULE LoadBarrierJoint_proofs ----------------------
(***************************************************************************)
(* A load leaves both peers of a session of two in one state of the game:  *)
(* for every set of savestate slots, delay and number of ticks, when the   *)
(* player waits for one barrier before he asks for the next.               *)
(*                                                                         *)
(* The argument: while a load is open, what the host has asked for fixes   *)
(* where the guest may be: it has yet to answer, is being sent the file,   *)
(* has it, or waits in the new epoch.  Between two loads neither restores  *)
(* anything, so the two play on from one state.                            *)
(***************************************************************************)
EXTENDS LoadBarrier_proofs

Phase     == np[Host].xfer
Last      == asked[Len(asked)]
File      == disk[Host][np[Host].slot]
FileProbe == HashProbe("LOAD", np[Host].slot, File)
FileBlob  == [op |-> "LOAD", slot |-> np[Host].slot, data |-> File]
AllReady  == ReadyProbe(np[Host].slot)

\* From the request for a load to the input epoch that starts after it.
LoadOpen == \/ Phase \in {"LOAD_PROBE", "LOAD_SEND", "LOAD_APPLYING"}
            \/ Phase = "LOAD_READY" /\ ~np[Host].synced

\* What g has answered, the exchanges that arm it, and those it loads from.
Spoken(g) == {w \in Probe : \E yes \in BOOLEAN : Reply(g, w, yes) \in net}
Coords    == {i \in Asked : asked[i][1] = "PROBE" /\ IsCoord(asked[i][2])}
Loads     == {i \in Asked : \/ asked[i][1] = "PROBE" /\ IsHash("LOAD", asked[i][2])
                            \/ asked[i][1] = "XFER" /\ blobs[asked[i][2]].op = "LOAD"}

Same(g)  == clock[g].epoch = clock[Host].epoch
Level(g) == Same(g) /\ StartOf(g) = StartOf(Host)

\* An answered probe that is kept is kept with the answer that was sent.
KeptTrue(g) == probe[g].active /\ ~probe[g].pending =>
    Reply(g, probe[g].what, probe[g].match) \in net

\* A guest whose cards are not the host's has yet to be given them.
CardsDiffer(g) ==
    /\ 1 \in delivered[g] => rx[g].active /\ rx[g].id = 1
    /\ \/ blobs # <<>> /\ blobs[1].op = "SRAM"
       \/ Reply(g, HashProbe("SRAM", 0, card[Host]), FALSE) \in net
    => card[g] # card[Host]
CardsOwed(g) ==
    /\ Phase = "MC_PROBE" => asked # <<>> /\ Last = <<"PROBE", HashProbe("SRAM", 0, card[Host])>>
    /\ CardsDiffer(g)

\* A guest is armed once: its answer to a save to come is its last word on it.
Armed(g) ==
    /\ np[g].xfer = "SAVE_COORD" => \E i \in Coords : i <= heard[g]
    /\ \A i \in Coords :
          /\ i < Len(asked) => asked[i][2] \in Spoken(g)
          /\ i = Len(asked) => Phase \in {"SAVE_COORD", "NONE"} /\ probe[Host].active
          /\ asked[i][2] \in Spoken(g) /\ np[g].xfer = "SAVE_COORD" =>
                np[g].staged /\ ss[g].save = <<>>
          /\ probe[g].active /\ probe[g].pending /\ probe[g].what = asked[i][2] =>
                asked[i][2] \notin Spoken(g)
          /\ i = heard[g] => probe[g].active

\* What is pending belongs to the phase.
RequestsOf(p) ==
    /\ ss[p].save # <<>> => np[p].xfer = "SAVE_COORD"
    /\ ss[p].load # <<>> => np[p].xfer = "LOAD_APPLYING" /\ ~ss[p].loaded
    /\ np[p].applied => np[p].xfer = "LOAD_READY"
RequestsTrue == \A p \in Slots : RequestsOf(p)

\* Where the host is in a load, and what it has asked for.
HostLoads ==
    /\ LoadOpen => File # NoFile
    /\ Phase = "LOAD_PROBE" => asked # <<>> /\ Last = <<"PROBE", FileProbe>>
    /\ Phase = "LOAD_SEND" => tx.active /\ blobs[tx.id] = FileBlob
    /\ Phase = "LOAD_APPLYING" => /\ ss[Host].load \in {<<>>, <<"SLOT", np[Host].slot>>}
                                  /\ ss[Host].loaded => game[Host] = File
    /\ Phase = "LOAD_READY" => /\ asked # <<>> /\ Last = <<"PROBE", AllReady>>
                               /\ IF np[Host].synced THEN ~probe[Host].active
                                                     ELSE game[Host] = File

\* Where the guest may be meanwhile: it has yet to answer,
Waiting(g) ==
    /\ np[g].xfer \in {"NONE", "SAVE_SEND"} /\ Phase = "LOAD_PROBE" /\ Level(g)
    /\ FileProbe \notin Spoken(g)
    /\ \A i \in Loads : i >= heard[g] => i = Len(asked)

\* ... has said that it has not got the file, or is being sent it,
Lacking(g) ==
    /\ Phase \in {"LOAD_PROBE", "LOAD_SEND"}
    /\ heard[g] = IF Phase = "LOAD_SEND" THEN Len(asked) - 1 ELSE Len(asked)
    /\ probe[g].active /\ ~probe[g].pending /\ probe[g].what = FileProbe
    /\ Reply(g, FileProbe, TRUE) \notin net
Fetching(g) ==
    /\ Phase # "LOAD_PROBE"
    /\ heard[g] = IF Phase = "LOAD_READY" THEN Len(asked) - 1 ELSE Len(asked)
    /\ rx[g].active /\ blobs[rx[g].id] = FileBlob
Getting(g) ==
    /\ np[g].xfer = "LOAD_SEND" /\ Same(g)
    /\ Phase \in {"LOAD_PROBE", "LOAD_SEND"} => Level(g)
    /\ Lacking(g) \/ Fetching(g)

\* ... has got it,
Has(g) ==
    /\ Same(g) /\ ~rx[g].active /\ ~np[g].synced /\ heard[g] > 0
    /\ heard[g] = Len(asked) \/ (Phase = "LOAD_READY" /\ heard[g] = Len(asked) - 1)
    /\ At(g)[1] = "PROBE" => At(g)[2] \in {FileProbe, AllReady}
    /\ At(g) = <<"PROBE", FileProbe>> =>
          disk[g][np[Host].slot] = File /\ Reply(g, FileProbe, FALSE) \notin net
    /\ Phase = "LOAD_READY" => AllReady \notin Spoken(g)
Applying(g) ==
    /\ np[g].xfer = "LOAD_APPLYING" /\ Has(g)
    /\ \/ ss[g].load \in {<<>>, <<"BLOB", File>>}
       \/ ss[g].load = <<"SLOT", np[Host].slot>> /\ disk[g][np[Host].slot] = File
    /\ ss[g].loaded => game[g] = File
Applied(g) == np[g].xfer = "LOAD_READY" /\ Has(g) /\ game[g] = File

\* ... or has answered ready, and is in the new epoch before the host.
Synced(g) ==
    /\ np[g].xfer = "LOAD_READY" /\ np[g].synced /\ ~np[g].needs /\ Phase = "LOAD_READY"
    /\ heard[g] = Len(asked) /\ game[g] = File
    /\ clock[g].epoch = clock[Host].epoch + 1 /\ clock[g].sim = 0

GuestLoads(g) == Waiting(g) \/ Getting(g) \/ Applying(g) \/ Applied(g) \/ Synced(g)

\* Between two loads both play on from one state.
GuestPlays(g) ==
    /\ Level(g)
    /\ \A i \in Loads : i < heard[g]
    /\ \/ np[g].xfer \in {"NONE", "SAVE_COORD", "SAVE_SEND"}
       \/ /\ np[g].xfer = "LOAD_READY" /\ np[g].synced /\ Phase \in {"NONE", "LOAD_READY"}
          /\ heard[g] = Len(asked) /\ heard[g] > 0
          /\ At(g)[1] = "PROBE" /\ IsReady(At(g)[2])

InStep(g) == IF LoadOpen THEN GuestLoads(g) ELSE GuestPlays(g)

Joint(g) == /\ KeptTrue(g) /\ CardsOwed(g) /\ Armed(g)
            /\ RequestsTrue /\ HostLoads /\ InStep(g)

\* What is kept: also that the host takes for ready only who has restored, which
\* is all that is left to say when a load that failed has ended the session.
JointInv(g) == GeneralInv /\ IF over THEN ReadyMeansRestored ELSE Joint(g)

-----------------------------------------------------------------------------
(* What the general invariant says of two *)

LEMMA Two ==
    ASSUME GeneralInv, ~over, NEW g, Guests = {g}
    PROVE  /\ LoopType /\ IInv /\ TypeOK /\ OrderInv /\ AskingInv /\ EpochInv /\ InputInv
           /\ CardsInv /\ SavesInv /\ GuestTrue(g) /\ g \in Guests
           /\ Host \in Slots /\ g \in Slots /\ g # Host /\ Slots = {Host, g}
           /\ Len(asked) \in Nat /\ Asked = 1 .. Len(asked)
           /\ heard[g] \in Nat /\ heard[g] <= Len(asked) /\ next_xfer_id \in Nat
           /\ np[Host] \in Loop /\ np[g] \in Loop
<1>1. g \in Guests
    OBVIOUS
<1>2. GuestTrue(g)
    BY <1>1 DEF GeneralInv, OrderInv
<1>3. /\ LoopType /\ IInv /\ TypeOK /\ OrderInv /\ AskingInv /\ EpochInv /\ InputInv
      /\ CardsInv /\ SavesInv
    BY DEF GeneralInv, IInv
<1>4. Len(asked) \in Nat /\ Asked = 1 .. Len(asked) /\ heard[g] \in Nat
    BY <1>1, <1>3, AskedIs
<1>5. heard[g] <= Len(asked)
    BY <1>2 DEF GuestTrue
<1>6. Host \in Slots /\ g \in Slots /\ g # Host /\ Slots = {Host, g}
    BY <1>1, SlotsDiffer DEF Slots
<1>7. next_xfer_id \in Nat /\ np[Host] \in Loop /\ np[g] \in Loop
    BY <1>3, <1>6 DEF TypeOK, LoopType
<1> QED BY <1>1, <1>2, <1>3, <1>4, <1>5, <1>6, <1>7

LEMMA SpokenHeard ==
    ASSUME OrderInv, NEW g, NEW w \in Spoken(g)
    PROVE  \E i \in 1 .. heard[g] : asked[i] = <<"PROBE", w>>
<1>1. PICK yes \in BOOLEAN : Reply(g, w, yes) \in net
    BY DEF Spoken
<1> QED BY <1>1 DEF OrderInv, ReplyTrue, Reply

\* No exchange comes twice: who has heard of the last one is up to date.
LEMMA LastHeard ==
    ASSUME GeneralInv, ~over, NEW g, Guests = {g},
           NEW i \in 1 .. heard[g], asked[i] = asked[Len(asked)]
    PROVE  i = Len(asked) /\ heard[g] = Len(asked)
<1>1. i \in Asked /\ Len(asked) \in Asked /\ heard[g] <= Len(asked) /\ heard[g] \in Nat
      /\ Len(asked) \in Nat
    BY Two
<1>2. i = Len(asked)
    BY <1>1 DEF GeneralInv, OrderInv, AskedOnce
<1> QED BY <1>1, <1>2

\* The host acts on an answer of g, and on a blob that g has.
LEMMA HostHears ==
    ASSUME GeneralInv, ~over, NEW g, Guests = {g}, probe[Host].active, probe[Host].replied
    PROVE  /\ asked # <<>> /\ Last = <<"PROBE", probe[Host].what>> /\ probe[Host].what \in Probe
           /\ Reply(g, probe[Host].what, probe[Host].match) \in net
           /\ probe[Host].what \in Spoken(g) /\ heard[g] = Len(asked)
<1>1. asked # <<>> /\ Last = <<"PROBE", probe[Host].what>>
    BY DEF GeneralInv, OrderInv, HostTrue, Last
<1>2. probe[Host].what \in Probe /\ probe[Host].match \in BOOLEAN
    BY Two, ProbeActive
<1>3. Reply(g, probe[Host].what, probe[Host].match) \in net
    BY Two DEF IInv, ProbeInv, ReplyIsAnswer
<1>4. probe[Host].what \in Spoken(g)
    BY <1>2, <1>3 DEF Spoken
<1>5. heard[g] = Len(asked)
    <2>1. PICK i \in 1 .. heard[g] : asked[i] = <<"PROBE", probe[Host].what>>
        BY <1>4, Two, SpokenHeard
    <2> QED BY <1>1, <2>1, LastHeard DEF Last
<1> QED BY <1>1, <1>2, <1>3, <1>4, <1>5

LEMMA HostDelivers ==
    ASSUME GeneralInv, ~over, NEW g, Guests = {g}, tx.active, tx.ready
    PROVE  tx.id \in delivered[g] /\ Last = <<"XFER", tx.id>> /\ heard[g] = Len(asked)
<1>1. tx.id \in delivered[g]
    BY Two DEF IInv, TransferInv, TxTrue
<1>2. Last = <<"XFER", tx.id>>
    BY DEF GeneralInv, OrderInv, HostTrue, Last
<1>3. PICK i \in 1 .. heard[g] : asked[i] = <<"XFER", tx.id>>
    BY <1>1, Two DEF GuestTrue
<1> QED BY <1>1, <1>2, <1>3, LastHeard DEF Last

-----------------------------------------------------------------------------
(* The session's own steps *)

\* g says nothing it has not said.
Hushed(g) == \A w \in Probe, yes \in BOOLEAN : Reply(g, w, yes) \in net' <=> Reply(g, w, yes) \in net

\* g hears nothing new, or a probe, or of a transfer.
Still(g) == /\ heard'[g] = heard[g] /\ probe'[g] = probe[g]
            /\ rx'[g].active <=> rx[g].active
            /\ rx[g].active => rx'[g].id = rx[g].id
Surfaces(g, w) ==
    /\ heard[g] <= heard'[g] /\ heard'[g] \in Asked /\ asked[heard'[g]] = <<"PROBE", w>>
    /\ ~rx[g].active /\ ~rx'[g].active
    /\ ~(probe[g].active /\ ~probe[g].pending /\ probe[g].what = w)
    /\ probe'[g].active /\ probe'[g].pending /\ probe'[g].what = w
Opens(g, id) ==
    /\ heard[g] < heard'[g] /\ heard'[g] \in Asked /\ asked[heard'[g]] = <<"XFER", id>>
    /\ rx'[g].active /\ rx'[g].id = id
    /\ ~probe'[g].active

LEMMA ProbeTaken ==
    ASSUME GeneralInv, ~over, NEW g, Guests = {g}, KeptTrue(g),
           NEW m \in net, OnProbe(g, m), InOrder(g, m)
    PROVE  /\ Hushed(g) /\ UNCHANGED <<transferVars, delivered>> /\ probe'[Host] = probe[Host]
           /\ Still(g) \/ \E w \in Probe : Surfaces(g, w)
<1>1. /\ ~rx[g].active /\ m.type = "PROBE" /\ Exchange(m) = <<"PROBE", m.what>>
      /\ UNCHANGED <<transferVars, delivered>> /\ UNCHANGED rx
    BY DEF OnProbe, Surface, transferVars, Exchange
<1>2. m.what \in Probe
    BY <1>1, Two, PacketFields DEF TypeOK
<1>3. PICK i \in Asked :
          /\ heard[g] <= i /\ asked[i] = <<"PROBE", m.what>> /\ heard'[g] = i
          /\ \A j \in 1 .. heard[g] : asked[j] = <<"PROBE", m.what>> => heard' = heard
    BY <1>1, Two, InOrderIs
<1>4. CASE probe[g].active /\ ~probe[g].pending /\ probe[g].what = m.what
    <2>1. net' = net \cup {Reply(g, m.what, probe[g].match)} /\ UNCHANGED probe
        BY <1>4 DEF OnProbe, Surface, Arrives
    <2>2. net' = net
        BY <1>4, <2>1 DEF KeptTrue
    <2>3. heard[g] > 0 /\ asked[heard[g]] = <<"PROBE", m.what>>
        BY <1>4, Two DEF GuestTrue, Knows, At
    <2>4. heard' = heard
        BY <1>3, <2>3, Two
    <2> QED BY <1>1, <2>1, <2>2, <2>4 DEF Hushed, Still
<1>5. CASE ~(probe[g].active /\ ~probe[g].pending /\ probe[g].what = m.what)
    <2>1. /\ net' = net
          /\ probe' = [probe EXCEPT ![g] = [active |-> TRUE, pending |-> TRUE,
                          replied |-> FALSE, match |-> FALSE, what |-> m.what]]
        BY <1>5 DEF OnProbe, Surface, Arrives
    <2>2. /\ probe'[g].active /\ probe'[g].pending /\ probe'[g].what = m.what
          /\ probe'[Host] = probe[Host]
        BY <2>1, Two DEF TypeOK
    <2>3. Surfaces(g, m.what)
        BY <1>1, <1>3, <1>5, <2>2 DEF Surfaces
    <2> QED BY <1>1, <1>2, <2>1, <2>2, <2>3 DEF Hushed
<1> QED BY <1>4, <1>5

LEMMA BeginTaken ==
    ASSUME GeneralInv, ~over, NEW g, Guests = {g}, NEW m \in net, OnBegin(g, m), InOrder(g, m)
    PROVE  /\ Hushed(g) /\ UNCHANGED <<tx, next_xfer_id, delivered>> /\ probe'[Host] = probe[Host]
           /\ Still(g) \/ \E id \in Nat : Opens(g, id)
<1>1. /\ m.type = "BEGIN" /\ m.id \in 1 .. next_xfer_id /\ Exchange(m) = <<"XFER", m.id>>
      /\ UNCHANGED <<tx, next_xfer_id, delivered>>
    BY Two DEF OnBegin, ReAck, AckAgain, Open, transferVars, IInv, TransferInv, NetTrue, IdTrue, Exchange
<1>2. PICK i \in Asked :
          /\ heard[g] <= i /\ asked[i] = <<"XFER", m.id>> /\ heard'[g] = i
          /\ \A j \in 1 .. heard[g] : asked[j] = <<"XFER", m.id>> => heard' = heard
    BY <1>1, Two, InOrderIs
<1>3. \A n \in net' : n \in net \/ n.type = "ACK"
    BY DEF OnBegin, ReAck, AckAgain, Open, Arrives, Ack
<1>4. net \subseteq net'
    BY DEF OnBegin, ReAck, AckAgain, Open, Arrives
<1>5. Hushed(g)
    BY <1>3, <1>4 DEF Hushed, Reply
<1>6. CASE ReAck(g, m)
    <2>1. m.id = finished[g] /\ UNCHANGED <<rx, probe>>
        BY <1>6 DEF ReAck, transferVars
    <2>2. finished[g] \in delivered[g]
        <3>1. FinishedTrue(g)
            BY Two DEF IInv, TransferInv
        <3> QED BY <1>1, <2>1, <3>1, Two DEF FinishedTrue
    <2>3. \E j \in 1 .. heard[g] : asked[j] = <<"XFER", m.id>>
        BY <2>1, <2>2, Two DEF GuestTrue
    <2>4. heard' = heard
        BY <1>2, <2>3
    <2> QED BY <1>1, <1>5, <2>1, <2>4 DEF Still
<1>7. CASE AckAgain(g, m)
    <2>1. rx[g].active /\ rx[g].id = m.id /\ UNCHANGED <<rx, probe>>
        BY <1>7 DEF AckAgain, transferVars
    <2>2. heard[g] > 0 /\ asked[heard[g]] = <<"XFER", m.id>>
        BY <2>1, Two DEF GuestTrue, Knows, At
    <2>3. heard' = heard
        BY <1>2, <2>2, Two
    <2> QED BY <1>1, <1>5, <2>1, <2>3 DEF Still
<1>8. CASE Open(g, m)
    <2>1. /\ m.id # finished[g] /\ (rx[g].active => rx[g].id # m.id)
          /\ probe' = [probe EXCEPT ![g] = Nothing]
        BY <1>8 DEF Open
    <2>2. rx'[g].active /\ rx'[g].id = m.id
        BY <1>8, Two DEF Open, TypeOK
    <2>3. ~probe'[g].active /\ probe'[Host] = probe[Host]
        BY <2>1, Two DEF TypeOK, Nothing
    <2>4. heard[g] # i
        <3> SUFFICES ASSUME heard[g] = i PROVE FALSE
            OBVIOUS
        <3>1. heard[g] > 0 /\ At(g)[1] = "XFER" /\ At(g)[2] = m.id /\ At(g) = <<"XFER", m.id>>
            BY <1>2, Two DEF At
        <3>2. rx[g].active \/ finished[g] = m.id
            BY <3>1, Two DEF GuestTrue
        <3>3. rx[g].active => At(g) = <<"XFER", rx[g].id>>
            BY Two DEF GuestTrue, Knows
        <3> QED BY <2>1, <3>1, <3>2, <3>3
    <2>5. Opens(g, m.id)
        BY <1>2, <2>2, <2>3, <2>4, Two DEF Opens
    <2> QED BY <1>1, <1>5, <2>3, <2>5
<1> QED BY <1>6, <1>7, <1>8 DEF OnBegin

LEMMA ChunkReceived ==
    ASSUME GeneralInv, ~over, NEW g, Guests = {g}, NEW m \in net, OnChunk(g, m), InOrder(g, m)
    PROVE  /\ Hushed(g) /\ UNCHANGED <<tx, next_xfer_id, probe>> /\ Still(g)
           /\ delivered[g] \subseteq delivered'[g] /\ delivered'[g] \subseteq delivered[g] \cup {rx[g].id}
           /\ rx[g].active
<1>1. /\ rx[g].active /\ m.type = "CHUNK" /\ m.id = rx[g].id
      /\ UNCHANGED <<tx, next_xfer_id, probe>>
    BY DEF OnChunk
<1>2. LET n == Contiguous(rx[g], rx[g].bits \cup {m.off})
      IN  /\ rx' = [rx EXCEPT ![g] = [Taken(g, m) EXCEPT !.ready = (n = rx[g].total)]]
          /\ net' = net \cup {Ack(g, rx[g].id, n)}
          /\ delivered[g] \subseteq delivered'[g]
    BY Two, ChunkTaken DEF IInv
<1>3. delivered'[g] \subseteq delivered[g] \cup {rx[g].id}
    BY <1>1, Two DEF OnChunk, TypeOK
<1>4. Hushed(g)
    BY <1>2 DEF Hushed, Reply, Ack
<1>5. rx'[g].active /\ rx'[g].id = rx[g].id
    <2>1. m \in Packet /\ m.id \in Nat /\ m.off \in Nat /\ rx[g] \in RxState /\ m.off < rx[g].total
        BY <1>1, Two, RxActive, PacketFields DEF OnChunk, TypeOK
    <2>2. Taken(g, m) \in Rx(rx[g].total) /\ Taken(g, m).active = TRUE /\ Taken(g, m).id = rx[g].id
        BY <2>1, TakenType
    <2> QED BY <1>2, <2>2, Two DEF TypeOK, Rx
<1>6. heard' = heard
    <2>1. heard[g] > 0 /\ asked[heard[g]] = Exchange(m)
        BY <1>1, Two DEF GuestTrue, Knows, At, Exchange
    <2> QED BY <2>1, Two, InOrderIs
<1> QED BY <1>1, <1>2, <1>3, <1>4, <1>5, <1>6 DEF Still

\* What a pump changes of what the invariant is about.
LEMMA PumpDoes ==
    ASSUME GeneralInv, ~over, NEW g, Guests = {g}, KeptTrue(g), SessionPump
    PROVE  /\ Hushed(g) /\ UNCHANGED <<loopVars, inputVars, asked, blobs, next_xfer_id>>
           /\ delivered[g] \subseteq delivered'[g]
           /\ \A id \in delivered'[g] : id \in delivered[g] \/ (rx[g].active /\ id = rx[g].id)
           /\ tx'.active <=> tx.active
           /\ tx.active => tx'.id = tx.id
           /\ probe'[Host].active <=> probe[Host].active
           /\ \/ Still(g)
              \/ \E w \in Probe : Surfaces(g, w)
              \/ \E id \in Nat : Opens(g, id)
<1>1. UNCHANGED <<loopVars, inputVars, asked, blobs>>
    BY DEF SessionPump
<1>2. CASE Pump /\ UNCHANGED heard
    <2>1. tx.active /\ DriveSender(tx) /\ UNCHANGED <<rx, next_xfer_id, probe, delivered>>
        BY <1>2 DEF Pump
    <2>2. tx \in TxState /\ sticky \in Pace \cup {NoPace} /\ net \subseteq Packet
        BY <2>1, Two, TxActive DEF TypeOK
    <2>3. /\ tx' \in TxState /\ tx'.id = tx.id /\ net \subseteq net'
          /\ \A m \in net' : m \in net \/ m = Begin(tx.id, tx.total) \/ \E i \in Nat : m = Chunk(tx.id, i)
        BY <2>1, <2>2, DriveSenderDoes
    <2>4. Hushed(g)
        BY <2>3 DEF Hushed, Reply, Begin, Chunk
    <2>5. tx'.active = TRUE
        BY <2>3 DEF TxState
    <2> QED BY <1>1, <1>2, <2>1, <2>3, <2>4, <2>5 DEF Still
<1>3. CASE HostReceive /\ UNCHANGED heard
    <2>1. PICK m \in net : OnAck(m) \/ OnProbeReply(m)
        BY <1>3 DEF HostReceive
    <2>2. UNCHANGED <<rx, next_xfer_id, delivered>> /\ net' = net
        BY <2>1 DEF OnAck, OnProbeReply, Arrives, transferVars
    <2>3. tx' = tx \/ (tx.active /\ \E n, d, p :
              tx' = [tx EXCEPT !.ack = n, !.timed = TRUE, !.ready = d, !.pace = p])
        BY <2>1 DEF OnAck, OnProbeReply, transferVars
    <2>4. (tx'.active <=> tx.active) /\ (tx.active => tx'.id = tx.id)
        BY <2>3, Two, TxActive DEF TxState
    <2>5. probe'[g] = probe[g] /\ (probe'[Host].active <=> probe[Host].active)
        <3>1. CASE OnAck(m)
            BY <3>1 DEF OnAck
        <3>2. CASE OnProbeReply(m)
            <4>1. /\ probe[Host].active
                  /\ probe' = [probe EXCEPT ![Host] =
                                 [probe[Host] EXCEPT !.match = m.match, !.replied = TRUE]]
                BY <3>2 DEF OnProbeReply
            <4>2. probe[Host] \in ProbeState /\ probe \in [Slots -> ProbeState \cup {Nothing}]
                BY <4>1, Two, ProbeActive DEF TypeOK
            <4>3. probe'[g] = probe[g] /\ probe'[Host].active = probe[Host].active
                BY <4>1, <4>2, Two DEF ProbeState
            <4> QED BY <4>3
        <3> QED BY <2>1, <3>1, <3>2
    <2> QED BY <1>1, <1>3, <2>2, <2>4, <2>5 DEF Still, Hushed
<1>4. CASE \E h \in Guests : GuestReceive(h)
    <2>1. PICK m \in net : (OnBegin(g, m) \/ OnChunk(g, m) \/ OnProbe(g, m)) /\ InOrder(g, m)
        BY <1>4 DEF GuestReceive
    <2>2. CASE OnBegin(g, m)
        BY <1>1, <2>1, <2>2, BeginTaken
    <2>3. CASE OnChunk(g, m)
        BY <1>1, <2>1, <2>3, ChunkReceived
    <2>4. CASE OnProbe(g, m)
        BY <1>1, <2>1, <2>4, ProbeTaken DEF transferVars
    <2> QED BY <2>1, <2>2, <2>3, <2>4
<1> QED BY <1>2, <1>3, <1>4 DEF SessionPump

-----------------------------------------------------------------------------
(* Whose step it is *)

GuestKept(g) ==
    /\ np'[g] = np[g] /\ ss'[g] = ss[g] /\ disk'[g] = disk[g] /\ card'[g] = card[g]
    /\ game'[g] = game[g] /\ clock'[g] = clock[g] /\ rx'[g] = rx[g] /\ probe'[g] = probe[g]
    /\ heard'[g] = heard[g] /\ delivered'[g] = delivered[g]
    /\ Hushed(g)

HostKept ==
    /\ np'[Host] = np[Host] /\ ss'[Host] = ss[Host] /\ disk'[Host] = disk[Host]
    /\ card'[Host] = card[Host] /\ game'[Host] = game[Host] /\ clock'[Host] = clock[Host]
    /\ probe'[Host] = probe[Host]
    /\ UNCHANGED <<asked, blobs, tx, next_xfer_id>>

HostActs == \/ LoopStep(Host) \/ HostDriveXfer \/ StartCards
            \/ \E s \in Saves : AskSave(s) \/ AskLoad(s)

LEMMA DiskOwn ==
    ASSUME LoopType, NEW p \in Slots, NEW q \in Slots, p # q, LoopStep(p)
    PROVE  disk'[q] = disk[q]
<1> USE DEF LoopType
<1>1. CASE Poll(p)
    BY <1>1 DEF Poll
<1>2. CASE PollSave(p)
    BY <1>2, SMTT(40) DEF PollSave
<1>3. CASE ApplyReady(p)
    BY <1>3 DEF ApplyReady
<1>4. CASE FinishFrame(p) \/ PollLoad(p) \/ MaybeStageTargetSave(p) \/ EnterReady(p) \/ AbortLoad(p)
    BY <1>4 DEF FinishFrame, PollLoad, MaybeStageTargetSave, EnterReady, AbortLoad
<1> QED BY <1>1, <1>2, <1>3, <1>4 DEF LoopStep

LEMMA GuestLoop ==
    ASSUME GeneralInv, ~over, NEW g, Guests = {g}, LoopStep(g), ~over'
    PROVE  /\ HostKept /\ UNCHANGED <<heard, delivered, probe, net>>
           /\ ApplyReady(g) \/ UNCHANGED rx
<1>1. LoopType /\ g \in Slots /\ Host \in Slots /\ g # Host /\ ~AbortLoad(g)
    BY Two DEF AbortLoad
<1>2. /\ np'[Host] = np[Host] /\ ss'[Host] = ss[Host] /\ clock'[Host] = clock[Host]
      /\ card'[Host] = card[Host] /\ game'[Host] = game[Host] /\ disk'[Host] = disk[Host]
    BY <1>1, StepIsOwn, DiskOwn
<1>3. /\ UNCHANGED <<asked, blobs, tx, next_xfer_id, heard, delivered, probe, net>>
      /\ ApplyReady(g) \/ UNCHANGED rx
    <2>1. CASE ApplyReady(g)
        BY <2>1, <1>1 DEF ApplyReady, GuestFinish, orderVars
    <2>2. CASE ~ApplyReady(g)
        <3>1. UNCHANGED <<orderVars, sessionVars>>
            BY <1>1, <2>2 DEF LoopStep, Poll, FinishFrame, PollSave, PollLoad, MaybeStageTargetSave,
               EnterReady
        <3> QED BY <3>1 DEF orderVars, sessionVars, transferVars
    <2> QED BY <2>1, <2>2, SMTT(40)
<1> QED BY <1>1, <1>2, <1>3 DEF HostKept

\* g's answers: to what it was asked last, kept unless it is over.
LEMMA GuestAnswers ==
    ASSUME GeneralInv, ~over, NEW g, Guests = {g}, GuestHandleProbe(g)
    PROVE  LET w == probe[g].what
           IN  /\ HostKept /\ ~over' /\ UNCHANGED <<heard, delivered, rx, card, game, disk, frame>>
               /\ probe[g].active /\ w \in Probe /\ Askable(w) /\ ~rx[g].active
               /\ heard[g] \in Asked /\ heard[g] > 0 /\ At(g) = <<"PROBE", w>>
               /\ \/ ArmSave(g) /\ UNCHANGED <<net, probe>>
                  \/ \E yes \in BOOLEAN :
                        /\ ProbeReply(g, yes) /\ probe[g].pending
                        /\ net' = net \cup {Reply(g, w, yes)}
                        /\ \/ ~probe'[g].active /\ (w.size = 0 => w.op # "SAVE") /\ (w.size # 0 => yes)
                           \/ /\ probe'[g].active /\ ~probe'[g].pending
                              /\ probe'[g].what = w /\ probe'[g].match = yes
<1>1. /\ probe[g].active /\ LoopType /\ OrderInv /\ g \in Slots /\ Host \in Slots /\ g # Host
      /\ g \in Guests /\ TypeOK
    BY Two DEF GuestHandleProbe
<1>2. /\ heard[g] \in Asked /\ At(g) = <<"PROBE", probe[g].what>> /\ heard[g] > 0
      /\ probe[g].what \in Probe /\ Askable(probe[g].what) /\ ~rx[g].active
    BY <1>1, HeardProbe, Two
<1>3. /\ np'[Host] = np[Host] /\ ss'[Host] = ss[Host] /\ clock'[Host] = clock[Host]
    BY <1>1, StepIsOwn
<1>4. /\ UNCHANGED <<card, game, disk, frame, over, orderVars>>
      /\ \/ ArmSave(g) /\ UNCHANGED sessionVars
         \/ \E yes \in BOOLEAN : ProbeReply(g, yes)
    <2>1. CASE AnswerReady(g)
        BY <2>1 DEF AnswerReady
    <2>2. CASE ArmSave(g)
        BY <2>2 DEF ArmSave
    <2>3. CASE AnswerSave(g)
        BY <2>3 DEF AnswerSave
    <2>4. CASE AnswerCards(g)
        BY <2>4 DEF AnswerCards
    <2>5. CASE AnswerHash(g)
        BY <2>5 DEF AnswerHash
    <2> QED BY <2>1, <2>2, <2>3, <2>4, <2>5 DEF GuestHandleProbe
<1>5. CASE ArmSave(g) /\ UNCHANGED sessionVars
    BY <1>1, <1>2, <1>3, <1>4, <1>5 DEF HostKept, sessionVars, transferVars, orderVars
<1>6. CASE \E yes \in BOOLEAN : ProbeReply(g, yes)
    <2>1. PICK yes \in BOOLEAN : ProbeReply(g, yes)
        BY <1>6
    <2>2. probe[g].pending /\ net' = net \cup {Reply(g, probe[g].what, yes)}
          /\ UNCHANGED <<transferVars, delivered>>
        BY <2>1 DEF ProbeReply
    <2>3. probe[g] \in ProbeState /\ probe \in [Slots -> ProbeState \cup {Nothing}]
        BY <1>1, ProbeActive DEF TypeOK
    <2> DEFINE w == probe[g].what
               done == IF w.size = 0 THEN w.op \in {"LOAD", "BOOT"} ELSE yes
               next == IF done THEN Nothing ELSE [probe[g] EXCEPT !.pending = FALSE, !.match = yes]
    <2>4. probe' = [probe EXCEPT ![g] = next]
        BY <2>1 DEF ProbeReply
    <2>5. probe'[g] = next /\ probe'[Host] = probe[Host]
        BY <2>3, <2>4, <1>1
    <2>6. \/ ~next.active /\ (w.size = 0 => w.op # "SAVE") /\ (w.size # 0 => yes)
          \/ next.active /\ ~next.pending /\ next.what = w /\ next.match = yes
        BY <2>3 DEF ProbeState, Nothing
    <2>7. \/ ~probe'[g].active /\ (w.size = 0 => w.op # "SAVE") /\ (w.size # 0 => yes)
          \/ probe'[g].active /\ ~probe'[g].pending /\ probe'[g].what = w /\ probe'[g].match = yes
        BY <2>5, <2>6
    <2>8. HostKept
        BY <1>3, <1>4, <2>2, <2>5 DEF HostKept, transferVars, orderVars
    <2> HIDE DEF next, done
    <2> QED BY <1>1, <1>2, <1>4, <2>1, <2>2, <2>7, <2>8 DEF transferVars, orderVars
<1> QED BY <1>4, <1>5, <1>6

LEMMA AskQuiet ==
    ASSUME NEW g, NEW w, Ask(w), g # Host, TypeOK, g \in Guests
    PROVE  /\ Hushed(g) /\ probe'[g] = probe[g] /\ UNCHANGED <<rx, delivered, heard, tx, next_xfer_id, blobs>>
           /\ asked' = Append(asked, <<"PROBE", w>>) /\ (probe[Host].active => probe[Host].replied)
           /\ probe'[Host].active /\ probe'[Host].what = w
<1>1. /\ net' = net \cup {AskProbe(w)} /\ UNCHANGED <<transferVars, delivered, heard, blobs>>
      /\ probe' = [probe EXCEPT ![Host] = [active |-> TRUE, pending |-> FALSE, replied |-> FALSE,
                                           match |-> FALSE, what |-> w]]
      /\ asked' = Append(asked, <<"PROBE", w>>) /\ (probe[Host].active => probe[Host].replied)
    BY DEF Ask, StateProbe
<1>2. Hushed(g)
    BY <1>1 DEF Hushed, Reply, AskProbe
<1>3. probe'[g] = probe[g] /\ probe'[Host].active /\ probe'[Host].what = w
    BY <1>1 DEF TypeOK, Slots
<1> QED BY <1>1, <1>2, <1>3 DEF transferVars

LEMMA SendQuiet ==
    ASSUME NEW g, NEW op, NEW s, NEW c, Send(op, s, c), g # Host, TypeOK, g \in Guests
    PROVE  /\ Hushed(g) /\ probe'[g] = probe[g] /\ UNCHANGED <<rx, delivered, heard>>
           /\ asked' = Append(asked, <<"XFER", next_xfer_id + 1>>)
           /\ blobs' = Append(blobs, [op |-> op, slot |-> s, data |-> c])
           /\ next_xfer_id' = next_xfer_id + 1
           /\ tx'.active /\ tx'.id = next_xfer_id + 1 /\ ~probe'[Host].active
<1> DEFINE t == [active |-> TRUE, ready |-> FALSE, id |-> next_xfer_id + 1, total |-> 1,
                 ack |-> 0, cursor |-> 0, timed |-> FALSE, pace |-> StartPace]
<1>1. /\ DriveSender(t) /\ UNCHANGED <<rx, delivered, heard>>
      /\ probe' = [probe EXCEPT ![Host] = Nothing]
      /\ asked' = Append(asked, <<"XFER", next_xfer_id + 1>>)
      /\ blobs' = Append(blobs, [op |-> op, slot |-> s, data |-> c])
      /\ next_xfer_id' = next_xfer_id + 1
    BY DEF Send, StateBegin
<1>2. /\ tx'.active /\ tx'.id = t.id
      /\ \A m \in net' : m \in net \/ m.type \in {"BEGIN", "CHUNK"}
      /\ net \subseteq net'
    <2>1. PICK rewind \in {FALSE, t.timed} :
             LET paced == IF rewind THEN [t EXCEPT !.pace = Slower(@)] ELSE t
                 from  == IF rewind THEN t.ack ELSE Greatest(t.cursor, t.ack)
                 upto  == Greatest(from, WindowEnd(paced, from))
             IN  /\ tx' = [paced EXCEPT !.cursor = upto]
                 /\ net' = net \cup (IF t.ack = 0 THEN {Begin(t.id, t.total)} ELSE {})
                               \cup {Chunk(t.id, i) : i \in from .. upto - 1}
        BY <1>1 DEF DriveSender
    <2>2. PICK u, from, upto : /\ tx' = [t EXCEPT !.cursor = u]
                               /\ net' = net \cup {Begin(t.id, t.total)}
                                             \cup {Chunk(t.id, i) : i \in from .. upto - 1}
        BY <2>1
    <2> QED BY <2>2 DEF Begin, Chunk
<1>3. Hushed(g)
    BY <1>2 DEF Hushed, Reply
<1>4. probe'[g] = probe[g] /\ ~probe'[Host].active
    BY <1>1 DEF TypeOK, Slots, Nothing
<1> QED BY <1>1, <1>2, <1>3, <1>4

LEMMA EndQuiet ==
    ASSUME NEW g, ProbeFinish \/ HostFinish, g # Host, TypeOK, g \in Guests
    PROVE  /\ Hushed(g) /\ probe'[g] = probe[g] /\ UNCHANGED <<rx, delivered, next_xfer_id>>
           /\ ProbeFinish => ~probe'[Host].active /\ UNCHANGED tx
           /\ HostFinish => UNCHANGED probe /\ ~tx'.active
<1>1. CASE ProbeFinish
    <2>1. /\ probe' = [probe EXCEPT ![Host] = Nothing] /\ UNCHANGED <<transferVars, net, delivered>>
          /\ probe[Host].active
        BY <1>1 DEF ProbeFinish
    <2>2. probe'[g] = probe[g] /\ ~probe'[Host].active
        BY <2>1 DEF TypeOK, Slots, Nothing
    <2>3. ~HostFinish
        BY <2>1, <2>2 DEF HostFinish
    <2> QED BY <2>1, <2>2, <2>3 DEF transferVars, Hushed
<1>2. CASE HostFinish
    <2>1. UNCHANGED <<rx, next_xfer_id, probe, net, delivered>> /\ ~tx'.active
        BY <1>2 DEF HostFinish, Nothing
    <2>2. ~ProbeFinish
        <3> SUFFICES ASSUME ProbeFinish PROVE FALSE
            OBVIOUS
        <3>1. probe[Host].active /\ probe' = [probe EXCEPT ![Host] = Nothing]
            BY DEF ProbeFinish
        <3>2. ~probe'[Host].active
            BY <3>1 DEF TypeOK, Slots, Nothing
        <3> QED BY <3>1, <3>2, <2>1
    <2> QED BY <2>1, <2>2 DEF Hushed
<1> QED BY <1>1, <1>2

LEMMA HostStill ==
    ASSUME GeneralInv, ~over, NEW g, Guests = {g}, HostActs, ~over'
    PROVE  GuestKept(g)
<1>0. /\ LoopType /\ g \in Slots /\ Host \in Slots /\ g # Host /\ g \in Guests /\ TypeOK
      /\ ~AbortLoad(Host)
    BY Two DEF AbortLoad
<1>1. CASE LoopStep(Host)
    <2>1. /\ np'[g] = np[g] /\ ss'[g] = ss[g] /\ clock'[g] = clock[g]
          /\ card'[g] = card[g] /\ game'[g] = game[g] /\ disk'[g] = disk[g]
        BY <1>0, <1>1, StepIsOwn, DiskOwn
    <2>2. CASE EnterReady(Host)
        <3>1. Ask(ReadyProbe(np[Host].slot))
            BY <2>2 DEF EnterReady
        <3> QED BY <1>0, <2>1, <3>1, AskQuiet DEF GuestKept
    <2>3. CASE ApplyReady(Host)
        <3>1. HostFinish /\ UNCHANGED orderVars
            BY <2>3 DEF ApplyReady
        <3> QED BY <1>0, <2>1, <3>1, EndQuiet DEF GuestKept, orderVars
    <2>4. CASE ~EnterReady(Host) /\ ~ApplyReady(Host)
        <3>1. UNCHANGED <<orderVars, sessionVars>>
            BY <1>0, <1>1, <2>4 DEF LoopStep, Poll, FinishFrame, PollSave, PollLoad,
               MaybeStageTargetSave
        <3> QED BY <2>1, <3>1 DEF GuestKept, Hushed, orderVars, sessionVars, transferVars
    <2> QED BY <2>2, <2>3, <2>4
<1>2. CASE ~LoopStep(Host)
    <2>1. /\ np'[g] = np[g] /\ ss'[g] = ss[g] /\ clock'[g] = clock[g]
          /\ UNCHANGED <<card, game, disk>>
        BY <1>0, <1>2, HostIsOwn DEF HostActs
    <2>2. \/ \E w \in Probe : Ask(w)
          \/ \E op, s, c : Send(op, s, c)
          \/ ProbeFinish /\ UNCHANGED orderVars
          \/ UNCHANGED <<orderVars, sessionVars>>
        <3>1. CASE DriveCards
            BY <3>1 DEF DriveCards
        <3>2. CASE AbortSave
            BY <3>2 DEF AbortSave
        <3>3. CASE DriveSaveCoord
            <4>1. np[Host].slot \in Saves /\ disk[Host][np[Host].slot] \in Nat
                BY <3>3, <1>0, Two DEF DriveSaveCoord, Answered, AskingInv, SendTrue, LoopType
            <4>2. HashProbe("SAVE", np[Host].slot, disk[Host][np[Host].slot]) \in Probe
                BY <4>1, Askables
            <4>3. Ask(HashProbe("SAVE", np[Host].slot, disk[Host][np[Host].slot]))
                BY <3>3 DEF DriveSaveCoord
            <4> QED BY <4>2, <4>3
        <3>4. CASE DriveSaveProbe
            BY <3>4 DEF DriveSaveProbe
        <3>5. CASE DriveLoadProbe
            BY <3>5 DEF DriveLoadProbe
        <3>6. CASE DriveLoadReady
            BY <3>6 DEF DriveLoadReady
        <3>7. CASE StartCards
            <4>1. HashProbe("SRAM", 0, card[Host]) \in Probe
                BY <1>0 DEF HashProbe, Probe, LoopType
            <4> QED BY <3>7, <4>1 DEF StartCards
        <3>8. ASSUME NEW s \in Saves, AskSave(s) \/ AskLoad(s)
              PROVE \E w \in Probe : Ask(w)
            <4>1. clock[Host].sim + Delay + 2 \in Nat /\ disk[Host][s] \in Nat
                BY <1>0, LoopIs, ConstantsType
            <4>2. CoordProbe(s, clock[Host].sim + Delay + 2) \in Probe
                  /\ HashProbe("LOAD", s, disk[Host][s]) \in Probe
                BY <4>1, Askables
            <4>3. \/ Ask(CoordProbe(s, clock[Host].sim + Delay + 2))
                  \/ Ask(HashProbe("LOAD", s, disk[Host][s]))
                BY <3>8 DEF AskSave, AskLoad
            <4> QED BY <4>2, <4>3
        <3> QED BY <1>2, <3>1, <3>2, <3>3, <3>4, <3>5, <3>6, <3>7, <3>8 DEF HostActs, HostDriveXfer
    <2>3. CASE \E w \in Probe : Ask(w)
        <3>1. PICK w \in Probe : Ask(w)
            BY <2>3
        <3>2. /\ Hushed(g) /\ probe'[g] = probe[g] /\ UNCHANGED <<rx, delivered, heard>>
            BY <1>0, <3>1, AskQuiet
        <3> QED BY <2>1, <3>2 DEF GuestKept
    <2>4. CASE \E op, s, c : Send(op, s, c)
        <3>1. PICK op, s, c : Send(op, s, c)
            BY <2>4
        <3>2. /\ Hushed(g) /\ probe'[g] = probe[g] /\ UNCHANGED <<rx, delivered, heard>>
            BY <1>0, <3>1, SendQuiet DEF Send
        <3> QED BY <2>1, <3>2 DEF GuestKept
    <2>5. CASE ProbeFinish /\ UNCHANGED orderVars
        BY <1>0, <2>1, <2>5, EndQuiet DEF GuestKept, orderVars
    <2>6. CASE UNCHANGED <<orderVars, sessionVars>>
        BY <2>1, <2>6 DEF GuestKept, Hushed, orderVars, sessionVars, transferVars
    <2> QED BY <2>2, <2>3, <2>4, <2>5, <2>6
<1> QED BY <1>1, <1>2

\* A step of a session of two, within it.
JointStep(g) ==
    GeneralInv /\ GeneralInv' /\ ~over /\ ~over' /\ Guests = {g} /\ Joint(g)

LEMMA StepKinds ==
    ASSUME NEW g, JointStep(g), BarrierNext
    PROVE  \/ SessionPump
           \/ HostActs /\ GuestKept(g)
           \/ LoopStep(g)
           \/ GuestHandleProbe(g)
<1>1. Slots = {Host, g}
    BY Two DEF JointStep
<1>2. SessionPump \/ HostActs \/ LoopStep(g) \/ GuestHandleProbe(g)
    BY <1>1 DEF BarrierNext, HostActs, JointStep
<1>3. HostActs => GuestKept(g)
    BY HostStill DEF JointStep
<1> QED BY <1>2, <1>3

LEMMA SpokenSame ==
    ASSUME NEW g, Hushed(g)
    PROVE  /\ Spoken(g)' = Spoken(g)
           /\ \A w \in Probe, yes \in BOOLEAN : Reply(g, w, yes) \in net' <=> Reply(g, w, yes) \in net
BY DEF Hushed, Spoken

\* An answer is of what was asked.
LEMMA SpokenMore ==
    ASSUME NEW g, NEW v \in Probe, NEW yes \in BOOLEAN, net' = net \cup {Reply(g, v, yes)}
    PROVE  /\ Spoken(g)' = Spoken(g) \cup {v}
           /\ \A w \in Probe, y \in BOOLEAN :
                 Reply(g, w, y) \in net' <=> Reply(g, w, y) \in net \/ (w = v /\ y = yes)
BY DEF Spoken, Reply

LEMMA KeptTrueStep ==
    ASSUME NEW g, JointStep(g), BarrierNext
    PROVE  KeptTrue(g)'
<1>1. /\ KeptTrue(g) /\ GeneralInv /\ ~over /\ Guests = {g} /\ ~over' /\ TypeOK /\ g \in Slots
      /\ (probe[g].active => probe[g].what \in Probe /\ probe[g].match \in BOOLEAN)
    <2>1. GeneralInv /\ ~over /\ Guests = {g} /\ ~over' /\ KeptTrue(g)
        BY DEF JointStep, Joint
    <2> QED BY <2>1, Two, ProbeActive
<1>2. CASE GuestKept(g)
    BY <1>1, <1>2, SpokenSame DEF KeptTrue, GuestKept
<1>3. CASE SessionPump
    <2>1. Hushed(g) /\ (Still(g) \/ (\E w \in Probe : Surfaces(g, w)) \/ (\E id \in Nat : Opens(g, id)))
        BY <1>1, <1>3, PumpDoes
    <2>2. CASE Still(g)
        BY <1>1, <2>1, <2>2, SpokenSame DEF KeptTrue, Still
    <2>3. CASE (\E w \in Probe : Surfaces(g, w)) \/ (\E id \in Nat : Opens(g, id))
        BY <2>3 DEF KeptTrue, Surfaces, Opens
    <2> QED BY <2>1, <2>2, <2>3
<1>4. CASE LoopStep(g)
    BY <1>1, <1>4, GuestLoop DEF KeptTrue
<1>5. CASE GuestHandleProbe(g)
    <2> DEFINE w == probe[g].what
    <2>1. \/ UNCHANGED <<net, probe>>
          \/ \E yes \in BOOLEAN :
                /\ net' = net \cup {Reply(g, w, yes)}
                /\ probe'[g].active => probe'[g].what = w /\ probe'[g].match = yes
        BY <1>1, <1>5, GuestAnswers
    <2> QED BY <1>1, <2>1 DEF KeptTrue
<1> QED BY <1>2, <1>3, <1>4, <1>5, StepKinds

-----------------------------------------------------------------------------
(* What a step of p's loop does to p *)

LEMMA PollMoves ==
    ASSUME LoopType, MarksTrue, NEW p \in Slots, Poll(p)
    PROVE  /\ UNCHANGED <<disk, card, orderVars, sessionVars>>
           /\ ~np[p].needs /\ np'[p].slot = np[p].slot
           /\ np[p].xfer = "LOAD_READY" => np[p].synced
           /\ np[p].xfer = "LOAD_APPLYING" => Pending(p)
           /\ clock'[p].sim = clock[p].sim /\ clock'[p].epoch = clock[p].epoch
           /\ \/ /\ np'[p].xfer = np[p].xfer /\ np'[p].synced = np[p].synced
                 /\ np'[p].applied = np[p].applied
              \/ /\ np[p].xfer = "LOAD_READY" /\ np'[p].xfer = "NONE" /\ ~np'[p].applied
                 /\ np'[p].needs
           /\ \/ /\ np'[p].needs /\ game'[p] = game[p] + 1
                 /\ \A q \in Others(p) : sampled[q][clock[p].epoch] >= clock[p].sim
              \/ ~np'[p].needs /\ game'[p] = game[p]
           /\ StartOf(p)' = StartOf(p)
           /\ np'[p].staged = (np[p].staged \/ DueToStage(p))
           /\ ss' = IF DueToStage(p) THEN [ss EXCEPT ![p] = RequestSave(p, np[p].slot)] ELSE ss
<1>1. PICK c \in Pumped(p), admitted \in Loop, refused \in Loop :
         /\ TryAdmit(p, c, admitted, refused)
         /\ \A l \in {admitted, refused} :
               /\ l.slot = np[p].slot /\ l.target = np[p].target /\ l.cards /\ ~l.needs
               /\ l.staged = (np[p].staged \/ DueToStage(p))
         /\ \/ admitted.xfer = np[p].xfer /\ admitted.synced = np[p].synced
               /\ admitted.applied = np[p].applied
            \/ np[p].xfer = "LOAD_READY" /\ np[p].synced /\ admitted.xfer = "NONE"
               /\ ~admitted.synced /\ ~admitted.applied
         /\ refused.xfer = np[p].xfer /\ refused.synced = np[p].synced
         /\ refused.applied = np[p].applied
    BY PollDoes
<1>2. /\ ~np[p].needs /\ (np[p].xfer = "LOAD_READY" => np[p].synced)
      /\ ss' = IF DueToStage(p) THEN [ss EXCEPT ![p] = RequestSave(p, np[p].slot)] ELSE ss
      /\ UNCHANGED <<disk, card, over, orderVars, sessionVars>>
    BY PollDoes
<1>3. np[p].xfer = "LOAD_APPLYING" => Pending(p)
    BY DEF Poll, PollApplying, PollReady, PollSaveCoord, PollOther
<1>4. c \in Clock /\ c.sim = clock[p].sim /\ c.epoch = clock[p].epoch
      /\ \A q \in Slots : c.rows[q] <= sampled[q][c.epoch]
    BY PumpedType
<1>5. /\ clock' = [clock EXCEPT ![p] = c]
      /\ \/ /\ \A q \in Others(p) : c.rows[q] >= clock[p].sim /\ c.confirms[q] >= clock[p].sim
            /\ np' = [np EXCEPT ![p] = [admitted EXCEPT !.needs = TRUE]]
            /\ game' = [game EXCEPT ![p] = @ + 1]
            /\ frame' = [frame EXCEPT ![p] = TRUE]
         \/ np' = [np EXCEPT ![p] = refused] /\ UNCHANGED <<game, frame>>
    BY <1>1, TryAdmitDoes
<1>6. clock'[p].sim = clock[p].sim /\ clock'[p].epoch = clock[p].epoch
    BY <1>4, <1>5 DEF LoopType
<1>7. clock[p].sim \in Nat /\ clock[p].epoch \in 0 .. MaxEpoch /\ game[p] \in Nat /\ np[p] \in Loop
    BY LoopIs
<1>8. CASE /\ \A q \in Others(p) : c.rows[q] >= clock[p].sim /\ c.confirms[q] >= clock[p].sim
           /\ np' = [np EXCEPT ![p] = [admitted EXCEPT !.needs = TRUE]]
           /\ game' = [game EXCEPT ![p] = @ + 1]
    <2>1. np'[p] = [admitted EXCEPT !.needs = TRUE] /\ game'[p] = game[p] + 1
        BY <1>8 DEF LoopType
    <2>2. /\ np'[p].needs /\ np'[p].xfer = admitted.xfer /\ np'[p].synced = admitted.synced
          /\ np'[p].applied = admitted.applied /\ np'[p].slot = admitted.slot
          /\ np'[p].staged = admitted.staged
        BY <2>1 DEF Loop
    <2>3. \A q \in Others(p) : sampled[q][clock[p].epoch] >= clock[p].sim
        <3> SUFFICES ASSUME NEW q \in Others(p) PROVE sampled[q][clock[p].epoch] >= clock[p].sim
            OBVIOUS
        <3>1. q \in Slots
            BY DEF Others
        <3>2. c.rows[q] >= clock[p].sim /\ c.rows[q] <= sampled[q][clock[p].epoch]
            BY <1>4, <1>8, <3>1
        <3>3. c.rows[q] \in Mark /\ sampled[q][clock[p].epoch] \in Mark
            BY <1>4, <1>7, <3>1 DEF Clock, LoopType
        <3> QED BY <1>7, <3>2, <3>3 DEF Mark
    <2>4. StartOf(p)' = StartOf(p)
        BY <1>2, <1>6, <1>7, <2>1, <2>2 DEF StartOf
    <2> QED BY <1>1, <1>2, <1>3, <1>6, <2>1, <2>2, <2>3, <2>4
<1>9. CASE np' = [np EXCEPT ![p] = refused] /\ UNCHANGED game
    <2>1. np'[p] = refused /\ game'[p] = game[p]
        BY <1>9 DEF LoopType
    <2>2. ~np'[p].needs
        BY <1>1, <2>1
    <2>3. StartOf(p)' = StartOf(p)
        BY <1>2, <1>6, <1>7, <2>1, <2>2 DEF StartOf
    <2> QED BY <1>1, <1>2, <1>3, <1>6, <2>1, <2>2, <2>3
<1> QED BY <1>5, <1>8, <1>9

LEMMA FrameMoves ==
    ASSUME LoopType, NEW p \in Slots, FinishFrame(p)
    PROVE  /\ UNCHANGED <<ss, disk, card, game, orderVars, sessionVars>>
           /\ np'[p].xfer = np[p].xfer /\ np'[p].synced = np[p].synced /\ np'[p].slot = np[p].slot
           /\ np'[p].applied = np[p].applied /\ np'[p].staged = np[p].staged /\ ~np'[p].needs
           /\ clock'[p].epoch = clock[p].epoch
           /\ ~np[p].needs => clock'[p].sim = clock[p].sim
           /\ StartOf(p)' = StartOf(p)
<1>1. /\ np[p] \in Loop /\ clock[p] \in Clock /\ game[p] \in Nat /\ clock[p].sim \in Nat
    BY LoopIs
<1>2. UNCHANGED <<ss, disk, card, game, orderVars, sessionVars>>
    BY DEF FinishFrame
<1>3. CASE np[p].needs
    <2>1. /\ clock' = [clock EXCEPT ![p].sim = @ + 1] /\ np' = [np EXCEPT ![p].needs = FALSE]
        BY <1>3 DEF FinishFrame
    <2>2. clock'[p] = [clock[p] EXCEPT !.sim = @ + 1] /\ np'[p] = [np[p] EXCEPT !.needs = FALSE]
        BY <2>1 DEF LoopType
    <2>3. /\ clock'[p].sim = clock[p].sim + 1 /\ clock'[p].epoch = clock[p].epoch
          /\ np'[p].xfer = np[p].xfer /\ np'[p].synced = np[p].synced /\ np'[p].slot = np[p].slot
          /\ np'[p].applied = np[p].applied /\ np'[p].staged = np[p].staged /\ ~np'[p].needs
        BY <1>1, <2>2 DEF Clock, Loop
    <2>4. StartOf(p)' = StartOf(p)
        BY <1>1, <1>2, <1>3, <2>3 DEF StartOf
    <2> QED BY <1>2, <1>3, <2>3, <2>4
<1>4. CASE ~np[p].needs
    <2>1. UNCHANGED <<clock, np>>
        BY <1>4 DEF FinishFrame
    <2> QED BY <1>2, <1>4, <2>1 DEF StartOf
<1> QED BY <1>3, <1>4

LEMMA SaveMoves ==
    ASSUME LoopType, NEW p \in Slots, PollSave(p)
    PROVE  /\ UNCHANGED <<np, card, game, clock, orderVars, sessionVars>>
           /\ ss[p].save # <<>> /\ ss'[p].save = <<>> /\ ss'[p].load = ss[p].load
           /\ ss'[p].loaded = ss[p].loaded
<1> DEFINE done(failed, pc) == [ss[p] EXCEPT !.save = <<>>, !.save_failed = failed, !.pc = pc]
<1>1. ss[p].save # <<>> /\ UNCHANGED <<np, card, game, clock, orderVars, sessionVars>>
    BY DEF PollSave, inputVars
<1>2. ss[p] \in Requests
    BY LoopIs
<1>3. PICK failed \in BOOLEAN, pc \in BOOLEAN : ss' = [ss EXCEPT ![p] = done(failed, pc)]
    <2>1. \/ ss' = [ss EXCEPT ![p] = done(FALSE, TRUE)]
          \/ ss' = [ss EXCEPT ![p] = done(TRUE, FALSE)]
        BY DEF PollSave, LoopType
    <2> QED BY <2>1
<1>4. /\ done(failed, pc).save = <<>> /\ done(failed, pc).load = ss[p].load
      /\ done(failed, pc).loaded = ss[p].loaded
    BY <1>2 DEF Requests
<1>5. ss'[p] = done(failed, pc)
    BY <1>3 DEF LoopType
<1> QED BY <1>1, <1>4, <1>5

LEMMA LoadMoves ==
    ASSUME LoopType, NEW p \in Slots, PollLoad(p)
    PROVE  /\ UNCHANGED <<np, disk, card, clock, orderVars, sessionVars>>
           /\ ss[p].save = <<>> /\ ss[p].load # <<>> /\ ss'[p].load = <<>> /\ ss'[p].save = <<>>
           /\ \/ ss'[p].loaded /\ game'[p] = Restored(p)
              \/ ss'[p].loaded = ss[p].loaded /\ game'[p] = game[p]
<1> DEFINE good == [ss[p] EXCEPT !.load = <<>>, !.loaded = TRUE]
           bad  == [ss[p] EXCEPT !.load = <<>>, !.load_failed = TRUE]
<1>1. ss[p].save = <<>> /\ ss[p].load # <<>> /\ UNCHANGED <<np, disk, card, clock, orderVars, sessionVars>>
    BY DEF PollLoad, inputVars
<1>2. ss[p] \in Requests
    BY LoopIs
<1>3. \/ ss' = [ss EXCEPT ![p] = good] /\ game' = [game EXCEPT ![p] = Restored(p)]
      \/ ss' = [ss EXCEPT ![p] = bad] /\ UNCHANGED game
    BY DEF PollLoad, LoopType
<1>4. /\ good.load = <<>> /\ good.save = ss[p].save /\ good.loaded
      /\ bad.load = <<>> /\ bad.save = ss[p].save /\ bad.loaded = ss[p].loaded
    BY <1>2 DEF Requests
<1>5. \/ ss'[p] = good /\ game'[p] = Restored(p)
      \/ ss'[p] = bad /\ game'[p] = game[p]
    <2> HIDE DEF good, bad
    <2> QED BY <1>3 DEF LoopType
<1> HIDE DEF good, bad
<1> QED BY <1>1, <1>4, <1>5

LEMMA StageMoves ==
    ASSUME LoopType, NEW p \in Slots, MaybeStageTargetSave(p)
    PROVE  /\ UNCHANGED <<disk, card, game, clock, orderVars, sessionVars>>
           /\ np[p].xfer = "SAVE_COORD" /\ ~np[p].staged /\ np'[p] = [np[p] EXCEPT !.staged = TRUE]
           /\ ss' = [ss EXCEPT ![p] = RequestSave(p, np[p].slot)]
           /\ np'[p].xfer = np[p].xfer /\ np'[p].synced = np[p].synced /\ np'[p].slot = np[p].slot
           /\ np'[p].applied = np[p].applied /\ np'[p].needs = np[p].needs
           /\ StartOf(p)' = StartOf(p)
<1>1. /\ UNCHANGED <<disk, card, game, clock, orderVars, sessionVars>>
      /\ np[p].xfer = "SAVE_COORD" /\ ~np[p].staged /\ np'[p] = [np[p] EXCEPT !.staged = TRUE]
      /\ ss' = [ss EXCEPT ![p] = RequestSave(p, np[p].slot)]
    BY DEF MaybeStageTargetSave, DueToStage, inputVars, LoopType
<1>2. np[p] \in Loop
    BY LoopIs
<1>3. /\ np'[p].xfer = np[p].xfer /\ np'[p].synced = np[p].synced /\ np'[p].slot = np[p].slot
      /\ np'[p].applied = np[p].applied /\ np'[p].needs = np[p].needs
    BY <1>1, <1>2 DEF Loop
<1> QED BY <1>1, <1>3 DEF StartOf

LEMMA RequestsAre ==
    ASSUME LoopType, NEW p \in Slots, NEW s, NEW from
    PROVE  /\ RequestSave(p, s).save = <<s>> /\ RequestSave(p, s).load = ss[p].load
           /\ RequestSave(p, s).loaded = ss[p].loaded
           /\ RequestLoad(p, from).load = from /\ RequestLoad(p, from).save = ss[p].save
           /\ ~RequestLoad(p, from).loaded
<1>1. ss[p] \in Requests
    BY LoopIs
<1> QED BY <1>1 DEF RequestSave, RequestLoad, Requests

LEMMA EnterMoves ==
    ASSUME LoopType, NEW p \in Slots, EnterReady(p)
    PROVE  /\ UNCHANGED <<disk, card, game, clock, blobs>>
           /\ np[p].xfer = "LOAD_APPLYING" /\ ss[p].loaded /\ ~Pending(p)
           /\ np'[p].xfer = "LOAD_READY" /\ np'[p].slot = np[p].slot /\ np'[p].applied
           /\ ~np'[p].synced /\ ~np'[p].needs /\ ss'[p].load = <<>> /\ ss'[p].save = <<>>
<1>1. /\ np[p].xfer = "LOAD_APPLYING" /\ ss[p].loaded /\ ~Pending(p)
      /\ np' = [np EXCEPT ![p] = EnterLoadReady(p, np[p].slot)]
      /\ ss' = [ss EXCEPT ![p].loaded = FALSE]
      /\ UNCHANGED <<disk, card, game, clock, blobs>>
    BY DEF EnterReady, Ask, orderVars, inputVars
<1>2. np[p] \in Loop /\ ss[p] \in Requests
    BY LoopIs
<1>3. np'[p] = EnterLoadReady(p, np[p].slot) /\ ss'[p] = [ss[p] EXCEPT !.loaded = FALSE]
    BY <1>1 DEF LoopType
<1>4. /\ np'[p].xfer = "LOAD_READY" /\ np'[p].slot = np[p].slot /\ np'[p].applied
      /\ ~np'[p].synced /\ ~np'[p].needs
    BY <1>2, <1>3 DEF EnterLoadReady, Loop
<1>5. ss'[p].load = <<>> /\ ss'[p].save = <<>>
    BY <1>1, <1>2, <1>3 DEF Pending, Requests
<1> QED BY <1>1, <1>4, <1>5

LEMMA ApplyMoves ==
    ASSUME LoopType, OrderInv, next_xfer_id \in Nat, NEW p \in Slots, ApplyReady(p)
    PROVE  LET id == IF p = Host THEN tx.id ELSE rx[p].id
               b  == blobs[id]
           IN  /\ id \in 1 .. next_xfer_id /\ UNCHANGED <<game, clock, orderVars>>
               /\ p = Host => HostFinish /\ tx.active /\ tx.ready /\ disk'[p] = disk[p] /\ UNCHANGED card
               /\ p # Host => p \in Guests /\ GuestFinish(p) /\ rx[p].active /\ rx[p].ready
               /\ \/ /\ b.op = "SRAM" /\ UNCHANGED <<ss, disk>>
                     /\ np'[p].xfer = "NONE" /\ np'[p].slot = np[p].slot /\ ~np'[p].needs
                     /\ np'[p].synced = np[p].synced /\ np'[p].applied = np[p].applied
                  \/ /\ b.op = "SAVE" /\ UNCHANGED <<ss, card>>
                     /\ np'[p].xfer = "NONE" /\ np'[p].slot = np[p].slot /\ np'[p].needs = np[p].needs
                     /\ np'[p].synced = np[p].synced /\ np'[p].applied = np[p].applied
                  \/ /\ b.op = "LOAD" /\ UNCHANGED card
                     /\ np'[p].xfer = "LOAD_APPLYING" /\ np'[p].slot = b.slot /\ ~np'[p].needs
                     /\ ~np'[p].synced /\ ~np'[p].applied
                     /\ ss'[p].load = (IF p = Host THEN <<"SLOT", b.slot>> ELSE <<"BLOB", b.data>>)
                     /\ ss'[p].save = ss[p].save /\ ~ss'[p].loaded
<1> DEFINE id == IF p = Host THEN tx.id ELSE rx[p].id
           b  == blobs[id]
<1>1. /\ p = Host => HostFinish /\ tx.active /\ tx.ready
      /\ p # Host => p \in Guests /\ GuestFinish(p) /\ rx[p].active /\ rx[p].ready
      /\ id \in 1 .. next_xfer_id
    BY ReadyBlob, SMTT(40) DEF HostFinish, GuestFinish
<1>2. UNCHANGED <<game, clock, orderVars>>
    BY DEF ApplyReady, inputVars
<1>3. np[p] \in Loop /\ np \in [Slots -> Loop] /\ ss \in [Slots -> Requests]
      /\ disk \in [Slots -> [Saves -> Nat]] /\ card \in [Slots -> Nat]
    BY LoopIs DEF LoopType
<1>4. CASE b.op = "SRAM"
    <2>1. /\ UNCHANGED <<ss, disk>> /\ (p = Host => UNCHANGED card)
          /\ np' = [np EXCEPT ![p] = [Idle(p) EXCEPT !.cards = TRUE, !.needs = FALSE]]
        BY <1>4 DEF ApplyReady
    <2>2. np'[p] = [Idle(p) EXCEPT !.cards = TRUE, !.needs = FALSE]
        BY <1>3, <2>1
    <2>3. /\ np'[p].xfer = "NONE" /\ np'[p].slot = np[p].slot /\ ~np'[p].needs
          /\ np'[p].synced = np[p].synced /\ np'[p].applied = np[p].applied
        BY <1>3, <2>2 DEF Idle, Loop
    <2> QED BY <1>1, <1>2, <1>4, <2>1, <2>3
<1>5. CASE b.op = "SAVE"
    <2>1. /\ UNCHANGED <<ss, card>> /\ np' = [np EXCEPT ![p] = Idle(p)]
          /\ \E kept \in IF p = Host THEN {disk[p][b.slot]} ELSE {b.data, NoFile} :
                disk' = [disk EXCEPT ![p][b.slot] = kept]
        BY <1>5 DEF ApplyReady
    <2>2. np'[p] = Idle(p)
        BY <1>3, <2>1
    <2>3. /\ np'[p].xfer = "NONE" /\ np'[p].slot = np[p].slot /\ np'[p].needs = np[p].needs
          /\ np'[p].synced = np[p].synced /\ np'[p].applied = np[p].applied
        BY <1>3, <2>2 DEF Idle, Loop
    <2>4. p = Host => disk'[p] = disk[p]
        BY <1>3, <2>1, SMTT(40)
    <2> QED BY <1>1, <1>2, <1>5, <2>1, <2>3, <2>4
<1>6. CASE b.op = "LOAD"
    <2> DEFINE from == IF p = Host THEN <<"SLOT", b.slot>> ELSE <<"BLOB", b.data>>
    <2>1. /\ UNCHANGED card /\ np' = [np EXCEPT ![p] = BeginLoadApply(p, b.slot)]
          /\ ss' = [ss EXCEPT ![p] = RequestLoad(p, from)]
          /\ \E kept \in IF p = Host THEN {disk[p][b.slot]} ELSE {b.data, NoFile} :
                disk' = [disk EXCEPT ![p][b.slot] = kept]
        BY <1>6 DEF ApplyReady
    <2>2. np'[p] = BeginLoadApply(p, b.slot) /\ ss'[p] = RequestLoad(p, from)
        BY <1>3, <2>1
    <2>3. /\ np'[p].xfer = "LOAD_APPLYING" /\ np'[p].slot = b.slot /\ ~np'[p].needs
          /\ ~np'[p].synced /\ ~np'[p].applied
        BY <1>3, <2>2 DEF BeginLoadApply, Loop
    <2>4. p = Host => disk'[p] = disk[p]
        BY <1>3, <2>1
    <2>5. ss'[p].load = from /\ ss'[p].save = ss[p].save /\ ~ss'[p].loaded
        <3> HIDE DEF from
        <3> QED BY <2>2, RequestsAre
    <2> QED BY <1>1, <1>2, <1>6, <2>1, <2>3, <2>4, <2>5
<1> HIDE DEF b
<1>7. b.op \in {"SRAM", "SAVE", "LOAD"}
    BY ReadyBlob DEF b
<1> QED BY <1>4, <1>5, <1>6, <1>7 DEF b

LEMMA AskMoves ==
    ASSUME LoopType, NEW s \in Saves, AskSave(s) \/ AskLoad(s)
    PROVE  /\ MayAsk /\ np[Host].xfer = "NONE" /\ UNCHANGED <<disk, card, game, clock, ss>>
           /\ np'[Host].slot = s /\ np'[Host].needs = np[Host].needs
           /\ \/ /\ AskSave(s) /\ np'[Host].xfer = "SAVE_COORD" /\ np'[Host].applied = np[Host].applied
                 /\ Ask(CoordProbe(s, clock[Host].sim + Delay + 2))
              \/ /\ AskLoad(s) /\ np'[Host].xfer = "LOAD_PROBE" /\ ~np'[Host].applied
                 /\ disk[Host][s] # NoFile /\ Ask(HashProbe("LOAD", s, disk[Host][s]))
<1> DEFINE tick == clock[Host].sim + Delay + 2
           saves == [np[Host] EXCEPT !.xfer = "SAVE_COORD", !.slot = s, !.target = tick,
                                     !.staged = FALSE, !.acked = FALSE]
           loads == [np[Host] EXCEPT !.xfer = "LOAD_PROBE", !.slot = s, !.applied = FALSE]
<1>1. Host \in Slots /\ np \in [Slots -> Loop] /\ np[Host] \in Loop
    BY LoopIs DEF LoopType, Slots
<1>2. MayAsk /\ np[Host].xfer = "NONE"
    BY DEF AskSave, AskLoad, MayAsk
<1>3. CASE AskSave(s)
    <2>1. /\ Ask(CoordProbe(s, tick)) /\ np' = [np EXCEPT ![Host] = saves]
          /\ UNCHANGED <<disk, card, game, clock, ss>>
        BY <1>3 DEF AskSave, HostGoesOn, inputVars
    <2>2. saves.xfer = "SAVE_COORD" /\ saves.slot = s /\ saves.needs = np[Host].needs
          /\ saves.applied = np[Host].applied
        BY <1>1 DEF Loop
    <2> HIDE DEF saves
    <2>3. np'[Host] = saves
        BY <1>1, <2>1
    <2> QED BY <1>2, <1>3, <2>1, <2>2, <2>3
<1>4. CASE AskLoad(s)
    <2>1. /\ Ask(HashProbe("LOAD", s, disk[Host][s])) /\ np' = [np EXCEPT ![Host] = loads]
          /\ disk[Host][s] # NoFile /\ UNCHANGED <<disk, card, game, clock, ss>>
        BY <1>4 DEF AskLoad, HostGoesOn, inputVars
    <2>2. loads.xfer = "LOAD_PROBE" /\ loads.slot = s /\ loads.needs = np[Host].needs
          /\ ~loads.applied
        BY <1>1 DEF Loop
    <2> HIDE DEF loads
    <2>3. np'[Host] = loads
        BY <1>1, <2>1
    <2> QED BY <1>2, <1>4, <2>1, <2>2, <2>3
<1> QED BY <1>3, <1>4

-----------------------------------------------------------------------------
(* Cards *)

LEMMA LongerBlobs ==
    ASSUME LoopType, NEW b \in Blob, blobs' = Append(blobs, b)
    PROVE  /\ blobs' # <<>> /\ Len(blobs) \in Nat /\ blobs'[Len(blobs) + 1] = b
           /\ \A i \in 1 .. Len(blobs) : blobs'[i] = blobs[i]
           /\ blobs # <<>> <=> Len(blobs) > 0
<1>1. blobs \in Seq(Blob)
    BY DEF LoopType
<1> QED BY <1>1

\* The host's cards stay, and what it sends first is them only if the guest's differ.
LEMMA HostCards ==
    ASSUME NEW g, JointStep(g), HostActs
    PROVE  /\ UNCHANGED card
           /\ blobs' # <<>> /\ blobs'[1].op = "SRAM" =>
                 \/ blobs # <<>> /\ blobs[1].op = "SRAM"
                 \/ Reply(g, HashProbe("SRAM", 0, card[Host]), FALSE) \in net
           /\ Phase' = "MC_PROBE" =>
                 asked' # <<>> /\ Last' = <<"PROBE", HashProbe("SRAM", 0, card[Host])>>
<1>0. /\ LoopType /\ GeneralInv /\ ~over /\ ~over' /\ Guests = {g} /\ Host \in Slots /\ CardsOwed(g)
      /\ np[Host] \in Loop /\ AskingInv /\ OrderInv /\ next_xfer_id \in Nat /\ MarksTrue
      /\ np \in [Slots -> Loop]
    <2>1. GeneralInv /\ ~over /\ Guests = {g} /\ ~over' /\ CardsOwed(g)
        BY DEF JointStep, Joint
    <2> QED BY <2>1, Two DEF InputInv, LoopType
<1>1. CASE LoopStep(Host)
    <2>1. CASE ApplyReady(Host)
        <3>1. UNCHANGED <<card, orderVars>> /\ np'[Host].xfer # "MC_PROBE"
            BY <1>0, <2>1, ApplyMoves
        <3> QED BY <3>1 DEF Phase, orderVars
    <2>2. CASE EnterReady(Host)
        <3>1. UNCHANGED <<card, blobs>> /\ np'[Host].xfer # "MC_PROBE"
            BY <1>0, <2>2, EnterMoves
        <3> QED BY <3>1 DEF Phase
    <2>3. CASE Poll(Host) \/ FinishFrame(Host) \/ PollSave(Host) \/ PollLoad(Host)
               \/ MaybeStageTargetSave(Host)
        <3>1. UNCHANGED <<card, orderVars>> /\ np'[Host].xfer \in {np[Host].xfer, "NONE"}
            BY <1>0, <2>3, PollMoves, FrameMoves, SaveMoves, LoadMoves, StageMoves
        <3> QED BY <1>0, <3>1 DEF Phase, Last, orderVars, CardsOwed
    <2> QED BY <1>0, <1>1, <2>1, <2>2, <2>3 DEF LoopStep, AbortLoad
<1>2. CASE DriveCards
    <2>1. /\ Answered("MC_PROBE") /\ UNCHANGED card
          /\ \/ ProbeFinish /\ UNCHANGED orderVars /\ np'[Host].xfer = "NONE"
             \/ ~probe[Host].match /\ Send("SRAM", 0, card[Host]) /\ np'[Host].xfer = "MC_SEND"
        BY <1>0, <1>2, ZenonT(60) DEF DriveCards, HostGoesOn, Idle, Loop
    <2>2. Reply(g, probe[Host].what, probe[Host].match) \in net /\ Last = <<"PROBE", probe[Host].what>>
        BY <1>0, <2>1, HostHears DEF Answered
    <2>3. probe[Host].what = HashProbe("SRAM", 0, card[Host])
        BY <1>0, <2>1, <2>2 DEF CardsOwed, Answered, Phase
    <2>4. probe[Host].match \in BOOLEAN
        BY <1>0, <2>1, Two, ProbeActive DEF Answered
    <2>5. CASE UNCHANGED orderVars /\ np'[Host].xfer = "NONE"
        BY <2>1, <2>5 DEF Phase, orderVars
    <2>6. CASE ~probe[Host].match /\ np'[Host].xfer = "MC_SEND"
        <3>1. probe[Host].match = FALSE
            BY <2>4, <2>6
        <3>2. Reply(g, HashProbe("SRAM", 0, card[Host]), FALSE) \in net
            BY <2>2, <2>3, <3>1
        <3>3. Phase' # "MC_PROBE"
            BY <2>6 DEF Phase
        <3> QED BY <2>1, <3>2, <3>3
    <2> QED BY <2>1, <2>5, <2>6
<1>3. CASE DriveSaveProbe \/ DriveLoadProbe
    <2>1. /\ UNCHANGED card /\ np'[Host].xfer # "MC_PROBE"
          /\ \/ UNCHANGED orderVars
             \/ \E op \in {"SAVE", "LOAD"} :
                   blobs' = Append(blobs, [op |-> op, slot |-> np[Host].slot, data |-> disk[Host][np[Host].slot]])
        <3>1. CASE DriveSaveProbe
            BY <1>0, <3>1 DEF DriveSaveProbe, HostGoesOn, Idle, Loop, Send
        <3>2. CASE DriveLoadProbe
            <4>1. UNCHANGED card /\ np'[Host].xfer # "MC_PROBE"
                <5>1. \/ HostGoesOn(BeginLoadApply(Host, np[Host].slot))
                      \/ HostGoesOn([np[Host] EXCEPT !.xfer = "LOAD_SEND", !.applied = FALSE,
                                                     !.synced = FALSE])
                    BY <3>2 DEF DriveLoadProbe
                <5>2. CASE HostGoesOn(BeginLoadApply(Host, np[Host].slot))
                    BY <1>0, <5>2 DEF HostGoesOn, BeginLoadApply, Loop
                <5>3. CASE HostGoesOn([np[Host] EXCEPT !.xfer = "LOAD_SEND", !.applied = FALSE,
                                                       !.synced = FALSE])
                    BY <1>0, <5>3 DEF HostGoesOn, Loop
                <5> QED BY <5>1, <5>2, <5>3
            <4>2. \/ UNCHANGED orderVars
                  \/ blobs' = Append(blobs, [op |-> "LOAD", slot |-> np[Host].slot,
                                              data |-> disk[Host][np[Host].slot]])
                BY <3>2 DEF DriveLoadProbe, Send
            <4> QED BY <4>1, <4>2
        <3> QED BY <1>3, <3>1, <3>2
    <2>2. np[Host].slot \in Saves
        BY <1>0, <1>3 DEF DriveSaveProbe, DriveLoadProbe, Answered, AskingInv, SendTrue
    <2>3. disk[Host][np[Host].slot] \in Nat
        BY <1>0, <2>2 DEF LoopType
    <2>4. CASE UNCHANGED orderVars
        BY <2>1, <2>4 DEF Phase, orderVars
    <2>5. ASSUME NEW op \in {"SAVE", "LOAD"},
                 blobs' = Append(blobs, [op |-> op, slot |-> np[Host].slot, data |-> disk[Host][np[Host].slot]])
          PROVE  blobs'[1].op = "SRAM" => blobs # <<>> /\ blobs[1].op = "SRAM"
        <3> DEFINE b == [op |-> op, slot |-> np[Host].slot, data |-> disk[Host][np[Host].slot]]
        <3>1. b \in Blob /\ b.op = op
            BY <2>2, <2>3 DEF Blob
        <3> HIDE DEF b
        <3>2. /\ Len(blobs) \in Nat /\ blobs'[Len(blobs) + 1] = b
              /\ \A i \in 1 .. Len(blobs) : blobs'[i] = blobs[i]
              /\ blobs # <<>> <=> Len(blobs) > 0
            BY <1>0, <2>5, <3>1, LongerBlobs DEF b
        <3> QED BY <2>5, <3>1, <3>2
    <2> QED BY <2>1, <2>4, <2>5 DEF Phase
<1>4. CASE AbortSave \/ DriveSaveCoord \/ DriveLoadReady
    <2>1. UNCHANGED <<card, blobs>>
        BY <1>4 DEF AbortSave, DriveSaveCoord, DriveLoadReady, HostGoesOn, orderVars, Ask
    <2>2. np'[Host].xfer # "MC_PROBE"
        <3>1. CASE AbortSave \/ DriveSaveCoord
            BY <1>0, <3>1 DEF AbortSave, DriveSaveCoord, HostGoesOn, Idle, Loop
        <3>2. CASE DriveLoadReady
            BY <1>0, <3>2 DEF DriveLoadReady, CommitLoadSync, Answered, Loop
        <3> QED BY <1>4, <3>1, <3>2
    <2> QED BY <2>1, <2>2 DEF Phase
<1>5. CASE StartCards \/ \E s \in Saves : AskSave(s) \/ AskLoad(s)
    <2>1. UNCHANGED <<card, blobs>>
        BY <1>5 DEF StartCards, AskSave, AskLoad, HostGoesOn, Ask
    <2>2. CASE \E s \in Saves : AskSave(s) \/ AskLoad(s)
        <3>1. np'[Host].xfer # "MC_PROBE"
            <4>1. PICK s \in Saves : AskSave(s) \/ AskLoad(s)
                BY <2>2
            <4>2. np'[Host].xfer \in {"SAVE_COORD", "LOAD_PROBE"}
                BY <1>0, <4>1, AskMoves
            <4> QED BY <4>2
        <3> QED BY <2>1, <3>1 DEF Phase
    <2>3. CASE StartCards
        <3>1. HashProbe("SRAM", 0, card[Host]) \in Probe
            BY <1>0 DEF HashProbe, Probe, LoopType
        <3>2. asked' = Append(asked, <<"PROBE", HashProbe("SRAM", 0, card[Host])>>)
            BY <2>3 DEF StartCards, Ask
        <3> DEFINE x == <<"PROBE", HashProbe("SRAM", 0, card[Host])>>
        <3>3. x \in Exch
            BY <3>1 DEF Exch
        <3>4. asked' # <<>> /\ Last' = x
            <4>1. asked \in Seq(Exch) /\ asked' = Append(asked, x)
                BY <1>0, <3>2 DEF LoopType
            <4> HIDE DEF x
            <4> QED BY <3>3, <4>1, AppendIs DEF Last
        <3> QED BY <2>1, <3>4
    <2> QED BY <1>5, <2>2, <2>3
<1> QED BY <1>1, <1>2, <1>3, <1>4, <1>5 DEF HostActs, HostDriveXfer

LEMMA CardsOwedStep ==
    ASSUME NEW g, JointStep(g), BarrierNext
    PROVE  CardsOwed(g)'
<1> DEFINE sram == HashProbe("SRAM", 0, card[Host])
<1>0. /\ LoopType /\ GeneralInv /\ ~over /\ ~over' /\ Guests = {g} /\ CardsOwed(g) /\ KeptTrue(g)
      /\ OrderInv /\ g \in Guests /\ GuestTrue(g) /\ next_xfer_id \in Nat /\ g \in Slots /\ g # Host
      /\ card \in [Slots -> Nat] /\ heard[g] \in Nat
    <2>1. GeneralInv /\ ~over /\ Guests = {g} /\ ~over' /\ CardsOwed(g) /\ KeptTrue(g)
        BY DEF JointStep, Joint
    <2> QED BY <2>1, Two DEF LoopType
<1>1. sram \in Probe /\ sram.op = "SRAM" /\ sram.size = 1 /\ sram.crc = card[Host]
    BY <1>0, Two DEF HashProbe, Probe
<1>2. CASE HostActs /\ GuestKept(g)
    <2>1. /\ UNCHANGED card /\ rx'[g] = rx[g] /\ delivered'[g] = delivered[g]
          /\ Reply(g, sram, FALSE) \in net' <=> Reply(g, sram, FALSE) \in net
        BY <1>1, <1>2, HostCards, SpokenSame DEF GuestKept
    <2>2. /\ blobs' # <<>> /\ blobs'[1].op = "SRAM" =>
                 \/ blobs # <<>> /\ blobs[1].op = "SRAM"
                 \/ Reply(g, sram, FALSE) \in net
          /\ Phase' = "MC_PROBE" => asked' # <<>> /\ Last' = <<"PROBE", sram>>
        BY <1>2, HostCards
    <2> QED BY <1>0, <2>1, <2>2 DEF CardsOwed, CardsDiffer
<1>3. CASE SessionPump
    <2>1. /\ Hushed(g) /\ UNCHANGED <<np, card, asked, blobs>>
          /\ delivered[g] \subseteq delivered'[g]
          /\ \A id \in delivered'[g] : id \in delivered[g] \/ (rx[g].active /\ id = rx[g].id)
          /\ Still(g) \/ (\E w \in Probe : Surfaces(g, w)) \/ (\E id \in Nat : Opens(g, id))
        BY <1>0, <1>3, PumpDoes DEF loopVars
    <2>2. Reply(g, sram, FALSE) \in net' <=> Reply(g, sram, FALSE) \in net
        BY <1>1, <2>1, SpokenSame
    <2>3. (1 \in delivered'[g] => rx'[g].active /\ rx'[g].id = 1)
          => (1 \in delivered[g] => rx[g].active /\ rx[g].id = 1)
        <3> SUFFICES ASSUME 1 \in delivered[g], rx'[g].active, rx'[g].id = 1
                     PROVE  rx[g].active /\ rx[g].id = 1
            BY <2>1
        <3>1. CASE Still(g)
            BY <3>1 DEF Still
        <3>2. \A w \in Probe : ~Surfaces(g, w)
            BY DEF Surfaces
        <3>3. ASSUME NEW id \in Nat, Opens(g, id) PROVE FALSE
            <4>1. heard[g] < heard'[g] /\ heard'[g] \in Asked /\ asked[heard'[g]] = <<"XFER", 1>>
                BY <3>3 DEF Opens
            <4>2. PICK i \in 1 .. heard[g] : asked[i] = <<"XFER", 1>>
                BY <1>0 DEF GuestTrue
            <4>3. i = heard'[g]
                BY <1>0, <4>1, <4>2, Two, SMTT(40) DEF OrderInv, AskedOnce
            <4> QED BY <1>0, <4>1, <4>2, <4>3, Two
        <3> QED BY <2>1, <3>1, <3>2, <3>3
    <2> QED BY <1>0, <2>1, <2>2, <2>3 DEF CardsOwed, CardsDiffer, Phase, Last
<1>4. CASE LoopStep(g)
    <2>1. HostKept /\ UNCHANGED <<delivered, net>> /\ (ApplyReady(g) \/ UNCHANGED rx)
        BY <1>0, <1>4, GuestLoop
    <2>2. CASE ApplyReady(g)
        <3>1. /\ GuestFinish(g) /\ rx[g].active
              /\ blobs[rx[g].id].op = "SRAM" \/ UNCHANGED card
              /\ rx[g].id \in 1 .. next_xfer_id
            BY <1>0, <2>2, ApplyMoves
        <3>2. ~rx'[g].active /\ rx[g].id \in delivered[g]
            <4>1. rx' = [rx EXCEPT ![g] = Nothing] /\ rx[g].ready
                BY <3>1 DEF GuestFinish
            <4>2. rx \in [Guests -> RxState \cup {Nothing}]
                BY <1>0, Two DEF TypeOK
            <4>3. ~rx'[g].active
                BY <1>0, <4>1, <4>2 DEF Nothing
            <4>4. rx[g].id \in delivered[g]
                BY <1>0, <3>1, <4>1, Two DEF IInv, TransferInv, RxTrue
            <4> QED BY <4>3, <4>4
        <3>3. blobs[rx[g].id].op = "SRAM" => rx[g].id = 1
            BY <1>0, <3>1, BlobsAre DEF OrderInv
        <3> QED BY <1>0, <2>1, <3>1, <3>2, <3>3 DEF CardsOwed, CardsDiffer, HostKept, Phase, Last
    <2>3. CASE ~ApplyReady(g)
        <3>1. UNCHANGED card
            BY <1>0, <1>4, <2>3 DEF LoopStep, Poll, FinishFrame, PollSave, PollLoad,
               MaybeStageTargetSave, EnterReady, AbortLoad
        <3> QED BY <1>0, <2>1, <2>3, <3>1 DEF CardsOwed, CardsDiffer, HostKept, Phase, Last
    <2> QED BY <2>2, <2>3
<1>5. CASE GuestHandleProbe(g)
    <2> DEFINE w == probe[g].what
    <2>1. /\ HostKept /\ UNCHANGED <<delivered, rx, card>> /\ w \in Probe /\ Askable(w)
          /\ \/ UNCHANGED net
             \/ \E yes \in BOOLEAN : ProbeReply(g, yes) /\ net' = net \cup {Reply(g, w, yes)}
        BY <1>0, <1>5, GuestAnswers
    <2>2. Reply(g, sram, FALSE) \in net' => Reply(g, sram, FALSE) \in net \/ card[g] # card[Host]
        <3> SUFFICES ASSUME NEW yes \in BOOLEAN, net' = net \cup {Reply(g, w, yes)},
                            Reply(g, sram, FALSE) \notin net, Reply(g, sram, FALSE) \in net'
                     PROVE  card[g] # card[Host]
            BY <2>1
        <3>1. w = sram /\ yes = FALSE
            <4>1. Reply(g, sram, FALSE) = Reply(g, w, yes)
                OBVIOUS
            <4> HIDE DEF sram, w
            <4> QED BY <4>1 DEF Reply
        <3>2. ~ArmSave(g) /\ AnswerCards(g)
            <4>1. ~AnswerReady(g) /\ ~ArmSave(g) /\ ~AnswerSave(g) /\ ~AnswerHash(g)
                BY <1>1, <3>1 DEF AnswerReady, ArmSave, AnswerSave, AnswerHash
            <4> QED BY <1>5, <4>1 DEF GuestHandleProbe
        <3>3. net' = net \cup {Reply(g, w, card[g] = w.crc)}
            BY <3>2 DEF AnswerCards, ProbeReply
        <3>4. (card[g] = w.crc) = FALSE
            <4>1. Reply(g, sram, FALSE) = Reply(g, w, card[g] = w.crc)
                BY <3>3
            <4> HIDE DEF sram, w
            <4> QED BY <4>1, Zenon DEF Reply
        <3> QED BY <1>1, <3>1, <3>4
    <2> QED BY <1>0, <2>1, <2>2 DEF CardsOwed, CardsDiffer, HostKept, Phase, Last
<1> QED BY <1>2, <1>3, <1>4, <1>5, StepKinds

-----------------------------------------------------------------------------
(* What the guest may be doing when it is asked, or given, something *)

LEMMA LoadProbes ==
    ASSUME GeneralInv, ~over, NEW g, Guests = {g}, LoadOpen
    PROVE  /\ np[Host].slot \in Saves /\ File \in Nat
           /\ FileProbe \in Probe /\ FileProbe.op = "LOAD" /\ FileProbe.size = 1 /\ FileProbe.crc = File
           /\ FileProbe.slot = np[Host].slot
           /\ AllReady \in Probe /\ AllReady.op = "LOAD" /\ AllReady.size = 0
           /\ FileProbe # AllReady
<1>1. np[Host].slot \in Saves
    BY Two DEF LoadOpen, Phase, AskingInv, SendTrue
<1>2. File \in Nat
    <2>1. Host \in Slots /\ LoopType
        BY Two
    <2> QED BY <1>1, <2>1 DEF LoopType, File
<1>3. FileProbe \in Probe /\ AllReady \in Probe
    BY <1>1, <1>2, Askables DEF FileProbe, AllReady
<1>4. /\ FileProbe.op = "LOAD" /\ FileProbe.size = 1 /\ FileProbe.crc = File
      /\ FileProbe.slot = np[Host].slot
      /\ AllReady.op = "LOAD" /\ AllReady.size = 0
    BY DEF FileProbe, AllReady, HashProbe, ReadyProbe
<1>5. FileProbe # AllReady
    BY <1>4
<1> QED BY <1>1, <1>2, <1>3, <1>4, <1>5

LEMMA GuestAsked ==
    ASSUME GeneralInv, ~over, NEW g, Guests = {g}, Joint(g), probe[g].active, probe[g].pending
    PROVE  LET w == probe[g].what
           IN  /\ At(g) = <<"PROBE", w>> /\ heard[g] \in Asked
               /\ \/ /\ ~LoadOpen /\ GuestPlays(g) /\ ~IsHash("LOAD", w)
                     /\ \/ np[g].xfer \in {"NONE", "SAVE_COORD", "SAVE_SEND"}
                        \/ np[g].xfer = "LOAD_READY" /\ np[g].synced /\ IsReady(w)
                  \/ /\ LoadOpen /\ Waiting(g) /\ ~IsCoord(w)
                     /\ IsHash("LOAD", w) => w = FileProbe /\ heard[g] = Len(asked)
                  \/ /\ LoadOpen /\ (Applying(g) \/ Applied(g))
                     /\ (w = FileProbe /\ disk[g][np[Host].slot] = File) \/ w = AllReady
                  \/ LoadOpen /\ Synced(g) /\ w = AllReady
<1> DEFINE w == probe[g].what
<1>0. LoopType /\ OrderInv /\ g \in Guests /\ InStep(g) /\ Armed(g) /\ HostLoads
    BY Two DEF Joint
<1>1. heard[g] \in Asked /\ At(g) = <<"PROBE", w>> /\ w \in Probe /\ ~rx[g].active
    BY <1>0, HeardProbe
<1>2. IsHash("LOAD", w) => heard[g] \in Loads
    BY <1>1 DEF Loads, At
<1>3. IsCoord(w) => heard[g] \in Coords
    BY <1>1 DEF Coords, At
<1>4. Len(asked) \in Nat /\ heard[g] \in Nat /\ heard[g] <= Len(asked)
    BY Two
<1>5. CASE ~LoadOpen
    <2>1. GuestPlays(g)
        BY <1>0, <1>5 DEF InStep
    <2>2. ~IsHash("LOAD", w)
        BY <1>2, <1>4, <2>1 DEF GuestPlays
    <2>3. \/ np[g].xfer \in {"NONE", "SAVE_COORD", "SAVE_SEND"}
          \/ np[g].xfer = "LOAD_READY" /\ np[g].synced /\ IsReady(w)
        BY <1>1, <2>1 DEF GuestPlays
    <2> QED BY <1>1, <1>5, <2>1, <2>2, <2>3
<1>6. CASE LoadOpen /\ Waiting(g)
    <2>1. asked # <<>> /\ Last = <<"PROBE", FileProbe>>
        BY <1>0, <1>6 DEF HostLoads, Waiting
    <2>2. IsHash("LOAD", w) => w = FileProbe /\ heard[g] = Len(asked)
        <3> SUFFICES ASSUME IsHash("LOAD", w) PROVE w = FileProbe /\ heard[g] = Len(asked)
            OBVIOUS
        <3>1. heard[g] = Len(asked)
            BY <1>2, <1>4, <1>6 DEF Waiting
        <3>2. <<"PROBE", w>> = <<"PROBE", FileProbe>>
            BY <1>1, <2>1, <3>1 DEF At, Last
        <3> HIDE DEF w
        <3> QED BY <3>1, <3>2
    <2>3. ~IsCoord(w)
        <3> SUFFICES ASSUME IsCoord(w) PROVE FALSE
            OBVIOUS
        <3>1. heard[g] # Len(asked)
            <4> SUFFICES ASSUME heard[g] = Len(asked) PROVE FALSE
                OBVIOUS
            <4>1. <<"PROBE", w>> = <<"PROBE", FileProbe>>
                BY <1>1, <2>1 DEF At, Last
            <4>2. w = FileProbe
                BY <4>1
            <4> QED BY <1>6, <4>2, LoadProbes DEF IsCoord
        <3>2. asked[heard[g]][2] = w
            BY <1>1 DEF At
        <3> QED BY <1>0, <1>3, <1>4, <3>1, <3>2 DEF Armed
    <2> QED BY <1>1, <1>6, <2>2, <2>3
<1>7. CASE LoadOpen /\ Getting(g)
    BY <1>1, <1>7 DEF Getting, Lacking, Fetching
<1>8. CASE LoadOpen /\ (Applying(g) \/ Applied(g))
    <2>1. Has(g)
        BY <1>8 DEF Applying, Applied
    <2>2. w \in {FileProbe, AllReady}
        BY <1>1, <2>1 DEF Has
    <2>3. w = FileProbe => disk[g][np[Host].slot] = File
        BY <1>1, <2>1 DEF Has
    <2> QED BY <1>1, <1>8, <2>2, <2>3
<1>9. CASE LoadOpen /\ Synced(g)
    <2>1. Last = <<"PROBE", AllReady>> /\ heard[g] = Len(asked)
        BY <1>0, <1>9 DEF HostLoads, Synced
    <2>2. <<"PROBE", w>> = <<"PROBE", AllReady>>
        BY <1>1, <2>1 DEF At, Last
    <2>3. w = AllReady
        BY <2>2
    <2> QED BY <1>1, <1>9, <2>3
<1> HIDE DEF w
<1> QED BY <1>0, <1>5, <1>6, <1>7, <1>8, <1>9 DEF InStep, GuestLoads, w

LEMMA GuestReceived ==
    ASSUME GeneralInv, ~over, NEW g, Guests = {g}, Joint(g), rx[g].active
    PROVE  LET b == blobs[rx[g].id]
           IN  /\ At(g) = <<"XFER", rx[g].id>> /\ heard[g] \in Asked
               /\ ss[g].save = <<>> /\ ss[g].load = <<>> /\ ~np[g].applied
               /\ b.op = "SRAM" => ~np[g].needs
               /\ \/ /\ ~LoadOpen /\ GuestPlays(g) /\ b.op # "LOAD"
                     /\ np[g].xfer \in {"NONE", "SAVE_COORD", "SAVE_SEND"}
                  \/ LoadOpen /\ Waiting(g) /\ b.op # "LOAD"
                  \/ LoadOpen /\ Getting(g) /\ Fetching(g) /\ b = FileBlob
<1> DEFINE b == blobs[rx[g].id]
<1>0. /\ LoopType /\ OrderInv /\ g \in Guests /\ InStep(g) /\ Armed(g) /\ HostLoads /\ CardsOwed(g)
      /\ RequestsTrue /\ g \in Slots /\ InputInv /\ CardsInv
    BY Two DEF Joint
<1>1. heard[g] \in Asked /\ At(g) = <<"XFER", rx[g].id>> /\ rx[g].id \in 1 .. next_xfer_id
    BY <1>0, HeardBlob
<1>2. b.op = "LOAD" => heard[g] \in Loads
    BY <1>1 DEF Loads, At
<1>3. Len(asked) \in Nat /\ heard[g] \in Nat /\ heard[g] <= Len(asked) /\ heard[g] > 0
    BY <1>1, Two
<1>4. /\ \/ /\ ~LoadOpen /\ GuestPlays(g) /\ b.op # "LOAD"
            /\ np[g].xfer \in {"NONE", "SAVE_COORD", "SAVE_SEND"}
         \/ LoadOpen /\ Waiting(g) /\ b.op # "LOAD"
         \/ LoadOpen /\ Getting(g) /\ Fetching(g) /\ b = FileBlob
    <2>1. CASE ~LoadOpen
        <3>1. GuestPlays(g)
            BY <1>0, <2>1 DEF InStep
        <3>2. b.op # "LOAD"
            BY <1>2, <1>3, <3>1 DEF GuestPlays
        <3>3. np[g].xfer \in {"NONE", "SAVE_COORD", "SAVE_SEND"}
            BY <1>1, <3>1 DEF GuestPlays
        <3> QED BY <2>1, <3>1, <3>2, <3>3
    <2>2. CASE LoadOpen /\ Waiting(g)
        <3>1. Last = <<"PROBE", FileProbe>>
            BY <1>0, <2>2 DEF HostLoads, Waiting
        <3>2. b.op # "LOAD"
            <4> SUFFICES ASSUME b.op = "LOAD" PROVE FALSE
                OBVIOUS
            <4>1. heard[g] = Len(asked)
                BY <1>2, <1>3, <2>2 DEF Waiting
            <4> QED BY <1>1, <3>1, <4>1 DEF At, Last
        <3> QED BY <2>2, <3>2
    <2>3. CASE LoadOpen /\ Getting(g)
        <3>1. ~Lacking(g)
            BY <1>0, HeardProbe DEF Lacking
        <3>2. Fetching(g)
            BY <2>3, <3>1 DEF Getting
        <3>3. b = FileBlob
            BY <3>2 DEF Fetching
        <3> QED BY <2>3, <3>2, <3>3
    <2>4. ~Applying(g) /\ ~Applied(g)
        BY DEF Applying, Applied, Has
    <2>5. CASE LoadOpen /\ Synced(g)
        <3>1. Last = <<"PROBE", AllReady>> /\ heard[g] = Len(asked)
            BY <1>0, <2>5 DEF HostLoads, Synced
        <3> QED BY <1>1, <3>1 DEF At, Last
    <2> HIDE DEF b
    <2> QED BY <1>0, <2>1, <2>2, <2>3, <2>4, <2>5 DEF InStep, GuestLoads
<1>5. np[g].xfer \in {"NONE", "SAVE_COORD", "SAVE_SEND", "LOAD_SEND"}
    <2> HIDE DEF b
    <2> QED BY <1>4 DEF Waiting, Getting
<1>6. ss[g].load = <<>> /\ ~np[g].applied
    BY <1>0, <1>5 DEF RequestsTrue, RequestsOf
<1>7. ss[g].save = <<>>
    <2>1. CASE np[g].xfer # "SAVE_COORD"
        BY <1>0, <2>1 DEF RequestsTrue, RequestsOf
    <2>2. CASE np[g].xfer = "SAVE_COORD"
        <3>1. PICK i \in Coords : i <= heard[g]
            BY <1>0, <2>2 DEF Armed
        <3>2. asked[i][1] = "PROBE" /\ i \in Asked
            BY DEF Coords
        <3>3. i # heard[g]
            BY <1>1, <3>2 DEF At
        <3>4. i \in Nat
            BY <3>2, Two
        <3>5. i < Len(asked)
            BY <1>3, <3>1, <3>3, <3>4
        <3> QED BY <1>0, <2>2, <3>5 DEF Armed
    <2> QED BY <2>1, <2>2
<1>8. b.op = "SRAM" => ~np[g].needs
    <2> SUFFICES ASSUME b.op = "SRAM", np[g].needs PROVE FALSE
        OBVIOUS
    <2>1. np[g].cards
        BY <1>0 DEF InputInv, FrameTrue, CardsInv
    <2>2. card[g] = card[Host]
        BY <1>0, <2>1 DEF CardsInv
    <2>3. rx[g].id = 1
        <3>1. BlobsTrue /\ next_xfer_id \in Nat
            BY <1>0, Two DEF OrderInv
        <3> QED BY <1>0, <1>1, <3>1, BlobsAre
    <2>4. blobs # <<>>
        <3>1. Len(blobs) = next_xfer_id /\ blobs \in Seq(Blob) /\ next_xfer_id \in Nat
            BY <1>0, Two DEF OrderInv, BlobsTrue, LoopType
        <3> QED BY <1>1, <3>1
    <2> QED BY <1>0, <2>2, <2>3, <2>4 DEF CardsOwed, CardsDiffer
<1> HIDE DEF b
<1> QED BY <1>1, <1>4, <1>6, <1>7, <1>8 DEF b

-----------------------------------------------------------------------------
(* Requests *)

LEMMA RequestsOfLoop ==
    ASSUME LoopType, OrderInv, MarksTrue, next_xfer_id \in Nat, NEW p \in Slots, LoopStep(p), ~over',
           RequestsOf(p), ApplyReady(p) => ss[p].save = <<>> /\ ss[p].load = <<>> /\ ~np[p].applied
    PROVE  RequestsOf(p)'
<1>0. ss \in [Slots -> Requests]
    BY DEF LoopType
<1>1. CASE Poll(p)
    <2>1. DueToStage(p) => np[p].xfer = "SAVE_COORD"
        BY DEF DueToStage
    <2>2. ss'[p].load = ss[p].load /\ ss'[p].loaded = ss[p].loaded
          /\ (~DueToStage(p) => ss'[p].save = ss[p].save)
        BY <1>0, <1>1, PollMoves, RequestsAre
    <2>3. np[p].xfer = "LOAD_APPLYING" \/ np[p].xfer = "SAVE_COORD" => np'[p].xfer = np[p].xfer
        BY <1>1, PollMoves
    <2>4. np'[p].applied => np[p].applied /\ np'[p].xfer = np[p].xfer
        BY <1>1, PollMoves
    <2> QED BY <2>1, <2>2, <2>3, <2>4 DEF RequestsOf
<1>2. CASE FinishFrame(p)
    BY <1>2, FrameMoves DEF RequestsOf
<1>3. CASE PollSave(p)
    BY <1>3, SaveMoves DEF RequestsOf
<1>4. CASE PollLoad(p)
    BY <1>4, LoadMoves DEF RequestsOf
<1>5. CASE MaybeStageTargetSave(p)
    <2>1. ss'[p] = RequestSave(p, np[p].slot)
        BY <1>0, <1>5, StageMoves
    <2>2. ss'[p].load = ss[p].load
        BY <2>1, RequestsAre
    <2>3. np[p].xfer = "SAVE_COORD" /\ np'[p].xfer = np[p].xfer /\ np'[p].applied = np[p].applied
        BY <1>5, StageMoves
    <2> QED BY <2>2, <2>3 DEF RequestsOf
<1>6. CASE ApplyReady(p)
    <2>1. np'[p].applied => np[p].applied
        BY <1>6, ApplyMoves
    <2>2. \/ ss'[p] = ss[p]
          \/ np'[p].xfer = "LOAD_APPLYING" /\ ss'[p].save = ss[p].save /\ ~ss'[p].loaded
        BY <1>6, ApplyMoves
    <2> QED BY <1>6, <2>1, <2>2 DEF RequestsOf
<1>7. CASE EnterReady(p)
    BY <1>7, EnterMoves DEF RequestsOf
<1> QED BY <1>1, <1>2, <1>3, <1>4, <1>5, <1>6, <1>7 DEF LoopStep, AbortLoad

-----------------------------------------------------------------------------
(* What the guest's answers do to it *)

LEMMA ReadyMoves ==
    ASSUME LoopType, NEW g \in Slots, AnswerReady(g), np[g].applied => np[g].xfer = "LOAD_READY"
    PROVE  /\ IsReady(probe[g].what) /\ np[g].xfer \in {"LOAD_APPLYING", "LOAD_READY"}
           /\ np'[g].xfer = "LOAD_READY" /\ np'[g].synced
           /\ np[g].xfer = "LOAD_APPLYING" => ss[g].load = <<>> /\ ss[g].save = <<>> /\ ss[g].loaded
           /\ ss'[g].load = ss[g].load /\ ss'[g].save = ss[g].save
           /\ \/ /\ np[g].xfer = "LOAD_READY" /\ np[g].synced /\ UNCHANGED clock
                 /\ np'[g].needs = np[g].needs
              \/ /\ np[g].xfer = "LOAD_APPLYING" \/ ~np[g].synced
                 /\ clock'[g].epoch = clock[g].epoch + 1 /\ clock'[g].sim = 0 /\ ~np'[g].needs
<1> DEFINE fresh == np[g].xfer = "LOAD_APPLYING"
           loop  == IF fresh THEN EnterLoadReady(g, probe[g].what.slot) ELSE np[g]
<1>0. np[g] \in Loop /\ ss[g] \in Requests /\ np \in [Slots -> Loop] /\ ss \in [Slots -> Requests]
      /\ clock \in [Slots -> Clock]
    BY LoopIs DEF LoopType
<1>1. /\ IsReady(probe[g].what) /\ np[g].xfer \in {"LOAD_APPLYING", "LOAD_READY"}
      /\ fresh => ~Pending(g) /\ ss[g].loaded
      /\ CommitLoadSync(g, loop)
      /\ ss' = IF fresh THEN [ss EXCEPT ![g].loaded = FALSE] ELSE ss
    BY DEF AnswerReady, IsReady
<1>2. ss'[g].load = ss[g].load /\ ss'[g].save = ss[g].save
    <2>1. ss'[g] = ss[g] \/ ss'[g] = [ss[g] EXCEPT !.loaded = FALSE]
        BY <1>0, <1>1
    <2> QED BY <1>0, <2>1 DEF Requests
<1>3. /\ loop.xfer = "LOAD_READY" /\ (loop.synced <=> ~fresh /\ np[g].synced)
      /\ ~fresh => loop.needs = np[g].needs
      /\ loop \in [xfer : {"LOAD_READY"}, slot : {loop.slot}, target : Nat, staged : BOOLEAN,
                   acked : BOOLEAN, applied : BOOLEAN, synced : BOOLEAN,
                   replied : BOOLEAN, needs : BOOLEAN, cards : BOOLEAN]
    BY <1>0, <1>1 DEF EnterLoadReady, Loop
<1> HIDE DEF loop, fresh
<1>4. CASE loop.synced
    <2>1. np' = [np EXCEPT ![g] = [loop EXCEPT !.replied = TRUE]] /\ UNCHANGED inputVars
        BY <1>1, <1>4 DEF CommitLoadSync
    <2>2. np'[g] = [loop EXCEPT !.replied = TRUE]
        BY <1>0, <2>1
    <2>3. np'[g].xfer = "LOAD_READY" /\ np'[g].synced /\ np'[g].needs = loop.needs
        BY <1>3, <1>4, <2>2
    <2>4. ~fresh /\ np[g].synced /\ np'[g].needs = np[g].needs
        BY <1>3, <1>4, <2>3
    <2>5. np[g].xfer = "LOAD_READY"
        BY <1>1, <2>4 DEF fresh
    <2> QED BY <1>1, <1>2, <2>1, <2>3, <2>4, <2>5 DEF inputVars
<1>5. CASE ~loop.synced
    <2>1. /\ np' = [np EXCEPT ![g] = [loop EXCEPT !.synced = TRUE, !.replied = TRUE, !.needs = FALSE]]
          /\ Resync(g)
        BY <1>1, <1>5 DEF CommitLoadSync
    <2>2. np'[g] = [loop EXCEPT !.synced = TRUE, !.replied = TRUE, !.needs = FALSE]
        BY <1>0, <2>1
    <2>3. np'[g].xfer = "LOAD_READY" /\ np'[g].synced /\ ~np'[g].needs
        BY <1>3, <1>5, <2>2
    <2>4. clock'[g] = NewEpoch(clock[g].epoch + 1)
        BY <1>0, <2>1 DEF Resync
    <2>5. clock'[g].epoch = clock[g].epoch + 1 /\ clock'[g].sim = 0
        BY <2>4 DEF NewEpoch
    <2> QED BY <1>1, <1>2, <1>3, <1>5, <2>3, <2>5 DEF Pending, fresh
<1> QED BY <1>4, <1>5

LEMMA ArmMoves ==
    ASSUME LoopType, NEW g \in Slots, ArmSave(g)
    PROVE  /\ IsCoord(probe[g].what) /\ probe[g].pending /\ UNCHANGED <<ss, clock, net, probe>>
           /\ np'[g].xfer = "SAVE_COORD" /\ ~np'[g].staged
           /\ np'[g].applied = np[g].applied /\ np'[g].needs = np[g].needs
<1>1. /\ IsCoord(probe[g].what) /\ probe[g].pending /\ UNCHANGED <<ss, inputVars, sessionVars>>
      /\ np'[g] = [np[g] EXCEPT !.xfer = "SAVE_COORD", !.slot = probe[g].what.slot,
                                !.target = probe[g].what.crc, !.staged = FALSE, !.acked = FALSE]
    BY DEF ArmSave, IsCoord, LoopType
<1>2. np[g] \in Loop
    BY LoopIs
<1> QED BY <1>1, <1>2 DEF Loop, inputVars, sessionVars

LEMMA AnswerSaveMoves ==
    ASSUME LoopType, NEW g \in Slots, AnswerSave(g)
    PROVE  /\ IsCoord(probe[g].what) /\ UNCHANGED clock
           /\ np[g].xfer = "SAVE_COORD" /\ ss[g].save = <<>> /\ ss[g].load = <<>>
           /\ ss'[g].save = <<>> /\ ss'[g].load = <<>>
           /\ np'[g].applied = np[g].applied /\ np'[g].needs = np[g].needs
           /\ \/ np'[g].xfer = "NONE"
              \/ np'[g].xfer = "SAVE_COORD" /\ np[g].staged /\ np'[g].staged
<1>0. np[g] \in Loop /\ ss[g] \in Requests
    BY LoopIs
<1>1. /\ IsCoord(probe[g].what) /\ UNCHANGED clock
      /\ np[g].xfer = "SAVE_COORD" /\ ss[g].save = <<>> /\ ss[g].load = <<>>
    BY DEF AnswerSave, IsCoord, Pending, inputVars
<1>2. \/ /\ np'[g] = [np[g] EXCEPT !.xfer = "NONE", !.staged = FALSE, !.acked = FALSE]
         /\ ss'[g] = [ss[g] EXCEPT !.save_failed = FALSE]
      \/ np[g].staged /\ np'[g] = [np[g] EXCEPT !.acked = TRUE] /\ ss'[g] = ss[g]
    BY DEF AnswerSave, LoopType
<1>3. ss'[g].save = <<>> /\ ss'[g].load = <<>>
    BY <1>0, <1>1, <1>2 DEF Requests
<1>4. /\ np'[g].applied = np[g].applied /\ np'[g].needs = np[g].needs
      /\ \/ np'[g].xfer = "NONE"
         \/ np'[g].xfer = "SAVE_COORD" /\ np[g].staged /\ np'[g].staged
    BY <1>0, <1>1, <1>2 DEF Loop
<1> QED BY <1>1, <1>3, <1>4

LEMMA AnswerCardsMoves ==
    ASSUME LoopType, NEW g \in Slots, AnswerCards(g)
    PROVE  /\ probe[g].what.op = "SRAM" /\ UNCHANGED <<ss, clock>>
           /\ np'[g].xfer = np[g].xfer /\ np'[g].synced = np[g].synced /\ np'[g].staged = np[g].staged
           /\ np'[g].applied = np[g].applied /\ np'[g].needs = np[g].needs
<1>1. PICK cards \in BOOLEAN : np'[g] = [np[g] EXCEPT !.cards = cards]
    <2>1. np[g].cards \in BOOLEAN
        BY LoopIs DEF Loop
    <2>2. np' = [np EXCEPT ![g].cards = @ \/ (card[g] = probe[g].what.crc)]
        BY DEF AnswerCards
    <2>3. np'[g] = [np[g] EXCEPT !.cards = (np[g].cards \/ (card[g] = probe[g].what.crc))]
        BY <2>2 DEF LoopType
    <2>4. (np[g].cards \/ (card[g] = probe[g].what.crc)) \in BOOLEAN
        OBVIOUS
    <2> QED BY <2>3, <2>4
<1>2. np[g] \in Loop
    BY LoopIs
<1>3. probe[g].what.op = "SRAM" /\ UNCHANGED <<ss, clock>>
    BY SMTT(40) DEF AnswerCards, inputVars
<1> QED BY <1>1, <1>2, <1>3 DEF Loop

LEMMA AnswerHashMoves ==
    ASSUME LoopType, NEW g \in Slots, AnswerHash(g)
    PROVE  LET w == probe[g].what
               match == disk[g][w.slot] # NoFile /\ disk[g][w.slot] = w.crc
           IN  /\ UNCHANGED clock /\ w.size # 0 /\ net' = net \cup {Reply(g, w, match)}
               /\ \/ /\ w.op = "SAVE" /\ UNCHANGED ss
                     /\ np'[g].xfer \in {"NONE", "SAVE_SEND"}
                     /\ np'[g].applied = np[g].applied /\ np'[g].needs = np[g].needs
                  \/ /\ w.op = "LOAD" /\ ~match /\ UNCHANGED ss /\ np'[g].xfer = "LOAD_SEND"
                     /\ np'[g].applied = np[g].applied /\ np'[g].needs = np[g].needs
                     /\ np'[g].synced = np[g].synced
                  \/ /\ w.op = "LOAD" /\ match
                     /\ \/ np[g].xfer \in {"LOAD_APPLYING", "LOAD_READY"} /\ UNCHANGED <<np, ss>>
                        \/ /\ np[g].xfer \notin {"LOAD_APPLYING", "LOAD_READY"}
                           /\ np'[g].xfer = "LOAD_APPLYING"
                           /\ ~np'[g].applied /\ ~np'[g].needs /\ ~np'[g].synced
                           /\ ss'[g].load = <<"SLOT", w.slot>> /\ ss'[g].save = ss[g].save
                           /\ ~ss'[g].loaded
<1> DEFINE w == probe[g].what
           match == disk[g][w.slot] # NoFile /\ disk[g][w.slot] = w.crc
<1>0. np[g] \in Loop /\ np \in [Slots -> Loop] /\ ss \in [Slots -> Requests]
    BY LoopIs, SMTT(40) DEF LoopType
<1>1. UNCHANGED clock /\ w.size # 0 /\ net' = net \cup {Reply(g, w, match)}
    BY SMTT(40) DEF AnswerHash, inputVars, ProbeReply
<1>2. CASE w.op = "SAVE"
    <2>1. /\ UNCHANGED ss
          /\ np' = [np EXCEPT ![g] = IF match THEN Idle(g)
                                     ELSE [np[g] EXCEPT !.xfer = "SAVE_SEND", !.slot = w.slot]]
        BY <1>2 DEF AnswerHash
    <2>2. \/ np'[g] = Idle(g)
          \/ np'[g] = [np[g] EXCEPT !.xfer = "SAVE_SEND", !.slot = w.slot]
        BY <1>0, <2>1
    <2>3. /\ np'[g].xfer \in {"NONE", "SAVE_SEND"}
          /\ np'[g].applied = np[g].applied /\ np'[g].needs = np[g].needs
        BY <1>0, <2>2 DEF Idle, Loop
    <2> QED BY <1>1, <1>2, <2>1, <2>3
<1>3. CASE w.op = "LOAD" /\ ~match
    <2>1. UNCHANGED ss /\ np' = [np EXCEPT ![g].xfer = "LOAD_SEND", ![g].slot = w.slot]
        BY <1>3 DEF AnswerHash
    <2>2. np'[g] = [np[g] EXCEPT !.xfer = "LOAD_SEND", !.slot = w.slot]
        BY <1>0, <2>1
    <2>3. /\ np'[g].xfer = "LOAD_SEND" /\ np'[g].synced = np[g].synced
          /\ np'[g].applied = np[g].applied /\ np'[g].needs = np[g].needs
        BY <1>0, <2>2 DEF Loop
    <2> QED BY <1>1, <1>3, <2>1, <2>3
<1>4. CASE w.op = "LOAD" /\ match
    <2>1. IF np[g].xfer \in {"LOAD_APPLYING", "LOAD_READY"}
          THEN UNCHANGED <<np, ss>>
          ELSE /\ np' = [np EXCEPT ![g] = BeginLoadApply(g, w.slot)]
               /\ ss' = [ss EXCEPT ![g] = RequestLoad(g, <<"SLOT", w.slot>>)]
        BY <1>4 DEF AnswerHash
    <2>2. CASE np[g].xfer \in {"LOAD_APPLYING", "LOAD_READY"}
        BY <1>1, <1>4, <2>1, <2>2
    <2>3. CASE np[g].xfer \notin {"LOAD_APPLYING", "LOAD_READY"}
        <3>1. np'[g] = BeginLoadApply(g, w.slot) /\ ss'[g] = RequestLoad(g, <<"SLOT", w.slot>>)
            BY <1>0, <2>1, <2>3
        <3>2. /\ np'[g].xfer = "LOAD_APPLYING" /\ ~np'[g].applied /\ ~np'[g].needs /\ ~np'[g].synced
            BY <1>0, <3>1 DEF BeginLoadApply, Loop
        <3>3. /\ ss'[g].load = <<"SLOT", w.slot>> /\ ss'[g].save = ss[g].save /\ ~ss'[g].loaded
            BY <3>1, RequestsAre, SMTT(40)
        <3> QED BY <1>1, <1>4, <2>3, <3>2, <3>3
    <2> QED BY <2>2, <2>3
<1>5. w.op \in {"SAVE", "LOAD"}
    BY DEF AnswerHash
<1> QED BY <1>2, <1>3, <1>4, <1>5

-----------------------------------------------------------------------------
(* What the host does next, of itself *)

LEMMA DriveMoves ==
    ASSUME LoopType, DriveCards \/ AbortSave \/ DriveSaveCoord \/ DriveSaveProbe \/ StartCards
    PROVE  /\ UNCHANGED <<disk, card, game, clock>>
           /\ np'[Host].slot = np[Host].slot /\ np'[Host].needs = np[Host].needs
           /\ np'[Host].applied = np[Host].applied
           /\ ss'[Host].save = ss[Host].save /\ ss'[Host].load = ss[Host].load
           /\ \/ /\ DriveCards /\ Answered("MC_PROBE")
                 /\ \/ np'[Host].xfer = "NONE" /\ ProbeFinish /\ UNCHANGED orderVars
                    \/ np'[Host].xfer = "MC_SEND" /\ Send("SRAM", 0, card[Host])
              \/ /\ AbortSave /\ np[Host].xfer = "SAVE_COORD" /\ np'[Host].xfer = "NONE"
                 /\ ~Pending(Host) /\ UNCHANGED <<orderVars, sessionVars>>
              \/ /\ DriveSaveCoord /\ Answered("SAVE_COORD") /\ np'[Host].xfer = "SAVE_PROBE"
                 /\ ~Pending(Host) /\ Ask(HashProbe("SAVE", np[Host].slot, File))
              \/ /\ DriveSaveProbe /\ Answered("SAVE_PROBE")
                 /\ \/ np'[Host].xfer = "NONE" /\ ProbeFinish /\ UNCHANGED orderVars
                    \/ np'[Host].xfer = "SAVE_SEND" /\ Send("SAVE", np[Host].slot, File)
              \/ /\ StartCards /\ np[Host].xfer = "NONE" /\ np'[Host].xfer = "MC_PROBE"
                 /\ ~np[Host].cards /\ Ask(HashProbe("SRAM", 0, card[Host]))
<1>0. /\ Host \in Slots /\ np[Host] \in Loop /\ np \in [Slots -> Loop] /\ ss \in [Slots -> Requests]
      /\ ss[Host] \in Requests
    BY LoopIs DEF LoopType, Slots
<1>1. CASE DriveCards
    <2>1. /\ Answered("MC_PROBE") /\ UNCHANGED <<disk, card, game, clock, ss>>
          /\ \/ /\ np' = [np EXCEPT ![Host] = [Idle(Host) EXCEPT !.cards = TRUE]]
                /\ ProbeFinish /\ UNCHANGED orderVars
             \/ /\ np' = [np EXCEPT ![Host] = [np[Host] EXCEPT !.xfer = "MC_SEND"]]
                /\ Send("SRAM", 0, card[Host])
        BY <1>1 DEF DriveCards, HostGoesOn, inputVars
    <2>2. \/ np'[Host] = [Idle(Host) EXCEPT !.cards = TRUE] /\ ProbeFinish /\ UNCHANGED orderVars
          \/ np'[Host] = [np[Host] EXCEPT !.xfer = "MC_SEND"] /\ Send("SRAM", 0, card[Host])
        BY <1>0, <2>1
    <2>3. /\ np'[Host].slot = np[Host].slot /\ np'[Host].needs = np[Host].needs
          /\ np'[Host].applied = np[Host].applied
          /\ \/ np'[Host].xfer = "NONE" /\ ProbeFinish /\ UNCHANGED orderVars
             \/ np'[Host].xfer = "MC_SEND" /\ Send("SRAM", 0, card[Host])
        BY <1>0, <2>2 DEF Idle, Loop
    <2> QED BY <1>1, <2>1, <2>3
<1>2. CASE AbortSave
    <2>1. /\ np[Host].xfer = "SAVE_COORD" /\ ~Pending(Host)
          /\ UNCHANGED <<disk, card, game, clock, orderVars, sessionVars>>
          /\ np'[Host] = [Idle(Host) EXCEPT !.staged = FALSE]
          /\ ss'[Host] = [ss[Host] EXCEPT !.save_failed = FALSE]
        BY <1>0, <1>2 DEF AbortSave, HostGoesOn, inputVars
    <2>2. /\ np'[Host].slot = np[Host].slot /\ np'[Host].needs = np[Host].needs
          /\ np'[Host].applied = np[Host].applied /\ np'[Host].xfer = "NONE"
        BY <1>0, <2>1 DEF Idle, Loop
    <2>3. ss'[Host].save = ss[Host].save /\ ss'[Host].load = ss[Host].load
        BY <1>0, <2>1 DEF Requests
    <2> QED BY <1>2, <2>1, <2>2, <2>3
<1>3. CASE DriveSaveCoord
    <2>1. /\ Answered("SAVE_COORD") /\ ~Pending(Host) /\ UNCHANGED <<disk, card, game, clock, ss>>
          /\ np'[Host] = [np[Host] EXCEPT !.xfer = "SAVE_PROBE"]
          /\ Ask(HashProbe("SAVE", np[Host].slot, File))
        BY <1>0, <1>3 DEF DriveSaveCoord, HostGoesOn, inputVars, File
    <2>2. /\ np'[Host].slot = np[Host].slot /\ np'[Host].needs = np[Host].needs
          /\ np'[Host].applied = np[Host].applied /\ np'[Host].xfer = "SAVE_PROBE"
        BY <1>0, <2>1 DEF Loop
    <2> QED BY <1>3, <2>1, <2>2
<1>4. CASE DriveSaveProbe
    <2>1. /\ Answered("SAVE_PROBE") /\ UNCHANGED <<disk, card, game, clock, ss>>
          /\ \/ /\ np' = [np EXCEPT ![Host] = Idle(Host)] /\ ProbeFinish /\ UNCHANGED orderVars
             \/ /\ np' = [np EXCEPT ![Host] = [np[Host] EXCEPT !.xfer = "SAVE_SEND"]]
                /\ Send("SAVE", np[Host].slot, File)
        BY <1>4 DEF DriveSaveProbe, HostGoesOn, inputVars, File
    <2>2. \/ np'[Host] = Idle(Host) /\ ProbeFinish /\ UNCHANGED orderVars
          \/ np'[Host] = [np[Host] EXCEPT !.xfer = "SAVE_SEND"] /\ Send("SAVE", np[Host].slot, File)
        BY <1>0, <2>1
    <2>3. /\ np'[Host].slot = np[Host].slot /\ np'[Host].needs = np[Host].needs
          /\ np'[Host].applied = np[Host].applied
          /\ \/ np'[Host].xfer = "NONE" /\ ProbeFinish /\ UNCHANGED orderVars
             \/ np'[Host].xfer = "SAVE_SEND" /\ Send("SAVE", np[Host].slot, File)
        BY <1>0, <2>2 DEF Idle, Loop
    <2> QED BY <1>4, <2>1, <2>3
<1>5. CASE StartCards
    <2>1. /\ np[Host].xfer = "NONE" /\ ~np[Host].cards /\ UNCHANGED <<disk, card, game, clock, ss>>
          /\ np'[Host] = [np[Host] EXCEPT !.xfer = "MC_PROBE"]
          /\ Ask(HashProbe("SRAM", 0, card[Host]))
        BY <1>0, <1>5 DEF StartCards, HostGoesOn, inputVars
    <2>2. /\ np'[Host].slot = np[Host].slot /\ np'[Host].needs = np[Host].needs
          /\ np'[Host].applied = np[Host].applied /\ np'[Host].xfer = "MC_PROBE"
        BY <1>0, <2>1 DEF Loop
    <2> QED BY <1>5, <2>1, <2>2
<1> QED BY <1>1, <1>2, <1>3, <1>4, <1>5

LEMMA LoadProbeMoves ==
    ASSUME LoopType, DriveLoadProbe
    PROVE  /\ Answered("LOAD_PROBE") /\ UNCHANGED <<disk, card, game, clock>>
           /\ np'[Host].slot = np[Host].slot /\ ~np'[Host].applied
           /\ ss'[Host].save = ss[Host].save
           /\ \/ /\ probe[Host].match /\ ProbeFinish /\ UNCHANGED orderVars
                 /\ np'[Host].xfer = "LOAD_APPLYING" /\ ~ss'[Host].loaded
                 /\ ss'[Host].load = <<"SLOT", np[Host].slot>>
              \/ /\ ~probe[Host].match /\ Send("LOAD", np[Host].slot, File) /\ UNCHANGED ss
                 /\ np'[Host].xfer = "LOAD_SEND" /\ np'[Host].needs = np[Host].needs
<1>0. /\ Host \in Slots /\ np[Host] \in Loop /\ np \in [Slots -> Loop] /\ ss \in [Slots -> Requests]
    BY LoopIs DEF LoopType, Slots
<1>1. Answered("LOAD_PROBE") /\ UNCHANGED <<disk, card, game, clock>>
    BY DEF DriveLoadProbe, HostGoesOn, inputVars
<1>2. CASE probe[Host].match
    <2>1. /\ ProbeFinish /\ UNCHANGED orderVars
          /\ np'[Host] = BeginLoadApply(Host, np[Host].slot)
          /\ ss'[Host] = RequestLoad(Host, <<"SLOT", np[Host].slot>>)
        BY <1>0, <1>2 DEF DriveLoadProbe, HostGoesOn
    <2>2. /\ np'[Host].slot = np[Host].slot /\ ~np'[Host].applied /\ np'[Host].xfer = "LOAD_APPLYING"
        BY <1>0, <2>1 DEF BeginLoadApply, Loop
    <2>3. /\ ss'[Host].save = ss[Host].save /\ ~ss'[Host].loaded
          /\ ss'[Host].load = <<"SLOT", np[Host].slot>>
        BY <1>0, <2>1, RequestsAre
    <2> QED BY <1>1, <1>2, <2>1, <2>2, <2>3
<1>3. CASE ~probe[Host].match
    <2>1. /\ Send("LOAD", np[Host].slot, File) /\ UNCHANGED ss
          /\ np'[Host] = [np[Host] EXCEPT !.xfer = "LOAD_SEND", !.applied = FALSE, !.synced = FALSE]
        BY <1>0, <1>3 DEF DriveLoadProbe, HostGoesOn, File
    <2>2. /\ np'[Host].slot = np[Host].slot /\ ~np'[Host].applied /\ np'[Host].xfer = "LOAD_SEND"
          /\ np'[Host].needs = np[Host].needs
        BY <1>0, <2>1 DEF Loop
    <2> QED BY <1>1, <1>3, <2>1, <2>2
<1> QED BY <1>2, <1>3

LEMMA LoadReadyMoves ==
    ASSUME LoopType, DriveLoadReady
    PROVE  /\ Answered("LOAD_READY") /\ ProbeFinish /\ UNCHANGED <<ss, disk, card, game, orderVars>>
           /\ np'[Host].xfer = "LOAD_READY" /\ np'[Host].synced /\ np'[Host].slot = np[Host].slot
           /\ np'[Host].applied = np[Host].applied
           /\ ~np[Host].synced => /\ ~np'[Host].needs /\ clock'[Host].sim = 0
                                  /\ clock'[Host].epoch = clock[Host].epoch + 1
<1>0. /\ Host \in Slots /\ np[Host] \in Loop /\ np \in [Slots -> Loop] /\ clock \in [Slots -> Clock]
    BY LoopIs DEF LoopType, Slots
<1>1. /\ Answered("LOAD_READY") /\ ProbeFinish /\ UNCHANGED <<ss, disk, card, game, orderVars>>
      /\ CommitLoadSync(Host, np[Host]) /\ np[Host].xfer = "LOAD_READY"
    BY DEF DriveLoadReady, Answered
<1>2. CASE np[Host].synced
    <2>1. np'[Host] = [np[Host] EXCEPT !.replied = TRUE]
        BY <1>0, <1>1, <1>2 DEF CommitLoadSync
    <2>2. /\ np'[Host].xfer = np[Host].xfer /\ np'[Host].synced /\ np'[Host].slot = np[Host].slot
          /\ np'[Host].applied = np[Host].applied
        BY <1>0, <1>2, <2>1 DEF Loop
    <2> QED BY <1>1, <1>2, <2>2
<1>3. CASE ~np[Host].synced
    <2>1. /\ np'[Host] = [np[Host] EXCEPT !.synced = TRUE, !.replied = TRUE, !.needs = FALSE]
          /\ clock'[Host] = NewEpoch(clock[Host].epoch + 1)
        BY <1>0, <1>1, <1>3 DEF CommitLoadSync, Resync
    <2>2. /\ np'[Host].xfer = np[Host].xfer /\ np'[Host].synced /\ np'[Host].slot = np[Host].slot
          /\ np'[Host].applied = np[Host].applied /\ ~np'[Host].needs
        BY <1>0, <2>1 DEF Loop
    <2>3. clock'[Host].sim = 0 /\ clock'[Host].epoch = clock[Host].epoch + 1
        BY <2>1 DEF NewEpoch
    <2> QED BY <1>1, <1>3, <2>2, <2>3
<1> QED BY <1>2, <1>3

LEMMA HostBlobIs ==
    ASSUME GeneralInv, ~over, NEW g, Guests = {g}, Joint(g), tx.active
    PROVE  /\ Phase = SendPhase(blobs[tx.id].op) /\ Last = <<"XFER", tx.id>>
           /\ blobs[tx.id].op = "LOAD" => Phase = "LOAD_SEND" /\ blobs[tx.id] = FileBlob
           /\ blobs[tx.id].op # "LOAD" => Phase \in {"MC_SEND", "SAVE_SEND"} /\ ~LoadOpen
           /\ blobs[tx.id].op = "SRAM" => Phase = "MC_SEND" /\ ~np[Host].needs
<1>0. AskingInv /\ HostLoads /\ InputInv /\ CardsInv /\ Host \in Slots
    BY Two DEF Joint
<1>1. Phase = SendPhase(blobs[tx.id].op)
    BY <1>0 DEF AskingInv, SendTrue, Phase
<1>2. Last = <<"XFER", tx.id>>
    BY DEF GeneralInv, OrderInv, HostTrue, Last
<1>3. blobs[tx.id].op = "LOAD" => Phase = "LOAD_SEND" /\ blobs[tx.id] = FileBlob
    BY <1>0, <1>1 DEF SendPhase, HostLoads
<1>4. blobs[tx.id].op # "LOAD" => Phase \in {"MC_SEND", "SAVE_SEND"} \/ Phase = "LOAD_SEND"
    BY <1>1 DEF SendPhase
<1>5. Phase = "LOAD_SEND" => blobs[tx.id].op = "LOAD"
    BY <1>0 DEF HostLoads, FileBlob
<1>6. Phase = "MC_SEND" => ~np[Host].needs
    BY <1>0 DEF AskingInv, CardsFirst, Phase, InputInv, FrameTrue, CardsInv
<1> QED BY <1>1, <1>2, <1>3, <1>4, <1>5, <1>6 DEF LoadOpen, SendPhase

-----------------------------------------------------------------------------
(* Requests belong to the phase *)

\* An armed guest that has since heard of something else has done its write.
LEMMA ArmedDone ==
    ASSUME GeneralInv, ~over, NEW g, Guests = {g}, Armed(g), np[g].xfer = "SAVE_COORD",
           heard[g] \in Asked, At(g)[1] = "PROBE" => ~IsCoord(At(g)[2])
    PROVE  np[g].staged /\ ss[g].save = <<>>
<1>1. PICK i \in Coords : i <= heard[g]
    BY DEF Armed
<1>2. asked[i][1] = "PROBE" /\ IsCoord(asked[i][2]) /\ i \in Asked
    BY DEF Coords
<1>3. i # heard[g]
    BY <1>2 DEF At
<1>4. i \in Nat /\ heard[g] \in Nat /\ heard[g] <= Len(asked) /\ Len(asked) \in Nat
    BY <1>2, Two
<1>5. i < Len(asked)
    BY <1>1, <1>3, <1>4
<1> QED BY <1>5 DEF Armed

LEMMA RequestsOfHost ==
    ASSUME NEW g, JointStep(g), HostActs
    PROVE  RequestsOf(Host)'
<1>0. /\ LoopType /\ GeneralInv /\ ~over /\ ~over' /\ Guests = {g} /\ OrderInv /\ MarksTrue
      /\ next_xfer_id \in Nat /\ Host \in Slots /\ RequestsOf(Host) /\ Joint(g)
    <2>1. GeneralInv /\ ~over /\ Guests = {g} /\ ~over' /\ Joint(g)
        BY DEF JointStep
    <2>2. Host \in Slots /\ RequestsTrue
        BY <2>1, Two DEF Joint
    <2>3. RequestsOf(Host)
        BY <2>2 DEF RequestsTrue
    <2> QED BY <2>1, <2>2, <2>3, Two DEF InputInv
<1>1. CASE LoopStep(Host)
    <2>1. ApplyReady(Host) => tx.active
        BY <1>0, ApplyMoves
    <2>2. tx.active => Phase \in {"MC_SEND", "SAVE_SEND", "LOAD_SEND"}
        BY <1>0, HostBlobIs
    <2>3. ApplyReady(Host) => ss[Host].save = <<>> /\ ss[Host].load = <<>> /\ ~np[Host].applied
        BY <1>0, <2>1, <2>2 DEF RequestsOf, Phase
    <2> QED BY <1>0, <1>1, <2>3, RequestsOfLoop
<1>2. CASE DriveCards \/ AbortSave \/ DriveSaveCoord \/ DriveSaveProbe \/ StartCards
    <2>1. /\ np'[Host].applied = np[Host].applied
          /\ ss'[Host].save = ss[Host].save /\ ss'[Host].load = ss[Host].load
          /\ \/ np[Host].xfer \in {"NONE", "MC_PROBE", "SAVE_PROBE"}
             \/ np[Host].xfer = "SAVE_COORD" /\ ~Pending(Host)
        BY <1>0, <1>2, DriveMoves DEF Answered
    <2> QED BY <1>0, <2>1 DEF RequestsOf, Pending
<1>3. CASE DriveLoadProbe
    <2>1. /\ np[Host].xfer = "LOAD_PROBE" /\ ~np'[Host].applied /\ ss'[Host].save = ss[Host].save
          /\ \/ np'[Host].xfer = "LOAD_APPLYING" /\ ~ss'[Host].loaded
             \/ UNCHANGED ss
        BY <1>0, <1>3, LoadProbeMoves DEF Answered
    <2> QED BY <1>0, <2>1 DEF RequestsOf
<1>4. CASE DriveLoadReady
    <2>1. np[Host].xfer = "LOAD_READY" /\ np'[Host].xfer = "LOAD_READY" /\ UNCHANGED ss
        BY <1>0, <1>4, LoadReadyMoves DEF Answered
    <2> QED BY <1>0, <2>1 DEF RequestsOf
<1>5. CASE \E s \in Saves : AskSave(s) \/ AskLoad(s)
    <2>1. PICK s \in Saves : AskSave(s) \/ AskLoad(s)
        BY <1>5
    <2>2. /\ np[Host].xfer = "NONE" /\ UNCHANGED ss
          /\ np'[Host].applied => np[Host].applied
        BY <1>0, <2>1, AskMoves
    <2> QED BY <1>0, <2>2 DEF RequestsOf
<1> QED BY <1>1, <1>2, <1>3, <1>4, <1>5 DEF HostActs, HostDriveXfer

LEMMA RequestsOfGuest ==
    ASSUME NEW g, JointStep(g), GuestHandleProbe(g)
    PROVE  RequestsOf(g)'
<1> DEFINE w == probe[g].what
<1>0. /\ LoopType /\ GeneralInv /\ ~over /\ Guests = {g} /\ g \in Slots /\ RequestsOf(g) /\ Joint(g)
      /\ Armed(g)
    <2>1. GeneralInv /\ ~over /\ Guests = {g} /\ Joint(g)
        BY DEF JointStep
    <2>2. g \in Slots /\ RequestsTrue /\ Armed(g)
        BY <2>1, Two DEF Joint
    <2>3. RequestsOf(g)
        BY <2>2 DEF RequestsTrue
    <2> QED BY <2>1, <2>2, <2>3, Two
<1>a. probe[g].active /\ heard[g] \in Asked /\ At(g) = <<"PROBE", w>>
    BY <1>0, GuestAnswers, SMTT(40)
<1>b. ArmSave(g) \/ AnswerHash(g) => probe[g].pending
    BY DEF ArmSave, AnswerHash, ProbeReply
<1>1. CASE AnswerReady(g)
    <2>1. /\ np[g].xfer \in {"LOAD_APPLYING", "LOAD_READY"} /\ np'[g].xfer = "LOAD_READY"
          /\ np[g].xfer = "LOAD_APPLYING" => ss[g].load = <<>> /\ ss[g].save = <<>>
          /\ ss'[g].load = ss[g].load /\ ss'[g].save = ss[g].save
        BY <1>0, <1>1, ReadyMoves DEF RequestsOf
    <2> QED BY <1>0, <2>1 DEF RequestsOf
<1>2. CASE ArmSave(g)
    <2>1. /\ IsCoord(w) /\ UNCHANGED ss /\ np'[g].xfer = "SAVE_COORD" /\ np'[g].applied = np[g].applied
        BY <1>0, <1>2, ArmMoves
    <2>2. np[g].xfer \in {"NONE", "SAVE_COORD", "SAVE_SEND"}
        <3>1. ~IsReady(w) /\ ~IsHash("LOAD", w)
            BY <2>1 DEF IsCoord, IsReady, IsHash
        <3>2. LoadOpen => ~(w = FileProbe) /\ ~(w = AllReady)
            BY <1>0, <2>1, LoadProbes DEF IsCoord
        <3> HIDE DEF w
        <3> QED BY <1>0, <1>a, <1>b, <1>2, <2>1, <3>1, <3>2, GuestAsked DEF w
    <2> QED BY <1>0, <2>1, <2>2 DEF RequestsOf
<1>3. CASE AnswerSave(g)
    <2>1. /\ ss'[g].save = <<>> /\ ss'[g].load = <<>>
          /\ np'[g].applied = np[g].applied /\ np[g].xfer = "SAVE_COORD"
        BY <1>0, <1>3, AnswerSaveMoves
    <2> QED BY <1>0, <2>1 DEF RequestsOf
<1>4. CASE AnswerCards(g)
    <2>1. UNCHANGED ss /\ np'[g].xfer = np[g].xfer /\ np'[g].applied = np[g].applied
        BY <1>0, <1>4, AnswerCardsMoves
    <2> QED BY <1>0, <2>1 DEF RequestsOf
<1>5. CASE AnswerHash(g) /\ w.op = "SAVE"
    <2>1. /\ UNCHANGED ss /\ np'[g].xfer \in {"NONE", "SAVE_SEND"} /\ w.size # 0
          /\ np'[g].applied = np[g].applied
        BY <1>0, <1>5, AnswerHashMoves
    <2>2. np[g].xfer \in {"NONE", "SAVE_COORD", "SAVE_SEND"}
        <3>1. ~IsReady(w) /\ ~IsHash("LOAD", w)
            BY <1>5, <2>1 DEF IsReady, IsHash
        <3>2. LoadOpen => ~(w = FileProbe) /\ ~(w = AllReady)
            BY <1>0, <1>5, LoadProbes
        <3>3. CASE ~LoadOpen
            BY <1>0, <1>a, <1>b, <1>5, <3>1, <3>3, GuestAsked
        <3>4. CASE LoadOpen
            <4>1. Waiting(g)
                BY <1>0, <1>a, <1>b, <1>5, <3>2, <3>4, GuestAsked
            <4> QED BY <4>1 DEF Waiting
        <3> QED BY <3>3, <3>4
    <2>3. np[g].xfer = "SAVE_COORD" => ss[g].save = <<>>
        <3>1. ~IsCoord(At(g)[2])
            BY <1>a, <2>1 DEF IsCoord
        <3> QED BY <1>0, <1>a, <3>1, ArmedDone
    <2> QED BY <1>0, <2>1, <2>2, <2>3 DEF RequestsOf
<1>6. CASE AnswerHash(g) /\ w.op = "LOAD"
    <2>1. /\ w.size # 0
          /\ LET match == disk[g][w.slot] # NoFile /\ disk[g][w.slot] = w.crc
             IN \/ /\ ~match /\ UNCHANGED ss /\ np'[g].applied = np[g].applied
                \/ /\ np[g].xfer \in {"LOAD_APPLYING", "LOAD_READY"} /\ UNCHANGED <<np, ss>>
                \/ /\ np[g].xfer \notin {"LOAD_APPLYING", "LOAD_READY"}
                   /\ np'[g].xfer = "LOAD_APPLYING" /\ ~np'[g].applied
                   /\ ss'[g].save = ss[g].save /\ ~ss'[g].loaded
        BY <1>0, <1>6, AnswerHashMoves
    <2>2. LoadOpen /\ (Waiting(g) \/ (w = FileProbe /\ disk[g][np[Host].slot] = File
                                     /\ (Applying(g) \/ Applied(g))))
        <3>1. IsHash("LOAD", w)
            BY <1>6, <2>1 DEF IsHash
        <3>2. LoadOpen => ~(w = AllReady)
            BY <1>0, <2>1, LoadProbes
        <3> HIDE DEF w
        <3> QED BY <1>0, <1>a, <1>b, <1>6, <3>1, <3>2, GuestAsked DEF w
    <2>3. CASE Waiting(g)
        <3>1. np[g].xfer \in {"NONE", "SAVE_SEND"}
            BY <2>3 DEF Waiting
        <3>2. ss[g].save = <<>> /\ ss[g].load = <<>> /\ ~np[g].applied
            BY <1>0, <3>1 DEF RequestsOf
        <3> QED BY <2>1, <3>1, <3>2 DEF RequestsOf
    <2>4. CASE ~Waiting(g)
        <3>1. w.slot = np[Host].slot /\ w.crc = File /\ File # NoFile
            BY <1>0, <2>2, <2>4, LoadProbes DEF Joint, HostLoads
        <3>2. disk[g][w.slot] = w.crc /\ disk[g][w.slot] # NoFile
            BY <2>2, <2>4, <3>1
        <3>3. np[g].xfer \in {"LOAD_APPLYING", "LOAD_READY"}
            BY <2>2, <2>4, SMTT(40) DEF Applying, Applied
        <3> QED BY <1>0, <2>1, <3>2, <3>3 DEF RequestsOf
    <2> QED BY <2>3, <2>4
<1>7. AnswerHash(g) => w.op \in {"SAVE", "LOAD"}
    BY DEF AnswerHash
<1> QED BY <1>1, <1>2, <1>3, <1>4, <1>5, <1>6, <1>7 DEF GuestHandleProbe

LEMMA RequestsStep ==
    ASSUME NEW g, JointStep(g), BarrierNext
    PROVE  RequestsTrue'
<1>0. /\ LoopType /\ GeneralInv /\ ~over /\ ~over' /\ Guests = {g} /\ OrderInv /\ MarksTrue
      /\ next_xfer_id \in Nat /\ Host \in Slots /\ g \in Slots /\ Slots = {Host, g} /\ Joint(g)
      /\ RequestsOf(g) /\ RequestsOf(Host) /\ g # Host
    <2>1. GeneralInv /\ ~over /\ Guests = {g} /\ ~over' /\ Joint(g)
        BY DEF JointStep
    <2>2. Host \in Slots /\ g \in Slots /\ RequestsTrue
        BY <2>1, Two DEF Joint
    <2>3. RequestsOf(g) /\ RequestsOf(Host)
        BY <2>2 DEF RequestsTrue
    <2> QED BY <2>1, <2>2, <2>3, Two DEF InputInv
<1>1. CASE SessionPump
    <2>1. UNCHANGED <<np, ss>>
        BY <1>0, <1>1, PumpDoes DEF loopVars, Joint
    <2> QED BY <1>0, <2>1 DEF RequestsTrue, RequestsOf
<1>2. CASE HostActs /\ GuestKept(g)
    <2>1. RequestsOf(g)'
        BY <1>0, <1>2 DEF GuestKept, RequestsOf
    <2>2. RequestsOf(Host)'
        BY <1>2, RequestsOfHost
    <2> QED BY <1>0, <2>1, <2>2 DEF RequestsTrue
<1>3. CASE LoopStep(g)
    <2>1. HostKept
        BY <1>0, <1>3, GuestLoop
    <2>2. ApplyReady(g) => rx[g].active
        BY <1>0, ApplyMoves
    <2>3. ApplyReady(g) => ss[g].save = <<>> /\ ss[g].load = <<>> /\ ~np[g].applied
        BY <1>0, <2>2, GuestReceived
    <2>4. RequestsOf(g)'
        BY <1>0, <1>3, <2>3, RequestsOfLoop
    <2>5. RequestsOf(Host)'
        BY <1>0, <2>1 DEF HostKept, RequestsOf
    <2> QED BY <1>0, <2>4, <2>5 DEF RequestsTrue
<1>4. CASE GuestHandleProbe(g)
    <2>1. HostKept
        BY <1>0, <1>4, GuestAnswers
    <2>2. RequestsOf(Host)'
        BY <1>0, <2>1 DEF HostKept, RequestsOf
    <2>3. RequestsOf(g)'
        BY <1>4, RequestsOfGuest
    <2> QED BY <1>0, <2>2, <2>3 DEF RequestsTrue
<1> QED BY <1>1, <1>2, <1>3, <1>4, StepKinds

-----------------------------------------------------------------------------
(* A guest is armed once *)

\* The host asks for a save only when what it asked for before has been answered.
LEMMA HostArms ==
    ASSUME NEW g, JointStep(g), HostActs
    PROVE  \/ /\ UNCHANGED asked
              /\ Phase \in {"SAVE_COORD", "NONE"} /\ probe[Host].active =>
                    Phase' \in {"SAVE_COORD", "NONE"} /\ probe'[Host].active
           \/ \E x \in Exch :
                 /\ asked' = Append(asked, x) /\ (probe[Host].active => probe[Host].replied)
                 /\ x[1] = "PROBE" /\ IsCoord(x[2]) => Phase' = "SAVE_COORD" /\ probe'[Host].active
<1>0. /\ LoopType /\ GeneralInv /\ ~over /\ ~over' /\ Guests = {g} /\ OrderInv /\ MarksTrue
      /\ next_xfer_id \in Nat /\ Host \in Slots /\ Joint(g) /\ g # Host /\ TypeOK /\ g \in Guests
    <2>1. GeneralInv /\ ~over /\ Guests = {g} /\ ~over' /\ Joint(g)
        BY DEF JointStep
    <2> QED BY <2>1, Two DEF InputInv
<1>a. ASSUME NEW w, Ask(w), w \in Probe, IsCoord(w) => Phase' = "SAVE_COORD"
      PROVE  \E x \in Exch :
                 /\ asked' = Append(asked, x) /\ (probe[Host].active => probe[Host].replied)
                 /\ x[1] = "PROBE" /\ IsCoord(x[2]) => Phase' = "SAVE_COORD" /\ probe'[Host].active
    <2>1. /\ asked' = Append(asked, <<"PROBE", w>>) /\ (probe[Host].active => probe[Host].replied)
          /\ probe'[Host].active
        BY <1>0, <1>a, AskQuiet
    <2>2. <<"PROBE", w>> \in Exch /\ <<"PROBE", w>>[2] = w
        BY <1>a DEF Exch
    <2> QED BY <1>a, <2>1, <2>2
<1>b. ASSUME NEW op, NEW s, NEW c, Send(op, s, c), probe[Host].active => probe[Host].replied
      PROVE  \E x \in Exch :
                 /\ asked' = Append(asked, x) /\ (probe[Host].active => probe[Host].replied)
                 /\ x[1] = "PROBE" /\ IsCoord(x[2]) => Phase' = "SAVE_COORD" /\ probe'[Host].active
    <2>1. asked' = Append(asked, <<"XFER", next_xfer_id + 1>>)
        BY <1>b DEF Send
    <2>2. <<"XFER", next_xfer_id + 1>> \in Exch /\ <<"XFER", next_xfer_id + 1>>[1] # "PROBE"
        BY <1>0 DEF Exch
    <2> QED BY <1>b, <2>1, <2>2
<1>1. CASE LoopStep(Host)
    <2>1. CASE ApplyReady(Host)
        <3>1. UNCHANGED orderVars /\ tx.active
            BY <1>0, <2>1, ApplyMoves
        <3>2. Phase \notin {"SAVE_COORD", "NONE"}
            BY <1>0, <3>1, HostBlobIs
        <3> QED BY <3>1, <3>2 DEF orderVars
    <2>2. CASE EnterReady(Host)
        <3>1. np[Host].xfer = "LOAD_APPLYING" /\ Ask(ReadyProbe(np[Host].slot))
            BY <2>2 DEF EnterReady
        <3>2. np[Host].slot \in Saves
            BY <1>0, <3>1, Two DEF AskingInv, SendTrue
        <3>3. ReadyProbe(np[Host].slot) \in Probe /\ ~IsCoord(ReadyProbe(np[Host].slot))
            BY <3>2, Askables, 0 \in Nat DEF ReadyProbe, IsCoord
        <3> QED BY <1>a, <3>1, <3>3
    <2>3. CASE Poll(Host) \/ FinishFrame(Host) \/ PollSave(Host) \/ PollLoad(Host)
               \/ MaybeStageTargetSave(Host)
        <3>1. UNCHANGED <<orderVars, sessionVars>>
            BY <1>0, <2>3, PollMoves, FrameMoves, SaveMoves, LoadMoves, StageMoves
        <3>2. np'[Host].xfer = np[Host].xfer \/ np[Host].xfer = "LOAD_READY"
            BY <1>0, <2>3, PollMoves, FrameMoves, SaveMoves, LoadMoves, StageMoves
        <3> QED BY <3>1, <3>2 DEF Phase, orderVars, sessionVars
    <2> QED BY <1>0, <1>1, <2>1, <2>2, <2>3 DEF LoopStep, AbortLoad
<1>2. CASE DriveCards \/ AbortSave \/ DriveSaveCoord \/ DriveSaveProbe \/ StartCards
    <2>1. CASE DriveCards
        <3>1. /\ np[Host].xfer = "MC_PROBE" /\ (probe[Host].active => probe[Host].replied)
              /\ Send("SRAM", 0, card[Host]) \/ UNCHANGED orderVars
            BY <2>1 DEF DriveCards, Answered
        <3>2. CASE Send("SRAM", 0, card[Host])
            BY <1>b, <3>1, <3>2
        <3> QED BY <3>1, <3>2 DEF Phase, orderVars
    <2>2. CASE AbortSave
        <3>1. UNCHANGED <<orderVars, sessionVars>>
            BY <2>2 DEF AbortSave
        <3>2. np' = [np EXCEPT ![Host] = [Idle(Host) EXCEPT !.staged = FALSE]]
            BY <2>2 DEF AbortSave, HostGoesOn
        <3>3. np[Host] \in Loop /\ np \in [Slots -> Loop]
            BY <1>0, LoopIs DEF LoopType
        <3>4. np'[Host].xfer = "NONE"
            BY <1>0, <3>2, <3>3 DEF Idle, Loop
        <3> QED BY <3>1, <3>4 DEF Phase, orderVars, sessionVars
    <2>3. CASE DriveSaveCoord
        <3>1. Answered("SAVE_COORD") /\ Ask(HashProbe("SAVE", np[Host].slot, File))
            BY <2>3 DEF DriveSaveCoord, File
        <3>2. np[Host].slot \in Saves
            BY <1>0, <3>1, Two DEF Answered, AskingInv, SendTrue
        <3>4. File \in Nat
            BY <1>0, <3>2 DEF LoopType, File
        <3>3. HashProbe("SAVE", np[Host].slot, File) \in Probe
            BY <3>2, <3>4, Askables
        <3>5. ~IsCoord(HashProbe("SAVE", np[Host].slot, File))
            BY DEF HashProbe, IsCoord
        <3> QED BY <1>a, <3>1, <3>3, <3>5
    <2>4. CASE DriveSaveProbe
        <3>1. /\ np[Host].xfer = "SAVE_PROBE" /\ (probe[Host].active => probe[Host].replied)
              /\ Send("SAVE", np[Host].slot, disk[Host][np[Host].slot]) \/ UNCHANGED orderVars
            BY <2>4 DEF DriveSaveProbe, Answered
        <3>2. CASE Send("SAVE", np[Host].slot, disk[Host][np[Host].slot])
            BY <1>b, <3>1, <3>2
        <3> QED BY <3>1, <3>2 DEF Phase, orderVars
    <2>5. CASE StartCards
        <3>1. Ask(HashProbe("SRAM", 0, card[Host]))
            BY <2>5 DEF StartCards
        <3>2. HashProbe("SRAM", 0, card[Host]) \in Probe /\ ~IsCoord(HashProbe("SRAM", 0, card[Host]))
            BY <1>0 DEF HashProbe, Probe, LoopType, IsCoord
        <3> QED BY <1>a, <3>1, <3>2
    <2> QED BY <1>2, <2>1, <2>2, <2>3, <2>4, <2>5
<1>3. CASE DriveLoadProbe
    BY <1>0, <1>3, <1>b, LoadProbeMoves DEF Answered, Phase, orderVars
<1>4. CASE DriveLoadReady
    BY <1>0, <1>4, LoadReadyMoves DEF Answered, Phase, orderVars
<1>5. CASE \E s \in Saves : AskSave(s) \/ AskLoad(s)
    <2>1. PICK s \in Saves : AskSave(s) \/ AskLoad(s)
        BY <1>5
    <2>2. clock[Host].sim + Delay + 2 \in Nat /\ disk[Host][s] \in Nat
        BY <1>0, LoopIs, ConstantsType
    <2>3. CoordProbe(s, clock[Host].sim + Delay + 2) \in Probe
          /\ HashProbe("LOAD", s, disk[Host][s]) \in Probe
        BY <2>2, Askables
    <2>4. ~IsCoord(HashProbe("LOAD", s, disk[Host][s]))
        BY DEF IsCoord, HashProbe
    <2>5. \/ np'[Host].xfer = "SAVE_COORD" /\ Ask(CoordProbe(s, clock[Host].sim + Delay + 2))
          \/ Ask(HashProbe("LOAD", s, disk[Host][s]))
        BY <1>0, <2>1, AskMoves
    <2> QED BY <1>a, <2>3, <2>4, <2>5 DEF Phase
<1> QED BY <1>1, <1>2, <1>3, <1>4, <1>5 DEF HostActs, HostDriveXfer

LEMMA ArmedOfHost ==
    ASSUME NEW g, JointStep(g), HostActs, GuestKept(g)
    PROVE  Armed(g)'
<1>0. /\ LoopType /\ GeneralInv /\ GeneralInv' /\ ~over /\ ~over' /\ Guests = {g} /\ OrderInv
      /\ Armed(g) /\ g \in Guests /\ OrderInv'
      /\ Len(asked) \in Nat /\ Asked = 1 .. Len(asked) /\ heard[g] \in Nat /\ heard[g] <= Len(asked)
    <2>1. GeneralInv /\ GeneralInv' /\ ~over /\ Guests = {g} /\ ~over' /\ Armed(g)
        BY DEF JointStep, Joint
    <2> QED BY <2>1, Two DEF GeneralInv
<1>1. /\ np'[g] = np[g] /\ ss'[g] = ss[g] /\ heard'[g] = heard[g] /\ probe'[g] = probe[g]
      /\ Spoken(g)' = Spoken(g)
    BY SpokenSame DEF GuestKept
<1>2. CASE /\ UNCHANGED asked
           /\ Phase \in {"SAVE_COORD", "NONE"} /\ probe[Host].active =>
                    Phase' \in {"SAVE_COORD", "NONE"} /\ probe'[Host].active
    <2>1. Coords' = Coords
        BY <1>2 DEF Coords, Asked
    <2> QED BY <1>0, <1>1, <1>2, <2>1 DEF Armed
<1>3. ASSUME NEW x \in Exch, asked' = Append(asked, x), probe[Host].active => probe[Host].replied,
             x[1] = "PROBE" /\ IsCoord(x[2]) => Phase' = "SAVE_COORD" /\ probe'[Host].active
      PROVE  Armed(g)'
    <2>1. /\ Len(asked)' = Len(asked) + 1 /\ Asked' = 1 .. Len(asked) + 1
          /\ \A i \in Asked : asked'[i] = asked[i]
          /\ asked'[Len(asked) + 1] = x
        BY <1>0, <1>3, AskedMore
    <2>2. Coords \subseteq Coords' /\ \A i \in Coords' : i \in Coords \/ i = Len(asked) + 1
        BY <1>0, <2>1 DEF Coords
    <2>3. \A i \in Coords : i = Len(asked) => asked[i][2] \in Spoken(g)
        <3> SUFFICES ASSUME Len(asked) \in Coords PROVE Last[2] \in Spoken(g)
            BY DEF Last
        <3>1. probe[Host].active /\ probe[Host].replied
            BY <1>0, <1>3 DEF Armed
        <3> QED BY <1>0, <3>1, HostHears
    <2>4. Len(asked) + 1 \in Coords' =>
             /\ Phase' = "SAVE_COORD" /\ probe'[Host].active
             /\ x[2] \notin Spoken(g)
        <3> SUFFICES ASSUME Len(asked) + 1 \in Coords'
                     PROVE  /\ Phase' = "SAVE_COORD" /\ probe'[Host].active
                            /\ x[2] \notin Spoken(g)
            OBVIOUS
        <3>1. x[1] = "PROBE" /\ IsCoord(x[2])
            BY <2>1 DEF Coords
        <3>2. x = <<"PROBE", x[2]>>
            BY <3>1 DEF Exch
        <3>3. ASSUME x[2] \in Spoken(g) PROVE FALSE
            <4>1. PICK j \in 1 .. heard[g] : asked[j] = x
                BY <1>0, <3>2, <3>3, SpokenHeard
            <4>2. j \in Asked' /\ Len(asked) + 1 \in Asked' /\ asked'[j] = asked'[Len(asked) + 1]
                BY <1>0, <2>1, <4>1
            <4> QED BY <1>0, <4>1, <4>2 DEF OrderInv, AskedOnce
        <3> QED BY <1>3, <3>1, <3>3
    <2>5. np'[g].xfer = "SAVE_COORD" => \E i \in Coords' : i <= heard'[g]
        BY <1>0, <1>1, <2>2 DEF Armed
    <2>6. ASSUME NEW i \in Coords'
          PROVE  /\ i < Len(asked)' => asked'[i][2] \in Spoken(g)'
                 /\ i = Len(asked)' => Phase' \in {"SAVE_COORD", "NONE"} /\ probe'[Host].active
                 /\ asked'[i][2] \in Spoken(g)' /\ np'[g].xfer = "SAVE_COORD" =>
                       np'[g].staged /\ ss'[g].save = <<>>
                 /\ probe'[g].active /\ probe'[g].pending /\ probe'[g].what = asked'[i][2] =>
                       asked'[i][2] \notin Spoken(g)'
                 /\ i = heard'[g] => probe'[g].active
        <3>1. CASE i \in Coords
            <4>1. i \in Asked /\ asked'[i] = asked[i] /\ i \in Nat /\ i <= Len(asked)
                BY <1>0, <2>1, <3>1 DEF Coords
            <4>2. asked[i][2] \in Spoken(g)
                BY <1>0, <2>3, <3>1, <4>1 DEF Armed
            <4> QED BY <1>0, <1>1, <2>1, <3>1, <4>1, <4>2 DEF Armed
        <3>2. CASE i = Len(asked) + 1
            BY <1>0, <1>1, <2>1, <2>4, <3>2
        <3> QED BY <2>2, <3>1, <3>2
    <2> QED BY <2>5, <2>6 DEF Armed
<1> QED BY <1>2, <1>3, HostArms

LEMMA ArmedOfPump ==
    ASSUME NEW g, JointStep(g), SessionPump
    PROVE  Armed(g)'
<1>0. /\ LoopType /\ GeneralInv /\ ~over /\ Guests = {g} /\ OrderInv /\ KeptTrue(g)
      /\ Armed(g) /\ g \in Guests /\ GuestTrue(g)
      /\ Len(asked) \in Nat /\ Asked = 1 .. Len(asked) /\ heard[g] \in Nat /\ heard[g] <= Len(asked)
    <2>1. GeneralInv /\ ~over /\ Guests = {g} /\ Armed(g) /\ KeptTrue(g)
        BY DEF JointStep, Joint
    <2> QED BY <2>1, Two
<1>1. /\ UNCHANGED <<np, ss, asked>> /\ Hushed(g) /\ (probe'[Host].active <=> probe[Host].active)
      /\ \/ Still(g)
         \/ \E w \in Probe : Surfaces(g, w)
         \/ \E id \in Nat : Opens(g, id)
    BY <1>0, PumpDoes DEF loopVars
<1>2. Spoken(g)' = Spoken(g) /\ Coords' = Coords /\ Phase' = Phase
    BY <1>1, SpokenSame DEF Coords, Asked, Phase
<1>3. CASE Still(g)
    BY <1>0, <1>1, <1>2, <1>3 DEF Armed, Still
<1>4. ASSUME NEW w \in Probe, Surfaces(g, w) PROVE Armed(g)'
    <2>1. /\ heard[g] <= heard'[g] /\ heard'[g] \in Asked /\ asked[heard'[g]] = <<"PROBE", w>>
          /\ ~(probe[g].active /\ ~probe[g].pending /\ probe[g].what = w)
          /\ probe'[g].active /\ probe'[g].what = w
        BY <1>4 DEF Surfaces
    <2>2. ASSUME NEW i \in Coords, asked[i][2] = w, w \in Spoken(g) PROVE FALSE
        <3>1. i \in Asked /\ asked[i] = <<"PROBE", w>>
            BY <1>0, <2>2, AskedIs DEF Coords
        <3>2. i = heard'[g]
            BY <1>0, <2>1, <3>1 DEF OrderInv, AskedOnce
        <3>3. PICK j \in 1 .. heard[g] : asked[j] = <<"PROBE", w>>
            BY <1>0, <2>2, SpokenHeard
        <3>4. j = i
            BY <1>0, <3>1, <3>3 DEF OrderInv, AskedOnce
        <3>5. i = heard[g]
            BY <1>0, <2>1, <3>2, <3>3, <3>4
        <3>6. probe[g].active
            BY <1>0, <3>5 DEF Armed
        <3>7. probe[g].what = w
            <4>1. <<"PROBE", probe[g].what>> = <<"PROBE", w>>
                BY <1>0, <3>1, <3>5, <3>6 DEF GuestTrue, Knows, At
            <4> QED BY <4>1
        <3>8. probe[g].pending
            BY <2>1, <3>6, <3>7
        <3> QED BY <1>0, <2>2, <3>6, <3>7, <3>8 DEF Armed
    <2>3. np[g].xfer = "SAVE_COORD" => \E i \in Coords : i <= heard'[g]
        <3> SUFFICES ASSUME np[g].xfer = "SAVE_COORD" PROVE \E i \in Coords : i <= heard'[g]
            OBVIOUS
        <3>1. PICK i \in Coords : i <= heard[g]
            BY <1>0 DEF Armed
        <3>2. i \in Nat
            BY <1>0 DEF Coords
        <3> QED BY <1>0, <2>1, <3>1, <3>2
    <2> QED BY <1>0, <1>1, <1>2, <2>1, <2>2, <2>3 DEF Armed
<1>5. ASSUME NEW id \in Nat, Opens(g, id) PROVE Armed(g)'
    <2>1. /\ heard[g] < heard'[g] /\ heard'[g] \in Asked /\ asked[heard'[g]] = <<"XFER", id>>
          /\ ~probe'[g].active
        BY <1>5 DEF Opens
    <2>2. heard'[g] \notin Coords
        BY <2>1 DEF Coords
    <2>3. np[g].xfer = "SAVE_COORD" => \E i \in Coords : i <= heard'[g]
        <3> SUFFICES ASSUME np[g].xfer = "SAVE_COORD" PROVE \E i \in Coords : i <= heard'[g]
            OBVIOUS
        <3>1. PICK i \in Coords : i <= heard[g]
            BY <1>0 DEF Armed
        <3>2. i \in Nat
            BY <1>0 DEF Coords
        <3> QED BY <1>0, <2>1, <3>1, <3>2
    <2> QED BY <1>0, <1>1, <1>2, <2>1, <2>2, <2>3 DEF Armed
<1> QED BY <1>1, <1>3, <1>4, <1>5

LEMMA ArmedOfGuest ==
    ASSUME NEW g, JointStep(g), LoopStep(g)
    PROVE  Armed(g)'
<1>0. /\ LoopType /\ GeneralInv /\ ~over /\ ~over' /\ Guests = {g} /\ OrderInv /\ g \in Slots
      /\ Armed(g) /\ g \in Guests /\ MarksTrue /\ next_xfer_id \in Nat /\ ss \in [Slots -> Requests]
    <2>1. GeneralInv /\ ~over /\ ~over' /\ Guests = {g} /\ Armed(g)
        BY DEF JointStep, Joint
    <2> QED BY <2>1, Two DEF InputInv, LoopType
<1>1. HostKept /\ UNCHANGED <<heard, probe, net>>
    BY <1>0, GuestLoop
<1>2. Spoken(g)' = Spoken(g) /\ Coords' = Coords /\ Phase' = Phase /\ UNCHANGED asked
    BY <1>1 DEF Coords, Asked, Spoken, Phase, HostKept
<1>3. /\ np'[g].xfer = "SAVE_COORD" => np[g].xfer = "SAVE_COORD"
      /\ np'[g].xfer = "SAVE_COORD" /\ np[g].staged /\ ss[g].save = <<>> =>
            np'[g].staged /\ ss'[g].save = <<>>
    <2>1. CASE Poll(g)
        <3>1. np'[g].xfer = "SAVE_COORD" => np[g].xfer = "SAVE_COORD"
            BY <1>0, <2>1, PollMoves
        <3>2. np[g].staged => ~DueToStage(g)
            BY DEF DueToStage
        <3>3. np'[g].staged = (np[g].staged \/ DueToStage(g))
              /\ ss' = IF DueToStage(g) THEN [ss EXCEPT ![g] = RequestSave(g, np[g].slot)] ELSE ss
            BY <1>0, <2>1, PollMoves
        <3>4. np[g].staged => np'[g].staged /\ ss' = ss
            BY <3>2, <3>3
        <3> QED BY <3>1, <3>4
    <2>2. CASE FinishFrame(g)
        BY <1>0, <2>2, FrameMoves
    <2>3. CASE PollSave(g)
        BY <1>0, <2>3, SaveMoves
    <2>4. CASE PollLoad(g)
        BY <1>0, <2>4, LoadMoves
    <2>5. CASE MaybeStageTargetSave(g)
        BY <1>0, <2>5, StageMoves
    <2>6. CASE ApplyReady(g)
        <3>1. np'[g].xfer \in {"NONE", "LOAD_APPLYING"}
            BY <1>0, <2>6, ApplyMoves
        <3> QED BY <3>1
    <2>7. CASE EnterReady(g)
        BY <1>0, <2>7, EnterMoves
    <2> QED BY <1>0, <2>1, <2>2, <2>3, <2>4, <2>5, <2>6, <2>7 DEF LoopStep, AbortLoad
<1> QED BY <1>0, <1>1, <1>2, <1>3 DEF Armed, HostKept

LEMMA ArmedOfAnswer ==
    ASSUME NEW g, JointStep(g), GuestHandleProbe(g)
    PROVE  Armed(g)'
<1> DEFINE w == probe[g].what
<1>0. /\ LoopType /\ GeneralInv /\ ~over /\ Guests = {g} /\ OrderInv /\ g \in Slots
      /\ Armed(g) /\ g \in Guests /\ RequestsOf(g) /\ AskingInv
    <2>1. GeneralInv /\ ~over /\ ~over' /\ Guests = {g} /\ Armed(g) /\ RequestsTrue
        BY DEF JointStep, Joint
    <2> QED BY <2>1, Two DEF RequestsTrue
<1>1. /\ HostKept /\ UNCHANGED heard /\ heard[g] \in Asked /\ At(g) = <<"PROBE", w>> /\ w \in Probe
      /\ probe[g].active
      /\ \/ ArmSave(g) /\ UNCHANGED <<net, probe>>
         \/ \E yes \in BOOLEAN :
               /\ ProbeReply(g, yes) /\ net' = net \cup {Reply(g, w, yes)}
               /\ \/ ~probe'[g].active /\ (w.size = 0 => w.op # "SAVE")
                  \/ probe'[g].active /\ ~probe'[g].pending
    BY <1>0, GuestAnswers
<1>2. Coords' = Coords /\ Phase' = Phase /\ UNCHANGED asked /\ probe'[Host] = probe[Host]
    BY <1>1 DEF Coords, Asked, Phase, HostKept
<1>3. IsCoord(w) => heard[g] \in Coords /\ \A i \in Coords : i = heard[g]
    <2>1. IsCoord(w) => heard[g] \in Coords
        BY <1>1 DEF Coords, At
    <2>2. \A i, j \in Coords : i = j
        BY <1>0 DEF AskingInv, SaveOnce, Coords
    <2> QED BY <2>1, <2>2
<1>4. asked[heard[g]][2] = w
    BY <1>1 DEF At
<1>5. CASE ArmSave(g) /\ UNCHANGED <<net, probe>>
    <2>1. IsCoord(w) /\ probe[g].pending /\ np'[g].xfer = "SAVE_COORD"
        BY <1>0, <1>5, ArmMoves
    <2>2. heard[g] \in Coords /\ \A i \in Coords : asked[i][2] \notin Spoken(g)
        BY <1>0, <1>1, <1>3, <1>4, <2>1 DEF Armed
    <2>3. Spoken(g)' = Spoken(g)
        BY <1>5 DEF Spoken
    <2>4. heard[g] <= heard[g]
        BY <1>0, Two
    <2> HIDE DEF w
    <2> QED BY <1>0, <1>1, <1>2, <1>5, <2>2, <2>3, <2>4 DEF Armed
<1>6. ASSUME NEW yes \in BOOLEAN, ProbeReply(g, yes), net' = net \cup {Reply(g, w, yes)},
             \/ ~probe'[g].active /\ (w.size = 0 => w.op # "SAVE")
             \/ probe'[g].active /\ ~probe'[g].pending
      PROVE  Armed(g)'
    <2>1. Spoken(g)' = Spoken(g) \cup {w}
        BY <1>1, <1>6, SpokenMore
    <2>2. ~ArmSave(g)
        <3>1. probe[g] \in ProbeState /\ probe \in [Slots -> ProbeState \cup {Nothing}]
            BY <1>0, <1>1, Two, ProbeActive DEF TypeOK
        <3> SUFFICES ASSUME ArmSave(g) PROVE FALSE
            OBVIOUS
        <3>2. UNCHANGED probe /\ probe[g].pending
            BY DEF ArmSave, sessionVars
        <3> QED BY <1>1, <1>6, <3>2
    <2>3. /\ np'[g].xfer = "SAVE_COORD" => np[g].xfer = "SAVE_COORD"
          /\ np'[g].xfer = "SAVE_COORD" =>
                \/ np'[g].staged /\ ss'[g].save = <<>>
                \/ ~IsCoord(w) /\ np'[g].staged = np[g].staged /\ UNCHANGED ss
        <3>1. CASE AnswerReady(g)
            <4>1. np'[g].xfer = "LOAD_READY"
                BY <1>0, <3>1, ReadyMoves DEF RequestsOf
            <4> QED BY <4>1
        <3>2. CASE AnswerSave(g)
            BY <1>0, <3>2, AnswerSaveMoves
        <3>3. CASE AnswerCards(g)
            BY <1>0, <3>3, AnswerCardsMoves DEF IsCoord
        <3>4. CASE AnswerHash(g)
            <4>1. np'[g].xfer = "SAVE_COORD" => UNCHANGED <<np, ss>> /\ w.size # 0
                         /\ np[g].xfer \in {"LOAD_APPLYING", "LOAD_READY"}
                BY <1>0, <3>4, AnswerHashMoves
            <4> QED BY <4>1
        <3> QED BY <2>2, <3>1, <3>2, <3>3, <3>4 DEF GuestHandleProbe
    <2>4. heard[g] \in Coords => probe'[g].active
        <3>1. heard[g] \in Coords => IsCoord(w)
            BY <1>4 DEF Coords
        <3> QED BY <1>6, <3>1 DEF IsCoord
    <2>5. \A i \in Coords : asked[i][2] \in Spoken(g)' => asked[i][2] \in Spoken(g) \/ IsCoord(w)
        BY <2>1 DEF Coords
    <2> HIDE DEF w
    <2> QED BY <1>0, <1>1, <1>2, <1>6, <2>1, <2>3, <2>4, <2>5 DEF Armed
<1> HIDE DEF w
<1> QED BY <1>1, <1>5, <1>6

LEMMA ArmedStep ==
    ASSUME NEW g, JointStep(g), BarrierNext
    PROVE  Armed(g)'
BY StepKinds, ArmedOfPump, ArmedOfHost, ArmedOfGuest, ArmedOfAnswer

-----------------------------------------------------------------------------
(* What the host has asked for in a load *)

\* With its loop, its file and its exchanges kept, the host is where it was.
LEMMA HostLoadsKept ==
    ASSUME HostLoads, np'[Host] = np[Host], ss'[Host] = ss[Host], disk'[Host] = disk[Host],
           game'[Host] = game[Host], probe'[Host].active <=> probe[Host].active,
           UNCHANGED <<asked, blobs>>, tx'.active <=> tx.active, tx.active => tx'.id = tx.id
    PROVE  HostLoads'
<1>1. /\ Phase' = Phase /\ File' = File /\ Last' = Last /\ (LoadOpen' <=> LoadOpen)
      /\ FileProbe' = FileProbe /\ FileBlob' = FileBlob /\ AllReady' = AllReady
    BY DEF Phase, File, Last, LoadOpen, FileProbe, FileBlob, AllReady
<1> QED BY <1>1 DEF HostLoads

\* An exchange that is asked for is the last.
LEMMA LastIs ==
    ASSUME LoopType, NEW w \in Probe, Ask(w)
    PROVE  asked' # <<>> /\ Last' = <<"PROBE", w>>
<1> DEFINE x == <<"PROBE", w>>
<1>1. asked \in Seq(Exch) /\ asked' = Append(asked, x) /\ x \in Exch
    BY DEF LoopType, Ask, Exch
<1> HIDE DEF x
<1>2. asked' # <<>> /\ Last' = x
    BY <1>1, AppendIs DEF Last
<1> QED BY <1>2 DEF x

LEMMA HostLoadsOfLoop ==
    ASSUME NEW g, JointStep(g), LoopStep(Host)
    PROVE  HostLoads'
<1>0. /\ LoopType /\ GeneralInv /\ ~over /\ ~over' /\ Guests = {g} /\ OrderInv /\ MarksTrue
      /\ next_xfer_id \in Nat /\ Host \in Slots /\ RequestsOf(Host) /\ Joint(g) /\ HostLoads
      /\ g # Host /\ g \in Guests /\ TypeOK
    <2>1. GeneralInv /\ ~over /\ Guests = {g} /\ ~over' /\ Joint(g)
        BY DEF JointStep
    <2>2. Host \in Slots /\ RequestsTrue /\ HostLoads
        BY <2>1, Two DEF Joint
    <2>3. RequestsOf(Host)
        BY <2>2 DEF RequestsTrue
    <2> QED BY <2>1, <2>2, <2>3, Two DEF InputInv
<1>1. CASE Poll(Host)
    <2>1. /\ UNCHANGED <<disk, orderVars, sessionVars>> /\ np'[Host].slot = np[Host].slot
          /\ np[Host].xfer = "LOAD_READY" => np[Host].synced
          /\ np[Host].xfer = "LOAD_APPLYING" => Pending(Host)
          /\ \/ np'[Host].xfer = np[Host].xfer /\ np'[Host].synced = np[Host].synced
             \/ np'[Host].xfer = "NONE"
          /\ np[Host].xfer = "LOAD_APPLYING" => ss' = ss
        BY <1>0, <1>1, PollMoves DEF DueToStage
    <2>2. /\ File' = File /\ Last' = Last /\ FileProbe' = FileProbe /\ FileBlob' = FileBlob
          /\ AllReady' = AllReady /\ UNCHANGED <<asked, blobs, tx, probe>>
        BY <2>1 DEF File, Last, FileProbe, FileBlob, AllReady, orderVars, sessionVars, transferVars
    <2>3. np[Host].xfer = "LOAD_APPLYING" => ~ss[Host].loaded
        BY <1>0, <2>1 DEF Pending, RequestsOf
    <2> QED BY <1>0, <2>1, <2>2, <2>3 DEF HostLoads, LoadOpen, Phase
<1>2. CASE FinishFrame(Host)
    <2>1. /\ UNCHANGED <<ss, disk, game, orderVars, sessionVars>>
          /\ np'[Host].xfer = np[Host].xfer /\ np'[Host].synced = np[Host].synced
          /\ np'[Host].slot = np[Host].slot
        BY <1>0, <1>2, FrameMoves
    <2>2. /\ File' = File /\ Last' = Last /\ FileProbe' = FileProbe /\ FileBlob' = FileBlob
          /\ AllReady' = AllReady /\ UNCHANGED <<asked, blobs, tx, probe>>
        BY <2>1 DEF File, Last, FileProbe, FileBlob, AllReady, orderVars, sessionVars, transferVars
    <2> QED BY <1>0, <2>1, <2>2 DEF HostLoads, LoadOpen, Phase
<1>3. CASE PollSave(Host) \/ MaybeStageTargetSave(Host)
    <2>1. np'[Host].xfer = "SAVE_COORD"
        <3>1. CASE PollSave(Host)
            BY <1>0, <3>1, SaveMoves DEF RequestsOf
        <3>2. CASE MaybeStageTargetSave(Host)
            BY <1>0, <3>2, StageMoves
        <3> QED BY <1>3, <3>1, <3>2
    <2> QED BY <2>1 DEF HostLoads, LoadOpen, Phase
<1>4. CASE PollLoad(Host)
    <2>1. /\ UNCHANGED <<np, disk, orderVars, sessionVars>>
          /\ ss[Host].load # <<>> /\ ss'[Host].load = <<>>
          /\ \/ ss'[Host].loaded /\ game'[Host] = Restored(Host)
             \/ ss'[Host].loaded = ss[Host].loaded /\ game'[Host] = game[Host]
        BY <1>0, <1>4, LoadMoves
    <2>2. Phase = "LOAD_APPLYING" /\ ~ss[Host].loaded
        BY <1>0, <2>1 DEF RequestsOf, Phase
    <2>3. Restored(Host) = File
        <3>1. ss[Host].load = <<"SLOT", np[Host].slot>>
            BY <1>0, <2>1, <2>2 DEF HostLoads
        <3> QED BY <3>1 DEF Restored, File
    <2>4. /\ File' = File /\ Phase' = Phase /\ (LoadOpen' <=> LoadOpen)
        BY <2>1 DEF File, Phase, LoadOpen
    <2> QED BY <1>0, <2>1, <2>2, <2>3, <2>4 DEF HostLoads
<1>5. CASE ApplyReady(Host)
    <2> DEFINE b == blobs[tx.id]
    <2>1. /\ tx.active /\ disk'[Host] = disk[Host]
          /\ \/ np'[Host].xfer = "NONE"
             \/ /\ b.op = "LOAD" /\ np'[Host].xfer = "LOAD_APPLYING" /\ np'[Host].slot = b.slot
                /\ ss'[Host].load = <<"SLOT", b.slot>> /\ ~ss'[Host].loaded
        BY <1>0, <1>5, ApplyMoves
    <2>2. CASE np'[Host].xfer = "NONE"
        BY <2>2 DEF HostLoads, LoadOpen, Phase
    <2>3. CASE b.op = "LOAD" /\ np'[Host].xfer # "NONE"
        <3>1. Phase = "LOAD_SEND" /\ b = FileBlob
            BY <1>0, <2>1, <2>3, HostBlobIs
        <3>2. b.slot = np[Host].slot /\ File # NoFile
            BY <1>0, <3>1 DEF FileBlob, HostLoads, LoadOpen
        <3>3. File' = File
            BY <2>1, <2>3, <3>2 DEF File
        <3> HIDE DEF b
        <3> QED BY <2>1, <2>3, <3>2, <3>3 DEF HostLoads, Phase
    <2> QED BY <2>1, <2>2, <2>3
<1>6. CASE EnterReady(Host)
    <2>1. /\ UNCHANGED <<disk, game>> /\ np[Host].xfer = "LOAD_APPLYING" /\ ss[Host].loaded
          /\ np'[Host].xfer = "LOAD_READY" /\ np'[Host].slot = np[Host].slot /\ ~np'[Host].synced
        BY <1>0, <1>6, EnterMoves
    <2>2. Phase = "LOAD_APPLYING" /\ LoadOpen
        BY <2>1 DEF Phase, LoadOpen
    <2>3. AllReady \in Probe /\ Ask(AllReady)
        BY <1>0, <1>6, <2>2, LoadProbes DEF EnterReady, AllReady
    <2>4. asked' # <<>> /\ Last' = <<"PROBE", AllReady>>
        BY <1>0, <2>3, LastIs
    <2>5. File' = File /\ AllReady' = AllReady
        BY <2>1 DEF File, AllReady
    <2> QED BY <1>0, <2>1, <2>2, <2>4, <2>5 DEF HostLoads, Phase
<1> QED BY <1>0, <1>1, <1>2, <1>3, <1>4, <1>5, <1>6 DEF LoopStep, AbortLoad

LEMMA HostLoadsOfHost ==
    ASSUME NEW g, JointStep(g), HostActs
    PROVE  HostLoads'
<1>0. /\ LoopType /\ GeneralInv /\ ~over /\ ~over' /\ Guests = {g} /\ OrderInv
      /\ next_xfer_id \in Nat /\ Host \in Slots /\ Joint(g) /\ HostLoads
      /\ g # Host /\ g \in Guests /\ TypeOK
    <2>1. GeneralInv /\ ~over /\ Guests = {g} /\ ~over' /\ Joint(g)
        BY DEF JointStep
    <2> QED BY <2>1, Two DEF Joint
<1>1. CASE LoopStep(Host)
    BY <1>1, HostLoadsOfLoop
<1>2. CASE DriveCards \/ AbortSave \/ DriveSaveCoord \/ DriveSaveProbe \/ StartCards
    <2>1. np'[Host].xfer \in {"NONE", "MC_SEND", "SAVE_PROBE", "SAVE_SEND", "MC_PROBE"}
        BY <1>0, <1>2, DriveMoves
    <2> QED BY <2>1 DEF HostLoads, LoadOpen, Phase
<1>3. CASE DriveLoadProbe
    <2>1. /\ np[Host].xfer = "LOAD_PROBE" /\ UNCHANGED <<disk, game>>
          /\ np'[Host].slot = np[Host].slot
          /\ \/ /\ np'[Host].xfer = "LOAD_APPLYING" /\ ~ss'[Host].loaded
                /\ ss'[Host].load = <<"SLOT", np[Host].slot>>
             \/ Send("LOAD", np[Host].slot, File) /\ np'[Host].xfer = "LOAD_SEND"
        BY <1>0, <1>3, LoadProbeMoves DEF Answered
    <2>2. LoadOpen /\ File' = File /\ FileBlob' = FileBlob
        BY <2>1 DEF LoadOpen, Phase, File, FileBlob
    <2>3. CASE np'[Host].xfer = "LOAD_APPLYING"
        BY <1>0, <2>1, <2>2, <2>3 DEF HostLoads, Phase
    <2>4. CASE Send("LOAD", np[Host].slot, File) /\ np'[Host].xfer = "LOAD_SEND"
        <3>1. FileBlob \in Blob
            BY <1>0, <2>2, LoadProbes DEF FileBlob, Blob
        <3>2. blobs' = Append(blobs, FileBlob)
            BY <2>4 DEF Send, FileBlob
        <3>3. tx'.active /\ tx'.id = next_xfer_id + 1
            BY <1>0, <2>4, SendQuiet DEF Send
        <3>4. Len(blobs) = next_xfer_id
            BY <1>0 DEF OrderInv, BlobsTrue
        <3>5. blobs'[tx'.id] = FileBlob
            BY <1>0, <3>1, <3>2, <3>3, <3>4, LongerBlobs
        <3> QED BY <1>0, <2>2, <2>4, <3>3, <3>5 DEF HostLoads, Phase
    <2> QED BY <2>1, <2>3, <2>4
<1>4. CASE DriveLoadReady
    <2>1. /\ Answered("LOAD_READY") /\ ProbeFinish /\ UNCHANGED <<disk, orderVars>>
          /\ np'[Host].xfer = "LOAD_READY" /\ np'[Host].synced /\ np'[Host].slot = np[Host].slot
        BY <1>0, <1>4, LoadReadyMoves
    <2>2. ~probe'[Host].active
        BY <1>0, <2>1, EndQuiet
    <2>3. Last' = Last /\ AllReady' = AllReady /\ asked' = asked
        BY <2>1 DEF Last, AllReady, orderVars
    <2>4. asked # <<>> /\ Last = <<"PROBE", AllReady>>
        BY <1>0, <2>1 DEF HostLoads, Answered, Phase
    <2> QED BY <2>1, <2>2, <2>3, <2>4 DEF HostLoads, LoadOpen, Phase
<1>5. CASE \E s \in Saves : AskSave(s) \/ AskLoad(s)
    <2>1. PICK s \in Saves : AskSave(s) \/ AskLoad(s)
        BY <1>5
    <2>2. /\ np'[Host].slot = s /\ UNCHANGED disk
          /\ \/ np'[Host].xfer = "SAVE_COORD"
             \/ /\ np'[Host].xfer = "LOAD_PROBE" /\ disk[Host][s] # NoFile
                /\ Ask(HashProbe("LOAD", s, disk[Host][s]))
        BY <1>0, <2>1, AskMoves
    <2>3. CASE np'[Host].xfer = "SAVE_COORD"
        BY <2>3 DEF HostLoads, LoadOpen, Phase
    <2>4. CASE /\ np'[Host].xfer = "LOAD_PROBE" /\ disk[Host][s] # NoFile
               /\ Ask(HashProbe("LOAD", s, disk[Host][s]))
        <3>1. disk[Host][s] \in Nat
            BY <1>0, LoopIs
        <3>2. HashProbe("LOAD", s, disk[Host][s]) \in Probe
            BY <3>1, Askables
        <3>3. asked' # <<>> /\ Last' = <<"PROBE", HashProbe("LOAD", s, disk[Host][s])>>
            BY <1>0, <2>4, <3>2, LastIs
        <3>4. File' = disk[Host][s] /\ FileProbe' = HashProbe("LOAD", s, disk[Host][s])
            BY <2>2 DEF File, FileProbe
        <3> QED BY <2>4, <3>3, <3>4 DEF HostLoads, Phase
    <2> QED BY <2>2, <2>3, <2>4
<1> QED BY <1>1, <1>2, <1>3, <1>4, <1>5 DEF HostActs, HostDriveXfer

LEMMA HostLoadsStep ==
    ASSUME NEW g, JointStep(g), BarrierNext
    PROVE  HostLoads'
<1>0. /\ GeneralInv /\ ~over /\ ~over' /\ Guests = {g} /\ HostLoads /\ KeptTrue(g)
    BY DEF JointStep, Joint
<1>1. CASE SessionPump
    <2>1. /\ UNCHANGED <<np, ss, disk, game, asked, blobs>>
          /\ (tx'.active <=> tx.active) /\ (tx.active => tx'.id = tx.id)
          /\ (probe'[Host].active <=> probe[Host].active)
        BY <1>0, <1>1, PumpDoes DEF loopVars
    <2> QED BY <1>0, <2>1, HostLoadsKept
<1>2. CASE LoopStep(g) \/ GuestHandleProbe(g)
    <2>1. HostKept
        BY <1>0, <1>2, GuestLoop, GuestAnswers
    <2> QED BY <1>0, <2>1, HostLoadsKept DEF HostKept
<1> QED BY <1>1, <1>2, HostLoadsOfHost, StepKinds

-----------------------------------------------------------------------------
(* Where the guest is: the session's steps *)

\* What the guest's place in a load refers to.
LEMMA ViewKept ==
    ASSUME np'[Host].xfer = np[Host].xfer, np'[Host].slot = np[Host].slot,
           np'[Host].synced = np[Host].synced, disk'[Host] = disk[Host], UNCHANGED <<asked, blobs>>
    PROVE  /\ Phase' = Phase /\ File' = File /\ Last' = Last /\ (LoadOpen' <=> LoadOpen)
           /\ FileProbe' = FileProbe /\ FileBlob' = FileBlob /\ AllReady' = AllReady
           /\ Asked' = Asked /\ Len(asked)' = Len(asked) /\ Loads' = Loads
<1>1. Phase' = Phase /\ File' = File /\ Last' = Last /\ (LoadOpen' <=> LoadOpen)
    BY DEF Phase, File, Last, LoadOpen
<1>2. FileProbe' = FileProbe /\ FileBlob' = FileBlob /\ AllReady' = AllReady
    BY <1>1 DEF FileProbe, FileBlob, AllReady
<1>3. Asked' = Asked /\ Loads' = Loads
    BY DEF Asked, Loads
<1> QED BY <1>1, <1>2, <1>3

LEMMA InStepOfPump ==
    ASSUME NEW g, JointStep(g), SessionPump
    PROVE  InStep(g)'
<1>0. /\ LoopType /\ GeneralInv /\ ~over /\ Guests = {g} /\ OrderInv /\ Joint(g) /\ KeptTrue(g)
      /\ InStep(g) /\ HostLoads /\ g \in Guests /\ GuestTrue(g)
      /\ Len(asked) \in Nat /\ Asked = 1 .. Len(asked) /\ heard[g] \in Nat /\ heard[g] <= Len(asked)
    <2>1. GeneralInv /\ ~over /\ Guests = {g} /\ Joint(g)
        BY DEF JointStep
    <2> QED BY <2>1, Two DEF Joint
<1>1. /\ UNCHANGED <<np, ss, disk, game, clock, asked, blobs>> /\ Hushed(g)
      /\ \/ Still(g)
         \/ \E w \in Probe : Surfaces(g, w)
         \/ \E id \in Nat : Opens(g, id)
    BY <1>0, <1>1, PumpDoes DEF loopVars, inputVars
<1>2. /\ Phase' = Phase /\ File' = File /\ Last' = Last /\ (LoadOpen' <=> LoadOpen)
      /\ FileProbe' = FileProbe /\ FileBlob' = FileBlob /\ AllReady' = AllReady
      /\ Asked' = Asked /\ Len(asked)' = Len(asked) /\ Loads' = Loads
    BY <1>1, ViewKept
<1>3. /\ StartOf(g)' = StartOf(g) /\ StartOf(Host)' = StartOf(Host) /\ (Same(g)' <=> Same(g))
      /\ (Level(g)' <=> Level(g)) /\ Spoken(g)' = Spoken(g)
      /\ heard'[g] \in Nat /\ heard[g] <= heard'[g] /\ heard'[g] <= Len(asked)
      /\ heard'[g] = heard[g] => At(g)' = At(g)
    <2>1. StartOf(g)' = StartOf(g) /\ StartOf(Host)' = StartOf(Host)
        BY <1>1 DEF StartOf
    <2>2. heard'[g] \in Nat /\ heard[g] <= heard'[g] /\ heard'[g] <= Len(asked)
        <3>1. CASE Still(g)
            BY <1>0, <3>1 DEF Still
        <3>2. CASE ~Still(g)
            BY <1>0, <1>1, <3>2 DEF Surfaces, Opens
        <3> QED BY <3>1, <3>2
    <2> QED BY <1>1, <2>1, <2>2, SpokenSame DEF Same, Level, At
<1>4. \A i \in Loads : i \in Nat
    BY <1>0 DEF Loads
<1>5. CASE ~LoadOpen
    <2>1. GuestPlays(g)
        BY <1>0, <1>5 DEF InStep
    <2>2. heard[g] = Len(asked) => heard'[g] = heard[g]
        BY <1>0, <1>3
    <2>3. \A i \in Loads : i < heard'[g]
        BY <1>0, <1>3, <1>4, <2>1 DEF GuestPlays
    <2>4. GuestPlays(g)'
        BY <1>1, <1>2, <1>3, <2>1, <2>2, <2>3 DEF GuestPlays
    <2> QED BY <1>2, <1>5, <2>4 DEF InStep
<1>6. CASE LoadOpen /\ Waiting(g)
    <2>1. \A i \in Loads : i >= heard'[g] => i = Len(asked)
        BY <1>0, <1>3, <1>4, <1>6 DEF Waiting
    <2>2. Waiting(g)'
        BY <1>1, <1>2, <1>3, <1>6, <2>1 DEF Waiting
    <2> QED BY <1>2, <1>6, <2>2 DEF InStep, GuestLoads
<1>7. CASE LoadOpen /\ Getting(g) /\ Lacking(g)
    <2>0. At(g) = <<"PROBE", FileProbe>> /\ heard[g] > 0
        BY <1>0, <1>7 DEF Lacking, GuestTrue, Knows
    <2>1. CASE Still(g)
        <3>1. Lacking(g)'
            <4>1. FileProbe \in Probe
                BY <1>0, <1>7, LoadProbes
            <4>2. Reply(g, FileProbe, TRUE) \notin net'
                BY <1>1, <1>7, <4>1 DEF Lacking, Hushed
            <4> QED BY <1>2, <1>7, <2>1, <4>2 DEF Lacking, Still
        <3>2. Getting(g)'
            BY <1>1, <1>2, <1>3, <1>7, <3>1 DEF Getting
        <3> QED BY <1>2, <1>7, <3>2 DEF InStep, GuestLoads
    <2>2. ASSUME NEW w \in Probe, Surfaces(g, w) PROVE FALSE
        <3>1. w # FileProbe
            BY <1>7, <2>2 DEF Surfaces, Lacking
        <3>2. <<"PROBE", w>> # <<"PROBE", FileProbe>>
            BY <3>1
        <3>3. heard'[g] # heard[g]
            BY <2>0, <2>2, <3>2 DEF Surfaces, At
        <3>4. Phase = "LOAD_SEND" /\ heard'[g] = Len(asked)
            BY <1>0, <1>3, <1>7, <3>3 DEF Lacking
        <3>5. Last = <<"XFER", tx.id>>
            BY <1>0, <3>4, HostBlobIs DEF HostLoads
        <3> QED BY <2>2, <3>4, <3>5 DEF Surfaces, Last
    <2>3. ASSUME NEW id \in Nat, Opens(g, id) PROVE InStep(g)'
        <3>1. Phase = "LOAD_SEND" /\ heard'[g] = Len(asked)
            BY <1>0, <1>3, <1>7, <2>3 DEF Lacking, Opens
        <3>2. Last = <<"XFER", tx.id>> /\ blobs[tx.id] = FileBlob
            BY <1>0, <3>1, HostBlobIs DEF HostLoads
        <3>3. id = tx.id
            <4>1. <<"XFER", id>> = <<"XFER", tx.id>>
                BY <2>3, <3>1, <3>2 DEF Opens, Last
            <4> QED BY <4>1
        <3>4. Fetching(g)'
            BY <1>1, <1>2, <2>3, <3>1, <3>2, <3>3 DEF Fetching, Opens
        <3>5. Getting(g)'
            BY <1>1, <1>2, <1>3, <1>7, <3>4 DEF Getting
        <3> QED BY <1>2, <1>7, <3>5 DEF InStep, GuestLoads
    <2> QED BY <1>1, <2>1, <2>2, <2>3
<1>8. CASE LoadOpen /\ Getting(g) /\ Fetching(g)
    <2>1. \A w \in Probe : ~Surfaces(g, w)
        BY <1>8 DEF Surfaces, Fetching
    <2>2. ASSUME NEW id \in Nat, Opens(g, id) PROVE FALSE
        <3>1. Phase = "LOAD_READY" /\ heard'[g] = Len(asked)
            BY <1>0, <1>3, <1>8, <2>2 DEF Fetching, Opens
        <3>2. Last = <<"PROBE", AllReady>>
            BY <1>0, <3>1 DEF HostLoads
        <3> QED BY <2>2, <3>1, <3>2 DEF Opens, Last
    <2>3. Still(g)
        BY <1>1, <2>1, <2>2
    <2>4. Fetching(g)'
        BY <1>1, <1>2, <1>8, <2>3 DEF Fetching, Still
    <2>5. Getting(g)'
        BY <1>1, <1>2, <1>3, <1>8, <2>4 DEF Getting
    <2> QED BY <1>2, <1>8, <2>5 DEF InStep, GuestLoads
<1>9. CASE LoadOpen /\ (Applying(g) \/ Applied(g))
    <2>1. Has(g)
        BY <1>9 DEF Applying, Applied
    <2>2. FileProbe \in Probe /\ FileProbe # AllReady
        BY <1>0, <1>9, LoadProbes
    <2>3. Reply(g, FileProbe, FALSE) \in net' <=> Reply(g, FileProbe, FALSE) \in net
        BY <1>1, <2>2 DEF Hushed
    <2>4. ~rx'[g].active /\ (heard'[g] = heard[g]
              \/ (Phase = "LOAD_READY" /\ heard'[g] = Len(asked) /\ At(g)' = <<"PROBE", AllReady>>))
        <3>1. CASE Still(g)
            BY <2>1, <3>1 DEF Still, Has
        <3>2. heard'[g] # heard[g] => Phase = "LOAD_READY" /\ heard'[g] = Len(asked)
            BY <1>0, <1>3, <2>1 DEF Has
        <3>3. Phase = "LOAD_READY" => Last = <<"PROBE", AllReady>>
            BY <1>0 DEF HostLoads
        <3>4. ASSUME NEW w \in Probe, Surfaces(g, w)
              PROVE  ~rx'[g].active /\ (heard'[g] = heard[g]
                       \/ (Phase = "LOAD_READY" /\ heard'[g] = Len(asked) /\ At(g)' = <<"PROBE", AllReady>>))
            BY <1>1, <3>2, <3>3, <3>4 DEF Surfaces, At, Last
        <3>5. ASSUME NEW id \in Nat, Opens(g, id) PROVE FALSE
            <4>1. heard'[g] # heard[g] /\ asked[heard'[g]] = <<"XFER", id>>
                BY <1>0, <1>3, <3>5 DEF Opens
            <4> QED BY <3>2, <3>3, <4>1 DEF Last
        <3> QED BY <1>1, <3>1, <3>4, <3>5
    <2>5. Has(g)'
        <3>1. CASE heard'[g] = heard[g]
            BY <1>1, <1>2, <1>3, <2>1, <2>3, <2>4, <3>1 DEF Has
        <3>2. CASE Phase = "LOAD_READY" /\ heard'[g] = Len(asked) /\ At(g)' = <<"PROBE", AllReady>>
            <4>1. At(g)'[2] = AllReady /\ At(g)' # <<"PROBE", FileProbe>>
                BY <2>2, <3>2
            <4>2. heard'[g] > 0
                BY <1>0, <1>3, <2>1 DEF Has
            <4> QED BY <1>1, <1>2, <1>3, <2>1, <2>4, <3>2, <4>1, <4>2 DEF Has
        <3> QED BY <2>4, <3>1, <3>2
    <2>6. Applying(g)' \/ Applied(g)'
        BY <1>1, <1>2, <1>9, <2>5 DEF Applying, Applied
    <2> QED BY <1>2, <1>9, <2>6 DEF InStep, GuestLoads
<1>10. CASE LoadOpen /\ Synced(g)
    <2>1. heard'[g] = heard[g]
        BY <1>0, <1>3, <1>10 DEF Synced
    <2>2. Synced(g)'
        BY <1>1, <1>2, <1>3, <1>10, <2>1 DEF Synced
    <2> QED BY <1>2, <1>10, <2>2 DEF InStep, GuestLoads
<1> QED BY <1>0, <1>5, <1>6, <1>7, <1>8, <1>9, <1>10 DEF InStep, GuestLoads, Getting

-----------------------------------------------------------------------------
(* Where the guest is: the host's steps *)

\* With an exchange more, those before it are as they were.
LEMMA AskedLonger ==
    ASSUME LoopType, NEW x \in Exch, asked' = Append(asked, x)
    PROVE  /\ Len(asked) \in Nat /\ Asked = 1 .. Len(asked)
           /\ Len(asked)' = Len(asked) + 1 /\ Asked' = 1 .. Len(asked) + 1
           /\ asked' # <<>> /\ Last' = x
           /\ \A i \in Asked : asked'[i] = asked[i]
           /\ asked'[Len(asked) + 1] = x
<1>1. asked \in Seq(Exch)
    BY DEF LoopType
<1> QED BY <1>1, AppendIs DEF Last, Asked

\* ... and only it may be one more to load from.
LEMMA LoadsMore ==
    ASSUME LoopType, OrderInv, next_xfer_id \in Nat, NEW x \in Exch, asked' = Append(asked, x),
           \/ UNCHANGED blobs
           \/ \E b \in Blob : blobs' = Append(blobs, b)
    PROVE  \A i \in Loads' :
              \/ i \in Loads /\ i <= Len(asked)
              \/ /\ i = Len(asked) + 1
                 /\ \/ x[1] = "PROBE" /\ IsHash("LOAD", x[2])
                    \/ x[1] = "XFER" /\ blobs'[x[2]].op = "LOAD"
<1>1. /\ Len(asked) \in Nat /\ Asked = 1 .. Len(asked) /\ Asked' = 1 .. Len(asked) + 1
      /\ \A i \in Asked : asked'[i] = asked[i]
      /\ asked'[Len(asked) + 1] = x
    BY AskedLonger
<1> SUFFICES ASSUME NEW i \in Loads', i # Len(asked) + 1
             PROVE  i \in Loads /\ i <= Len(asked)
    BY <1>1 DEF Loads
<1>2. i \in Asked /\ i <= Len(asked)
    BY <1>1 DEF Loads
<1>3. asked'[i] = asked[i]
    BY <1>1, <1>2
<1>4. CASE asked[i][1] = "PROBE"
    BY <1>2, <1>3, <1>4 DEF Loads
<1>5. CASE asked[i][1] = "XFER"
    <2>1. asked[i][2] \in 1 .. Len(blobs)
        BY <1>2, <1>5 DEF OrderInv, AskedTrue, BlobsTrue
    <2>2. blobs'[asked[i][2]] = blobs[asked[i][2]]
        <3>1. CASE UNCHANGED blobs
            BY <3>1
        <3>2. ASSUME NEW b \in Blob, blobs' = Append(blobs, b)
              PROVE  blobs'[asked[i][2]] = blobs[asked[i][2]]
            BY <2>1, <3>2, LongerBlobs
        <3> QED BY <3>1, <3>2
    <2> QED BY <1>2, <1>3, <1>5, <2>2 DEF Loads
<1> QED BY <1>2, <1>3, <1>4, <1>5 DEF Loads

\* What a step of the host leaves of the guest.
LEMMA GuestIs ==
    ASSUME NEW g, JointStep(g), GuestKept(g), clock'[Host].epoch = clock[Host].epoch
    PROVE  /\ StartOf(g)' = StartOf(g) /\ (Same(g)' <=> Same(g)) /\ Spoken(g)' = Spoken(g)
           /\ StartOf(Host)' = StartOf(Host) => (Level(g)' <=> Level(g))
<1>1. StartOf(g)' = StartOf(g) /\ (Same(g)' <=> Same(g))
    BY DEF GuestKept, StartOf, Same
<1> QED BY <1>1, SpokenSame DEF GuestKept, Level

LEMMA JointFacts ==
    ASSUME NEW g, JointStep(g)
    PROVE  /\ LoopType /\ GeneralInv /\ ~over /\ ~over' /\ Guests = {g} /\ Joint(g)
           /\ OrderInv /\ AskingInv /\ MarksTrue /\ next_xfer_id \in Nat /\ TypeOK
           /\ Host \in Slots /\ g \in Slots /\ g # Host /\ g \in Guests /\ GuestTrue(g)
           /\ RequestsOf(Host) /\ RequestsOf(g) /\ HostLoads /\ InStep(g) /\ Armed(g)
           /\ Len(asked) \in Nat /\ Asked = 1 .. Len(asked)
           /\ heard[g] \in Nat /\ heard[g] <= Len(asked)
           /\ Len(asked)' \in Nat /\ Asked' = 1 .. Len(asked)'
<1>1. GeneralInv /\ ~over /\ Guests = {g} /\ ~over' /\ Joint(g) /\ LoopType'
    BY DEF JointStep, GeneralInv
<1>2. Host \in Slots /\ g \in Slots /\ RequestsTrue /\ HostLoads
    BY <1>1, Two DEF Joint
<1>3. RequestsOf(Host) /\ RequestsOf(g)
    BY <1>2 DEF RequestsTrue
<1>4. Len(asked)' \in Nat /\ Asked' = 1 .. Len(asked)'
    BY <1>1 DEF LoopType, Asked
<1> QED BY <1>1, <1>2, <1>3, <1>4, Two DEF InputInv, Joint

\* The guest plays on while the host does, and hears of nothing to load from.
LEMMA PlaysOn ==
    ASSUME NEW g, JointStep(g), GuestKept(g), ~LoadOpen, ~LoadOpen',
           clock'[Host].epoch = clock[Host].epoch, StartOf(Host)' = StartOf(Host),
           Loads' \subseteq Loads,
           \/ UNCHANGED asked /\ (Phase' \in {"NONE", "LOAD_READY"} \/ Phase' = Phase)
           \/ np[g].xfer # "LOAD_READY"
    PROVE  InStep(g)'
<1>1. GuestPlays(g)
    BY JointFacts DEF InStep
<1>2. Level(g)' /\ (\A i \in Loads' : i < heard'[g]) /\ np'[g] = np[g] /\ heard'[g] = heard[g]
    BY <1>1, GuestIs DEF GuestPlays, GuestKept
<1>3. CASE np[g].xfer \in {"NONE", "SAVE_COORD", "SAVE_SEND"}
    BY <1>2, <1>3 DEF InStep, GuestPlays
<1>4. CASE np[g].xfer = "LOAD_READY" /\ UNCHANGED asked
             /\ (Phase' \in {"NONE", "LOAD_READY"} \/ Phase' = Phase)
    <2>1. At(g)' = At(g)
        BY <1>2, <1>4 DEF At
    <2>2. /\ np[g].synced /\ Phase \in {"NONE", "LOAD_READY"} /\ heard[g] = Len(asked)
          /\ heard[g] > 0 /\ At(g)[1] = "PROBE" /\ IsReady(At(g)[2])
        BY <1>1, <1>4 DEF GuestPlays
    <2>3. Len(asked)' = Len(asked)
        BY <1>4
    <2> QED BY <1>2, <1>4, <2>1, <2>2, <2>3 DEF InStep, GuestPlays
<1> QED BY <1>1, <1>3, <1>4 DEF GuestPlays

\* With the phase, the file and the exchanges kept, the guest is where it was.
LEMMA ViewStill ==
    ASSUME NEW g, JointStep(g), GuestKept(g), clock'[Host].epoch = clock[Host].epoch,
           StartOf(Host)' = StartOf(Host) \/ Phase = "LOAD_APPLYING",
           np'[Host].xfer = np[Host].xfer, np'[Host].slot = np[Host].slot,
           np'[Host].synced = np[Host].synced, disk'[Host] = disk[Host], UNCHANGED <<asked, blobs>>
    PROVE  InStep(g)'
<1>0. InStep(g)
    BY JointFacts
<1>1. /\ Phase' = Phase /\ (LoadOpen' <=> LoadOpen)
      /\ File' = File /\ FileProbe' = FileProbe /\ FileBlob' = FileBlob /\ AllReady' = AllReady
      /\ Len(asked)' = Len(asked) /\ Loads' = Loads
    BY ViewKept
<1>2. /\ (Same(g)' <=> Same(g)) /\ Spoken(g)' = Spoken(g)
      /\ (Phase # "LOAD_APPLYING" => (Level(g)' <=> Level(g)))
    BY GuestIs
<1>3. /\ np'[g] = np[g] /\ ss'[g] = ss[g] /\ disk'[g] = disk[g] /\ game'[g] = game[g]
      /\ clock'[g] = clock[g] /\ rx'[g] = rx[g] /\ probe'[g] = probe[g] /\ heard'[g] = heard[g]
    BY DEF GuestKept
<1>4. At(g)' = At(g)
    BY <1>3 DEF At
<1>5. CASE ~LoadOpen
    <2>1. Phase # "LOAD_APPLYING"
        BY <1>5 DEF LoadOpen
    <2> QED BY <1>1, <1>5, <2>1, PlaysOn
<1>6. CASE LoadOpen /\ Waiting(g)
    <2>1. Phase # "LOAD_APPLYING"
        BY <1>6 DEF Waiting
    <2>2. Waiting(g)'
        BY <1>1, <1>2, <1>3, <1>6, <2>1 DEF Waiting
    <2> QED BY <1>1, <1>6, <2>2 DEF InStep, GuestLoads
<1>7. CASE LoadOpen /\ ~Waiting(g)
    <2>1. /\ FileProbe \in Probe
          /\ \A yes \in BOOLEAN : Reply(g, FileProbe, yes) \in net' <=> Reply(g, FileProbe, yes) \in net
        BY <1>7, LoadProbes, JointFacts DEF GuestKept, Hushed
    <2>2. Lacking(g) => Lacking(g)'
        BY <1>1, <1>3, <2>1 DEF Lacking
    <2>3. Fetching(g) => Fetching(g)'
        BY <1>1, <1>3 DEF Fetching
    <2>4. Getting(g) => Getting(g)'
        BY <1>1, <1>2, <1>3, <2>2, <2>3 DEF Getting
    <2>5. Has(g) => Has(g)'
        BY <1>1, <1>2, <1>3, <1>4, <2>1 DEF Has
    <2>6. (Applying(g) => Applying(g)') /\ (Applied(g) => Applied(g)')
        BY <1>1, <1>3, <2>5 DEF Applying, Applied
    <2>7. Synced(g) => Synced(g)'
        BY <1>1, <1>3 DEF Synced
    <2> QED BY <1>0, <1>1, <1>7, <2>4, <2>6, <2>7 DEF InStep, GuestLoads
<1> QED BY <1>5, <1>6, <1>7

LEMMA InStepOfHostFrame ==
    ASSUME NEW g, JointStep(g), GuestKept(g),
           \/ Poll(Host) \/ FinishFrame(Host) \/ PollSave(Host) \/ PollLoad(Host)
           \/ MaybeStageTargetSave(Host)
    PROVE  InStep(g)'
<1>0. LoopType /\ MarksTrue /\ Host \in Slots /\ RequestsOf(Host)
    BY JointFacts
<1>1. CASE Poll(Host)
    <2>1. /\ UNCHANGED <<disk, orderVars>> /\ np'[Host].slot = np[Host].slot
          /\ np[Host].xfer = "LOAD_READY" => np[Host].synced
          /\ clock'[Host].epoch = clock[Host].epoch
          /\ \/ np'[Host].xfer = np[Host].xfer /\ np'[Host].synced = np[Host].synced
             \/ np[Host].xfer = "LOAD_READY" /\ np'[Host].xfer = "NONE"
          /\ StartOf(Host)' = StartOf(Host)
        BY <1>0, <1>1, PollMoves
    <2>2. UNCHANGED <<asked, blobs>>
        BY <2>1 DEF orderVars
    <2>3. CASE np'[Host].xfer = np[Host].xfer /\ np'[Host].synced = np[Host].synced
        BY <2>1, <2>2, <2>3, ViewStill
    <2>4. CASE np[Host].xfer = "LOAD_READY" /\ np'[Host].xfer = "NONE"
        <3>1. ~LoadOpen /\ ~LoadOpen' /\ Phase' = "NONE"
            BY <2>1, <2>4 DEF LoadOpen, Phase
        <3>2. Loads' = Loads
            BY <2>2 DEF Loads, Asked
        <3> QED BY <2>1, <2>2, <3>1, <3>2, PlaysOn
    <2> QED BY <2>1, <2>3, <2>4
<1>2. CASE FinishFrame(Host)
    <2>1. /\ UNCHANGED <<disk, orderVars>> /\ np'[Host].slot = np[Host].slot
          /\ clock'[Host].epoch = clock[Host].epoch
          /\ np'[Host].xfer = np[Host].xfer /\ np'[Host].synced = np[Host].synced
          /\ StartOf(Host)' = StartOf(Host)
        BY <1>0, <1>2, FrameMoves
    <2> QED BY <2>1, ViewStill DEF orderVars
<1>3. CASE PollSave(Host)
    <2>1. UNCHANGED <<np, game, clock, orderVars>> /\ np[Host].xfer = "SAVE_COORD"
        BY <1>0, <1>3, SaveMoves DEF RequestsOf
    <2>2. StartOf(Host)' = StartOf(Host) /\ Phase' = Phase /\ ~LoadOpen /\ ~LoadOpen'
        BY <2>1 DEF StartOf, LoadOpen, Phase
    <2>3. Loads' = Loads /\ UNCHANGED asked
        BY <2>1 DEF Loads, Asked, orderVars
    <2> QED BY <2>1, <2>2, <2>3, PlaysOn
<1>4. CASE PollLoad(Host)
    <2>1. UNCHANGED <<np, disk, clock, orderVars>> /\ np[Host].xfer = "LOAD_APPLYING"
        BY <1>0, <1>4, LoadMoves DEF RequestsOf
    <2> QED BY <2>1, ViewStill DEF Phase, orderVars
<1>5. CASE MaybeStageTargetSave(Host)
    <2>1. /\ UNCHANGED <<disk, clock, orderVars>> /\ np'[Host].slot = np[Host].slot
          /\ np'[Host].xfer = np[Host].xfer /\ np'[Host].synced = np[Host].synced
          /\ StartOf(Host)' = StartOf(Host)
        BY <1>0, <1>5, StageMoves
    <2> QED BY <2>1, ViewStill DEF orderVars
<1> QED BY <1>1, <1>2, <1>3, <1>4, <1>5

\* The host applies its load: a guest that has heard all it asked for has the file,
\* or is being sent it.
LEMMA AppliesOn ==
    ASSUME NEW g, JointStep(g), GuestKept(g), clock'[Host].epoch = clock[Host].epoch,
           np'[Host].slot = np[Host].slot, disk'[Host] = disk[Host], UNCHANGED <<asked, blobs>>,
           Phase \in {"LOAD_PROBE", "LOAD_SEND"}, Phase' = "LOAD_APPLYING",
           heard[g] = Len(asked), ~Waiting(g), ~Lacking(g)
    PROVE  InStep(g)'
<1>0. GuestLoads(g) /\ LoadOpen' /\ FileProbe \in Probe
    BY JointFacts, LoadProbes DEF InStep, LoadOpen
<1>1. File' = File /\ FileProbe' = FileProbe /\ FileBlob' = FileBlob /\ Len(asked)' = Len(asked)
    BY DEF File, FileProbe, FileBlob
<1>2. (Same(g)' <=> Same(g)) /\ Spoken(g)' = Spoken(g)
    BY GuestIs
<1>3. /\ np'[g] = np[g] /\ ss'[g] = ss[g] /\ disk'[g] = disk[g] /\ game'[g] = game[g]
      /\ rx'[g] = rx[g] /\ heard'[g] = heard[g]
      /\ \A yes \in BOOLEAN : Reply(g, FileProbe, yes) \in net' <=> Reply(g, FileProbe, yes) \in net
    BY <1>0 DEF GuestKept, Hushed
<1>4. At(g)' = At(g) /\ AllReady' = AllReady
    BY <1>3 DEF At, AllReady
<1>5. CASE Getting(g)
    <2>1. Fetching(g)
        BY <1>5 DEF Getting
    <2>2. Fetching(g)'
        BY <1>1, <1>3, <2>1 DEF Fetching
    <2>3. Getting(g)'
        BY <1>2, <1>3, <1>5, <2>2 DEF Getting
    <2> QED BY <1>0, <2>3 DEF InStep, GuestLoads
<1>6. CASE Applying(g) \/ Applied(g)
    <2>1. Has(g)
        BY <1>6 DEF Applying, Applied
    <2>2. Has(g)'
        BY <1>1, <1>2, <1>3, <1>4, <2>1 DEF Has
    <2>3. Applying(g)' \/ Applied(g)'
        BY <1>1, <1>3, <1>6, <2>2 DEF Applying, Applied
    <2> QED BY <1>0, <2>3 DEF InStep, GuestLoads
<1> QED BY <1>0, <1>5, <1>6 DEF GuestLoads, Synced

LEMMA InStepOfHostApply ==
    ASSUME NEW g, JointStep(g), GuestKept(g), ApplyReady(Host)
    PROVE  InStep(g)'
<1> DEFINE b == blobs[tx.id]
<1>0. /\ LoopType /\ OrderInv /\ Host \in Slots /\ next_xfer_id \in Nat /\ GeneralInv /\ ~over
      /\ Guests = {g} /\ Joint(g) /\ Len(asked) \in Nat
    BY JointFacts
<1>1. /\ tx.active /\ tx.ready /\ disk'[Host] = disk[Host]
      /\ UNCHANGED <<game, clock, orderVars>>
      /\ \/ b.op = "SRAM" /\ np'[Host].xfer = "NONE" /\ ~np'[Host].needs
         \/ b.op = "SAVE" /\ np'[Host].xfer = "NONE" /\ np'[Host].needs = np[Host].needs
         \/ b.op = "LOAD" /\ np'[Host].xfer = "LOAD_APPLYING" /\ np'[Host].slot = b.slot
    BY <1>0, ApplyMoves
<1>2. /\ Last = <<"XFER", tx.id>> /\ heard[g] = Len(asked)
      /\ b.op = "LOAD" => Phase = "LOAD_SEND" /\ b = FileBlob
      /\ b.op # "LOAD" => Phase \in {"MC_SEND", "SAVE_SEND"} /\ ~LoadOpen
      /\ b.op = "SRAM" => ~np[Host].needs
    BY <1>0, <1>1, HostDelivers, HostBlobIs
<1> HIDE DEF b
<1>3. CASE b.op = "LOAD"
    <2>1. b.slot = np[Host].slot
        BY <1>2, <1>3 DEF FileBlob
    <2>2. ~Waiting(g)
        BY <1>2, <1>3 DEF Waiting
    <2>3. ~Lacking(g)
        <3>1. Phase = "LOAD_SEND" /\ heard[g] # Len(asked) - 1
            BY <1>0, <1>2, <1>3
        <3> QED BY <3>1 DEF Lacking
    <2> QED BY <1>1, <1>2, <1>3, <2>1, <2>2, <2>3, AppliesOn DEF Phase, orderVars
<1>4. CASE b.op # "LOAD"
    <2>1. np'[Host].xfer = "NONE" /\ np'[Host].needs = np[Host].needs
        <3>1. LoopType /\ LoopType'
            BY <1>0 DEF JointStep, GeneralInv
        <3>2. np[Host].needs \in BOOLEAN /\ np'[Host].needs \in BOOLEAN
            BY <1>0, <3>1 DEF LoopType, Loop
        <3> QED BY <1>1, <1>2, <1>4, <3>2
    <2>2. ~LoadOpen /\ ~LoadOpen' /\ Phase' = "NONE"
        BY <1>2, <1>4, <2>1 DEF LoadOpen, Phase
    <2>3. StartOf(Host)' = StartOf(Host)
        BY <1>1, <2>1 DEF StartOf
    <2>4. Loads' = Loads /\ UNCHANGED asked
        BY <1>1 DEF Loads, Asked, orderVars
    <2> QED BY <1>1, <2>2, <2>3, <2>4, PlaysOn
<1> QED BY <1>3, <1>4

LEMMA InStepOfHostReady ==
    ASSUME NEW g, JointStep(g), GuestKept(g), EnterReady(Host)
    PROVE  InStep(g)'
<1>0. /\ LoopType /\ OrderInv /\ AskingInv /\ Host \in Slots /\ GeneralInv /\ ~over
      /\ Guests = {g} /\ g \in Guests /\ InStep(g)
      /\ heard[g] \in Nat /\ heard[g] <= Len(asked)
    BY JointFacts
<1>1. /\ UNCHANGED <<disk, game, clock, blobs>> /\ np[Host].xfer = "LOAD_APPLYING"
      /\ np'[Host].xfer = "LOAD_READY" /\ np'[Host].slot = np[Host].slot /\ ~np'[Host].synced
    BY <1>0, EnterMoves
<1>2. Phase = "LOAD_APPLYING" /\ Phase' = "LOAD_READY" /\ LoadOpen /\ LoadOpen'
    BY <1>1 DEF Phase, LoadOpen
<1>3. /\ File' = File /\ FileProbe' = FileProbe /\ FileBlob' = FileBlob /\ AllReady' = AllReady
    BY <1>1 DEF File, FileProbe, FileBlob, AllReady
<1>4. AllReady \in Probe /\ FileProbe \in Probe /\ Ask(AllReady)
    BY <1>0, <1>1, <1>2, LoadProbes DEF EnterReady, AllReady
<1>5. /\ Len(asked) \in Nat /\ Asked = 1 .. Len(asked) /\ Len(asked)' = Len(asked) + 1
      /\ \A i \in Asked : asked'[i] = asked[i]
    <2> DEFINE x == <<"PROBE", AllReady>>
    <2>1. x \in Exch /\ asked' = Append(asked, x)
        BY <1>4 DEF Ask, Exch
    <2> HIDE DEF x
    <2> QED BY <1>0, <2>1, AskedLonger
<1>6. (Same(g)' <=> Same(g)) /\ Spoken(g)' = Spoken(g)
    BY <1>1, GuestIs
<1>7. /\ np'[g] = np[g] /\ ss'[g] = ss[g] /\ disk'[g] = disk[g] /\ game'[g] = game[g]
      /\ rx'[g] = rx[g] /\ heard'[g] = heard[g]
      /\ \A yes \in BOOLEAN : Reply(g, FileProbe, yes) \in net' <=> Reply(g, FileProbe, yes) \in net
    BY <1>4 DEF GuestKept, Hushed
<1>8. CASE Getting(g)
    <2>1. Fetching(g) /\ heard[g] = Len(asked)
        BY <1>2, <1>8 DEF Getting, Lacking, Fetching
    <2>2. Fetching(g)'
        BY <1>1, <1>2, <1>3, <1>5, <1>7, <2>1 DEF Fetching
    <2>3. Getting(g)'
        BY <1>2, <1>6, <1>7, <1>8, <2>2 DEF Getting
    <2> QED BY <1>2, <2>3 DEF InStep, GuestLoads
<1>9. CASE Applying(g) \/ Applied(g)
    <2>0. Has(g)
        BY <1>9 DEF Applying, Applied
    <2>1. heard[g] = Len(asked) /\ heard[g] \in Asked
        <3>1. heard[g] = Len(asked) /\ heard[g] > 0
            BY <1>2, <2>0 DEF Has
        <3> QED BY <1>0, <1>5, <3>1
    <2>2. At(g)' = At(g) /\ heard'[g] = Len(asked)' - 1
        BY <1>5, <1>7, <2>1 DEF At
    <2>3. AllReady \notin Spoken(g)
        <3> SUFFICES ASSUME AllReady \in Spoken(g) PROVE FALSE
            OBVIOUS
        <3>1. PICK i \in 1 .. heard[g] : asked[i] = <<"PROBE", AllReady>>
            BY <1>0, SpokenHeard
        <3>2. i \in Asked
            BY <1>0, <1>5
        <3> QED BY <1>0, <1>1, <3>1, <3>2, NotAskedYet DEF AllReady
    <2>4. Has(g)'
        BY <1>1, <1>2, <1>3, <1>6, <1>7, <2>0, <2>1, <2>2, <2>3 DEF Has
    <2>5. Applying(g)' \/ Applied(g)'
        BY <1>1, <1>3, <1>7, <1>9, <2>4 DEF Applying, Applied
    <2> QED BY <1>2, <2>5 DEF InStep, GuestLoads
<1> QED BY <1>0, <1>2, <1>8, <1>9 DEF InStep, GuestLoads, Waiting, Synced

\* What an exchange that is asked for is to load from.
LEMMA LoadsOfAsk ==
    ASSUME LoopType, OrderInv, next_xfer_id \in Nat, NEW w \in Probe, Ask(w)
    PROVE  /\ Len(asked)' = Len(asked) + 1 /\ Len(asked) \in Nat /\ Asked = 1 .. Len(asked)
           /\ \A i \in Asked : asked'[i] = asked[i]
           /\ \A i \in Loads' : i \in Loads \/ (i = Len(asked)' /\ IsHash("LOAD", w))
<1> DEFINE x == <<"PROBE", w>>
<1>1. /\ x \in Exch /\ asked' = Append(asked, x) /\ UNCHANGED blobs
      /\ x[1] = "PROBE" /\ x[2] = w
    BY DEF Ask, Exch
<1> HIDE DEF x
<1>2. /\ Len(asked)' = Len(asked) + 1 /\ Len(asked) \in Nat /\ Asked = 1 .. Len(asked)
      /\ \A i \in Asked : asked'[i] = asked[i]
    BY <1>1, AskedLonger
<1>3. \A i \in Loads' :
         \/ i \in Loads
         \/ /\ i = Len(asked) + 1
            /\ \/ x[1] = "PROBE" /\ IsHash("LOAD", x[2])
               \/ x[1] = "XFER" /\ blobs'[x[2]].op = "LOAD"
    BY <1>1, LoadsMore
<1> QED BY <1>1, <1>2, <1>3

LEMMA LoadsOfSend ==
    ASSUME LoopType, OrderInv, next_xfer_id \in Nat, NEW op \in {"SRAM", "SAVE", "LOAD"},
           NEW s \in Saves \cup {0}, NEW c \in Nat, Send(op, s, c)
    PROVE  /\ Len(asked)' = Len(asked) + 1 /\ Len(asked) \in Nat /\ Asked = 1 .. Len(asked)
           /\ \A i \in Asked : asked'[i] = asked[i]
           /\ \A i \in 1 .. Len(blobs) : blobs'[i] = blobs[i]
           /\ \A i \in Loads' : i \in Loads \/ (i = Len(asked)' /\ op = "LOAD")
<1> DEFINE x == <<"XFER", next_xfer_id + 1>>
           b == [op |-> op, slot |-> s, data |-> c]
<1>1. /\ x \in Exch /\ asked' = Append(asked, x) /\ b \in Blob /\ blobs' = Append(blobs, b)
      /\ x[1] = "XFER" /\ x[2] = next_xfer_id + 1 /\ b.op = op
    BY DEF Send, Exch, Blob
<1> HIDE DEF x, b
<1>2. /\ Len(asked)' = Len(asked) + 1 /\ Len(asked) \in Nat /\ Asked = 1 .. Len(asked)
      /\ \A i \in Asked : asked'[i] = asked[i]
    BY <1>1, AskedLonger
<1>3. blobs'[next_xfer_id + 1] = b /\ \A i \in 1 .. Len(blobs) : blobs'[i] = blobs[i]
    BY <1>1, LongerBlobs DEF OrderInv, BlobsTrue
<1>4. \A i \in Loads' :
         \/ i \in Loads
         \/ /\ i = Len(asked) + 1
            /\ \/ x[1] = "PROBE" /\ IsHash("LOAD", x[2])
               \/ x[1] = "XFER" /\ blobs'[x[2]].op = "LOAD"
    BY <1>1, LoadsMore
<1> QED BY <1>1, <1>2, <1>3, <1>4

LEMMA InStepOfHostDrive ==
    ASSUME NEW g, JointStep(g), GuestKept(g),
           DriveCards \/ AbortSave \/ DriveSaveCoord \/ DriveSaveProbe \/ StartCards
    PROVE  InStep(g)'
<1>0. /\ LoopType /\ OrderInv /\ AskingInv /\ Host \in Slots /\ GeneralInv /\ next_xfer_id \in Nat
      /\ InStep(g) /\ heard[g] \in Nat /\ heard[g] <= Len(asked) /\ Len(asked) \in Nat
    BY JointFacts
<1>1. UNCHANGED <<game, clock>> /\ np'[Host].needs = np[Host].needs
    BY <1>0, DriveMoves
<1>2. StartOf(Host)' = StartOf(Host) /\ clock'[Host].epoch = clock[Host].epoch
    BY <1>1 DEF StartOf
<1>3. card[Host] \in Nat
    BY <1>0, LoopIs
<1>4. Phase \in {"SAVE_COORD", "SAVE_PROBE"} => np[Host].slot \in Saves /\ File \in Nat
    <2> SUFFICES ASSUME Phase \in {"SAVE_COORD", "SAVE_PROBE"}
                 PROVE  np[Host].slot \in Saves /\ File \in Nat
        OBVIOUS
    <2>1. np[Host].slot \in Saves
        BY <1>0 DEF AskingInv, SendTrue, Phase
    <2> QED BY <1>0, <2>1 DEF LoopType, File
<1>5. ASSUME Phase \in {"MC_PROBE", "SAVE_COORD", "SAVE_PROBE"}, ~LoadOpen', Loads' \subseteq Loads
      PROVE  InStep(g)'
    <2>1. ~LoadOpen
        BY <1>5 DEF LoadOpen
    <2>2. np[g].xfer # "LOAD_READY"
        BY <1>0, <1>5, <2>1 DEF InStep, GuestPlays
    <2> QED BY <1>2, <1>5, <2>1, <2>2, PlaysOn
<1>6. ASSUME UNCHANGED orderVars PROVE Loads' = Loads
    BY <1>6 DEF Loads, Asked, orderVars
<1>7. ASSUME np'[Host].xfer \in {"NONE", "MC_SEND", "SAVE_PROBE", "SAVE_SEND", "MC_PROBE"}
      PROVE  ~LoadOpen'
    BY <1>7 DEF LoadOpen, Phase
<1>8. CASE /\ Phase = "MC_PROBE"
           /\ \/ np'[Host].xfer = "NONE" /\ UNCHANGED orderVars
              \/ np'[Host].xfer = "MC_SEND" /\ Send("SRAM", 0, card[Host])
    <2>1. Send("SRAM", 0, card[Host]) => Loads' \subseteq Loads
        BY <1>0, <1>3, LoadsOfSend
    <2> QED BY <1>5, <1>6, <1>7, <1>8, <2>1
<1>9. CASE Phase = "SAVE_COORD" /\ np'[Host].xfer = "NONE" /\ UNCHANGED orderVars
    BY <1>5, <1>6, <1>7, <1>9
<1>10. CASE /\ Phase = "SAVE_COORD" /\ np'[Host].xfer = "SAVE_PROBE"
            /\ Ask(HashProbe("SAVE", np[Host].slot, File))
    <2>1. HashProbe("SAVE", np[Host].slot, File) \in Probe
        BY <1>4, <1>10, Askables
    <2>2. ~IsHash("LOAD", HashProbe("SAVE", np[Host].slot, File))
        BY DEF HashProbe, IsHash
    <2>3. Loads' \subseteq Loads
        BY <1>0, <1>10, <2>1, <2>2, LoadsOfAsk
    <2> QED BY <1>5, <1>7, <1>10, <2>3
<1>11. CASE /\ Phase = "SAVE_PROBE"
            /\ \/ np'[Host].xfer = "NONE" /\ UNCHANGED orderVars
               \/ np'[Host].xfer = "SAVE_SEND" /\ Send("SAVE", np[Host].slot, File)
    <2>1. Send("SAVE", np[Host].slot, File) => Loads' \subseteq Loads
        BY <1>0, <1>4, <1>11, LoadsOfSend
    <2> QED BY <1>5, <1>6, <1>7, <1>11, <2>1
<1>12. CASE /\ StartCards /\ np[Host].xfer = "NONE" /\ np'[Host].xfer = "MC_PROBE"
            /\ Ask(HashProbe("SRAM", 0, card[Host]))
    <2>2. HashProbe("SRAM", 0, card[Host]) \in Probe
          /\ ~IsHash("LOAD", HashProbe("SRAM", 0, card[Host]))
        BY <1>3 DEF HashProbe, Probe, IsHash
    <2>3. Loads' \subseteq Loads
        BY <1>0, <1>12, <2>2, LoadsOfAsk
    <2>4. Len(asked) = 0
        BY <1>0, <1>12, NotAskedYet
    <2>5. ~LoadOpen /\ np[g].xfer # "LOAD_READY"
        BY <1>0, <1>12, <2>4 DEF InStep, GuestPlays, LoadOpen, Phase
    <2> QED BY <1>2, <1>7, <1>12, <2>3, <2>5, PlaysOn
<1> QED BY <1>0, <1>8, <1>9, <1>10, <1>11, <1>12, DriveMoves DEF Answered, Phase

LEMMA InStepOfHostProbe ==
    ASSUME NEW g, JointStep(g), GuestKept(g), DriveLoadProbe
    PROVE  InStep(g)'
<1>0. /\ LoopType /\ OrderInv /\ Host \in Slots /\ GeneralInv /\ ~over /\ Guests = {g} /\ TypeOK
      /\ next_xfer_id \in Nat /\ HostLoads /\ InStep(g)
    BY JointFacts
<1>1. /\ np[Host].xfer = "LOAD_PROBE" /\ probe[Host].active /\ probe[Host].replied
      /\ UNCHANGED <<disk, card, game, clock>> /\ np'[Host].slot = np[Host].slot
    BY <1>0, LoadProbeMoves DEF Answered
<1>2. Phase = "LOAD_PROBE" /\ LoadOpen /\ asked # <<>> /\ Last = <<"PROBE", FileProbe>>
    BY <1>0, <1>1 DEF Phase, LoadOpen, HostLoads
<1>3. /\ heard[g] = Len(asked) /\ FileProbe \in Spoken(g)
      /\ Reply(g, FileProbe, probe[Host].match) \in net
    <2>1. /\ Last = <<"PROBE", probe[Host].what>> /\ heard[g] = Len(asked)
          /\ Reply(g, probe[Host].what, probe[Host].match) \in net
          /\ probe[Host].what \in Spoken(g)
        BY <1>0, <1>1, HostHears
    <2>2. probe[Host].what = FileProbe
        BY <1>2, <2>1
    <2> QED BY <2>1, <2>2
<1>4. probe[Host].match \in BOOLEAN /\ FileProbe \in Probe
    BY <1>0, <1>1, <1>2, ProbeActive, LoadProbes
<1>5. ~Waiting(g)
    BY <1>3 DEF Waiting
<1>6. CASE probe[Host].match
    <2>1. np'[Host].xfer = "LOAD_APPLYING" /\ UNCHANGED orderVars
        BY <1>0, <1>6, LoadProbeMoves
    <2>2. ~Lacking(g)
        <3>1. probe[Host].match = TRUE
            BY <1>4, <1>6
        <3> QED BY <1>3, <3>1 DEF Lacking
    <2> QED BY <1>1, <1>2, <1>3, <1>5, <2>1, <2>2, AppliesOn DEF Phase, orderVars
<1>7. CASE ~probe[Host].match
    <2>1. /\ Send("LOAD", np[Host].slot, File) /\ np'[Host].xfer = "LOAD_SEND"
          /\ np'[Host].needs = np[Host].needs
        BY <1>0, <1>7, LoadProbeMoves
    <2>2. StartOf(Host)' = StartOf(Host) /\ Phase' = "LOAD_SEND" /\ LoadOpen'
        BY <1>1, <2>1 DEF StartOf, Phase, LoadOpen
    <2>3. Len(asked)' = Len(asked) + 1 /\ Len(asked) \in Nat
        <3>1. np[Host].slot \in Saves \cup {0} /\ File \in Nat
            BY <1>0, <1>2, LoadProbes
        <3> QED BY <1>0, <2>1, <3>1, LoadsOfSend
    <2>4. FileProbe' = FileProbe
        BY <1>1 DEF FileProbe, File
    <2>5. (Same(g)' <=> Same(g)) /\ (Level(g)' <=> Level(g))
        BY <1>1, <2>2, GuestIs
    <2>6. /\ np'[g] = np[g] /\ probe'[g] = probe[g] /\ heard'[g] = heard[g]
          /\ Reply(g, FileProbe, TRUE) \in net' <=> Reply(g, FileProbe, TRUE) \in net
        BY <1>4 DEF GuestKept, Hushed
    <2>7. CASE Getting(g)
        <3>1. Lacking(g) /\ Level(g)
            BY <1>2, <2>7 DEF Getting, Fetching
        <3>2. heard'[g] = Len(asked)' - 1
            BY <1>3, <2>3, <2>6
        <3>3. Lacking(g)'
            BY <2>2, <2>4, <2>6, <3>1, <3>2 DEF Lacking
        <3>4. Getting(g)'
            BY <2>5, <2>6, <2>7, <3>1, <3>3 DEF Getting
        <3> QED BY <2>2, <3>4 DEF InStep, GuestLoads
    <2>8. ~Has(g)
        <3>1. At(g) = <<"PROBE", FileProbe>>
            BY <1>2, <1>3 DEF At, Last
        <3>2. probe[Host].match = FALSE
            BY <1>4, <1>7
        <3> QED BY <1>3, <3>1, <3>2 DEF Has
    <2> QED BY <1>0, <1>2, <1>5, <2>7, <2>8 DEF InStep, GuestLoads, Applying, Applied, Synced
<1> QED BY <1>6, <1>7

\* When the host takes the peers to be ready the guest has restored what it has.
LEMMA OnlySynced ==
    ASSUME GeneralInv, ~over, NEW g, Guests = {g}, Joint(g), Answered("LOAD_READY")
    PROVE  /\ Phase = "LOAD_READY" /\ ~np[Host].synced /\ LoadOpen /\ Synced(g)
           /\ game[Host] = File /\ Last = <<"PROBE", AllReady>> /\ asked # <<>>
<1>0. HostLoads /\ InStep(g) /\ Len(asked) \in Nat /\ heard[g] \in Nat
    BY Two DEF Joint
<1>1. Phase = "LOAD_READY" /\ probe[Host].active /\ probe[Host].replied
    BY DEF Answered, Phase
<1>2. ~np[Host].synced /\ game[Host] = File /\ Last = <<"PROBE", AllReady>> /\ asked # <<>>
    BY <1>0, <1>1 DEF HostLoads
<1>3. LoadOpen
    BY <1>1, <1>2 DEF LoadOpen
<1>4. heard[g] = Len(asked) /\ AllReady \in Spoken(g)
    <2>1. /\ Last = <<"PROBE", probe[Host].what>> /\ heard[g] = Len(asked)
          /\ probe[Host].what \in Spoken(g)
        BY <1>1, HostHears
    <2>2. probe[Host].what = AllReady
        BY <1>2, <2>1
    <2> QED BY <2>1, <2>2
<1>5. ~Waiting(g)
    BY <1>1 DEF Waiting
<1>6. ~Getting(g)
    <2>1. heard[g] # Len(asked) - 1
        BY <1>0, <1>4
    <2> QED BY <1>1, <2>1 DEF Getting, Lacking, Fetching
<1>7. ~Has(g)
    BY <1>1, <1>4 DEF Has
<1> QED BY <1>0, <1>1, <1>2, <1>3, <1>5, <1>6, <1>7 DEF InStep, GuestLoads, Applying, Applied

LEMMA InStepOfHostCommit ==
    ASSUME NEW g, JointStep(g), GuestKept(g), DriveLoadReady
    PROVE  InStep(g)'
<1>0. /\ LoopType /\ Host \in Slots /\ GeneralInv /\ ~over /\ Guests = {g} /\ Joint(g)
      /\ Len(asked) \in Nat /\ Asked = 1 .. Len(asked)
    BY JointFacts
<1>1. /\ Answered("LOAD_READY") /\ UNCHANGED <<disk, game, orderVars>>
      /\ np'[Host].xfer = "LOAD_READY" /\ np'[Host].synced /\ np'[Host].slot = np[Host].slot
      /\ ~np[Host].synced => /\ ~np'[Host].needs /\ clock'[Host].sim = 0
                             /\ clock'[Host].epoch = clock[Host].epoch + 1
    BY <1>0, LoadReadyMoves
<1>2. /\ Phase = "LOAD_READY" /\ ~np[Host].synced /\ Synced(g) /\ LoadOpen
      /\ game[Host] = File /\ Last = <<"PROBE", AllReady>> /\ asked # <<>>
    BY <1>0, <1>1, OnlySynced
<1>3. Phase' = "LOAD_READY" /\ ~LoadOpen'
    BY <1>1 DEF Phase, LoadOpen
<1>4. /\ np'[g] = np[g] /\ game'[g] = game[g] /\ clock'[g] = clock[g] /\ heard'[g] = heard[g]
      /\ UNCHANGED <<asked, blobs>>
    BY <1>1 DEF GuestKept, orderVars
<1>5. Level(g)'
    <2>1. StartOf(g)' = File - 0 - 0
        BY <1>2, <1>4 DEF StartOf, Synced
    <2>2. StartOf(Host)' = File - 0 - 0
        BY <1>1, <1>2 DEF StartOf
    <2>3. Same(g)'
        BY <1>1, <1>2, <1>4 DEF Same, Synced
    <2> QED BY <2>1, <2>2, <2>3 DEF Level
<1>6. heard'[g] = Len(asked)' /\ Len(asked)' = Len(asked) /\ Len(asked) > 0
    BY <1>0, <1>2, <1>4, AskedIs DEF Synced
<1>7. At(g)' = <<"PROBE", AllReady>>
    BY <1>2, <1>4 DEF At, Last, Synced
<1>8. IsReady(AllReady) /\ ~IsHash("LOAD", AllReady)
    BY DEF IsReady, IsHash, AllReady, ReadyProbe
<1>9. \A i \in Loads' : i < heard'[g]
    <2> SUFFICES ASSUME NEW i \in Loads' PROVE i # Len(asked) /\ i \in 1 .. Len(asked)
        BY <1>0, <1>6
    <2>1. asked[Len(asked)] = <<"PROBE", AllReady>>
        BY <1>2 DEF Last
    <2>2. i # Len(asked)
        BY <1>4, <1>8, <2>1 DEF Loads
    <2> QED BY <1>0, <1>4, <2>2 DEF Loads, Asked
<1>10. np'[g].xfer = "LOAD_READY" /\ np'[g].synced
    BY <1>2, <1>4 DEF Synced
<1>11. GuestPlays(g)'
    BY <1>0, <1>3, <1>5, <1>6, <1>7, <1>8, <1>9, <1>10 DEF GuestPlays
<1> QED BY <1>3, <1>11 DEF InStep

LEMMA InStepOfHostAsks ==
    ASSUME NEW g, JointStep(g), GuestKept(g), Patient, NEW s \in Saves, AskSave(s) \/ AskLoad(s)
    PROVE  InStep(g)'
<1>0. /\ LoopType /\ OrderInv /\ AskingInv /\ Host \in Slots /\ g \in Guests /\ g # Host /\ TypeOK
      /\ InStep(g) /\ next_xfer_id \in Nat /\ heard[g] \in Nat /\ Asked = 1 .. Len(asked)
      /\ heard[g] <= Len(asked) /\ Len(asked) \in Nat
    BY JointFacts
<1>1. /\ MayAsk /\ np[Host].xfer = "NONE" /\ UNCHANGED <<disk, game, clock>>
      /\ np'[Host].slot = s /\ np'[Host].needs = np[Host].needs
    BY <1>0, AskMoves
<1>2. StartOf(Host)' = StartOf(Host) /\ clock'[Host].epoch = clock[Host].epoch
    BY <1>1 DEF StartOf
<1>3. np[g].xfer = "NONE" /\ ~LoadOpen /\ GuestPlays(g)
    <2>1. np[g].xfer = "NONE" /\ ~LoadOpen
        BY <1>0, <1>1 DEF MayAsk, LoadOpen, Phase
    <2> QED BY <1>0, <2>1 DEF InStep
<1>4. clock[Host].sim + Delay + 2 \in Nat /\ disk[Host][s] \in Nat
    <2>1. clock[Host].sim \in Nat /\ disk[Host] \in [Saves -> Nat]
        BY <1>0, LoopIs
    <2> QED BY <2>1, ConstantsType
<1> DEFINE c == CoordProbe(s, clock[Host].sim + Delay + 2)
           w == HashProbe("LOAD", s, disk[Host][s])
<1>5. c \in Probe /\ ~IsHash("LOAD", c) /\ w \in Probe
    <2>1. ~IsHash("LOAD", c)
        BY DEF CoordProbe, IsHash
    <2> QED BY <1>4, <2>1, Askables
<1> HIDE DEF c, w
<1>6. \/ np'[Host].xfer = "SAVE_COORD" /\ Ask(c)
      \/ np'[Host].xfer = "LOAD_PROBE" /\ AskLoad(s) /\ Ask(w)
    BY <1>0, AskMoves DEF c, w
<1>7. CASE np'[Host].xfer = "SAVE_COORD" /\ Ask(c)
    <2>1. Loads' \subseteq Loads
        BY <1>0, <1>5, <1>7, LoadsOfAsk
    <2>2. ~LoadOpen'
        BY <1>7 DEF LoadOpen, Phase
    <2> QED BY <1>2, <1>3, <2>1, <2>2, PlaysOn
<1>8. CASE np'[Host].xfer = "LOAD_PROBE" /\ AskLoad(s) /\ Ask(w)
    <2>1. \A i \in Loads' : i \in Loads \/ i = Len(asked)'
        BY <1>0, <1>5, <1>8, LoadsOfAsk
    <2>2. (Level(g)' <=> Level(g)) /\ Spoken(g)' = Spoken(g) /\ np'[g] = np[g] /\ heard'[g] = heard[g]
        BY <1>2, GuestIs DEF GuestKept
    <2>3. \A i \in Loads' : i >= heard'[g] => i = Len(asked)'
        <3>1. \A i \in Loads : i < heard[g] /\ i \in Nat
            BY <1>0, <1>3 DEF GuestPlays, Loads
        <3> QED BY <1>0, <2>1, <2>2, <3>1
    <2>4. FileProbe' = w
        BY <1>1 DEF FileProbe, File, w
    <2>5. w \notin Spoken(g)
        <3> SUFFICES ASSUME w \in Spoken(g) PROVE FALSE
            OBVIOUS
        <3>1. PICK i \in 1 .. heard[g] : asked[i] = <<"PROBE", w>>
            BY <1>0, SpokenHeard
        <3>2. i \in Asked
            BY <1>0
        <3> QED BY <1>0, <1>8, <3>1, <3>2, NotAskedYet DEF w
    <2>6. Waiting(g)'
        BY <1>3, <1>8, <2>2, <2>3, <2>4, <2>5 DEF Waiting, GuestPlays, Phase
    <2>7. LoadOpen'
        BY <1>8 DEF LoadOpen, Phase
    <2> QED BY <2>6, <2>7 DEF InStep, GuestLoads
<1> QED BY <1>6, <1>7, <1>8

LEMMA InStepOfHost ==
    ASSUME NEW g, JointStep(g), HostActs, GuestKept(g), Patient
    PROVE  InStep(g)'
<1>1. CASE LoopStep(Host)
    BY <1>1, InStepOfHostFrame, InStepOfHostApply, InStepOfHostReady, JointFacts DEF LoopStep, AbortLoad
<1>2. CASE \E s \in Saves : AskSave(s) \/ AskLoad(s)
    BY <1>2, InStepOfHostAsks
<1> QED BY <1>1, <1>2, InStepOfHostDrive, InStepOfHostProbe, InStepOfHostCommit DEF HostActs, HostDriveXfer

-----------------------------------------------------------------------------
(* Where the guest is: its own steps *)

\* What a step of the guest leaves of the host.
LEMMA GuestView ==
    ASSUME NEW g, JointStep(g), LoopStep(g) \/ GuestHandleProbe(g)
    PROVE  /\ Phase' = Phase /\ (LoadOpen' <=> LoadOpen) /\ File' = File
           /\ FileProbe' = FileProbe /\ FileBlob' = FileBlob /\ AllReady' = AllReady
           /\ Len(asked)' = Len(asked) /\ Loads' = Loads /\ Last' = Last
           /\ heard'[g] = heard[g] /\ At(g)' = At(g) /\ np'[Host].slot = np[Host].slot
           /\ StartOf(Host)' = StartOf(Host) /\ clock'[Host] = clock[Host]
           /\ UNCHANGED <<blobs, asked>>
<1>1. HostKept /\ heard' = heard
    BY JointFacts, GuestLoop, GuestAnswers
<1>2. /\ Phase' = Phase /\ (LoadOpen' <=> LoadOpen) /\ File' = File
      /\ FileProbe' = FileProbe /\ FileBlob' = FileBlob /\ AllReady' = AllReady
      /\ Len(asked)' = Len(asked) /\ Loads' = Loads /\ Last' = Last
    BY <1>1, ViewKept DEF HostKept
<1>3. StartOf(Host)' = StartOf(Host)
    BY <1>1 DEF StartOf, HostKept
<1>4. At(g)' = At(g)
    BY <1>1 DEF At, HostKept
<1> QED BY <1>1, <1>2, <1>3, <1>4 DEF HostKept

\* A step in which the guest's loop stays in its phase, and its game is as before.
LEMMA GuestStays ==
    ASSUME NEW g, JointStep(g), LoopStep(g), UNCHANGED rx,
           np'[g].xfer = np[g].xfer, np'[g].synced = np[g].synced,
           clock'[g].epoch = clock[g].epoch, StartOf(g)' = StartOf(g),
           LoadOpen /\ np[g].xfer \in {"LOAD_APPLYING", "LOAD_READY"} =>
              /\ ss'[g] = ss[g] /\ disk'[g] = disk[g]
              /\ np[g].xfer = "LOAD_READY" \/ ss[g].loaded => game'[g] = game[g],
           Synced(g) => clock'[g].sim = clock[g].sim /\ ~np'[g].needs
    PROVE  InStep(g)'
<1>0. InStep(g) /\ UNCHANGED <<probe, net>>
    BY JointFacts, GuestLoop
<1>1. /\ Phase' = Phase /\ (LoadOpen' <=> LoadOpen) /\ File' = File
      /\ FileProbe' = FileProbe /\ FileBlob' = FileBlob /\ AllReady' = AllReady
      /\ Len(asked)' = Len(asked) /\ Loads' = Loads
      /\ heard'[g] = heard[g] /\ At(g)' = At(g) /\ np'[Host].slot = np[Host].slot
      /\ StartOf(Host)' = StartOf(Host) /\ clock'[Host] = clock[Host] /\ UNCHANGED blobs
    BY GuestView
<1>2. (Same(g)' <=> Same(g)) /\ (Level(g)' <=> Level(g)) /\ Spoken(g)' = Spoken(g)
    BY <1>0, <1>1 DEF Same, Level, Spoken
<1>3. CASE ~LoadOpen
    BY <1>0, <1>1, <1>2, <1>3 DEF InStep, GuestPlays
<1>4. CASE LoadOpen
    <2>1. Waiting(g) => Waiting(g)'
        BY <1>1, <1>2 DEF Waiting
    <2>2. (Lacking(g) => Lacking(g)') /\ (Fetching(g) => Fetching(g)')
        BY <1>0, <1>1 DEF Lacking, Fetching
    <2>3. Getting(g) => Getting(g)'
        BY <1>1, <1>2, <2>2 DEF Getting
    <2>4. Has(g) /\ np[g].xfer \in {"LOAD_APPLYING", "LOAD_READY"} => Has(g)'
        BY <1>0, <1>1, <1>2, <1>4 DEF Has
    <2>5. (Applying(g) => Applying(g)') /\ (Applied(g) => Applied(g)')
        BY <1>1, <1>4, <2>4 DEF Applying, Applied
    <2>6. Synced(g) => Synced(g)'
        BY <1>1, <1>4 DEF Synced
    <2> QED BY <1>0, <1>1, <1>4, <2>1, <2>3, <2>5, <2>6 DEF InStep, GuestLoads
<1> QED BY <1>3, <1>4

LEMMA InStepOfPoll ==
    ASSUME NEW g, JointStep(g), Poll(g)
    PROVE  InStep(g)'
<1>0. /\ LoopType /\ MarksTrue /\ LaterUnused /\ g \in Slots /\ Host \in Slots /\ g # Host /\ RequestsOf(g)
      /\ InStep(g) /\ LoopStep(g) /\ Guests = {g} /\ GeneralInv /\ ~over
    BY JointFacts, Two DEF InputInv, LoopStep
<1>1. /\ UNCHANGED <<disk, card, orderVars, sessionVars>>
      /\ np[g].xfer = "LOAD_READY" => np[g].synced
      /\ np[g].xfer = "LOAD_APPLYING" => Pending(g)
      /\ clock'[g].sim = clock[g].sim /\ clock'[g].epoch = clock[g].epoch
      /\ \/ np'[g].xfer = np[g].xfer /\ np'[g].synced = np[g].synced
         \/ np[g].xfer = "LOAD_READY" /\ np'[g].xfer = "NONE" /\ np'[g].needs
      /\ \/ /\ np'[g].needs /\ game'[g] = game[g] + 1
            /\ \A q \in Others(g) : sampled[q][clock[g].epoch] >= clock[g].sim
         \/ ~np'[g].needs /\ game'[g] = game[g]
      /\ StartOf(g)' = StartOf(g)
      /\ np[g].xfer # "SAVE_COORD" => ss' = ss
    BY <1>0, PollMoves DEF DueToStage
<1>2. UNCHANGED rx
    BY <1>1 DEF sessionVars, transferVars
<1>3. np[g].xfer = "LOAD_APPLYING" => ~ss[g].loaded
    BY <1>0, <1>1 DEF RequestsOf, Pending
<1>4. LoadOpen /\ np[g].xfer = "LOAD_READY" => Synced(g)
    <2> SUFFICES ASSUME LoadOpen, np[g].xfer = "LOAD_READY" PROVE Synced(g)
        OBVIOUS
    <2>1. np[g].synced
        BY <1>1
    <2> QED BY <1>0, <2>1 DEF InStep, GuestLoads, Waiting, Getting, Applying, Applied, Has
<1>5. Synced(g) => ~np'[g].needs /\ game'[g] = game[g]
    <2> SUFFICES ASSUME Synced(g) PROVE ~(\A q \in Others(g) : sampled[q][clock[g].epoch] >= clock[g].sim)
        BY <1>1
    <2>1. Host \in Others(g)
        BY <1>0 DEF Others
    <2>2. /\ clock[g].epoch \in 0 .. MaxEpoch /\ clock[g].epoch > clock[Host].epoch
          /\ clock[g].sim = 0
        <3>1. clock[g].epoch \in 0 .. MaxEpoch /\ clock[Host].epoch \in Nat
            BY <1>0, LoopIs
        <3>2. clock[g].epoch = clock[Host].epoch + 1 /\ clock[g].sim = 0
            BY DEF Synced
        <3> QED BY <3>1, <3>2
    <2>3. sampled[Host][clock[g].epoch] = -1
        BY <1>0, <2>2 DEF LaterUnused
    <2>4. ~(-1 >= 0)
        OBVIOUS
    <2> QED BY <2>1, <2>2, <2>3, <2>4
<1>6. CASE np'[g].xfer = np[g].xfer /\ np'[g].synced = np[g].synced
    BY <1>0, <1>1, <1>2, <1>3, <1>4, <1>5, <1>6, GuestStays
<1>7. CASE np[g].xfer = "LOAD_READY" /\ np'[g].xfer = "NONE" /\ np'[g].needs
    <2>1. ~LoadOpen
        BY <1>4, <1>5, <1>7
    <2>2. /\ Level(g) /\ (\A i \in Loads : i < heard[g])
          /\ (LoadOpen' <=> LoadOpen) /\ Loads' = Loads /\ heard'[g] = heard[g]
          /\ StartOf(Host)' = StartOf(Host) /\ clock'[Host] = clock[Host]
        BY <1>0, <2>1, GuestView DEF InStep, GuestPlays
    <2>3. Level(g)'
        BY <1>1, <2>2 DEF Level, Same
    <2> QED BY <1>7, <2>1, <2>2, <2>3 DEF InStep, GuestPlays
<1> QED BY <1>1, <1>6, <1>7

LEMMA InStepOfFrame ==
    ASSUME NEW g, JointStep(g), FinishFrame(g) \/ PollSave(g) \/ MaybeStageTargetSave(g)
    PROVE  InStep(g)'
<1>0. LoopType /\ g \in Slots /\ RequestsOf(g) /\ LoopStep(g)
    BY JointFacts DEF LoopStep
<1>1. CASE FinishFrame(g)
    <2>1. /\ UNCHANGED <<ss, disk, game, sessionVars>>
          /\ np'[g].xfer = np[g].xfer /\ np'[g].synced = np[g].synced /\ ~np'[g].needs
          /\ clock'[g].epoch = clock[g].epoch /\ StartOf(g)' = StartOf(g)
          /\ ~np[g].needs => clock'[g].sim = clock[g].sim
        BY <1>0, <1>1, FrameMoves
    <2>2. UNCHANGED rx
        BY <2>1 DEF sessionVars, transferVars
    <2>3. Synced(g) => ~np[g].needs
        BY DEF Synced
    <2> QED BY <1>0, <2>1, <2>2, <2>3, GuestStays
<1>2. CASE PollSave(g)
    <2>1. UNCHANGED <<np, game, clock, sessionVars>> /\ np[g].xfer = "SAVE_COORD"
        BY <1>0, <1>2, SaveMoves DEF RequestsOf
    <2>2. UNCHANGED rx /\ StartOf(g)' = StartOf(g)
        BY <2>1 DEF sessionVars, transferVars, StartOf
    <2>3. ~Synced(g)
        BY <2>1 DEF Synced
    <2> QED BY <1>0, <2>1, <2>2, <2>3, GuestStays
<1>3. CASE MaybeStageTargetSave(g)
    <2>1. /\ UNCHANGED <<game, clock, sessionVars>> /\ np[g].xfer = "SAVE_COORD"
          /\ np'[g].xfer = np[g].xfer /\ np'[g].synced = np[g].synced
          /\ StartOf(g)' = StartOf(g)
        BY <1>0, <1>3, StageMoves
    <2>2. UNCHANGED rx
        BY <2>1 DEF sessionVars, transferVars
    <2>3. ~Synced(g)
        BY <2>1 DEF Synced
    <2> QED BY <1>0, <2>1, <2>2, <2>3, GuestStays
<1> QED BY <1>1, <1>2, <1>3

\* What a guest restores is what the host has.
LEMMA InStepOfLoad ==
    ASSUME NEW g, JointStep(g), PollLoad(g)
    PROVE  InStep(g)'
<1>0. LoopType /\ g \in Slots /\ RequestsOf(g) /\ LoopStep(g) /\ InStep(g)
    BY JointFacts DEF LoopStep
<1>1. /\ UNCHANGED <<np, disk, clock, orderVars, sessionVars>>
      /\ ss[g].load # <<>> /\ ss'[g].load = <<>>
      /\ \/ ss'[g].loaded /\ game'[g] = Restored(g)
         \/ ss'[g].loaded = ss[g].loaded /\ game'[g] = game[g]
    BY <1>0, LoadMoves
<1>2. np[g].xfer = "LOAD_APPLYING"
    BY <1>0, <1>1 DEF RequestsOf
<1>3. LoadOpen /\ Applying(g)
    BY <1>0, <1>2 DEF InStep, GuestPlays, GuestLoads, Waiting, Getting, Applied, Synced
<1>4. Restored(g) = File
    <2>1. CASE ss[g].load = <<"BLOB", File>>
        BY <2>1 DEF Restored
    <2>2. CASE ss[g].load = <<"SLOT", np[Host].slot>> /\ disk[g][np[Host].slot] = File
        BY <2>2 DEF Restored
    <2> QED BY <1>1, <1>3, <2>1, <2>2 DEF Applying
<1>5. /\ Phase' = Phase /\ (LoadOpen' <=> LoadOpen) /\ File' = File
      /\ FileProbe' = FileProbe /\ AllReady' = AllReady
      /\ Len(asked)' = Len(asked) /\ heard'[g] = heard[g] /\ At(g)' = At(g)
      /\ np'[Host].slot = np[Host].slot
    BY <1>0, GuestView
<1>6. (Same(g)' <=> Same(g)) /\ Spoken(g)' = Spoken(g) /\ UNCHANGED <<rx, net>>
    BY <1>1 DEF Same, Spoken, sessionVars, transferVars
<1>7. Has(g)'
    BY <1>1, <1>3, <1>5, <1>6 DEF Has, Applying
<1>8. Applying(g)'
    <2>1. ss'[g].loaded => game'[g] = File
        BY <1>1, <1>3, <1>4 DEF Applying
    <2> QED BY <1>1, <1>2, <1>5, <1>7, <2>1 DEF Applying
<1> QED BY <1>3, <1>5, <1>8 DEF InStep, GuestLoads

LEMMA InStepOfApply ==
    ASSUME NEW g, JointStep(g), ApplyReady(g)
    PROVE  InStep(g)'
<1> DEFINE b == blobs[rx[g].id]
<1>0. /\ LoopType /\ OrderInv /\ TypeOK /\ next_xfer_id \in Nat /\ g \in Slots /\ g # Host
      /\ g \in Guests /\ LoopStep(g) /\ InStep(g) /\ GeneralInv /\ ~over /\ Guests = {g} /\ Joint(g)
      /\ heard[g] \in Nat /\ Len(asked) \in Nat /\ HostLoads
    BY JointFacts DEF LoopStep
<1>1. /\ rx[g].active /\ GuestFinish(g) /\ UNCHANGED <<game, clock, orderVars>>
      /\ \/ b.op = "SRAM" /\ np'[g].xfer = "NONE" /\ ~np'[g].needs
         \/ b.op = "SAVE" /\ np'[g].xfer = "NONE" /\ np'[g].needs = np[g].needs
         \/ /\ b.op = "LOAD" /\ np'[g].xfer = "LOAD_APPLYING" /\ ~np'[g].synced
            /\ ss'[g].load = <<"BLOB", b.data>> /\ ~ss'[g].loaded
    BY <1>0, ApplyMoves
<1>2. /\ At(g) = <<"XFER", rx[g].id>> /\ heard[g] \in Asked
      /\ b.op = "SRAM" => ~np[g].needs
      /\ \/ ~LoadOpen /\ GuestPlays(g) /\ b.op # "LOAD"
         \/ LoadOpen /\ Waiting(g) /\ b.op # "LOAD"
         \/ LoadOpen /\ Getting(g) /\ Fetching(g) /\ b = FileBlob
    BY <1>0, <1>1, GuestReceived
<1> HIDE DEF b
<1>3. /\ Phase' = Phase /\ (LoadOpen' <=> LoadOpen) /\ File' = File
      /\ FileProbe' = FileProbe /\ AllReady' = AllReady
      /\ Len(asked)' = Len(asked) /\ Loads' = Loads
      /\ heard'[g] = heard[g] /\ At(g)' = At(g) /\ np'[Host].slot = np[Host].slot
      /\ StartOf(Host)' = StartOf(Host) /\ clock'[Host] = clock[Host]
    BY <1>0, GuestView
<1>4. /\ UNCHANGED net /\ ~rx'[g].active
    <2>1. rx' = [rx EXCEPT ![g] = Nothing]
        BY <1>1 DEF GuestFinish
    <2>2. rx'[g] = Nothing
        BY <1>0, <2>1 DEF TypeOK
    <2> QED BY <1>0, <2>2, GuestLoop, JointFacts DEF Nothing
<1>5. Spoken(g)' = Spoken(g) /\ (Same(g)' <=> Same(g))
    BY <1>1, <1>4 DEF Spoken, Same
<1>6. CASE b.op # "LOAD"
    <2>1. np'[g].xfer = "NONE" /\ np'[g].needs = np[g].needs
        <3>1. LoopType /\ LoopType'
            BY <1>0, JointFacts DEF JointStep, GeneralInv
        <3>2. np[g].needs \in BOOLEAN /\ np'[g].needs \in BOOLEAN
            BY <1>0, <3>1 DEF LoopType, Loop
        <3> QED BY <1>1, <1>2, <1>6, <3>2
    <2>2. StartOf(g)' = StartOf(g)
        BY <1>1, <2>1 DEF StartOf
    <2>3. Level(g)' <=> Level(g)
        BY <1>3, <1>5, <2>2 DEF Level
    <2>4. CASE ~LoadOpen /\ GuestPlays(g)
        BY <1>3, <2>1, <2>3, <2>4 DEF InStep, GuestPlays
    <2>5. CASE LoadOpen /\ Waiting(g)
        <3>1. Waiting(g)'
            BY <1>3, <1>5, <2>1, <2>3, <2>5 DEF Waiting
        <3> QED BY <1>3, <2>5, <3>1 DEF InStep, GuestLoads
    <2>6. CASE b = FileBlob
        BY <1>6, <2>6 DEF FileBlob
    <2> QED BY <1>2, <2>4, <2>5, <2>6
<1>7. CASE b.op = "LOAD"
    <2>1. LoadOpen /\ Getting(g) /\ Fetching(g) /\ b = FileBlob
        BY <1>2, <1>7
    <2>2. b.data = File
        BY <2>1 DEF FileBlob
    <2>3. Phase = "LOAD_READY" => AllReady \notin Spoken(g)
        <3> SUFFICES ASSUME Phase = "LOAD_READY", AllReady \in Spoken(g) PROVE FALSE
            OBVIOUS
        <3>1. PICK i \in 1 .. heard[g] : asked[i] = <<"PROBE", AllReady>>
            BY <1>0, SpokenHeard
        <3>2. asked[Len(asked)] = <<"PROBE", AllReady>>
            BY <1>0 DEF HostLoads, Last
        <3>3. heard[g] = Len(asked)
            BY <1>0, <3>1, <3>2, LastHeard
        <3>4. heard[g] = Len(asked) - 1
            BY <2>1 DEF Fetching
        <3> QED BY <1>0, <3>3, <3>4
    <2>4. heard[g] > 0 /\ At(g)[1] = "XFER" /\ At(g) # <<"PROBE", FileProbe>>
        BY <1>0, <1>2, JointFacts
    <2>5. heard[g] = Len(asked) \/ (Phase = "LOAD_READY" /\ heard[g] = Len(asked) - 1)
        BY <2>1 DEF Fetching
    <2>6. Same(g)
        BY <2>1 DEF Getting
    <2>7. Has(g)'
        BY <1>1, <1>3, <1>4, <1>5, <1>7, <2>3, <2>4, <2>5, <2>6 DEF Has
    <2>8. Applying(g)'
        BY <1>1, <1>3, <1>7, <2>2, <2>7 DEF Applying
    <2> QED BY <1>3, <2>1, <2>8 DEF InStep, GuestLoads
<1> QED BY <1>6, <1>7

LEMMA InStepOfEnter ==
    ASSUME NEW g, JointStep(g), EnterReady(g)
    PROVE  InStep(g)'
<1>0. LoopType /\ g \in Slots /\ g # Host /\ LoopStep(g) /\ InStep(g)
    BY JointFacts DEF LoopStep
<1>1. /\ UNCHANGED <<disk, game, clock>> /\ np[g].xfer = "LOAD_APPLYING" /\ ss[g].loaded
      /\ np'[g].xfer = "LOAD_READY" /\ ~np'[g].synced
    BY <1>0, EnterMoves
<1>2. UNCHANGED <<rx, net>>
    BY <1>0 DEF EnterReady, sessionVars, transferVars
<1>3. LoadOpen /\ Applying(g)
    BY <1>0, <1>1 DEF InStep, GuestPlays, GuestLoads, Waiting, Getting, Applied, Synced
<1>4. /\ Phase' = Phase /\ (LoadOpen' <=> LoadOpen) /\ File' = File
      /\ FileProbe' = FileProbe /\ AllReady' = AllReady
      /\ Len(asked)' = Len(asked) /\ heard'[g] = heard[g] /\ At(g)' = At(g)
      /\ np'[Host].slot = np[Host].slot /\ clock'[Host] = clock[Host]
    BY <1>0, GuestView
<1>5. Spoken(g)' = Spoken(g) /\ (Same(g)' <=> Same(g))
    BY <1>1, <1>2 DEF Spoken, Same
<1>6. Has(g)'
    BY <1>1, <1>2, <1>3, <1>4, <1>5 DEF Has, Applying
<1>7. game'[g] = File
    BY <1>1, <1>3 DEF Applying
<1>8. Applied(g)'
    BY <1>1, <1>4, <1>6, <1>7 DEF Applied
<1> QED BY <1>3, <1>4, <1>8 DEF InStep, GuestLoads

LEMMA InStepOfLoop ==
    ASSUME NEW g, JointStep(g), LoopStep(g)
    PROVE  InStep(g)'
<1>1. ~over'
    BY JointFacts
<1> QED BY <1>1, InStepOfPoll, InStepOfFrame, InStepOfLoad, InStepOfApply, InStepOfEnter
        DEF LoopStep, AbortLoad

-----------------------------------------------------------------------------
(* Where the guest is: its answers *)

\* What it answers is what it has heard of last, and leaves the rest.
LEMMA AnswerIs ==
    ASSUME NEW g, JointStep(g), GuestHandleProbe(g)
    PROVE  LET w == probe[g].what
           IN  /\ UNCHANGED <<heard, rx, game, disk>> /\ probe[g].active /\ probe[g].pending
               /\ w \in Probe /\ Askable(w) /\ ~rx[g].active /\ heard[g] > 0
               /\ At(g) = <<"PROBE", w>>
               /\ \A v \in Probe : v # w => (v \in Spoken(g)' <=> v \in Spoken(g))
<1> DEFINE w == probe[g].what
<1>0. GeneralInv /\ ~over /\ Guests = {g}
    BY JointFacts
<1>1. /\ UNCHANGED <<heard, rx, game, disk>> /\ probe[g].active /\ w \in Probe /\ Askable(w)
      /\ ~rx[g].active /\ heard[g] > 0 /\ At(g) = <<"PROBE", w>>
      /\ \/ ArmSave(g) /\ UNCHANGED <<net, probe>>
         \/ \E yes \in BOOLEAN : ProbeReply(g, yes) /\ probe[g].pending /\ net' = net \cup {Reply(g, w, yes)}
    BY <1>0, GuestAnswers
<1>2. probe[g].pending
    BY <1>1 DEF ArmSave
<1>3. \A v \in Probe : v # w => (v \in Spoken(g)' <=> v \in Spoken(g))
    <2>1. CASE UNCHANGED net
        BY <2>1 DEF Spoken
    <2>2. ASSUME NEW yes \in BOOLEAN, net' = net \cup {Reply(g, w, yes)}
          PROVE  \A v \in Probe : v # w => (v \in Spoken(g)' <=> v \in Spoken(g))
        <3> HIDE DEF w
        <3>1. Spoken(g)' = Spoken(g) \cup {w}
            BY <1>1, <2>2, SpokenMore
        <3> QED BY <3>1
    <2> QED BY <1>1, <2>1, <2>2
<1> HIDE DEF w
<1> QED BY <1>1, <1>2, <1>3 DEF w

LEMMA PlaysAnswer ==
    ASSUME NEW g, JointStep(g), GuestHandleProbe(g), GuestPlays(g), ~LoadOpen,
           UNCHANGED clock, np'[g].needs = np[g].needs,
           \/ np'[g].xfer \in {"NONE", "SAVE_COORD", "SAVE_SEND"}
           \/ np[g].xfer = "LOAD_READY" /\ np'[g].xfer = "LOAD_READY" /\ np'[g].synced
    PROVE  InStep(g)'
<1>1. /\ Phase' = Phase /\ (LoadOpen' <=> LoadOpen)
      /\ Len(asked)' = Len(asked) /\ Loads' = Loads
      /\ heard'[g] = heard[g] /\ At(g)' = At(g) /\ StartOf(Host)' = StartOf(Host)
    BY GuestView
<1>2. UNCHANGED game
    BY AnswerIs
<1>3. StartOf(g)' = StartOf(g) /\ (Same(g)' <=> Same(g))
    BY <1>2 DEF StartOf, Same
<1>4. Level(g)'
    BY <1>1, <1>3 DEF GuestPlays, Level
<1>5. GuestPlays(g)'
    BY <1>1, <1>4 DEF GuestPlays
<1> QED BY <1>1, <1>5 DEF InStep

LEMMA WaitsAnswer ==
    ASSUME NEW g, JointStep(g), GuestHandleProbe(g), Waiting(g), LoadOpen,
           UNCHANGED clock, np'[g].needs = np[g].needs, np'[g].xfer \in {"NONE", "SAVE_SEND"},
           probe[g].what # FileProbe
    PROVE  InStep(g)'
<1>1. /\ Phase' = Phase /\ (LoadOpen' <=> LoadOpen) /\ FileProbe' = FileProbe
      /\ Len(asked)' = Len(asked) /\ Loads' = Loads
      /\ heard'[g] = heard[g] /\ At(g)' = At(g) /\ StartOf(Host)' = StartOf(Host)
    BY GuestView
<1>2. UNCHANGED game /\ \A v \in Probe : v # probe[g].what => (v \in Spoken(g)' <=> v \in Spoken(g))
    BY AnswerIs
<1>3. StartOf(g)' = StartOf(g) /\ (Same(g)' <=> Same(g))
    BY <1>2 DEF StartOf, Same
<1>4. Level(g)'
    BY <1>1, <1>3 DEF Waiting, Level
<1>5. FileProbe \in Probe
    BY JointFacts, LoadProbes
<1>6. FileProbe \notin Spoken(g)'
    BY <1>2, <1>5 DEF Waiting
<1>7. Waiting(g)'
    BY <1>1, <1>4, <1>6 DEF Waiting
<1> QED BY <1>1, <1>7 DEF InStep, GuestLoads

LEMMA InStepOfReady ==
    ASSUME NEW g, JointStep(g), GuestHandleProbe(g), AnswerReady(g)
    PROVE  InStep(g)'
<1> DEFINE w == probe[g].what
<1>0. /\ LoopType /\ GeneralInv /\ ~over /\ Guests = {g} /\ g \in Slots /\ RequestsOf(g) /\ Joint(g)
      /\ HostLoads /\ AskingInv /\ OrderInv /\ heard[g] \in Nat /\ Asked = 1 .. Len(asked)
      /\ heard[g] <= Len(asked) /\ Len(asked) \in Nat
    BY JointFacts
<1>1. UNCHANGED <<rx, game>> /\ probe[g].active /\ probe[g].pending
    BY AnswerIs
<1>2. /\ IsReady(w) /\ np[g].xfer \in {"LOAD_APPLYING", "LOAD_READY"}
      /\ np'[g].xfer = "LOAD_READY" /\ np'[g].synced
      /\ np[g].xfer = "LOAD_APPLYING" => ss[g].loaded
      /\ \/ /\ np[g].xfer = "LOAD_READY" /\ np[g].synced /\ UNCHANGED clock
            /\ np'[g].needs = np[g].needs
         \/ /\ np[g].xfer = "LOAD_APPLYING" \/ ~np[g].synced
            /\ clock'[g].epoch = clock[g].epoch + 1 /\ clock'[g].sim = 0 /\ ~np'[g].needs
    BY <1>0, ReadyMoves DEF RequestsOf
<1>3. /\ At(g) = <<"PROBE", w>> /\ heard[g] \in Asked
      /\ \/ ~LoadOpen /\ GuestPlays(g) /\ np[g].xfer \in {"NONE", "SAVE_COORD", "SAVE_SEND"}
         \/ ~LoadOpen /\ GuestPlays(g) /\ np[g].xfer = "LOAD_READY" /\ np[g].synced
         \/ LoadOpen /\ Waiting(g)
         \/ LoadOpen /\ (Applying(g) \/ Applied(g)) /\ (w = FileProbe \/ w = AllReady)
         \/ LoadOpen /\ Synced(g)
    BY <1>0, <1>1, GuestAsked
<1>4. /\ Phase' = Phase /\ (LoadOpen' <=> LoadOpen) /\ File' = File
      /\ Len(asked)' = Len(asked) /\ heard'[g] = heard[g] /\ clock'[Host] = clock[Host]
    BY GuestView
<1> HIDE DEF w
<1>5. CASE ~LoadOpen /\ GuestPlays(g) /\ np[g].xfer = "LOAD_READY" /\ np[g].synced
    <2>1. UNCHANGED clock /\ np'[g].needs = np[g].needs
        BY <1>2, <1>5
    <2> QED BY <1>2, <1>5, <2>1, PlaysAnswer
<1>6. CASE LoadOpen /\ (Applying(g) \/ Applied(g)) /\ (w = FileProbe \/ w = AllReady)
    <2>1. w = AllReady
        <3>1. FileProbe.size = 1
            BY <1>0, <1>6, LoadProbes
        <3>2. w.size = 0
            BY <1>2 DEF IsReady
        <3> QED BY <1>6, <3>1, <3>2
    <2>2. Phase = "LOAD_READY"
        <3>1. asked[heard[g]] = <<"PROBE", ReadyProbe(np[Host].slot)>>
            BY <1>3, <2>1 DEF At, AllReady
        <3>2. np[Host].slot \in Saves /\ heard[g] \in 1 .. Len(asked)
            BY <1>0, <1>3, <1>6, LoadProbes
        <3>3. np[Host].slot \in ReadyAsked(Len(asked))
            BY <3>1, <3>2 DEF ReadyAsked
        <3> QED BY <1>0, <1>6, <3>3 DEF AskingInv, LoadOnce, LoadOpen, Phase
    <2>3. heard[g] = Len(asked)
        <3>1. asked[Len(asked)] = <<"PROBE", AllReady>>
            BY <1>0, <2>2 DEF HostLoads, Last
        <3>2. heard[g] \in 1 .. heard[g] /\ asked[heard[g]] = asked[Len(asked)]
            BY <1>0, <1>3, <2>1, <3>1 DEF At
        <3> QED BY <1>0, <3>2, LastHeard
    <2>4. Has(g)
        BY <1>6 DEF Applying, Applied
    <2>5. game[g] = File
        BY <1>2, <1>6 DEF Applying, Applied
    <2>6. clock'[g].epoch = clock[g].epoch + 1 /\ clock'[g].sim = 0 /\ ~np'[g].needs
        <3>1. ~np[g].synced
            BY <2>4 DEF Has
        <3> QED BY <1>2, <3>1
    <2>7. clock'[g].epoch = clock'[Host].epoch + 1
        BY <1>4, <2>4, <2>6 DEF Has, Same
    <2>8. Synced(g)'
        BY <1>1, <1>2, <1>4, <2>2, <2>3, <2>5, <2>6, <2>7 DEF Synced
    <2> QED BY <1>4, <1>6, <2>8 DEF InStep, GuestLoads
<1>7. CASE LoadOpen /\ Synced(g)
    <2>1. UNCHANGED clock /\ np'[g].needs = np[g].needs
        BY <1>2, <1>7 DEF Synced
    <2>2. Synced(g)'
        BY <1>1, <1>2, <1>4, <1>7, <2>1 DEF Synced
    <2> QED BY <1>4, <1>7, <2>2 DEF InStep, GuestLoads
<1>8. ~Waiting(g)
    BY <1>2 DEF Waiting
<1> QED BY <1>2, <1>3, <1>5, <1>6, <1>7, <1>8

LEMMA InStepOfSmall ==
    ASSUME NEW g, JointStep(g), GuestHandleProbe(g),
           \/ ArmSave(g) \/ AnswerSave(g) \/ AnswerCards(g)
           \/ AnswerHash(g) /\ probe[g].what.op = "SAVE"
    PROVE  InStep(g)'
<1> DEFINE w == probe[g].what
<1>0. /\ LoopType /\ GeneralInv /\ ~over /\ Guests = {g} /\ g \in Slots /\ Joint(g)
    BY JointFacts
<1>1. probe[g].active /\ probe[g].pending
    BY AnswerIs
<1>2. /\ UNCHANGED clock /\ np'[g].needs = np[g].needs /\ w.op # "LOAD"
      /\ \/ IsCoord(w) /\ np'[g].xfer \in {"NONE", "SAVE_COORD", "SAVE_SEND"}
         \/ np'[g].xfer \in {"NONE", "SAVE_SEND"}
         \/ np'[g].xfer = np[g].xfer
    <2>1. CASE ArmSave(g)
        BY <1>0, <2>1, ArmMoves DEF IsCoord
    <2>2. CASE AnswerSave(g)
        BY <1>0, <2>2, AnswerSaveMoves DEF IsCoord
    <2>3. CASE AnswerCards(g)
        BY <1>0, <2>3, AnswerCardsMoves
    <2>4. CASE AnswerHash(g) /\ w.op = "SAVE"
        BY <1>0, <2>4, AnswerHashMoves
    <2> QED BY <2>1, <2>2, <2>3, <2>4
<1>3. \/ ~LoadOpen /\ GuestPlays(g) /\ np[g].xfer \in {"NONE", "SAVE_COORD", "SAVE_SEND"}
      \/ ~LoadOpen /\ IsReady(w)
      \/ LoadOpen /\ Waiting(g) /\ ~IsCoord(w)
      \/ LoadOpen /\ (w = FileProbe \/ w = AllReady)
    BY <1>0, <1>1, GuestAsked
<1>4. LoadOpen => w # FileProbe /\ w # AllReady
    <2> SUFFICES ASSUME LoadOpen PROVE w # FileProbe /\ w # AllReady
        OBVIOUS
    <2>1. FileProbe.op = "LOAD" /\ AllReady.op = "LOAD"
        BY <1>0, LoadProbes
    <2> QED BY <1>2, <2>1
<1>5. ~IsReady(w)
    BY <1>2 DEF IsReady
<1> HIDE DEF w
<1>6. CASE ~LoadOpen
    <2>1. GuestPlays(g) /\ np[g].xfer \in {"NONE", "SAVE_COORD", "SAVE_SEND"}
        BY <1>3, <1>5, <1>6
    <2>2. np'[g].xfer \in {"NONE", "SAVE_COORD", "SAVE_SEND"}
        BY <1>2, <2>1
    <2> QED BY <1>2, <1>6, <2>1, <2>2, PlaysAnswer
<1>7. CASE LoadOpen
    <2>1. Waiting(g) /\ ~IsCoord(w) /\ w # FileProbe
        BY <1>3, <1>4, <1>7
    <2>2. np'[g].xfer \in {"NONE", "SAVE_SEND"}
        BY <1>2, <2>1 DEF Waiting
    <2> QED BY <1>2, <1>7, <2>1, <2>2, WaitsAnswer DEF w
<1> QED BY <1>6, <1>7

\* A file that is not there, or is another, is asked for.
LEMMA InStepOfMiss ==
    ASSUME NEW g, JointStep(g), GuestHandleProbe(g), Waiting(g), LoadOpen, heard[g] = Len(asked),
           probe[g].what = FileProbe, ProbeReply(g, FALSE),
           np'[g].xfer = "LOAD_SEND", np'[g].needs = np[g].needs, UNCHANGED clock
    PROVE  InStep(g)'
<1>0. GeneralInv /\ ~over /\ Guests = {g} /\ g \in Slots /\ TypeOK
    BY JointFacts
<1>1. UNCHANGED game /\ probe[g].active
    BY AnswerIs
<1>2. /\ Phase' = Phase /\ (LoadOpen' <=> LoadOpen) /\ FileProbe' = FileProbe
      /\ Len(asked)' = Len(asked) /\ heard'[g] = heard[g] /\ StartOf(Host)' = StartOf(Host)
    BY GuestView
<1>3. StartOf(g)' = StartOf(g) /\ (Same(g)' <=> Same(g))
    BY <1>1 DEF StartOf, Same
<1>4. Level(g)' /\ Same(g)'
    BY <1>2, <1>3 DEF Waiting, Level
<1>5. FileProbe \in Probe /\ FileProbe.size = 1
    BY <1>0, LoadProbes
<1>6. probe'[g].active /\ ~probe'[g].pending /\ probe'[g].what = FileProbe
    <2>1. probe' = [probe EXCEPT ![g].pending = FALSE, ![g].match = FALSE]
          \/ probe'[g] = [probe[g] EXCEPT !.pending = FALSE, !.match = FALSE]
        BY <1>0, <1>5 DEF ProbeReply, TypeOK
    <2>2. probe[g] \in ProbeState /\ probe \in [Slots -> ProbeState \cup {Nothing}]
        BY <1>0, <1>1, ProbeActive DEF TypeOK
    <2>3. probe'[g] = [probe[g] EXCEPT !.pending = FALSE, !.match = FALSE]
        BY <1>0, <2>1, <2>2
    <2> QED BY <1>1, <2>2, <2>3 DEF ProbeState
<1>7. Reply(g, FileProbe, TRUE) \notin net'
    <2>1. net' = net \cup {Reply(g, FileProbe, FALSE)}
        BY DEF ProbeReply
    <2>2. Reply(g, FileProbe, TRUE) \notin net
        BY <1>5 DEF Waiting, Spoken
    <2> QED BY <1>5, <2>1, <2>2, SpokenMore
<1>8. Lacking(g)'
    BY <1>2, <1>6, <1>7 DEF Lacking, Waiting
<1>9. Getting(g)'
    BY <1>4, <1>8 DEF Getting
<1> QED BY <1>2, <1>9 DEF InStep, GuestLoads

\* A file that is the host's is loaded.
LEMMA InStepOfHit ==
    ASSUME NEW g, JointStep(g), GuestHandleProbe(g), Waiting(g), LoadOpen, heard[g] = Len(asked),
           probe[g].what = FileProbe, net' = net \cup {Reply(g, FileProbe, TRUE)},
           disk[g][np[Host].slot] = File, np'[g].xfer = "LOAD_APPLYING", ~np'[g].synced,
           ss'[g].load = <<"SLOT", np[Host].slot>>, ~ss'[g].loaded, UNCHANGED clock
    PROVE  InStep(g)'
<1>0. GeneralInv /\ ~over /\ Guests = {g}
    BY JointFacts
<1>1. UNCHANGED <<rx, disk>> /\ ~rx[g].active /\ heard[g] > 0 /\ At(g) = <<"PROBE", FileProbe>>
    BY AnswerIs
<1>2. /\ Phase' = Phase /\ (LoadOpen' <=> LoadOpen) /\ FileProbe' = FileProbe /\ File' = File
      /\ Len(asked)' = Len(asked) /\ heard'[g] = heard[g] /\ At(g)' = At(g)
      /\ np'[Host].slot = np[Host].slot /\ AllReady' = AllReady
    BY GuestView
<1>3. Same(g)' /\ Phase = "LOAD_PROBE"
    BY DEF Waiting, Level, Same
<1>4. Reply(g, FileProbe, FALSE) \notin net'
    <2>1. FileProbe \in Probe
        BY <1>0, LoadProbes
    <2>2. Reply(g, FileProbe, FALSE) \notin net
        BY <2>1 DEF Waiting, Spoken
    <2> QED BY <2>1, <2>2, SpokenMore
<1>5. Has(g)'
    <2>1. ~rx'[g].active /\ ~np'[g].synced /\ heard'[g] > 0 /\ heard'[g] = Len(asked)'
        BY <1>1, <1>2
    <2>2. At(g)'[1] = "PROBE" /\ At(g)'[2] = FileProbe'
        BY <1>1, <1>2
    <2>3. disk'[g][np'[Host].slot] = File'
        BY <1>1, <1>2
    <2>4. Reply(g, FileProbe', FALSE) \notin net'
        BY <1>2, <1>4
    <2>5. Phase' # "LOAD_READY"
        BY <1>2, <1>3
    <2> QED BY <1>3, <2>1, <2>2, <2>3, <2>4, <2>5 DEF Has
<1>6. Applying(g)'
    BY <1>1, <1>2, <1>5 DEF Applying
<1> QED BY <1>2, <1>6 DEF InStep, GuestLoads

\* A guest that has it already goes on.
LEMMA InStepOfHeld ==
    ASSUME NEW g, JointStep(g), GuestHandleProbe(g), Applying(g) \/ Applied(g), LoadOpen,
           probe[g].what = FileProbe, net' = net \cup {Reply(g, FileProbe, TRUE)},
           UNCHANGED <<np, ss, clock>>
    PROVE  InStep(g)'
<1>0. GeneralInv /\ ~over /\ Guests = {g}
    BY JointFacts
<1>1. UNCHANGED <<rx, disk, game>> /\ At(g) = <<"PROBE", FileProbe>>
    BY AnswerIs
<1>2. /\ Phase' = Phase /\ (LoadOpen' <=> LoadOpen) /\ FileProbe' = FileProbe /\ File' = File
      /\ Len(asked)' = Len(asked) /\ heard'[g] = heard[g] /\ At(g)' = At(g) /\ AllReady' = AllReady
    BY GuestView
<1>3. Same(g)' <=> Same(g)
    BY DEF Same
<1>4. Has(g)
    BY DEF Applying, Applied
<1>5. FileProbe \in Probe /\ AllReady \in Probe /\ FileProbe # AllReady
    BY <1>0, LoadProbes
<1>6. Reply(g, FileProbe, FALSE) \notin net'
    <2>1. Reply(g, FileProbe, FALSE) \notin net
        BY <1>1, <1>4 DEF Has
    <2> QED BY <1>5, <2>1, SpokenMore
<1>7. AllReady \in Spoken(g)' <=> AllReady \in Spoken(g)
    <2>1. Spoken(g)' = Spoken(g) \cup {FileProbe}
        BY <1>5, SpokenMore
    <2> QED BY <1>5, <2>1
<1>8. Has(g)'
    BY <1>1, <1>2, <1>3, <1>4, <1>6, <1>7 DEF Has
<1>9. Applying(g)' \/ Applied(g)'
    BY <1>1, <1>2, <1>8 DEF Applying, Applied
<1> QED BY <1>2, <1>9 DEF InStep, GuestLoads

\* The answer to the question for the file of a load.
LEMMA InStepOfHash ==
    ASSUME NEW g, JointStep(g), GuestHandleProbe(g), AnswerHash(g), probe[g].what.op = "LOAD"
    PROVE  InStep(g)'
<1> DEFINE w == probe[g].what
           match == disk[g][w.slot] # NoFile /\ disk[g][w.slot] = w.crc
<1>0. /\ LoopType /\ GeneralInv /\ ~over /\ Guests = {g} /\ g \in Slots /\ Joint(g) /\ HostLoads
    BY JointFacts
<1>1. probe[g].active /\ probe[g].pending
    BY AnswerIs
<1>2. /\ UNCHANGED clock /\ w.size # 0 /\ net' = net \cup {Reply(g, w, match)}
      /\ \/ /\ ~match /\ np'[g].xfer = "LOAD_SEND" /\ np'[g].needs = np[g].needs
         \/ /\ match
            /\ \/ np[g].xfer \in {"LOAD_APPLYING", "LOAD_READY"} /\ UNCHANGED <<np, ss>>
               \/ /\ np[g].xfer \notin {"LOAD_APPLYING", "LOAD_READY"}
                  /\ np'[g].xfer = "LOAD_APPLYING" /\ ~np'[g].synced
                  /\ ss'[g].load = <<"SLOT", w.slot>> /\ ~ss'[g].loaded
    BY <1>0, AnswerHashMoves
<1>3. ProbeReply(g, match)
    BY DEF AnswerHash
<1>4. IsHash("LOAD", w)
    BY <1>2 DEF IsHash
<1>5. LoadOpen => FileProbe.crc = File /\ FileProbe.slot = np[Host].slot /\ AllReady.size = 0
    BY <1>0, LoadProbes
<1>6. LoadOpen /\ w = FileProbe
      /\ \/ Waiting(g) /\ heard[g] = Len(asked)
         \/ (Applying(g) \/ Applied(g)) /\ disk[g][np[Host].slot] = File
    <2>1. LoadOpen => w # AllReady
        BY <1>2, <1>5
    <2> HIDE DEF w
    <2> QED BY <1>0, <1>1, <1>4, <2>1, GuestAsked, SMTT(40) DEF w
<1>7. File # NoFile /\ w.crc = File /\ w.slot = np[Host].slot
    BY <1>0, <1>5, <1>6 DEF HostLoads
<1>8. CASE Waiting(g) /\ ~match
    <2>1. heard[g] = Len(asked) /\ np[g].xfer \notin {"LOAD_APPLYING", "LOAD_READY"}
        BY <1>6, <1>8 DEF Waiting, Applying, Applied
    <2>2. ProbeReply(g, FALSE)
        <3>1. match = FALSE
            BY <1>8
        <3> HIDE DEF match
        <3> QED BY <1>3, <3>1
    <2>3. np'[g].xfer = "LOAD_SEND" /\ np'[g].needs = np[g].needs /\ UNCHANGED clock
        BY <1>2, <1>8
    <2> HIDE DEF match, w
    <2> QED BY <1>6, <1>8, <2>1, <2>2, <2>3, InStepOfMiss DEF w
<1>9. match => net' = net \cup {Reply(g, FileProbe, TRUE)}
    <2> SUFFICES ASSUME match PROVE net' = net \cup {Reply(g, FileProbe, TRUE)}
        OBVIOUS
    <2>1. match = TRUE
        OBVIOUS
    <2>2. net' = net \cup {Reply(g, w, match)}
        BY <1>2
    <2> HIDE DEF match, w
    <2> QED BY <1>6, <2>1, <2>2
<1>10. CASE Waiting(g) /\ match
    <2>1. heard[g] = Len(asked) /\ np[g].xfer \notin {"LOAD_APPLYING", "LOAD_READY"}
        BY <1>6, <1>10 DEF Waiting, Applying, Applied
    <2>2. disk[g][np[Host].slot] = File
        BY <1>7, <1>10
    <2>3. /\ np'[g].xfer = "LOAD_APPLYING" /\ ~np'[g].synced /\ UNCHANGED clock
          /\ ss'[g].load = <<"SLOT", np[Host].slot>> /\ ~ss'[g].loaded
        BY <1>2, <1>7, <1>10, <2>1
    <2>4. net' = net \cup {Reply(g, FileProbe, TRUE)}
        BY <1>9, <1>10
    <2> HIDE DEF match, w
    <2> QED BY <1>6, <1>10, <2>1, <2>2, <2>3, <2>4, InStepOfHit DEF w
<1>11. CASE ~Waiting(g)
    <2>1. (Applying(g) \/ Applied(g)) /\ match
        BY <1>6, <1>7, <1>11
    <2>2. np[g].xfer \in {"LOAD_APPLYING", "LOAD_READY"}
        BY <2>1 DEF Applying, Applied
    <2>3. UNCHANGED <<np, ss, clock>> /\ net' = net \cup {Reply(g, FileProbe, TRUE)}
        BY <1>2, <1>9, <2>1, <2>2
    <2> HIDE DEF match, w
    <2> QED BY <1>6, <2>1, <2>3, InStepOfHeld DEF w
<1> QED BY <1>8, <1>10, <1>11

LEMMA InStepOfAnswer ==
    ASSUME NEW g, JointStep(g), GuestHandleProbe(g)
    PROVE  InStep(g)'
<1>1. AnswerHash(g) => probe[g].what.op \in {"SAVE", "LOAD"}
    BY DEF AnswerHash
<1> QED BY <1>1, InStepOfReady, InStepOfSmall, InStepOfHash DEF GuestHandleProbe

LEMMA InStepStep ==
    ASSUME NEW g, JointStep(g), BarrierNext, Patient
    PROVE  InStep(g)'
BY StepKinds, InStepOfPump, InStepOfHost, InStepOfLoop, InStepOfAnswer

-----------------------------------------------------------------------------
(* The two theorems *)

LEMMA JointInit ==
    ASSUME NEW g, Guests = {g}, BarrierInit
    PROVE  JointInv(g)
<1>0. GeneralInv /\ g \in Slots /\ Host \in Slots
    BY GeneralInit DEF Slots
<1>1. /\ np[Host].xfer = "NONE" /\ np[g].xfer = "NONE" /\ ~np[Host].needs /\ ~np[g].needs
      /\ ~np[Host].applied /\ ~np[g].applied
    BY <1>0 DEF BarrierInit
<1>2. /\ asked = <<>> /\ blobs = <<>> /\ net = {} /\ ~probe[g].active /\ delivered[g] = {}
    BY <1>0 DEF BarrierInit, Init, Nothing
<1>3. \A p \in Slots : ss[p].save = <<>> /\ ss[p].load = <<>> /\ np[p].xfer = "NONE" /\ ~np[p].applied
    BY DEF BarrierInit
<1>4. Asked = {}
    BY <1>2 DEF Asked
<1>5. KeptTrue(g) /\ CardsOwed(g)
    BY <1>1, <1>2 DEF KeptTrue, CardsOwed, CardsDiffer, Phase
<1>6. Armed(g)
    BY <1>1, <1>4 DEF Armed, Coords
<1>7. RequestsTrue
    BY <1>3 DEF RequestsTrue, RequestsOf
<1>8. ~LoadOpen /\ HostLoads
    BY <1>1 DEF HostLoads, LoadOpen, Phase
<1>9. Level(g)
    <2>1. clock[g] = clock[Host] /\ game[g] = game[Host]
        BY <1>0 DEF BarrierInit
    <2> QED BY <1>1, <2>1 DEF Level, Same, StartOf
<1>10. InStep(g)
    BY <1>1, <1>4, <1>8, <1>9 DEF InStep, GuestPlays, Loads
<1>11. ~over
    BY DEF BarrierInit
<1> QED BY <1>0, <1>5, <1>6, <1>7, <1>8, <1>10, <1>11 DEF JointInv, Joint

LEMMA JointStutter ==
    ASSUME NEW g, JointInv(g), UNCHANGED barrierVars
    PROVE  JointInv(g)'
<1>0. UNCHANGED <<np, ss, disk, card, game, over, clock, blobs, asked, heard, tx, rx, probe, net,
                  delivered>>
    BY DEF barrierVars, loopVars, inputVars, orderVars, sessionVars, transferVars
<1>1. GeneralInv'
    BY GeneralStutter DEF JointInv
<1>2. /\ Phase' = Phase /\ Last' = Last /\ File' = File /\ FileProbe' = FileProbe
      /\ FileBlob' = FileBlob /\ AllReady' = AllReady /\ (LoadOpen' <=> LoadOpen)
      /\ Asked' = Asked /\ Loads' = Loads
    BY <1>0, ViewKept
<1>3. Spoken(g)' = Spoken(g) /\ Coords' = Coords /\ At(g)' = At(g)
    BY <1>0, <1>2 DEF Spoken, Coords, At
<1>4. StartOf(g)' = StartOf(g) /\ StartOf(Host)' = StartOf(Host)
    BY <1>0 DEF StartOf
<1>5. (Same(g)' <=> Same(g)) /\ (Level(g)' <=> Level(g))
    BY <1>0, <1>4 DEF Same, Level
<1>6. ASSUME over PROVE ReadyMeansRestored'
    <2>1. ReadyMeansRestored
        BY <1>6 DEF JointInv
    <2> QED BY <1>0, <2>1 DEF ReadyMeansRestored, Answered
<1>7. ASSUME ~over PROVE Joint(g)'
    <2>1. Joint(g)
        BY <1>7 DEF JointInv
    <2>2. KeptTrue(g)' /\ CardsOwed(g)'
        BY <1>0, <1>2, <2>1 DEF Joint, KeptTrue, CardsOwed, CardsDiffer
    <2>3. Armed(g)'
        BY <1>0, <1>2, <1>3, <2>1 DEF Joint, Armed
    <2>4. RequestsTrue' /\ HostLoads'
        BY <1>0, <1>2, <2>1 DEF Joint, RequestsTrue, RequestsOf, HostLoads
    <2>5. Has(g)' <=> Has(g)
        BY <1>0, <1>2, <1>3, <1>5 DEF Has
    <2>6. /\ Waiting(g)' <=> Waiting(g)
          /\ Getting(g)' <=> Getting(g)
          /\ Applying(g)' <=> Applying(g)
          /\ Applied(g)' <=> Applied(g)
          /\ Synced(g)' <=> Synced(g)
        <3>1. Waiting(g)' <=> Waiting(g)
            BY <1>0, <1>2, <1>3, <1>5 DEF Waiting
        <3>2. Getting(g)' <=> Getting(g)
            BY <1>0, <1>2, <1>5 DEF Getting, Lacking, Fetching
        <3>3. /\ Applying(g)' <=> Applying(g)
              /\ Applied(g)' <=> Applied(g)
            BY <1>0, <1>2, <2>5 DEF Applying, Applied
        <3>4. Synced(g)' <=> Synced(g)
            BY <1>0, <1>2 DEF Synced
        <3> QED BY <3>1, <3>2, <3>3, <3>4
    <2>7. GuestPlays(g)' <=> GuestPlays(g)
        BY <1>0, <1>2, <1>3, <1>5 DEF GuestPlays
    <2>8. InStep(g)'
        BY <1>2, <2>1, <2>6, <2>7 DEF Joint, InStep, GuestLoads
    <2> QED BY <2>2, <2>3, <2>4, <2>8 DEF Joint
<1> QED BY <1>0, <1>1, <1>6, <1>7 DEF JointInv

\* A load that fails ends the session: the host had not taken the peer for ready.
LEMMA JointAbort ==
    ASSUME NEW g, Guests = {g}, GeneralInv, ~over, Joint(g), NEW p \in Slots, AbortLoad(p)
    PROVE  ReadyMeansRestored'
<1> SUFFICES ASSUME Answered("LOAD_READY")' PROVE FALSE
    BY DEF ReadyMeansRestored
<1>0. LoopType /\ Slots = {Host, g} /\ g # Host
    BY Two
<1>1. np[p].xfer = "LOAD_APPLYING" /\ np'[p].xfer = "NONE" /\ UNCHANGED probe
    BY <1>0 DEF AbortLoad, Idle, LoopType
<1>2. p # Host
    BY <1>1 DEF Answered
<1>3. np'[Host] = np[Host]
    BY <1>0, <1>2 DEF AbortLoad, LoopType
<1>4. Answered("LOAD_READY")
    BY <1>1, <1>3 DEF Answered
<1>5. np[g].xfer = "LOAD_READY"
    BY <1>4, OnlySynced DEF Synced
<1> QED BY <1>0, <1>1, <1>2, <1>5

LEMMA ReadyOfJoint ==
    ASSUME NEW g, Guests = {g}, GeneralInv, ~over, Joint(g)
    PROVE  ReadyMeansRestored
<1> SUFFICES ASSUME Answered("LOAD_READY") PROVE game[g] = game[Host]
    BY DEF ReadyMeansRestored
<1>1. game[Host] = File /\ Synced(g)
    BY OnlySynced
<1> QED BY <1>1 DEF Synced

\* Nothing else ends it.
LEMMA OverByAbort ==
    ASSUME ~over, BarrierNext, over'
    PROVE  \E p \in Slots : AbortLoad(p)
<1>1. ~SessionPump
    BY DEF SessionPump, loopVars
<1>2. \A p \in Slots : LoopStep(p) => AbortLoad(p)
    BY DEF LoopStep, Poll, FinishFrame, PollSave, PollLoad, MaybeStageTargetSave, ApplyReady, EnterReady
<1>3. \A g \in Guests : ~GuestHandleProbe(g)
    BY DEF GuestHandleProbe, AnswerReady, ArmSave, AnswerSave, AnswerCards, AnswerHash
<1>4. ~HostDriveXfer /\ ~StartCards /\ \A s \in Saves : ~AskSave(s) /\ ~AskLoad(s)
    <2>1. ~DriveCards /\ ~AbortSave /\ ~DriveSaveCoord /\ ~DriveSaveProbe
        BY DEF DriveCards, AbortSave, DriveSaveCoord, DriveSaveProbe, HostGoesOn
    <2>2. ~DriveLoadProbe /\ ~DriveLoadReady
        BY DEF DriveLoadProbe, DriveLoadReady, HostGoesOn
    <2> QED BY <2>1, <2>2 DEF HostDriveXfer, StartCards, AskSave, AskLoad, HostGoesOn
<1> QED BY <1>1, <1>2, <1>3, <1>4 DEF BarrierNext

LEMMA JointNext ==
    ASSUME NEW g, Guests = {g}, Patient, JointInv(g), BarrierNext, GeneralInv'
    PROVE  JointInv(g)'
<1>0. GeneralInv /\ ~over /\ Joint(g)
    BY DEF JointInv, BarrierNext
<1>1. CASE over'
    <2>1. \E p \in Slots : AbortLoad(p)
        BY <1>0, <1>1, OverByAbort
    <2> QED BY <1>0, <1>1, <2>1, JointAbort DEF JointInv
<1>2. CASE ~over'
    <2>1. JointStep(g)
        BY <1>0, <1>2 DEF JointStep
    <2>2. Joint(g)'
        BY <2>1, KeptTrueStep, CardsOwedStep, ArmedStep, RequestsStep, HostLoadsStep, InStepStep
           DEF Joint
    <2> QED BY <1>2, <2>2 DEF JointInv
<1> QED BY <1>1, <1>2

LEMMA JointGame ==
    ASSUME NEW g, Guests = {g}, GeneralInv, ~over, Joint(g), Playing(Host), Playing(g), Same(g)
    PROVE  StartOf(g) = StartOf(Host)
<1>0. InStep(g)
    BY DEF Joint
<1>1. CASE ~LoadOpen
    BY <1>0, <1>1 DEF InStep, GuestPlays, Level
<1>2. CASE LoadOpen
    <2>1. Phase \in {"LOAD_PROBE", "LOAD_SEND"}
        <3>1. np[Host].xfer = "LOAD_APPLYING" => ~np[Host].synced
            BY Two DEF EpochInv
        <3> QED BY <1>2, <3>1 DEF LoadOpen, Playing, Phase
    <2>2. ~Applying(g) /\ ~Applied(g) /\ ~Synced(g)
        BY <2>1 DEF Applying, Applied, Synced, Has, Playing
    <2>3. Waiting(g) \/ Getting(g)
        BY <1>0, <1>2, <2>2 DEF InStep, GuestLoads
    <2> QED BY <2>1, <2>3 DEF Waiting, Getting, Level
<1> QED BY <1>1, <1>2

\* The invariant of a session of two holds in every state it reaches, when the
\* player waits for the guest to be through one barrier before he asks again:
\* psx_netplay.c does not make him, and a host that asks earlier goes on alone.
THEOREM JointInvariance ==
    ASSUME NEW g, Guests = {g}, Patient
    PROVE  BarrierSpec => []JointInv(g)
<1>1. BarrierInit => JointInv(g)
    BY JointInit
<1>2. JointInv(g) /\ GeneralInv' /\ [BarrierNext]_barrierVars => JointInv(g)'
    BY JointNext, JointStutter
<1> QED BY <1>1, <1>2, BarrierInvariance, PTL DEF BarrierSpec

\* Two peers that play in one input epoch started it from the same state of the
\* game, through every load the host asks for: no tick is run twice or left out on
\* one of them, none is run between the restore and the epoch's first
\* (psx_netplay.c:4421-4425), and what is loaded is the same on both.
THEOREM LoadsAgree ==
    ASSUME NEW g, Guests = {g}, Patient
    PROVE  BarrierSpec => []SameGame
<1>1. JointInv(g) => SameGame
    <2> SUFFICES ASSUME JointInv(g), NEW p \in Slots, NEW q \in Slots, ~over,
                        Playing(p), Playing(q), clock[p].epoch = clock[q].epoch
                 PROVE  StartOf(p) = StartOf(q)
        BY DEF SameGame
    <2>1. GeneralInv /\ Joint(g) /\ Slots = {Host, g}
        BY Two DEF JointInv
    <2>2. CASE p = q
        BY <2>2
    <2>3. CASE p = Host /\ q = g
        BY <2>1, <2>3, JointGame DEF Same
    <2>4. CASE p = g /\ q = Host
        BY <2>1, <2>4, JointGame DEF Same
    <2> QED BY <2>1, <2>2, <2>3, <2>4
<1> QED BY <1>1, JointInvariance, PTL

\* "ready probe first (both applied)" (host_integration.md:58): when the host
\* takes the guest for ready, both have restored the host's file.
THEOREM ReadyIsRestored ==
    ASSUME NEW g, Guests = {g}, Patient
    PROVE  BarrierSpec => []ReadyMeansRestored
<1>1. JointInv(g) => ReadyMeansRestored
    BY ReadyOfJoint DEF JointInv
<1> QED BY <1>1, JointInvariance, PTL
=============================================================================
