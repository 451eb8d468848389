------------------------- MODULE LoadBarrier_proofs -------------------------
(***************************************************************************)
(* Saves, loads and memory cards over the transfers of StateTransfer.      *)
(* For every number of guests, also when the player is impatient: types,   *)
(* the epochs kept apart, the cards agreed before the first frame, and a   *)
(* stopped host that has sent what an armed guest needs.                   *)
(*                                                                         *)
(* The argument: asked, the exchanges of the host in their order, is what  *)
(* never changes; every datagram, probe and transfer about is of one of    *)
(* them, and where a peer stands follows from the last it has heard of.    *)
(***************************************************************************)
EXTENDS LoadBarrier, StateTransfer_proofs, FiniteSetTheorems

-----------------------------------------------------------------------------
(* Types *)

Mark  == Nat \cup {-1}
Loop  == [xfer : Phases, slot : Saves \cup {0}, target : Nat, staged : BOOLEAN,
          acked : BOOLEAN, applied : BOOLEAN, synced : BOOLEAN,
          replied : BOOLEAN, needs : BOOLEAN, cards : BOOLEAN]
Clock == [sim : 0 .. MaxSim, epoch : 0 .. MaxEpoch,
          rows : [Slots -> Mark], confirms : [Slots -> Mark]]
Exch  == ({"PROBE"} \X Probe) \cup ({"XFER"} \X Nat)
Blob  == [op : {"SRAM", "SAVE", "LOAD"}, slot : Saves \cup {0}, data : Nat]
Requests == [save : {<<>>} \cup {<<s>> : s \in Saves \cup {0}},
             load : {<<>>} \cup ({"SLOT"} \X Saves) \cup ({"BLOB"} \X Nat),
             loaded : BOOLEAN, load_failed : BOOLEAN, save_failed : BOOLEAN, pc : BOOLEAN]

LoopType ==
    /\ np \in [Slots -> Loop]
    /\ ss \in [Slots -> Requests]
    /\ disk \in [Slots -> [Saves -> Nat]]
    /\ card \in [Slots -> Nat] /\ game \in [Slots -> Nat]
    /\ frame \in [Slots -> BOOLEAN] /\ over \in BOOLEAN
    /\ clock \in [Slots -> Clock]
    /\ sampled \in [Slots -> [0 .. MaxEpoch -> Mark]]
    /\ confirmed \in [Slots -> [0 .. MaxEpoch -> Mark]]
    /\ heard \in [Guests -> Nat]
    /\ asked \in Seq(Exch) /\ blobs \in Seq(Blob)

\* What the host may have asked for: a save to come, the hash of a file, whether
\* a load is done, or the hash of its cards.
IsCoord(w)    == w.op = "SAVE" /\ w.size = 0
IsReady(w)    == w.op = "LOAD" /\ w.size = 0
IsHash(op, w) == w.op = op /\ w.size # 0
Askable(w) ==
    \/ w = HashProbe("SRAM", 0, card[Host])
    \/ w.slot \in Saves /\ (IsCoord(w) \/ IsHash("SAVE", w) \/ IsHash("LOAD", w)
                            \/ w = ReadyProbe(w.slot))

-----------------------------------------------------------------------------
(* The exchanges *)

Asked == DOMAIN asked
\* The last g has heard of.
At(g) == asked[heard[g]]
Knows(g, x) == heard[g] > 0 /\ At(g) = x

AskedOnce == \A i, j \in Asked : asked[i] = asked[j] => i = j

AskedTrue == \A i \in Asked :
    /\ asked[i][1] = "XFER" => asked[i][2] \in 1 .. next_xfer_id
    /\ asked[i][1] = "PROBE" => Askable(asked[i][2])

BlobsTrue ==
    /\ Len(blobs) = next_xfer_id
    /\ \A i \in DOMAIN blobs : IF blobs[i].op = "SRAM" THEN i = 1 /\ blobs[i].data = card[Host]
                                                       ELSE blobs[i].slot \in Saves

\* What a guest has, was sent or has said is of an exchange it has heard of.
GuestTrue(g) ==
    /\ heard[g] <= Len(asked)
    /\ probe[g].active => Knows(g, <<"PROBE", probe[g].what>>)
    /\ rx[g].active => Knows(g, <<"XFER", rx[g].id>>)
    /\ ~over /\ heard[g] > 0 /\ At(g)[1] = "XFER" => rx[g].active \/ finished[g] = At(g)[2]
    /\ \A id \in delivered[g] : \E i \in 1 .. heard[g] : asked[i] = <<"XFER", id>>

ReplyTrue(m) == m.type = "REPLY" =>
    \E i \in 1 .. heard[m.from] : asked[i] = <<"PROBE", m.what>>

\* What the host is waiting for is the last it has asked for.
HostTrue ==
    /\ probe[Host].active => asked # <<>> /\ asked[Len(asked)] = <<"PROBE", probe[Host].what>>
    /\ tx.active => asked # <<>> /\ asked[Len(asked)] = <<"XFER", tx.id>>

OrderInv ==
    /\ AskedOnce /\ AskedTrue /\ BlobsTrue
    /\ \A g \in Guests : GuestTrue(g)
    /\ \A m \in net : ReplyTrue(m)
    /\ HostTrue

\* The host's loop and what it has asked for.  It begins with the cards, asks for
\* one save, and loads a slot once: with probe, transfer and ready probe.
HasCoord    == \E i \in Asked : asked[i][1] = "PROBE" /\ IsCoord(asked[i][2])
HasHashSave == \E i \in Asked : asked[i][1] = "PROBE" /\ IsHash("SAVE", asked[i][2])
LoadsAsked  == {s \in Saves : \E i \in Asked : /\ asked[i][1] = "PROBE"
                                               /\ IsHash("LOAD", asked[i][2])
                                               /\ asked[i][2].slot = s}
ReadyAsked(n) == {s \in Saves : \E i \in 1 .. n : asked[i] = <<"PROBE", ReadyProbe(s)>>}

SendPhase(op) == IF op = "SRAM" THEN "MC_SEND" ELSE IF op = "SAVE" THEN "SAVE_SEND" ELSE "LOAD_SEND"

\* How many exchanges the one under way may still take.
Left(phase) == IF phase \in {"SAVE_COORD", "LOAD_PROBE"} THEN 2
               ELSE IF phase \in {"MC_PROBE", "SAVE_PROBE", "LOAD_SEND", "LOAD_APPLYING"} THEN 1
               ELSE 0

CardsFirst ==
    /\ ~np[Host].cards => /\ np[Host].xfer \in {"NONE", "MC_PROBE", "MC_SEND"}
                          /\ np[Host].xfer = "NONE" => asked = <<>> /\ next_xfer_id = 0
    /\ np[Host].cards => np[Host].xfer \notin {"MC_PROBE", "MC_SEND"}
    /\ np[Host].xfer = "MC_PROBE" => next_xfer_id = 0

SaveOnce ==
    /\ np[Host].xfer = "SAVE_COORD" => ~HasHashSave
    /\ HasHashSave => HasCoord
    /\ \A i, j \in Asked :
          /\ asked[i][1] = "PROBE" /\ IsCoord(asked[i][2])
          /\ asked[j][1] = "PROBE" /\ IsCoord(asked[j][2])
          => i = j

LoadOnce ==
    /\ np[Host].xfer \in {"LOAD_PROBE", "LOAD_SEND", "LOAD_APPLYING"} =>
          np[Host].slot \in LoadsAsked /\ np[Host].slot \notin ReadyAsked(Len(asked))
    /\ ReadyAsked(Len(asked)) \subseteq LoadsAsked

SendTrue ==
    /\ tx.active => /\ np[Host].xfer = SendPhase(blobs[tx.id].op)
                    /\ blobs[tx.id].op = "LOAD" => blobs[tx.id].slot = np[Host].slot
    /\ np[Host].xfer \notin {"NONE", "MC_PROBE", "MC_SEND"} => np[Host].slot \in Saves

AskedBound ==
    Len(asked) + Left(np[Host].xfer) <= 3 * Cardinality(LoadsAsked)
                                        + (IF HasCoord THEN 3 ELSE 0)
                                        + (IF asked = <<>> THEN 0 ELSE 2)

AskingInv == CardsFirst /\ SaveOnce /\ LoadOnce /\ SendTrue /\ AskedBound

-----------------------------------------------------------------------------
(* The epochs: one for each load that has been answered ready *)

\* g would start one if it answered the probe it has heard of.
MayResync(g) ==
    /\ heard[g] > 0 /\ At(g)[1] = "PROBE" /\ IsReady(At(g)[2])
    /\ ~np[g].synced
    /\ np[g].xfer \in {"LOAD_APPLYING", "LOAD_READY"} \/ np[g].applied

EpochInv ==
    /\ \A g \in Guests : clock[g].epoch + (IF MayResync(g) THEN 1 ELSE 0)
                            <= Cardinality(ReadyAsked(heard[g]))
    /\ clock[Host].epoch + (IF np[Host].xfer = "LOAD_READY" /\ ~np[Host].synced THEN 1 ELSE 0)
          <= Cardinality(ReadyAsked(Len(asked)))
    /\ \A p \in Slots : np[p].xfer = "LOAD_APPLYING" => ~np[p].synced

-----------------------------------------------------------------------------
(* Inputs, cards and saves *)

\* What a peer has of another in its epoch the other has sampled or confirmed.
MarksTrue == \A p, q \in Slots :
    /\ clock[p].rows[q] <= sampled[q][clock[p].epoch]
    /\ clock[p].confirms[q] <= confirmed[q][clock[p].epoch]

LaterUnused == \A p \in Slots : \A e \in 0 .. MaxEpoch :
    e > clock[p].epoch => sampled[p][e] = -1 /\ confirmed[p][e] = -1

\* A frame that counts is of a tick all have sampled.
FrameTrue == \A p \in Slots :
    /\ np[p].needs => frame[p]
    /\ frame[p] /\ np[p].needs =>
          /\ clock[p].sim < LastTick(clock[p].epoch)
          /\ confirmed[p][clock[p].epoch] >= clock[p].sim
          /\ \A q \in Slots : sampled[q][clock[p].epoch] >= clock[p].sim

InputInv == MarksTrue /\ LaterUnused /\ FrameTrue

\* Without its cards a peer confirms nothing, so that nobody runs a frame.
CardsInv == \A p \in Slots :
    /\ np[p].cards => card[p] = card[Host]
    /\ ~np[p].cards => \A e \in 0 .. MaxEpoch : confirmed[p][e] = -1
    /\ frame[p] => \A q \in Slots : np[q].cards

\* Who is armed has the host's tick, and a host that has stopped has passed it.
ArmedTrue == \A p \in Slots : np[p].xfer = "SAVE_COORD" =>
    \E i \in Asked : asked[i][1] = "PROBE" /\ IsCoord(asked[i][2]) /\ asked[i][2].crc = np[p].target

HostSaves ==
    np[Host].xfer = "SAVE_COORD" /\ np[Host].staged =>
        /\ clock[Host].sim >= np[Host].target
        /\ frame[Host] \/ ss[Host].save = <<>> =>
              /\ sampled[Host][clock[Host].epoch] >= np[Host].target
              /\ confirmed[Host][clock[Host].epoch] >= np[Host].target

HostFrames ==
    frame[Host] /\ ~np[Host].needs /\ ~over => np[Host].xfer \in {"LOAD_APPLYING", "LOAD_READY"}

SavesInv == ArmedTrue /\ HostSaves /\ HostFrames

GeneralInv ==
    /\ LoopType /\ (~over => IInv)
    /\ OrderInv /\ AskingInv /\ EpochInv /\ InputInv /\ CardsInv /\ SavesInv

-----------------------------------------------------------------------------
(* Facts about the data *)

LEMMA ConstantsType ==
    /\ Saves \subseteq Nat /\ IsFiniteSet(Saves) /\ MaxEpoch \in Nat
    /\ InitFile \in [Slots -> [Saves -> Nat]] /\ InitCard \in [Slots -> Nat]
    /\ Delay \in Nat /\ Delay > 0 /\ AskBy \in Nat /\ MaxAsks \in Nat /\ MaxSim \in Nat
    /\ MaxResumed \in Nat /\ MaxResumed <= MaxSim
    /\ 1 \in Sizes
BY BarrierAssumption, FS_CardinalityType DEF MaxEpoch

\* What an exchange that is added leaves of those before it.
LEMMA AppendIs ==
    ASSUME NEW S, NEW s \in Seq(S), NEW x \in S, NEW t, t = Append(s, x)
    PROVE  /\ t \in Seq(S) /\ t # <<>>
           /\ Len(t) = Len(s) + 1 /\ Len(s) \in Nat
           /\ DOMAIN s = 1 .. Len(s) /\ DOMAIN t = 1 .. Len(s) + 1
           /\ \A i \in 1 .. Len(s) : t[i] = s[i]
           /\ t[Len(s) + 1] = x
           /\ s = <<>> <=> Len(s) = 0
OBVIOUS

\* The lowest of a set of marks.
LEMMA LowestIs ==
    ASSUME NEW S, S \subseteq Mark, S # {}
    PROVE  Lowest(S) \in S /\ \A y \in S : Lowest(S) <= y
<1> DEFINE T == {x + 1 : x \in S}
<1>1. T \subseteq Nat /\ T # {}
    <2>1. \A x \in S : x \in Int /\ x + 1 \in Nat
        BY DEF Mark
    <2>2. PICK x \in S : TRUE
        OBVIOUS
    <2>3. x + 1 \in T
        BY <2>2
    <2> QED BY <2>1, <2>3
<1>2. PICK m \in T : \A y \in T : ~(<<y, m>> \in OpToRel(<, Nat))
    <2> HIDE DEF T
    <2> QED BY <1>1, NatLessThanWellFounded, WFMin
<1>3. \A y \in T : m <= y
    <2> HIDE DEF T
    <2> SUFFICES ASSUME NEW y \in T, y < m PROVE FALSE
        BY <1>1
    <2>1. y \in Nat /\ m \in Nat
        BY <1>1
    <2>2. <<y, m>> \in OpToRel(<, Nat)
        BY <2>1, y < m DEF OpToRel
    <2> QED BY <2>2, <1>2
<1>4. PICK x \in S : m = x + 1
    BY <1>2
<1>5. ASSUME NEW y \in S PROVE x <= y
    <2>1. m <= y + 1
        BY <1>3
    <2> QED BY <1>4, <2>1 DEF Mark
<1> HIDE DEF T
<1> QED BY <1>4, <1>5 DEF Lowest

LEMMA Askables ==
    ASSUME NEW s \in Saves, NEW n \in Nat
    PROVE  /\ CoordProbe(s, n) \in Probe /\ Askable(CoordProbe(s, n))
           /\ ReadyProbe(s) \in Probe /\ Askable(ReadyProbe(s))
           /\ \A op \in {"SAVE", "LOAD"} :
                 HashProbe(op, s, n) \in Probe /\ Askable(HashProbe(op, s, n))
BY ConstantsType DEF CoordProbe, ReadyProbe, HashProbe, Probe, ReadyCrc, Askable, IsCoord, IsHash

LEMMA ReadyAskedBound ==
    ASSUME NEW n
    PROVE  /\ IsFiniteSet(ReadyAsked(n)) /\ Cardinality(ReadyAsked(n)) \in Nat
           /\ Cardinality(ReadyAsked(n)) <= MaxEpoch
<1>1. ReadyAsked(n) \subseteq Saves
    BY DEF ReadyAsked
<1> QED BY <1>1, ConstantsType, FS_Subset, FS_CardinalityType DEF MaxEpoch

-----------------------------------------------------------------------------
(* Types *)

LEMMA LoopTypeInit == BarrierInit => LoopType
<1> SUFFICES ASSUME BarrierInit PROVE LoopType
    OBVIOUS
<1> USE ConstantsType DEF BarrierInit
<1>1. np \in [Slots -> Loop]
    BY DEF Loop, Phases
<1>2. ss \in [Slots -> Requests]
    BY DEF Requests
<1>3. clock \in [Slots -> Clock]
    BY DEF Clock, NewEpoch, Mark
<1>4. sampled \in [Slots -> [0 .. MaxEpoch -> Mark]] /\ confirmed \in [Slots -> [0 .. MaxEpoch -> Mark]]
    BY DEF Prefixed, Mark
<1>5. asked \in Seq(Exch) /\ blobs \in Seq(Blob) /\ heard \in [Guests -> Nat]
    OBVIOUS
<1> QED BY <1>1, <1>2, <1>3, <1>4, <1>5 DEF LoopType

\* What p's poll has brought in.
LEMMA PumpedType ==
    ASSUME LoopType, MarksTrue, NEW p \in Slots, NEW c \in Pumped(p)
    PROVE  /\ c \in Clock /\ c.sim = clock[p].sim /\ c.epoch = clock[p].epoch
           /\ \A q \in Slots : /\ c.rows[q] <= sampled[q][c.epoch]
                               /\ c.confirms[q] <= confirmed[q][c.epoch]
<1>1. clock[p] \in Clock
    BY DEF LoopType
<1>2. clock[p].epoch \in 0 .. MaxEpoch
    BY <1>1 DEF Clock
<1>3. /\ Heard(p, sampled) \in [Slots -> Mark] /\ Heard(p, confirmed) \in [Slots -> Mark]
      /\ \A q \in Slots : /\ Heard(p, sampled)[q] = sampled[q][clock[p].epoch]
                          /\ Heard(p, confirmed)[q] = confirmed[q][clock[p].epoch]
    BY <1>2, ZenonT(60) DEF Heard, LoopType
<1>4. CASE c = clock[p]
    BY <1>1, <1>4 DEF MarksTrue
<1>5. CASE c = [clock[p] EXCEPT !.rows = Heard(p, sampled), !.confirms = Heard(p, confirmed)]
    <2>1. c \in Clock /\ c.sim = clock[p].sim /\ c.epoch = clock[p].epoch
          /\ c.rows = Heard(p, sampled) /\ c.confirms = Heard(p, confirmed)
        <3> DEFINE rows == Heard(p, sampled)
                   confirms == Heard(p, confirmed)
        <3>1. rows \in [Slots -> Mark] /\ confirms \in [Slots -> Mark]
            BY <1>3
        <3>2. c = [clock[p] EXCEPT !.rows = rows, !.confirms = confirms]
            BY <1>5
        <3> HIDE DEF rows, confirms
        <3>3. c \in Clock /\ c.sim = clock[p].sim /\ c.epoch = clock[p].epoch
              /\ c.rows = rows /\ c.confirms = confirms
            BY <1>1, <3>1, <3>2 DEF Clock
        <3> QED BY <3>3 DEF rows, confirms
    <2>2. \A q \in Slots : /\ c.rows[q] \in Mark /\ c.rows[q] = sampled[q][c.epoch]
                            /\ c.confirms[q] \in Mark /\ c.confirms[q] = confirmed[q][c.epoch]
        BY <1>3, <2>1
    <2> QED BY <2>1, <2>2 DEF Mark
<1> QED BY <1>4, <1>5 DEF Pumped

\* What rnet_session_try_admit does to the marks and p's frame.
LEMMA TryAdmitDoes ==
    ASSUME LoopType, MarksTrue, NEW p \in Slots, NEW c \in Pumped(p),
           NEW admitted \in Loop, NEW refused \in Loop, TryAdmit(p, c, admitted, refused)
    PROVE  LET e == clock[p].epoch
               tick == clock[p].sim
               heardAll == \A q \in Others(p) : c.rows[q] >= tick /\ c.confirms[q] >= tick
           IN  /\ e \in 0 .. MaxEpoch /\ tick \in Nat /\ tick < LastTick(e)
               /\ clock' = [clock EXCEPT ![p] = c]
               /\ sampled' \in [Slots -> [0 .. MaxEpoch -> Mark]]
               /\ confirmed' \in [Slots -> [0 .. MaxEpoch -> Mark]]
               /\ \A q \in Slots, f \in 0 .. MaxEpoch :
                     /\ sampled'[q][f] >= sampled[q][f] /\ confirmed'[q][f] >= confirmed[q][f]
                     /\ q # p \/ f # e => /\ sampled'[q][f] = sampled[q][f]
                                          /\ confirmed'[q][f] = confirmed[q][f]
               /\ sampled'[p][e] >= tick + Delay
               /\ heardAll => confirmed'[p][e] >= tick
               /\ \/ /\ heardAll
                     /\ np' = [np EXCEPT ![p] = [admitted EXCEPT !.needs = TRUE]]
                     /\ game' = [game EXCEPT ![p] = @ + 1]
                     /\ frame' = [frame EXCEPT ![p] = TRUE]
                  \/ ~heardAll /\ np' = [np EXCEPT ![p] = refused] /\ UNCHANGED <<game, frame>>
<1> DEFINE e == clock[p].epoch
           tip == c.sim + Delay
           M == {tip} \cup {c.rows[q] : q \in Others(p)}
<1>1. /\ c \in Clock /\ c.sim = clock[p].sim /\ c.epoch = e
    BY PumpedType
<1>2. e \in 0 .. MaxEpoch /\ c.sim \in Nat /\ tip \in Nat /\ Delay \in Nat /\ MaxEpoch \in Nat
    BY <1>1, ConstantsType DEF Clock
<1>3. c.rows \in [Slots -> Mark] /\ c.confirms \in [Slots -> Mark]
    BY <1>1 DEF Clock
<1>4. M \subseteq Mark /\ M # {}
    BY <1>2, <1>3 DEF Others, Mark
<1>5. Lowest(M) \in Mark /\ \A y \in M : Lowest(M) <= y
    BY <1>4, LowestIs
<1>6. Lowest(M) \in M
    BY <1>4, LowestIs
<1>7. sampled[p][e] \in Mark /\ confirmed[p][e] \in Mark
    BY <1>2 DEF LoopType
<1>8. /\ sampled' = [sampled EXCEPT ![p][e] = Greatest(@, tip)]
      /\ confirmed' = [confirmed EXCEPT ![p][e] = Greatest(@, Lowest(M))]
      /\ clock' = [clock EXCEPT ![p] = c]
      /\ c.sim < LastTick(e)
    BY <1>1 DEF TryAdmit
<1> DEFINE m == Lowest(M)
<1> HIDE DEF m
<1>9. m \in Mark
    BY <1>5 DEF m
<1>10. /\ Greatest(sampled[p][e], tip) \in Mark /\ Greatest(confirmed[p][e], m) \in Mark
       /\ Greatest(sampled[p][e], tip) >= sampled[p][e] /\ Greatest(sampled[p][e], tip) >= tip
       /\ Greatest(confirmed[p][e], m) >= confirmed[p][e] /\ Greatest(confirmed[p][e], m) >= m
    BY <1>2, <1>7, <1>9 DEF Greatest, Mark
<1> HIDE DEF M
<1>11. /\ sampled'[p][e] = Greatest(sampled[p][e], tip)
       /\ confirmed'[p][e] = Greatest(confirmed[p][e], m)
       /\ \A q \in Slots, f \in 0 .. MaxEpoch : q # p \/ f # e =>
             sampled'[q][f] = sampled[q][f] /\ confirmed'[q][f] = confirmed[q][f]
    BY <1>2, <1>8 DEF LoopType, m
<1>12. /\ sampled' \in [Slots -> [0 .. MaxEpoch -> Mark]]
       /\ confirmed' \in [Slots -> [0 .. MaxEpoch -> Mark]]
    BY <1>2, <1>8, <1>10 DEF LoopType, m
<1>13. \A q \in Slots, f \in 0 .. MaxEpoch :
           sampled[q][f] \in Int /\ confirmed[q][f] \in Int
    <2> TAKE q \in Slots, f \in 0 .. MaxEpoch
    <2>1. sampled[q][f] \in Mark /\ confirmed[q][f] \in Mark
        BY DEF LoopType
    <2> QED BY <2>1 DEF Mark
<1>14. \A q \in Slots, f \in 0 .. MaxEpoch :
           sampled'[q][f] >= sampled[q][f] /\ confirmed'[q][f] >= confirmed[q][f]
    <2> TAKE q \in Slots, f \in 0 .. MaxEpoch
    <2>1. CASE q # p \/ f # e
        BY <2>1, <1>11, <1>13
    <2>2. CASE q = p /\ f = e
        BY <2>2, <1>10, <1>11
    <2> QED BY <2>1, <2>2
<1>15. (\A q \in Others(p) : c.rows[q] >= c.sim /\ c.confirms[q] >= c.sim) => m >= c.sim
    BY <1>2, <1>6 DEF m, M
<1>16. (\A q \in Others(p) : c.rows[q] >= c.sim /\ c.confirms[q] >= c.sim)
          => confirmed'[p][e] >= c.sim
    <2>1. Greatest(confirmed[p][e], m) \in Int /\ m \in Int
        BY <1>9, <1>10 DEF Mark
    <2> QED BY <1>2, <1>10, <1>11, <1>15, <2>1
<1>17. IF \A q \in Others(p) : c.rows[q] >= c.sim /\ c.confirms[q] >= c.sim
       THEN /\ np' = [np EXCEPT ![p] = [admitted EXCEPT !.needs = TRUE]]
            /\ game' = [game EXCEPT ![p] = @ + 1]
            /\ frame' = [frame EXCEPT ![p] = TRUE]
       ELSE /\ np' = [np EXCEPT ![p] = refused]
            /\ UNCHANGED <<game, frame>>
    BY DEF TryAdmit
<1> QED BY <1>1, <1>2, <1>8, <1>10, <1>11, <1>12, <1>14, <1>16, <1>17

LEMMA LoopIs ==
    ASSUME LoopType, NEW p \in Slots
    PROVE  /\ np[p] \in Loop /\ ss[p] \in Requests /\ disk[p] \in [Saves -> Nat]
           /\ card[p] \in Nat /\ game[p] \in Nat /\ frame[p] \in BOOLEAN
           /\ clock[p] \in Clock
           /\ clock[p].sim \in 0 .. MaxSim /\ clock[p].epoch \in 0 .. MaxEpoch
           /\ clock[p].sim \in Nat /\ clock[p].epoch \in Nat
<1>1. clock[p] \in Clock
    BY DEF LoopType
<1>2. clock[p].sim \in 0 .. MaxSim /\ clock[p].epoch \in 0 .. MaxEpoch
    BY <1>1 DEF Clock
<1> QED BY <1>1, <1>2 DEF LoopType

\* p's loop as the handlers leave it.
LEMMA LoopWith ==
    ASSUME LoopType, NEW p \in Slots, NEW s \in Saves
    PROVE  /\ BeginLoadApply(p, s) \in Loop /\ EnterLoadReady(p, s) \in Loop /\ Idle(p) \in Loop
           /\ BeginLoadApply(p, s).cards = np[p].cards /\ EnterLoadReady(p, s).cards = np[p].cards
<1>1. np[p] \in Loop
    BY DEF LoopType
<1> QED BY <1>1 DEF BeginLoadApply, EnterLoadReady, Idle, Loop, Phases

LEMMA RequestsWith ==
    ASSUME LoopType, NEW p \in Slots
    PROVE  /\ \A s \in Saves \cup {0} : RequestSave(p, s) \in Requests
           /\ \A s \in Saves : RequestLoad(p, <<"SLOT", s>>) \in Requests
           /\ \A c \in Nat : RequestLoad(p, <<"BLOB", c>>) \in Requests
<1>1. ss[p] \in Requests
    BY DEF LoopType
<1> QED BY <1>1 DEF RequestSave, RequestLoad, Requests

-----------------------------------------------------------------------------
(* Where an exchange stands *)

LEMMA AskedIs ==
    ASSUME LoopType
    PROVE  /\ Len(asked) \in Nat /\ Asked = 1 .. Len(asked)
           /\ \A i \in Asked :
                 /\ asked[i] \in Exch
                 /\ asked[i][1] = "PROBE" => /\ asked[i] = <<"PROBE", asked[i][2]>>
                                             /\ asked[i][2] \in Probe
                 /\ asked[i][1] = "XFER" => /\ asked[i] = <<"XFER", asked[i][2]>>
                                            /\ asked[i][2] \in Nat
           /\ asked = <<>> <=> Len(asked) = 0
           /\ \A g \in Guests : heard[g] \in Nat
<1>1. asked \in Seq(Exch) /\ \A g \in Guests : heard[g] \in Nat
    BY DEF LoopType
<1>2. Len(asked) \in Nat /\ DOMAIN asked = 1 .. Len(asked) /\ asked = <<>> <=> Len(asked) = 0
    BY <1>1
<1>3. \A i \in Asked : asked[i] \in Exch
    BY <1>1 DEF Asked
<1> QED BY <1>1, <1>2, <1>3 DEF Asked, Exch

LEMMA BlobsAre ==
    ASSUME LoopType, BlobsTrue, next_xfer_id \in Nat, NEW i \in 1 .. next_xfer_id
    PROVE  /\ blobs[i] \in Blob /\ blobs[i].data \in Nat
           /\ blobs[i].op \in {"SRAM", "SAVE", "LOAD"}
           /\ IF blobs[i].op = "SRAM" THEN i = 1 /\ blobs[i].data = card[Host]
                                      ELSE blobs[i].slot \in Saves
<1>1. blobs \in Seq(Blob) /\ Len(blobs) = next_xfer_id
    BY DEF LoopType, BlobsTrue
<1>2. i \in DOMAIN blobs
    BY <1>1
<1>3. blobs[i] \in Blob
    BY <1>1, <1>2
<1> QED BY <1>2, <1>3 DEF BlobsTrue, Blob

LEMMA AskableIs ==
    ASSUME NEW w \in Probe, Askable(w)
    PROVE  /\ w.op = "SRAM" => w = HashProbe("SRAM", 0, card[Host])
           /\ w.op \in {"SAVE", "LOAD"} => w.slot \in Saves
           /\ IsReady(w) => w = ReadyProbe(w.slot)
           /\ w.crc \in Nat /\ w.op \in {"SRAM", "SAVE", "LOAD"}
BY DEF Probe, Askable, HashProbe, ReadyProbe, IsReady, IsCoord, IsHash

\* A probe g was surfaced is the last exchange it has heard of.
LEMMA HeardProbe ==
    ASSUME LoopType, OrderInv, NEW g \in Guests, probe[g].active
    PROVE  /\ heard[g] \in Asked /\ At(g) = <<"PROBE", probe[g].what>>
           /\ probe[g].what \in Probe /\ Askable(probe[g].what)
           /\ ~rx[g].active
<1>1. GuestTrue(g) /\ AskedTrue
    BY DEF OrderInv
<1>2. heard[g] \in Asked /\ At(g) = <<"PROBE", probe[g].what>>
    BY <1>1, AskedIs DEF GuestTrue, Knows
<1>3. probe[g].what \in Probe
    <2>1. asked[heard[g]][1] = "PROBE" /\ asked[heard[g]][2] = probe[g].what
        BY <1>2 DEF At
    <2> QED BY <1>2, <2>1, AskedIs
<1>4. Askable(probe[g].what)
    BY <1>1, <1>2 DEF AskedTrue, At
<1>5. ~rx[g].active
    BY <1>1, <1>2 DEF GuestTrue, Knows
<1> QED BY <1>2, <1>3, <1>4, <1>5

\* So is a transfer it has open.
LEMMA HeardBlob ==
    ASSUME LoopType, OrderInv, NEW g \in Guests, rx[g].active
    PROVE  /\ heard[g] \in Asked /\ At(g) = <<"XFER", rx[g].id>>
           /\ rx[g].id \in 1 .. next_xfer_id
<1>1. GuestTrue(g) /\ AskedTrue
    BY DEF OrderInv
<1>2. heard[g] \in Asked /\ At(g) = <<"XFER", rx[g].id>>
    BY <1>1, AskedIs DEF GuestTrue, Knows
<1> QED BY <1>1, <1>2 DEF AskedTrue, At

LEMMA HostBlob ==
    ASSUME LoopType, OrderInv, tx.active
    PROVE  /\ Len(asked) \in Asked /\ asked[Len(asked)] = <<"XFER", tx.id>>
           /\ tx.id \in 1 .. next_xfer_id
<1>1. HostTrue /\ AskedTrue
    BY DEF OrderInv
<1>2. Len(asked) \in Asked /\ asked[Len(asked)] = <<"XFER", tx.id>>
    BY <1>1, AskedIs DEF HostTrue
<1> QED BY <1>1, <1>2 DEF AskedTrue

LEMMA HostProbe ==
    ASSUME LoopType, OrderInv, probe[Host].active
    PROVE  /\ Len(asked) \in Asked /\ asked[Len(asked)] = <<"PROBE", probe[Host].what>>
           /\ probe[Host].what \in Probe /\ Askable(probe[Host].what)
<1>1. HostTrue /\ AskedTrue
    BY DEF OrderInv
<1>2. Len(asked) \in Asked /\ asked[Len(asked)] = <<"PROBE", probe[Host].what>>
    BY <1>1, AskedIs DEF HostTrue
<1>3. asked[Len(asked)][1] = "PROBE" /\ asked[Len(asked)][2] = probe[Host].what
    BY <1>2
<1>4. probe[Host].what \in Probe
    BY <1>2, <1>3, AskedIs
<1> QED BY <1>1, <1>2, <1>3, <1>4 DEF AskedTrue

-----------------------------------------------------------------------------
(* The session: a step of the loop is one of StateTransfer, but for a load that
   fails, which ends the session *)

LEMMA AskIsStep ==
    ASSUME NEW w \in Probe, Ask(w)
    PROVE  SessionStep
BY DEF Ask, SessionStep

LEMMA SendIsStep ==
    ASSUME NEW op, NEW s, NEW c, Send(op, s, c)
    PROVE  SessionStep
BY ConstantsType DEF Send, SessionStep, Next, Step, HostStep

LEMMA SessionMoves ==
    ASSUME LoopType, SendTrue, BarrierNext
    PROVE  SessionStep \/ over'
<1> DEFINE Stays == UNCHANGED sessionVars
<1>s. Stays => SessionStep
    BY DEF SessionStep, sessionVars, vars
<1>r. ASSUME NEW g \in Guests, NEW yes \in BOOLEAN, ProbeReply(g, yes) PROVE SessionStep
    BY <1>r DEF SessionStep, Next, Step, GuestStep
<1>f. ProbeFinish => SessionStep
    BY DEF SessionStep, Next, Step, HostStep
<1>h. Host \in Slots /\ \A p \in Slots : p # Host => p \in Guests
    BY DEF Slots
<1> HIDE DEF Stays
<1>1. CASE SessionPump
    <2>1. CASE Pump
        BY <2>1 DEF SessionStep, Next, Step, HostStep
    <2>2. CASE HostReceive
        BY <2>2 DEF HostReceive, SessionStep, Next, Step, Receive
    <2>3. CASE \E g \in Guests : GuestReceive(g)
        BY <2>3 DEF GuestReceive, SessionStep, Next, Step, Receive
    <2> QED BY <1>1, <2>1, <2>2, <2>3 DEF SessionPump
<1>2. ASSUME NEW p \in Slots, LoopStep(p) PROVE SessionStep \/ over'
    <2>1. CASE Poll(p) \/ FinishFrame(p) \/ PollSave(p) \/ PollLoad(p) \/ MaybeStageTargetSave(p)
        BY <2>1, <1>s, SMTT(40) DEF Poll, FinishFrame, PollSave, PollLoad, MaybeStageTargetSave, Stays
    <2>2. CASE ApplyReady(p)
        BY <2>2, <1>h DEF ApplyReady, SessionStep, Next, Step, HostStep, GuestStep
    <2>3. CASE EnterReady(p)
        <3>1. CASE p = Host
            <4>1. np[Host].slot \in Saves
                BY <2>3, <3>1 DEF EnterReady, SendTrue
            <4>2. Ask(ReadyProbe(np[Host].slot)) /\ ReadyProbe(np[Host].slot) \in Probe
                BY <2>3, <3>1, <4>1, Askables DEF EnterReady
            <4> QED BY <4>2, AskIsStep
        <3>2. CASE p # Host
            BY <2>3, <3>2, <1>s DEF EnterReady, Stays
        <3> QED BY <3>1, <3>2
    <2>4. CASE AbortLoad(p)
        BY <2>4 DEF AbortLoad
    <2> QED BY <1>2, <2>1, <2>2, <2>3, <2>4 DEF LoopStep
<1>3. ASSUME NEW g \in Guests, GuestHandleProbe(g) PROVE SessionStep
    <2>1. CASE AnswerReady(g)
        BY <2>1, <1>r DEF AnswerReady
    <2>2. CASE ArmSave(g)
        BY <2>2, <1>s DEF ArmSave, Stays
    <2>3. CASE AnswerSave(g)
        BY <2>3, <1>r DEF AnswerSave
    <2>4. CASE AnswerCards(g)
        BY <2>4, <1>r DEF AnswerCards
    <2>5. CASE AnswerHash(g)
        BY <2>5, <1>r DEF AnswerHash
    <2> QED BY <1>3, <2>1, <2>2, <2>3, <2>4, <2>5 DEF GuestHandleProbe
<1>4. CASE HostDriveXfer
    <2>1. CASE DriveCards
        BY <2>1, <1>f, SendIsStep DEF DriveCards
    <2>2. CASE AbortSave
        BY <2>2, <1>s DEF AbortSave, Stays
    <2>3. CASE DriveSaveCoord
        <3>1. np[Host].slot \in Saves
            BY <2>3 DEF DriveSaveCoord, Answered, SendTrue
        <3>2. disk[Host][np[Host].slot] \in Nat
            BY <1>h, <3>1, LoopIs
        <3> QED BY <2>3, <3>1, <3>2, Askables, AskIsStep DEF DriveSaveCoord
    <2>4. CASE DriveSaveProbe
        BY <2>4, <1>f, SendIsStep DEF DriveSaveProbe
    <2>5. CASE DriveLoadProbe
        BY <2>5, <1>f, SendIsStep DEF DriveLoadProbe
    <2>6. CASE DriveLoadReady
        BY <2>6, <1>f DEF DriveLoadReady
    <2> QED BY <1>4, <2>1, <2>2, <2>3, <2>4, <2>5, <2>6 DEF HostDriveXfer
<1>5. CASE StartCards
    <2>1. card[Host] \in Nat
        BY <1>h, LoopIs
    <2>2. HashProbe("SRAM", 0, card[Host]) \in Probe
        BY <2>1 DEF HashProbe, Probe
    <2> QED BY <1>5, <2>2, AskIsStep DEF StartCards
<1>6. ASSUME NEW s \in Saves, AskSave(s) \/ AskLoad(s) PROVE SessionStep
    <2>1. disk[Host][s] \in Nat /\ clock[Host].sim + Delay + 2 \in Nat
        BY <1>h, LoopIs, ConstantsType
    <2> QED BY <1>6, <2>1, Askables, AskIsStep DEF AskSave, AskLoad
<1> QED BY <1>1, <1>2, <1>3, <1>4, <1>5, <1>6 DEF BarrierNext

LEMMA SessionKept ==
    ASSUME GeneralInv, BarrierNext
    PROVE  (~over => IInv)'
<1>1. IInv /\ (SessionStep \/ over')
    BY SessionMoves DEF GeneralInv, AskingInv, BarrierNext
<1> QED BY <1>1, TypeStep, TransferInvStep, ProbeInvStep DEF IInv

-----------------------------------------------------------------------------
(* Types are kept *)

LEMMA AskType ==
    ASSUME LoopType, NEW w \in Probe, Ask(w)
    PROVE  asked' \in Seq(Exch) /\ blobs' \in Seq(Blob) /\ heard' \in [Guests -> Nat]
<1>1. <<"PROBE", w>> \in Exch
    BY DEF Exch
<1>2. asked \in Seq(Exch) /\ asked' = Append(asked, <<"PROBE", w>>) /\ UNCHANGED <<blobs, heard>>
    BY DEF Ask, LoopType
<1>3. Append(asked, <<"PROBE", w>>) \in Seq(Exch)
    BY <1>1, <1>2, AppendIs
<1> QED BY <1>2, <1>3 DEF LoopType

LEMMA SendType ==
    ASSUME LoopType, next_xfer_id \in Nat, NEW op \in {"SRAM", "SAVE", "LOAD"},
           NEW s \in Saves \cup {0}, NEW c \in Nat, Send(op, s, c)
    PROVE  asked' \in Seq(Exch) /\ blobs' \in Seq(Blob) /\ heard' \in [Guests -> Nat]
<1> DEFINE x == <<"XFER", next_xfer_id + 1>>
           b == [op |-> op, slot |-> s, data |-> c]
<1>1. x \in Exch /\ b \in Blob
    BY DEF Exch, Blob
<1>2. /\ asked \in Seq(Exch) /\ asked' = Append(asked, x)
      /\ blobs \in Seq(Blob) /\ blobs' = Append(blobs, b) /\ UNCHANGED heard
    BY DEF Send, LoopType
<1> HIDE DEF x, b
<1>3. Append(asked, x) \in Seq(Exch) /\ Append(blobs, b) \in Seq(Blob)
    BY <1>1, <1>2, AppendIs
<1> QED BY <1>2, <1>3 DEF LoopType

LEMMA ResyncDoes ==
    ASSUME LoopType, NEW p \in Slots, clock[p].epoch + 1 <= MaxEpoch, Resync(p)
    PROVE  LET e == clock[p].epoch + 1
           IN  /\ e \in 0 .. MaxEpoch
               /\ clock' = [clock EXCEPT ![p] = NewEpoch(e)] /\ clock' \in [Slots -> Clock]
               /\ sampled' = [sampled EXCEPT ![p][e] = Delay - 1]
               /\ sampled' \in [Slots -> [0 .. MaxEpoch -> Mark]]
               /\ UNCHANGED confirmed
<1> DEFINE e == clock[p].epoch + 1
<1>1. e \in 0 .. MaxEpoch /\ 0 \in 0 .. MaxSim
    BY LoopIs, ConstantsType
<1>2. Delay - 1 \in Mark
    BY ConstantsType DEF Mark
<1>3. /\ clock' = [clock EXCEPT ![p] = NewEpoch(e)]
      /\ sampled' = [sampled EXCEPT ![p][e] = Delay - 1]
      /\ UNCHANGED confirmed
    BY DEF Resync
<1> HIDE DEF e
<1>4. NewEpoch(e) \in Clock
    BY <1>1 DEF NewEpoch, Clock, Mark
<1>5. clock' \in [Slots -> Clock]
    BY <1>3, <1>4 DEF LoopType
<1>6. sampled' \in [Slots -> [0 .. MaxEpoch -> Mark]]
    BY <1>1, <1>2, <1>3 DEF LoopType
<1> QED BY <1>1, <1>3, <1>5, <1>6 DEF e

\* np_commit_load_sync, by its outcome.
LEMMA CommitDoes ==
    ASSUME LoopType, NEW p \in Slots, NEW loop \in Loop, CommitLoadSync(p, loop),
           ~loop.synced => clock[p].epoch + 1 <= MaxEpoch
    PROVE  /\ np' \in [Slots -> Loop]
           /\ np'[p].synced /\ np'[p].xfer = loop.xfer /\ np'[p].slot = loop.slot
           /\ np'[p].cards = loop.cards /\ np'[p].staged = loop.staged /\ np'[p].target = loop.target
           /\ np'[p].needs => loop.needs
           /\ \A q \in Slots : q # p => np'[q] = np[q]
           /\ clock' \in [Slots -> Clock]
           /\ sampled' \in [Slots -> [0 .. MaxEpoch -> Mark]]
           /\ UNCHANGED confirmed
           /\ \/ loop.synced /\ UNCHANGED <<clock, sampled>> /\ np'[p].needs = loop.needs
              \/ ~loop.synced /\ Resync(p) /\ ~np'[p].needs
<1>0. np \in [Slots -> Loop] /\ loop.synced \in BOOLEAN
    BY DEF LoopType, Loop
<1>1. CASE loop.synced
    <2>1. np' = [np EXCEPT ![p] = [loop EXCEPT !.replied = TRUE]]
        BY <1>1 DEF CommitLoadSync
    <2>2. [loop EXCEPT !.replied = TRUE] \in Loop
        BY DEF Loop
    <2>3. UNCHANGED inputVars
        BY <1>1 DEF CommitLoadSync
    <2> QED BY <1>0, <1>1, <2>1, <2>2, <2>3 DEF LoopType, inputVars, Loop
<1>2. CASE ~loop.synced
    <2>1. np' = [np EXCEPT ![p] = [loop EXCEPT !.synced = TRUE, !.replied = TRUE, !.needs = FALSE]]
        BY <1>2 DEF CommitLoadSync
    <2>2. [loop EXCEPT !.synced = TRUE, !.replied = TRUE, !.needs = FALSE] \in Loop
        BY DEF Loop
    <2>3. Resync(p)
        BY <1>2 DEF CommitLoadSync
    <2>4. /\ clock' \in [Slots -> Clock] /\ sampled' \in [Slots -> [0 .. MaxEpoch -> Mark]]
          /\ UNCHANGED confirmed
        BY <1>2, <2>3, ResyncDoes
    <2>5. /\ np'[p].synced /\ np'[p].xfer = loop.xfer /\ np'[p].slot = loop.slot
          /\ np'[p].cards = loop.cards /\ np'[p].staged = loop.staged /\ np'[p].target = loop.target
          /\ ~np'[p].needs
        BY <1>0, <2>1, <2>2 DEF Loop
    <2> QED BY <1>0, <1>2, <2>1, <2>2, <2>3, <2>4, <2>5
<1> QED BY <1>1, <1>2

\* There is an epoch left for a peer that starts one.
LEMMA EpochRoom ==
    ASSUME LoopType, EpochInv
    PROVE  /\ \A g \in Guests : MayResync(g) => clock[g].epoch + 1 <= MaxEpoch
           /\ np[Host].xfer = "LOAD_READY" /\ ~np[Host].synced => clock[Host].epoch + 1 <= MaxEpoch
<1>1. MaxEpoch \in Nat /\ \A n : Cardinality(ReadyAsked(n)) \in Nat /\ Cardinality(ReadyAsked(n)) <= MaxEpoch
    BY ConstantsType, ReadyAskedBound
<1>2. \A p \in Slots : clock[p].epoch \in Nat
    BY LoopIs
<1>3. Host \in Slots /\ \A g \in Guests : g \in Slots
    BY DEF Slots
<1>4. ASSUME NEW g \in Guests, MayResync(g) PROVE clock[g].epoch + 1 <= MaxEpoch
    <2>1. clock[g].epoch + 1 <= Cardinality(ReadyAsked(heard[g]))
        BY <1>4 DEF EpochInv
    <2> QED BY <1>1, <1>2, <1>3, <2>1
<1>5. ASSUME np[Host].xfer = "LOAD_READY", ~np[Host].synced PROVE clock[Host].epoch + 1 <= MaxEpoch
    <2>1. clock[Host].epoch + 1 <= Cardinality(ReadyAsked(Len(asked)))
        BY <1>5 DEF EpochInv
    <2> QED BY <1>1, <1>2, <1>3, <2>1
<1> QED BY <1>4, <1>5

\* g's answer that its load is done.
LEMMA AnswerReadyDoes ==
    ASSUME LoopType, OrderInv, EpochInv, NEW g \in Guests, probe[g].active, AnswerReady(g)
    PROVE  LET w == probe[g].what
           IN  /\ w = ReadyProbe(w.slot) /\ w.slot \in Saves /\ IsReady(w)
               /\ \E loop \in Loop :
                     /\ CommitLoadSync(g, loop)
                     /\ loop.cards = np[g].cards /\ (loop.needs => np[g].needs)
                     /\ ~loop.synced => MayResync(g) /\ clock[g].epoch + 1 <= MaxEpoch
                     /\ loop.synced => np[g].synced
                     /\ loop.xfer = (IF np[g].xfer = "LOAD_APPLYING" THEN "LOAD_READY"
                                     ELSE np[g].xfer)
               /\ ss' \in [Slots -> Requests]
               /\ \A p \in Slots : ss'[p].save = ss[p].save
<1> DEFINE w == probe[g].what
           loop == IF np[g].xfer = "LOAD_APPLYING" THEN EnterLoadReady(g, w.slot) ELSE np[g]
<1>1. /\ w.op = "LOAD" /\ w.size = 0
      /\ np[g].xfer = "LOAD_APPLYING" \/ np[g].xfer = "LOAD_READY" \/ np[g].applied
      /\ CommitLoadSync(g, loop)
      /\ ss' = IF np[g].xfer = "LOAD_APPLYING" THEN [ss EXCEPT ![g].loaded = FALSE] ELSE ss
    BY DEF AnswerReady
<1>2. g \in Slots /\ np[g] \in Loop /\ ss[g] \in Requests /\ ss \in [Slots -> Requests]
    BY DEF Slots, LoopType
<1>3. /\ heard[g] \in Asked /\ At(g) = <<"PROBE", w>> /\ w \in Probe /\ Askable(w)
    BY HeardProbe
<1>4. IsReady(w) /\ w.slot \in Saves /\ w = ReadyProbe(w.slot)
    BY <1>1, <1>3, AskableIs DEF IsReady
<1>5. np[g].xfer = "LOAD_APPLYING" => ~np[g].synced
    BY <1>2 DEF EpochInv
<1>6. ASSUME ~np[g].synced PROVE MayResync(g) /\ clock[g].epoch + 1 <= MaxEpoch
    <2>1. At(g)[1] = "PROBE" /\ At(g)[2] = w /\ heard[g] > 0
        BY <1>3, AskedIs
    <2>2. MayResync(g)
        BY <1>1, <1>4, <1>6, <2>1 DEF MayResync
    <2> QED BY <2>2, EpochRoom
<1>7. /\ loop \in Loop /\ loop.cards = np[g].cards /\ (loop.needs => np[g].needs)
      /\ loop.xfer = (IF np[g].xfer = "LOAD_APPLYING" THEN "LOAD_READY" ELSE np[g].xfer)
      /\ ~loop.synced => ~np[g].synced
      /\ loop.synced => np[g].synced
    <2>1. CASE np[g].xfer = "LOAD_APPLYING"
        <3>1. loop = EnterLoadReady(g, w.slot)
            BY <2>1
        <3>2. /\ loop.cards = np[g].cards /\ loop.xfer = "LOAD_READY" /\ ~loop.needs /\ ~loop.synced
            BY <1>2, <3>1 DEF EnterLoadReady, Loop
        <3> QED BY <1>2, <1>4, <1>5, <2>1, <3>1, <3>2, LoopWith
    <2>2. CASE np[g].xfer # "LOAD_APPLYING"
        BY <1>2, <2>2
    <2> QED BY <2>1, <2>2
<1>8. ss' \in [Slots -> Requests] /\ \A p \in Slots : ss'[p].save = ss[p].save
    BY <1>1, <1>2 DEF Requests
<1> HIDE DEF loop
<1>9. \E l \in Loop :
          /\ CommitLoadSync(g, l)
          /\ l.cards = np[g].cards /\ (l.needs => np[g].needs)
          /\ ~l.synced => MayResync(g) /\ clock[g].epoch + 1 <= MaxEpoch
          /\ l.synced => np[g].synced
          /\ l.xfer = (IF np[g].xfer = "LOAD_APPLYING" THEN "LOAD_READY" ELSE np[g].xfer)
    BY <1>1, <1>6, <1>7
<1> QED BY <1>4, <1>8, <1>9

\* What the answer to a probe leaves of the types: p's loop and requests.
LEMMA AnswerType ==
    ASSUME LoopType, OrderInv, EpochInv, NEW g \in Guests, GuestHandleProbe(g)
    PROVE  /\ np' \in [Slots -> Loop] /\ ss' \in [Slots -> Requests]
           /\ clock' \in [Slots -> Clock]
           /\ sampled' \in [Slots -> [0 .. MaxEpoch -> Mark]]
           /\ UNCHANGED <<disk, card, game, frame, over, confirmed, orderVars>>
<1> DEFINE w == probe[g].what
<1>0. /\ g \in Slots /\ np[g] \in Loop /\ ss[g] \in Requests /\ probe[g].active
      /\ np \in [Slots -> Loop] /\ ss \in [Slots -> Requests]
      /\ clock \in [Slots -> Clock] /\ sampled \in [Slots -> [0 .. MaxEpoch -> Mark]]
    BY DEF Slots, LoopType, GuestHandleProbe
<1>1. w \in Probe /\ Askable(w) /\ w.crc \in Nat
    BY <1>0, HeardProbe, AskableIs
<1>2. CASE AnswerReady(g)
    <2>1. /\ ss' \in [Slots -> Requests]
          /\ \E loop \in Loop : /\ CommitLoadSync(g, loop)
                                /\ ~loop.synced => clock[g].epoch + 1 <= MaxEpoch
        BY <1>0, <1>2, AnswerReadyDoes
    <2>2. /\ np' \in [Slots -> Loop] /\ clock' \in [Slots -> Clock]
          /\ sampled' \in [Slots -> [0 .. MaxEpoch -> Mark]] /\ UNCHANGED confirmed
        BY <1>0, <2>1, CommitDoes, SMTT(40)
    <2> QED BY <1>2, <2>1, <2>2 DEF AnswerReady
<1>3. CASE ArmSave(g)
    <2>1. w.slot \in Saves
        BY <1>1, <1>3, AskableIs DEF ArmSave
    <2> QED BY <1>0, <1>1, <1>3, <2>1, ZenonT(60) DEF ArmSave, Loop, Phases, inputVars
<1>4. CASE AnswerSave(g)
    <2>1. CASE ss[g].save_failed
        <3>1. np' = [np EXCEPT ![g].xfer = "NONE", ![g].staged = FALSE, ![g].acked = FALSE]
            BY <1>4, <2>1 DEF AnswerSave
        <3>2. ss' = [ss EXCEPT ![g].save_failed = FALSE]
            BY <1>4, <2>1 DEF AnswerSave
        <3>3. np' \in [Slots -> Loop]
            BY <1>0, <3>1 DEF Loop, Phases
        <3>4. ss' \in [Slots -> Requests]
            BY <1>0, <3>2 DEF Requests
        <3> QED BY <1>0, <1>4, <3>3, <3>4 DEF AnswerSave, inputVars
    <2>2. CASE ~ss[g].save_failed
        <3>1. np' = [np EXCEPT ![g].acked = TRUE] /\ UNCHANGED ss
            BY <1>4, <2>2 DEF AnswerSave
        <3>2. np' \in [Slots -> Loop]
            BY <1>0, <3>1 DEF Loop
        <3> QED BY <1>0, <1>4, <3>1, <3>2 DEF AnswerSave, inputVars
    <2> QED BY <2>1, <2>2
<1>5. CASE AnswerCards(g)
    BY <1>0, <1>5 DEF AnswerCards, Loop, inputVars
<1>6. CASE AnswerHash(g)
    <2>1. w.slot \in Saves
        BY <1>1, <1>6, AskableIs DEF AnswerHash
    <2>2. Idle(g) \in Loop /\ BeginLoadApply(g, w.slot) \in Loop
        BY <1>0, <2>1, LoopWith
    <2>3. RequestLoad(g, <<"SLOT", w.slot>>) \in Requests
        BY <1>0, <2>1, RequestsWith
    <2>4. [np[g] EXCEPT !.xfer = "SAVE_SEND", !.slot = w.slot] \in Loop
        BY <1>0, <2>1 DEF Loop, Phases
    <2>5. ASSUME np' = [np EXCEPT ![g].xfer = "LOAD_SEND", ![g].slot = w.slot]
          PROVE  np' \in [Slots -> Loop]
        BY <1>0, <2>1, <2>5 DEF Loop, Phases
    <2>6. np' \in [Slots -> Loop] /\ ss' \in [Slots -> Requests]
        BY <1>0, <1>6, <2>2, <2>3, <2>4, <2>5 DEF AnswerHash
    <2> QED BY <1>0, <1>6, <2>6 DEF AnswerHash, inputVars
<1> QED BY <1>2, <1>3, <1>4, <1>5, <1>6 DEF GuestHandleProbe

LEMMA LastTickIs ==
    ASSUME NEW e
    PROVE  LastTick(e) \in Nat /\ LastTick(e) <= MaxSim
BY ConstantsType DEF LastTick

LEMMA PollType ==
    ASSUME LoopType, MarksTrue, NEW p \in Slots, Poll(p)
    PROVE  LoopType'
<1>0. /\ np[p] \in Loop /\ ss[p] \in Requests /\ np \in [Slots -> Loop] /\ ss \in [Slots -> Requests]
      /\ game \in [Slots -> Nat] /\ frame \in [Slots -> BOOLEAN] /\ clock \in [Slots -> Clock]
    BY DEF LoopType
<1>1. PICK c \in Pumped(p) :
          PollApplying(p, c) \/ PollReady(p, c) \/ PollSaveCoord(p, c) \/ PollOther(p, c)
    BY DEF Poll
<1>2. c \in Clock
    BY PumpedType
<1>3. ASSUME NEW admitted \in Loop, NEW refused \in Loop, TryAdmit(p, c, admitted, refused),
             ss' \in [Slots -> Requests]
      PROVE  LoopType'
    <2>1. /\ clock' = [clock EXCEPT ![p] = c]
          /\ sampled' \in [Slots -> [0 .. MaxEpoch -> Mark]]
          /\ confirmed' \in [Slots -> [0 .. MaxEpoch -> Mark]]
          /\ \/ /\ np' = [np EXCEPT ![p] = [admitted EXCEPT !.needs = TRUE]]
                /\ game' = [game EXCEPT ![p] = @ + 1]
                /\ frame' = [frame EXCEPT ![p] = TRUE]
             \/ np' = [np EXCEPT ![p] = refused] /\ UNCHANGED <<game, frame>>
        BY <1>3, TryAdmitDoes
    <2>2. [admitted EXCEPT !.needs = TRUE] \in Loop
        BY DEF Loop
    <2> DEFINE latched == [admitted EXCEPT !.needs = TRUE]
    <2>3. np' \in [Slots -> Loop] /\ game' \in [Slots -> Nat] /\ frame' \in [Slots -> BOOLEAN]
        <3>1. CASE /\ np' = [np EXCEPT ![p] = latched]
                   /\ game' = [game EXCEPT ![p] = @ + 1]
                   /\ frame' = [frame EXCEPT ![p] = TRUE]
            <4> HIDE DEF latched
            <4>1. latched \in Loop
                BY <2>2 DEF latched
            <4> QED BY <1>0, <3>1, <4>1
        <3>2. CASE np' = [np EXCEPT ![p] = refused] /\ UNCHANGED <<game, frame>>
            BY <1>0, <3>2
        <3> QED BY <2>1, <3>1, <3>2
    <2>4. clock' \in [Slots -> Clock]
        BY <1>0, <1>2, <2>1
    <2>5. UNCHANGED <<disk, card, over, orderVars>>
        BY DEF Poll
    <2> QED BY <1>3, <2>1, <2>3, <2>4, <2>5 DEF LoopType, orderVars
<1>4. CASE PollApplying(p, c)
    BY <1>0, <1>3, <1>4 DEF PollApplying
<1>5. CASE PollReady(p, c)
    <2>1. [Idle(p) EXCEPT !.applied = FALSE, !.replied = FALSE, !.synced = FALSE] \in Loop
        BY <1>0 DEF Idle, Loop, Phases
    <2> QED BY <1>0, <1>3, <1>5, <2>1 DEF PollReady
<1>6. CASE PollSaveCoord(p, c)
    <2> DEFINE loop == [np[p] EXCEPT !.staged = @ \/ DueToStage(p)]
    <2>1. loop \in Loop
        BY <1>0 DEF Loop, DueToStage
    <2>2. np[p].slot \in Saves \cup {0}
        BY <1>0 DEF Loop
    <2>3. RequestSave(p, np[p].slot) \in Requests
        BY <2>2, RequestsWith
    <2>4. ss' \in [Slots -> Requests]
        BY <1>0, <1>6, <2>3 DEF PollSaveCoord
    <2>5. TryAdmit(p, c, loop, loop)
        BY <1>6 DEF PollSaveCoord
    <2> HIDE DEF loop
    <2> QED BY <1>3, <2>1, <2>4, <2>5
<1>7. CASE PollOther(p, c)
    BY <1>0, <1>3, <1>7 DEF PollOther
<1> QED BY <1>1, <1>4, <1>5, <1>6, <1>7

LEMMA FinishFrameType ==
    ASSUME LoopType, FrameTrue, NEW p \in Slots, FinishFrame(p)
    PROVE  LoopType'
<1>0. /\ np[p] \in Loop /\ clock[p] \in Clock /\ clock[p].sim \in Nat
    BY LoopIs
<1>1. ASSUME np[p].needs PROVE [clock[p] EXCEPT !.sim = @ + 1] \in Clock
    <2>1. clock[p].sim < LastTick(clock[p].epoch)
        BY <1>1 DEF FrameTrue
    <2>2. clock[p].sim + 1 \in 0 .. MaxSim
        BY <1>0, <2>1, LastTickIs, ConstantsType
    <2> QED BY <1>0, <2>2 DEF Clock
<1>2. clock' \in [Slots -> Clock]
    BY <1>1 DEF FinishFrame, LoopType
<1>3. [np[p] EXCEPT !.needs = FALSE] \in Loop
    BY <1>0 DEF Loop
<1>4. np' \in [Slots -> Loop]
    BY <1>3, ZenonT(60) DEF FinishFrame, LoopType
<1>5. frame' \in [Slots -> BOOLEAN]
    BY DEF FinishFrame, LoopType
<1> QED BY <1>2, <1>4, <1>5 DEF LoopType, FinishFrame, orderVars

\* The save that is polled for, and the load.
LEMMA RequestPolledType ==
    ASSUME LoopType, NEW p \in Slots, PollSave(p) \/ PollLoad(p) \/ MaybeStageTargetSave(p)
    PROVE  LoopType'
<1>0. /\ ss[p] \in Requests /\ ss \in [Slots -> Requests] /\ np \in [Slots -> Loop] /\ np[p] \in Loop
      /\ disk \in [Slots -> [Saves -> Nat]] /\ game \in [Slots -> Nat]
    BY DEF LoopType
<1>1. CASE PollSave(p)
    <2> DEFINE s == ss[p].save[1]
    <2>1. s \in Saves \cup {0}
        BY <1>0, <1>1 DEF PollSave, Requests
    <2>2. game[p] \in Nat /\ NoFile \in Nat /\ \A t \in Saves : disk[p][t] \in Nat
        BY <1>0, SMTT(40) DEF NoFile
    <2>3. ss' \in [Slots -> Requests]
        <3>1. CASE ss' = [ss EXCEPT ![p].save = <<>>, ![p].save_failed = FALSE, ![p].pc = TRUE]
            <4>1. [ss[p] EXCEPT !.save = <<>>, !.save_failed = FALSE, !.pc = TRUE] \in Requests
                BY <1>0 DEF Requests
            <4> QED BY <1>0, <3>1, <4>1
        <3>2. CASE ss' = [ss EXCEPT ![p].save = <<>>, ![p].save_failed = TRUE, ![p].pc = FALSE]
            <4>1. [ss[p] EXCEPT !.save = <<>>, !.save_failed = TRUE, !.pc = FALSE] \in Requests
                BY <1>0 DEF Requests
            <4> QED BY <1>0, <3>2, <4>1
        <3> QED BY <1>1, <3>1, <3>2 DEF PollSave
    <2>4. \E v : disk' = [disk EXCEPT ![p][s] = v] /\ (s \in Saves => v \in Nat)
        <3>1. CASE disk' = [disk EXCEPT ![p][s] = game[p]]
            BY <3>1, <2>2
        <3>2. CASE \E left \in {disk[p][s], NoFile} : disk' = [disk EXCEPT ![p][s] = left]
            BY <3>2, <2>2
        <3> QED BY <1>1, <3>1, <3>2 DEF PollSave
    <2> HIDE DEF s
    <2>5. disk' \in [Slots -> [Saves -> Nat]]
        <3>1. PICK v : disk' = [disk EXCEPT ![p][s] = v] /\ (s \in Saves => v \in Nat)
            BY <2>4
        <3>2. [disk[p] EXCEPT ![s] = v] \in [Saves -> Nat]
            BY <1>0, <3>1
        <3> QED BY <1>0, <3>1, <3>2
    <2> QED BY <1>1, <2>3, <2>5 DEF LoopType, PollSave, inputVars, orderVars
<1>2. CASE PollLoad(p)
    <2>1. ss[p].load \in ({"SLOT"} \X Saves) \cup ({"BLOB"} \X Nat)
        BY <1>0, <1>2 DEF PollLoad, Requests
    <2>2. Restored(p) \in Nat
        BY <1>0, <2>1 DEF Restored
    <2>3. game' \in [Slots -> Nat]
        BY <1>0, <1>2, <2>2 DEF PollLoad
    <2>4. ss' \in [Slots -> Requests]
        <3>1. [ss[p] EXCEPT !.load = <<>>, !.loaded = TRUE] \in Requests
            BY <1>0 DEF Requests
        <3>2. [ss[p] EXCEPT !.load = <<>>, !.load_failed = TRUE] \in Requests
            BY <1>0 DEF Requests
        <3>3. CASE ss' = [ss EXCEPT ![p].load = <<>>, ![p].loaded = TRUE]
            BY <1>0, <3>1, <3>3
        <3>4. CASE ss' = [ss EXCEPT ![p].load = <<>>, ![p].load_failed = TRUE]
            BY <1>0, <3>2, <3>4
        <3> QED BY <1>2, <3>3, <3>4 DEF PollLoad
    <2> QED BY <1>2, <2>3, <2>4 DEF LoopType, PollLoad, inputVars, orderVars
<1>3. CASE MaybeStageTargetSave(p)
    <2>1. np[p].slot \in Saves \cup {0}
        BY <1>0 DEF Loop
    <2>2. RequestSave(p, np[p].slot) \in Requests
        BY <2>1, RequestsWith
    <2>3. np' \in [Slots -> Loop]
        BY <1>0, <1>3 DEF MaybeStageTargetSave, Loop
    <2>4. ss' \in [Slots -> Requests]
        BY <1>0, <1>3, <2>2 DEF MaybeStageTargetSave
    <2> QED BY <1>3, <2>3, <2>4 DEF LoopType, MaybeStageTargetSave, inputVars, orderVars
<1> QED BY <1>1, <1>2, <1>3

LEMMA PumpType ==
    ASSUME LoopType, SessionPump
    PROVE  LoopType'
<1>1. heard' \in [Guests -> Nat]
    <2>1. CASE UNCHANGED heard
        BY <2>1 DEF LoopType
    <2>2. CASE \E g \in Guests : GuestReceive(g)
        <3>1. PICK g \in Guests, m \in net : InOrder(g, m)
            BY <2>2 DEF GuestReceive
        <3>2. PICK i \in heard[g] .. Len(asked) : heard' = [heard EXCEPT ![g] = i]
            BY <3>1 DEF InOrder
        <3>3. i \in Nat
            BY AskedIs
        <3> QED BY <3>2, <3>3 DEF LoopType
    <2> QED BY <2>1, <2>2 DEF SessionPump
<1> QED BY <1>1 DEF LoopType, SessionPump, loopVars, inputVars

\* The host's phases, by the loop they leave.
LEMMA HostDriveType ==
    ASSUME LoopType, OrderInv, AskingInv, EpochInv, next_xfer_id \in Nat, HostDriveXfer
    PROVE  LoopType'
<1> DEFINE s == np[Host].slot
           Ordered == asked' \in Seq(Exch) /\ blobs' \in Seq(Blob) /\ heard' \in [Guests -> Nat]
<1>0. /\ Host \in Slots /\ np[Host] \in Loop /\ ss[Host] \in Requests
      /\ np \in [Slots -> Loop] /\ ss \in [Slots -> Requests] /\ card[Host] \in Nat
      /\ \A t \in Saves : disk[Host][t] \in Nat
    BY DEF LoopType, Slots
<1>s. np[Host].xfer \notin {"NONE", "MC_PROBE", "MC_SEND"} => s \in Saves
    BY DEF AskingInv, SendTrue
<1>u. UNCHANGED orderVars => Ordered
    BY DEF orderVars, LoopType
<1>i. Idle(Host) \in Loop
    BY <1>0 DEF Idle, Loop, Phases
<1>l. ASSUME NEW loop \in Loop, HostGoesOn(loop), ss' \in [Slots -> Requests],
             UNCHANGED inputVars, Ordered
      PROVE  LoopType'
    <2>1. np' \in [Slots -> Loop]
        BY <1>0, <1>l DEF HostGoesOn
    <2> QED BY <1>l, <2>1 DEF HostGoesOn, LoopType, inputVars
<1> HIDE DEF Ordered
<1>1. CASE DriveCards
    <2>1. CASE probe[Host].match
        <3>1. [Idle(Host) EXCEPT !.cards = TRUE] \in Loop
            BY <1>i DEF Loop
        <3> QED BY <1>0, <1>1, <1>l, <1>u, <2>1, <3>1 DEF DriveCards
    <2>2. CASE ~probe[Host].match
        <3>1. [np[Host] EXCEPT !.xfer = "MC_SEND"] \in Loop
            BY <1>0 DEF Loop, Phases
        <3>2. Ordered
            BY <1>0, <1>1, <2>2, SendType DEF DriveCards, Ordered
        <3> QED BY <1>0, <1>1, <1>l, <2>2, <3>1, <3>2 DEF DriveCards
    <2> QED BY <2>1, <2>2
<1>2. CASE AbortSave
    <2>1. [Idle(Host) EXCEPT !.staged = FALSE] \in Loop
        BY <1>i DEF Loop
    <2>2. [ss[Host] EXCEPT !.save_failed = FALSE] \in Requests
        BY <1>0 DEF Requests
    <2>3. ss' \in [Slots -> Requests]
        BY <1>0, <1>2, <2>2 DEF AbortSave
    <2> QED BY <1>2, <1>l, <1>u, <2>1, <2>3 DEF AbortSave
<1>3. CASE DriveSaveCoord
    <2>1. s \in Saves
        BY <1>3, <1>s DEF DriveSaveCoord, Answered
    <2>2. HashProbe("SAVE", s, disk[Host][s]) \in Probe
        BY <1>0, <2>1, Askables
    <2>3. Ordered
        BY <1>3, <2>2, AskType DEF DriveSaveCoord, Ordered
    <2>4. [np[Host] EXCEPT !.xfer = "SAVE_PROBE"] \in Loop
        BY <1>0 DEF Loop, Phases
    <2> QED BY <1>0, <1>3, <1>l, <2>3, <2>4 DEF DriveSaveCoord
<1>4. CASE DriveSaveProbe
    <2>1. CASE probe[Host].match
        BY <1>0, <1>4, <1>i, <1>l, <1>u, <2>1 DEF DriveSaveProbe
    <2>2. CASE ~probe[Host].match
        <3>1. [np[Host] EXCEPT !.xfer = "SAVE_SEND"] \in Loop
            BY <1>0 DEF Loop, Phases
        <3>2. s \in Saves
            BY <1>4, <1>s DEF DriveSaveProbe, Answered
        <3>3. Send("SAVE", s, disk[Host][s])
            BY <1>4, <2>2 DEF DriveSaveProbe
        <3>4. Ordered
            BY <1>0, <3>2, <3>3, SendType DEF Ordered
        <3> QED BY <1>0, <1>4, <1>l, <2>2, <3>1, <3>4 DEF DriveSaveProbe
    <2> QED BY <2>1, <2>2
<1>5. CASE DriveLoadProbe
    <2>1. s \in Saves
        BY <1>5, <1>s DEF DriveLoadProbe, Answered
    <2>2. CASE probe[Host].match
        <3>1. BeginLoadApply(Host, s) \in Loop /\ RequestLoad(Host, <<"SLOT", s>>) \in Requests
            BY <1>0, <2>1, LoopWith, RequestsWith
        <3>2. ss' \in [Slots -> Requests]
            BY <1>0, <1>5, <2>2, <3>1 DEF DriveLoadProbe
        <3> QED BY <1>5, <1>l, <1>u, <2>2, <3>1, <3>2 DEF DriveLoadProbe
    <2>3. CASE ~probe[Host].match
        <3>1. [np[Host] EXCEPT !.xfer = "LOAD_SEND", !.applied = FALSE, !.synced = FALSE] \in Loop
            BY <1>0 DEF Loop, Phases
        <3>2. Send("LOAD", s, disk[Host][s])
            BY <1>5, <2>3 DEF DriveLoadProbe
        <3>3. Ordered
            BY <1>0, <2>1, <3>2, SendType DEF Ordered
        <3> QED BY <1>0, <1>5, <1>l, <2>3, <3>1, <3>3 DEF DriveLoadProbe
    <2> QED BY <2>2, <2>3
<1>6. CASE DriveLoadReady
    <2>1. ~np[Host].synced => clock[Host].epoch + 1 <= MaxEpoch
        BY <1>6, EpochRoom DEF DriveLoadReady, Answered
    <2>2. /\ np' \in [Slots -> Loop] /\ clock' \in [Slots -> Clock]
          /\ sampled' \in [Slots -> [0 .. MaxEpoch -> Mark]] /\ UNCHANGED confirmed
        BY <1>0, <1>6, <2>1, CommitDoes DEF DriveLoadReady
    <2> QED BY <1>6, <2>2 DEF DriveLoadReady, LoopType, orderVars
<1> QED BY <1>1, <1>2, <1>3, <1>4, <1>5, <1>6 DEF HostDriveXfer

\* The blob p has whole.
LEMMA ReadyBlob ==
    ASSUME LoopType, OrderInv, next_xfer_id \in Nat, NEW p \in Slots, ApplyReady(p)
    PROVE  LET id == IF p = Host THEN tx.id ELSE rx[p].id
               b  == blobs[id]
           IN  /\ p = Host => tx.active /\ HostFinish
               /\ p # Host => p \in Guests /\ rx[p].active /\ GuestFinish(p)
               /\ id \in 1 .. next_xfer_id
               /\ b.data \in Nat /\ b.op \in {"SRAM", "SAVE", "LOAD"}
               /\ IF b.op = "SRAM" THEN b.data = card[Host] ELSE b.slot \in Saves
<1> DEFINE id == IF p = Host THEN tx.id ELSE rx[p].id
<1>1. /\ p = Host => tx.active /\ HostFinish
      /\ p # Host => p \in Guests /\ rx[p].active /\ GuestFinish(p)
    BY DEF ApplyReady, HostFinish, GuestFinish, Slots
<1>2. id \in 1 .. next_xfer_id
    BY <1>1, HostBlob, HeardBlob
<1> HIDE DEF id
<1>3. /\ blobs[id].data \in Nat /\ blobs[id].op \in {"SRAM", "SAVE", "LOAD"}
      /\ IF blobs[id].op = "SRAM" THEN blobs[id].data = card[Host] ELSE blobs[id].slot \in Saves
    BY <1>2, BlobsAre DEF OrderInv
<1> QED BY <1>1, <1>2, <1>3, SMTT(40) DEF id

LEMMA ApplyType ==
    ASSUME LoopType, OrderInv, next_xfer_id \in Nat, NEW p \in Slots,
           ApplyReady(p) \/ AbortLoad(p)
    PROVE  LoopType'
<1>0. /\ np[p] \in Loop /\ ss[p] \in Requests /\ np \in [Slots -> Loop] /\ ss \in [Slots -> Requests]
      /\ disk \in [Slots -> [Saves -> Nat]] /\ card \in [Slots -> Nat]
    BY DEF LoopType
<1>1. Idle(p) \in Loop
    BY <1>0 DEF Idle, Loop, Phases
<1>2. CASE ApplyReady(p)
    <2> DEFINE b == blobs[IF p = Host THEN tx.id ELSE rx[p].id]
    <2>1. /\ b.data \in Nat
          /\ IF b.op = "SRAM" THEN b.data = card[Host] ELSE b.slot \in Saves
        BY <1>2, ReadyBlob
    <2>2. UNCHANGED <<game, frame, over, inputVars, orderVars>>
        BY <1>2, ZenonT(60) DEF ApplyReady
    <2>3. /\ \/ /\ b.op = "SRAM"
                /\ card' = IF p = Host THEN card ELSE [card EXCEPT ![p] = b.data]
                /\ np' = [np EXCEPT ![p] = [Idle(p) EXCEPT !.cards = TRUE, !.needs = FALSE]]
                /\ UNCHANGED <<ss, disk>>
             \/ /\ b.op = "SAVE"
                /\ \E kept \in IF p = Host THEN {disk[p][b.slot]} ELSE {b.data, NoFile} :
                      disk' = [disk EXCEPT ![p][b.slot] = kept]
                /\ np' = [np EXCEPT ![p] = Idle(p)]
                /\ UNCHANGED <<ss, card>>
             \/ /\ b.op = "LOAD"
                /\ \E kept \in IF p = Host THEN {disk[p][b.slot]} ELSE {b.data, NoFile} :
                      disk' = [disk EXCEPT ![p][b.slot] = kept]
                /\ ss' = [ss EXCEPT ![p] = RequestLoad(p, IF p = Host THEN <<"SLOT", b.slot>>
                                                                      ELSE <<"BLOB", b.data>>)]
                /\ np' = [np EXCEPT ![p] = BeginLoadApply(p, b.slot)]
                /\ UNCHANGED card
        BY <1>2 DEF ApplyReady
    <2> HIDE DEF b
    <2>4. ASSUME b.op # "SRAM",
                 NEW kept \in IF p = Host THEN {disk[p][b.slot]} ELSE {b.data, NoFile},
                 disk' = [disk EXCEPT ![p][b.slot] = kept]
          PROVE  disk' \in [Slots -> [Saves -> Nat]]
        <3>1. kept \in Nat
            BY <1>0, <2>1, <2>4 DEF NoFile
        <3> QED BY <1>0, <2>1, <2>4, <3>1
    <2>5. CASE b.op = "SRAM"
        <3>1. [Idle(p) EXCEPT !.cards = TRUE, !.needs = FALSE] \in Loop
            BY <1>1 DEF Loop
        <3>2. np' \in [Slots -> Loop] /\ card' \in [Slots -> Nat] /\ UNCHANGED <<ss, disk>>
            BY <1>0, <2>1, <2>3, <2>5, <3>1
        <3> QED BY <2>2, <3>2 DEF LoopType, inputVars, orderVars
    <2>6. CASE b.op = "SAVE"
        <3>1. np' \in [Slots -> Loop] /\ UNCHANGED <<ss, card>>
            BY <1>0, <1>1, <2>3, <2>6
        <3>2. disk' \in [Slots -> [Saves -> Nat]]
            BY <2>3, <2>4, <2>6
        <3> QED BY <2>2, <3>1, <3>2 DEF LoopType, inputVars, orderVars
    <2>7. CASE b.op = "LOAD"
        <3> DEFINE from == IF p = Host THEN <<"SLOT", b.slot>> ELSE <<"BLOB", b.data>>
        <3>1. BeginLoadApply(p, b.slot) \in Loop /\ RequestLoad(p, from) \in Requests
            BY <2>1, <2>7, LoopWith, RequestsWith
        <3>2. /\ np' = [np EXCEPT ![p] = BeginLoadApply(p, b.slot)]
              /\ ss' = [ss EXCEPT ![p] = RequestLoad(p, from)] /\ UNCHANGED card
            BY <2>3, <2>7
        <3> HIDE DEF from
        <3>3. np' \in [Slots -> Loop] /\ ss' \in [Slots -> Requests]
            BY <1>0, <3>1, <3>2
        <3>4. disk' \in [Slots -> [Saves -> Nat]]
            BY <2>3, <2>4, <2>7
        <3> QED BY <2>2, <3>2, <3>3, <3>4 DEF LoopType, inputVars, orderVars
    <2> QED BY <2>3, <2>5, <2>6, <2>7
<1>3. CASE AbortLoad(p)
    <2>1. [Idle(p) EXCEPT !.applied = FALSE, !.replied = FALSE, !.synced = FALSE] \in Loop
        BY <1>1 DEF Loop
    <2>2. [ss[p] EXCEPT !.load_failed = FALSE] \in Requests
        BY <1>0 DEF Requests
    <2>3. np' \in [Slots -> Loop] /\ ss' \in [Slots -> Requests] /\ over' \in BOOLEAN
        BY <1>0, <1>3, <2>1, <2>2 DEF AbortLoad
    <2> QED BY <1>3, <2>3 DEF AbortLoad, LoopType, inputVars, orderVars
<1> QED BY <1>2, <1>3

LEMMA EnterReadyType ==
    ASSUME LoopType, SendTrue, NEW p \in Slots, EnterReady(p)
    PROVE  LoopType'
<1>0. /\ np[p] \in Loop /\ ss[p] \in Requests /\ np \in [Slots -> Loop] /\ ss \in [Slots -> Requests]
    BY DEF LoopType
<1>1. EnterLoadReady(p, np[p].slot) \in Loop
    BY <1>0 DEF EnterLoadReady, Loop, Phases
<1>2. [ss[p] EXCEPT !.loaded = FALSE] \in Requests
    BY <1>0 DEF Requests
<1>3. np' \in [Slots -> Loop] /\ ss' \in [Slots -> Requests]
    BY <1>0, <1>1, <1>2 DEF EnterReady
<1>4. asked' \in Seq(Exch) /\ blobs' \in Seq(Blob) /\ heard' \in [Guests -> Nat]
    <2>1. CASE p = Host
        <3>1. np[Host].slot \in Saves
            BY <2>1 DEF EnterReady, SendTrue
        <3>2. ReadyProbe(np[Host].slot) \in Probe /\ Ask(ReadyProbe(np[Host].slot))
            BY <2>1, <3>1, Askables DEF EnterReady
        <3> QED BY <3>2, AskType
    <2>2. CASE p # Host
        BY <2>2 DEF EnterReady, LoopType, orderVars
    <2> QED BY <2>1, <2>2
<1> QED BY <1>3, <1>4 DEF EnterReady, LoopType, inputVars

\* The host asks for its cards to be compared, a save or a load.
LEMMA HostAsksType ==
    ASSUME LoopType, StartCards \/ \E s \in Saves : AskSave(s) \/ AskLoad(s)
    PROVE  LoopType'
<1>0. /\ Host \in Slots /\ np[Host] \in Loop /\ np \in [Slots -> Loop] /\ card[Host] \in Nat
      /\ clock[Host].sim \in Nat /\ disk[Host] \in [Saves -> Nat]
    BY LoopIs DEF LoopType, Slots
<1>1. \E w \in Probe, loop \in Loop : Ask(w) /\ HostGoesOn(loop) /\ UNCHANGED <<ss, inputVars>>
    <2>1. CASE StartCards
        <3>1. HashProbe("SRAM", 0, card[Host]) \in Probe
            BY <1>0 DEF HashProbe, Probe
        <3>2. [np[Host] EXCEPT !.xfer = "MC_PROBE"] \in Loop
            BY <1>0 DEF Loop, Phases
        <3> QED BY <2>1, <3>1, <3>2 DEF StartCards
    <2>2. ASSUME NEW s \in Saves, AskSave(s)
          PROVE  \E w \in Probe, loop \in Loop :
                     Ask(w) /\ HostGoesOn(loop) /\ UNCHANGED <<ss, inputVars>>
        <3> DEFINE tick == clock[Host].sim + Delay + 2
        <3>1. tick \in Nat /\ CoordProbe(s, tick) \in Probe
            BY <1>0, ConstantsType, Askables
        <3>2. [np[Host] EXCEPT !.xfer = "SAVE_COORD", !.slot = s, !.target = tick,
                               !.staged = FALSE, !.acked = FALSE] \in Loop
            BY <1>0, <3>1 DEF Loop, Phases
        <3> QED BY <2>2, <3>1, <3>2 DEF AskSave
    <2>3. ASSUME NEW s \in Saves, AskLoad(s)
          PROVE  \E w \in Probe, loop \in Loop :
                     Ask(w) /\ HostGoesOn(loop) /\ UNCHANGED <<ss, inputVars>>
        <3>1. HashProbe("LOAD", s, disk[Host][s]) \in Probe
            BY <1>0, Askables
        <3>2. [np[Host] EXCEPT !.xfer = "LOAD_PROBE", !.slot = s, !.applied = FALSE] \in Loop
            BY <1>0 DEF Loop, Phases
        <3> QED BY <2>3, <3>1, <3>2 DEF AskLoad
    <2> QED BY <2>1, <2>2, <2>3
<1>2. PICK w \in Probe, loop \in Loop : Ask(w) /\ HostGoesOn(loop) /\ UNCHANGED <<ss, inputVars>>
    BY <1>1
<1>3. asked' \in Seq(Exch) /\ blobs' \in Seq(Blob) /\ heard' \in [Guests -> Nat]
    BY <1>2, AskType
<1>4. np' \in [Slots -> Loop]
    BY <1>0, <1>2 DEF HostGoesOn
<1> QED BY <1>2, <1>3, <1>4 DEF HostGoesOn, LoopType, inputVars

LEMMA LoopTypeStep ==
    ASSUME GeneralInv, BarrierNext
    PROVE  LoopType'
<1>0. /\ LoopType /\ OrderInv /\ AskingInv /\ EpochInv /\ MarksTrue /\ FrameTrue /\ SendTrue
      /\ next_xfer_id \in Nat
    BY DEF GeneralInv, InputInv, AskingInv, BarrierNext, IInv, TypeOK
<1>1. CASE SessionPump
    BY <1>0, <1>1, PumpType
<1>2. ASSUME NEW p \in Slots, LoopStep(p) PROVE LoopType'
    BY <1>0, <1>2, PollType, FinishFrameType, RequestPolledType, ApplyType, EnterReadyType
       DEF LoopStep
<1>3. ASSUME NEW g \in Guests, GuestHandleProbe(g) PROVE LoopType'
    BY <1>0, <1>3, AnswerType DEF LoopType, orderVars
<1>4. CASE HostDriveXfer
    BY <1>0, <1>4, HostDriveType
<1>5. CASE StartCards \/ \E s \in Saves : AskSave(s) \/ AskLoad(s)
    BY <1>0, <1>5, HostAsksType
<1> QED BY <1>1, <1>2, <1>3, <1>4, <1>5 DEF BarrierNext

-----------------------------------------------------------------------------
(* The order of the exchanges is kept *)

LEMMA AskedMore ==
    ASSUME LoopType, NEW x \in Exch, asked' = Append(asked, x)
    PROVE  /\ Len(asked)' = Len(asked) + 1 /\ Len(asked) \in Nat
           /\ Asked = 1 .. Len(asked) /\ Asked' = 1 .. Len(asked) + 1
           /\ \A i \in Asked : asked'[i] = asked[i]
           /\ asked'[Len(asked) + 1] = x
BY AppendIs DEF LoopType, Asked

\* What has been asked stays, whatever else a step does.
Longer == Len(asked) <= Len(asked)' /\ \A i \in Asked : asked'[i] = asked[i]

LEMMA LongerIs ==
    ASSUME LoopType, UNCHANGED asked \/ \E x \in Exch : asked' = Append(asked, x)
    PROVE  Longer
BY AskedIs, AskedMore DEF Longer

LEMMA GuestSame ==
    ASSUME LoopType, LoopType', Longer, NEW g \in Guests, GuestTrue(g), heard'[g] = heard[g],
           probe'[g] = probe[g], rx'[g] = rx[g], finished'[g] = finished[g],
           delivered'[g] = delivered[g], over => over'
    PROVE  GuestTrue(g)'
<1>1. heard[g] \in Nat /\ Len(asked) \in Nat /\ Len(asked)' \in Nat /\ Asked = 1 .. Len(asked)
    BY AskedIs DEF LoopType
<1>2. heard[g] <= Len(asked) /\ heard[g] <= Len(asked)'
    BY <1>1 DEF GuestTrue, Longer
<1>3. \A i \in 1 .. heard[g] : i \in Asked /\ asked'[i] = asked[i]
    BY <1>1, <1>2 DEF Longer
<1>4. heard[g] > 0 => asked'[heard[g]] = asked[heard[g]]
    BY <1>1, <1>3
<1> QED BY <1>2, <1>3, <1>4 DEF GuestTrue, Knows, At

LEMMA ReplySame ==
    ASSUME LoopType, LoopType', Longer, \A g \in Guests : GuestTrue(g),
           \A g \in Guests : heard[g] <= heard'[g],
           NEW m \in Packet, ReplyTrue(m)
    PROVE  ReplyTrue(m)'
<1> SUFFICES ASSUME m.type = "REPLY"
             PROVE  \E i \in 1 .. heard'[m.from] : asked'[i] = <<"PROBE", m.what>>
    BY DEF ReplyTrue
<1>1. m.from \in Guests
    BY PacketFields
<1>2. PICK i \in 1 .. heard[m.from] : asked[i] = <<"PROBE", m.what>>
    BY DEF ReplyTrue
<1>3. heard[m.from] \in Nat /\ heard'[m.from] \in Nat /\ heard[m.from] <= Len(asked)
    BY <1>1 DEF LoopType, GuestTrue
<1>4. i \in Asked /\ i \in 1 .. heard'[m.from]
    BY <1>1, <1>2, <1>3, AskedIs
<1>5. asked'[i] = asked[i]
    BY <1>4 DEF Longer
<1> QED BY <1>2, <1>4, <1>5

\* The host asks for something it has not asked for before.
LEMMA AskedOnceMore ==
    ASSUME LoopType, AskedOnce, NEW x \in Exch, asked' = Append(asked, x),
           \A i \in Asked : asked[i] # x
    PROVE  AskedOnce'
<1>1. /\ Asked = 1 .. Len(asked) /\ Asked' = 1 .. Len(asked) + 1 /\ Len(asked) \in Nat
      /\ \A i \in Asked : asked'[i] = asked[i]
      /\ asked'[Len(asked) + 1] = x
    BY AskedMore
<1>2. \A i \in Asked' : i \in Asked \/ i = Len(asked) + 1
    BY <1>1
<1> SUFFICES ASSUME NEW i \in Asked', NEW j \in Asked', asked'[i] = asked'[j]
             PROVE  i = j
    BY DEF AskedOnce
<1>3. CASE i \in Asked /\ j \in Asked
    BY <1>1, <1>3 DEF AskedOnce
<1>4. CASE i \notin Asked \/ j \notin Asked
    BY <1>1, <1>2, <1>4
<1> QED BY <1>3, <1>4

LEMMA OrderAsk ==
    ASSUME LoopType, LoopType', OrderInv, TypeOK, NEW w \in Probe, Askable(w), Ask(w),
           UNCHANGED card, over => over', \A i \in Asked : asked[i] # <<"PROBE", w>>
    PROVE  OrderInv'
<1> DEFINE x == <<"PROBE", w>>
<1>1. /\ ~tx.active /\ UNCHANGED <<tx, rx, next_xfer_id, finished, delivered, blobs, heard>>
      /\ probe' = [probe EXCEPT ![Host] = [active |-> TRUE, pending |-> FALSE, replied |-> FALSE,
                                           match |-> FALSE, what |-> w]]
      /\ net' = net \cup {AskProbe(w)}
      /\ asked' = Append(asked, x)
    BY DEF Ask, StateProbe, transferVars
<1>2. x \in Exch
    BY DEF Exch
<1>3. Longer
    BY <1>1, <1>2, LongerIs
<1>4. /\ Asked' = 1 .. Len(asked) + 1 /\ Asked = 1 .. Len(asked) /\ Len(asked) \in Nat
      /\ \A i \in Asked : asked'[i] = asked[i]
      /\ asked'[Len(asked) + 1] = x /\ Len(asked)' = Len(asked) + 1
    BY <1>1, <1>2, AskedMore
<1>5. /\ probe'[Host] = [active |-> TRUE, pending |-> FALSE, replied |-> FALSE,
                         match |-> FALSE, what |-> w]
      /\ \A g \in Guests : g \in Slots /\ probe'[g] = probe[g]
    BY <1>1, SlotsDiffer DEF TypeOK, Slots
<1>6. AskedOnce'
    BY <1>1, <1>2, AskedOnceMore DEF OrderInv
<1>7. AskedTrue'
    <2> SUFFICES ASSUME NEW i \in Asked'
                 PROVE  /\ asked'[i][1] = "XFER" => asked'[i][2] \in 1 .. next_xfer_id
                        /\ asked'[i][1] = "PROBE" => Askable(asked'[i][2])
        BY <1>1 DEF AskedTrue, Askable
    <2>1. CASE i \in Asked
        BY <1>4, <2>1 DEF OrderInv, AskedTrue
    <2>2. CASE i = Len(asked) + 1
        BY <1>4, <2>2
    <2> QED BY <1>4, <2>1, <2>2
<1>8. BlobsTrue'
    BY <1>1 DEF OrderInv, BlobsTrue
<1>9. \A g \in Guests : GuestTrue(g)'
    BY <1>1, <1>3, <1>5, GuestSame DEF OrderInv
<1>10. \A m \in net' : ReplyTrue(m)'
    <2> TAKE m \in net'
    <2>1. CASE m \in net
        <3>1. \A g \in Guests : heard[g] <= heard'[g]
            BY <1>1 DEF LoopType
        <3>2. m \in Packet /\ ReplyTrue(m)
            BY <2>1 DEF TypeOK, OrderInv
        <3> QED BY <1>3, <3>1, <3>2, ReplySame DEF OrderInv
    <2>2. CASE m = AskProbe(w)
        BY <2>2 DEF AskProbe, ReplyTrue
    <2> QED BY <1>1, <2>1, <2>2
<1>11. HostTrue'
    <2>1. asked' # <<>>
        BY <1>4
    <2> QED BY <1>1, <1>4, <1>5, <2>1 DEF HostTrue
<1> QED BY <1>6, <1>7, <1>8, <1>9, <1>10, <1>11 DEF OrderInv

LEMMA OrderSend ==
    ASSUME LoopType, LoopType', OrderInv, TypeOK, TypeOK',
           NEW op \in {"SRAM", "SAVE", "LOAD"}, NEW s \in Saves \cup {0}, NEW c \in Nat,
           Send(op, s, c), UNCHANGED card, over => over',
           IF op = "SRAM" THEN next_xfer_id = 0 /\ c = card[Host] ELSE s \in Saves
    PROVE  OrderInv' /\ tx'.active /\ tx'.id = next_xfer_id + 1
<1> DEFINE n == next_xfer_id + 1
           x == <<"XFER", n>>
           b == [op |-> op, slot |-> s, data |-> c]
           t == Fresh(n, 1)
<1>1. /\ next_xfer_id' = n
      /\ probe' = [probe EXCEPT ![Host] = Nothing]
      /\ UNCHANGED <<rx, finished, delivered, heard>>
      /\ blobs' = Append(blobs, b) /\ asked' = Append(asked, x)
      /\ DriveSender(t)
    BY DEF Send, StateBegin, Fresh
<1>2. n \in Nat /\ n > 0 /\ next_xfer_id \in Nat /\ x \in Exch /\ b \in Blob
    BY DEF TypeOK, Exch, Blob
<1>3. t \in TxState /\ t.id = n
    BY <1>2, ConstantsType, FreshType DEF TypeOK, Fresh
<1> HIDE DEF t
<1>4. /\ tx' \in TxState /\ tx'.id = n
      /\ \A m \in net' : m \in net \/ m = Begin(t.id, t.total) \/ \E i \in Nat : m = Chunk(t.id, i)
    BY <1>1, <1>3, DriveSenderDoes DEF TypeOK
<1>5. tx'.active
    BY <1>4 DEF TxState
<1>6. Longer
    BY <1>1, <1>2, LongerIs
<1> HIDE DEF x, b
<1>7. /\ Asked' = 1 .. Len(asked) + 1 /\ Asked = 1 .. Len(asked) /\ Len(asked) \in Nat
      /\ \A i \in Asked : asked'[i] = asked[i]
      /\ asked'[Len(asked) + 1] = x /\ Len(asked)' = Len(asked) + 1
    BY <1>1, <1>2, AskedMore
<1>8. AskedTrue /\ AskedOnce /\ BlobsTrue
    BY DEF OrderInv
<1>9. AskedOnce'
    <2>1. ASSUME NEW i \in Asked, asked[i] = x PROVE FALSE
        <3>1. asked[i][1] = "XFER" /\ asked[i][2] = n
            BY <2>1 DEF x
        <3>2. n \in 1 .. next_xfer_id
            BY <1>8, <3>1 DEF AskedTrue
        <3> QED BY <1>2, <3>2
    <2> QED BY <1>1, <1>2, <1>8, <2>1, AskedOnceMore
<1>10. AskedTrue'
    <2> SUFFICES ASSUME NEW i \in Asked'
                 PROVE  /\ asked'[i][1] = "XFER" => asked'[i][2] \in 1 .. n
                        /\ asked'[i][1] = "PROBE" => Askable(asked'[i][2])
        BY <1>1 DEF AskedTrue, Askable
    <2>1. CASE i \in Asked
        <3>1. 1 .. next_xfer_id \subseteq 1 .. n
            BY <1>2
        <3> QED BY <1>7, <1>8, <2>1, <3>1 DEF AskedTrue
    <2>2. CASE i = Len(asked) + 1
        BY <1>2, <1>7, <2>2 DEF x
    <2> QED BY <1>7, <2>1, <2>2
<1>11. BlobsTrue'
    <2>1. /\ blobs \in Seq(Blob) /\ Len(blobs) = next_xfer_id /\ DOMAIN blobs = 1 .. next_xfer_id
        BY <1>8 DEF LoopType, BlobsTrue
    <2>2. /\ Len(blobs)' = next_xfer_id + 1 /\ (DOMAIN blobs)' = 1 .. next_xfer_id + 1
          /\ \A i \in 1 .. next_xfer_id : blobs'[i] = blobs[i]
          /\ blobs'[next_xfer_id + 1] = b
        BY <1>1, <1>2, <2>1, AppendIs
    <2>3. b.op = op /\ b.slot = s /\ b.data = c
        BY DEF b
    <2> SUFFICES ASSUME NEW i \in 1 .. next_xfer_id + 1
                 PROVE  IF blobs'[i].op = "SRAM" THEN i = 1 /\ blobs'[i].data = card[Host]
                                                 ELSE blobs'[i].slot \in Saves
        BY <1>1, <2>2 DEF BlobsTrue
    <2>4. CASE i \in 1 .. next_xfer_id
        BY <1>8, <2>1, <2>2, <2>4 DEF BlobsTrue
    <2>5. CASE i = next_xfer_id + 1
        BY <2>2, <2>3, <2>5
    <2> QED BY <1>2, <2>4, <2>5
<1>12. \A g \in Guests : g \in Slots /\ probe'[g] = probe[g]
    BY <1>1, SlotsDiffer DEF TypeOK, Slots
<1>13. \A g \in Guests : GuestTrue(g)'
    BY <1>1, <1>6, <1>12, GuestSame DEF OrderInv
<1>14. \A m \in net' : ReplyTrue(m)'
    <2> TAKE m \in net'
    <2>1. CASE m \in net
        <3>1. \A g \in Guests : heard[g] <= heard'[g]
            BY <1>1 DEF LoopType
        <3>2. m \in Packet /\ ReplyTrue(m)
            BY <2>1 DEF TypeOK, OrderInv
        <3> QED BY <1>6, <3>1, <3>2, ReplySame DEF OrderInv
    <2>2. CASE m = Begin(t.id, t.total) \/ \E i \in Nat : m = Chunk(t.id, i)
        BY <2>2 DEF Begin, Chunk, ReplyTrue
    <2> QED BY <1>4, <2>1, <2>2
<1>15. HostTrue'
    <2>1. asked' # <<>>
        BY <1>7
    <2>2. ~probe'[Host].active
        BY <1>1 DEF TypeOK, Slots, Nothing
    <2> QED BY <1>4, <1>7, <2>1, <2>2 DEF HostTrue, x
<1> QED BY <1>4, <1>5, <1>9, <1>10, <1>11, <1>13, <1>14, <1>15 DEF OrderInv

\* A step that asks for nothing.
LEMMA OrderRest ==
    ASSUME LoopType, LoopType', OrderInv, TypeOK, UNCHANGED <<asked, blobs, next_xfer_id>>,
           card'[Host] = card[Host], \A g \in Guests : heard[g] <= heard'[g],
           \A g \in Guests : GuestTrue(g)', \A m \in net' : m \in net \/ ReplyTrue(m)', HostTrue'
    PROVE  OrderInv'
<1>1. Longer
    BY LongerIs
<1>2. \A m \in net' : ReplyTrue(m)'
    <2> TAKE m \in net'
    <2>1. CASE m \in net
        <3>1. m \in Packet /\ ReplyTrue(m)
            BY <2>1 DEF TypeOK, OrderInv
        <3> QED BY <1>1, <3>1, ReplySame DEF OrderInv
    <2> QED BY <2>1
<1>3. AskedOnce' /\ AskedTrue'
    BY DEF OrderInv, AskedOnce, AskedTrue, Askable, Asked
<1>4. BlobsTrue'
    BY DEF OrderInv, BlobsTrue
<1> QED BY <1>2, <1>3, <1>4 DEF OrderInv

\* What g is sent comes to it in the order of the host's asking.
LEMMA InOrderIs ==
    ASSUME LoopType, OrderInv, NEW g \in Guests, NEW m, InOrder(g, m)
    PROVE  \E i \in Asked :
               /\ heard[g] <= i /\ asked[i] = Exchange(m)
               /\ heard' = [heard EXCEPT ![g] = i] /\ heard'[g] = i
               /\ \A q \in Guests : heard[q] <= heard'[q]
               /\ \A q \in Guests : q # g => heard'[q] = heard[q]
               /\ \A j \in 1 .. heard[g] : asked[j] = Exchange(m) => heard' = heard
<1>1. heard \in [Guests -> Nat] /\ Len(asked) \in Nat /\ Asked = 1 .. Len(asked)
    BY AskedIs DEF LoopType
<1>2. PICK i \in heard[g] .. Len(asked) :
          i > 0 /\ asked[i] = Exchange(m) /\ heard' = [heard EXCEPT ![g] = i]
    BY DEF InOrder
<1>3. i \in Asked /\ heard[g] <= i /\ i \in Nat
    BY <1>1, <1>2
<1>4. ASSUME NEW j \in 1 .. heard[g], asked[j] = Exchange(m) PROVE heard' = heard
    <2>1. j \in Asked /\ heard[g] <= Len(asked)
        <3>1. GuestTrue(g)
            BY DEF OrderInv
        <3> QED BY <1>1, <1>4, <3>1 DEF GuestTrue
    <2>2. j = i
        BY <1>2, <1>3, <1>4, <2>1 DEF OrderInv, AskedOnce
    <2>3. i = heard[g]
        BY <1>1, <1>3, <2>2
    <2> QED BY <1>1, <1>2, <2>3
<1>5. /\ heard'[g] = i
      /\ \A q \in Guests : heard[q] <= heard'[q]
      /\ \A q \in Guests : q # g => heard'[q] = heard[q]
    BY <1>1, <1>2, <1>3
<1> QED BY <1>2, <1>3, <1>4, <1>5

LEMMA OrderReceive ==
    ASSUME LoopType, LoopType', OrderInv, IInv, ~over, NEW g \in Guests, GuestReceive(g),
           UNCHANGED <<loopVars, inputVars, blobs, asked>>
    PROVE  OrderInv'
<1>1. PICK m \in net : (OnBegin(g, m) \/ OnChunk(g, m) \/ OnProbe(g, m)) /\ InOrder(g, m)
    BY DEF GuestReceive
<1>2. PICK i \in Asked :
          /\ heard[g] <= i /\ asked[i] = Exchange(m)
          /\ heard'[g] = i
          /\ \A q \in Guests : heard[q] <= heard'[q]
          /\ \A q \in Guests : q # g => heard'[q] = heard[q]
          /\ \A j \in 1 .. heard[g] : asked[j] = Exchange(m) => heard' = heard
    BY <1>1, InOrderIs
<1>3. /\ UNCHANGED <<over, card, asked, blobs>> /\ TypeOK
      /\ heard \in [Guests -> Nat] /\ GuestTrue(g) /\ heard[g] <= Len(asked)
      /\ Len(asked) \in Nat /\ Asked = 1 .. Len(asked)
    BY AskedIs DEF loopVars, IInv, OrderInv, GuestTrue, LoopType
<1>4. g \in Slots /\ g # Host /\ Host \in Slots /\ \A q \in Guests : q \in Slots
    BY SlotsDiffer DEF Slots
<1>5. Longer
    BY <1>3, LongerIs
<1>6. \A j \in 1 .. heard[g] : j \in Asked /\ j \in 1 .. heard'[g]
    BY <1>2, <1>3
<1>d. ASSUME NEW id \in delivered[g] PROVE \E j \in 1 .. heard'[g] : asked[j] = <<"XFER", id>>
    BY <1>3, <1>6 DEF GuestTrue
<1>h. heard'[g] <= Len(asked) /\ heard'[g] > 0 /\ asked[heard'[g]] = Exchange(m)
    BY <1>2, <1>3
\* If g's exchange is the one it has heard of last already.
<1>s. ASSUME heard' = heard, probe'[g].active => probe[g].active /\ probe'[g].what = probe[g].what,
             rx'[g].active <=> rx[g].active, rx'[g].active => rx'[g].id = rx[g].id,
             finished'[g] = finished[g],
             \A id \in delivered'[g] : id \in delivered[g] \/ (rx[g].active /\ id = rx[g].id)
      PROVE  GuestTrue(g)'
    <2>1. \A id \in delivered'[g] : \E j \in 1 .. heard'[g] : asked[j] = <<"XFER", id>>
        <3> TAKE id \in delivered'[g]
        <3>1. CASE id \in delivered[g]
            BY <1>d, <3>1
        <3>2. CASE rx[g].active /\ id = rx[g].id
            <4>1. heard[g] > 0 /\ asked[heard[g]] = <<"XFER", id>>
                BY <1>3, <3>2 DEF GuestTrue, Knows, At
            <4>2. heard'[g] \in 1 .. heard'[g] /\ asked[heard'[g]] = <<"XFER", id>>
                BY <1>3, <1>s, <4>1
            <4> QED BY <4>2
        <3> QED BY <1>s, <3>1, <3>2
    <2> QED BY <1>3, <1>s, <2>1 DEF GuestTrue, Knows, At
<1>7. /\ GuestTrue(g)' /\ UNCHANGED <<tx, next_xfer_id>>
      /\ \A q \in Slots \ {g} : probe'[q] = probe[q]
      /\ \A q \in Guests \ {g} : /\ rx'[q] = rx[q] /\ finished'[q] = finished[q]
                                 /\ delivered'[q] = delivered[q]
      /\ \A n \in net' : n \in net \/ ReplyTrue(n)'
    <2>1. CASE OnBegin(g, m)
        <3>0. m.type = "BEGIN" /\ m.id \in 1 .. next_xfer_id /\ Exchange(m) = <<"XFER", m.id>>
            BY <1>1, <2>1 DEF OnBegin, IInv, TransferInv, NetTrue, IdTrue, Exchange
        <3>1. CASE ReAck(g, m)
            <4>1. m.id = finished[g] /\ net' = net \cup {Ack(g, m.id, m.total)}
                  /\ UNCHANGED <<tx, rx, next_xfer_id, finished, probe, delivered>>
                BY <3>1 DEF ReAck, Arrives, transferVars
            <4>2. finished[g] \in delivered[g]
                BY <3>0, <4>1 DEF IInv, TransferInv, FinishedTrue, TypeOK
            <4>3. heard' = heard
                BY <1>2, <1>3, <3>0, <4>1, <4>2, ZenonT(60) DEF GuestTrue
            <4>4. \A n \in net' : n \in net \/ ReplyTrue(n)'
                BY <4>1 DEF Ack, ReplyTrue
            <4> QED BY <1>s, <4>1, <4>3, <4>4
        <3>2. CASE AckAgain(g, m)
            <4>1. rx[g].active /\ rx[g].id = m.id /\ net' = net \cup {Ack(g, m.id, rx[g].contiguity)}
                  /\ UNCHANGED <<tx, rx, next_xfer_id, finished, probe, delivered>>
                BY <3>2 DEF AckAgain, Arrives, transferVars
            <4>2. heard' = heard
                <5>1. heard[g] > 0 /\ asked[heard[g]] = Exchange(m)
                    BY <1>3, <3>0, <4>1 DEF GuestTrue, Knows, At
                <5> QED BY <1>2, <1>3, <5>1
            <4>3. \A n \in net' : n \in net \/ ReplyTrue(n)'
                BY <4>1 DEF Ack, ReplyTrue
            <4> QED BY <1>s, <4>1, <4>2, <4>3
        <3>3. CASE Open(g, m)
            <4>1. /\ net' = net \cup {Ack(g, m.id, 0)}
                  /\ UNCHANGED <<tx, next_xfer_id, finished, delivered>>
                  /\ probe' = [probe EXCEPT ![g] = Nothing]
                BY <3>3 DEF Open, Arrives
            <4>2. /\ rx'[g].active /\ rx'[g].id = m.id
                  /\ \A q \in Guests \ {g} : rx'[q] = rx[q]
                BY <1>3, <3>3 DEF Open, TypeOK
            <4>3. ~probe'[g].active /\ \A q \in Slots \ {g} : probe'[q] = probe[q]
                BY <1>3, <1>4, <4>1 DEF TypeOK, Nothing
            <4>4. GuestTrue(g)'
                <5>1. \A id \in delivered'[g] : \E j \in 1 .. heard'[g] : asked[j] = <<"XFER", id>>
                    BY <1>d, <4>1
                <5>2. asked[heard'[g]] = <<"XFER", rx'[g].id>> /\ heard'[g] > 0
                    BY <1>h, <3>0, <4>2
                <5>3. UNCHANGED asked /\ heard'[g] <= Len(asked)
                    BY <1>3, <1>h
                <5> QED BY <4>2, <4>3, <5>1, <5>2, <5>3, ZenonT(60) DEF GuestTrue, Knows, At
            <4>5. \A n \in net' : n \in net \/ ReplyTrue(n)'
                BY <4>1 DEF Ack, ReplyTrue
            <4> QED BY <4>1, <4>2, <4>3, <4>4, <4>5
        <3> QED BY <2>1, <3>1, <3>2, <3>3 DEF OnBegin
    <2>2. CASE OnChunk(g, m)
        <3>1. /\ rx[g].active /\ m.type = "CHUNK" /\ m.id = rx[g].id
              /\ UNCHANGED <<tx, next_xfer_id, finished, probe>>
            BY <2>2 DEF OnChunk
        <3>2. /\ \A q \in Guests \ {g} : rx'[q] = rx[q] /\ delivered'[q] = delivered[q]
              /\ \A id \in delivered'[g] : id \in delivered[g] \/ id = m.id
              /\ \A n \in net' : n \in net \/ n.type = "ACK"
            BY <1>3, <2>2 DEF OnChunk, TypeOK, Arrives, Ack
        <3>3. rx'[g].active /\ rx'[g].id = rx[g].id
            <4> DEFINE r == Taken(g, m)
            <4>1. m \in Packet /\ m.id \in Nat /\ m.off \in Nat /\ rx[g] \in RxState
                  /\ m.off < rx[g].total
                BY <1>3, <2>2, <3>1, RxActive, PacketFields DEF OnChunk, TypeOK
            <4>2. r \in Rx(rx[g].total) /\ r.active = TRUE /\ r.id = rx[g].id
                BY <4>1, TakenType
            <4>3. \E bad, n : rx' = [rx EXCEPT ![g] = IF bad THEN [r EXCEPT !.contiguity = 0]
                                                     ELSE [r EXCEPT !.ready = n]]
                BY <2>2 DEF OnChunk, Taken
            <4> HIDE DEF r
            <4> QED BY <1>3, <4>2, <4>3 DEF TypeOK, Rx
        <3>4. heard' = heard
            <4>1. heard[g] > 0 /\ asked[heard[g]] = Exchange(m)
                BY <1>3, <3>1 DEF GuestTrue, Knows, At, Exchange
            <4> QED BY <1>2, <1>3, <4>1
        <3>5. \A n \in net' : n \in net \/ ReplyTrue(n)'
            BY <3>2 DEF ReplyTrue
        <3> QED BY <1>s, <3>1, <3>2, <3>3, <3>4, <3>5
    <2>3. CASE OnProbe(g, m)
        <3>0. ~rx[g].active /\ m.type = "PROBE" /\ UNCHANGED <<tx, rx, next_xfer_id, finished, delivered>>
              /\ Exchange(m) = <<"PROBE", m.what>>
            BY <2>3 DEF OnProbe, Surface, transferVars, Exchange
        <3>1. CASE probe[g].active /\ ~probe[g].pending /\ probe[g].what = m.what
            <4>1. /\ net' = net \cup {Reply(g, m.what, probe[g].match)} /\ UNCHANGED probe
                BY <2>3, <3>1 DEF OnProbe, Surface, Arrives
            <4>2. heard[g] > 0 /\ asked[heard[g]] = <<"PROBE", m.what>>
                BY <1>3, <3>1 DEF GuestTrue, Knows, At
            <4>3. heard' = heard
                BY <1>2, <1>3, <3>0, <4>2
            <4>4. \A n \in net' : n \in net \/ ReplyTrue(n)'
                BY <1>3, <4>1, <4>2, <4>3 DEF Reply, ReplyTrue
            <4> QED BY <1>s, <3>0, <4>1, <4>3, <4>4
        <3>2. CASE ~(probe[g].active /\ ~probe[g].pending /\ probe[g].what = m.what)
            <4>1. /\ net' = net
                  /\ probe' = [probe EXCEPT ![g] = [active |-> TRUE, pending |-> TRUE,
                                  replied |-> FALSE, match |-> FALSE, what |-> m.what]]
                BY <2>3, <3>2 DEF OnProbe, Surface, Arrives
            <4>2. probe'[g].what = m.what /\ \A q \in Slots \ {g} : probe'[q] = probe[q]
                BY <1>3, <1>4, <4>1 DEF TypeOK
            <4>3. asked[heard'[g]] = <<"PROBE", m.what>> /\ asked[heard'[g]][1] # "XFER"
                BY <1>h, <3>0
            <4>4. GuestTrue(g)'
                BY <1>3, <1>d, <1>h, <3>0, <4>2, <4>3 DEF GuestTrue, Knows, At
            <4> QED BY <3>0, <4>1, <4>2, <4>4
        <3> QED BY <3>1, <3>2
    <2> QED BY <1>1, <2>1, <2>2, <2>3
<1>8. \A q \in Guests : GuestTrue(q)'
    <2> TAKE q \in Guests
    <2>1. CASE q = g
        BY <1>7, <2>1
    <2>2. CASE q # g
        <3>1. q \in Slots \ {g} /\ q \in Guests \ {g}
            BY <1>4, <2>2
        <3> QED BY <1>2, <1>3, <1>5, <1>7, <2>2, <3>1, GuestSame DEF OrderInv
    <2> QED BY <2>1, <2>2
<1>9. HostTrue'
    <2>1. probe'[Host] = probe[Host]
        BY <1>4, <1>7
    <2> QED BY <1>3, <1>7, <2>1 DEF OrderInv, HostTrue
<1> QED BY <1>2, <1>3, <1>7, <1>8, <1>9, OrderRest

\* The session's own steps on the host, and the ends of probes and transfers.
LEMMA HostPumpDoes ==
    ASSUME TypeOK, Pump \/ HostReceive \/ ProbeFinish \/ HostFinish
    PROVE  /\ UNCHANGED <<rx, next_xfer_id, finished, delivered>>
           /\ \A g \in Guests : probe'[g] = probe[g]
           /\ probe'[Host].active => probe[Host].active /\ probe'[Host].what = probe[Host].what
           /\ tx'.active => tx.active /\ tx'.id = tx.id
           /\ \A m \in net' : m \in net \/ m.type # "REPLY"
<1>0. Host \in Slots /\ \A g \in Guests : g \in Slots /\ g # Host
    BY SlotsDiffer DEF Slots
<1>1. CASE Pump
    <2>1. tx.active /\ DriveSender(tx) /\ UNCHANGED <<rx, next_xfer_id, finished, probe, delivered>>
        BY <1>1 DEF Pump
    <2>2. tx \in TxState
        BY <2>1, TxActive
    <2>3. tx'.id = tx.id
          /\ \A m \in net' : m \in net \/ m = Begin(tx.id, tx.total) \/ \E i \in Nat : m = Chunk(tx.id, i)
        BY <2>1, <2>2, DriveSenderDoes DEF TypeOK
    <2> QED BY <2>1, <2>3 DEF Begin, Chunk
<1>2. CASE HostReceive
    <2>1. PICK m \in net : OnAck(m) \/ OnProbeReply(m)
        BY <1>2 DEF HostReceive
    <2>2. CASE OnAck(m)
        <3>1. tx \in TxState
            BY <2>2, TxActive DEF OnAck
        <3>2. tx'.id = tx.id
            BY <2>2, <3>1 DEF OnAck, TxState
        <3> QED BY <2>2, <3>2 DEF OnAck, Arrives
    <2>3. CASE OnProbeReply(m)
        <3>1. probe[Host] \in ProbeState
            BY <1>0, <2>3, ProbeActive DEF OnProbeReply
        <3>2. probe'[Host].what = probe[Host].what /\ \A g \in Guests : probe'[g] = probe[g]
            BY <1>0, <2>3, <3>1 DEF OnProbeReply, TypeOK, ProbeState
        <3> QED BY <2>3, <3>2 DEF OnProbeReply, Arrives, transferVars
    <2> QED BY <2>1, <2>2, <2>3
<1>3. CASE ProbeFinish
    <2>1. ~probe'[Host].active /\ \A g \in Guests : probe'[g] = probe[g]
        BY <1>0, <1>3 DEF ProbeFinish, TypeOK, Nothing
    <2> QED BY <1>3, <2>1 DEF ProbeFinish, transferVars
<1>4. CASE HostFinish
    BY <1>4 DEF HostFinish, Nothing
<1> QED BY <1>1, <1>2, <1>3, <1>4

LEMMA OrderHostPump ==
    ASSUME LoopType, LoopType', OrderInv, TypeOK, Pump \/ HostReceive \/ ProbeFinish \/ HostFinish,
           UNCHANGED orderVars, card'[Host] = card[Host], over => over'
    PROVE  OrderInv'
<1>0. /\ UNCHANGED <<asked, blobs, heard>> /\ Longer
      /\ \A g \in Guests : heard[g] <= heard'[g]
    BY LongerIs DEF orderVars, LoopType
<1>1. /\ UNCHANGED <<rx, next_xfer_id, finished, delivered>>
      /\ \A g \in Guests : probe'[g] = probe[g]
      /\ probe'[Host].active => probe[Host].active /\ probe'[Host].what = probe[Host].what
      /\ tx'.active => tx.active /\ tx'.id = tx.id
      /\ \A m \in net' : m \in net \/ m.type # "REPLY"
    BY HostPumpDoes
<1>2. \A g \in Guests : GuestTrue(g)'
    BY <1>0, <1>1, GuestSame DEF OrderInv
<1>3. HostTrue'
    BY <1>0, <1>1 DEF OrderInv, HostTrue
<1>4. \A m \in net' : m \in net \/ ReplyTrue(m)'
    BY <1>1 DEF ReplyTrue
<1> QED BY <1>0, <1>1, <1>2, <1>3, <1>4, OrderRest

\* g's game answers a probe it has heard of last.
LEMMA OrderReply ==
    ASSUME LoopType, LoopType', OrderInv, TypeOK, NEW g \in Guests, NEW yes \in BOOLEAN,
           ProbeReply(g, yes), UNCHANGED orderVars, UNCHANGED card, UNCHANGED over
    PROVE  OrderInv'
<1> DEFINE w == probe[g].what
<1>0. /\ UNCHANGED <<asked, blobs, heard>> /\ Longer /\ g \in Slots /\ g # Host /\ Host \in Slots
      /\ \A q \in Guests : heard[q] <= heard'[q]
      /\ \A q \in Guests : q \in Slots
      /\ probe[g].active
    BY LongerIs, SlotsDiffer DEF orderVars, LoopType, Slots, ProbeReply
<1>1. heard[g] \in Asked /\ At(g) = <<"PROBE", w>> /\ probe[g] \in ProbeState
    BY <1>0, HeardProbe, ProbeActive
<1>2. /\ UNCHANGED <<tx, rx, next_xfer_id, finished, delivered>>
      /\ net' = net \cup {Reply(g, w, yes)}
      /\ \E over_ : probe' = [probe EXCEPT ![g] =
             IF over_ THEN Nothing ELSE [@ EXCEPT !.pending = FALSE, !.match = yes]]
    BY DEF ProbeReply, transferVars
<1>3. /\ \A q \in Slots : q # g => probe'[q] = probe[q]
      /\ probe'[g].active => probe'[g].what = w
    BY <1>0, <1>1, <1>2 DEF TypeOK, ProbeState, Nothing
<1>4. \A q \in Guests : GuestTrue(q)'
    <2> TAKE q \in Guests
    <2>1. CASE q = g
        <3>1. GuestTrue(g)
            BY DEF OrderInv
        <3> QED BY <1>0, <1>2, <1>3, <2>1, <3>1 DEF GuestTrue, Knows, At
    <2>2. CASE q # g
        <3>1. probe'[q] = probe[q]
            BY <1>0, <1>3, <2>2
        <3> QED BY <1>0, <1>2, <3>1, GuestSame DEF OrderInv
    <2> QED BY <2>1, <2>2
<1>5. HostTrue'
    <2>1. probe'[Host] = probe[Host]
        BY <1>0, <1>3
    <2> QED BY <1>0, <1>2, <2>1 DEF OrderInv, HostTrue
<1>6. \A m \in net' : m \in net \/ ReplyTrue(m)'
    <2> SUFFICES ASSUME NEW m \in net', m = Reply(g, w, yes) PROVE ReplyTrue(m)'
        BY <1>2
    <2>1. heard[g] \in 1 .. heard[g] /\ asked[heard[g]] = <<"PROBE", w>>
        BY <1>1, AskedIs DEF At
    <2>2. m.from = g /\ m.what = w
        BY DEF Reply
    <2> QED BY <1>0, <2>1, <2>2 DEF ReplyTrue
<1> QED BY <1>0, <1>2, <1>4, <1>5, <1>6, OrderRest

\* A guest has used a whole transfer, or given up a load.
LEMMA OrderGuestEnds ==
    ASSUME LoopType, LoopType', OrderInv, TypeOK, NEW g \in Guests, UNCHANGED orderVars,
           card'[Host] = card[Host],
           \/ GuestFinish(g) /\ UNCHANGED over
           \/ /\ UNCHANGED <<tx, rx, next_xfer_id, probe, net, delivered>> /\ over'
              /\ \E q \in Slots : FinishIdle(q)
    PROVE  OrderInv'
<1>0. /\ UNCHANGED <<asked, blobs, heard>> /\ Longer
      /\ \A q \in Guests : heard[q] <= heard'[q]
    BY LongerIs DEF orderVars, LoopType
<1>1. UNCHANGED <<tx, probe, net, delivered, next_xfer_id>>
    BY DEF GuestFinish
<1>2. \A q \in Guests : GuestTrue(q)'
    <2> TAKE q \in Guests
    <2>0. GuestTrue(q)
        BY DEF OrderInv
    <2>1. CASE GuestFinish(g) /\ UNCHANGED over
        <3>1. CASE q = g
            <4>1. rx[g].active /\ ~rx'[g].active /\ finished'[g] = rx[g].id
                BY <2>1 DEF GuestFinish, TypeOK, Nothing
            <4>2. At(g) = <<"XFER", rx[g].id>>
                BY <4>1, HeardBlob
            <4>3. finished'[g] = asked[heard[g]][2]
                BY <4>1, <4>2 DEF At
            <4>4. heard'[g] = heard[g] /\ probe'[g] = probe[g] /\ delivered'[g] = delivered[g]
                BY <1>0, <1>1
            <4> QED BY <1>0, <2>0, <3>1, <4>1, <4>3, <4>4 DEF GuestTrue, Knows, At
        <3>2. CASE q # g
            <4>1. rx'[q] = rx[q] /\ finished'[q] = finished[q]
                BY <2>1, <3>2 DEF GuestFinish, TypeOK
            <4> QED BY <1>0, <1>1, <2>0, <2>1, <4>1, GuestSame
        <3> QED BY <3>1, <3>2
    <2>2. CASE UNCHANGED rx /\ over'
        BY <1>0, <1>1, <2>0, <2>2 DEF GuestTrue, Knows, At
    <2> QED BY <2>1, <2>2
<1>3. HostTrue'
    BY <1>0, <1>1 DEF OrderInv, HostTrue
<1> QED BY <1>0, <1>1, <1>2, <1>3, OrderRest

LEMMA OrderQuiet ==
    ASSUME OrderInv, UNCHANGED <<orderVars, sessionVars, card, over>>
    PROVE  OrderInv'
BY DEF OrderInv, AskedOnce, AskedTrue, Askable, Asked, BlobsTrue, GuestTrue, Knows, At, ReplyTrue,
       HostTrue, orderVars, sessionVars, transferVars

\* What the host asks for next it has not asked for before.
LEMMA NotAskedYet ==
    ASSUME LoopType, OrderInv, AskingInv
    PROVE  /\ StartCards => asked = <<>>
           /\ np[Host].xfer = "SAVE_COORD" =>
                 \A c : \A i \in Asked : asked[i] # <<"PROBE", HashProbe("SAVE", np[Host].slot, c)>>
           /\ np[Host].xfer = "LOAD_APPLYING" =>
                 \A i \in Asked : asked[i] # <<"PROBE", ReadyProbe(np[Host].slot)>>
           /\ \A n : \A s \in Saves : AskSave(s) => \A i \in Asked : asked[i] # <<"PROBE", CoordProbe(s, n)>>
           /\ \A c : \A s \in Saves : AskLoad(s) =>
                 \A i \in Asked : asked[i] # <<"PROBE", HashProbe("LOAD", s, c)>>
<1>1. StartCards => asked = <<>>
    BY DEF StartCards, AskingInv, CardsFirst
<1>2. ASSUME np[Host].xfer = "SAVE_COORD", NEW i \in Asked, NEW c,
             asked[i] = <<"PROBE", HashProbe("SAVE", np[Host].slot, c)>>
      PROVE  FALSE
    <2>1. asked[i][1] = "PROBE" /\ IsHash("SAVE", asked[i][2])
        BY <1>2 DEF IsHash, HashProbe
    <2> QED BY <1>2, <2>1 DEF AskingInv, SaveOnce, HasHashSave
<1>3. ASSUME np[Host].xfer = "LOAD_APPLYING", NEW i \in Asked,
             asked[i] = <<"PROBE", ReadyProbe(np[Host].slot)>>
      PROVE  FALSE
    <2>1. np[Host].slot \in Saves /\ i \in 1 .. Len(asked)
        BY <1>3, AskedIs DEF AskingInv, SendTrue
    <2>2. np[Host].slot \in ReadyAsked(Len(asked))
        BY <1>3, <2>1 DEF ReadyAsked
    <2> QED BY <1>3, <2>2 DEF AskingInv, LoadOnce
<1>4. ASSUME NEW s \in Saves, NEW n, AskSave(s), NEW i \in Asked, asked[i] = <<"PROBE", CoordProbe(s, n)>>
      PROVE  FALSE
    <2>1. asked[i][1] = "PROBE" /\ asked[i][2].op = "SAVE" /\ asked[i][2].size = 0
        BY <1>4 DEF CoordProbe
    <2>2. i \in AskedFor
        BY <2>1 DEF AskedFor, Asked
    <2> QED BY <1>4, <2>1, <2>2 DEF AskSave
<1>5. ASSUME NEW s \in Saves, NEW c, AskLoad(s), NEW i \in Asked,
             asked[i] = <<"PROBE", HashProbe("LOAD", s, c)>>
      PROVE  FALSE
    <2>1. /\ asked[i][1] = "PROBE" /\ asked[i][2].op = "LOAD" /\ asked[i][2].size = 1
          /\ asked[i][2].slot = s
        BY <1>5 DEF HashProbe
    <2>2. i \in AskedFor
        BY <2>1 DEF AskedFor, Asked
    <2> QED BY <1>5, <2>1, <2>2 DEF AskLoad
<1> QED BY <1>1, <1>2, <1>3, <1>4, <1>5

LEMMA OrderStep ==
    ASSUME GeneralInv, BarrierNext, LoopType'
    PROVE  OrderInv'
<1>0. /\ LoopType /\ OrderInv /\ AskingInv /\ SendTrue /\ IInv /\ TypeOK /\ ~over
      /\ next_xfer_id \in Nat
    BY DEF GeneralInv, AskingInv, BarrierNext, IInv, TypeOK
<1>h. Host \in Slots /\ \A p \in Slots : p # Host => p \in Guests
    BY DEF Slots
<1>s. np[Host].xfer \notin {"NONE", "MC_PROBE", "MC_SEND"} => np[Host].slot \in Saves
    BY <1>0 DEF SendTrue
<1>d. \A s \in Saves : disk[Host][s] \in Nat
    BY <1>0, <1>h, LoopIs
<1>t. TypeOK' \/ over'
    BY <1>0, SessionMoves, TypeStep
<1>q. ASSUME UNCHANGED <<orderVars, sessionVars, card, over>> PROVE OrderInv'
    BY <1>0, <1>q, OrderQuiet
<1>1. CASE SessionPump
    <2>1. CASE UNCHANGED heard
        BY <1>0, <1>1, <2>1, OrderHostPump, OrderReceive DEF SessionPump, loopVars, orderVars
    <2>2. CASE \E g \in Guests : GuestReceive(g)
        BY <1>0, <1>1, <2>2, OrderReceive DEF SessionPump
    <2> QED BY <1>1, <2>1, <2>2 DEF SessionPump
<1>2. ASSUME NEW p \in Slots, LoopStep(p) PROVE OrderInv'
    <2>1. CASE Poll(p) \/ FinishFrame(p) \/ PollSave(p) \/ PollLoad(p) \/ MaybeStageTargetSave(p)
        BY <2>1, <1>q DEF Poll, FinishFrame, PollSave, PollLoad, MaybeStageTargetSave
    <2>2. CASE ApplyReady(p)
        <3>1. card'[Host] = card[Host] /\ UNCHANGED <<over, orderVars>>
            BY <1>0, <1>h, <2>2 DEF ApplyReady, LoopType
        <3>2. CASE p = Host
            BY <1>0, <2>2, <3>1, <3>2, OrderHostPump DEF ApplyReady
        <3>3. CASE p # Host
            <4>1. p \in Guests /\ GuestFinish(p)
                BY <1>h, <2>2, <3>3 DEF ApplyReady
            <4> QED BY <1>0, <3>1, <4>1, OrderGuestEnds, SMTT(40)
        <3> QED BY <3>2, <3>3, SMTT(40)
    <2>3. CASE EnterReady(p)
        <3>1. CASE p = Host
            <4> DEFINE w == ReadyProbe(np[Host].slot)
            <4>1. np[Host].xfer = "LOAD_APPLYING" /\ np[Host].slot \in Saves /\ Ask(w)
                BY <1>s, <2>3, <3>1 DEF EnterReady
            <4>2. w \in Probe /\ Askable(w) /\ \A i \in Asked : asked[i] # <<"PROBE", w>>
                BY <1>0, <4>1, Askables, NotAskedYet
            <4>3. UNCHANGED <<card, over>>
                BY <2>3 DEF EnterReady
            <4> HIDE DEF w
            <4> QED BY <1>0, <4>1, <4>2, <4>3, OrderAsk
        <3>2. CASE p # Host
            BY <1>q, <2>3, <3>2 DEF EnterReady
        <3> QED BY <3>1, <3>2
    <2>4. CASE AbortLoad(p)
        <3>1. /\ UNCHANGED orderVars /\ UNCHANGED <<tx, rx, next_xfer_id, probe, net, delivered, card>>
              /\ over' /\ FinishIdle(p)
            BY <2>4 DEF AbortLoad
        <3>2. CASE Guests = {}
            BY <1>0, <3>1, <3>2 DEF OrderInv, AskedOnce, AskedTrue, Askable, Asked, BlobsTrue,
               ReplyTrue, HostTrue, orderVars
        <3>3. CASE Guests # {}
            BY <1>0, <3>1, <3>3, OrderGuestEnds
        <3> QED BY <3>2, <3>3
    <2> QED BY <1>2, <2>1, <2>2, <2>3, <2>4 DEF LoopStep
<1>3. ASSUME NEW g \in Guests, GuestHandleProbe(g) PROVE OrderInv'
    <2>1. CASE ArmSave(g)
        BY <1>q, <2>1 DEF ArmSave
    <2>2. CASE ~ArmSave(g)
        <3>1. /\ \E yes \in BOOLEAN : ProbeReply(g, yes)
              /\ UNCHANGED orderVars /\ UNCHANGED card /\ UNCHANGED over
            BY <1>3, <2>2 DEF GuestHandleProbe, AnswerReady, AnswerSave, AnswerCards, AnswerHash
        <3> QED BY <1>0, <3>1, OrderReply, SMTT(40)
    <2> QED BY <2>1, <2>2
<1>p. ASSUME ProbeFinish, UNCHANGED orderVars, UNCHANGED <<card, over>> PROVE OrderInv'
    BY <1>0, <1>p, OrderHostPump
<1>x. ASSUME NEW op \in {"SRAM", "SAVE", "LOAD"}, NEW s \in Saves \cup {0}, NEW c \in Nat,
             Send(op, s, c), UNCHANGED <<card, over>>,
             IF op = "SRAM" THEN next_xfer_id = 0 /\ c = card[Host] ELSE s \in Saves
      PROVE  OrderInv'
    BY <1>0, <1>t, <1>x, OrderSend
<1>a. ASSUME NEW w \in Probe, Askable(w), Ask(w), UNCHANGED <<card, over>>,
             \A i \in Asked : asked[i] # <<"PROBE", w>>
      PROVE  OrderInv'
    BY <1>0, <1>a, OrderAsk
<1>4. CASE HostDriveXfer
    <2>1. CASE DriveCards
        <3>1. card[Host] \in Nat /\ next_xfer_id = 0
            BY <1>0, <1>h, <2>1, LoopIs DEF DriveCards, Answered, AskingInv, CardsFirst
        <3> QED BY <1>p, <1>x, <2>1, <3>1 DEF DriveCards, HostGoesOn
    <2>2. CASE AbortSave
        BY <1>q, <2>2 DEF AbortSave, HostGoesOn
    <2>3. CASE DriveSaveCoord
        <3> DEFINE w == HashProbe("SAVE", np[Host].slot, disk[Host][np[Host].slot])
        <3>1. np[Host].xfer = "SAVE_COORD" /\ np[Host].slot \in Saves /\ Ask(w) /\ UNCHANGED <<card, over>>
            BY <1>s, <2>3 DEF DriveSaveCoord, Answered, HostGoesOn
        <3>2. w \in Probe /\ Askable(w) /\ \A i \in Asked : asked[i] # <<"PROBE", w>>
            BY <1>0, <1>d, <3>1, Askables, NotAskedYet
        <3> HIDE DEF w
        <3> QED BY <1>a, <3>1, <3>2
    <2>4. CASE DriveSaveProbe
        <3>1. np[Host].slot \in Saves
            BY <1>s, <2>4 DEF DriveSaveProbe, Answered
        <3> QED BY <1>d, <1>p, <1>x, <2>4, <3>1 DEF DriveSaveProbe, HostGoesOn
    <2>5. CASE DriveLoadProbe
        <3>1. np[Host].slot \in Saves
            BY <1>s, <2>5 DEF DriveLoadProbe, Answered
        <3> QED BY <1>d, <1>p, <1>x, <2>5, <3>1 DEF DriveLoadProbe, HostGoesOn
    <2>6. CASE DriveLoadReady
        BY <1>p, <2>6 DEF DriveLoadReady
    <2> QED BY <1>4, <2>1, <2>2, <2>3, <2>4, <2>5, <2>6 DEF HostDriveXfer
<1>5. CASE StartCards
    <2> DEFINE w == HashProbe("SRAM", 0, card[Host])
    <2>1. w \in Probe
        BY <1>0, <1>h, LoopIs DEF HashProbe, Probe
    <2>2. Askable(w) /\ Asked = {}
        BY <1>0, <1>5, AskedIs, NotAskedYet DEF Askable
    <2> QED BY <1>5, <1>a, <2>1, <2>2 DEF StartCards, HostGoesOn
<1>6. ASSUME NEW s \in Saves, AskSave(s) PROVE OrderInv'
    <2> DEFINE tick == clock[Host].sim + Delay + 2
    <2>1. tick \in Nat
        BY <1>0, <1>h, LoopIs, ConstantsType
    <2>2. Ask(CoordProbe(s, tick)) /\ UNCHANGED <<card, over>>
        BY <1>6 DEF AskSave, HostGoesOn
    <2> HIDE DEF tick
    <2>3. CoordProbe(s, tick) \in Probe /\ Askable(CoordProbe(s, tick))
        BY <2>1, Askables
    <2>4. \A i \in Asked : asked[i] # <<"PROBE", CoordProbe(s, tick)>>
        BY <1>0, <1>6, NotAskedYet
    <2> QED BY <1>a, <2>2, <2>3, <2>4
<1>7. ASSUME NEW s \in Saves, AskLoad(s) PROVE OrderInv'
    <2> DEFINE c == disk[Host][s]
    <2>1. c \in Nat
        BY <1>d
    <2>2. Ask(HashProbe("LOAD", s, c)) /\ UNCHANGED <<card, over>>
        BY <1>7 DEF AskLoad, HostGoesOn
    <2> HIDE DEF c
    <2>3. HashProbe("LOAD", s, c) \in Probe /\ Askable(HashProbe("LOAD", s, c))
        BY <2>1, Askables
    <2>4. \A i \in Asked : asked[i] # <<"PROBE", HashProbe("LOAD", s, c)>>
        BY <1>0, <1>7, NotAskedYet
    <2> QED BY <1>a, <2>2, <2>3, <2>4
<1> QED BY <1>1, <1>2, <1>3, <1>4, <1>5, <1>6, <1>7 DEF BarrierNext

-----------------------------------------------------------------------------
(* What the host asks for is bounded, and in its order *)

LEMMA AskedSets ==
    ASSUME LoopType, NEW x \in Exch, asked' = Append(asked, x)
    PROVE  /\ HasCoord' <=> HasCoord \/ (x[1] = "PROBE" /\ IsCoord(x[2]))
           /\ HasHashSave' <=> HasHashSave \/ (x[1] = "PROBE" /\ IsHash("SAVE", x[2]))
           /\ LoadsAsked' = LoadsAsked \cup {s \in Saves : /\ x[1] = "PROBE" /\ IsHash("LOAD", x[2])
                                                          /\ x[2].slot = s}
           /\ ReadyAsked(Len(asked))' = ReadyAsked(Len(asked))
                                        \cup {s \in Saves : x = <<"PROBE", ReadyProbe(s)>>}
<1>1. /\ Len(asked)' = Len(asked) + 1 /\ Len(asked) \in Nat
      /\ Asked = 1 .. Len(asked) /\ Asked' = 1 .. Len(asked) + 1
      /\ \A i \in Asked : asked'[i] = asked[i]
      /\ asked'[Len(asked) + 1] = x
    BY AskedMore
<1>2. \A i : i \in Asked' <=> i \in Asked \/ i = Len(asked) + 1
    BY <1>1
<1>3. Len(asked) + 1 \notin Asked
    BY <1>1
<1>4. HasCoord' <=> HasCoord \/ (x[1] = "PROBE" /\ IsCoord(x[2]))
    BY <1>1, <1>2 DEF HasCoord, IsCoord
<1>5. HasHashSave' <=> HasHashSave \/ (x[1] = "PROBE" /\ IsHash("SAVE", x[2]))
    BY <1>1, <1>2 DEF HasHashSave, IsHash
<1>6. LoadsAsked' = LoadsAsked \cup {s \in Saves : /\ x[1] = "PROBE" /\ IsHash("LOAD", x[2])
                                                  /\ x[2].slot = s}
    BY <1>1, <1>2 DEF LoadsAsked, IsHash
<1>7. ReadyAsked(Len(asked))' = ReadyAsked(Len(asked))
                                \cup {s \in Saves : x = <<"PROBE", ReadyProbe(s)>>}
    <2>1. ReadyAsked(Len(asked)) = {s \in Saves : \E i \in Asked : asked[i] = <<"PROBE", ReadyProbe(s)>>}
        BY <1>1 DEF ReadyAsked
    <2>2. ReadyAsked(Len(asked))' = {s \in Saves : \E i \in Asked' : asked'[i] = <<"PROBE", ReadyProbe(s)>>}
        BY <1>1 DEF ReadyAsked
    <2> QED BY <1>1, <1>2, <2>1, <2>2
<1> QED BY <1>4, <1>5, <1>6, <1>7

LEMMA LoadsAreFinite == IsFiniteSet(LoadsAsked) /\ Cardinality(LoadsAsked) \in Nat
<1>1. LoadsAsked \subseteq Saves
    BY DEF LoadsAsked
<1> QED BY <1>1, ConstantsType, FS_Subset, FS_CardinalityType

\* Each exchange uses one of those the save or load under way may still take, or
\* starts the cards, the one save, or the load of a slot not loaded before.
LEMMA AskedBoundStep ==
    ASSUME LoopType, AskedBound, NEW x \in Exch, asked' = Append(asked, x),
           LET before == Left(np[Host].xfer)
               after  == Left(np'[Host].xfer)
           IN  \/ after + 1 <= before
               \/ asked = <<>> /\ before = 0 /\ after <= 1
               \/ ~HasCoord /\ x[1] = "PROBE" /\ IsCoord(x[2]) /\ before = 0 /\ after <= 2
               \/ /\ before = 0 /\ after <= 2
                  /\ \E s \in Saves \ LoadsAsked : /\ x[1] = "PROBE" /\ IsHash("LOAD", x[2])
                                                   /\ x[2].slot = s
    PROVE  AskedBound'
<1> DEFINE before == Left(np[Host].xfer)
           after  == Left(np'[Host].xfer)
           k == Cardinality(LoadsAsked)
           coord == IF HasCoord THEN 3 ELSE 0
           cards_ == IF asked = <<>> THEN 0 ELSE 2
<1>1. before \in 0 .. 2 /\ after \in 0 .. 2
    BY DEF Left
<1>2. k \in Nat /\ k' \in Nat /\ k <= k' /\ (LoadsAsked' # LoadsAsked => k + 1 <= k')
    <2> DEFINE A == LoadsAsked
               B == LoadsAsked'
    <2>1. A \subseteq B /\ B \subseteq Saves
        BY AskedSets DEF LoadsAsked
    <2>2. IsFiniteSet(A) /\ IsFiniteSet(B)
        BY <2>1, ConstantsType, FS_Subset
    <2> HIDE DEF A, B
    <2>3. /\ Cardinality(A) \in Nat /\ Cardinality(B) \in Nat
          /\ Cardinality(A) <= Cardinality(B) /\ (Cardinality(A) = Cardinality(B) => A = B)
        BY <2>1, <2>2, FS_Subset, FS_CardinalityType
    <2>4. k = Cardinality(A) /\ k' = Cardinality(B)
        BY DEF A, B
    <2>5. B = LoadsAsked' /\ A = LoadsAsked
        BY DEF A, B
    <2> HIDE DEF k
    <2> QED BY <2>3, <2>4, <2>5
<1>3. coord \in {0, 3} /\ coord' \in {0, 3} /\ coord <= coord'
    BY AskedSets
<1>4. cards_ \in {0, 2} /\ cards_' = 2 /\ cards_ <= cards_'
    BY AskedMore DEF LoopType
<1>5. Len(asked)' = Len(asked) + 1 /\ Len(asked) \in Nat /\ (asked = <<>> => Len(asked) = 0)
    BY AskedMore, AskedIs
<1>6. Len(asked) + before <= 3 * k + coord + cards_
    BY DEF AskedBound
<1>7. SUFFICES Len(asked)' + after <= 3 * k' + coord' + cards_'
    BY DEF AskedBound
<1>8. CASE after + 1 <= before
    <2> HIDE DEF before, after, k, coord, cards_
    <2> QED BY <1>1, <1>2, <1>3, <1>4, <1>5, <1>6, <1>8, SMTT(40)
<1>9. CASE asked = <<>> /\ before = 0 /\ after <= 1
    <2>1. Len(asked)' = 1
        BY <1>5, <1>9
    <2> HIDE DEF before, after, k, coord, cards_
    <2>2. after \in Nat /\ after <= 1
        BY <1>1, <1>9
    <2>3. k' \in Nat /\ coord' \in Nat /\ cards_' = 2
        BY <1>2, <1>3, <1>4
    <2> DEFINE n == Len(asked)'
    <2>4. n = 1
        BY <2>1
    <2> HIDE DEF n
    <2>5. \A kk, cc \in Nat : n + after <= 3 * kk + cc + 2
        BY <2>2, <2>4
    <2>6. n + after <= 3 * k' + coord' + cards_'
        BY <2>3, <2>5
    <2> QED BY <2>6 DEF n
<1>10. CASE ~HasCoord /\ x[1] = "PROBE" /\ IsCoord(x[2]) /\ before = 0 /\ after <= 2
    <2>1. coord = 0 /\ coord' = 3
        BY <1>10, AskedSets
    <2> HIDE DEF before, after, k, coord, cards_
    <2> QED BY <1>1, <1>2, <1>4, <1>5, <1>6, <1>10, <2>1
<1>11. CASE /\ before = 0 /\ after <= 2
            /\ \E s \in Saves \ LoadsAsked : /\ x[1] = "PROBE" /\ IsHash("LOAD", x[2])
                                             /\ x[2].slot = s
    <2>1. LoadsAsked' # LoadsAsked
        BY <1>11, AskedSets
    <2>2. k + 1 <= k'
        BY <1>2, <2>1
    <2> HIDE DEF before, after, k, coord, cards_
    <2> QED BY <1>1, <1>2, <1>3, <1>4, <1>5, <1>6, <1>11, <2>2
<1> QED BY <1>8, <1>9, <1>10, <1>11

LEMMA AskingSame ==
    ASSUME AskingInv, UNCHANGED <<asked, blobs, next_xfer_id>>,
           tx'.active => tx.active /\ tx'.id = tx.id,
           np'[Host].xfer = np[Host].xfer, np'[Host].slot = np[Host].slot,
           np'[Host].cards = np[Host].cards
    PROVE  AskingInv'
<1>1. CardsFirst'
    BY DEF AskingInv, CardsFirst
<1>2. SaveOnce'
    BY DEF AskingInv, SaveOnce, HasHashSave, HasCoord, Asked
<1>3. LoadOnce'
    BY DEF AskingInv, LoadOnce, LoadsAsked, ReadyAsked, Asked
<1>4. SendTrue'
    BY DEF AskingInv, SendTrue
<1>5. AskedBound'
    BY DEF AskingInv, AskedBound, LoadsAsked, HasCoord, Asked
<1> QED BY <1>1, <1>2, <1>3, <1>4, <1>5 DEF AskingInv

\* The host's loop goes on without asking.
LEMMA AskingKept ==
    ASSUME LoopType, AskingInv, UNCHANGED <<asked, blobs, next_xfer_id>>, CardsFirst', SendTrue',
           np'[Host].xfer = "SAVE_COORD" => np[Host].xfer = "SAVE_COORD",
           np'[Host].xfer \in {"LOAD_PROBE", "LOAD_SEND", "LOAD_APPLYING"} =>
               /\ np[Host].xfer \in {"LOAD_PROBE", "LOAD_SEND", "LOAD_APPLYING"}
               /\ np'[Host].slot = np[Host].slot,
           Left(np'[Host].xfer) <= Left(np[Host].xfer)
    PROVE  AskingInv'
<1>1. SaveOnce'
    BY DEF AskingInv, SaveOnce, HasHashSave, HasCoord, Asked
<1>2. LoadOnce'
    BY DEF AskingInv, LoadOnce, LoadsAsked, ReadyAsked, Asked
<1>3. AskedBound'
    <2> DEFINE room == 3 * Cardinality(LoadsAsked) + (IF HasCoord THEN 3 ELSE 0)
                                                   + (IF asked = <<>> THEN 0 ELSE 2)
    <2>1. room' = room /\ room \in Nat
        BY LoadsAreFinite DEF LoadsAsked, HasCoord, Asked
    <2>2. Len(asked) + Left(np[Host].xfer) <= room
        BY DEF AskingInv, AskedBound
    <2>3. Len(asked) \in Nat /\ Left(np[Host].xfer) \in Nat /\ Left(np'[Host].xfer) \in Nat
        BY AskedIs DEF Left
    <2> HIDE DEF room
    <2>4. Len(asked) + Left(np'[Host].xfer) <= room
        BY <2>1, <2>2, <2>3
    <2>5. Len(asked)' + Left(np'[Host].xfer) <= room'
        BY <2>1, <2>4
    <2> QED BY <2>5 DEF AskedBound, room
<1> QED BY <1>1, <1>2, <1>3 DEF AskingInv

\* The host asks for x.
LEMMA AskingMore ==
    ASSUME LoopType, AskingInv, NEW x \in Exch, asked' = Append(asked, x), CardsFirst', SendTrue',
           AskedBound',
           np'[Host].xfer = "SAVE_COORD" =>
               ~HasHashSave /\ ~(x[1] = "PROBE" /\ IsHash("SAVE", x[2])),
           x[1] = "PROBE" /\ IsHash("SAVE", x[2]) => HasCoord,
           x[1] = "PROBE" /\ IsCoord(x[2]) => ~HasCoord,
           np'[Host].xfer \in {"LOAD_PROBE", "LOAD_SEND", "LOAD_APPLYING"} =>
               /\ np'[Host].slot \in LoadsAsked'
               /\ np'[Host].slot \notin ReadyAsked(Len(asked))',
           \A s \in Saves : x = <<"PROBE", ReadyProbe(s)>> => s \in LoadsAsked
    PROVE  AskingInv'
<1>1. /\ Asked = 1 .. Len(asked) /\ Asked' = 1 .. Len(asked) + 1 /\ Len(asked) \in Nat
      /\ \A i \in Asked : asked'[i] = asked[i]
      /\ asked'[Len(asked) + 1] = x
    BY AskedMore
<1>2. SaveOnce'
    <2>1. HasHashSave' => HasCoord'
        BY AskedSets DEF AskingInv, SaveOnce
    <2>2. np'[Host].xfer = "SAVE_COORD" => ~HasHashSave'
        BY AskedSets
    <2>3. ASSUME NEW i \in Asked', NEW j \in Asked', asked'[i][1] = "PROBE", IsCoord(asked'[i][2]),
                 asked'[j][1] = "PROBE", IsCoord(asked'[j][2])
          PROVE  i = j
        <3>1. i \in Asked \/ i = Len(asked) + 1
            BY <1>1
        <3>2. j \in Asked \/ j = Len(asked) + 1
            BY <1>1
        <3>3. CASE i \in Asked /\ j \in Asked
            BY <1>1, <2>3, <3>3 DEF AskingInv, SaveOnce
        <3>4. CASE i = Len(asked) + 1 /\ j \in Asked
            BY <1>1, <2>3, <3>4 DEF HasCoord
        <3>5. CASE j = Len(asked) + 1 /\ i \in Asked
            BY <1>1, <2>3, <3>5 DEF HasCoord
        <3> QED BY <3>1, <3>2, <3>3, <3>4, <3>5
    <2> QED BY <2>1, <2>2, <2>3 DEF SaveOnce
<1>3. LoadOnce'
    <2>1. ReadyAsked(Len(asked))' \subseteq LoadsAsked'
        BY AskedSets DEF AskingInv, LoadOnce
    <2> QED BY <2>1 DEF LoadOnce
<1> QED BY <1>2, <1>3 DEF AskingInv

\* A step of p's loop is p's own.
LEMMA StepIsOwn ==
    ASSUME LoopType, NEW p \in Slots, LoopStep(p) \/ (p \in Guests /\ GuestHandleProbe(p)),
           NEW q \in Slots, q # p
    PROVE  /\ np'[q] = np[q] /\ ss'[q] = ss[q] /\ clock'[q] = clock[q] /\ card'[q] = card[q]
           /\ game'[q] = game[q] /\ frame'[q] = frame[q]
           /\ sampled'[q] = sampled[q] /\ confirmed'[q] = confirmed[q]
<1> USE DEF LoopType, inputVars
<1>1. CASE Poll(p)
    <2>1. PICK c, admitted, refused : TryAdmit(p, c, admitted, refused)
        BY <1>1 DEF Poll, PollApplying, PollReady, PollSaveCoord, PollOther
    <2>2. ss' = ss \/ \E r : ss' = [ss EXCEPT ![p] = r]
        BY <1>1 DEF Poll, PollApplying, PollReady, PollSaveCoord, PollOther
    <2> QED BY <1>1, <2>1, <2>2 DEF Poll, TryAdmit
<1>2. CASE FinishFrame(p)
    BY <1>2 DEF FinishFrame
<1>3. CASE PollSave(p)
    BY <1>3 DEF PollSave
<1>4. CASE PollLoad(p)
    BY <1>4 DEF PollLoad
<1>5. CASE MaybeStageTargetSave(p)
    BY <1>5, SMTT(40) DEF MaybeStageTargetSave
<1>6. CASE ApplyReady(p)
    <2>1. /\ \E loop : np' = [np EXCEPT ![p] = loop]
          /\ card' = card \/ \E d : card' = [card EXCEPT ![p] = d]
          /\ ss' = ss \/ \E r : ss' = [ss EXCEPT ![p] = r]
        BY <1>6 DEF ApplyReady
    <2> QED BY <1>6, <2>1, ZenonT(60) DEF ApplyReady
<1>7. CASE EnterReady(p)
    BY <1>7 DEF EnterReady
<1>8. CASE AbortLoad(p)
    BY <1>8 DEF AbortLoad
<1>9. CASE p \in Guests /\ GuestHandleProbe(p)
    <2>1. CASE AnswerReady(p)
        <3>1. PICK loop : CommitLoadSync(p, loop)
            BY <2>1 DEF AnswerReady
        <3>2. np'[q] = np[q] /\ clock'[q] = clock[q] /\ sampled'[q] = sampled[q] /\ UNCHANGED confirmed
            <4>1. CASE loop.synced
                BY <3>1, <4>1 DEF CommitLoadSync
            <4>2. CASE ~loop.synced
                BY <3>1, <4>2 DEF CommitLoadSync, Resync
            <4> QED BY <4>1, <4>2
        <3> QED BY <2>1, <3>2 DEF AnswerReady
    <2>2. CASE ArmSave(p)
        BY <2>2 DEF ArmSave
    <2>3. CASE AnswerSave(p)
        BY <2>3 DEF AnswerSave
    <2>4. CASE AnswerCards(p)
        BY <2>4 DEF AnswerCards
    <2>5. CASE AnswerHash(p)
        BY <2>5 DEF AnswerHash
    <2> QED BY <1>9, <2>1, <2>2, <2>3, <2>4, <2>5 DEF GuestHandleProbe
<1> QED BY <1>1, <1>2, <1>3, <1>4, <1>5, <1>6, <1>7, <1>8, <1>9 DEF LoopStep

\* What the host does next leaves the guests, and the host's game and cards.
LEMMA HostIsOwn ==
    ASSUME LoopType, HostDriveXfer \/ StartCards \/ \E s \in Saves : AskSave(s) \/ AskLoad(s)
    PROVE  /\ UNCHANGED <<disk, card, game, frame, over, confirmed>>
           /\ \A g \in Guests : /\ np'[g] = np[g] /\ ss'[g] = ss[g] /\ clock'[g] = clock[g]
                                /\ sampled'[g] = sampled[g]
           /\ UNCHANGED <<clock, sampled>> \/ DriveLoadReady
<1>0. \A g \in Guests : g # Host /\ g \in Slots
    BY SlotsDiffer DEF Slots
<1> USE <1>0 DEF LoopType, HostGoesOn, inputVars
<1>1. CASE DriveCards
    BY <1>1 DEF DriveCards
<1>2. CASE AbortSave
    BY <1>2 DEF AbortSave
<1>3. CASE DriveSaveCoord
    BY <1>3 DEF DriveSaveCoord
<1>4. CASE DriveSaveProbe
    BY <1>4 DEF DriveSaveProbe
<1>5. CASE DriveLoadProbe
    BY <1>5 DEF DriveLoadProbe
<1>6. CASE DriveLoadReady
    <2>1. CASE np[Host].synced
        BY <1>6, <2>1 DEF DriveLoadReady, CommitLoadSync
    <2>2. CASE ~np[Host].synced
        BY <1>6, <2>2 DEF DriveLoadReady, CommitLoadSync, Resync
    <2> QED BY <2>1, <2>2
<1>7. CASE StartCards
    BY <1>7, SMTT(40) DEF StartCards
<1>8. CASE \E s \in Saves : AskSave(s) \/ AskLoad(s)
    BY <1>8 DEF AskSave, AskLoad
<1> QED BY <1>1, <1>2, <1>3, <1>4, <1>5, <1>6, <1>7, <1>8 DEF HostDriveXfer

\* p's poll, whatever its phase: what is admitted or refused leaves but a barrier.
LEMMA PollDoes ==
    ASSUME LoopType, NEW p \in Slots, Poll(p)
    PROVE  /\ \E c \in Pumped(p), admitted \in Loop, refused \in Loop :
                 /\ TryAdmit(p, c, admitted, refused)
                 /\ \A l \in {admitted, refused} :
                       /\ l.slot = np[p].slot /\ l.target = np[p].target /\ l.cards /\ ~l.needs
                       /\ l.staged = (np[p].staged \/ DueToStage(p))
                 /\ \/ admitted.xfer = np[p].xfer /\ admitted.synced = np[p].synced
                       /\ admitted.applied = np[p].applied
                    \/ np[p].xfer = "LOAD_READY" /\ np[p].synced /\ admitted.xfer = "NONE"
                       /\ ~admitted.synced /\ ~admitted.applied
                 /\ refused.xfer = np[p].xfer /\ refused.synced = np[p].synced
                 /\ refused.applied = np[p].applied
           /\ np[p].cards /\ ~np[p].needs /\ ~frame[p]
           /\ np[p].xfer = "LOAD_READY" => np[p].synced
           /\ ss' = IF DueToStage(p) THEN [ss EXCEPT ![p] = RequestSave(p, np[p].slot)] ELSE ss
           /\ UNCHANGED <<disk, card, over, orderVars, sessionVars>>
<1>0. /\ np[p] \in Loop /\ np[p].cards /\ ~np[p].needs /\ ~frame[p]
      /\ UNCHANGED <<disk, card, over, orderVars, sessionVars>>
    BY LoopIs DEF Poll, Polls
<1>1. PICK c \in Pumped(p) :
          PollApplying(p, c) \/ PollReady(p, c) \/ PollSaveCoord(p, c) \/ PollOther(p, c)
    BY DEF Poll
<1>n. np[p].xfer # "SAVE_COORD" => ~DueToStage(p) /\ np[p].staged \in BOOLEAN
    BY <1>0 DEF DueToStage, Loop
<1>2. CASE PollApplying(p, c) \/ PollOther(p, c)
    <2>1. TryAdmit(p, c, np[p], np[p]) /\ ~DueToStage(p) /\ UNCHANGED ss
          /\ np[p].xfer # "LOAD_READY" /\ np[p].staged \in BOOLEAN
        BY <1>2, <1>n DEF PollApplying, PollOther
    <2>2. np[p].staged = (np[p].staged \/ DueToStage(p))
        BY <2>1
    <2> QED BY <1>0, <1>1, <2>1, <2>2
<1>3. CASE PollReady(p, c)
    <2> DEFINE l == [Idle(p) EXCEPT !.applied = FALSE, !.replied = FALSE, !.synced = FALSE]
    <2>1. /\ l \in Loop /\ l.xfer = "NONE" /\ ~l.synced /\ ~l.applied /\ l.slot = np[p].slot
          /\ l.target = np[p].target /\ l.cards /\ ~l.needs /\ l.staged = np[p].staged
        BY <1>0 DEF Idle, Loop, Phases
    <2>2. TryAdmit(p, c, l, np[p]) /\ ~DueToStage(p) /\ UNCHANGED ss
          /\ np[p].xfer = "LOAD_READY" /\ np[p].synced /\ np[p].staged \in BOOLEAN
        BY <1>3, <1>n DEF PollReady
    <2>3. np[p].staged = (np[p].staged \/ DueToStage(p))
        BY <2>2
    <2> HIDE DEF l
    <2> QED BY <1>0, <1>1, <2>1, <2>2, <2>3
<1>4. CASE PollSaveCoord(p, c)
    <2> DEFINE l == [np[p] EXCEPT !.staged = @ \/ DueToStage(p)]
    <2>1. /\ l \in Loop /\ l.xfer = np[p].xfer /\ l.synced = np[p].synced /\ l.applied = np[p].applied
          /\ l.slot = np[p].slot /\ l.target = np[p].target /\ l.cards /\ ~l.needs
          /\ l.staged = (np[p].staged \/ DueToStage(p))
        BY <1>0 DEF Loop, DueToStage
    <2>2. TryAdmit(p, c, l, l) /\ np[p].xfer # "LOAD_READY"
          /\ ss' = IF DueToStage(p) THEN [ss EXCEPT ![p] = RequestSave(p, np[p].slot)] ELSE ss
        BY <1>4 DEF PollSaveCoord
    <2> HIDE DEF l
    <2> QED BY <1>0, <1>1, <2>1, <2>2
<1> QED BY <1>1, <1>2, <1>3, <1>4

\* What the loop polls for and applies asks for nothing.
LEMMA AskingPolled ==
    ASSUME LoopType, LoopType', OrderInv, AskingInv, InputInv, next_xfer_id \in Nat,
           NEW p \in Slots, LoopStep(p), ~(p = Host /\ EnterReady(p))
    PROVE  AskingInv'
<1>0. Host \in Slots /\ np[Host] \in Loop /\ MarksTrue
    BY LoopIs DEF Slots, InputInv
<1>1. CASE p # Host
    <2>1. np'[Host] = np[Host]
        BY <1>0, <1>1, StepIsOwn
    <2>2. p \in Guests
        BY <1>1, SMTT(40) DEF Slots
    <2>3. UNCHANGED <<asked, blobs, next_xfer_id, tx>>
        BY <1>1, <2>2 DEF LoopStep, Poll, FinishFrame, PollSave, PollLoad, MaybeStageTargetSave,
           ApplyReady, GuestFinish, EnterReady, AbortLoad, orderVars, sessionVars, transferVars
    <2> QED BY <2>1, <2>3, AskingSame
<1>2. CASE p = Host /\ Poll(p)
    <2>1. PICK c \in Pumped(p), admitted \in Loop, refused \in Loop :
              /\ TryAdmit(p, c, admitted, refused)
              /\ \A l \in {admitted, refused} : l.slot = np[p].slot /\ l.cards
              /\ \/ admitted.xfer = np[p].xfer
                 \/ np[p].xfer = "LOAD_READY" /\ admitted.xfer = "NONE"
              /\ refused.xfer = np[p].xfer
        BY <1>2, PollDoes
    <2>2. np' = [np EXCEPT ![p] = [admitted EXCEPT !.needs = TRUE]] \/ np' = [np EXCEPT ![p] = refused]
        BY <2>1 DEF TryAdmit
    <2>3. /\ np'[Host].slot = np[Host].slot /\ np'[Host].cards
          /\ \/ np'[Host].xfer = np[Host].xfer
             \/ np[Host].xfer = "LOAD_READY" /\ np'[Host].xfer = "NONE"
        <3>1. CASE np' = [np EXCEPT ![p] = [admitted EXCEPT !.needs = TRUE]]
            <4>1. np'[p] = [admitted EXCEPT !.needs = TRUE]
                BY <3>1 DEF LoopType
            <4> QED BY <1>2, <2>1, <4>1 DEF Loop
        <3>2. CASE np' = [np EXCEPT ![p] = refused]
            BY <1>2, <2>1, <3>2 DEF LoopType
        <3> QED BY <2>2, <3>1, <3>2
    <2>4. np[Host].cards /\ UNCHANGED <<asked, blobs, next_xfer_id, tx>>
        BY <1>2 DEF Poll, Polls, orderVars, sessionVars, transferVars
    <2>5. CASE np'[Host].xfer = np[Host].xfer
        BY <2>3, <2>4, <2>5, AskingSame
    <2>6. CASE np[Host].xfer = "LOAD_READY" /\ np'[Host].xfer = "NONE"
        <3>1. CardsFirst'
            BY <2>3, <2>6 DEF CardsFirst
        <3>2. ~tx.active
            BY <2>6 DEF AskingInv, SendTrue, SendPhase
        <3>3. SendTrue'
            BY <2>4, <2>6, <3>2 DEF SendTrue
        <3> QED BY <2>4, <2>6, <3>1, <3>3, AskingKept DEF Left
    <2> QED BY <2>3, <2>5, <2>6
<1>3. CASE p = Host /\ (FinishFrame(p) \/ PollSave(p) \/ PollLoad(p) \/ MaybeStageTargetSave(p))
    <2>1. np'[Host].xfer = np[Host].xfer /\ np'[Host].slot = np[Host].slot
          /\ np'[Host].cards = np[Host].cards
        <3>1. CASE FinishFrame(p)
            BY <1>0, <1>3, <3>1 DEF FinishFrame, LoopType, Loop
        <3>2. CASE PollSave(p) \/ PollLoad(p)
            BY <3>2 DEF PollSave, PollLoad
        <3>3. CASE MaybeStageTargetSave(p)
            BY <1>0, <1>3, <3>3 DEF MaybeStageTargetSave, LoopType, Loop
        <3> QED BY <1>3, <3>1, <3>2, <3>3
    <2>2. UNCHANGED <<asked, blobs, next_xfer_id, tx>>
        BY <1>3 DEF FinishFrame, PollSave, PollLoad, MaybeStageTargetSave, orderVars, sessionVars,
           transferVars
    <2> QED BY <2>1, <2>2, AskingSame
<1>4. CASE p = Host /\ ApplyReady(p)
    <2> DEFINE b == blobs[tx.id]
    <2>1. /\ tx.active /\ HostFinish /\ tx.id \in 1 .. next_xfer_id
          /\ b.op \in {"SRAM", "SAVE", "LOAD"} /\ (b.op # "SRAM" => b.slot \in Saves)
        BY <1>4, ReadyBlob
    <2>2. np[Host].xfer = SendPhase(b.op) /\ (b.op = "LOAD" => b.slot = np[Host].slot)
        BY <2>1 DEF AskingInv, SendTrue
    <2>3. ~tx'.active /\ UNCHANGED <<next_xfer_id, asked, blobs>>
        BY <1>4, <2>1 DEF ApplyReady, HostFinish, Nothing, orderVars
    <2>4. \/ /\ b.op = "SRAM" /\ np' = [np EXCEPT ![Host] = [Idle(Host) EXCEPT !.cards = TRUE, !.needs = FALSE]]
          \/ /\ b.op = "SAVE" /\ np' = [np EXCEPT ![Host] = Idle(Host)]
          \/ /\ b.op = "LOAD" /\ np' = [np EXCEPT ![Host] = BeginLoadApply(Host, b.slot)]
        BY <1>4 DEF ApplyReady
    <2>l. \/ /\ b.op = "SRAM" /\ np'[Host].xfer = "NONE" /\ np'[Host].cards
          \/ /\ b.op = "SAVE" /\ np'[Host].xfer = "NONE" /\ np'[Host].cards = np[Host].cards
          \/ /\ b.op = "LOAD" /\ np'[Host].xfer = "LOAD_APPLYING" /\ np'[Host].slot = b.slot
             /\ np'[Host].cards = np[Host].cards
        <3> HIDE DEF b
        <3>1. CASE b.op = "SRAM"
            <4>1. np'[Host] = [Idle(Host) EXCEPT !.cards = TRUE, !.needs = FALSE]
                BY <1>0, <2>4, <3>1 DEF LoopType
            <4> QED BY <1>0, <3>1, <4>1 DEF Idle, Loop
        <3>2. CASE b.op = "SAVE"
            <4>1. np'[Host] = Idle(Host)
                BY <1>0, <2>4, <3>2 DEF LoopType
            <4> QED BY <1>0, <3>2, <4>1 DEF Idle, Loop
        <3>3. CASE b.op = "LOAD"
            <4>1. np'[Host] = BeginLoadApply(Host, b.slot)
                BY <1>0, <2>4, <3>3 DEF LoopType
            <4> QED BY <1>0, <3>3, <4>1 DEF BeginLoadApply, Loop
        <3> QED BY <2>4, <3>1, <3>2, <3>3
    <2> HIDE DEF b
    <2>5. SendTrue'
        BY <2>1, <2>3, <2>l DEF SendTrue
    <2>6. CardsFirst'
        BY <2>2, <2>l DEF AskingInv, CardsFirst, SendPhase
    <2>7. /\ np'[Host].xfer # "SAVE_COORD"
          /\ np'[Host].xfer \in {"LOAD_PROBE", "LOAD_SEND", "LOAD_APPLYING"} =>
                np[Host].xfer = "LOAD_SEND" /\ np'[Host].slot = np[Host].slot
          /\ Left(np'[Host].xfer) <= Left(np[Host].xfer)
        BY <2>2, <2>l DEF SendPhase, Left
    <2> QED BY <2>3, <2>5, <2>6, <2>7, AskingKept
<1>5. CASE p = Host /\ AbortLoad(p)
    <2>1. /\ np[Host].xfer = "LOAD_APPLYING" /\ np'[Host].xfer = "NONE"
          /\ np'[Host].cards = np[Host].cards
          /\ UNCHANGED <<next_xfer_id, asked, blobs, tx>>
        BY <1>0, <1>5 DEF AbortLoad, Idle, LoopType, Loop, orderVars
    <2>2. CardsFirst'
        BY <2>1 DEF AskingInv, CardsFirst
    <2>3. SendTrue'
        BY <2>1 DEF AskingInv, SendTrue, SendPhase
    <2> QED BY <2>1, <2>2, <2>3, AskingKept DEF Left
<1> QED BY <1>1, <1>2, <1>3, <1>4, <1>5 DEF LoopStep

LEMMA AskDoes ==
    ASSUME LoopType, NEW w \in Probe, Ask(w)
    PROVE  /\ <<"PROBE", w>> \in Exch /\ asked' = Append(asked, <<"PROBE", w>>)
           /\ ~tx'.active /\ UNCHANGED <<blobs, next_xfer_id>>
BY DEF Ask, StateProbe, transferVars, Exch

\* The host asks with a probe.
LEMMA AskingProbe ==
    ASSUME LoopType, LoopType', AskingInv, NEW w \in Probe, Ask(w), NEW loop \in Loop,
           np'[Host] = loop, loop.cards = np[Host].cards,
           loop.xfer \notin {"NONE", "MC_SEND"}, loop.xfer # "MC_PROBE" => loop.slot \in Saves,
           \/ /\ np[Host].xfer = "NONE" /\ ~np[Host].cards /\ loop.xfer = "MC_PROBE" /\ w.op = "SRAM"
           \/ /\ np[Host].xfer = "SAVE_COORD" /\ HasCoord /\ loop.xfer = "SAVE_PROBE"
              /\ IsHash("SAVE", w)
           \/ /\ np[Host].xfer = "LOAD_APPLYING" /\ loop.xfer = "LOAD_READY"
              /\ w = ReadyProbe(np[Host].slot)
           \/ /\ np[Host].xfer = "NONE" /\ np[Host].cards /\ ~HasCoord /\ loop.xfer = "SAVE_COORD"
              /\ IsCoord(w)
           \/ /\ np[Host].xfer = "NONE" /\ np[Host].cards /\ loop.slot \notin LoadsAsked
              /\ loop.xfer = "LOAD_PROBE" /\ IsHash("LOAD", w) /\ w.slot = loop.slot
    PROVE  AskingInv'
<1> DEFINE x == <<"PROBE", w>>
<1>1. x \in Exch /\ asked' = Append(asked, x) /\ ~tx'.active /\ UNCHANGED <<blobs, next_xfer_id>>
    BY AskDoes
<1>2. CardsFirst /\ SaveOnce /\ LoadOnce /\ SendTrue /\ AskedBound
    BY DEF AskingInv
<1>3. x[1] = "PROBE" /\ x[2] = w
    OBVIOUS
<1>4. CardsFirst'
    BY <1>1, <1>2 DEF CardsFirst
<1>5. SendTrue'
    BY <1>1 DEF SendTrue
<1>6. \A s \in Saves : x = <<"PROBE", ReadyProbe(s)>> =>
          w.op = "LOAD" /\ w.size = 0 /\ w.slot = s
    BY <1>3 DEF ReadyProbe
<1>7. AskedBound'
    <2>1. CASE np[Host].xfer = "NONE" /\ loop.xfer = "MC_PROBE" /\ ~np[Host].cards
        <3>1. asked = <<>>
            BY <1>2, <2>1 DEF CardsFirst
        <3> QED BY <1>1, <1>2, <2>1, <3>1, AskedBoundStep DEF Left
    <2>2. CASE \/ np[Host].xfer = "SAVE_COORD" /\ loop.xfer = "SAVE_PROBE"
               \/ np[Host].xfer = "LOAD_APPLYING" /\ loop.xfer = "LOAD_READY"
        <3>1. Left(np'[Host].xfer) + 1 <= Left(np[Host].xfer)
            BY <2>2 DEF Left
        <3> HIDE DEF x
        <3> QED BY <1>1, <1>2, <3>1, AskedBoundStep
    <2>3. CASE np[Host].xfer = "NONE" /\ ~HasCoord /\ loop.xfer = "SAVE_COORD" /\ IsCoord(w)
        <3>1. Left(np'[Host].xfer) <= 2 /\ Left(np[Host].xfer) = 0
            BY <2>3 DEF Left
        <3> HIDE DEF x
        <3> QED BY <1>1, <1>2, <1>3, <2>3, <3>1, AskedBoundStep
    <2>4. CASE np[Host].xfer = "NONE" /\ loop.slot \notin LoadsAsked /\ loop.xfer = "LOAD_PROBE"
               /\ IsHash("LOAD", w) /\ w.slot = loop.slot
        <3>1. Left(np'[Host].xfer) <= 2 /\ Left(np[Host].xfer) = 0
            BY <2>4 DEF Left
        <3>2. loop.slot \in Saves \ LoadsAsked
            BY <2>4
        <3> HIDE DEF x
        <3> QED BY <1>1, <1>2, <1>3, <2>4, <3>1, <3>2, AskedBoundStep
    <2> QED BY <2>1, <2>2, <2>3, <2>4
<1>8. np'[Host].xfer = "SAVE_COORD" => ~HasHashSave /\ ~(x[1] = "PROBE" /\ IsHash("SAVE", x[2]))
    BY <1>2, <1>3 DEF SaveOnce, IsHash, IsCoord
<1>9. /\ x[1] = "PROBE" /\ IsHash("SAVE", x[2]) => HasCoord
      /\ x[1] = "PROBE" /\ IsCoord(x[2]) => ~HasCoord
    BY <1>3 DEF IsHash, IsCoord, ReadyProbe
<1>10. np'[Host].xfer \in {"LOAD_PROBE", "LOAD_SEND", "LOAD_APPLYING"} =>
           /\ np'[Host].slot \in LoadsAsked'
           /\ np'[Host].slot \notin ReadyAsked(Len(asked))'
    <2> SUFFICES ASSUME loop.xfer = "LOAD_PROBE"
                 PROVE  loop.slot \in LoadsAsked' /\ loop.slot \notin ReadyAsked(Len(asked))'
        OBVIOUS
    <2>1. loop.slot \in Saves /\ IsHash("LOAD", w) /\ w.slot = loop.slot /\ loop.slot \notin LoadsAsked
        OBVIOUS
    <2>2. x # <<"PROBE", ReadyProbe(loop.slot)>>
        BY <1>6, <2>1 DEF IsHash
    <2>3. loop.slot \notin ReadyAsked(Len(asked))
        BY <1>2, <2>1 DEF LoadOnce
    <2> HIDE DEF x
    <2> QED BY <1>1, <1>3, <2>1, <2>2, <2>3, AskedSets
<1>11. \A s \in Saves : x = <<"PROBE", ReadyProbe(s)>> => s \in LoadsAsked
    BY <1>2, <1>6 DEF LoadOnce, ReadyProbe, IsHash, IsCoord
<1> HIDE DEF x
<1> QED BY <1>1, <1>4, <1>5, <1>7, <1>8, <1>9, <1>10, <1>11, AskingMore

\* The host asks with a transfer, for a probe that did not match.
LEMMA AskingSend ==
    ASSUME LoopType, LoopType', OrderInv, AskingInv, TypeOK, TypeOK',
           NEW op \in {"SRAM", "SAVE", "LOAD"}, NEW s \in Saves \cup {0}, NEW c \in Nat,
           Send(op, s, c), op # "SRAM" => s \in Saves /\ s = np[Host].slot,
           op = "SRAM" => c = card[Host], UNCHANGED <<card, over>>,
           np'[Host].cards = np[Host].cards, np'[Host].slot = np[Host].slot,
           np'[Host].xfer = SendPhase(op),
           np[Host].xfer = (IF op = "SRAM" THEN "MC_PROBE" ELSE IF op = "SAVE" THEN "SAVE_PROBE"
                                                           ELSE "LOAD_PROBE")
    PROVE  AskingInv'
<1> DEFINE n == next_xfer_id + 1
           x == <<"XFER", n>>
           b == [op |-> op, slot |-> s, data |-> c]
<1>1. CardsFirst /\ SaveOnce /\ LoadOnce /\ SendTrue /\ AskedBound
    BY DEF AskingInv
<1>2. n \in Nat /\ n > 0 /\ next_xfer_id \in Nat /\ x \in Exch
    BY DEF TypeOK, Exch
<1>3. asked' = Append(asked, x) /\ blobs' = Append(blobs, b)
    BY DEF Send
<1>4. tx'.id = n
    <2>1. IF op = "SRAM" THEN next_xfer_id = 0 /\ c = card[Host] ELSE s \in Saves
        BY <1>1 DEF CardsFirst
    <2> QED BY <2>1, OrderSend
<1>5. blobs'[n].op = op /\ blobs'[n].slot = s
    <2>1. blobs \in Seq(Blob) /\ Len(blobs) = next_xfer_id /\ b \in Blob
        BY DEF LoopType, OrderInv, BlobsTrue, Blob
    <2>2. blobs'[n] = b
        BY <1>3, <2>1, AppendIs
    <2> QED BY <2>2
<1>6. x[1] = "XFER" /\ \A w : x # <<"PROBE", w>>
    OBVIOUS
<1> HIDE DEF x, b
<1>7. CardsFirst'
    BY <1>1 DEF CardsFirst, SendPhase
<1>8. SendTrue'
    <2>1. op # "SRAM" => np'[Host].slot \in Saves
        OBVIOUS
    <2> QED BY <1>4, <1>5, <2>1 DEF SendTrue, SendPhase
<1>9. AskedBound'
    <2>1. Left(np'[Host].xfer) + 1 <= Left(np[Host].xfer)
        BY DEF Left, SendPhase
    <2> QED BY <1>1, <1>2, <1>3, <2>1, AskedBoundStep
<1>10. np'[Host].xfer # "SAVE_COORD"
    BY DEF SendPhase
<1>11. np'[Host].xfer \in {"LOAD_PROBE", "LOAD_SEND", "LOAD_APPLYING"} =>
           /\ np'[Host].slot \in LoadsAsked'
           /\ np'[Host].slot \notin ReadyAsked(Len(asked))'
    <2> SUFFICES ASSUME op = "LOAD"
                 PROVE  np[Host].slot \in LoadsAsked' /\ np[Host].slot \notin ReadyAsked(Len(asked))'
        BY DEF SendPhase
    <2>1. np[Host].slot \in LoadsAsked /\ np[Host].slot \notin ReadyAsked(Len(asked))
        BY <1>1 DEF LoadOnce
    <2> QED BY <1>2, <1>3, <1>6, <2>1, AskedSets
<1> QED BY <1>2, <1>3, <1>6, <1>7, <1>8, <1>9, <1>10, <1>11, AskingMore

LEMMA AskingDrive ==
    ASSUME LoopType, LoopType', OrderInv, AskingInv, EpochInv, SavesInv, TypeOK, TypeOK',
           HostDriveXfer
    PROVE  AskingInv'
<1>0. /\ Host \in Slots /\ np[Host] \in Loop /\ card[Host] \in Nat
      /\ \A t \in Saves : disk[Host][t] \in Nat
      /\ CardsFirst /\ SendTrue
    BY LoopIs DEF Slots, AskingInv
<1>1. np[Host].xfer \notin {"NONE", "MC_PROBE", "MC_SEND"} => np[Host].slot \in Saves /\ np[Host].cards
    BY <1>0 DEF SendTrue, CardsFirst, Loop
<1>g. ASSUME NEW loop \in Loop, HostGoesOn(loop) PROVE np'[Host] = loop /\ UNCHANGED <<card, over>>
    BY <1>0, <1>g DEF HostGoesOn, LoopType
<1>p. ASSUME ProbeFinish, UNCHANGED orderVars
      PROVE  UNCHANGED <<asked, blobs, next_xfer_id, tx>>
    BY <1>p DEF ProbeFinish, orderVars, transferVars
<1>x. \A phase \in {"MC_PROBE", "SAVE_COORD", "SAVE_PROBE", "LOAD_PROBE", "LOAD_READY"} :
          np[Host].xfer = phase => ~tx.active
    BY <1>0 DEF SendTrue, SendPhase
<1>2. CASE DriveCards
    <2>1. np[Host].xfer = "MC_PROBE" /\ ~np[Host].cards /\ ~tx.active
        BY <1>0, <1>2, <1>x DEF DriveCards, Answered, CardsFirst, Loop
    <2>2. CASE probe[Host].match
        <3> DEFINE loop == [Idle(Host) EXCEPT !.cards = TRUE]
        <3>1. loop \in Loop /\ loop.xfer = "NONE" /\ loop.cards
            BY <1>0 DEF Idle, Loop, Phases
        <3>2. HostGoesOn(loop) /\ ProbeFinish /\ UNCHANGED orderVars
            BY <1>2, <2>2 DEF DriveCards
        <3> HIDE DEF loop
        <3>3. np'[Host] = loop /\ UNCHANGED <<asked, blobs, next_xfer_id, tx>>
            BY <1>g, <1>p, <3>1, <3>2
        <3>4. CardsFirst' /\ SendTrue'
            BY <2>1, <3>1, <3>3 DEF CardsFirst, SendTrue
        <3> QED BY <3>1, <3>3, <3>4, AskingKept DEF Left
    <2>3. CASE ~probe[Host].match
        <3> DEFINE loop == [np[Host] EXCEPT !.xfer = "MC_SEND"]
        <3>1. loop \in Loop /\ loop.xfer = "MC_SEND" /\ loop.cards = np[Host].cards
              /\ loop.slot = np[Host].slot
            BY <1>0 DEF Loop, Phases
        <3>2. HostGoesOn(loop) /\ Send("SRAM", 0, card[Host])
            BY <1>2, <2>3 DEF DriveCards
        <3> HIDE DEF loop
        <3>3. np'[Host] = loop /\ UNCHANGED <<card, over>>
            BY <1>g, <3>1, <3>2
        <3> QED BY <1>0, <2>1, <3>1, <3>2, <3>3, AskingSend DEF SendPhase
    <2> QED BY <2>2, <2>3
<1>3. CASE AbortSave
    <2> DEFINE loop == [Idle(Host) EXCEPT !.staged = FALSE]
    <2>1. loop \in Loop /\ loop.xfer = "NONE" /\ loop.cards = np[Host].cards
        BY <1>0 DEF Idle, Loop, Phases
    <2>2. np[Host].xfer = "SAVE_COORD" /\ HostGoesOn(loop) /\ UNCHANGED <<asked, blobs, next_xfer_id, tx>>
        BY <1>3 DEF AbortSave, orderVars, sessionVars, transferVars
    <2> HIDE DEF loop
    <2>3. np'[Host] = loop /\ ~tx.active /\ np[Host].cards
        BY <1>1, <1>g, <1>x, <2>1, <2>2
    <2>4. CardsFirst' /\ SendTrue'
        BY <2>1, <2>2, <2>3 DEF CardsFirst, SendTrue
    <2> QED BY <2>1, <2>2, <2>3, <2>4, AskingKept DEF Left
<1>4. CASE DriveSaveCoord
    <2> DEFINE loop == [np[Host] EXCEPT !.xfer = "SAVE_PROBE"]
               w == HashProbe("SAVE", np[Host].slot, disk[Host][np[Host].slot])
    <2>1. np[Host].xfer = "SAVE_COORD" /\ HostGoesOn(loop) /\ Ask(w)
        BY <1>4 DEF DriveSaveCoord, Answered
    <2>2. loop \in Loop /\ loop.xfer = "SAVE_PROBE" /\ loop.cards = np[Host].cards
          /\ loop.slot = np[Host].slot
        BY <1>0 DEF Loop, Phases
    <2>3. w \in Probe /\ IsHash("SAVE", w)
        <3>1. w \in Probe
            BY <1>0, <1>1, <2>1, Askables
        <3>2. w.op = "SAVE" /\ w.size = 1
            BY DEF HashProbe
        <3> QED BY <3>1, <3>2 DEF IsHash
    <2>4. HasCoord
        BY <1>0, <2>1 DEF SavesInv, ArmedTrue, HasCoord
    <2> HIDE DEF loop, w
    <2>5. np'[Host] = loop
        BY <1>g, <2>1, <2>2
    <2> QED BY <1>1, <2>1, <2>2, <2>3, <2>4, <2>5, AskingProbe
<1>5. CASE DriveSaveProbe
    <2>1. np[Host].xfer = "SAVE_PROBE" /\ np[Host].cards /\ ~tx.active /\ np[Host].slot \in Saves
        BY <1>1, <1>5, <1>x DEF DriveSaveProbe, Answered
    <2>2. CASE probe[Host].match
        <3> DEFINE loop == Idle(Host)
        <3>1. loop \in Loop /\ loop.xfer = "NONE" /\ loop.cards
            BY <1>0, <2>1 DEF Idle, Loop, Phases
        <3>2. HostGoesOn(loop) /\ ProbeFinish /\ UNCHANGED orderVars
            BY <1>5, <2>2 DEF DriveSaveProbe
        <3> HIDE DEF loop
        <3>3. np'[Host] = loop /\ UNCHANGED <<asked, blobs, next_xfer_id, tx>>
            BY <1>g, <1>p, <3>1, <3>2
        <3>4. CardsFirst' /\ SendTrue'
            BY <2>1, <3>1, <3>3 DEF CardsFirst, SendTrue
        <3> QED BY <3>1, <3>3, <3>4, AskingKept DEF Left
    <2>3. CASE ~probe[Host].match
        <3> DEFINE loop == [np[Host] EXCEPT !.xfer = "SAVE_SEND"]
        <3>1. loop \in Loop /\ loop.xfer = "SAVE_SEND" /\ loop.cards = np[Host].cards
              /\ loop.slot = np[Host].slot
            BY <1>0 DEF Loop, Phases
        <3>2. HostGoesOn(loop) /\ Send("SAVE", np[Host].slot, disk[Host][np[Host].slot])
            BY <1>5, <2>3 DEF DriveSaveProbe
        <3> HIDE DEF loop
        <3>3. np'[Host] = loop /\ UNCHANGED <<card, over>>
            BY <1>g, <3>1, <3>2
        <3> QED BY <1>0, <2>1, <3>1, <3>2, <3>3, AskingSend DEF SendPhase
    <2> QED BY <2>2, <2>3
<1>6. CASE DriveLoadProbe
    <2>1. np[Host].xfer = "LOAD_PROBE" /\ np[Host].cards /\ ~tx.active /\ np[Host].slot \in Saves
        BY <1>1, <1>6, <1>x DEF DriveLoadProbe, Answered
    <2>2. CASE probe[Host].match
        <3> DEFINE loop == BeginLoadApply(Host, np[Host].slot)
        <3>1. loop \in Loop /\ loop.xfer = "LOAD_APPLYING" /\ loop.cards /\ loop.slot = np[Host].slot
            BY <1>0, <2>1, LoopWith DEF BeginLoadApply, Loop
        <3>2. HostGoesOn(loop) /\ ProbeFinish /\ UNCHANGED orderVars
            BY <1>6, <2>2 DEF DriveLoadProbe
        <3> HIDE DEF loop
        <3>3. np'[Host] = loop /\ UNCHANGED <<asked, blobs, next_xfer_id, tx>>
            BY <1>g, <1>p, <3>1, <3>2
        <3>4. CardsFirst' /\ SendTrue'
            BY <2>1, <3>1, <3>3 DEF CardsFirst, SendTrue
        <3> QED BY <2>1, <3>1, <3>3, <3>4, AskingKept DEF Left
    <2>3. CASE ~probe[Host].match
        <3> DEFINE loop == [np[Host] EXCEPT !.xfer = "LOAD_SEND", !.applied = FALSE, !.synced = FALSE]
        <3>1. loop \in Loop /\ loop.xfer = "LOAD_SEND" /\ loop.cards = np[Host].cards
              /\ loop.slot = np[Host].slot
            BY <1>0 DEF Loop, Phases
        <3>2. HostGoesOn(loop) /\ Send("LOAD", np[Host].slot, disk[Host][np[Host].slot])
            BY <1>6, <2>3 DEF DriveLoadProbe
        <3> HIDE DEF loop
        <3>3. np'[Host] = loop /\ UNCHANGED <<card, over>>
            BY <1>g, <3>1, <3>2
        <3> QED BY <1>0, <2>1, <3>1, <3>2, <3>3, AskingSend DEF SendPhase
    <2> QED BY <2>2, <2>3
<1>7. CASE DriveLoadReady
    <2>1. np[Host].xfer = "LOAD_READY" /\ CommitLoadSync(Host, np[Host])
          /\ ProbeFinish /\ UNCHANGED orderVars
        BY <1>7 DEF DriveLoadReady, Answered
    <2>2. ~np[Host].synced => clock[Host].epoch + 1 <= MaxEpoch
        BY <2>1, EpochRoom
    <2>3. np'[Host].xfer = np[Host].xfer /\ np'[Host].slot = np[Host].slot
          /\ np'[Host].cards = np[Host].cards
        BY <1>0, <2>1, <2>2, CommitDoes
    <2> QED BY <1>p, <2>1, <2>3, AskingSame
<1> QED BY <1>2, <1>3, <1>4, <1>5, <1>6, <1>7 DEF HostDriveXfer

LEMMA AskingStep ==
    ASSUME GeneralInv, BarrierNext, LoopType'
    PROVE  AskingInv'
<1>0. /\ LoopType /\ OrderInv /\ AskingInv /\ EpochInv /\ InputInv /\ SavesInv /\ IInv /\ TypeOK
      /\ ~over /\ next_xfer_id \in Nat
    BY DEF GeneralInv, BarrierNext, IInv, TypeOK
<1>h. /\ Host \in Slots /\ np[Host] \in Loop /\ CardsFirst /\ SendTrue
      /\ \A t \in Saves : disk[Host][t] \in Nat
    BY <1>0, LoopIs DEF Slots, AskingInv
<1>t. over' = over => TypeOK'
    BY <1>0, SessionKept DEF IInv
<1>1. CASE SessionPump
    <2>1. UNCHANGED <<np, asked, blobs>>
        BY <1>1 DEF SessionPump, loopVars
    <2>2. UNCHANGED next_xfer_id /\ (tx'.active => tx.active /\ tx'.id = tx.id)
        <3>1. CASE Pump \/ HostReceive
            BY <1>0, <3>1, HostPumpDoes
        <3>2. CASE \E g \in Guests : GuestReceive(g)
            <4>1. PICK g \in Guests, m \in net : OnBegin(g, m) \/ OnChunk(g, m) \/ OnProbe(g, m)
                BY <3>2 DEF GuestReceive
            <4>2. UNCHANGED <<next_xfer_id, tx>>
                BY <4>1 DEF OnBegin, ReAck, AckAgain, Open, OnChunk, OnProbe, Surface, transferVars
            <4> QED BY <4>2
        <3> QED BY <1>1, <3>1, <3>2 DEF SessionPump
    <2> QED BY <1>0, <2>1, <2>2, AskingSame
<1>2. ASSUME NEW p \in Slots, LoopStep(p) PROVE AskingInv'
    <2>1. CASE ~(p = Host /\ EnterReady(p))
        BY <1>0, <1>2, <2>1, AskingPolled
    <2>2. CASE p = Host /\ EnterReady(p)
        <3> DEFINE loop == EnterLoadReady(Host, np[Host].slot)
        <3>1. /\ np[Host].xfer = "LOAD_APPLYING" /\ np' = [np EXCEPT ![Host] = loop]
              /\ Ask(ReadyProbe(np[Host].slot)) /\ np[Host].slot \in Saves
            BY <1>h, <2>2 DEF EnterReady, SendTrue
        <3>2. loop \in Loop /\ loop.cards = np[Host].cards /\ loop.xfer = "LOAD_READY"
              /\ loop.slot = np[Host].slot
            <4>1. np[Host] \in Loop
                BY <1>0, <1>h DEF LoopType
            <4>2. loop \in Loop /\ loop.cards = np[Host].cards
                BY <1>0, <1>h, <3>1, LoopWith
            <4> QED BY <4>1, <4>2 DEF EnterLoadReady, Loop
        <3>3. ReadyProbe(np[Host].slot) \in Probe
            BY <3>1, Askables
        <3> HIDE DEF loop
        <3>4. np'[Host] = loop
            BY <1>0, <1>h, <3>1 DEF LoopType
        <3> QED BY <1>0, <3>1, <3>2, <3>3, <3>4, AskingProbe
    <2> QED BY <2>1, <2>2
<1>3. ASSUME NEW g \in Guests, GuestHandleProbe(g) PROVE AskingInv'
    <2>1. g \in Slots /\ g # Host
        BY SlotsDiffer DEF Slots
    <2>2. np'[Host] = np[Host]
        BY <1>0, <1>h, <1>3, <2>1, StepIsOwn, SMTT(40)
    <2>3. UNCHANGED <<asked, blobs, next_xfer_id, tx>>
        BY <1>3 DEF GuestHandleProbe, AnswerReady, ArmSave, AnswerSave, AnswerCards, AnswerHash,
           ProbeReply, orderVars, sessionVars, transferVars
    <2> QED BY <1>0, <2>2, <2>3, AskingSame
<1>4. CASE HostDriveXfer
    <2>1. UNCHANGED over
        BY <1>0, <1>4, HostIsOwn
    <2> QED BY <1>0, <1>4, <1>t, <2>1, AskingDrive
<1>g. ASSUME NEW loop \in Loop, HostGoesOn(loop) PROVE np'[Host] = loop
    BY <1>0, <1>h, <1>g DEF HostGoesOn, LoopType
<1>5. CASE StartCards
    <2> DEFINE loop == [np[Host] EXCEPT !.xfer = "MC_PROBE"]
               w == HashProbe("SRAM", 0, card[Host])
    <2>1. np[Host].xfer = "NONE" /\ ~np[Host].cards /\ HostGoesOn(loop) /\ Ask(w)
        BY <1>5 DEF StartCards
    <2>2. loop \in Loop /\ loop.xfer = "MC_PROBE" /\ loop.cards = np[Host].cards
        BY <1>h DEF Loop, Phases
    <2>3. w \in Probe /\ w.op = "SRAM"
        BY <1>0, <1>h, LoopIs DEF HashProbe, Probe
    <2> HIDE DEF loop, w
    <2>4. np'[Host] = loop
        BY <1>g, <2>1, <2>2
    <2> QED BY <1>0, <2>1, <2>2, <2>3, <2>4, AskingProbe
<1>6. ASSUME NEW s \in Saves, AskSave(s) PROVE AskingInv'
    <2> DEFINE tick == clock[Host].sim + Delay + 2
               loop == [np[Host] EXCEPT !.xfer = "SAVE_COORD", !.slot = s, !.target = tick,
                                        !.staged = FALSE, !.acked = FALSE]
    <2>1. tick \in Nat
        BY <1>0, <1>h, LoopIs, ConstantsType
    <2>2. np[Host].xfer = "NONE" /\ np[Host].cards /\ HostGoesOn(loop) /\ Ask(CoordProbe(s, tick))
        BY <1>6 DEF AskSave, MayAsk
    <2>3. loop \in Loop /\ loop.xfer = "SAVE_COORD" /\ loop.cards = np[Host].cards /\ loop.slot = s
        BY <1>h, <2>1 DEF Loop, Phases
    <2> HIDE DEF tick
    <2>4. CoordProbe(s, tick) \in Probe /\ IsCoord(CoordProbe(s, tick))
        <3>1. CoordProbe(s, tick) \in Probe
            BY <2>1, Askables
        <3> QED BY <3>1 DEF CoordProbe, IsCoord
    <2>5. ~HasCoord
        BY <1>6 DEF AskSave, HasCoord, AskedFor, IsCoord, Asked
    <2> HIDE DEF loop
    <2>6. np'[Host] = loop
        BY <1>g, <2>2, <2>3
    <2> QED BY <1>0, <2>2, <2>3, <2>4, <2>5, <2>6, AskingProbe
<1>7. ASSUME NEW s \in Saves, AskLoad(s) PROVE AskingInv'
    <2> DEFINE loop == [np[Host] EXCEPT !.xfer = "LOAD_PROBE", !.slot = s, !.applied = FALSE]
               w == HashProbe("LOAD", s, disk[Host][s])
    <2>1. np[Host].xfer = "NONE" /\ np[Host].cards /\ HostGoesOn(loop) /\ Ask(w)
        BY <1>7 DEF AskLoad, MayAsk
    <2>2. loop \in Loop /\ loop.xfer = "LOAD_PROBE" /\ loop.cards = np[Host].cards /\ loop.slot = s
        BY <1>h DEF Loop, Phases
    <2>3. w \in Probe /\ IsHash("LOAD", w) /\ w.slot = s
        <3>1. w \in Probe
            BY <1>h, Askables
        <3>2. w.op = "LOAD" /\ w.size = 1 /\ w.slot = s
            BY DEF HashProbe
        <3> QED BY <3>1, <3>2 DEF IsHash
    <2>4. s \notin LoadsAsked
        BY <1>7 DEF AskLoad, LoadsAsked, AskedFor, IsHash, Asked
    <2> HIDE DEF loop, w
    <2>5. np'[Host] = loop
        BY <1>g, <2>1, <2>2
    <2> QED BY <1>0, <2>1, <2>2, <2>3, <2>4, <2>5, AskingProbe
<1> QED BY <1>1, <1>2, <1>3, <1>4, <1>5, <1>6, <1>7 DEF BarrierNext

-----------------------------------------------------------------------------
(* The epochs are kept apart from the loads asked about *)

\* More may be ready the later an exchange is, and one more is if it asks that.
LEMMA ReadyMore ==
    ASSUME LoopType, LoopType', Longer, AskedOnce', NEW n \in Nat, n <= Len(asked),
           NEW m \in Nat, n <= m, m <= Len(asked)'
    PROVE  /\ Cardinality(ReadyAsked(n)) <= Cardinality(ReadyAsked(m)')
           /\ n < m /\ (\E s \in Saves : asked'[m] = <<"PROBE", ReadyProbe(s)>>)
                 => Cardinality(ReadyAsked(n)) + 1 <= Cardinality(ReadyAsked(m)')
<1> DEFINE A == ReadyAsked(n)
           B == ReadyAsked(m)'
<1>1. A \subseteq B
    BY AskedIs DEF Longer, ReadyAsked
<1>2. IsFiniteSet(B) /\ IsFiniteSet(A)
    <2>1. B \subseteq Saves /\ A \subseteq Saves
        BY DEF ReadyAsked
    <2> QED BY <2>1, ConstantsType, FS_Subset
<1>3. ASSUME n < m, NEW s \in Saves, asked'[m] = <<"PROBE", ReadyProbe(s)>> PROVE s \in B /\ s \notin A
    <2>1. s \in B
        BY <1>3 DEF ReadyAsked
    <2>2. ASSUME s \in A PROVE FALSE
        <3>1. PICK i \in 1 .. n : asked[i] = <<"PROBE", ReadyProbe(s)>>
            BY <2>2 DEF ReadyAsked
        <3>2. Len(asked) \in Nat /\ Len(asked)' \in Nat /\ Asked = 1 .. Len(asked)
              /\ Asked' = 1 .. Len(asked)'
            BY AskedIs DEF LoopType, Asked
        <3>3. i \in Asked /\ i \in Asked' /\ m \in Asked'
            BY <1>3, <3>2 DEF Longer
        <3>4. i = m
            BY <1>3, <3>1, <3>3 DEF Longer, AskedOnce
        <3> QED BY <1>3, <3>4
    <2> QED BY <2>1, <2>2
<1> HIDE DEF A, B
<1>4. /\ Cardinality(A) \in Nat /\ Cardinality(B) \in Nat
      /\ Cardinality(A) <= Cardinality(B) /\ (Cardinality(A) = Cardinality(B) => A = B)
    BY <1>1, <1>2, FS_Subset, FS_CardinalityType
<1>5. ASSUME n < m, \E s \in Saves : asked'[m] = <<"PROBE", ReadyProbe(s)>>
      PROVE  Cardinality(A) + 1 <= Cardinality(B)
    <2>1. A # B
        BY <1>3, <1>5
    <2> QED BY <1>4, <2>1
<1> QED BY <1>4, <1>5 DEF A, B

\* p has restored a state, or is about to, and has not started its epoch.
Due(p) == ~np[p].synced /\ (np[p].xfer \in {"LOAD_APPLYING", "LOAD_READY"} \/ np[p].applied)
HeardReady(g) == heard[g] > 0 /\ At(g)[1] = "PROBE" /\ IsReady(At(g)[2])

LEMMA MayResyncIs == \A g \in Guests : MayResync(g) <=> HeardReady(g) /\ Due(g)
BY DEF MayResync, HeardReady, Due

\* p's loop and its epoch, in the steps that are not answers.
LEMMA EpochOfLoop ==
    ASSUME LoopType, OrderInv, EpochInv, InputInv, next_xfer_id \in Nat, NEW p \in Slots, LoopStep(p)
    PROVE  /\ clock'[p].epoch = clock[p].epoch
           /\ np'[p].xfer = "LOAD_APPLYING" => ~np'[p].synced
           /\ Due(p)' => Due(p) \/ ApplyReady(p)
           /\ np'[p].xfer = "LOAD_READY" =>
                 \/ np[p].xfer = "LOAD_READY" /\ np'[p].synced = np[p].synced
                 \/ EnterReady(p)
<1>0. np[p] \in Loop /\ np \in [Slots -> Loop] /\ clock \in [Slots -> Clock] /\ clock[p] \in Clock
      /\ MarksTrue /\ (np[p].xfer = "LOAD_APPLYING" => ~np[p].synced)
    BY DEF LoopType, InputInv, EpochInv
<1>k. ASSUME np'[p].xfer = np[p].xfer, np'[p].synced = np[p].synced, np'[p].applied = np[p].applied,
             clock'[p].epoch = clock[p].epoch
      PROVE  /\ np'[p].xfer = "LOAD_APPLYING" => ~np'[p].synced
             /\ Due(p)' => Due(p) \/ ApplyReady(p)
             /\ np'[p].xfer = "LOAD_READY" => np[p].xfer = "LOAD_READY" /\ np'[p].synced = np[p].synced
    BY <1>0, <1>k DEF Due
<1>1. CASE Poll(p)
    <2>1. PICK c \in Pumped(p), admitted \in Loop, refused \in Loop :
              /\ TryAdmit(p, c, admitted, refused)
              /\ \/ admitted.xfer = np[p].xfer /\ admitted.synced = np[p].synced
                    /\ admitted.applied = np[p].applied
                 \/ np[p].xfer = "LOAD_READY" /\ np[p].synced /\ admitted.xfer = "NONE"
                    /\ ~admitted.synced /\ ~admitted.applied
              /\ refused.xfer = np[p].xfer /\ refused.synced = np[p].synced
              /\ refused.applied = np[p].applied
        BY <1>1, PollDoes
    <2>2. clock'[p].epoch = clock[p].epoch
        <3>1. c.epoch = clock[p].epoch
            BY <1>0, PumpedType
        <3> QED BY <1>0, <2>1, <3>1 DEF TryAdmit
    <2>3. CASE np' = [np EXCEPT ![p] = refused]
        BY <1>0, <1>k, <2>1, <2>2, <2>3
    <2>4. CASE np' = [np EXCEPT ![p] = [admitted EXCEPT !.needs = TRUE]]
        <3>1. np'[p] = [admitted EXCEPT !.needs = TRUE]
            BY <1>0, <2>4
        <3>2. np'[p].xfer = admitted.xfer /\ np'[p].synced = admitted.synced
              /\ np'[p].applied = admitted.applied
            BY <3>1 DEF Loop
        <3>3. CASE admitted.xfer = "NONE" /\ ~admitted.synced /\ ~admitted.applied
            BY <2>2, <3>2, <3>3 DEF Due
        <3> QED BY <1>k, <2>1, <2>2, <3>2, <3>3
    <2> QED BY <2>1, <2>3, <2>4 DEF TryAdmit
<1>2. CASE FinishFrame(p)
    <2>1. np'[p].xfer = np[p].xfer /\ np'[p].synced = np[p].synced /\ np'[p].applied = np[p].applied
        BY <1>0, <1>2 DEF FinishFrame, Loop
    <2>2. clock'[p].epoch = clock[p].epoch
        BY <1>0, <1>2 DEF FinishFrame, Clock
    <2> QED BY <1>k, <2>1, <2>2
<1>3. CASE PollSave(p) \/ PollLoad(p)
    BY <1>k, <1>3 DEF PollSave, PollLoad, inputVars
<1>4. CASE MaybeStageTargetSave(p)
    <2>1. np'[p].xfer = np[p].xfer /\ np'[p].synced = np[p].synced /\ np'[p].applied = np[p].applied
        BY <1>0, <1>4, SMTT(40) DEF MaybeStageTargetSave, Loop
    <2> QED BY <1>4, <1>k, <2>1 DEF MaybeStageTargetSave, inputVars
<1>5. CASE ApplyReady(p)
    <2>1. \/ np'[p] = [Idle(p) EXCEPT !.cards = TRUE, !.needs = FALSE]
          \/ np'[p] = Idle(p)
          \/ \E s : np'[p] = BeginLoadApply(p, s)
        BY <1>0, <1>5 DEF ApplyReady
    <2>2. np'[p].xfer = "NONE" \/ (np'[p].xfer = "LOAD_APPLYING" /\ ~np'[p].synced)
        BY <1>0, <2>1 DEF Idle, BeginLoadApply, Loop
    <2> QED BY <1>5, <2>2, ZenonT(60) DEF ApplyReady, inputVars
<1>6. CASE EnterReady(p)
    <2>1. np[p].xfer = "LOAD_APPLYING" /\ np'[p].xfer = "LOAD_READY"
        BY <1>0, <1>6 DEF EnterReady, EnterLoadReady, Loop
    <2> QED BY <1>0, <1>6, <2>1 DEF EnterReady, Due, inputVars
<1>7. CASE AbortLoad(p)
    <2>1. np'[p].xfer = "NONE" /\ ~np'[p].applied
        BY <1>0, <1>7 DEF AbortLoad, Idle, Loop
    <2> QED BY <1>7, <2>1 DEF AbortLoad, Due, inputVars
<1> QED BY <1>1, <1>2, <1>3, <1>4, <1>5, <1>6, <1>7 DEF LoopStep


\* The exchanges are only added to.
LEMMA LongerStep ==
    ASSUME LoopType, BarrierNext
    PROVE  Longer
<1>a. ASSUME NEW x, asked' = Append(asked, x) PROVE Longer
    <2>1. asked \in Seq(Exch \cup {x})
        BY DEF LoopType
    <2>2. /\ Len(asked)' = Len(asked) + 1 /\ Len(asked) \in Nat
          /\ \A i \in 1 .. Len(asked) : asked'[i] = asked[i]
        BY <1>a, <2>1, AppendIs
    <2> QED BY <2>2, AskedIs DEF Longer
<1>u. UNCHANGED asked => Longer
    BY LongerIs
<1>1. CASE SessionPump
    BY <1>1, <1>u DEF SessionPump
<1>2. ASSUME NEW p \in Slots, LoopStep(p) PROVE Longer
    <2>1. CASE EnterReady(p)
        BY <2>1, <1>a, <1>u, SMTT(40) DEF EnterReady, Ask, orderVars
    <2>2. CASE AbortLoad(p) \/ ApplyReady(p) \/ MaybeStageTargetSave(p)
        BY <2>2, <1>u DEF AbortLoad, ApplyReady, MaybeStageTargetSave, orderVars
    <2>3. CASE Poll(p) \/ FinishFrame(p) \/ PollSave(p) \/ PollLoad(p)
        BY <2>3, <1>u, SMTT(40) DEF Poll, FinishFrame, PollSave, PollLoad, orderVars
    <2> QED BY <1>2, <2>1, <2>2, <2>3 DEF LoopStep
<1>3. ASSUME NEW g \in Guests, GuestHandleProbe(g) PROVE Longer
    BY <1>3, <1>u DEF GuestHandleProbe, AnswerReady, ArmSave, AnswerSave, AnswerCards, AnswerHash,
                      orderVars
<1>4. CASE HostDriveXfer
    <2>1. CASE DriveCards \/ DriveSaveProbe
        BY <2>1, <1>u, <1>a DEF DriveCards, DriveSaveProbe, Send, orderVars
    <2>2. CASE DriveLoadProbe
        BY <2>2, <1>u, <1>a DEF DriveLoadProbe, Send, orderVars
    <2>3. CASE AbortSave \/ DriveSaveCoord \/ DriveLoadReady
        BY <2>3, <1>u, <1>a, SMTT(40) DEF AbortSave, DriveSaveCoord, DriveLoadReady, Ask, orderVars
    <2> QED BY <1>4, <2>1, <2>2, <2>3 DEF HostDriveXfer
<1>5. CASE StartCards \/ \E s \in Saves : AskSave(s) \/ AskLoad(s)
    BY <1>5, <1>a DEF StartCards, AskSave, AskLoad, Ask
<1> QED BY <1>1, <1>2, <1>3, <1>4, <1>5 DEF BarrierNext

\* A step in which g starts no epoch: what it has heard of meanwhile makes up for it.
LEMMA EpochGuestKept ==
    ASSUME LoopType, LoopType', OrderInv, OrderInv', EpochInv, Longer, NEW g \in Guests,
           NEW n \in Nat, n = heard[g], NEW m \in Nat, m = heard'[g], n <= m,
           clock'[g].epoch = clock[g].epoch, Due(g)' => Due(g) \/ ~HeardReady(g)'
    PROVE  clock'[g].epoch + (IF MayResync(g)' THEN 1 ELSE 0) <= Cardinality(ReadyAsked(m)')
<1> DEFINE a == Cardinality(ReadyAsked(n))
           b == Cardinality(ReadyAsked(m)')
<1>0. n <= Len(asked) /\ m <= Len(asked)' /\ Len(asked) \in Nat /\ Len(asked)' \in Nat
    <2>1. Len(asked)' \in Nat
        BY DEF LoopType
    <2> QED BY <2>1, AskedIs DEF OrderInv, GuestTrue
<1>1. a \in Nat /\ b \in Nat
    <2>1. ReadyAsked(m)' \subseteq Saves
        BY DEF ReadyAsked
    <2> QED BY <2>1, ReadyAskedBound, ConstantsType, FS_Subset, FS_CardinalityType
<1>2. a <= b /\ (n < m /\ (\E s \in Saves : asked'[m] = <<"PROBE", ReadyProbe(s)>>) => a + 1 <= b)
    BY <1>0, ReadyMore DEF OrderInv
<1>3. clock[g].epoch \in Nat /\ clock[g].epoch + (IF MayResync(g) THEN 1 ELSE 0) <= a
    <2>1. g \in Slots
        BY DEF Slots
    <2> QED BY <2>1, LoopIs DEF EpochInv
<1>5. MayResync(g)' <=> HeardReady(g)' /\ Due(g)'
    BY DEF MayResync, HeardReady, Due
<1>6. CASE n = m
    <2>1. HeardReady(g)' <=> HeardReady(g)
        <3>1. n > 0 => asked'[n] = asked[n]
            BY <1>0, AskedIs DEF Longer
        <3> QED BY <1>6, <3>1 DEF HeardReady, At
    <2>2. MayResync(g)' => MayResync(g)
        BY <1>5, <2>1, MayResyncIs
    <2> HIDE DEF a, b
    <2>3. clock'[g].epoch + (IF MayResync(g)' THEN 1 ELSE 0) <= b
        BY <1>1, <1>2, <1>3, <2>2
    <2> QED BY <2>3 DEF b
<1>7. CASE n < m /\ HeardReady(g)'
    <2>1. asked'[m][1] = "PROBE" /\ IsReady(asked'[m][2]) /\ m \in Asked'
        <3>1. m \in 1 .. Len(asked)' /\ Asked' = 1 .. Len(asked)'
            BY <1>0, <1>7 DEF LoopType, Asked
        <3> QED BY <1>7, <3>1 DEF HeardReady, At
    <2>3. \E s \in Saves : asked'[m] = <<"PROBE", ReadyProbe(s)>>
        <3> DEFINE w == asked'[m][2]
        <3>1. asked'[m] \in Exch /\ asked'[m] = <<"PROBE", w>>
            BY <1>0, <2>1 DEF LoopType, Exch, Asked
        <3>2. \/ w.op = "SRAM"
              \/ /\ w.slot \in Saves
                 /\ w.op = "SAVE" \/ w.size # 0 \/ w = ReadyProbe(w.slot)
            <4>1. AskedTrue'
                BY DEF OrderInv
            <4>2. Askable(asked[m][2])'
                BY <2>1, <4>1 DEF AskedTrue
            <4> QED BY <4>2 DEF Askable, HashProbe, IsCoord, IsHash
        <3>3. w.slot \in Saves /\ w = ReadyProbe(w.slot)
            BY <2>1, <3>2 DEF IsReady
        <3> QED BY <3>1, <3>3
    <2> HIDE DEF a, b
    <2>4. clock'[g].epoch + (IF MayResync(g)' THEN 1 ELSE 0) <= b
        BY <1>1, <1>2, <1>3, <1>7, <2>3
    <2> QED BY <2>4 DEF b
<1>8. CASE n < m /\ ~HeardReady(g)'
    <2> HIDE DEF a, b
    <2>4. clock'[g].epoch + (IF MayResync(g)' THEN 1 ELSE 0) <= b
        BY <1>1, <1>2, <1>3, <1>5, <1>8
    <2> QED BY <2>4 DEF b
<1> QED BY <1>6, <1>7, <1>8

\* g's answer starts the epoch of a load it has been asked about, or none.
LEMMA AnswerEpoch ==
    ASSUME LoopType, OrderInv, EpochInv, NEW g \in Guests, GuestHandleProbe(g)
    PROVE  /\ np'[g].xfer = "LOAD_APPLYING" => ~np'[g].synced
           /\ \/ clock'[g].epoch = clock[g].epoch /\ (Due(g)' => Due(g) \/ ~HeardReady(g)')
              \/ MayResync(g) /\ clock'[g].epoch = clock[g].epoch + 1 /\ np'[g].synced
<1>0. g \in Slots /\ np[g] \in Loop /\ np \in [Slots -> Loop] /\ clock[g].epoch \in Nat
      /\ (np[g].xfer = "LOAD_APPLYING" => ~np[g].synced) /\ clock \in [Slots -> Clock]
    BY LoopIs DEF LoopType, EpochInv, Slots
<1>1. probe[g].active /\ At(g) = <<"PROBE", probe[g].what>>
    BY HeardProbe DEF GuestHandleProbe
<1>2. UNCHANGED <<asked, heard>>
    BY AnswerType DEF orderVars
<1>3. IsReady(probe[g].what) \/ ~HeardReady(g)'
    BY <1>1, <1>2 DEF HeardReady, At
<1>4. CASE AnswerReady(g)
    <2>1. PICK loop \in Loop :
              /\ CommitLoadSync(g, loop)
              /\ ~loop.synced => MayResync(g) /\ clock[g].epoch + 1 <= MaxEpoch
              /\ loop.synced => np[g].synced
              /\ loop.xfer = (IF np[g].xfer = "LOAD_APPLYING" THEN "LOAD_READY" ELSE np[g].xfer)
        BY <1>1, <1>4, AnswerReadyDoes
    <2>2. np'[g].synced /\ np'[g].xfer = loop.xfer
          /\ \/ loop.synced /\ UNCHANGED clock
             \/ ~loop.synced /\ Resync(g)
        BY <1>0, <2>1, CommitDoes
    <2>3. CASE loop.synced /\ UNCHANGED clock
        BY <2>1, <2>2, <2>3 DEF Due
    <2>4. CASE ~loop.synced /\ Resync(g)
        <3>1. clock'[g].epoch = clock[g].epoch + 1
            <4>1. clock' = [clock EXCEPT ![g] = NewEpoch(clock[g].epoch + 1)]
                BY <1>0, <2>1, <2>4, ResyncDoes
            <4> QED BY <1>0, <4>1 DEF NewEpoch
        <3> QED BY <2>1, <2>2, <2>4, <3>1
    <2> QED BY <2>2, <2>3, <2>4
<1>5. CASE ArmSave(g)
    <2>1. ~HeardReady(g)' /\ np'[g].xfer = "SAVE_COORD" /\ UNCHANGED clock
        BY <1>0, <1>3, <1>5 DEF ArmSave, IsReady, inputVars, Loop
    <2> QED BY <2>1
<1>6. CASE AnswerSave(g)
    <2>1. ~HeardReady(g)' /\ UNCHANGED clock
        BY <1>0, <1>3, <1>6 DEF AnswerSave, IsReady, inputVars
    <2>2. np'[g].xfer # "LOAD_APPLYING"
        <3>1. np[g].xfer = "SAVE_COORD"
              /\ \/ np' = [np EXCEPT ![g].xfer = "NONE", ![g].staged = FALSE, ![g].acked = FALSE]
                 \/ np' = [np EXCEPT ![g].acked = TRUE]
            BY <1>6 DEF AnswerSave
        <3>2. CASE np' = [np EXCEPT ![g].xfer = "NONE", ![g].staged = FALSE, ![g].acked = FALSE]
            BY <1>0, <3>2 DEF Loop
        <3>3. CASE np' = [np EXCEPT ![g].acked = TRUE]
            BY <1>0, <3>1, <3>3 DEF Loop
        <3> QED BY <3>1, <3>2, <3>3
    <2> QED BY <2>1, <2>2
<1>7. CASE AnswerCards(g)
    <2>1. ~HeardReady(g)' /\ UNCHANGED clock
        BY <1>0, <1>3, <1>7 DEF AnswerCards, IsReady, inputVars
    <2>2. np'[g].xfer = np[g].xfer /\ np'[g].synced = np[g].synced
        BY <1>0, <1>7 DEF AnswerCards, Loop
    <2> QED BY <1>0, <2>1, <2>2
<1>8. CASE AnswerHash(g)
    <2>1. ~HeardReady(g)' /\ UNCHANGED clock
        BY <1>0, <1>3, <1>8 DEF AnswerHash, IsReady, inputVars
    <2>2. \/ np'[g] = np[g] \/ np'[g].xfer # "LOAD_APPLYING"
          \/ np'[g] = BeginLoadApply(g, probe[g].what.slot)
        BY <1>0, <1>8, ZenonT(60) DEF AnswerHash, Idle, Loop
    <2> QED BY <1>0, <2>1, <2>2 DEF BeginLoadApply, Loop
<1> QED BY <1>4, <1>5, <1>6, <1>7, <1>8 DEF GuestHandleProbe

\* The host starts the epoch of a load it has asked about.
LEMMA EpochHostKept ==
    ASSUME LoopType, LoopType', OrderInv', EpochInv, Longer,
           clock'[Host].epoch = clock[Host].epoch,
           np'[Host].xfer = "LOAD_READY" /\ ~np'[Host].synced =>
               \/ np[Host].xfer = "LOAD_READY" /\ ~np[Host].synced
               \/ \E s \in Saves : asked' = Append(asked, <<"PROBE", ReadyProbe(s)>>)
    PROVE  clock'[Host].epoch + (IF np'[Host].xfer = "LOAD_READY" /\ ~np'[Host].synced THEN 1 ELSE 0)
              <= Cardinality(ReadyAsked(Len(asked))')
<1>1. PICK n \in Nat : n = Len(asked)
    BY AskedIs
<1>2. PICK m \in Nat : m = Len(asked)'
    BY DEF LoopType
<1> DEFINE a == Cardinality(ReadyAsked(n))
           b == Cardinality(ReadyAsked(m)')
<1>3. n <= m
    BY <1>1, <1>2 DEF Longer
<1>4. a \in Nat /\ b \in Nat
    <2>1. ReadyAsked(m)' \subseteq Saves
        BY DEF ReadyAsked
    <2> QED BY <2>1, ReadyAskedBound, ConstantsType, FS_Subset, FS_CardinalityType
<1>5. a <= b /\ (n < m /\ (\E s \in Saves : asked'[m] = <<"PROBE", ReadyProbe(s)>>) => a + 1 <= b)
    BY <1>1, <1>2, <1>3, ReadyMore DEF OrderInv
<1>6. clock[Host].epoch \in Nat
      /\ clock[Host].epoch + (IF np[Host].xfer = "LOAD_READY" /\ ~np[Host].synced THEN 1 ELSE 0) <= a
    <2>1. Host \in Slots
        BY DEF Slots
    <2> QED BY <1>1, <2>1, LoopIs DEF EpochInv
<1>7. ASSUME NEW s \in Saves, asked' = Append(asked, <<"PROBE", ReadyProbe(s)>>)
      PROVE  n < m /\ asked'[m] = <<"PROBE", ReadyProbe(s)>>
    <2>1. <<"PROBE", ReadyProbe(s)>> \in Exch
        BY Askables DEF Exch
    <2> QED BY <1>1, <1>2, <1>7, <2>1, AskedMore
<1>8. ReadyAsked(Len(asked))' = ReadyAsked(m)'
    BY <1>2 DEF ReadyAsked
<1> HIDE DEF a, b
<1>9. clock'[Host].epoch + (IF np'[Host].xfer = "LOAD_READY" /\ ~np'[Host].synced THEN 1 ELSE 0) <= b
    BY <1>4, <1>5, <1>6, <1>7
<1> QED BY <1>8, <1>9 DEF b

\* The host's loop after what it does next.
LEMMA HostEpoch ==
    ASSUME LoopType, EpochInv, HostDriveXfer \/ StartCards \/ \E s \in Saves : AskSave(s) \/ AskLoad(s)
    PROVE  /\ np'[Host].xfer = "LOAD_APPLYING" => ~np'[Host].synced
           /\ \/ UNCHANGED clock /\ np'[Host].xfer # "LOAD_READY"
              \/ /\ UNCHANGED <<clock, asked>> /\ np[Host].xfer = "LOAD_READY" /\ np[Host].synced
                 /\ np'[Host].synced
              \/ /\ np[Host].xfer = "LOAD_READY" /\ ~np[Host].synced /\ UNCHANGED asked
                 /\ clock'[Host].epoch = clock[Host].epoch + 1 /\ np'[Host].synced
<1>0. np[Host] \in Loop /\ np \in [Slots -> Loop] /\ Host \in Slots /\ clock \in [Slots -> Clock]
    BY DEF LoopType, Slots
<1>a. ASSUME NEW loop \in Loop, HostGoesOn(loop), UNCHANGED inputVars,
             loop.xfer # "LOAD_READY", loop.xfer = "LOAD_APPLYING" => ~loop.synced
      PROVE  /\ np'[Host].xfer = "LOAD_APPLYING" => ~np'[Host].synced
             /\ UNCHANGED clock /\ np'[Host].xfer # "LOAD_READY"
    BY <1>0, <1>a DEF HostGoesOn, inputVars
<1>1. CASE DriveCards
    <2>1. [Idle(Host) EXCEPT !.cards = TRUE] \in Loop
          /\ [Idle(Host) EXCEPT !.cards = TRUE].xfer = "NONE"
          /\ [np[Host] EXCEPT !.xfer = "MC_SEND"] \in Loop
          /\ [np[Host] EXCEPT !.xfer = "MC_SEND"].xfer = "MC_SEND"
        BY <1>0 DEF Idle, Loop, Phases
    <2> QED BY <1>1, <1>a, <2>1 DEF DriveCards
<1>2. CASE AbortSave
    <2>1. [Idle(Host) EXCEPT !.staged = FALSE] \in Loop
          /\ [Idle(Host) EXCEPT !.staged = FALSE].xfer = "NONE"
        BY <1>0 DEF Idle, Loop, Phases
    <2> QED BY <1>2, <1>a, <2>1 DEF AbortSave
<1>3. CASE DriveSaveCoord
    <2>1. [np[Host] EXCEPT !.xfer = "SAVE_PROBE"] \in Loop
          /\ [np[Host] EXCEPT !.xfer = "SAVE_PROBE"].xfer = "SAVE_PROBE"
        BY <1>0 DEF Loop, Phases
    <2> QED BY <1>3, <1>a, <2>1 DEF DriveSaveCoord
<1>4. CASE DriveSaveProbe
    <2>1. Idle(Host) \in Loop /\ Idle(Host).xfer = "NONE"
          /\ [np[Host] EXCEPT !.xfer = "SAVE_SEND"] \in Loop
          /\ [np[Host] EXCEPT !.xfer = "SAVE_SEND"].xfer = "SAVE_SEND"
        BY <1>0 DEF Idle, Loop, Phases
    <2> QED BY <1>4, <1>a, <2>1 DEF DriveSaveProbe
<1>5. CASE DriveLoadProbe
    <2> DEFINE s == np[Host].slot
    <2>1. BeginLoadApply(Host, s) \in Loop /\ BeginLoadApply(Host, s).xfer = "LOAD_APPLYING"
          /\ ~BeginLoadApply(Host, s).synced
        BY <1>0 DEF BeginLoadApply, Loop, Phases
    <2>2. [np[Host] EXCEPT !.xfer = "LOAD_SEND", !.applied = FALSE, !.synced = FALSE] \in Loop
          /\ [np[Host] EXCEPT !.xfer = "LOAD_SEND", !.applied = FALSE, !.synced = FALSE].xfer
                = "LOAD_SEND"
        BY <1>0 DEF Loop, Phases
    <2> QED BY <1>5, <1>a, <2>1, <2>2 DEF DriveLoadProbe
<1>6. CASE DriveLoadReady
    <2>1. CommitLoadSync(Host, np[Host]) /\ UNCHANGED asked /\ np[Host].xfer = "LOAD_READY"
        BY <1>6 DEF DriveLoadReady, orderVars, Answered
    <2>2. ~np[Host].synced => clock[Host].epoch + 1 <= MaxEpoch
        BY <2>1, EpochRoom
    <2>3. np'[Host].synced /\ np'[Host].xfer = "LOAD_READY"
          /\ \/ np[Host].synced /\ UNCHANGED clock
             \/ ~np[Host].synced /\ Resync(Host)
        BY <1>0, <2>1, <2>2, CommitDoes
    <2>4. Resync(Host) /\ ~np[Host].synced => clock'[Host].epoch = clock[Host].epoch + 1
        <3>1. Resync(Host) /\ ~np[Host].synced =>
                  clock' = [clock EXCEPT ![Host] = NewEpoch(clock[Host].epoch + 1)]
            BY <1>0, <2>2, ResyncDoes
        <3> QED BY <1>0, <3>1 DEF NewEpoch
    <2> QED BY <2>1, <2>3, <2>4
<1>7. CASE StartCards
    <2>1. [np[Host] EXCEPT !.xfer = "MC_PROBE"] \in Loop
          /\ [np[Host] EXCEPT !.xfer = "MC_PROBE"].xfer = "MC_PROBE"
        BY <1>0 DEF Loop, Phases
    <2> QED BY <1>7, <1>a, <2>1 DEF StartCards
<1>8. ASSUME NEW s \in Saves, AskSave(s)
      PROVE  UNCHANGED clock /\ np'[Host].xfer = "SAVE_COORD"
    BY <1>0, <1>8 DEF AskSave, HostGoesOn, inputVars, Loop
<1>9. ASSUME NEW s \in Saves, AskLoad(s)
      PROVE  UNCHANGED clock /\ np'[Host].xfer = "LOAD_PROBE"
    BY <1>0, <1>9 DEF AskLoad, HostGoesOn, inputVars, Loop
<1> QED BY <1>1, <1>2, <1>3, <1>4, <1>5, <1>6, <1>7, <1>8, <1>9 DEF HostDriveXfer

LEMMA EpochStep ==
    ASSUME GeneralInv, BarrierNext, LoopType', OrderInv'
    PROVE  EpochInv'
<1>0. LoopType /\ OrderInv /\ EpochInv /\ InputInv /\ SendTrue /\ Longer /\ next_xfer_id \in Nat
    BY LongerStep DEF GeneralInv, AskingInv, BarrierNext, IInv, TypeOK
<1>1. Guests \subseteq Slots /\ Host \in Slots /\ Slots = {Host} \cup Guests /\ Host \notin Guests
    BY TransferAssumption DEF Slots
<1>g. ASSUME NEW g \in Guests, heard[g] <= heard'[g], clock'[g].epoch = clock[g].epoch,
             Due(g)' => Due(g) \/ ~HeardReady(g)'
      PROVE  clock'[g].epoch + (IF MayResync(g)' THEN 1 ELSE 0)
                <= Cardinality(ReadyAsked(heard[g]))'
    <2>1. PICK n \in Nat : n = heard[g]
        BY <1>0 DEF LoopType
    <2>2. PICK m \in Nat : m = heard'[g]
        BY DEF LoopType
    <2>3. clock'[g].epoch + (IF MayResync(g)' THEN 1 ELSE 0) <= Cardinality(ReadyAsked(m)')
        BY <1>0, <1>g, <2>1, <2>2, EpochGuestKept
    <2>4. ReadyAsked(heard[g])' = ReadyAsked(m)'
        BY <2>2 DEF ReadyAsked
    <2> QED BY <2>3, <2>4
<1>k. ASSUME NEW g \in Guests, heard[g] <= heard'[g], clock'[g] = clock[g], np'[g] = np[g]
      PROVE  clock'[g].epoch + (IF MayResync(g)' THEN 1 ELSE 0)
                <= Cardinality(ReadyAsked(heard[g]))'
    BY <1>g, <1>k DEF Due
<1>h. ASSUME clock'[Host] = clock[Host], np'[Host] = np[Host]
      PROVE  clock'[Host].epoch + (IF np'[Host].xfer = "LOAD_READY" /\ ~np'[Host].synced THEN 1 ELSE 0)
                <= Cardinality(ReadyAsked(Len(asked)))'
    BY <1>0, <1>h, EpochHostKept
<1>s. \A g \in Guests : heard[g] \in Nat /\ (heard'[g] = heard[g] => heard[g] <= heard'[g])
    BY <1>0 DEF LoopType
<1> DEFINE GuestsKept == \A g \in Guests : clock'[g].epoch + (IF MayResync(g)' THEN 1 ELSE 0)
                                              <= Cardinality(ReadyAsked(heard[g]))'
           HostKept == clock'[Host].epoch
                         + (IF np'[Host].xfer = "LOAD_READY" /\ ~np'[Host].synced THEN 1 ELSE 0)
                           <= Cardinality(ReadyAsked(Len(asked)))'
           ApplyingKept == \A p \in Slots : np'[p].xfer = "LOAD_APPLYING" => ~np'[p].synced
<1>2. ASSUME SessionPump PROVE GuestsKept /\ HostKept /\ ApplyingKept
    <2>1. UNCHANGED <<np, clock>>
        BY <1>2 DEF SessionPump, loopVars, inputVars
    <2>2. \A g \in Guests : heard[g] <= heard'[g]
        <3>1. CASE UNCHANGED heard
            BY <1>s, <3>1
        <3>2. CASE \E g \in Guests : GuestReceive(g)
            <4>1. PICK g \in Guests, m \in net : InOrder(g, m)
                BY <3>2 DEF GuestReceive
            <4> QED BY <1>0, <4>1, InOrderIs
        <3> QED BY <1>2, <3>1, <3>2 DEF SessionPump
    <2>3. GuestsKept /\ HostKept
        BY <1>k, <1>h, <2>1, <2>2
    <2>4. ApplyingKept
        BY <1>0, <2>1 DEF EpochInv
    <2> QED BY <2>3, <2>4
<1>3. ASSUME NEW p \in Slots, LoopStep(p) PROVE GuestsKept /\ HostKept /\ ApplyingKept
    <2>1. /\ clock'[p].epoch = clock[p].epoch
          /\ np'[p].xfer = "LOAD_APPLYING" => ~np'[p].synced
          /\ Due(p)' => Due(p) \/ ApplyReady(p)
          /\ np'[p].xfer = "LOAD_READY" =>
                \/ np[p].xfer = "LOAD_READY" /\ np'[p].synced = np[p].synced
                \/ EnterReady(p)
        BY <1>0, <1>3, EpochOfLoop
    <2>2. \A q \in Slots : q # p => np'[q] = np[q] /\ clock'[q] = clock[q]
        BY <1>0, <1>3, StepIsOwn
    <2>3. UNCHANGED heard
        <3>1. CASE EnterReady(p)
            BY <3>1, SMTT(40) DEF EnterReady, Ask, orderVars
        <3>2. CASE AbortLoad(p) \/ ApplyReady(p) \/ MaybeStageTargetSave(p)
            BY <3>2 DEF AbortLoad, ApplyReady, MaybeStageTargetSave, orderVars
        <3>3. CASE Poll(p) \/ FinishFrame(p) \/ PollSave(p) \/ PollLoad(p)
            BY <3>3 DEF Poll, FinishFrame, PollSave, PollLoad, orderVars
        <3> QED BY <1>3, <3>1, <3>2, <3>3 DEF LoopStep
    <2>4. ApplyingKept
        BY <1>0, <2>1, <2>2 DEF EpochInv
    <2>5. GuestsKept
        <3> SUFFICES ASSUME NEW g \in Guests
                     PROVE  clock'[g].epoch + (IF MayResync(g)' THEN 1 ELSE 0)
                               <= Cardinality(ReadyAsked(heard[g]))'
            OBVIOUS
        <3>1. CASE g # p
            BY <1>1, <1>k, <1>s, <2>2, <2>3, <3>1
        <3>2. CASE g = p
            <4>1. ApplyReady(g) => ~HeardReady(g)'
                <5>1. ASSUME ApplyReady(g) PROVE At(g)[1] = "XFER" /\ UNCHANGED <<asked, heard>>
                    <6>1. rx[g].active /\ UNCHANGED <<asked, heard>>
                        BY <1>1, <5>1 DEF ApplyReady, GuestFinish, orderVars
                    <6> QED BY <1>0, <6>1, HeardBlob, SMTT(40)
                <5> QED BY <5>1 DEF HeardReady, At
            <4> QED BY <1>g, <1>s, <2>1, <2>3, <3>2, <4>1
        <3> QED BY <3>1, <3>2
    <2>6. HostKept
        <3>1. CASE p # Host
            BY <1>1, <1>h, <2>2, <3>1
        <3>2. CASE p = Host
            <4>1. EnterReady(Host) => \E s \in Saves : asked' = Append(asked, <<"PROBE", ReadyProbe(s)>>)
                BY <1>0 DEF EnterReady, Ask, SendTrue
            <4> QED BY <1>0, <2>1, <3>2, <4>1, EpochHostKept
        <3> QED BY <3>1, <3>2
    <2> QED BY <2>4, <2>5, <2>6
<1>4. ASSUME NEW p \in Guests, GuestHandleProbe(p) PROVE GuestsKept /\ HostKept /\ ApplyingKept
    <2>1. /\ np'[p].xfer = "LOAD_APPLYING" => ~np'[p].synced
          /\ \/ clock'[p].epoch = clock[p].epoch /\ (Due(p)' => Due(p) \/ ~HeardReady(p)')
             \/ MayResync(p) /\ clock'[p].epoch = clock[p].epoch + 1 /\ np'[p].synced
        BY <1>0, <1>4, AnswerEpoch
    <2>2. \A q \in Slots : q # p => np'[q] = np[q] /\ clock'[q] = clock[q]
        BY <1>0, <1>1, <1>4, StepIsOwn
    <2>3. UNCHANGED <<heard, asked>>
        BY <1>0, <1>4, AnswerType DEF orderVars
    <2>4. ApplyingKept
        BY <1>0, <2>1, <2>2 DEF EpochInv
    <2>5. GuestsKept
        <3> SUFFICES ASSUME NEW g \in Guests
                     PROVE  clock'[g].epoch + (IF MayResync(g)' THEN 1 ELSE 0)
                               <= Cardinality(ReadyAsked(heard[g]))'
            OBVIOUS
        <3>1. CASE g # p
            BY <1>1, <1>k, <1>s, <2>2, <2>3, <3>1
        <3>2. CASE g = p /\ clock'[p].epoch = clock[p].epoch
            <4>1. Due(p)' => Due(p) \/ ~HeardReady(p)'
                <5>1. np'[p].synced => ~Due(p)'
                    BY DEF Due
                <5> QED BY <2>1, <5>1
            <4> QED BY <1>g, <1>s, <2>1, <2>3, <3>2, <4>1
        <3>3. CASE g = p /\ MayResync(p) /\ clock'[p].epoch = clock[p].epoch + 1 /\ np'[p].synced
            <4>1. ~MayResync(p)'
                BY <3>3 DEF MayResync
            <4>2. clock[p].epoch + 1 <= Cardinality(ReadyAsked(heard[p]))
                BY <1>0, <3>3 DEF EpochInv
            <4>3. ReadyAsked(heard[p])' = ReadyAsked(heard[p])
                BY <2>3 DEF ReadyAsked
            <4>4. clock[p].epoch + 1 \in Nat
                BY <1>0, <1>1, LoopIs
            <4> QED BY <3>3, <4>1, <4>2, <4>3, <4>4
        <3> QED BY <2>1, <3>1, <3>2, <3>3
    <2>6. HostKept
        BY <1>1, <1>h, <2>2
    <2> QED BY <2>4, <2>5, <2>6
<1>5. ASSUME HostDriveXfer \/ StartCards \/ \E s \in Saves : AskSave(s) \/ AskLoad(s)
      PROVE  GuestsKept /\ HostKept /\ ApplyingKept
    <2>1. \A g \in Guests : np'[g] = np[g] /\ clock'[g] = clock[g]
        BY <1>0, <1>5, HostIsOwn
    <2>2. UNCHANGED heard
        <3>1. CASE DriveCards \/ DriveSaveProbe \/ DriveLoadProbe
            BY <3>1 DEF DriveCards, DriveSaveProbe, DriveLoadProbe, Send, orderVars
        <3>2. CASE AbortSave \/ DriveSaveCoord \/ DriveLoadReady
            BY <3>2, SMTT(40) DEF AbortSave, DriveSaveCoord, DriveLoadReady, Ask, orderVars
        <3>3. CASE StartCards \/ \E s \in Saves : AskSave(s) \/ AskLoad(s)
            BY <3>3 DEF StartCards, AskSave, AskLoad, Ask
        <3> QED BY <1>5, <3>1, <3>2, <3>3 DEF HostDriveXfer
    <2>3. GuestsKept
        BY <1>k, <1>s, <2>1, <2>2
    <2>4. /\ np'[Host].xfer = "LOAD_APPLYING" => ~np'[Host].synced
          /\ \/ UNCHANGED clock /\ np'[Host].xfer # "LOAD_READY"
             \/ /\ UNCHANGED <<clock, asked>> /\ np[Host].xfer = "LOAD_READY" /\ np[Host].synced
                /\ np'[Host].synced
             \/ /\ np[Host].xfer = "LOAD_READY" /\ ~np[Host].synced /\ UNCHANGED asked
                /\ clock'[Host].epoch = clock[Host].epoch + 1 /\ np'[Host].synced
        BY <1>0, <1>5, HostEpoch
    <2>5. ApplyingKept
        BY <1>0, <1>1, <2>1, <2>4 DEF EpochInv
    <2>6. HostKept
        <3>1. CASE UNCHANGED clock
            <4>1. np'[Host].xfer = "LOAD_READY" /\ ~np'[Host].synced =>
                      np[Host].xfer = "LOAD_READY" /\ ~np[Host].synced
                BY <2>4
            <4> QED BY <1>0, <3>1, <4>1, EpochHostKept
        <3>2. CASE /\ np[Host].xfer = "LOAD_READY" /\ ~np[Host].synced /\ UNCHANGED asked
                   /\ clock'[Host].epoch = clock[Host].epoch + 1 /\ np'[Host].synced
            <4>2. clock[Host].epoch + 1 <= Cardinality(ReadyAsked(Len(asked)))
                BY <1>0, <3>2 DEF EpochInv
            <4>3. ReadyAsked(Len(asked))' = ReadyAsked(Len(asked))
                BY <3>2 DEF ReadyAsked
            <4>4. clock[Host].epoch + 1 \in Nat
                BY <1>0, <1>1, LoopIs
            <4> QED BY <3>2, <4>2, <4>3, <4>4
        <3> QED BY <2>4, <3>1, <3>2
    <2> QED BY <2>3, <2>5, <2>6
<1>6. GuestsKept /\ HostKept /\ ApplyingKept
    <2> HIDE DEF GuestsKept, HostKept, ApplyingKept
    <2> QED BY <1>2, <1>3, <1>4, <1>5 DEF BarrierNext
<1> QED BY <1>6 DEF EpochInv

-----------------------------------------------------------------------------
(* What a peer has of the others' inputs they have sampled *)

LEMMA InputQuiet ==
    ASSUME InputInv, UNCHANGED <<inputVars, frame>>, \A p \in Slots : np'[p].needs => np[p].needs
    PROVE  InputInv'
BY DEF InputInv, MarksTrue, LaterUnused, FrameTrue, inputVars

\* Only p moves, and marks only grow.
LEMMA InputMoves ==
    ASSUME LoopType, LoopType', InputInv, NEW p \in Slots,
           \A q \in Slots : q # p => /\ np'[q].needs => np[q].needs
                                     /\ frame'[q] = frame[q] /\ clock'[q] = clock[q]
                                     /\ sampled'[q] = sampled[q] /\ confirmed'[q] = confirmed[q],
           \A q \in Slots : \A f \in 0 .. MaxEpoch :
               sampled'[q][f] >= sampled[q][f] /\ confirmed'[q][f] >= confirmed[q][f],
           \A q \in Slots : /\ clock'[p].rows[q] <= sampled'[q][clock'[p].epoch]
                            /\ clock'[p].confirms[q] <= confirmed'[q][clock'[p].epoch],
           \A f \in 0 .. MaxEpoch :
               f > clock'[p].epoch => sampled'[p][f] = -1 /\ confirmed'[p][f] = -1,
           np'[p].needs => /\ frame'[p] /\ clock'[p].sim < LastTick(clock'[p].epoch)
                           /\ confirmed'[p][clock'[p].epoch] >= clock'[p].sim
                           /\ \A q \in Slots : sampled'[q][clock'[p].epoch] >= clock'[p].sim
    PROVE  InputInv'
<1>1. \A q \in Slots : clock[q] \in Clock /\ clock[q].epoch \in 0 .. MaxEpoch /\ clock[q].sim \in Nat
    BY LoopIs
<1>2. \A q, r \in Slots : clock[q].rows[r] \in Int /\ clock[q].confirms[r] \in Int
    BY <1>1 DEF Clock, Mark
<1>3. \A q \in Slots : \A f \in 0 .. MaxEpoch :
          /\ sampled[q][f] \in Int /\ confirmed[q][f] \in Int
          /\ sampled'[q][f] \in Int /\ confirmed'[q][f] \in Int
    <2>1. Mark \subseteq Int
        BY DEF Mark
    <2>2. /\ sampled \in [Slots -> [0 .. MaxEpoch -> Mark]] /\ confirmed \in [Slots -> [0 .. MaxEpoch -> Mark]]
          /\ sampled' \in [Slots -> [0 .. MaxEpoch -> Mark]] /\ confirmed' \in [Slots -> [0 .. MaxEpoch -> Mark]]
        BY DEF LoopType
    <2> QED BY <2>1, <2>2, ZenonT(60)
<1>4. MarksTrue'
    <2> SUFFICES ASSUME NEW r \in Slots, NEW q \in Slots
                 PROVE  /\ clock'[r].rows[q] <= sampled'[q][clock'[r].epoch]
                        /\ clock'[r].confirms[q] <= confirmed'[q][clock'[r].epoch]
        BY DEF MarksTrue
    <2>1. CASE r # p
        <3> DEFINE e == clock[r].epoch
        <3>1. clock[r].rows[q] <= sampled[q][e] /\ clock[r].confirms[q] <= confirmed[q][e]
            BY DEF InputInv, MarksTrue
        <3>2. sampled'[q][e] >= sampled[q][e] /\ confirmed'[q][e] >= confirmed[q][e]
            BY <1>1
        <3>3. e \in 0 .. MaxEpoch
            BY <1>1
        <3> HIDE DEF e
        <3>4. clock[r].rows[q] <= sampled'[q][e] /\ clock[r].confirms[q] <= confirmed'[q][e]
            BY <1>2, <1>3, <3>1, <3>2, <3>3
        <3> QED BY <2>1, <3>4 DEF e
    <2> QED BY <2>1
<1>5. LaterUnused'
    BY DEF InputInv, LaterUnused
<1>6. FrameTrue'
    <2> SUFFICES ASSUME NEW r \in Slots, np'[r].needs
                 PROVE  /\ frame'[r] /\ clock'[r].sim < LastTick(clock'[r].epoch)
                        /\ confirmed'[r][clock'[r].epoch] >= clock'[r].sim
                        /\ \A q \in Slots : sampled'[q][clock'[r].epoch] >= clock'[r].sim
        BY DEF FrameTrue, LastTick
    <2>1. CASE r # p
        <3> DEFINE e == clock[r].epoch
                   t == clock[r].sim
        <3>1. frame[r] /\ t < LastTick(e) /\ confirmed[r][e] >= t
              /\ \A q \in Slots : sampled[q][e] >= t
            BY <2>1 DEF InputInv, FrameTrue
        <3>2. e \in 0 .. MaxEpoch /\ t \in Nat
            BY <1>1
        <3>3. ASSUME NEW q \in Slots PROVE sampled'[q][e] >= t
            <4>1. sampled[q][e] >= t /\ sampled'[q][e] >= sampled[q][e]
                BY <3>1, <3>2
            <4> HIDE DEF e, t
            <4> QED BY <1>3, <3>2, <4>1
        <3>4. clock'[r] = clock[r] /\ confirmed'[r] = confirmed[r] /\ frame'[r] = frame[r]
            BY <2>1
        <3> QED BY <3>1, <3>3, <3>4
    <2> QED BY <2>1
<1> QED BY <1>4, <1>5, <1>6 DEF InputInv

\* p starts an epoch nobody has used.
LEMMA InputResync ==
    ASSUME LoopType, LoopType', InputInv, NEW p \in Slots, clock[p].epoch + 1 <= MaxEpoch, Resync(p),
           ~np'[p].needs, \A q \in Slots : q # p => np'[q] = np[q], UNCHANGED frame
    PROVE  InputInv'
<1> DEFINE e == clock[p].epoch + 1
<1>0. /\ e \in 0 .. MaxEpoch /\ clock[p].epoch \in Nat
      /\ clock' = [clock EXCEPT ![p] = NewEpoch(e)]
      /\ sampled' = [sampled EXCEPT ![p][e] = Delay - 1] /\ UNCHANGED confirmed
    BY ResyncDoes, LoopIs
<1>1. clock'[p] = NewEpoch(e) /\ clock'[p].epoch = e
      /\ \A q \in Slots : clock'[p].rows[q] = -1 /\ clock'[p].confirms[q] = -1
    BY <1>0 DEF LoopType, NewEpoch
<1>2. \A q \in Slots : q # p => clock'[q] = clock[q] /\ sampled'[q] = sampled[q]
    BY <1>0 DEF LoopType
<1>3. sampled[p][e] = -1 /\ confirmed[p][e] = -1
    BY <1>0 DEF InputInv, LaterUnused
<1>4. /\ sampled \in [Slots -> [0 .. MaxEpoch -> Mark]] /\ confirmed \in [Slots -> [0 .. MaxEpoch -> Mark]]
      /\ sampled' \in [Slots -> [0 .. MaxEpoch -> Mark]]
    BY DEF LoopType
<1>5. \A f \in 0 .. MaxEpoch : sampled'[p][f] = (IF f = e THEN Delay - 1 ELSE sampled[p][f])
    BY <1>0, <1>4
<1> HIDE DEF e
<1>6. \A q \in Slots : \A f \in 0 .. MaxEpoch :
          sampled'[q][f] >= sampled[q][f] /\ confirmed'[q][f] >= confirmed[q][f]
    <2> SUFFICES ASSUME NEW q \in Slots, NEW f \in 0 .. MaxEpoch
                 PROVE  sampled'[q][f] >= sampled[q][f] /\ confirmed'[q][f] >= confirmed[q][f]
        OBVIOUS
    <2>1. sampled[q][f] \in Mark /\ confirmed[q][f] \in Mark
        BY <1>4
    <2>2. sampled'[q][f] = sampled[q][f] \/ (sampled[q][f] = -1 /\ sampled'[q][f] = Delay - 1)
        BY <1>2, <1>3, <1>5
    <2> QED BY <1>0, <2>1, <2>2, ConstantsType DEF Mark
<1>7. \A q \in Slots : /\ clock'[p].rows[q] <= sampled'[q][clock'[p].epoch]
                       /\ clock'[p].confirms[q] <= confirmed'[q][clock'[p].epoch]
    <2> SUFFICES ASSUME NEW q \in Slots
                 PROVE  -1 <= sampled'[q][e] /\ -1 <= confirmed'[q][e]
        BY <1>1
    <2>0. e \in 0 .. MaxEpoch /\ confirmed' = confirmed
        BY <1>0
    <2>1. sampled'[q][e] \in Mark /\ confirmed'[q][e] \in Mark
        BY <1>4, <2>0
    <2> QED BY <2>1 DEF Mark
<1>8. \A f \in 0 .. MaxEpoch : f > clock'[p].epoch => sampled'[p][f] = -1 /\ confirmed'[p][f] = -1
    <2> SUFFICES ASSUME NEW f \in 0 .. MaxEpoch, f > e
                 PROVE  sampled'[p][f] = -1 /\ confirmed'[p][f] = -1
        BY <1>1
    <2>1. f > clock[p].epoch /\ f # e
        BY <1>0 DEF e
    <2> QED BY <1>0, <1>5, <2>1 DEF InputInv, LaterUnused
<1> QED BY <1>0, <1>2, <1>6, <1>7, <1>8, InputMoves

LEMMA InputPolled ==
    ASSUME LoopType, LoopType', InputInv, NEW p \in Slots, Poll(p)
    PROVE  InputInv'
<1>1. PICK c \in Pumped(p), admitted \in Loop, refused \in Loop :
          TryAdmit(p, c, admitted, refused) /\ ~admitted.needs /\ ~refused.needs
    BY PollDoes
<1> DEFINE e == clock[p].epoch
           t == clock[p].sim
           heardAll == \A q \in Others(p) : c.rows[q] >= t /\ c.confirms[q] >= t
<1>2. /\ e \in 0 .. MaxEpoch /\ t \in Nat /\ t < LastTick(e)
      /\ clock' = [clock EXCEPT ![p] = c]
      /\ \A q \in Slots : \A f \in 0 .. MaxEpoch :
            /\ sampled'[q][f] >= sampled[q][f] /\ confirmed'[q][f] >= confirmed[q][f]
            /\ q # p \/ f # e => /\ sampled'[q][f] = sampled[q][f]
                                 /\ confirmed'[q][f] = confirmed[q][f]
      /\ sampled'[p][e] >= t + Delay
      /\ heardAll => confirmed'[p][e] >= t
      /\ \/ /\ heardAll
            /\ np' = [np EXCEPT ![p] = [admitted EXCEPT !.needs = TRUE]]
            /\ frame' = [frame EXCEPT ![p] = TRUE]
         \/ ~heardAll /\ np' = [np EXCEPT ![p] = refused] /\ UNCHANGED frame
    BY <1>1, TryAdmitDoes DEF InputInv
<1>3. c \in Clock /\ c.sim = t /\ c.epoch = e
      /\ \A q \in Slots : c.rows[q] <= sampled[q][e] /\ c.confirms[q] <= confirmed[q][e]
    BY PumpedType DEF InputInv
<1>4. clock'[p] = c /\ \A q \in Slots : q # p => clock'[q] = clock[q]
    BY <1>2 DEF LoopType
<1>5. /\ sampled \in [Slots -> [0 .. MaxEpoch -> Mark]] /\ confirmed \in [Slots -> [0 .. MaxEpoch -> Mark]]
      /\ sampled' \in [Slots -> [0 .. MaxEpoch -> Mark]] /\ confirmed' \in [Slots -> [0 .. MaxEpoch -> Mark]]
    BY DEF LoopType
<1>6. \A q \in Slots : q # p => np'[q] = np[q] /\ frame'[q] = frame[q]
    BY <1>2 DEF LoopType
<1>7. \A q \in Slots : q # p => sampled'[q] = sampled[q] /\ confirmed'[q] = confirmed[q]
    BY <1>1, <1>5 DEF TryAdmit
<1>8. ASSUME NEW q \in Slots
      PROVE  /\ c.rows[q] \in Int /\ c.confirms[q] \in Int
             /\ sampled[q][e] \in Int /\ confirmed[q][e] \in Int
             /\ sampled'[q][e] \in Int /\ confirmed'[q][e] \in Int
    <2>1. c.rows[q] \in Mark /\ c.confirms[q] \in Mark
        BY <1>3 DEF Clock
    <2>2. sampled[q][e] \in Mark /\ confirmed[q][e] \in Mark /\ sampled'[q][e] \in Mark
          /\ confirmed'[q][e] \in Mark
        BY <1>2, <1>5, ZenonT(60)
    <2> QED BY <2>1, <2>2 DEF Mark
<1>9. ASSUME NEW q \in Slots
      PROVE  c.rows[q] <= sampled'[q][e] /\ c.confirms[q] <= confirmed'[q][e]
    <2>1. /\ c.rows[q] <= sampled[q][e] /\ c.confirms[q] <= confirmed[q][e]
          /\ sampled'[q][e] >= sampled[q][e] /\ confirmed'[q][e] >= confirmed[q][e]
        BY <1>2, <1>3
    <2> HIDE DEF e
    <2> QED BY <1>8, <2>1
<1>10. \A f \in 0 .. MaxEpoch : f > e => sampled'[p][f] = -1 /\ confirmed'[p][f] = -1
    <2> SUFFICES ASSUME NEW f \in 0 .. MaxEpoch, f > e
                 PROVE  sampled'[p][f] = -1 /\ confirmed'[p][f] = -1
        OBVIOUS
    <2>1. f # e
        BY <1>2
    <2> QED BY <1>2, <2>1 DEF InputInv, LaterUnused
<1>11. ASSUME np'[p].needs
       PROVE  /\ frame'[p] /\ confirmed'[p][e] >= t
              /\ \A q \in Slots : sampled'[q][e] >= t
    <2>1. CASE ~heardAll /\ np' = [np EXCEPT ![p] = refused]
        BY <1>1, <1>11, <2>1 DEF LoopType
    <2>2. CASE heardAll /\ frame' = [frame EXCEPT ![p] = TRUE]
        <3>1. frame'[p] /\ confirmed'[p][e] >= t
            BY <1>2, <2>2 DEF LoopType
        <3>2. ASSUME NEW q \in Slots PROVE sampled'[q][e] >= t
            <4>1. CASE q = p
                <5>1. sampled'[p][e] >= t + Delay
                    BY <1>2
                <5> HIDE DEF e, t
                <5> QED BY <1>2, <1>8, <4>1, <5>1, ConstantsType
            <4>2. CASE q # p
                <5>1. c.rows[q] >= t /\ c.rows[q] <= sampled'[q][e]
                    BY <1>9, <2>2, <4>2 DEF Others
                <5> HIDE DEF e, t
                <5> QED BY <1>2, <1>8, <5>1
            <4> QED BY <4>1, <4>2
        <3> QED BY <3>1, <3>2
    <2> QED BY <1>2, <2>1, <2>2
<1>12. /\ \A q \in Slots : /\ clock'[p].rows[q] <= sampled'[q][clock'[p].epoch]
                           /\ clock'[p].confirms[q] <= confirmed'[q][clock'[p].epoch]
       /\ \A f \in 0 .. MaxEpoch :
              f > clock'[p].epoch => sampled'[p][f] = -1 /\ confirmed'[p][f] = -1
       /\ np'[p].needs => /\ frame'[p] /\ clock'[p].sim < LastTick(clock'[p].epoch)
                          /\ confirmed'[p][clock'[p].epoch] >= clock'[p].sim
                          /\ \A q \in Slots : sampled'[q][clock'[p].epoch] >= clock'[p].sim
    BY <1>2, <1>3, <1>4, <1>9, <1>10, <1>11
<1>13. \A q \in Slots : \A f \in 0 .. MaxEpoch :
           sampled'[q][f] >= sampled[q][f] /\ confirmed'[q][f] >= confirmed[q][f]
    BY <1>2
<1>14. \A q \in Slots : q # p => /\ np'[q].needs => np[q].needs
                                 /\ frame'[q] = frame[q] /\ clock'[q] = clock[q]
                                 /\ sampled'[q] = sampled[q] /\ confirmed'[q] = confirmed[q]
    BY <1>4, <1>6, <1>7
<1> HIDE DEF e, t, heardAll
<1> QED BY <1>12, <1>13, <1>14, InputMoves

LEMMA InputFinished ==
    ASSUME LoopType, LoopType', InputInv, NEW p \in Slots, FinishFrame(p)
    PROVE  InputInv'
<1>0. /\ np \in [Slots -> Loop] /\ clock \in [Slots -> Clock] /\ frame \in [Slots -> BOOLEAN]
      /\ np[p] \in Loop /\ clock[p] \in Clock
      /\ sampled \in [Slots -> [0 .. MaxEpoch -> Mark]]
      /\ confirmed \in [Slots -> [0 .. MaxEpoch -> Mark]]
      /\ UNCHANGED <<sampled, confirmed>> /\ frame' = [frame EXCEPT ![p] = FALSE]
    BY DEF LoopType, FinishFrame
<1>1. clock'[p].epoch = clock[p].epoch /\ clock'[p].rows = clock[p].rows
      /\ clock'[p].confirms = clock[p].confirms /\ ~np'[p].needs
    <2>1. CASE np[p].needs
        <3>1. clock' = [clock EXCEPT ![p].sim = @ + 1] /\ np' = [np EXCEPT ![p].needs = FALSE]
            BY <2>1 DEF FinishFrame
        <3> QED BY <1>0, <3>1 DEF Clock, Loop
    <2>2. CASE ~np[p].needs
        BY <2>2 DEF FinishFrame
    <2> QED BY <2>1, <2>2
<1>2. \A q \in Slots : q # p => np'[q] = np[q] /\ clock'[q] = clock[q] /\ frame'[q] = frame[q]
    BY <1>0, StepIsOwn DEF LoopStep
<1>3. \A q \in Slots : \A f \in 0 .. MaxEpoch :
          sampled'[q][f] >= sampled[q][f] /\ confirmed'[q][f] >= confirmed[q][f]
    <2>1. \A q \in Slots : \A f \in 0 .. MaxEpoch : sampled[q][f] \in Mark /\ confirmed[q][f] \in Mark
        BY <1>0
    <2>2. \A x \in Mark : x >= x
        BY DEF Mark
    <2> QED BY <1>0, <2>1, <2>2
<1>4. \A q \in Slots : /\ clock'[p].rows[q] <= sampled'[q][clock'[p].epoch]
                       /\ clock'[p].confirms[q] <= confirmed'[q][clock'[p].epoch]
    BY <1>0, <1>1 DEF InputInv, MarksTrue
<1>5. \A f \in 0 .. MaxEpoch : f > clock'[p].epoch => sampled'[p][f] = -1 /\ confirmed'[p][f] = -1
    BY <1>0, <1>1 DEF InputInv, LaterUnused
<1> QED BY <1>0, <1>1, <1>2, <1>3, <1>4, <1>5, InputMoves

\* What else p's loop does starts no frame.
LEMMA NeedsKept ==
    ASSUME LoopType, OrderInv, EpochInv, next_xfer_id \in Nat, NEW p \in Slots,
           \/ LoopStep(p) /\ ~Poll(p) /\ ~FinishFrame(p)
           \/ p \in Guests /\ GuestHandleProbe(p)
    PROVE  np'[p].needs => np[p].needs
<1>0. np[p] \in Loop /\ np \in [Slots -> Loop]
    BY DEF LoopType
<1>1. CASE PollSave(p) \/ PollLoad(p)
    BY <1>1 DEF PollSave, PollLoad
<1>2. CASE MaybeStageTargetSave(p)
    BY <1>0, <1>2 DEF MaybeStageTargetSave, Loop
<1>3. CASE ApplyReady(p)
    <2>1. \/ np'[p] = [Idle(p) EXCEPT !.cards = TRUE, !.needs = FALSE]
          \/ np'[p] = Idle(p)
          \/ \E s : np'[p] = BeginLoadApply(p, s)
        BY <1>0, <1>3 DEF ApplyReady
    <2> QED BY <1>0, <2>1, ZenonT(60) DEF Idle, BeginLoadApply, Loop
<1>4. CASE EnterReady(p)
    BY <1>0, <1>4 DEF EnterReady, EnterLoadReady, Loop
<1>5. CASE AbortLoad(p)
    BY <1>0, <1>5 DEF AbortLoad, Idle, Loop
<1>6. CASE p \in Guests /\ GuestHandleProbe(p)
    <2>1. CASE AnswerReady(p)
        <3>1. PICK loop \in Loop : /\ CommitLoadSync(p, loop) /\ (loop.needs => np[p].needs)
                                   /\ ~loop.synced => clock[p].epoch + 1 <= MaxEpoch
            BY <1>6, <2>1, AnswerReadyDoes DEF GuestHandleProbe
        <3> QED BY <3>1, CommitDoes
    <2>2. CASE ArmSave(p)
        BY <1>0, <2>2 DEF ArmSave, Loop
    <2>3. CASE AnswerSave(p)
        <3>1. \/ np' = [np EXCEPT ![p].xfer = "NONE", ![p].staged = FALSE, ![p].acked = FALSE]
              \/ np' = [np EXCEPT ![p].acked = TRUE]
            BY <2>3 DEF AnswerSave
        <3>2. CASE np' = [np EXCEPT ![p].xfer = "NONE", ![p].staged = FALSE, ![p].acked = FALSE]
            BY <1>0, <3>2 DEF Loop
        <3>3. CASE np' = [np EXCEPT ![p].acked = TRUE]
            BY <1>0, <3>3 DEF Loop
        <3> QED BY <3>1, <3>2, <3>3
    <2>4. CASE AnswerCards(p)
        BY <1>0, <2>4 DEF AnswerCards, Loop
    <2>5. CASE AnswerHash(p)
        <3> DEFINE s == probe[p].what.slot
        <3>1. \/ UNCHANGED np
              \/ np' = [np EXCEPT ![p] = Idle(p)]
              \/ np' = [np EXCEPT ![p] = BeginLoadApply(p, s)]
              \/ np' = [np EXCEPT ![p] = [np[p] EXCEPT !.xfer = "SAVE_SEND", !.slot = s]]
              \/ np' = [np EXCEPT ![p].xfer = "LOAD_SEND", ![p].slot = s]
            BY <2>5 DEF AnswerHash
        <3> HIDE DEF s
        <3>2. CASE np' = [np EXCEPT ![p].xfer = "LOAD_SEND", ![p].slot = s]
            BY <1>0, <3>2 DEF Loop
        <3>3. CASE np' = [np EXCEPT ![p] = [np[p] EXCEPT !.xfer = "SAVE_SEND", !.slot = s]]
            BY <1>0, <3>3 DEF Loop
        <3> QED BY <1>0, <3>1, <3>2, <3>3 DEF Idle, BeginLoadApply, Loop
    <2> QED BY <1>6, <2>1, <2>2, <2>3, <2>4, <2>5 DEF GuestHandleProbe
<1> QED BY <1>1, <1>2, <1>3, <1>4, <1>5, <1>6 DEF LoopStep

LEMMA InputStep ==
    ASSUME GeneralInv, BarrierNext, LoopType'
    PROVE  InputInv'
<1>0. LoopType /\ OrderInv /\ EpochInv /\ InputInv /\ next_xfer_id \in Nat
    BY DEF GeneralInv, BarrierNext, IInv, TypeOK
<1>1. Guests \subseteq Slots /\ Host \in Slots /\ Slots = {Host} \cup Guests
    BY DEF Slots
<1>2. CASE SessionPump
    BY <1>0, <1>2, InputQuiet DEF SessionPump, loopVars
<1>3. ASSUME NEW p \in Slots, LoopStep(p) PROVE InputInv'
    <2>1. CASE Poll(p)
        BY <1>0, <2>1, InputPolled
    <2>2. CASE FinishFrame(p)
        BY <1>0, <2>2, InputFinished
    <2>3. CASE ~Poll(p) /\ ~FinishFrame(p)
        <3>1. np'[p].needs => np[p].needs
            BY <1>0, <1>3, <2>3, NeedsKept
        <3>2. \A q \in Slots : q # p => np'[q] = np[q]
            BY <1>0, <1>3, StepIsOwn, SMTT(40)
        <3>3. UNCHANGED <<inputVars, frame>>
            BY <1>3, <2>3 DEF LoopStep, PollSave, PollLoad, MaybeStageTargetSave, ApplyReady,
                              EnterReady, AbortLoad
        <3> QED BY <1>0, <3>1, <3>2, <3>3, InputQuiet
    <2> QED BY <2>1, <2>2, <2>3
<1>4. ASSUME NEW p \in Guests, GuestHandleProbe(p) PROVE InputInv'
    <2>1. np'[p].needs => np[p].needs
        BY <1>0, <1>1, <1>4, NeedsKept
    <2>2. \A q \in Slots : q # p => np'[q] = np[q]
        BY <1>0, <1>1, <1>4, StepIsOwn
    <2>3. UNCHANGED frame
        BY <1>0, <1>4, AnswerType
    <2>4. CASE AnswerReady(p)
        <3>1. PICK loop \in Loop : /\ CommitLoadSync(p, loop)
                                   /\ ~loop.synced => clock[p].epoch + 1 <= MaxEpoch
            BY <1>0, <1>4, <2>4, AnswerReadyDoes DEF GuestHandleProbe
        <3>2. CASE loop.synced
            <4>1. UNCHANGED inputVars
                BY <3>1, <3>2 DEF CommitLoadSync
            <4> QED BY <1>0, <2>1, <2>2, <2>3, <4>1, InputQuiet
        <3>3. CASE ~loop.synced
            <4>1. Resync(p) /\ ~np'[p].needs
                BY <1>0, <1>1, <3>1, <3>3, CommitDoes
            <4> QED BY <1>0, <1>1, <2>2, <2>3, <3>1, <3>3, <4>1, InputResync
        <3> QED BY <3>2, <3>3
    <2>5. CASE ~AnswerReady(p)
        <3>1. UNCHANGED inputVars
            BY <1>4, <2>5 DEF GuestHandleProbe, ArmSave, AnswerSave, AnswerCards, AnswerHash
        <3> QED BY <1>0, <2>1, <2>2, <2>3, <3>1, InputQuiet, SMTT(40)
    <2> QED BY <2>4, <2>5
<1>5. ASSUME HostDriveXfer \/ StartCards \/ \E s \in Saves : AskSave(s) \/ AskLoad(s) PROVE InputInv'
    <2>1. UNCHANGED frame /\ \A q \in Slots : q # Host => np'[q] = np[q]
        BY <1>0, <1>1, <1>5, HostIsOwn
    <2>2. CASE DriveLoadReady
        <3>1. CommitLoadSync(Host, np[Host]) /\ np[Host] \in Loop /\ np[Host].xfer = "LOAD_READY"
            BY <1>0, <1>1, <2>2 DEF DriveLoadReady, Answered, LoopType
        <3>2. ~np[Host].synced => clock[Host].epoch + 1 <= MaxEpoch
            BY <1>0, <3>1, EpochRoom
        <3>3. CASE np[Host].synced
            <4>1. UNCHANGED inputVars
                BY <3>1, <3>3 DEF CommitLoadSync
            <4>2. np'[Host].needs => np[Host].needs
                BY <1>0, <1>1, <3>1, <3>2, CommitDoes
            <4> QED BY <1>0, <2>1, <4>1, <4>2, InputQuiet
        <3>4. CASE ~np[Host].synced
            <4>1. Resync(Host) /\ ~np'[Host].needs
                BY <1>0, <1>1, <3>1, <3>2, <3>4, CommitDoes, SMTT(40)
            <4> QED BY <1>0, <1>1, <2>1, <3>2, <3>4, <4>1, InputResync
        <3> QED BY <3>3, <3>4
    <2>3. CASE ~DriveLoadReady
        <3>1. UNCHANGED inputVars
            BY <1>5, <2>3 DEF HostDriveXfer, DriveCards, AbortSave, DriveSaveCoord, DriveSaveProbe,
                              DriveLoadProbe, StartCards, AskSave, AskLoad
        <3>2. np'[Host].needs => np[Host].needs
            <4>0. np[Host] \in Loop /\ np \in [Slots -> Loop]
                BY <1>0, <1>1 DEF LoopType
            <4>a. ASSUME NEW loop, HostGoesOn(loop), loop.needs => np[Host].needs
                  PROVE  np'[Host].needs => np[Host].needs
                BY <1>1, <4>0, <4>a DEF HostGoesOn
            <4>1. CASE DriveCards
                <5>1. [Idle(Host) EXCEPT !.cards = TRUE].needs = np[Host].needs
                      /\ [np[Host] EXCEPT !.xfer = "MC_SEND"].needs = np[Host].needs
                    BY <4>0 DEF Idle, Loop
                <5> QED BY <4>a, <4>1, <5>1 DEF DriveCards
            <4>2. CASE AbortSave
                <5>1. [Idle(Host) EXCEPT !.staged = FALSE].needs = np[Host].needs
                    BY <4>0 DEF Idle, Loop
                <5> QED BY <4>a, <4>2, <5>1 DEF AbortSave
            <4>3. CASE DriveSaveCoord
                <5>1. [np[Host] EXCEPT !.xfer = "SAVE_PROBE"].needs = np[Host].needs
                    BY <4>0 DEF Loop
                <5> QED BY <4>a, <4>3, <5>1 DEF DriveSaveCoord
            <4>4. CASE DriveSaveProbe
                <5>1. Idle(Host).needs = np[Host].needs
                      /\ [np[Host] EXCEPT !.xfer = "SAVE_SEND"].needs = np[Host].needs
                    BY <4>0 DEF Idle, Loop
                <5> QED BY <4>a, <4>4, <5>1 DEF DriveSaveProbe
            <4>5. CASE DriveLoadProbe
                <5>1. ~BeginLoadApply(Host, np[Host].slot).needs
                      /\ [np[Host] EXCEPT !.xfer = "LOAD_SEND", !.applied = FALSE,
                                          !.synced = FALSE].needs = np[Host].needs
                    BY <4>0 DEF BeginLoadApply, Loop
                <5> QED BY <4>a, <4>5, <5>1 DEF DriveLoadProbe
            <4>6. CASE StartCards
                <5>1. [np[Host] EXCEPT !.xfer = "MC_PROBE"].needs = np[Host].needs
                    BY <4>0 DEF Loop
                <5> QED BY <4>a, <4>6, <5>1 DEF StartCards
            <4>7. ASSUME NEW s \in Saves, AskSave(s)
                  PROVE  np'[Host].needs => np[Host].needs
                <5> DEFINE loop == [np[Host] EXCEPT !.xfer = "SAVE_COORD", !.slot = s,
                               !.target = clock[Host].sim + Delay + 2,
                               !.staged = FALSE, !.acked = FALSE]
                <5>1. loop.needs = np[Host].needs
                    BY <4>0 DEF Loop
                <5>2. HostGoesOn(loop)
                    BY <4>7 DEF AskSave
                <5> QED BY <4>a, <5>1, <5>2
            <4>8. ASSUME NEW s \in Saves, AskLoad(s)
                  PROVE  np'[Host].needs => np[Host].needs
                <5> DEFINE loop == [np[Host] EXCEPT !.xfer = "LOAD_PROBE", !.slot = s,
                                             !.applied = FALSE]
                <5>1. loop.needs = np[Host].needs
                    BY <4>0 DEF Loop
                <5>2. HostGoesOn(loop)
                    BY <4>8 DEF AskLoad
                <5> QED BY <4>a, <5>1, <5>2
            <4> QED BY <1>5, <2>3, <4>1, <4>2, <4>3, <4>4, <4>5, <4>6, <4>7, <4>8 DEF HostDriveXfer
        <3> QED BY <1>0, <2>1, <3>1, <3>2, InputQuiet
    <2> QED BY <2>2, <2>3
<1> QED BY <1>2, <1>3, <1>4, <1>5 DEF BarrierNext

-----------------------------------------------------------------------------
(* The cards are agreed before anybody runs a frame *)

\* A peer has its cards for good, and they are the host's.
LEMMA CardsMoves ==
    ASSUME CardsInv, card'[Host] = card[Host],
           \A p \in Slots : /\ np[p].cards => np'[p].cards
                            /\ np'[p].cards => card'[p] = card[Host]
                            /\ ~np[p].cards => confirmed'[p] = confirmed[p]
                            /\ frame'[p] => frame[p] \/ \A q \in Slots : np[q].cards
    PROVE  CardsInv'
BY DEF CardsInv

\* What p's loop does with its cards; only its polls confirm, and it polls once
\* it has them.
LEMMA CardsOfLoop ==
    ASSUME LoopType, LoopType', OrderInv, EpochInv, InputInv, CardsInv, next_xfer_id \in Nat,
           NEW p \in Slots, LoopStep(p) \/ (p \in Guests /\ GuestHandleProbe(p))
    PROVE  /\ np[p].cards => np'[p].cards
           /\ np'[p].cards => card'[p] = card[Host]
           /\ ~np[p].cards => confirmed'[p] = confirmed[p]
           /\ frame'[p] => frame[p] \/ \A q \in Slots : np[q].cards
           /\ card'[Host] = card[Host]
<1>0. /\ np[p] \in Loop /\ np \in [Slots -> Loop] /\ card \in [Slots -> Nat]
      /\ Host \in Slots /\ Host \notin Guests
      /\ np[p].cards => card[p] = card[Host]
    BY TransferAssumption DEF LoopType, CardsInv, Slots
<1>k. ASSUME np'[p].cards = np[p].cards, UNCHANGED <<card, confirmed, frame>>
      PROVE  /\ np[p].cards => np'[p].cards
             /\ np'[p].cards => card'[p] = card[Host]
             /\ ~np[p].cards => confirmed'[p] = confirmed[p]
             /\ frame'[p] => frame[p] \/ \A q \in Slots : np[q].cards
             /\ card'[Host] = card[Host]
    BY <1>0, <1>k
<1>1. CASE Poll(p)
    <2>1. PICK c \in Pumped(p), admitted \in Loop, refused \in Loop :
              TryAdmit(p, c, admitted, refused) /\ admitted.cards /\ refused.cards
        BY <1>1, PollDoes
    <2>2. np[p].cards /\ UNCHANGED card
        BY <1>1, PollDoes
    <2> DEFINE e == clock[p].epoch
               t == clock[p].sim
               heardAll == \A q \in Others(p) : c.rows[q] >= t /\ c.confirms[q] >= t
    <2>3. /\ e \in 0 .. MaxEpoch /\ t \in Nat
          /\ \/ heardAll /\ np' = [np EXCEPT ![p] = [admitted EXCEPT !.needs = TRUE]]
             \/ np' = [np EXCEPT ![p] = refused] /\ UNCHANGED frame
        BY <2>1, TryAdmitDoes DEF InputInv
    <2>4. np'[p].cards
        <3>1. [admitted EXCEPT !.needs = TRUE].cards
            BY <2>1 DEF Loop
        <3> HIDE DEF heardAll
        <3> QED BY <1>0, <2>1, <2>3, <3>1
    <2>5. ASSUME heardAll, NEW q \in Slots PROVE np[q].cards
        <3>1. CASE q = p
            BY <2>2, <3>1
        <3>2. CASE q # p
            <4>1. c.confirms[q] >= t /\ c.confirms[q] <= confirmed[q][e] /\ c \in Clock
                BY <2>5, <3>2, PumpedType DEF Others, InputInv
            <4>2. confirmed[q][e] \in Mark /\ c.confirms[q] \in Mark
                <5>1. confirmed \in [Slots -> [0 .. MaxEpoch -> Mark]] /\ e \in 0 .. MaxEpoch
                    BY <2>3 DEF LoopType
                <5>2. c.confirms \in [Slots -> Mark]
                    BY <4>1 DEF Clock
                <5> QED BY <5>1, <5>2
            <4>3. confirmed[q][e] # -1
                <5> HIDE DEF e, t
                <5> QED BY <2>3, <4>1, <4>2 DEF Mark
            <4> QED BY <2>3, <4>3 DEF CardsInv
        <3> QED BY <3>1, <3>2
    <2>6. frame'[p] => frame[p] \/ \A q \in Slots : np[q].cards
        <3> HIDE DEF heardAll
        <3> QED BY <2>3, <2>5
    <2> QED BY <1>0, <2>2, <2>4, <2>6
<1>2. CASE FinishFrame(p)
    <2>1. np'[p].cards = np[p].cards /\ UNCHANGED <<card, confirmed>>
        BY <1>0, <1>2 DEF FinishFrame, Loop
    <2>2. ~frame'[p]
        BY <1>2 DEF FinishFrame, LoopType
    <2> QED BY <1>0, <2>1, <2>2
<1>3. CASE PollSave(p) \/ PollLoad(p)
    BY <1>k, <1>3 DEF PollSave, PollLoad, inputVars
<1>4. CASE MaybeStageTargetSave(p)
    <2>1. np'[p].cards = np[p].cards
        BY <1>0, <1>4, SMTT(40) DEF MaybeStageTargetSave, Loop
    <2> QED BY <1>k, <1>4, <2>1 DEF MaybeStageTargetSave, inputVars
<1>5. CASE ApplyReady(p)
    <2> DEFINE b == blobs[IF p = Host THEN tx.id ELSE rx[p].id]
    <2>1. b.op = "SRAM" => b.data = card[Host]
        BY <1>5, ReadyBlob, SMTT(40)
    <2>2. UNCHANGED <<frame, confirmed>>
        BY <1>5 DEF ApplyReady, inputVars
    <2>3. CASE /\ b.op = "SRAM"
               /\ card' = IF p = Host THEN card ELSE [card EXCEPT ![p] = b.data]
               /\ np' = [np EXCEPT ![p] = [Idle(p) EXCEPT !.cards = TRUE, !.needs = FALSE]]
        <3>1. [Idle(p) EXCEPT !.cards = TRUE, !.needs = FALSE].cards
            BY <1>0 DEF Idle, Loop
        <3>2. np'[p].cards
            BY <1>0, <2>3, <3>1
        <3>3. card'[p] = card[Host] /\ card'[Host] = card[Host]
            <4> HIDE DEF b
            <4> QED BY <1>0, <2>1, <2>3
        <3> QED BY <2>2, <3>2, <3>3
    <2>4. CASE UNCHANGED card /\ np' = [np EXCEPT ![p] = Idle(p)]
        <3>1. np'[p].cards = np[p].cards
            BY <1>0, <2>4 DEF Idle, Loop
        <3> QED BY <1>k, <2>2, <2>4, <3>1
    <2>5. CASE UNCHANGED card /\ np' = [np EXCEPT ![p] = BeginLoadApply(p, b.slot)]
        <3>1. np'[p].cards = np[p].cards
            <4> HIDE DEF b
            <4> QED BY <1>0, <2>5 DEF BeginLoadApply, Loop
        <3> QED BY <1>k, <2>2, <2>5, <3>1
    <2> QED BY <1>5, <2>3, <2>4, <2>5 DEF ApplyReady
<1>6. CASE EnterReady(p)
    <2>1. np'[p].cards = np[p].cards
        BY <1>0, <1>6 DEF EnterReady, EnterLoadReady, Loop
    <2> QED BY <1>k, <1>6, <2>1 DEF EnterReady, inputVars
<1>7. CASE AbortLoad(p)
    <2>1. np'[p].cards = np[p].cards
        BY <1>0, <1>7 DEF AbortLoad, Idle, Loop
    <2> QED BY <1>k, <1>7, <2>1 DEF AbortLoad, inputVars
<1>8. CASE p \in Guests /\ GuestHandleProbe(p)
    <2>0. UNCHANGED <<card, confirmed, frame>>
        BY <1>8, AnswerType
    <2>1. CASE AnswerReady(p)
        <3>1. PICK loop \in Loop : /\ CommitLoadSync(p, loop) /\ loop.cards = np[p].cards
                                   /\ ~loop.synced => clock[p].epoch + 1 <= MaxEpoch
            BY <1>8, <2>1, AnswerReadyDoes DEF GuestHandleProbe
        <3>2. np'[p].cards = np[p].cards
            BY <3>1, CommitDoes
        <3> QED BY <1>k, <2>0, <3>2
    <2>2. CASE ArmSave(p)
        <3>1. np'[p].cards = np[p].cards
            BY <1>0, <2>2 DEF ArmSave, Loop
        <3> QED BY <1>k, <2>0, <3>1
    <2>3. CASE AnswerSave(p)
        <3>1. \/ np' = [np EXCEPT ![p].xfer = "NONE", ![p].staged = FALSE, ![p].acked = FALSE]
              \/ np' = [np EXCEPT ![p].acked = TRUE]
            BY <2>3 DEF AnswerSave
        <3>2. CASE np' = [np EXCEPT ![p].xfer = "NONE", ![p].staged = FALSE, ![p].acked = FALSE]
            BY <1>0, <1>k, <2>0, <3>2 DEF Loop
        <3>3. CASE np' = [np EXCEPT ![p].acked = TRUE]
            BY <1>0, <1>k, <2>0, <3>3 DEF Loop
        <3> QED BY <3>1, <3>2, <3>3
    <2>4. CASE AnswerCards(p)
        <3> DEFINE match == card[p] = probe[p].what.crc
        <3>1. match => card[p] = card[Host]
            <4>1. probe[p].what \in Probe /\ Askable(probe[p].what) /\ probe[p].what.op = "SRAM"
                BY <1>8, <2>4, HeardProbe DEF GuestHandleProbe, AnswerCards
            <4>2. probe[p].what = HashProbe("SRAM", 0, card[Host])
                BY <4>1, AskableIs
            <4> QED BY <4>2 DEF HashProbe
        <3>2. np' = [np EXCEPT ![p].cards = @ \/ match]
            BY <2>4 DEF AnswerCards
        <3>3. np'[p].cards <=> np[p].cards \/ match
            <4> HIDE DEF match
            <4> QED BY <1>0, <3>2 DEF Loop
        <3> HIDE DEF match
        <3> QED BY <1>0, <2>0, <3>1, <3>3
    <2>5. CASE AnswerHash(p)
        <3> DEFINE s == probe[p].what.slot
        <3>1. \/ UNCHANGED np
              \/ np' = [np EXCEPT ![p] = Idle(p)]
              \/ np' = [np EXCEPT ![p] = BeginLoadApply(p, s)]
              \/ np' = [np EXCEPT ![p] = [np[p] EXCEPT !.xfer = "SAVE_SEND", !.slot = s]]
              \/ np' = [np EXCEPT ![p].xfer = "LOAD_SEND", ![p].slot = s]
            BY <2>5 DEF AnswerHash
        <3> HIDE DEF s
        <3>2. CASE np' = [np EXCEPT ![p].xfer = "LOAD_SEND", ![p].slot = s]
            BY <1>0, <1>k, <2>0, <3>2 DEF Loop
        <3>3. CASE np' = [np EXCEPT ![p] = [np[p] EXCEPT !.xfer = "SAVE_SEND", !.slot = s]]
            BY <1>0, <1>k, <2>0, <3>3 DEF Loop
        <3>4. CASE UNCHANGED np
            BY <1>k, <2>0, <3>4
        <3>5. CASE np' = [np EXCEPT ![p] = Idle(p)]
            BY <1>0, <1>k, <2>0, <3>5 DEF Idle, Loop
        <3>6. CASE np' = [np EXCEPT ![p] = BeginLoadApply(p, s)]
            BY <1>0, <1>k, <2>0, <3>6 DEF BeginLoadApply, Loop
        <3> QED BY <3>1, <3>2, <3>3, <3>4, <3>5, <3>6
    <2> QED BY <1>8, <2>1, <2>2, <2>3, <2>4, <2>5 DEF GuestHandleProbe
<1> QED BY <1>1, <1>2, <1>3, <1>4, <1>5, <1>6, <1>7, <1>8 DEF LoopStep

LEMMA CardsStep ==
    ASSUME GeneralInv, BarrierNext, LoopType'
    PROVE  CardsInv'
<1>0. LoopType /\ OrderInv /\ EpochInv /\ InputInv /\ CardsInv /\ next_xfer_id \in Nat
    BY DEF GeneralInv, BarrierNext, IInv, TypeOK
<1>1. Guests \subseteq Slots /\ Host \in Slots /\ Slots = {Host} \cup Guests
    BY DEF Slots
<1>a. ASSUME NEW p \in Slots,
             /\ np[p].cards => np'[p].cards
             /\ np'[p].cards => card'[p] = card[Host]
             /\ ~np[p].cards => confirmed'[p] = confirmed[p]
             /\ frame'[p] => frame[p] \/ \A q \in Slots : np[q].cards
             /\ card'[Host] = card[Host],
             \A q \in Slots : q # p => /\ np'[q] = np[q] /\ card'[q] = card[q]
                                       /\ frame'[q] = frame[q] /\ confirmed'[q] = confirmed[q]
      PROVE  CardsInv'
    <2>1. \A q \in Slots : /\ np[q].cards => np'[q].cards
                           /\ np'[q].cards => card'[q] = card[Host]
                           /\ ~np[q].cards => confirmed'[q] = confirmed[q]
                           /\ frame'[q] => frame[q] \/ \A r \in Slots : np[r].cards
        BY <1>0, <1>a DEF CardsInv
    <2> QED BY <1>0, <1>a, <2>1, CardsMoves
<1>2. CASE SessionPump
    BY <1>0, <1>2 DEF SessionPump, loopVars, inputVars, CardsInv
<1>3. ASSUME NEW p \in Slots, LoopStep(p) \/ (p \in Guests /\ GuestHandleProbe(p)) PROVE CardsInv'
    <2>1. /\ np[p].cards => np'[p].cards
          /\ np'[p].cards => card'[p] = card[Host]
          /\ ~np[p].cards => confirmed'[p] = confirmed[p]
          /\ frame'[p] => frame[p] \/ \A q \in Slots : np[q].cards
          /\ card'[Host] = card[Host]
        BY <1>0, <1>3, CardsOfLoop
    <2>2. \A q \in Slots : q # p => /\ np'[q] = np[q] /\ card'[q] = card[q]
                                    /\ frame'[q] = frame[q] /\ confirmed'[q] = confirmed[q]
        BY <1>0, <1>3, StepIsOwn
    <2> QED BY <1>a, <2>1, <2>2
<1>4. ASSUME HostDriveXfer \/ StartCards \/ \E s \in Saves : AskSave(s) \/ AskLoad(s) PROVE CardsInv'
    <2>1. UNCHANGED <<card, frame, confirmed>> /\ \A q \in Slots : q # Host => np'[q] = np[q]
        BY <1>0, <1>1, <1>4, HostIsOwn
    <2>2. np[Host].cards => np'[Host].cards
        <3>0. np[Host] \in Loop /\ np \in [Slots -> Loop]
            BY <1>0, <1>1 DEF LoopType
        <3>a. ASSUME NEW loop, HostGoesOn(loop), np[Host].cards => loop.cards
              PROVE  np[Host].cards => np'[Host].cards
            BY <1>1, <3>0, <3>a DEF HostGoesOn
        <3>1. CASE DriveCards
            <4>1. [Idle(Host) EXCEPT !.cards = TRUE].cards
                  /\ [np[Host] EXCEPT !.xfer = "MC_SEND"].cards = np[Host].cards
                BY <3>0 DEF Idle, Loop
            <4> QED BY <3>a, <3>1, <4>1 DEF DriveCards
        <3>2. CASE AbortSave
            <4>1. [Idle(Host) EXCEPT !.staged = FALSE].cards = np[Host].cards
                BY <3>0 DEF Idle, Loop
            <4> QED BY <3>a, <3>2, <4>1 DEF AbortSave
        <3>3. CASE DriveSaveCoord
            <4>1. [np[Host] EXCEPT !.xfer = "SAVE_PROBE"].cards = np[Host].cards
                BY <3>0 DEF Loop
            <4> QED BY <3>a, <3>3, <4>1 DEF DriveSaveCoord
        <3>4. CASE DriveSaveProbe
            <4>1. Idle(Host).cards = np[Host].cards
                  /\ [np[Host] EXCEPT !.xfer = "SAVE_SEND"].cards = np[Host].cards
                BY <3>0 DEF Idle, Loop
            <4> QED BY <3>a, <3>4, <4>1 DEF DriveSaveProbe
        <3>5. CASE DriveLoadProbe
            <4>1. BeginLoadApply(Host, np[Host].slot).cards = np[Host].cards
                  /\ [np[Host] EXCEPT !.xfer = "LOAD_SEND", !.applied = FALSE,
                                      !.synced = FALSE].cards = np[Host].cards
                BY <3>0 DEF BeginLoadApply, Loop
            <4> QED BY <3>a, <3>5, <4>1 DEF DriveLoadProbe
        <3>6. CASE DriveLoadReady
            <4>1. CommitLoadSync(Host, np[Host]) /\ np[Host].xfer = "LOAD_READY"
                BY <3>6 DEF DriveLoadReady, Answered
            <4>2. ~np[Host].synced => clock[Host].epoch + 1 <= MaxEpoch
                BY <1>0, <4>1, EpochRoom
            <4> QED BY <1>0, <1>1, <3>0, <4>1, <4>2, CommitDoes
        <3>7. CASE StartCards
            <4>1. [np[Host] EXCEPT !.xfer = "MC_PROBE"].cards = np[Host].cards
                BY <3>0 DEF Loop
            <4> QED BY <3>a, <3>7, <4>1 DEF StartCards
        <3>8. ASSUME NEW s \in Saves, AskSave(s)
              PROVE  np[Host].cards => np'[Host].cards
            <4> DEFINE t == clock[Host].sim + Delay + 2
                       loop == [np[Host] EXCEPT !.xfer = "SAVE_COORD", !.slot = s, !.target = t,
                                                !.staged = FALSE, !.acked = FALSE]
            <4>1. loop.cards = np[Host].cards
                BY <3>0 DEF Loop
            <4>2. HostGoesOn(loop)
                BY <3>8 DEF AskSave
            <4> HIDE DEF loop
            <4> QED BY <3>a, <4>1, <4>2
        <3>9. ASSUME NEW s \in Saves, AskLoad(s)
              PROVE  np[Host].cards => np'[Host].cards
            <4> DEFINE loop == [np[Host] EXCEPT !.xfer = "LOAD_PROBE", !.slot = s, !.applied = FALSE]
            <4>1. loop.cards = np[Host].cards
                BY <3>0 DEF Loop
            <4>2. HostGoesOn(loop)
                BY <3>9 DEF AskLoad
            <4> HIDE DEF loop
            <4> QED BY <3>a, <4>1, <4>2
        <3> QED BY <1>4, <3>1, <3>2, <3>3, <3>4, <3>5, <3>6, <3>7, <3>8, <3>9 DEF HostDriveXfer
    <2>3. card[Host] = card[Host] /\ (np[Host].cards => np'[Host].cards) /\ card'[Host] = card[Host]
          /\ confirmed'[Host] = confirmed[Host] /\ frame'[Host] = frame[Host]
          /\ \A q \in Slots : card'[q] = card[q] /\ frame'[q] = frame[q] /\ confirmed'[q] = confirmed[q]
        BY <2>1, <2>2
    <2> QED BY <1>1, <1>a, <2>1, <2>3
<1> QED BY <1>1, <1>2, <1>3, <1>4 DEF BarrierNext

-----------------------------------------------------------------------------
(* A save is agreed on, and a host that has stopped has passed its tick *)

\* Who is armed has been asked to, or asks.
LEMMA ArmedMoves ==
    ASSUME LoopType, LoopType', ArmedTrue, Longer,
           \A p \in Slots : np'[p].xfer = "SAVE_COORD" =>
               \/ np[p].xfer = "SAVE_COORD" /\ np'[p].target = np[p].target
               \/ \E i \in Asked' : /\ asked'[i][1] = "PROBE" /\ IsCoord(asked'[i][2])
                                    /\ asked'[i][2].crc = np'[p].target
    PROVE  ArmedTrue'
<1> SUFFICES ASSUME NEW p \in Slots, np'[p].xfer = "SAVE_COORD"
             PROVE  \E i \in Asked' : /\ asked'[i][1] = "PROBE" /\ IsCoord(asked'[i][2])
                                      /\ asked'[i][2].crc = np'[p].target
    BY DEF ArmedTrue
<1>1. CASE np[p].xfer = "SAVE_COORD" /\ np'[p].target = np[p].target
    <2>1. PICK i \in Asked : /\ asked[i][1] = "PROBE" /\ IsCoord(asked[i][2])
                             /\ asked[i][2].crc = np[p].target
        BY <1>1 DEF ArmedTrue
    <2>2. asked'[i] = asked[i]
        BY DEF Longer
    <2>3. Asked = 1 .. Len(asked) /\ Asked' = 1 .. Len(asked)' /\ Len(asked) \in Nat /\ Len(asked)' \in Nat
        BY DEF LoopType, Asked
    <2>4. i \in Asked'
        BY <2>3 DEF Longer
    <2> QED BY <1>1, <2>1, <2>2, <2>4
<1> QED BY <1>1

\* p's loop is armed only by the probe that asks for a save.
LEMMA ArmedOfLoop ==
    ASSUME LoopType, OrderInv, EpochInv, next_xfer_id \in Nat, NEW p \in Slots,
           LoopStep(p) \/ (p \in Guests /\ GuestHandleProbe(p)), np'[p].xfer = "SAVE_COORD"
    PROVE  \/ np[p].xfer = "SAVE_COORD" /\ np'[p].target = np[p].target
           \/ p \in Guests /\ probe[p].active /\ ArmSave(p)
<1>0. np[p] \in Loop /\ np \in [Slots -> Loop]
    BY DEF LoopType
<1>1. CASE Poll(p)
    <2>1. PICK c \in Pumped(p), admitted \in Loop, refused \in Loop :
              /\ TryAdmit(p, c, admitted, refused)
              /\ admitted.target = np[p].target /\ refused.target = np[p].target
              /\ admitted.xfer = np[p].xfer \/ admitted.xfer = "NONE"
              /\ refused.xfer = np[p].xfer
        BY <1>1, PollDoes
    <2>2. CASE np' = [np EXCEPT ![p] = refused]
        BY <1>0, <2>1, <2>2
    <2>3. CASE np' = [np EXCEPT ![p] = [admitted EXCEPT !.needs = TRUE]]
        <3>1. np'[p] = [admitted EXCEPT !.needs = TRUE]
            BY <1>0, <2>3
        <3>2. np'[p].xfer = admitted.xfer /\ np'[p].target = admitted.target
            BY <3>1 DEF Loop
        <3> QED BY <2>1, <3>2
    <2> QED BY <2>1, <2>2, <2>3 DEF TryAdmit
<1>2. CASE FinishFrame(p)
    BY <1>0, <1>2 DEF FinishFrame, Loop
<1>3. CASE PollSave(p) \/ PollLoad(p)
    BY <1>3 DEF PollSave, PollLoad
<1>4. CASE MaybeStageTargetSave(p)
    BY <1>0, <1>4 DEF MaybeStageTargetSave, Loop
<1>5. CASE ApplyReady(p)
    <2>1. \/ np'[p] = [Idle(p) EXCEPT !.cards = TRUE, !.needs = FALSE]
          \/ np'[p] = Idle(p)
          \/ \E s : np'[p] = BeginLoadApply(p, s)
        BY <1>0, <1>5 DEF ApplyReady
    <2> QED BY <1>0, <2>1, ZenonT(60) DEF Idle, BeginLoadApply, Loop
<1>6. CASE EnterReady(p)
    BY <1>0, <1>6 DEF EnterReady, EnterLoadReady, Loop
<1>7. CASE AbortLoad(p)
    BY <1>0, <1>7 DEF AbortLoad, Idle, Loop
<1>8. CASE p \in Guests /\ GuestHandleProbe(p)
    <2>1. CASE AnswerReady(p)
        <3>1. PICK loop \in Loop :
                  /\ CommitLoadSync(p, loop)
                  /\ loop.xfer = (IF np[p].xfer = "LOAD_APPLYING" THEN "LOAD_READY" ELSE np[p].xfer)
                  /\ ~loop.synced => clock[p].epoch + 1 <= MaxEpoch
            BY <1>8, <2>1, AnswerReadyDoes DEF GuestHandleProbe
        <3>2. np'[p].xfer = loop.xfer
            BY <3>1, CommitDoes
        <3>3. np[p].xfer = "SAVE_COORD"
            BY <3>1, <3>2
        <3>4. np' = [np EXCEPT ![p] = IF np[p].synced THEN [np[p] EXCEPT !.replied = TRUE]
                                      ELSE [np[p] EXCEPT !.synced = TRUE, !.replied = TRUE,
                                                         !.needs = FALSE]]
            BY <2>1, <3>3 DEF AnswerReady, CommitLoadSync
        <3> QED BY <1>0, <3>3, <3>4 DEF Loop
    <2>2. CASE ArmSave(p)
        BY <1>8, <2>2 DEF GuestHandleProbe
    <2>3. CASE AnswerSave(p)
        <3>1. \/ np' = [np EXCEPT ![p].xfer = "NONE", ![p].staged = FALSE, ![p].acked = FALSE]
              \/ np' = [np EXCEPT ![p].acked = TRUE]
            BY <2>3 DEF AnswerSave
        <3>2. CASE np' = [np EXCEPT ![p].xfer = "NONE", ![p].staged = FALSE, ![p].acked = FALSE]
            BY <1>0, <3>2 DEF Loop
        <3>3. CASE np' = [np EXCEPT ![p].acked = TRUE]
            BY <1>0, <3>3 DEF Loop
        <3> QED BY <3>1, <3>2, <3>3
    <2>4. CASE AnswerCards(p)
        BY <1>0, <2>4 DEF AnswerCards, Loop
    <2>5. CASE AnswerHash(p)
        <3> DEFINE s == probe[p].what.slot
        <3>1. \/ UNCHANGED np
              \/ np' = [np EXCEPT ![p] = Idle(p)]
              \/ np' = [np EXCEPT ![p] = BeginLoadApply(p, s)]
              \/ np' = [np EXCEPT ![p] = [np[p] EXCEPT !.xfer = "SAVE_SEND", !.slot = s]]
              \/ np' = [np EXCEPT ![p].xfer = "LOAD_SEND", ![p].slot = s]
            BY <2>5 DEF AnswerHash
        <3> HIDE DEF s
        <3>2. CASE np' = [np EXCEPT ![p].xfer = "LOAD_SEND", ![p].slot = s]
            BY <1>0, <3>2 DEF Loop
        <3>3. CASE np' = [np EXCEPT ![p] = [np[p] EXCEPT !.xfer = "SAVE_SEND", !.slot = s]]
            BY <1>0, <3>3 DEF Loop
        <3> QED BY <1>0, <3>1, <3>2, <3>3, ZenonT(60) DEF Idle, BeginLoadApply, Loop
    <2> QED BY <1>8, <2>1, <2>2, <2>3, <2>4, <2>5 DEF GuestHandleProbe
<1> QED BY <1>1, <1>2, <1>3, <1>4, <1>5, <1>6, <1>7, <1>8 DEF LoopStep

LEMMA SavesSame ==
    ASSUME HostSaves, HostFrames, np'[Host] = np[Host], clock'[Host] = clock[Host],
           frame'[Host] = frame[Host], ss'[Host] = ss[Host], sampled'[Host] = sampled[Host],
           confirmed'[Host] = confirmed[Host], over => over'
    PROVE  HostSaves' /\ HostFrames'
BY DEF HostSaves, HostFrames

LEMMA SavesPolled ==
    ASSUME LoopType, LoopType', InputInv, HostSaves, HostFrames, Poll(Host)
    PROVE  HostSaves' /\ HostFrames'
<1>0. Host \in Slots /\ np[Host] \in Loop /\ np \in [Slots -> Loop] /\ ss \in [Slots -> Requests]
      /\ ss[Host] \in Requests /\ np[Host].target \in Nat
    BY DEF LoopType, Slots, Loop
<1>1. PICK c \in Pumped(Host), admitted \in Loop, refused \in Loop :
          /\ TryAdmit(Host, c, admitted, refused)
          /\ \A l \in {admitted, refused} :
                /\ l.target = np[Host].target /\ ~l.needs
                /\ l.staged = (np[Host].staged \/ DueToStage(Host))
          /\ admitted.xfer = np[Host].xfer \/ admitted.xfer = "NONE"
          /\ refused.xfer = np[Host].xfer
    BY <1>0, PollDoes
<1>2. /\ ~frame[Host]
      /\ ss' = IF DueToStage(Host) THEN [ss EXCEPT ![Host] = RequestSave(Host, np[Host].slot)] ELSE ss
    BY <1>0, PollDoes
<1> DEFINE e == clock[Host].epoch
           t == clock[Host].sim
           heardAll == \A q \in Others(Host) : c.rows[q] >= t /\ c.confirms[q] >= t
<1>3. /\ e \in 0 .. MaxEpoch /\ t \in Nat
      /\ clock' = [clock EXCEPT ![Host] = c]
      /\ sampled'[Host][e] >= sampled[Host][e] /\ confirmed'[Host][e] >= confirmed[Host][e]
      /\ sampled'[Host][e] >= t + Delay
      /\ heardAll => confirmed'[Host][e] >= t
      /\ \/ /\ heardAll
            /\ np' = [np EXCEPT ![Host] = [admitted EXCEPT !.needs = TRUE]]
            /\ frame' = [frame EXCEPT ![Host] = TRUE]
         \/ ~heardAll /\ np' = [np EXCEPT ![Host] = refused] /\ UNCHANGED frame
    BY <1>0, <1>1, TryAdmitDoes DEF InputInv
<1>4. c.sim = t /\ c.epoch = e /\ clock'[Host] = c
    BY <1>0, <1>3, PumpedType DEF InputInv, LoopType
<1>5. sampled[Host][e] \in Int /\ confirmed[Host][e] \in Int /\ sampled'[Host][e] \in Int
      /\ confirmed'[Host][e] \in Int
    <2>1. Mark \subseteq Int
        BY DEF Mark
    <2>2. /\ sampled \in [Slots -> [0 .. MaxEpoch -> Mark]] /\ confirmed \in [Slots -> [0 .. MaxEpoch -> Mark]]
          /\ sampled' \in [Slots -> [0 .. MaxEpoch -> Mark]] /\ confirmed' \in [Slots -> [0 .. MaxEpoch -> Mark]]
        BY DEF LoopType
    <2>3. e \in 0 .. MaxEpoch
        BY <1>3
    <2> HIDE DEF e
    <2> QED BY <1>0, <2>1, <2>2, <2>3, ZenonT(60)
<1>6. \/ /\ heardAll /\ frame'[Host] /\ np'[Host].needs /\ np'[Host].target = np[Host].target
         /\ np'[Host].xfer = np[Host].xfer \/ np'[Host].xfer = "NONE"
         /\ np'[Host].staged = (np[Host].staged \/ DueToStage(Host))
      \/ /\ ~frame'[Host] /\ np'[Host].target = np[Host].target
         /\ np'[Host].xfer = np[Host].xfer
         /\ np'[Host].staged = (np[Host].staged \/ DueToStage(Host))
    <2>1. CASE heardAll /\ np' = [np EXCEPT ![Host] = [admitted EXCEPT !.needs = TRUE]]
               /\ frame' = [frame EXCEPT ![Host] = TRUE]
        <3>1. np'[Host] = [admitted EXCEPT !.needs = TRUE] /\ frame'[Host]
            BY <1>0, <2>1 DEF LoopType
        <3>2. np'[Host].needs /\ np'[Host].target = admitted.target /\ np'[Host].xfer = admitted.xfer
              /\ np'[Host].staged = admitted.staged
            BY <3>1 DEF Loop
        <3> QED BY <1>1, <2>1, <3>1, <3>2
    <2>2. CASE np' = [np EXCEPT ![Host] = refused] /\ UNCHANGED frame
        <3>1. np'[Host] = refused /\ ~frame'[Host]
            BY <1>0, <1>2, <2>2
        <3> QED BY <1>1, <3>1
    <2> QED BY <1>3, <2>1, <2>2
<1>7. HostFrames'
    BY <1>6 DEF HostFrames
<1>8. ASSUME np'[Host].xfer = "SAVE_COORD", np'[Host].staged
      PROVE  /\ t >= np[Host].target
             /\ frame'[Host] \/ ss'[Host].save = <<>> =>
                   sampled'[Host][e] >= np[Host].target /\ confirmed'[Host][e] >= np[Host].target
    <2>0. np[Host].xfer = "SAVE_COORD"
        BY <1>6, <1>8
    <2>1. t >= np[Host].target
        BY <1>6, <1>8, <2>0 DEF HostSaves, DueToStage
    <2>2. frame'[Host] => heardAll
        BY <1>6
    <2>3. ASSUME frame'[Host]
          PROVE  sampled'[Host][e] >= np[Host].target /\ confirmed'[Host][e] >= np[Host].target
        <3>1. sampled'[Host][e] >= t + Delay /\ confirmed'[Host][e] >= t
            BY <1>3, <2>2, <2>3
        <3> HIDE DEF e, t
        <3> QED BY <1>0, <1>3, <1>5, <2>1, <3>1, ConstantsType
    <2>4. ASSUME ss'[Host].save = <<>>
          PROVE  sampled'[Host][e] >= np[Host].target /\ confirmed'[Host][e] >= np[Host].target
        <3>1. ~DueToStage(Host)
            <4>1. ASSUME DueToStage(Host) PROVE ss'[Host].save # <<>>
                <5>1. ss'[Host] = RequestSave(Host, np[Host].slot)
                    BY <1>0, <1>2, <4>1
                <5>2. ss'[Host].save = <<np[Host].slot>>
                    BY <1>0, <5>1 DEF RequestSave, Requests
                <5>3. <<np[Host].slot>> # <<>>
                    OBVIOUS
                <5> QED BY ONLY <5>2, <5>3
            <4> QED BY <2>4, <4>1
        <3>2. np[Host].staged /\ ss[Host].save = <<>>
            BY <1>2, <1>6, <1>8, <2>4, <3>1
        <3>3. sampled[Host][e] >= np[Host].target /\ confirmed[Host][e] >= np[Host].target
            BY <2>0, <3>2 DEF HostSaves
        <3>4. sampled'[Host][e] >= sampled[Host][e] /\ confirmed'[Host][e] >= confirmed[Host][e]
            BY <1>3
        <3> HIDE DEF e, t
        <3> QED BY <1>0, <1>5, <3>3, <3>4
    <2> QED BY <2>1, <2>3, <2>4
<1>9. HostSaves'
    <2>1. np'[Host].target = np[Host].target
        BY <1>6
    <2> QED BY <1>4, <1>8, <2>1 DEF HostSaves
<1> QED BY <1>7, <1>9

\* The rest of the host's loop.
LEMMA SavesOfLoop ==
    ASSUME LoopType, LoopType', OrderInv, AskingInv, InputInv, CardsInv, HostSaves, HostFrames,
           next_xfer_id \in Nat, ~over, LoopStep(Host)
    PROVE  HostSaves' /\ HostFrames'
<1>0. /\ Host \in Slots /\ np[Host] \in Loop /\ np \in [Slots -> Loop] /\ ss \in [Slots -> Requests]
      /\ ss[Host] \in Requests /\ np[Host].target \in Nat /\ clock \in [Slots -> Clock]
      /\ clock[Host] \in Clock /\ clock[Host].sim \in Nat /\ clock[Host].epoch \in 0 .. MaxEpoch
    BY LoopIs DEF LoopType, Slots, Loop
<1>1. CASE Poll(Host)
    BY <1>1, SavesPolled
<1>2. CASE FinishFrame(Host)
    <2>1. UNCHANGED <<sampled, confirmed, ss>> /\ ~frame'[Host]
        BY <1>0, <1>2 DEF FinishFrame, LoopType
    <2>2. np'[Host].xfer = np[Host].xfer /\ np'[Host].staged = np[Host].staged
          /\ np'[Host].target = np[Host].target
        BY <1>0, <1>2 DEF FinishFrame, Loop
    <2>3. clock'[Host].epoch = clock[Host].epoch
          /\ (clock'[Host].sim = clock[Host].sim \/ clock'[Host].sim = clock[Host].sim + 1)
        BY <1>0, <1>2 DEF FinishFrame, Clock
    <2>4. clock[Host].sim >= np[Host].target => clock'[Host].sim >= np[Host].target
        BY <1>0, <2>3
    <2> QED BY <2>1, <2>2, <2>3, <2>4 DEF HostSaves, HostFrames
<1>3. CASE PollSave(Host) \/ PollLoad(Host)
    <2>1. frame[Host] /\ UNCHANGED <<np, frame, over, clock, sampled, confirmed>>
        BY <1>3 DEF PollSave, PollLoad, inputVars
    <2> QED BY <2>1 DEF HostSaves, HostFrames
<1>4. CASE MaybeStageTargetSave(Host)
    <2>0. UNCHANGED <<frame, over, clock, sampled, confirmed>>
        BY <1>4 DEF MaybeStageTargetSave, inputVars
    <2>1. /\ np[Host].xfer = "SAVE_COORD" /\ clock[Host].sim >= np[Host].target
          /\ np'[Host].xfer = np[Host].xfer /\ np'[Host].target = np[Host].target
          /\ np'[Host].needs = np[Host].needs
        BY <1>0, <1>4 DEF MaybeStageTargetSave, DueToStage, Loop
    <2>2. ss'[Host].save # <<>>
        <3>1. ss'[Host] = RequestSave(Host, np[Host].slot)
            BY <1>0, <1>4 DEF MaybeStageTargetSave
        <3>2. ss'[Host].save = <<np[Host].slot>>
            BY <1>0, <3>1 DEF RequestSave, Requests
        <3> QED BY <3>2
    <2>3. ASSUME frame[Host]
          PROVE  /\ sampled[Host][clock[Host].epoch] >= np[Host].target
                 /\ confirmed[Host][clock[Host].epoch] >= np[Host].target
        <3> DEFINE e == clock[Host].epoch
                   t == clock[Host].sim
        <3>1. np[Host].needs
            BY <2>1, <2>3 DEF HostFrames
        <3>2. confirmed[Host][e] >= t /\ sampled[Host][e] >= t
            BY <1>0, <2>3, <3>1 DEF InputInv, FrameTrue
        <3>3. confirmed[Host][e] \in Mark /\ sampled[Host][e] \in Mark
            <4>1. /\ sampled \in [Slots -> [0 .. MaxEpoch -> Mark]]
                  /\ confirmed \in [Slots -> [0 .. MaxEpoch -> Mark]]
                BY DEF LoopType
            <4> QED BY <1>0, <4>1
        <3>4. t \in Nat /\ t >= np[Host].target
            BY <1>0, <2>1
        <3> HIDE DEF e, t
        <3>5. confirmed[Host][e] >= np[Host].target /\ sampled[Host][e] >= np[Host].target
            BY <1>0, <3>2, <3>3, <3>4 DEF Mark
        <3> QED BY <3>5 DEF e
    <2> QED BY <2>0, <2>1, <2>2, <2>3 DEF HostSaves, HostFrames
<1>5. CASE ApplyReady(Host)
    <2> DEFINE b == blobs[tx.id]
    <2>1. tx.active /\ b.op \in {"SRAM", "SAVE", "LOAD"}
        BY <1>0, <1>5, ReadyBlob
    <2>2. np[Host].xfer = SendPhase(b.op)
        BY <2>1 DEF AskingInv, SendTrue
    <2>3. UNCHANGED frame
        BY <1>5 DEF ApplyReady
    <2>4. \/ b.op = "SRAM" /\ np'[Host] = [Idle(Host) EXCEPT !.cards = TRUE, !.needs = FALSE]
          \/ b.op = "SAVE" /\ np'[Host] = Idle(Host)
          \/ b.op = "LOAD" /\ np'[Host] = BeginLoadApply(Host, b.slot)
        BY <1>0, <1>5 DEF ApplyReady
    <2> HIDE DEF b
    <2>5. CASE b.op = "SRAM" /\ np'[Host] = [Idle(Host) EXCEPT !.cards = TRUE, !.needs = FALSE]
        <3>1. ~frame[Host]
            BY <1>0, <2>2, <2>5 DEF SendPhase, AskingInv, CardsFirst, CardsInv
        <3>2. np'[Host].xfer = "NONE"
            BY <1>0, <2>5 DEF Idle, Loop
        <3> QED BY <2>3, <3>1, <3>2 DEF HostSaves, HostFrames
    <2>6. CASE b.op = "SAVE" /\ np'[Host] = Idle(Host)
        <3>1. frame[Host] => np[Host].needs
            BY <2>2, <2>6 DEF SendPhase, HostFrames
        <3>2. np'[Host].xfer = "NONE" /\ np'[Host].needs = np[Host].needs
            BY <1>0, <2>6 DEF Idle, Loop
        <3> QED BY <2>3, <3>1, <3>2 DEF HostSaves, HostFrames
    <2>7. CASE b.op = "LOAD" /\ np'[Host] = BeginLoadApply(Host, b.slot)
        <3>1. np'[Host].xfer = "LOAD_APPLYING"
            BY <1>0, <2>7 DEF BeginLoadApply, Loop
        <3> QED BY <3>1 DEF HostSaves, HostFrames
    <2> QED BY <2>4, <2>5, <2>6, <2>7
<1>6. CASE EnterReady(Host)
    <2>1. np'[Host].xfer = "LOAD_READY"
        BY <1>0, <1>6 DEF EnterReady, EnterLoadReady, Loop
    <2> QED BY <2>1 DEF HostSaves, HostFrames
<1>7. CASE AbortLoad(Host)
    <2>1. np'[Host].xfer = "NONE" /\ over'
        BY <1>0, <1>7 DEF AbortLoad, Idle, Loop
    <2> QED BY <2>1 DEF HostSaves, HostFrames
<1> QED BY <1>1, <1>2, <1>3, <1>4, <1>5, <1>6, <1>7 DEF LoopStep

\* What the host does next: it is armed by asking for a save, and stages nothing.
LEMMA SavesOfHost ==
    ASSUME LoopType, LoopType', HostFrames,
           HostDriveXfer \/ StartCards \/ \E s \in Saves : AskSave(s) \/ AskLoad(s)
    PROVE  /\ HostFrames'
           /\ np'[Host].xfer = "SAVE_COORD" =>
                 /\ ~np'[Host].staged
                 /\ \E i \in Asked' : /\ asked'[i][1] = "PROBE" /\ IsCoord(asked'[i][2])
                                      /\ asked'[i][2].crc = np'[Host].target
<1>0. /\ Host \in Slots /\ np[Host] \in Loop /\ np \in [Slots -> Loop]
      /\ UNCHANGED <<frame, over>>
    BY HostIsOwn DEF LoopType, Slots
<1>a. ASSUME NEW loop, HostGoesOn(loop), loop.xfer # "SAVE_COORD", loop.needs = np[Host].needs,
             np[Host].xfer \notin {"LOAD_APPLYING", "LOAD_READY"}
      PROVE  HostFrames' /\ np'[Host].xfer # "SAVE_COORD"
    BY <1>0, <1>a DEF HostGoesOn, HostFrames
<1>1. CASE DriveCards
    <2>1. /\ [Idle(Host) EXCEPT !.cards = TRUE].needs = np[Host].needs
          /\ [Idle(Host) EXCEPT !.cards = TRUE].xfer = "NONE"
          /\ [np[Host] EXCEPT !.xfer = "MC_SEND"].needs = np[Host].needs
          /\ [np[Host] EXCEPT !.xfer = "MC_SEND"].xfer = "MC_SEND"
        BY <1>0 DEF Idle, Loop
    <2>2. np[Host].xfer = "MC_PROBE"
        BY <1>1 DEF DriveCards, Answered
    <2> QED BY <1>a, <1>1, <2>1, <2>2 DEF DriveCards
<1>2. CASE AbortSave
    <2>1. /\ [Idle(Host) EXCEPT !.staged = FALSE].needs = np[Host].needs
          /\ [Idle(Host) EXCEPT !.staged = FALSE].xfer = "NONE"
        BY <1>0 DEF Idle, Loop
    <2> QED BY <1>a, <1>2, <2>1 DEF AbortSave
<1>3. CASE DriveSaveCoord
    <2>1. /\ [np[Host] EXCEPT !.xfer = "SAVE_PROBE"].needs = np[Host].needs
          /\ [np[Host] EXCEPT !.xfer = "SAVE_PROBE"].xfer = "SAVE_PROBE"
        BY <1>0 DEF Loop
    <2>2. np[Host].xfer = "SAVE_COORD"
        BY <1>3 DEF DriveSaveCoord, Answered
    <2> QED BY <1>a, <1>3, <2>1, <2>2 DEF DriveSaveCoord
<1>4. CASE DriveSaveProbe
    <2>1. /\ Idle(Host).needs = np[Host].needs /\ Idle(Host).xfer = "NONE"
          /\ [np[Host] EXCEPT !.xfer = "SAVE_SEND"].needs = np[Host].needs
          /\ [np[Host] EXCEPT !.xfer = "SAVE_SEND"].xfer = "SAVE_SEND"
        BY <1>0 DEF Idle, Loop
    <2>2. np[Host].xfer = "SAVE_PROBE"
        BY <1>4 DEF DriveSaveProbe, Answered
    <2> QED BY <1>a, <1>4, <2>1, <2>2 DEF DriveSaveProbe
<1>5. CASE DriveLoadProbe
    <2>1. BeginLoadApply(Host, np[Host].slot).xfer = "LOAD_APPLYING"
          /\ [np[Host] EXCEPT !.xfer = "LOAD_SEND", !.applied = FALSE,
                              !.synced = FALSE].needs = np[Host].needs
          /\ [np[Host] EXCEPT !.xfer = "LOAD_SEND", !.applied = FALSE,
                              !.synced = FALSE].xfer = "LOAD_SEND"
        BY <1>0 DEF BeginLoadApply, Loop
    <2>2. np[Host].xfer = "LOAD_PROBE"
        BY <1>5 DEF DriveLoadProbe, Answered
    <2>3. CASE HostGoesOn(BeginLoadApply(Host, np[Host].slot))
        <3>1. np'[Host].xfer = "LOAD_APPLYING"
            BY <1>0, <2>1, <2>3 DEF HostGoesOn
        <3> QED BY <3>1 DEF HostFrames
    <2>4. CASE HostGoesOn([np[Host] EXCEPT !.xfer = "LOAD_SEND", !.applied = FALSE,
                                           !.synced = FALSE])
        BY <1>a, <2>1, <2>2, <2>4
    <2> QED BY <1>5, <2>3, <2>4 DEF DriveLoadProbe
<1>6. CASE DriveLoadReady
    <2>1. np[Host].xfer = "LOAD_READY"
          /\ np' = [np EXCEPT ![Host] = IF np[Host].synced THEN [np[Host] EXCEPT !.replied = TRUE]
                                        ELSE [np[Host] EXCEPT !.synced = TRUE, !.replied = TRUE,
                                                              !.needs = FALSE]]
        BY <1>6 DEF DriveLoadReady, CommitLoadSync, Answered
    <2>2. np'[Host].xfer = "LOAD_READY"
        BY <1>0, <2>1 DEF Loop
    <2> QED BY <2>2 DEF HostFrames
<1>7. CASE StartCards
    <2>1. /\ [np[Host] EXCEPT !.xfer = "MC_PROBE"].needs = np[Host].needs
          /\ [np[Host] EXCEPT !.xfer = "MC_PROBE"].xfer = "MC_PROBE"
        BY <1>0 DEF Loop
    <2>2. np[Host].xfer = "NONE"
        BY <1>7 DEF StartCards
    <2> QED BY <1>a, <1>7, <2>1, <2>2 DEF StartCards
<1>8. ASSUME NEW s \in Saves, AskSave(s)
      PROVE  /\ HostFrames' /\ ~np'[Host].staged
             /\ \E i \in Asked' : /\ asked'[i][1] = "PROBE" /\ IsCoord(asked'[i][2])
                                  /\ asked'[i][2].crc = np'[Host].target
    <2> DEFINE t == clock[Host].sim + Delay + 2
               loop == [np[Host] EXCEPT !.xfer = "SAVE_COORD", !.slot = s, !.target = t,
                                        !.staged = FALSE, !.acked = FALSE]
    <2>1. HostGoesOn(loop) /\ Ask(CoordProbe(s, t)) /\ np[Host].xfer = "NONE"
        BY <1>8 DEF AskSave, MayAsk
    <2>2. loop.needs = np[Host].needs /\ ~loop.staged /\ loop.target = t
        BY <1>0 DEF Loop
    <2>3. t \in Nat
        BY <1>0, LoopIs, ConstantsType
    <2> HIDE DEF t, loop
    <2>4. np'[Host] = loop
        BY <1>0, <2>1 DEF HostGoesOn
    <2>5. HostFrames'
        BY <1>0, <2>1, <2>2, <2>4 DEF HostFrames
    <2>6. CoordProbe(s, t) \in Probe
        BY <2>3, Askables
    <2>7. <<"PROBE", CoordProbe(s, t)>> \in Exch /\ asked' = Append(asked, <<"PROBE", CoordProbe(s, t)>>)
        BY <2>1, <2>6, AskDoes
    <2>8. PICK i \in Asked' : asked'[i] = <<"PROBE", CoordProbe(s, t)>>
        <3>1. Len(asked) + 1 \in Asked' /\ asked'[Len(asked) + 1] = <<"PROBE", CoordProbe(s, t)>>
            BY <2>7, AskedMore
        <3> QED BY <3>1
    <2>9. IsCoord(CoordProbe(s, t)) /\ CoordProbe(s, t).crc = t
        BY DEF IsCoord, CoordProbe
    <2> QED BY <2>2, <2>4, <2>5, <2>8, <2>9
<1>9. ASSUME NEW s \in Saves, AskLoad(s)
      PROVE  HostFrames' /\ np'[Host].xfer # "SAVE_COORD"
    <2> DEFINE loop == [np[Host] EXCEPT !.xfer = "LOAD_PROBE", !.slot = s, !.applied = FALSE]
    <2>1. HostGoesOn(loop) /\ np[Host].xfer = "NONE"
        BY <1>9 DEF AskLoad, MayAsk
    <2>2. loop.needs = np[Host].needs /\ loop.xfer = "LOAD_PROBE"
        BY <1>0 DEF Loop
    <2> HIDE DEF loop
    <2> QED BY <1>a, <2>1, <2>2, SMTT(40)
<1> QED BY <1>1, <1>2, <1>3, <1>4, <1>5, <1>6, <1>7, <1>8, <1>9 DEF HostDriveXfer

LEMMA ArmSaveAsks ==
    ASSUME LoopType, OrderInv, NEW p \in Guests, probe[p].active, ArmSave(p)
    PROVE  \E i \in Asked' : /\ asked'[i][1] = "PROBE" /\ IsCoord(asked'[i][2])
                             /\ asked'[i][2].crc = np'[p].target
<1>1. heard[p] \in Asked /\ asked[heard[p]] = <<"PROBE", probe[p].what>>
    BY HeardProbe DEF At
<1>2. np[p] \in Loop /\ np \in [Slots -> Loop] /\ p \in Slots
    BY DEF LoopType, Slots
<1>3. np'[p].target = probe[p].what.crc
    BY <1>2 DEF ArmSave, Loop
<1>4. IsCoord(probe[p].what) /\ asked' = asked /\ Asked' = Asked
    BY DEF ArmSave, IsCoord, orderVars, Asked
<1>5. heard[p] \in Asked' /\ asked'[heard[p]] = <<"PROBE", probe[p].what>>
    BY <1>1, <1>4
<1>6. /\ asked'[heard[p]][1] = "PROBE" /\ IsCoord(asked'[heard[p]][2])
      /\ asked'[heard[p]][2].crc = np'[p].target
    BY <1>3, <1>4, <1>5
<1> QED BY <1>5, <1>6

LEMMA SavesStep ==
    ASSUME GeneralInv, BarrierNext, LoopType'
    PROVE  SavesInv'
<1>0. /\ LoopType /\ OrderInv /\ AskingInv /\ EpochInv /\ InputInv /\ CardsInv /\ ~over
      /\ ArmedTrue /\ HostSaves /\ HostFrames /\ next_xfer_id \in Nat /\ Longer
    BY LongerStep DEF GeneralInv, SavesInv, BarrierNext, IInv, TypeOK
<1>1. Guests \subseteq Slots /\ Host \in Slots /\ Slots = {Host} \cup Guests /\ Host \notin Guests
    BY TransferAssumption DEF Slots
<1>2. CASE SessionPump
    <2>1. UNCHANGED <<np, clock, frame, ss, sampled, confirmed, over>>
        BY <1>2 DEF SessionPump, loopVars, inputVars
    <2>2. ArmedTrue'
        BY <1>0, <2>1, ArmedMoves
    <2> QED BY <1>0, <2>1, <2>2, SavesSame DEF SavesInv
<1>3. ASSUME NEW p \in Slots, LoopStep(p) PROVE SavesInv'
    <2>1. \A q \in Slots : q # p => /\ np'[q] = np[q] /\ ss'[q] = ss[q] /\ clock'[q] = clock[q]
                                    /\ frame'[q] = frame[q] /\ sampled'[q] = sampled[q]
                                    /\ confirmed'[q] = confirmed[q]
        BY <1>0, <1>3, StepIsOwn
    <2>2. ArmedTrue'
        <3>1. np'[p].xfer = "SAVE_COORD" =>
                  \/ np[p].xfer = "SAVE_COORD" /\ np'[p].target = np[p].target
                  \/ p \in Guests /\ probe[p].active /\ ArmSave(p)
            BY <1>0, <1>3, ArmedOfLoop
        <3>2. ASSUME p \in Guests, probe[p].active, ArmSave(p)
              PROVE  \E i \in Asked' : /\ asked'[i][1] = "PROBE" /\ IsCoord(asked'[i][2])
                                       /\ asked'[i][2].crc = np'[p].target
            BY <1>0, <3>2, ArmSaveAsks
        <3>3. \A q \in Slots : np'[q].xfer = "SAVE_COORD" =>
                  \/ np[q].xfer = "SAVE_COORD" /\ np'[q].target = np[q].target
                  \/ \E i \in Asked' : /\ asked'[i][1] = "PROBE" /\ IsCoord(asked'[i][2])
                                       /\ asked'[i][2].crc = np'[q].target
            BY <2>1, <3>1, <3>2
        <3> QED BY <1>0, <3>3, ArmedMoves
    <2>3. HostSaves' /\ HostFrames'
        <3>1. CASE p = Host
            BY <1>0, <1>3, <3>1, SavesOfLoop
        <3>2. CASE p # Host
            BY <1>0, <1>1, <2>1, <3>2, SavesSame
        <3> QED BY <3>1, <3>2
    <2> QED BY <2>2, <2>3 DEF SavesInv
<1>4. ASSUME NEW p \in Guests, GuestHandleProbe(p) PROVE SavesInv'
    <2>1. \A q \in Slots : q # p => /\ np'[q] = np[q] /\ ss'[q] = ss[q] /\ clock'[q] = clock[q]
                                    /\ frame'[q] = frame[q] /\ sampled'[q] = sampled[q]
                                    /\ confirmed'[q] = confirmed[q]
        BY <1>0, <1>1, <1>4, StepIsOwn
    <2>2. ArmedTrue'
        <3>1. np'[p].xfer = "SAVE_COORD" =>
                  \/ np[p].xfer = "SAVE_COORD" /\ np'[p].target = np[p].target
                  \/ probe[p].active /\ ArmSave(p)
            BY <1>0, <1>1, <1>4, ArmedOfLoop
        <3>2. ASSUME probe[p].active, ArmSave(p)
              PROVE  \E i \in Asked' : /\ asked'[i][1] = "PROBE" /\ IsCoord(asked'[i][2])
                                       /\ asked'[i][2].crc = np'[p].target
            BY <1>0, <3>2, ArmSaveAsks
        <3>3. \A q \in Slots : np'[q].xfer = "SAVE_COORD" =>
                  \/ np[q].xfer = "SAVE_COORD" /\ np'[q].target = np[q].target
                  \/ \E i \in Asked' : /\ asked'[i][1] = "PROBE" /\ IsCoord(asked'[i][2])
                                       /\ asked'[i][2].crc = np'[q].target
            BY <2>1, <3>1, <3>2
        <3> QED BY <1>0, <3>3, ArmedMoves
    <2>3. HostSaves' /\ HostFrames'
        BY <1>0, <1>1, <2>1, SavesSame
    <2> QED BY <2>2, <2>3 DEF SavesInv
<1>5. ASSUME HostDriveXfer \/ StartCards \/ \E s \in Saves : AskSave(s) \/ AskLoad(s) PROVE SavesInv'
    <2>1. /\ HostFrames'
          /\ np'[Host].xfer = "SAVE_COORD" =>
                /\ ~np'[Host].staged
                /\ \E i \in Asked' : /\ asked'[i][1] = "PROBE" /\ IsCoord(asked'[i][2])
                                     /\ asked'[i][2].crc = np'[Host].target
        BY <1>0, <1>5, SavesOfHost
    <2>2. \A g \in Guests : np'[g] = np[g]
        BY <1>0, <1>5, HostIsOwn
    <2>3. ArmedTrue'
        <3>1. \A q \in Slots : np'[q].xfer = "SAVE_COORD" =>
                  \/ np[q].xfer = "SAVE_COORD" /\ np'[q].target = np[q].target
                  \/ \E i \in Asked' : /\ asked'[i][1] = "PROBE" /\ IsCoord(asked'[i][2])
                                       /\ asked'[i][2].crc = np'[q].target
            BY <1>1, <2>1, <2>2
        <3> QED BY <1>0, <3>1, ArmedMoves
    <2>4. HostSaves'
        BY <2>1 DEF HostSaves
    <2> QED BY <2>1, <2>3, <2>4 DEF SavesInv
<1> QED BY <1>2, <1>3, <1>4, <1>5 DEF BarrierNext

-----------------------------------------------------------------------------
(* The invariant holds *)

LEMMA GeneralInit == BarrierInit => GeneralInv
<1> SUFFICES ASSUME BarrierInit PROVE GeneralInv
    OBVIOUS
<1>0. /\ Init /\ asked = <<>> /\ blobs = <<>> /\ Asked = {} /\ Len(asked) = 0 /\ Len(blobs) = 0
      /\ DOMAIN blobs = {} /\ heard = [g \in Guests |-> 0] /\ ~over /\ Host \in Slots /\ Guests \subseteq Slots
    BY DEF BarrierInit, Asked, Slots
<1>1. LoopType
    BY LoopTypeInit
<1>2. IInv
    BY <1>0, TypeInit, TransferInit, ProbeInit DEF IInv
<1>3. \A p \in Slots : /\ np[p].xfer = "NONE" /\ ~np[p].cards /\ ~np[p].needs /\ ~frame[p]
                       /\ clock[p] = NewEpoch(0) /\ sampled[p] = Prefixed(0)
                       /\ \A e \in 0 .. MaxEpoch : confirmed[p][e] = -1
    BY DEF BarrierInit
<1>4. next_xfer_id = 0 /\ net = {} /\ ~tx.active /\ (\A p \in Slots : ~probe[p].active)
      /\ (\A g \in Guests : ~rx[g].active /\ delivered[g] = {})
    BY <1>0 DEF Init, Nothing
<1>5. OrderInv
    <2>1. \A g \in Guests : GuestTrue(g)
        BY <1>0, <1>4 DEF GuestTrue
    <2>2. AskedOnce /\ AskedTrue /\ BlobsTrue /\ HostTrue /\ \A m \in net : ReplyTrue(m)
        BY <1>0, <1>4 DEF AskedOnce, AskedTrue, BlobsTrue, HostTrue
    <2> QED BY <2>1, <2>2 DEF OrderInv
<1>6. ReadyAsked(0) = {} /\ LoadsAsked = {} /\ ~HasCoord /\ ~HasHashSave
    BY <1>0 DEF ReadyAsked, LoadsAsked, HasCoord, HasHashSave
<1>7. Cardinality({}) = 0
    BY FS_EmptySet
<1>8. AskingInv
    <2>1. CardsFirst
        BY <1>0, <1>3, <1>4 DEF CardsFirst
    <2>2. SaveOnce
        BY <1>0, <1>3, <1>6 DEF SaveOnce
    <2>3. LoadOnce
        BY <1>0, <1>3, <1>6 DEF LoadOnce
    <2>4. SendTrue
        BY <1>0, <1>3, <1>4 DEF SendTrue
    <2>5. AskedBound
        BY <1>0, <1>3, <1>6, <1>7 DEF AskedBound, Left
    <2> QED BY <2>1, <2>2, <2>3, <2>4, <2>5 DEF AskingInv
<1>9. EpochInv
    <2>1. \A p \in Slots : clock[p].epoch = 0
        BY <1>3 DEF NewEpoch
    <2>2. \A g \in Guests : ~MayResync(g) /\ heard[g] = 0
        BY <1>0 DEF MayResync
    <2>4. /\ ReadyAsked(Len(asked)) = {}
          /\ \A g \in Guests : ReadyAsked(heard[g]) = {}
        <3>1. ReadyAsked(Len(asked)) = {}
            <4>1. Len(asked) = 0
                BY <1>0
            <4> QED BY <4>1, <1>6
        <3>2. ASSUME NEW g \in Guests PROVE ReadyAsked(heard[g]) = {}
            <4>1. heard[g] = 0
                BY <2>2
            <4> QED BY <4>1, <1>6
        <3> QED BY <3>1, <3>2
    <2>5. /\ Cardinality(ReadyAsked(Len(asked))) = 0
          /\ \A g \in Guests : Cardinality(ReadyAsked(heard[g])) = 0
        <3>1. Cardinality(ReadyAsked(Len(asked))) = 0
            BY <2>4, <1>7, Zenon
        <3>2. ASSUME NEW g \in Guests PROVE Cardinality(ReadyAsked(heard[g])) = 0
            BY <2>4, <1>7, Zenon
        <3> QED BY <3>1, <3>2
    <2>6. /\ \A p \in Slots : np[p].xfer # "LOAD_APPLYING"
          /\ np[Host].xfer # "LOAD_READY"
        BY <1>0, <1>3
    <2>7. \A g \in Guests : clock[g].epoch = 0
        BY <1>0, <2>1
    <2>8. clock[Host].epoch = 0
        BY <1>0, <2>1
    <2> QED BY <2>2, <2>5, <2>6, <2>7, <2>8 DEF EpochInv
<1>10. InputInv
    <2>1. \A p \in Slots : /\ clock[p].epoch = 0 /\ \A q \in Slots : /\ clock[p].rows[q] = -1
                                                                     /\ clock[p].confirms[q] = -1
        BY <1>3 DEF NewEpoch
    <2>2. 0 \in 0 .. MaxEpoch
        BY ConstantsType
    <2>3. \A p \in Slots : /\ sampled[p][0] = Delay - 1
                           /\ \A e \in 0 .. MaxEpoch : e # 0 => sampled[p][e] = -1
        BY <1>3, <2>2 DEF Prefixed
    <2>4. MarksTrue
        BY <1>3, <2>1, <2>2, <2>3, ConstantsType DEF MarksTrue
    <2>5. LaterUnused
        BY <1>3, <2>1, <2>3 DEF LaterUnused
    <2>6. FrameTrue
        BY <1>3 DEF FrameTrue
    <2> QED BY <2>4, <2>5, <2>6 DEF InputInv
<1>11. CardsInv
    BY <1>3 DEF CardsInv
<1>12. SavesInv
    BY <1>0, <1>3 DEF SavesInv, ArmedTrue, HostSaves, HostFrames
<1> QED BY <1>1, <1>2, <1>5, <1>8, <1>9, <1>10, <1>11, <1>12 DEF GeneralInv

\* Nor does a step disturb it that changes nothing.
LEMMA GeneralStutter ==
    ASSUME GeneralInv, UNCHANGED barrierVars
    PROVE  GeneralInv'
<1>0. UNCHANGED <<np, ss, disk, card, game, frame, over, clock, sampled, confirmed, blobs, asked,
                  heard, tx, rx, probe, stall, net, delivered, next_xfer_id, finished, sticky>>
    BY DEF barrierVars, loopVars, inputVars, orderVars, sessionVars, transferVars
<1>1. LoopType' /\ (~over => IInv)'
    <2>1. LoopType'
        BY <1>0 DEF GeneralInv, LoopType
    <2>2. IInv => IInv'
        <3>1. UNCHANGED vars
            BY <1>0 DEF vars, sessionVars, transferVars
        <3> QED BY <3>1, TypeStep, TransferInvStep, ProbeInvStep DEF IInv, SessionStep
    <2> QED BY <1>0, <2>1, <2>2 DEF GeneralInv
<1>2. OrderInv'
    BY <1>0, OrderQuiet DEF GeneralInv, orderVars, sessionVars, transferVars
<1>3. AskingInv'
    BY <1>0, AskingSame DEF GeneralInv
<1>4. EpochInv'
    BY <1>0 DEF GeneralInv, EpochInv, MayResync, At, ReadyAsked
<1>5. InputInv'
    BY <1>0, InputQuiet DEF GeneralInv, inputVars
<1>6. CardsInv'
    BY <1>0 DEF GeneralInv, CardsInv
<1>7. SavesInv'
    BY <1>0 DEF GeneralInv, SavesInv, ArmedTrue, HostSaves, HostFrames, Asked
<1> QED BY <1>1, <1>2, <1>3, <1>4, <1>5, <1>6, <1>7 DEF GeneralInv

\* The strengthened invariant holds in every reachable state, of any number of
\* guests and under a patient player or not.
THEOREM BarrierInvariance == BarrierSpec => []GeneralInv
<1>1. BarrierInit => GeneralInv
    BY GeneralInit
<1>2. GeneralInv /\ [BarrierNext]_barrierVars => GeneralInv'
    <2>1. ASSUME GeneralInv, BarrierNext PROVE GeneralInv'
        <3>1. LoopType'
            BY <2>1, LoopTypeStep
        <3>2. (~over => IInv)'
            BY <2>1, SessionKept
        <3>3. OrderInv'
            BY <2>1, <3>1, OrderStep
        <3>4. AskingInv' /\ EpochInv' /\ InputInv' /\ CardsInv' /\ SavesInv'
            BY <2>1, <3>1, <3>3, AskingStep, EpochStep, InputStep, CardsStep, SavesStep
        <3> QED BY <3>1, <3>2, <3>3, <3>4 DEF GeneralInv
    <2>2. ASSUME GeneralInv, UNCHANGED barrierVars PROVE GeneralInv'
        BY <2>2, GeneralStutter
    <2> QED BY <2>1, <2>2
<1> QED BY <1>1, <1>2, PTL DEF BarrierSpec

\* Type correctness of the frame loop, the savestate requests and the input
\* marks; the host asks for no more than its cards, one save and a load of each
\* slot take.
THEOREM BarrierTypeCorrect == BarrierSpec => []BarrierTypeOK
<1>1. GeneralInv => BarrierTypeOK
    <2> SUFFICES ASSUME GeneralInv PROVE BarrierTypeOK
        OBVIOUS
    <2>0. LoopType /\ AskedBound
        BY DEF GeneralInv, AskingInv
    <2>1. Mark \subseteq Int
        BY DEF Mark
    <2>2. clock \in [Slots -> [sim : 0 .. MaxSim, epoch : 0 .. MaxEpoch,
                               rows : [Slots -> Int], confirms : [Slots -> Int]]]
        <3>1. [Slots -> Mark] \subseteq [Slots -> Int]
            BY <2>1
        <3>2. Clock \subseteq [sim : 0 .. MaxSim, epoch : 0 .. MaxEpoch,
                               rows : [Slots -> Int], confirms : [Slots -> Int]]
            BY <3>1 DEF Clock
        <3> QED BY <2>0, <3>2 DEF LoopType
    <2>3. sampled \in [Slots -> [0 .. MaxEpoch -> Int]] /\ confirmed \in [Slots -> [0 .. MaxEpoch -> Int]]
        <3>1. [0 .. MaxEpoch -> Mark] \subseteq [0 .. MaxEpoch -> Int]
            BY <2>1
        <3> QED BY <2>0, <3>1 DEF LoopType
    <2>4. Len(asked) <= 3 * MaxEpoch + 5
        <3>1. LoadsAsked \subseteq Saves
            BY DEF LoadsAsked
        <3>2. Cardinality(LoadsAsked) \in Nat /\ Cardinality(LoadsAsked) <= MaxEpoch /\ MaxEpoch \in Nat
            BY <3>1, ConstantsType, FS_Subset, FS_CardinalityType DEF MaxEpoch
        <3>3. Len(asked) \in Nat
            BY <2>0, AskedIs
        <3>4. Left(np[Host].xfer) \in {0, 1, 2}
            BY DEF Left
        <3> DEFINE n == Cardinality(LoadsAsked)
                   k == Left(np[Host].xfer)
        <3>5. Len(asked) + k <= 3 * n + 5
            <4>1. Len(asked) + k <= 3 * n + (IF HasCoord THEN 3 ELSE 0) + (IF asked = <<>> THEN 0 ELSE 2)
                BY <2>0 DEF AskedBound
            <4>2. n \in Nat /\ k \in Nat
                BY <3>2, <3>4
            <4> HIDE DEF n, k
            <4> QED BY <3>3, <4>1, <4>2
        <3>6. n \in Nat /\ n <= MaxEpoch /\ k \in Nat
            BY <3>2, <3>4
        <3> HIDE DEF n, k
        <3> QED BY <3>2, <3>3, <3>5, <3>6
    <2> QED BY <2>0, <2>2, <2>3, <2>4 DEF LoopType, Loop, BarrierTypeOK
<1> QED BY <1>1, BarrierInvariance, PTL

\* A frame that counts is of a tick every peer has sampled in the same epoch:
\* rows and confirmations of an epoch before the load are never taken for those
\* of the epoch after it.
THEOREM EpochsStayApart == BarrierSpec => []EpochsApart
<1>1. GeneralInv => EpochsApart
    BY DEF GeneralInv, InputInv, FrameTrue, EpochsApart
<1> QED BY <1>1, BarrierInvariance, PTL

\* Nobody runs a frame before every peer has the host's memory cards.
THEOREM CardsAreAgreed == BarrierSpec => []CardsAgree
<1>1. GeneralInv => CardsAgree
    BY DEF GeneralInv, CardsInv, CardsAgree
<1> QED BY <1>1, BarrierInvariance, PTL

\* A host that has written its file and stopped has sent what an armed guest
\* needs to reach the tick of the save and write its own.
THEOREM StoppedHostSent == BarrierSpec => []StoppedHostHasSent
<1>1. GeneralInv => StoppedHostHasSent
    <2> SUFFICES ASSUME GeneralInv, NEW g \in Guests,
                        np[Host].xfer = "SAVE_COORD", np[Host].staged, ~Pending(Host),
                        np[g].xfer = "SAVE_COORD"
                 PROVE  /\ sampled[Host][clock[Host].epoch] >= np[g].target
                        /\ confirmed[Host][clock[Host].epoch] >= np[g].target
        BY DEF StoppedHostHasSent
    <2>1. Host \in Slots /\ g \in Slots
        BY DEF Slots
    <2>2. PICK i \in Asked : /\ asked[i][1] = "PROBE" /\ IsCoord(asked[i][2])
                             /\ asked[i][2].crc = np[Host].target
        BY <2>1 DEF GeneralInv, SavesInv, ArmedTrue
    <2>3. PICK j \in Asked : /\ asked[j][1] = "PROBE" /\ IsCoord(asked[j][2])
                             /\ asked[j][2].crc = np[g].target
        BY <2>1 DEF GeneralInv, SavesInv, ArmedTrue
    <2>4. i = j
        BY <2>2, <2>3 DEF GeneralInv, AskingInv, SaveOnce
    <2>5. ss[Host].save = <<>>
        BY DEF Pending
    <2> QED BY <2>2, <2>3, <2>4, <2>5 DEF GeneralInv, SavesInv, HostSaves
<1> QED BY <1>1, BarrierInvariance, PTL
=============================================================================
