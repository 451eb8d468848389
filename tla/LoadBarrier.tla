---------------------------- MODULE LoadBarrier ----------------------------
(***************************************************************************)
(* How the netplay frame loop saves and loads a state on every peer at     *)
(* once, and agrees the memory cards before the first frame: the NP_XFER   *)
(* state machine of psx_netplay.c over the probes and transfers of         *)
(* StateTransfer, the pending requests of savestate.c, and the input epoch *)
(* that rnet_session_hard_resync starts after a load.  Delay-sync mode.    *)
(*                                                                         *)
(* Each handler np_pump_session calls is an action: psx_netplay_pump runs  *)
(* between frames and, from the cycle watchdog, in the middle of one.  A   *)
(* state of the game is a number: a load restores it, and a frame, the     *)
(* same for the same inputs, adds one.  What DelaySync shows of inputs is  *)
(* kept as marks: how far a peer has sampled, and confirmed, in each epoch *)
(* and how far another has heard it.                                       *)
(*                                                                         *)
(* Datagrams to a guest may be lost, repeated and late, but not overtaken  *)
(* by those of a later exchange.  No allocation fails, and a state file    *)
(* that is there can be read.                                              *)
(***************************************************************************)
EXTENDS StateTransfer, Sequences

CONSTANTS
    Saves,          \* the savestate slots in use
    InitFile,       \* InitFile[p][s]: the state p has in slot s
    InitCard,       \* InitCard[p]: p's memory cards
    Delay,          \* the input delay of the session, D
    LoadMayFail,    \* the peers on which a state that is there may fail to be applied
    Patient,        \* whether the player waits for the guests before he asks again
    SavedTo,        \* bound: the slots the player saves to
    AskBy,          \* bound: the last tick at which a player asks for something
    MaxAsks,        \* bound: saves and loads asked for
    MaxSim,         \* bound: the tick at which the model stops admitting,
    MaxResumed      \* ... and that in the epochs after a load

NoFile   == 0
MaxEpoch == Cardinality(Saves)      \* bound: each slot is loaded once at most
ReadyCrc == 1                       \* NP_LOAD_READY_CRC

ASSUME BarrierAssumption ==
    /\ Saves \subseteq Nat /\ IsFiniteSet(Saves)
    /\ InitFile \in [Slots -> [Saves -> Nat]]
    /\ InitCard \in [Slots -> Nat]
    /\ {Delay, AskBy, MaxAsks, MaxSim, MaxResumed} \subseteq Nat
    /\ Delay > 0 /\ MaxResumed <= MaxSim
    /\ LoadMayFail \subseteq Slots /\ SavedTo \subseteq Saves /\ Patient \in BOOLEAN
    /\ 1 \in Sizes

VARIABLES
    np,             \* g_np: the exchange p's frame loop is in
    ss,             \* savestate.c: the requests pending, and how the last ended
    disk, card,     \* p's savestate files and memory cards
    game,           \* the state of p's game
    frame,          \* p's guest CPU is running a frame
    clock,          \* sim_tick, input_epoch, and the rows and confirmations in
    sampled,        \* sampled[p][e]: the last wire tick p sampled in epoch e
    confirmed,      \* ... and the last it confirmed
    blobs,          \* what each transfer carries
    asked, heard,   \* the host's exchanges, and the last each guest heard of
    over            \* a peer has left the session

loopVars == <<np, ss, disk, card, game, frame, over>>
inputVars == <<clock, sampled, confirmed>>
orderVars == <<blobs, asked, heard>>
sessionVars == <<transferVars, probe, stall, net, delivered>>
barrierVars == <<loopVars, inputVars, orderVars, sessionVars>>

Phases == {"NONE", "MC_PROBE", "MC_SEND", "SAVE_COORD", "SAVE_PROBE", "SAVE_SEND",
           "LOAD_PROBE", "LOAD_SEND", "LOAD_APPLYING", "LOAD_READY"}

BarrierTypeOK ==
    /\ np \in [Slots -> [xfer : Phases, slot : Saves \cup {0}, target : Nat, staged : BOOLEAN,
                         acked : BOOLEAN, applied : BOOLEAN, synced : BOOLEAN,
                         replied : BOOLEAN, needs : BOOLEAN, cards : BOOLEAN]]
    /\ disk \in [Slots -> [Saves -> Nat]]
    /\ card \in [Slots -> Nat] /\ game \in [Slots -> Nat]
    /\ frame \in [Slots -> BOOLEAN] /\ over \in BOOLEAN
    /\ clock \in [Slots -> [sim : 0 .. MaxSim, epoch : 0 .. MaxEpoch,
                            rows : [Slots -> Int], confirms : [Slots -> Int]]]
    /\ sampled \in [Slots -> [0 .. MaxEpoch -> Int]]
    /\ confirmed \in [Slots -> [0 .. MaxEpoch -> Int]]
    /\ heard \in [Guests -> Nat]
    /\ Len(asked) <= 3 * MaxEpoch + 5

\* Just past START: the prefix of the first Delay ticks is seeded.
NewEpoch(e) == [sim |-> 0, epoch |-> e, rows |-> [q \in Slots |-> -1],
                confirms |-> [q \in Slots |-> -1]]
Prefixed(e) == [i \in 0 .. MaxEpoch |-> IF i = e THEN Delay - 1 ELSE -1]

BarrierInit ==
    /\ Init
    /\ np = [p \in Slots |-> [xfer |-> "NONE", slot |-> 0, target |-> 0, staged |-> FALSE,
                              acked |-> FALSE, applied |-> FALSE, synced |-> FALSE,
                              replied |-> FALSE, needs |-> FALSE, cards |-> FALSE]]
    /\ ss = [p \in Slots |-> [save |-> <<>>, load |-> <<>>, loaded |-> FALSE,
                              load_failed |-> FALSE, save_failed |-> FALSE, pc |-> FALSE]]
    /\ disk = InitFile /\ card = InitCard
    /\ game = [p \in Slots |-> 0] /\ frame = [p \in Slots |-> FALSE]
    /\ clock = [p \in Slots |-> NewEpoch(0)]
    /\ sampled = [p \in Slots |-> Prefixed(0)]
    /\ confirmed = [p \in Slots |-> [e \in 0 .. MaxEpoch |-> -1]]
    /\ blobs = <<>> /\ asked = <<>> /\ heard = [g \in Guests |-> 0]
    /\ over = FALSE

LastTick(e) == IF e = 0 THEN MaxSim ELSE MaxResumed
Others(p)   == Slots \ {p}
Lowest(S)  == CHOOSE x \in S : \A y \in S : x <= y

-----------------------------------------------------------------------------
(* Exchanges *)

CoordProbe(s, tick)  == [op |-> "SAVE", slot |-> s, size |-> 0, crc |-> tick]
ReadyProbe(s)        == [op |-> "LOAD", slot |-> s, size |-> 0, crc |-> ReadyCrc]
HashProbe(op, s, c)  == [op |-> op, slot |-> s, size |-> 1, crc |-> c]

\* rnet_session_state_probe and rnet_session_state_begin as the loop calls them.
Ask(w) ==
    /\ StateProbe(w)
    /\ asked' = Append(asked, <<"PROBE", w>>)
    /\ UNCHANGED <<blobs, heard>>

Send(op, s, c) ==
    /\ StateBegin(1)
    /\ blobs' = Append(blobs, [op |-> op, slot |-> s, data |-> c])
    /\ asked' = Append(asked, <<"XFER", next_xfer_id + 1>>)
    /\ UNCHANGED heard

\* A datagram to g must be of the last exchange g heard of or of a later one.
Exchange(m) == IF m.type = "PROBE" THEN <<"PROBE", m.what>> ELSE <<"XFER", m.id>>

InOrder(g, m) ==
    \E i \in heard[g] .. Len(asked) :
        /\ i > 0 /\ asked[i] = Exchange(m)
        /\ heard' = [heard EXCEPT ![g] = i]

HostReceive == \E m \in net : OnAck(m) \/ OnProbeReply(m)

GuestReceive(g) ==
    \E m \in net : (OnBegin(g, m) \/ OnChunk(g, m) \/ OnProbe(g, m)) /\ InOrder(g, m)

\* rnet_session_pump: one datagram, or the transfer's next chunks.
SessionPump ==
    /\ \/ (Pump \/ HostReceive) /\ UNCHANGED heard
       \/ \E g \in Guests : GuestReceive(g)
    /\ UNCHANGED <<loopVars, inputVars, blobs, asked>>

\* rnet_session_state_finish with no transfer under way: state_clear.
FinishIdle(p) ==
    /\ stall' = [stall EXCEPT ![p] = probe[p].active]
    /\ finished' = IF p = Host THEN finished ELSE [finished EXCEPT ![p] = 0]

-----------------------------------------------------------------------------
(* Inputs: what DelaySync lets a peer do, by marks *)

\* Mutant: rows and confirmations of any epoch count.
Heard_AnyEpoch(p, mark) ==
    [q \in Slots |-> LET es == 0 .. MaxEpoch
                     IN  CHOOSE x \in {mark[q][e] : e \in es} : \A e \in es : mark[q][e] <= x]

\* What has been sent in p's epoch; datagrams of another are dropped.
Heard(p, mark) == [q \in Slots |-> mark[q][clock[p].epoch]]

\* The pump of a poll brings in what has been sent, or nothing new.
Pumped(p) ==
    {clock[p], [clock[p] EXCEPT !.rows = Heard(p, sampled), !.confirms = Heard(p, confirmed)]}

\* rnet_session_hard_resync and rnet_session_prime_delay_inputs.
Resync(p) ==
    LET e == clock[p].epoch + 1
    IN  /\ clock' = [clock EXCEPT ![p] = NewEpoch(e)]
        /\ sampled' = [sampled EXCEPT ![p][e] = Delay - 1]
        /\ UNCHANGED confirmed

SessionStalled(p) ==
    stall[p] /\ (probe[p].active \/ IF p = Host THEN tx.active ELSE rx[p].active)

\* np_try_admit_gameplay after a pump that leaves p's clock at c:
\* rnet_session_try_admit samples, and confirms what it has the rows of, even
\* when it does not admit.  An admitted tick starts a frame; p's loop is then
\* admitted, or else refused.
TryAdmit(p, c, admitted, refused) ==
    LET tip == c.sim + Delay
    IN  /\ ~SessionStalled(p)
        /\ c.sim < LastTick(c.epoch)
        /\ clock' = [clock EXCEPT ![p] = c]
        /\ sampled' = [sampled EXCEPT ![p][c.epoch] = Greatest(@, tip)]
        /\ confirmed' = [confirmed EXCEPT ![p][c.epoch] =
                            Greatest(@, Lowest({tip} \cup {c.rows[q] : q \in Others(p)}))]
        /\ IF \A q \in Others(p) : c.rows[q] >= c.sim /\ c.confirms[q] >= c.sim
           THEN /\ np' = [np EXCEPT ![p] = [admitted EXCEPT !.needs = TRUE]]
                /\ game' = [game EXCEPT ![p] = @ + 1]
                /\ frame' = [frame EXCEPT ![p] = TRUE]
           ELSE /\ np' = [np EXCEPT ![p] = refused]
                /\ UNCHANGED <<game, frame>>

-----------------------------------------------------------------------------
(* savestate.c *)

Pending(p) == ss[p].save # <<>> \/ ss[p].load # <<>>

RequestSave(p, s) == [ss[p] EXCEPT !.save = <<s>>, !.save_failed = FALSE, !.pc = FALSE]
RequestLoad(p, from) ==
    [ss[p] EXCEPT !.load = from, !.load_failed = FALSE, !.loaded = FALSE]

\* A save may be put off, and fails when no safe resume PC turns up or the file
\* cannot be written.
PollSave(p) ==
    /\ frame[p] /\ ss[p].save # <<>>
    /\ LET s == ss[p].save[1]
       IN  \/ /\ disk' = [disk EXCEPT ![p][s] = game[p]]
              /\ ss' = [ss EXCEPT ![p].save = <<>>, ![p].save_failed = FALSE, ![p].pc = TRUE]
           \/ /\ \E left \in {disk[p][s], NoFile} : disk' = [disk EXCEPT ![p][s] = left]
              /\ ss' = [ss EXCEPT ![p].save = <<>>, ![p].save_failed = TRUE, ![p].pc = FALSE]
    /\ UNCHANGED <<np, card, game, frame, over, inputVars, orderVars, sessionVars>>

\* The blob that came with the transfer, or the file of the slot.
Restored(p) == IF ss[p].load[1] = "BLOB" THEN ss[p].load[2] ELSE disk[p][ss[p].load[2]]

PollLoad(p) ==
    /\ frame[p] /\ ss[p].save = <<>> /\ ss[p].load # <<>>
    /\ \/ /\ Restored(p) # NoFile
          /\ game' = [game EXCEPT ![p] = Restored(p)]
          /\ ss' = [ss EXCEPT ![p].load = <<>>, ![p].loaded = TRUE]
       \/ /\ p \in LoadMayFail \/ Restored(p) = NoFile
          /\ ss' = [ss EXCEPT ![p].load = <<>>, ![p].load_failed = TRUE]
          /\ UNCHANGED game
    /\ UNCHANGED <<np, disk, card, frame, over, inputVars, orderVars, sessionVars>>

-----------------------------------------------------------------------------
(* Handlers of np_pump_session *)

\* np_begin_load_apply, np_enter_load_ready: p's loop after them.
BeginLoadApply(p, s) ==
    [np[p] EXCEPT !.xfer = "LOAD_APPLYING", !.slot = s, !.applied = FALSE, !.synced = FALSE,
                  !.replied = FALSE, !.needs = FALSE]
EnterLoadReady(p, s) ==
    [np[p] EXCEPT !.xfer = "LOAD_READY", !.slot = s, !.applied = TRUE, !.synced = FALSE,
                  !.replied = FALSE, !.needs = FALSE]
Idle(p) == [np[p] EXCEPT !.xfer = "NONE"]

\* np_commit_load_sync, once a load; both callers then note the reply.
CommitLoadSync(p, loop) ==
    /\ np' = [np EXCEPT ![p] = IF loop.synced THEN [loop EXCEPT !.replied = TRUE]
                               ELSE [loop EXCEPT !.synced = TRUE, !.replied = TRUE,
                                                 !.needs = FALSE]]
    /\ IF loop.synced THEN UNCHANGED inputVars ELSE Resync(p)

\* Mutant: a guest still applying its load answers as well.
AnswerReady_AtOnce(g) ==
    LET w     == probe[g].what
        fresh == np[g].xfer = "LOAD_APPLYING"
    IN  /\ w.op = "LOAD" /\ w.size = 0 /\ w.crc = ReadyCrc
        /\ fresh \/ np[g].xfer = "LOAD_READY" \/ np[g].applied
        /\ ProbeReply(g, TRUE)
        /\ CommitLoadSync(g, IF fresh THEN EnterLoadReady(g, w.slot) ELSE np[g])
        /\ ss' = IF fresh THEN [ss EXCEPT ![g].loaded = FALSE] ELSE ss
        /\ UNCHANGED <<disk, card, game, frame, over, orderVars>>

\* np_guest_handle_probe for the ready probe: it is answered once g's load has
\* been applied.
AnswerReady(g) ==
    LET w     == probe[g].what
        fresh == np[g].xfer = "LOAD_APPLYING"
    IN  /\ w.op = "LOAD" /\ w.size = 0 /\ w.crc = ReadyCrc
        /\ IF fresh THEN ~Pending(g) /\ ss[g].loaded
                    ELSE np[g].xfer = "LOAD_READY" \/ np[g].applied
        /\ ProbeReply(g, TRUE)
        /\ CommitLoadSync(g, IF fresh THEN EnterLoadReady(g, w.slot) ELSE np[g])
        /\ ss' = IF fresh THEN [ss EXCEPT ![g].loaded = FALSE] ELSE ss
        /\ UNCHANGED <<disk, card, game, frame, over, orderVars>>

\* ... for a save to come: the guest is armed,
ArmSave(g) ==
    LET w == probe[g].what
    IN  /\ w.op = "SAVE" /\ w.size = 0 /\ probe[g].pending
        /\ np[g].xfer # "SAVE_COORD"
        /\ np' = [np EXCEPT ![g].xfer = "SAVE_COORD", ![g].slot = w.slot, ![g].target = w.crc,
                            ![g].staged = FALSE, ![g].acked = FALSE]
        /\ UNCHANGED <<ss, disk, card, game, frame, over, inputVars, orderVars, sessionVars>>

\* ... and answers when its write has failed, or is done.
AnswerSave(g) ==
    LET w    == probe[g].what
        done == np[g].staged /\ disk[g][w.slot] # NoFile /\ ss[g].pc
    IN  /\ w.op = "SAVE" /\ w.size = 0
        /\ np[g].xfer = "SAVE_COORD" /\ ~Pending(g)
        /\ IF ss[g].save_failed
           THEN /\ ProbeReply(g, FALSE)
                /\ np' = [np EXCEPT ![g].xfer = "NONE", ![g].staged = FALSE, ![g].acked = FALSE]
                /\ ss' = [ss EXCEPT ![g].save_failed = FALSE]
           ELSE /\ done /\ ~np[g].acked
                /\ ProbeReply(g, TRUE)
                /\ np' = [np EXCEPT ![g].acked = TRUE]
                /\ UNCHANGED ss
        /\ UNCHANGED <<disk, card, game, frame, over, inputVars, orderVars>>

\* Mutant: cards of the same size are taken to be the same.
AnswerCards_BySize(g) ==
    /\ probe[g].what.op = "SRAM"
    /\ ProbeReply(g, TRUE)
    /\ np' = [np EXCEPT ![g].cards = TRUE]
    /\ UNCHANGED <<ss, disk, card, game, frame, over, inputVars, orderVars>>

AnswerCards(g) ==
    LET match == card[g] = probe[g].what.crc
    IN  /\ probe[g].what.op = "SRAM"
        /\ ProbeReply(g, match)
        /\ np' = [np EXCEPT ![g].cards = @ \/ match]
        /\ UNCHANGED <<ss, disk, card, game, frame, over, inputVars, orderVars>>

\* The hash of a file the host has saved, or of one it wants loaded.
AnswerHash(g) ==
    LET w     == probe[g].what
        match == disk[g][w.slot] # NoFile /\ disk[g][w.slot] = w.crc
    IN  /\ w.op \in {"SAVE", "LOAD"} /\ w.size # 0
        /\ ProbeReply(g, match)
        /\ \/ /\ w.op = "SAVE"
              /\ np' = [np EXCEPT ![g] = IF match THEN Idle(g)
                                         ELSE [np[g] EXCEPT !.xfer = "SAVE_SEND", !.slot = w.slot]]
              /\ UNCHANGED ss
           \/ /\ w.op = "LOAD" /\ ~match
              /\ np' = [np EXCEPT ![g].xfer = "LOAD_SEND", ![g].slot = w.slot]
              /\ UNCHANGED ss
           \/ /\ w.op = "LOAD" /\ match
              /\ IF np[g].xfer \in {"LOAD_APPLYING", "LOAD_READY"}
                 THEN UNCHANGED <<np, ss>>
                 ELSE /\ np' = [np EXCEPT ![g] = BeginLoadApply(g, w.slot)]
                      /\ ss' = [ss EXCEPT ![g] = RequestLoad(g, <<"SLOT", w.slot>>)]
        /\ UNCHANGED <<disk, card, game, frame, over, inputVars, orderVars>>

GuestHandleProbe(g) ==
    /\ probe[g].active
    /\ AnswerReady(g) \/ ArmSave(g) \/ AnswerSave(g) \/ AnswerCards(g) \/ AnswerHash(g)

\* Mutant: the file is written a tick early.
DueToStage_Early(p) ==
    /\ np[p].xfer = "SAVE_COORD" /\ ~np[p].staged
    /\ clock[p].sim + 1 >= np[p].target

\* np_maybe_stage_target_save: p's loop and requests after it.
DueToStage(p) ==
    /\ np[p].xfer = "SAVE_COORD" /\ ~np[p].staged
    /\ clock[p].sim >= np[p].target

MaybeStageTargetSave(p) ==
    /\ DueToStage(p)
    /\ np' = [np EXCEPT ![p].staged = TRUE]
    /\ ss' = [ss EXCEPT ![p] = RequestSave(p, np[p].slot)]
    /\ UNCHANGED <<disk, card, game, frame, over, inputVars, orderVars, sessionVars>>

\* np_apply_ready_state: a whole transfer is used and finished.  On a guest the
\* write of a saved file may fail, and so may the copy kept of a loaded one.
ApplyReady(p) ==
    /\ IF p = Host THEN HostFinish ELSE GuestFinish(p)
    /\ LET b == blobs[IF p = Host THEN tx.id ELSE rx[p].id]
       IN  \/ /\ b.op = "SRAM"
              /\ card' = IF p = Host THEN card ELSE [card EXCEPT ![p] = b.data]
              /\ np' = [np EXCEPT ![p] = [Idle(p) EXCEPT !.cards = TRUE, !.needs = FALSE]]
              /\ UNCHANGED <<ss, disk>>
           \/ /\ b.op = "SAVE"
              /\ \E kept \in IF p = Host THEN {disk[p][b.slot]} ELSE {b.data, NoFile} :
                    disk' = [disk EXCEPT ![p][b.slot] = kept]
              /\ np' = [np EXCEPT ![p] = Idle(p)]
              /\ UNCHANGED <<ss, card>>
           \/ /\ b.op = "LOAD"
              /\ \E kept \in IF p = Host THEN {disk[p][b.slot]} ELSE {b.data, NoFile} :
                    disk' = [disk EXCEPT ![p][b.slot] = kept]
              /\ ss' = [ss EXCEPT ![p] = RequestLoad(p, IF p = Host THEN <<"SLOT", b.slot>>
                                                                    ELSE <<"BLOB", b.data>>)]
              /\ np' = [np EXCEPT ![p] = BeginLoadApply(p, b.slot)]
              /\ UNCHANGED card
    /\ UNCHANGED <<game, frame, over, inputVars, orderVars>>

\* np_drive_load_barrier: a load has been applied, and the host asks the guests,
\* or it has failed, and the frame loop leaves the session (main.cpp:4649).
EnterReady(p) ==
    /\ np[p].xfer = "LOAD_APPLYING" /\ ~Pending(p) /\ ~ss[p].load_failed /\ ss[p].loaded
    /\ np' = [np EXCEPT ![p] = EnterLoadReady(p, np[p].slot)]
    /\ ss' = [ss EXCEPT ![p].loaded = FALSE]
    /\ IF p = Host THEN Ask(ReadyProbe(np[p].slot)) ELSE UNCHANGED <<sessionVars, orderVars>>
    /\ UNCHANGED <<disk, card, game, frame, over, inputVars>>

AbortLoad(p) ==
    /\ np[p].xfer = "LOAD_APPLYING" /\ ~Pending(p) /\ ss[p].load_failed
    /\ np' = [np EXCEPT ![p] = [Idle(p) EXCEPT !.applied = FALSE, !.replied = FALSE,
                                               !.synced = FALSE]]
    /\ ss' = [ss EXCEPT ![p].load_failed = FALSE]
    /\ over' = TRUE
    /\ FinishIdle(p)
    /\ UNCHANGED <<disk, card, game, frame, inputVars, orderVars,
                   tx, rx, next_xfer_id, sticky, probe, net, delivered>>

\* np_host_drive_xfer, by phase, when the reply is in.
Answered(phase) == np[Host].xfer = phase /\ probe[Host].active /\ probe[Host].replied

HostGoesOn(loop) ==
    /\ np' = [np EXCEPT ![Host] = loop]
    /\ UNCHANGED <<disk, card, game, frame, over>>

DriveCards ==
    /\ Answered("MC_PROBE")
    /\ IF probe[Host].match
       THEN /\ HostGoesOn([Idle(Host) EXCEPT !.cards = TRUE])
            /\ ProbeFinish /\ UNCHANGED orderVars
       ELSE /\ HostGoesOn([np[Host] EXCEPT !.xfer = "MC_SEND"])
            /\ Send("SRAM", 0, card[Host])
    /\ UNCHANGED <<ss, inputVars>>

\* A write that failed ends the save here, with the probe left unanswered.
AbortSave ==
    /\ np[Host].xfer = "SAVE_COORD" /\ ~Pending(Host) /\ ss[Host].save_failed
    /\ HostGoesOn([Idle(Host) EXCEPT !.staged = FALSE])
    /\ ss' = [ss EXCEPT ![Host].save_failed = FALSE]
    /\ UNCHANGED <<inputVars, orderVars, sessionVars>>

\* Whether or not the guest could save, the host asks for its hash.
DriveSaveCoord ==
    LET s == np[Host].slot
    IN  /\ Answered("SAVE_COORD")
        /\ ~Pending(Host) /\ ~ss[Host].save_failed
        /\ np[Host].staged /\ disk[Host][s] # NoFile /\ ss[Host].pc
        /\ HostGoesOn([np[Host] EXCEPT !.xfer = "SAVE_PROBE"])
        /\ Ask(HashProbe("SAVE", s, disk[Host][s]))
        /\ UNCHANGED <<ss, inputVars>>

DriveSaveProbe ==
    LET s == np[Host].slot
    IN  /\ Answered("SAVE_PROBE")
        /\ IF probe[Host].match
           THEN HostGoesOn(Idle(Host)) /\ ProbeFinish /\ UNCHANGED orderVars
           ELSE /\ HostGoesOn([np[Host] EXCEPT !.xfer = "SAVE_SEND"])
                /\ Send("SAVE", s, disk[Host][s])
        /\ UNCHANGED <<ss, inputVars>>

DriveLoadProbe ==
    LET s == np[Host].slot
    IN  /\ Answered("LOAD_PROBE")
        /\ IF probe[Host].match
           THEN /\ HostGoesOn(BeginLoadApply(Host, s))
                /\ ss' = [ss EXCEPT ![Host] = RequestLoad(Host, <<"SLOT", s>>)]
                /\ ProbeFinish /\ UNCHANGED orderVars
           ELSE /\ HostGoesOn([np[Host] EXCEPT !.xfer = "LOAD_SEND", !.applied = FALSE,
                                               !.synced = FALSE])
                /\ Send("LOAD", s, disk[Host][s])
                /\ UNCHANGED ss
        /\ UNCHANGED inputVars

DriveLoadReady ==
    /\ Answered("LOAD_READY")
    /\ ProbeFinish
    /\ CommitLoadSync(Host, np[Host])
    /\ UNCHANGED <<ss, disk, card, game, frame, over, orderVars>>

\* Mutant: the probe is sent again while one is out.
StartCards_Again ==
    /\ np[Host].xfer \in {"NONE", "MC_PROBE"} /\ ~np[Host].cards
    /\ HostGoesOn([np[Host] EXCEPT !.xfer = "MC_PROBE"])
    /\ Ask(HashProbe("SRAM", 0, card[Host]))
    /\ UNCHANGED <<ss, inputVars>>

\* np_maybe_start_mc_sync.
StartCards ==
    /\ np[Host].xfer = "NONE" /\ ~np[Host].cards
    /\ HostGoesOn([np[Host] EXCEPT !.xfer = "MC_PROBE"])
    /\ Ask(HashProbe("SRAM", 0, card[Host]))
    /\ UNCHANGED <<ss, inputVars>>

HostDriveXfer ==
    DriveCards \/ AbortSave \/ DriveSaveCoord \/ DriveSaveProbe \/ DriveLoadProbe \/ DriveLoadReady

-----------------------------------------------------------------------------
(* The host's player *)

\* The probes a save or a load has begun with.
AskedFor == {i \in DOMAIN asked : asked[i][1] = "PROBE" /\ asked[i][2].op # "SRAM"
                                  /\ (asked[i][2].op = "SAVE") = (asked[i][2].size = 0)}

MayAsk ==
    /\ Cardinality(AskedFor) < MaxAsks
    /\ clock[Host].sim <= AskBy \/ AskedFor # {}
    /\ np[Host].xfer = "NONE" /\ np[Host].cards
    /\ Patient => \A g \in Guests : np[g].xfer = "NONE" /\ clock[g].epoch = clock[Host].epoch

\* psx_netplay_request_save: agreed for a tick ahead.  The model saves once.
AskSave(s) ==
    LET tick == clock[Host].sim + Delay + 2
    IN  /\ MayAsk
        /\ s \in SavedTo /\ clock[Host].epoch = 0
        /\ \A i \in AskedFor : asked[i][2].op # "SAVE"
        /\ Ask(CoordProbe(s, tick))
        /\ HostGoesOn([np[Host] EXCEPT !.xfer = "SAVE_COORD", !.slot = s, !.target = tick,
                                       !.staged = FALSE, !.acked = FALSE])
        /\ UNCHANGED <<ss, inputVars>>

\* psx_netplay_request_load.  The model loads a slot once.
AskLoad(s) ==
    /\ MayAsk
    /\ disk[Host][s] # NoFile
    /\ \A i \in AskedFor : asked[i][2].op = "LOAD" => asked[i][2].slot # s
    /\ Ask(HashProbe("LOAD", s, disk[Host][s]))
    /\ HostGoesOn([np[Host] EXCEPT !.xfer = "LOAD_PROBE", !.slot = s, !.applied = FALSE])
    /\ UNCHANGED <<ss, inputVars>>

-----------------------------------------------------------------------------
(* psx_netplay_poll_admit, by phase, and psx_netplay_finish_frame *)

Polls(p) == ~frame[p] /\ np[p].cards /\ ~np[p].needs

\* A staged load needs a frame to be applied in.
PollApplying(p, c) ==
    /\ np[p].xfer = "LOAD_APPLYING" /\ Pending(p)
    /\ TryAdmit(p, c, np[p], np[p])
    /\ UNCHANGED ss

\* Once all are ready a peer leaves the barrier with the first tick it admits.
PollReady(p, c) ==
    /\ np[p].xfer = "LOAD_READY" /\ np[p].synced /\ np[p].replied
    /\ TryAdmit(p, c, [Idle(p) EXCEPT !.applied = FALSE, !.replied = FALSE, !.synced = FALSE],
                np[p])
    /\ UNCHANGED ss

\* remote_lead < 0.
Ahead(p, c) == \A q \in Others(p) : c.rows[q] < c.sim

\* Frames run until the target is reached and the file written; the host's go on
\* for a guest that is behind.
PollSaveCoord(p, c) ==
    /\ np[p].xfer = "SAVE_COORD"
    /\ ~np[p].staged \/ Pending(p) \/ (p = Host /\ Ahead(p, c))
    /\ LET loop == [np[p] EXCEPT !.staged = @ \/ DueToStage(p)]
       IN  TryAdmit(p, c, loop, loop)
    /\ ss' = IF DueToStage(p) THEN [ss EXCEPT ![p] = RequestSave(p, np[p].slot)] ELSE ss

PollOther(p, c) ==
    /\ np[p].xfer \notin {"LOAD_APPLYING", "LOAD_READY", "SAVE_COORD"}
    /\ TryAdmit(p, c, np[p], np[p])
    /\ UNCHANGED ss

Poll(p) ==
    /\ Polls(p)
    /\ \E c \in Pumped(p) :
          PollApplying(p, c) \/ PollReady(p, c) \/ PollSaveCoord(p, c) \/ PollOther(p, c)
    /\ UNCHANGED <<disk, card, over, orderVars, sessionVars>>

\* Mutant: the tick advances after every frame.
FinishFrame_Counts(p) ==
    /\ frame[p]
    /\ frame' = [frame EXCEPT ![p] = FALSE]
    /\ clock' = [clock EXCEPT ![p].sim = @ + 1]
    /\ np' = [np EXCEPT ![p].needs = FALSE]
    /\ UNCHANGED <<ss, disk, card, game, over, sampled, confirmed, orderVars, sessionVars>>

\* A frame whose latch a load has cleared meanwhile does not count.
FinishFrame(p) ==
    /\ frame[p]
    /\ frame' = [frame EXCEPT ![p] = FALSE]
    /\ IF np[p].needs
       THEN clock' = [clock EXCEPT ![p].sim = @ + 1] /\ np' = [np EXCEPT ![p].needs = FALSE]
       ELSE UNCHANGED <<clock, np>>
    /\ UNCHANGED <<ss, disk, card, game, over, sampled, confirmed, orderVars, sessionVars>>

-----------------------------------------------------------------------------
LoopStep(p) ==
    \/ Poll(p) \/ FinishFrame(p) \/ PollSave(p) \/ PollLoad(p)
    \/ MaybeStageTargetSave(p) \/ ApplyReady(p) \/ EnterReady(p) \/ AbortLoad(p)

BarrierNext ==
    /\ ~over
    /\ \/ SessionPump
       \/ \E p \in Slots : LoopStep(p)
       \/ \E g \in Guests : GuestHandleProbe(g)
       \/ HostDriveXfer \/ StartCards
       \/ \E s \in Saves : AskSave(s) \/ AskLoad(s)

BarrierSpec == BarrierInit /\ [][BarrierNext]_barrierVars

-----------------------------------------------------------------------------
(* What a save and a load promise *)

\* Where p's game stood at tick 0 of its epoch.
StartOf(p) == game[p] - clock[p].sim - (IF np[p].needs THEN 1 ELSE 0)

\* p plays: it is not between restoring a state and the epoch that starts from it.
Playing(p) == np[p].xfer \notin {"LOAD_APPLYING", "LOAD_READY"} \/ np[p].synced

\* Peers that play in one input epoch started it from the same state: no tick is
\* run twice or left out on one of them, none is run between the restore and the
\* epoch's first (psx_netplay.c:4421-4425), and a file or blob loaded is the
\* same on all.
SameGame ==
    \A p, q \in Slots :
        /\ Playing(p) /\ Playing(q) /\ ~over
        /\ clock[p].epoch = clock[q].epoch
        => StartOf(p) = StartOf(q)

\* "ready probe first (both applied)" (host_integration.md:58): the host takes
\* the peers to be ready only when each guest has restored what the host has.
ReadyMeansRestored ==
    Answered("LOAD_READY") => \A g \in Guests : game[g] = game[Host]

\* No tick is played in an epoch before every peer has started it and sampled for
\* the tick (rnet_session.c:2629-2661, 482, 508): rows of an earlier epoch that
\* are still about do not count.
EpochsApart ==
    \A p, q \in Slots :
        frame[p] /\ np[p].needs => sampled[q][clock[p].epoch] >= clock[p].sim

\* No frame is run before the memory cards are the same (psx_netplay.c:4417).
CardsAgree == \A p, q \in Slots : frame[p] => card[p] = card[q]

\* A host that has written its file, and so has stopped, has sent everything an
\* armed guest needs to reach the target (psx_netplay.c:4516-4520).
StoppedHostHasSent ==
    \A g \in Guests :
        /\ np[Host].xfer = "SAVE_COORD" /\ np[Host].staged /\ ~Pending(Host) /\ ~frame[Host]
        /\ np[g].xfer = "SAVE_COORD" /\ ~np[g].staged
        => LET e == clock[Host].epoch
           IN  sampled[Host][e] >= np[g].target /\ confirmed[Host][e] >= np[g].target

\* "the first peer to finish apply must keep sending pads so the other can still
\* admit frames for savestate_poll" (psx_netplay.c:1700-1701): what the later one
\* needs for its frame has been sampled and confirmed by the peer that is done.
LaterApplierCanAdmit ==
    \A p, q \in Slots :
        /\ np[p].xfer = "LOAD_READY" /\ ~np[p].synced /\ ~frame[p]
        /\ np[q].xfer = "LOAD_APPLYING" /\ Pending(q) /\ ~frame[q]
        => /\ sampled[p][clock[p].epoch] >= clock[q].sim
           /\ confirmed[p][clock[p].epoch] >= clock[q].sim
=============================================================================
