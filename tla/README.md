# TLA+ models of the Ape Escape recompilation

The repository is a static recompilation of one PlayStation game and the
framework under it. Nearly all of the program's own logic is that framework,
`psxrecomp.broken.bak/` (`PB` below): the recompiler, the runtime with its
device models, and two libraries for playing over a network, `recomp-net` and
`retcomm-rbengine`. This directory specifies the two parts where states and
orders of events decide correctness. One is netplay: two or more copies of a
deterministic game run on different machines, exchange controller samples over
UDP, and must never play different inputs for one frame, nor stop. The other is
the overlay pipeline: code that a game loads over itself is captured while it
runs, compiled by a child process and taken into the running game, by five
threads and two processes, and must be neither lost nor made up.

## 1. Inventory

| Component | State it keeps | Operations | Talks to |
|---|---|---|---|
| Input rings, `PB/lib/recomp-net/src/input/rnet_rings.c` | 128 places, the row of tick t at place t % 128 | store, get, highest_valid, clear | session |
| Session, `.../session/rnet_session.c` | phase, delay, `sim_tick`, local and remote rings, confirmations sent and received, `input_desync`; transfer, probe and rollback queues | pump, try_admit, advance; HELLO, READY, START, INPUT, INPUT_CONFIRM, DELAY_SYNC, STATE_*, BYE and RB_* handlers | transport, ICE agent, host callbacks |
| Rollback episodes, `.../rollback/rnet_rollback.c` | phase of the episode, sealed input table, completion masks, resolved_through | begin, seal, apply peer rows, extend, resign, promote | rollback host |
| Input contract, `.../input/rnet_input_contract.c` | none | may a predicted sample stay when the real one arrives | rollback host |
| Transport and LAN hub, `.../transport/rnet_transport.c` | sockets, the hub's peers | send, receive, forward | session |
| ICE, STUN, lobby, beacon | candidates, rooms | gather, restart over a relay, announce, join | session, launcher |
| retcomm-rbengine, `PB/lib/retcomm-rbengine/src` | scheduler, hash windows, input history, snapshot ring | predict, confirm, save, load, promote | rollback host |
| Netplay frame loop, `PB/runtime/src/psx_netplay.c` | `g_np` (transfer state machine, `needs_advance`), `g_starv` (starvation hold) | poll_admit, finish_frame, pump, savestate and memory-card coordination | session, savestates, SIO |
| Rollback host, `PB/runtime/src/psx_netplay_rb.c` with its snapshot ring and input history | episodes, snapshots, frame commits | try_admit, finish_frame, pump, reconcile | rollback core, savestates |
| Device models: CD-ROM, SIO, DMA, timers, interrupts, MDEC, SPU | registers, FIFOs, queued interrupts | register writes, time | CPU, each other |
| GPU and renderers | VRAM, command FIFO | draw commands | device models |
| Overlay capture, `PB/runtime/src/overlay_capture.c` | executed-word bitmaps, one write job, a queue of preserved snapshots, files in `capture_path.d` | tick, snapshot before a CD transfer, two writer threads, request to the provider, shutdown | interpreter, compiler, disk |
| Background compiler, `PB/runtime/src/autocompile.c` | run state, raw and ready queues, the item being committed, retry gate | request, watch the child, map a shard, poll, shutdown | child process, overlay loader, frame loop |
| Overlay loader, `overlay_loader.c` | candidates, loaded overlays | map, commit, scan, dispatch | interpreter |
| Interpreter and memory | RAM, dirty pages, instruction cache | execute, invalidate | everything |
| Savestates, boot states, rewind | files and an in-memory ring | save, load, step back | netplay, devices |
| Mods, application shell, debug server, static recompiler, game-specific code | | | |

`PROJECT.json` lists each with its files, and says which are modelled.

What is hard about it. The session runs on one thread per machine, so there are
no data races inside it; the interleavings are those of the machines: a
datagram may be lost, repeated, late or overtaken, a pump may run at any moment
between two polls, one machine may be several ticks ahead of the other, and
every table is a ring that a late datagram can write into. Several mechanisms
are there only for the case that something is lost (the redundancy window, the
acknowledgement, the confirm trail, the starvation hold, the relay restart), and
tests of one process at a time (`PB/lib/recomp-net/tests/ring_admit_test.c`,
`session_state_test.c`) can hardly reach the orders in which they matter. The
`hazards` of `PROJECT.json` name them, each at its line.

The overlay pipeline has real threads: the emulation thread, the one that reads
the child's output, the one that maps shards, and two that write files, under
two locks, one atomic and one condition variable; a write, a compile, a mapping
or a commit may fail at any of them, and the runtime may be closed at any point.
`PB/runtime/tests` have scripted orders of some of these, one at a time.

What makes each component correct:

* Pipeline: an input, once sampled for a tick, is that tick's input for good,
  and all games play the same row for a tick (`ImplementsLockstep`,
  `Agreement`); honest peers never end a session with a desync
  (`NoSpuriousDesync`); whatever a waiting peer lacks is held by another, is
  sent again, and is inside the window in which it is accepted
  (`AdmittedRowsHeld`, `WaiterIsSentRow`, `WaiterIsSentConfirm`, `SkewBound`);
  so every peer plays on (`Progress`).
* Frame loop: the hold that relieves a starved peer never holds everybody
  (`HoldNeverMutual`, and `Progress` again).
* Bootstrap: nobody plays before all are ready (`ReadyBarrier`); a delay is
  fixed once played with (`DelaySettles`) and its prefix complete
  (`PrefixComplete`); the first tick is reached (`FirstTickPlayed`).
* Transfer: what a guest calls complete is the host's blob (`WholeBlobIsIntact`),
  the host goes on only then (`ReadyMeansDelivered`), the sim stays stalled
  meanwhile (`TransferStalls`), an answer is to the question asked
  (`ReplyIsAnswer`), and transfers get on and end (`MidTransferProgress`,
  `TransferCompletes`).
* Load barrier: peers that play in one input epoch started it from one state
  (`SameGame`), the host goes on only when the guests have restored
  (`ReadyMeansRestored`), nothing of an epoch is played with inputs of another
  (`EpochsApart`), no frame is run before the cards agree (`CardsAgree`), and
  nobody waits for what a stopped peer has not sent (`StoppedHostHasSent`,
  `LaterApplierCanAdmit`).
* Compiler: one shard is handed over at a time (`OneHandoff`), a run leaves
  nothing to the next (`IdleIsQuiet`), a success is one (`HonestSuccess`), and
  every run ends (`RunEnds`).
* Capture: executed code is not lost without a word (`EvidenceRetained`), none is
  recorded that did not run (`EvidenceIsTrue`), none that was
  written is left out of every request (`EvidenceIsOffered`), and the runtime closes
  (`ShutdownEnds`).
* Rollback episodes, delay change: section 8.

## 2. Modules

**`InputRing`** (rnet_rings.c). A ring is the set of its valid entries, no two of
the same place. `Store` evicts whatever held the place, which is how the code
overwrites; `Get` answers only for the tick asked; `HighestValid` is 0 for an
empty ring as in the code, which the acknowledgement and the live window depend
on. The session's `published_*` and `peer_history_*` arrays are such rings too.

**`DelaySync`** (rnet_session.c, a RUNNING session). One variable per field:
`sim_tick`, `local_ring`, `remote_rings`, `highest_remote_ack`, `published`,
`peer_history`, `input_desync`; `needs_advance` is the flag of the frame loop.
`net` is what was sent. `sampled` and `played` are history variables, the inputs
to a refinement. Actions:

| Action | Code |
|---|---|
| `SendInputBundle` | `rnet_session_pump` after its receive loop |
| `ReceiveInput` | `RNET_PKT_INPUT`, `store_remote_frame` for each frame |
| `ReceiveConfirm` | `RNET_PKT_INPUT_CONFIRM` |
| `Admit`, `Stall` | `rnet_session_try_admit` returning 1 or 0, with the sampling, the bundle, `refresh_confirm_window` and the admission tests that every call performs |
| `Advance` | `psx_netplay_finish_frame`, `rnet_session_advance` |

Abstractions: a pad sample is a member of `Inputs`; the 32-bit confirm hash is
the row itself, so a hash collision is out of the model; the limits of 4 ms and
8 ms on repeated datagrams only put a repetition off, so a pump that sends
nothing is a stutter; the network keeps one copy of each set of INPUT frames,
the one sent last (copies differ in their acknowledgement, of which a receiver
keeps the maximum). Ticks do not wrap at 2^32 (at 60 a second that is more than
two years).

**`Lockstep`** is the abstract specification: every player commits an input
per tick, `InputDelay` ticks ahead, never takes it back, and every peer plays the
ticks in order with the inputs committed. `DelaySync` implements it with
`chosen <- sampled`.

**`NetplayAdmit`** (psx_netplay.c) composes `DelaySync` with `g_starv`:
`PollLatched`, `PollAdmitted` and `PollMissed` are the three ways through
`psx_netplay_poll_admit`, and `Session` is every other call.

**`SessionBootstrap`** (rnet_session.c up to the first tick). `phase`, `delay`,
`peer_ready`, `start_sent`, the ticks a peer has a local row for, and the relay
restart. Samples are left out. Where it ends, with every peer running and its
prefix seeded, `DelaySync` starts.

**`StateTransfer`** (rnet_session.c:712-1268, 2397-2722). `tx` and `rx` are the
transfer fields of the host and of a guest (`Nothing` after `state_clear`),
`probe` the probe fields of everybody, `stall` is `state_stall_sim`. Each handler
(`OnBegin`, `OnChunk`, `OnAck`, `OnProbe`, `OnProbeReply`), each drive of the pump
(`Pump`, `DriveProbe`) and each call of the game (`StateBegin`, `HostFinish`,
`GuestFinish`, `StateProbe`, `ProbeReply`, `ProbeFinish`) is an action; the game
may make any call the return codes allow, which is more than
`np_host_drive_xfer` does. `FinishFailedLoad` is the one call of
`rnet_session_state_finish` with nothing to finish (psx_netplay.c:1728).
Abstractions: sizes are in chunks of 1120 bytes; each transfer has a blob of its
own, so that the data of a chunk is its transfer; the checksum tells any two
blobs apart; `op`, `slot`, `size` and `crc` of a probe are one of a few records; the
timers only put repetitions off; an ACK withheld by the 4 ms rule of a LAN is one
that is lost; a failed `malloc` is left out.

**`LoadBarrier`** (the `NP_XFER` machine of psx_netplay.c, the pending requests of
savestate.c, `hard_resync` of rnet_session.c) composes `StateTransfer` with the
frame loop, in delay-sync mode. `np` has the fields of `g_np`, `ss` those of
savestate.c, `clock` has `sim_tick`, `input_epoch` and how far the others' rows and
confirmations are in.

| Action | Code |
|---|---|
| `SessionPump` | `rnet_session_pump` within `np_pump_session`: one datagram, or the drive of a transfer |
| `AnswerReady`, `ArmSave`, `AnswerSave`, `AnswerCards`, `AnswerHash` | `np_guest_handle_probe`, by the operation asked |
| `MaybeStageTargetSave`, `ApplyReady`, `EnterReady`, `AbortLoad` | `np_maybe_stage_target_save`, `np_apply_ready_state`, `np_drive_load_barrier` |
| `DriveCards`, `AbortSave`, `DriveSaveCoord`, `DriveSaveProbe`, `DriveLoadProbe`, `DriveLoadReady`, `StartCards` | `np_host_drive_xfer` by phase, `np_maybe_start_mc_sync` |
| `AskSave`, `AskLoad` | `psx_netplay_request_save`, `psx_netplay_request_load` |
| `PollApplying`, `PollReady`, `PollSaveCoord`, `PollOther` | `psx_netplay_poll_admit` by phase, with the try_admit in it |
| `FinishFrame`, `PollSave`, `PollLoad` | `psx_netplay_finish_frame`, and the two polls of savestate.c inside a frame |

Each handler is a step of its own and not one pump with all of them, because the
pump also runs from the cycle watchdog in the middle of a frame, and everything a
frame does may come between two of its calls. The state of a game is a number: a
frame adds 1, a load restores a number. Inputs are marks (how far a peer has
sampled and confirmed in each epoch), which is all that admission looks at:
`DelaySync` has shown that the rows are the same. The rows of a peer come in
together. Datagrams to a guest are not overtaken by those of a later exchange; what
happens when they are is in `StateTransfer`.

**`Autocompile`** (autocompile.c, as built on Windows). The block inside each pair of
`EnterCriticalSection` and `LeaveCriticalSection` is a step, and so is what a thread
does between two of them, as mapping and committing, which are outside the lock.
`watcher`, `preparer` and `emu` are where the three threads are: a preparer that is
"waiting" sleeps on the condition variable until a `Wake...` of another thread.

| Action | Code |
|---|---|
| `ChildCompiles`, `ChildReports`, `ChildExits` | the child: `tools/compile_overlays.py` under `cmd.exe`, by the lines `watch_thread` understands |
| `WatcherReads`, `WatcherEnds` | `watch_thread`, `publish_parse_locked`, `child_line_locked` |
| `PrepareTakes`, `PrepareMaps`, `PrepareHands`, `PrepareDecides`, `PrepareStores` | `publish_prepare_thread_main` |
| `RequestStarts`, `RequestFails`, `GateOpens` | `autocompile_request` |
| `PollPops`, `PollCommits`, `PollChecks`, `PollJoins` | `autocompile_poll_main` |
| `ShutdownStops`, `ShutdownJoins` | `autocompile_shutdown` |

`PrepareDecides` and `PrepareStores` are two steps because the code tests
`s_publish_stop` and stores `AC_DONE` with no lock around the two. A line is what the
watcher reads in it; a child killed in the middle of one leaves part of it
(`Cut`). The child's own program prints no `PSX_SHARD_PUBLISHED` line at this commit
and leaves its shards to the scan at the end of a run, while autocompile.c and its
test are written for one that does: `ChildCompiles` does either.

**`OverlayCapture`** (overlay_capture.c, with the frame and shutdown order of
main.cpp) EXTENDS `Autocompile` and takes its steps, so that the two run together.
Evidence is a set of shards, a shard a page of RAM with what is in it.

| Action | Code |
|---|---|
| `Execute`, `Store`, `Transfer`, `Restore` | the interpreter's marks, a CPU store, a CD transfer with `overlay_capture_before_dma`, a state load |
| `TickCollects`, `TickRetries`, `TickAsks`, `TickFires` | `overlay_autocapture_tick` |
| `ProviderTries` | `autocap_provider_request_try` |
| `JobIsWritten` | `autocap_write_thread_main` |
| `PreserverWrites`, `PreserverEnds` | `preserve_write_thread_main` |
| `AutocaptureShutdown`, `WaitPending`, `PreserverJoined`, `WriteJson` | `overlay_autocapture_shutdown`, `overlay_capture_wait_pending`, `overlay_capture_write_json`, in the order of `shutdown_runtime` |

`executed`, `owed`, `reported`, `dropped`, `rebound`, `collected` (evidence whose file
the tick took for written) and `offered` (what a run was started on: all that is
archived and not compiled) are history variables. A signature is the evidence it is
of. A write of a file holds `s_commit_mutex` and is one step. Frame counts (cadence,
cooldown, backoff) are left out: what waits for one may happen at any frame.

**`DelaySync_proofs`, `NetplayAdmit_proofs`, `SessionBootstrap_proofs`,
`StateTransfer_proofs`, `LoadBarrier_proofs`, `LoadBarrierJoint_proofs`,
`Autocompile_proofs`, `OverlayCapture_proofs`**: the theorems. **`MC*`**: the
instances.

## 3. Runs

| Run | Question | Bounds |
|---|---|---|
| `delay_sync_wrap` | Do the games ever play different rows, or lose one that is needed? | 2 peers, delay 0, ring of 2, 3 ticks, 2 sample values |
| `delay_sync_live` | Does everybody play on, and is what a peer waits for sent? | 2 peers, delays 0 and 1, 2 ticks, one sample value |
| `netplay_hold` | Can the hold close on everybody? | 2 peers, latch after 1 miss, release after 2, grace of 1 tick |
| `netplay_hold_live` | The same for ever. Violated: finding 1 | latch after 1, release after 1, no grace |
| `bootstrap_start` | Do three peers reach tick 0? | 3 slots, delays 3, 2, 2, one peer with TURN |
| `bootstrap_prefix` | Is the prefix always complete? Violated: finding 2 | 2 slots, delays 3 and 2 |
| `transfer_chunks` | Does a transfer that got going deliver the blob, and get on? | 1 guest, 1 transfer of 3 chunks, window 1 to 2 |
| `transfer_stale` | Can a datagram of an earlier exchange be taken for one of this? | 1 guest, 2 transfers of 1 or 2 chunks, 3 probes in any order |
| `transfer_complete` | Is a transfer completed? Violated: finding 3 | 1 guest, 1 transfer of 1 chunk |
| `load_barrier` | Do cards, saves and loads leave the peers with one game? | 2 peers, 2 slots, 2 requests, 4 ticks, 1 after a load |
| `load_midframe` | Can the later applier still run its frame? Violated: finding 4 | 2 peers, 1 slot, 1 request |
| `overlay_pipeline` | Is executed code lost, made up, or left out of every request; does a run end, and the runtime? | 1 page with 2 variants, 1 write of RAM, 3 runs |

The literals of the code are constants so that the interesting cases come early:
`Slack` stands for 8, `Ancient` and `MaxBack` for 64, `TrailFloor` for 16,
`MaxBundle` for 21, `HistoryLength` for 128, `Redundancy` for the configured 3.
`DelaySync_wrap` has two places to a ring while four ticks are sampled, so that
a late datagram meets an overwritten place, and a trail of 1, the least the
invariants hold with. `DelaySync_live` has `MaxBundle = 1`, so that the prefix takes
several datagrams; one sample value is enough for its properties, which speak of
ticks only. `MaxTick` is the only bound on the state: at it a peer goes on
answering without admitting.
The configured delay of a LAN session may be 0 (`psx_netplay.c` accepts 0 to 20);
only the adoption from a HELLO is limited to 2 to 20.

In `transfer_chunks` three chunks and a window of one or two are the least at
which a chunk in the middle can be missing, the window can slide, grow and halve,
and the cursor can be ahead of what is acknowledged. `transfer_stale` has two
transfers, so that every datagram of the first can meet the second, and probes of
both kinds (a size of 0 coordinates, another is a hash); it keeps every datagram
for ever instead of losing any, which is the same for safety. One guest: with more
the code takes the furthest ACK of any guest for that of all (see section 6).

`load_barrier` has a slot both peers have and one only the host has, so that a load
is once by hash and once by transfer, and cards that differ. Two requests are the
least at which something of one load or save can meet the next; they are asked for
at tick 0, since the tick they are asked at changes nothing but numbers. Four ticks
take a save agreed at tick 0 (target 3) past its target, and one tick after a load
is enough to see a row of another epoch played. `MaxEpoch` follows from `Saves`. The
player saves to the slot both have (`SavedTo`): a save to the other is the same save to
a file nobody has yet. A state that is there may fail to be applied on the guest only
(`LoadMayFail`): a failure on either peer ends the session in the same way. It has 1.3
million states. `load_midframe` needs one slot and one request.

`overlay_pipeline` has one page with two variants, which is one execution, one
overwriting and a second execution, so that evidence of both can be about at once;
one write of RAM besides the first content; three runs, one more than there are
shards, so that a request meets everything two runs can leave. `MaxTries` is 2 for
the code's 5: one attempt that fails and is tried again, and one that is the last.
Two pages, where a transfer preserves the neighbour's evidence too, were explored
with two variants and one write, and with two writes on one run, to some three
million states without a violation. The proofs cover every number of each.

Deadlock is not checked: a model bounded by `MaxTick` ends, and so do the bootstrap
once tick 0 is played, a session that is left, and a runtime that is closed.

## 4. Fairness

`FairSpec` of `DelaySync`: the frame loop of a program that is not killed calls
`poll_admit` again (`Admit \/ Stall`) and finishes an admitted frame
(`Advance`); of the datagrams a peer sends again on every call, `ReceiveRepeated`
says that some are delivered. It assumes nothing of a datagram that is sent
once. In `NetplayAdmit` a latched peer's polls repeat less, and the fairness is
weaker by just that. In `SessionBootstrap` the repeated READYs and the START
are delivered; HELLOs need not be. START is not repeated by the code
(`start_sent`): that its one copy arrives is an assumption about the network,
listed among the hazards. In `StateTransfer` the frame loop pumps, an ACK timeout
comes in the end (`Resend`), and of the BEGIN, of the next chunk and of the
acknowledgements that are news, as long as they are sent again and again, one
arrives in the end. `LoadBarrier` states no liveness.

In `OverlayCapture` one WF says that the compiler's threads and the child run and
that the frame loop polls, in a frame or in a shutdown once begun: a run of the
compiler has finitely many steps, so one WF is enough for all of its threads. Two
more say that the writer thread of the job and the shutdown get on, and that the
preserver does. Nothing is assumed of the guest, of a request, of the ticks or of the
wall clock that opens the retry gate. That a child ends is an assumption about
another program, which the code makes too: it has no timeout for it.

## 5. Proofs

### The delay-sync pipeline

TLAPS proves, for every number of slots, every delay (also unequal ones), window,
trail and ring length, and without any assumption on the network (`DelaySync_proofs`):

* `TypeCorrect`: `Spec => []TypeOK`.
* `GamesAgree`: `Spec => []Agreement`.
* `DesyncIsNeverSpurious`: `Spec => []NoSpuriousDesync`.
* `ClocksStayClose`: `Spec => []SkewBound`.
* `Refinement`: `Spec => ImplementsLockstep`.
* `Invariance`: `Spec => []Inv`, on which the others rest.

The argument. None of the properties is inductive: what a peer plays comes out
of its rings, the rings were filled from the network, and the network from
another peer's ring some time ago. `Inv` says of each place where a row or a
sample can be that it is true to the one fact that never changes, the sequence
`sampled`: of local rings (`LocalTrue`), remote rings (`RemoteTrue`), published
rows (`PublishedTrue`), received confirmations (`HistoryTrue`), datagrams
(`NetTrue`) and played rows (`PlayedTrue`); `Clocks` ties `sim_tick`,
`needs_advance` and the lengths of the two histories together. Since `sampled`
only grows, and only at its end, truth is preserved by eviction, by duplication and
by delay. No eviction has to be excluded, which is why the theorems need no
relation between the ring length and the delays. `SkewBound` then follows from
the confirmation rule: a peer admits a tick only with a confirmation from every
other, which resolved it, hence sampled up to it. `Contradicts` compares two
true rows of one tick, so it is false. The lemmas on rings come first in the
module.

What the rings keep does depend on that relation. The second part of the module states
it as `RingsSuffice`, the assumption of its theorems:

* `AdmittedRowsStay`: `Spec => []AdmittedRowsHeld`.
* `WaiterGetsRow`: `Spec => []WaiterIsSentRow`.
* `WaiterGetsConfirm`: `Spec => []WaiterIsSentConfirm`.
* `RingInvariance`: `Spec => []RingInv`, on which these rest.

The argument. A confirmation, once sent, is in `net` for good, so it can stand for
what its sender held when it made it. `RowsHeld`: a peer that confirmed a tick it
has not played has everybody's row of it. It had them when it resolved the row; a row
stored later is of a tick its owner has sampled (`RemoteTrue`), hence at most two
delays and one ahead (`SkewBound`), and at most a delay and the slop behind (the live
window), so it cannot share the place. `PlayedConfirmed`: what is played was
confirmed by all the others. Together they are `AdmittedRowsHeld`, and that is why a
peer that is ahead need not go back for its rows: `WaiterIsSentRow` follows with
`LocalHeld`, the same argument about the own ring. `Kept` is the argument about
`published`, and with it `WaiterIsSentConfirm` follows from `SkewBound` if the trail of
each peer covers the delay of the other and one tick more.

With the constants of the code (128 places, slack 8, redundancy 3, delays to 20) every
part of `RingsSuffice` holds when the delays are equal, which the adoption from HELLO
is there for, and when none exceeds 15. It fails when they are not equal and one
exceeds 15: the trail is computed from the peer's *own* delay, and with a delay of 2 it
is 16, while a peer with a delay of 20 may be 21 ticks behind. TLC then finds
`WaiterIsSentConfirm` violated (delays 0 and 3, a trail of 2). It takes a guest that
never got a HELLO and the loss of every copy of one confirmation for 17 ticks.

### The frame loop

`NetplayAdmit_proofs`, for every number of peers, delays and setting of the hold:

* `HostRunsTheSession`: `HostSpec => Spec` of `DelaySync`, so that its theorems hold
  under the frame loop (`HeldGamesAgree`, `HeldDesyncIsNeverSpurious`).
* `HoldTypeCorrect`: `HostSpec => []HostTypeOK`.
* `HoldIsNeverMutual`: `HostSpec => []HoldNeverMutual`.
* `HostInvariance`: `HostSpec => []HostInv`.

The argument. A poll latches only after `rnet_session_try_admit` has sampled the tip,
and a latched peer has no frame to finish, so it keeps the row (`LatchedSampled`).
When all are latched, the peer with the lowest *tip*, which with unequal delays need
not be the slowest, has rows of all the others that reach its runway.

### The bootstrap

`SessionBootstrap_proofs`, for every number of slots, delays and set of peers with a
relay:

* `BootTypeCorrect`: `Spec => []TypeOK`.
* `NoEarlyStart`: `Spec => []ReadyBarrier`.
* `DelayIsSettled`: `Spec => DelaySettles`.
* `BootInvariance`: `Spec => []BootInv`.

The argument. READYs are counted by the authority alone, but a guest runs on a START
that may be old; `KnownReady` and `StartBarrier` say that both prove what they are taken
for. `PlayedRuns` (who has played is running, since RUNNING is never left, not even by
the ICE restart) is what makes the guard of `Adopts` enough for `DelaySettles`.

### The transfer

For every number of guests, sizes of blobs, probes, paces and number of transfers,
over a network that loses, repeats and reorders (`StateTransfer_proofs`):

* `TypeCorrect`: `Spec => []TypeOK`.
* `WholeIsTheHosts`: `Spec => []WholeBlobIsIntact`.
* `AdmitStalls`: `Spec => []TransferStalls`.
* `AnswerIsToTheProbe`: `Spec => []ReplyIsAnswer`.
* `ReadyIsSomeones`: a transfer the host takes for complete is one some guest had
  whole. `ReadyIsDelivered`: with one guest, `Spec => []ReadyMeansDelivered`; with
  more it is false of the code, which takes the furthest ACK for that of all.

The argument. `ReadyMeansDelivered` speaks of the host and of a guest that share
nothing but datagrams, so `TransferInv` says what each datagram proves: an id is
of a transfer begun (`IdTrue`), the BEGINs of an id agree on its size
(`BeginsAgree`), and an ACK of that many bytes was made by a guest that had had the
blob (`AckTrue`). For the guest it says that the bits it has set are of chunks of
this transfer, and that `contiguity` is the first bit missing (`RxTrue`); the latter
rests on the lemma `ContiguousIsFirstMissing` about the scan over the bit mask. The
re-acknowledgement of a finished transfer keeps `AckTrue` because the id remembered
is of one that was delivered (`FinishedTrue`). For the stall, a guest never has a
probe open during a transfer (`Exclusive`).

### Saves, loads and memory cards

`LoadBarrier_proofs`, for every number of guests, set of savestate slots, delay and
number of ticks, on whichever peers loads fail, patient or impatient player:

* `BarrierTypeCorrect`: `BarrierSpec => []BarrierTypeOK`.
* `EpochsStayApart`: `BarrierSpec => []EpochsApart`.
* `CardsAreAgreed`: `BarrierSpec => []CardsAgree`.
* `StoppedHostSent`: `BarrierSpec => []StoppedHostHasSent`.
* `BarrierInvariance`: `BarrierSpec => []GeneralInv`, on which these rest.

The argument. The peers share nothing but datagrams of exchanges that come one after
the other, so `GeneralInv` is built on what never changes: `asked`, the exchanges of
the host in their order. `OrderInv` says that no exchange comes twice, that whatever is
about (a probe, a transfer, a reply, a delivered blob) is of one the peer in question
has heard of, and that what the host waits for is the last it asked for. The network
part is not proved again: every step of the barrier is a step of `StateTransfer` with
probes of its own (`SessionStep`, `SessionMoves`), or leaves the session, and keeps its
`IInv` until somebody does; a peer that leaves drops its transfer as no step of
`StateTransfer` does.

`AskingInv` ties the host's phase to what it has asked for: its cards first, one save,
each slot loaded once (`CardsFirst`, `SaveOnce`, `LoadOnce`), and with them the bound on
`asked`. `EpochInv` counts: a peer has started at most as many epochs as ready probes
have been asked for, one fewer while it still owes one, so an epoch always has a place
in `sampled`. `InputInv` then says of the marks that what a peer has of another in its
epoch the other has sampled (`MarksTrue`), and that nobody has sampled in an epoch it
has not started (`LaterUnused`): a frame admitted there means that all are in it or past
it, which is `EpochsApart`. `CardsInv` needs the confirmations: who has no cards has
confirmed nothing, and without a confirmation of everybody no frame runs. `SavesInv`
needs `SaveOnce`, since only one save makes the tick a guest is armed with the host's.

`LoadBarrierJoint_proofs`, for a session of two whose player waits for one barrier
before he asks for the next (`Guests = {g}` and `Patient`), and for every set of
slots, every content of the disks and cards, every delay and number of ticks, whether
loads fail or not:

* `LoadsAgree`: `BarrierSpec => []SameGame`.
* `ReadyIsRestored`: `BarrierSpec => []ReadyMeansRestored`.
* `JointInvariance`: `BarrierSpec => []JointInv(g)`, on which these rest.

Both hypotheses are needed. With more guests the first one's answer is enough for the
host; and a host that asks for a second load while the guest is still at the barrier of
the first goes on alone (section 6).

The argument. The two games are compared only by what each has restored, and the peers
restore at different times, so `SameGame` alone says nothing of the steps in between.
`InStep` says where the guest may be for each phase of the host. While a load is open
(`LoadOpen`, from the request to the host's new epoch) the guest has yet to answer for
the file (`Waiting`), has said that it lacks it or is being sent it (`Getting`), has it
and is to restore it (`Applying`), has restored it (`Applied`), or has answered ready
and is an epoch ahead (`Synced`). Otherwise both play from one state (`GuestPlays`): a
guest that has not yet left the barrier is in the new epoch, and nothing it may still
hear of is a load. The host acts on an answer or a delivered blob only when the
guest has heard of the last thing it asked for (`HostHears`, `HostDelivers`), which
leaves one of these cases; `OnlySynced` is the one for the ready probe. `HostLoads`
keeps what the host has asked for equal to what is on its disk. `Armed`, `CardsOwed`
and `RequestsTrue` say that a save or a card exchange of before has left the guest
nothing to answer, write or restore when a load begins; `KeptTrue` that an answer
repeated for a probe that is already answered is the answer given. The host's probe
of the file comes back as the datagram it was, however late, and `Spoken` separates
what the guest has said from what it was asked.

### The compiler and the capture

`Autocompile_proofs`, for every set of shards, every number of runs, and every order
in which the three threads, the child and a shutdown take their steps:

* `CompileTypeCorrect`: `CompileSpec => []CompileTypeOK`.
* `OneHandedOver`: `CompileSpec => []OneHandoff`.
* `RunsDoNotOverlap`: `CompileSpec => []IdleIsQuiet`.
* `SuccessIsHonest`: `CompileSpec => HonestSuccess`.
* `CompileInvariance`: `CompileSpec => []CompileInv`, on which these rest.

The argument. The verdict of a run is read by the emulation thread from two bits that
other threads set long before, so `HonestSuccess` says nothing of the step that could
break it. `CompileInv` follows the shard instead. `OneItem` and `ImageIsHeld` say in
whose hands the one item between the queues and the loader is, and that the one image
mapped is its image; `Threads` and `Drained` say which threads a state of the run
still has, and that one that has ended left nothing behind. With these, `Accounted`:
every shard the child named in this run is in a line, in a queue or in a hand
(`Underway`), or the run is already known to have failed, or will be when the watcher
sees the exit code. At the verdict nothing is under way, so a run that is not known
to have failed has everything.

`OverlayCapture_proofs`, for every number of pages, variants, writes and attempts:

* `CaptureOneHandoff`, `CaptureRunsApart`, `CaptureIsHonest`: what is proved of
  `Autocompile` holds here. The composition is made of its actions and of steps that
  leave it alone, which the lemma `CompilerRefined` says.
* `CaptureTypeCorrect`: `Spec => []TypeOK`.
* `NothingLost`: `Spec => []EvidenceRetained`.
* `NothingInvented`: `Spec => []EvidenceIsTrue`.
* `NothingForgotten`: `Spec => []EvidenceIsOffered`.
* `CaptureInvariance`: `Spec => []CaptureInv`.

The argument. `EvidenceRetained` is inductive once it is known who may let a snapshot
go (`Handover`): a job that was written is in the archive, a preserver that does not
run has an empty queue, and while the runtime closes no tick takes the job any more.
Each action that lets evidence go then gives it to the next holder first.
`EvidenceIsTrue` is about the ends of the pipeline, and is proved of all of it
(`Claimed`): whatever names a shard, from the live pages over snapshots, files, the
child's work, lines and queues to what is loaded. `TracesInside` says that no step of
the compiler names a shard that nothing in it named before, and a request names only
what is archived. `EvidenceIsOffered` needs `AskInv`: the signature of the last request
is of evidence that request covered, so that skipping one with the same signature skips
nothing new; what is pending or collected is archived, so that a request covers it; and
nothing is pending while a job is alive, which might take its place (`JobAlone`).

### What is only model-checked

The liveness properties, which are out of the prover's reach. So is what a recursive
definition computes for every input; no model here needs one. Every safety property of
a passing run is stated by a theorem.

### Assumptions

`ConfigAssumption` and `HistoryAssumption`: at least two slots, natural numbers for
the constants, a ring with at least one place. `TransferAssumption`: guests are not
the host, a blob has at least one chunk, every pace is at least 1.
`AutocompileAssumption`: the bound on runs is a natural number.
`CaptureAssumption`: pages and variants are finite sets, a shard is a pair of them,
and a write is tried at least once. `BarrierAssumption`: the delay is at least 1, a
blob may be of one chunk, no more ticks are played after a load than before, slots are
finitely many natural numbers, those saved to are among them, and loads fail on peers.

## 6. Findings

1. **The starvation hold stops the retransmission it waits for.** `netplay_hold_live`.
   The faster peer admits tick T; its INPUT_CONFIRM of T is lost; it then misses
   some polls and latches. From there it only pumps, which repeats rows but not
   confirmations. The slower peer waits for the confirmation of T and samples
   nothing new, so the faster one's `remote_lead` never reaches D.
2. **A late HELLO leaves a gap in the prefix.** `bootstrap_prefix`. A guest that
   runs but is still at tick 0 adopts a larger host delay without seeding
   the rows in between.
3. **A lost first chunk hangs a savestate transfer.** `transfer_complete`. The ACK
   timeout of `state_drive_sender` runs from the last ACK that advanced. Before the
   first one there is nothing to run from: if the chunk at offset 0 is lost, or
   overtakes BEGIN and is dropped, the window fills up, BEGIN alone is repeated and
   answered with an ACK of 0, and both sides stay stalled.

4. **A load applied in the frame it was asked for strands the other peer.**
   `load_midframe`. `psx_netplay_pump` also runs in the middle of a frame, so one peer
   may stage and apply its load within one frame and freeze in LOAD_READY, without
   having sampled or confirmed the tick at which the other needs one more frame for
   its own `savestate_poll`. The other waits until the barrier times out.

Met while modelling, and not the subject of a run of its own:

* In `StateTransfer`: the guest's game closes a transfer in the poll that completes
  it, so that a host that lost the last ACKs repeats chunks nobody answers (hence the
  last alternative of `MidTransferProgress`); only the last finished transfer id is
  remembered, and a failed load resets it, so that a delayed BEGIN reopens an older
  transfer; with three or more players `state_peer_ack` is the furthest ACK of any
  guest.
* In `LoadBarrier`: with `Patient = FALSE`, a player who asks for a second load while
  a guest is still at the barrier of the first has the host go on alone
  (`ReadyMeansRestored` is violated); a host whose own write fails leaves the guest
  armed and waiting (`AbortSave`); with three or more players the first guest's reply
  is enough for the host; a load that fails ends the session on that peer.
* In `OverlayCapture`: a state load copies RAM (boot_state.c:543) and calls
  `overlay_watch_invalidate_after_ram_restore`, which leaves the evidence of what was
  executed, so that old evidence is taken with the restored bytes, against
  memory.c:760; `EvidenceIsTrue` leaves out exactly these shards (`rebound`).
  `overlay_autocapture_shutdown` frees a job whose write failed, and
  `overlay_capture_write_json` looks at no result (`dropped`); without that set TLC
  refutes `EvidenceRetained`. A failed compile of unchanged evidence is not asked for
  again (overlay_capture.c:1053-1071), while autocompile.c counts on the next run.

## 7. What is done

| Module | Of | Abstract specification and properties |
|---|---|---|
| `InputRing`, `DelaySync`, `Lockstep` | delay-sync pipeline | refinement of `Lockstep`, what the rings keep, proved; progress |
| `NetplayAdmit` | starvation hold | implements `DelaySync`, no mutual hold, proved; progress |
| `SessionBootstrap` | HELLO, READY, START | barrier, delay, proved; prefix, first tick |
| `StateTransfer` | probe, BEGIN, CHUNK, ACK | intact and acted on only when delivered, proved; progress |
| `LoadBarrier` | `NP_XFER`, `hard_resync`, input epochs, pending saves and loads | epochs apart, cards agreed, armed guests served, and for two peers one game in one epoch and ready means restored, all proved |
| `Autocompile` | the compiler's threads | one handoff, quiet when idle, honest, proved; every run ends |
| `OverlayCapture` | snapshots, writers, request, shutdown | nothing lost, invented or left out of every request, proved; the runtime closes |

## 8. Not modelled

Worth a module, in this order:

| Module | Of | What to state |
|---|---|---|
| `SealedEpisode` | rnet_rollback.c, two peers exchanging seal rows and extending the tip | an episode replays only when both tables agree row by row; the seal mask never exceeds its 64 bits; a started episode completes or aborts |
| `DelayChange` | DELAY_SYNC, `apply_pending_delay`, `prepare_local_tip`. Only rbe_sched.c calls `rnet_session_request_delay_change`, so it belongs to the rollback path | both change at one tick; no wire tick is skipped |
| `HashConfirm`, `SnapRing`, `InputHistory` | retcomm-rbengine | a promoted snapshot is a confirmed one; prediction is replaced by the confirmed row |
| `RollbackHost` | psx_netplay_rb.c over `SealedEpisode` | a rolled-back game equals the lockstep one |
| `Candidates` | the tables of overlay_loader.c: lazy manifest, image warmer, freeze during a resimulation | a dispatched overlay matches the bytes in RAM |

Left out of the modules that are there: BYE and the liveness timeout of a session; the
rollback branches of `psx_netplay_poll_admit` and of the barrier, the media-keyframe
probe, failed allocations and unreadable files; the sequence-ordered "latest" file of
the capture, its history file, and the debug server's own `autocompile_run`.

Not planned: renderers, instruction semantics, the static recompiler and the
launcher: their correctness is about data and about other programs, not about
states a model checker can enumerate.
