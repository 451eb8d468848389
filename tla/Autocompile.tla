---------------------------- MODULE Autocompile ----------------------------
(***************************************************************************)
(* The background compiler of the runtime, autocompile.c, as it is built   *)
(* on Windows: a child process that compiles overlay shards, the thread    *)
(* that reads what it prints, the thread that maps each shard it names,    *)
(* and the emulation thread, which asks for a run, commits one mapped      *)
(* shard a frame, takes the verdict and, at the end, shuts all down.       *)
(*                                                                         *)
(* Each block between EnterCriticalSection and LeaveCriticalSection is a   *)
(* step, and so is what a thread does between two of them.  A thread in    *)
(* SleepConditionVariableCS is "waiting" until another one wakes it.  The  *)
(* three attempts at mapping a shard are one step, and so is a request.    *)
(* Counters and the tail of the child's output are left out.               *)
(***************************************************************************)
EXTENDS Integers, Sequences

CONSTANTS
    Shards,     \* what can be compiled
    MaxRuns     \* bound: child processes started

ASSUME AutocompileAssumption == MaxRuns \in Nat

VARIABLES
    s_state,    \* "idle", "running", or "done" until the emulation thread polls
    child,      \* the compile tree: what it has still to do, and how it ended
    pipe,       \* the lines it printed that are still to be read
    watcher,    \* watch_thread
    preparer,   \* publish_prepare_thread_main
    raw, ready, \* s_publish_raw_*, s_publish_ready_*: named, and mapped, shards
    hand,       \* the item the preparer holds (s_publish_preparing = 1)
    commit,     \* the item being committed (s_publish_commit_active = 1)
    input_done, stop,
    run,        \* what the verdict will rest on
    gate,       \* s_retry_not_before_ms is still to come
    runs,
    emu,        \* where the emulation thread is
    cache,      \* the shards in the cache directory
    loaded,     \* ... and in the loader
    images,     \* history: the shards mapped, and neither committed nor closed
    unmet       \* history: the shards this run's child printed, not committed

queueVars == <<raw, ready, hand, commit, images>>
endVars == <<input_done, stop>>
childVars == <<child, pipe>>
cacheVars == <<cache, loaded>>
compileVars == <<s_state, childVars, watcher, preparer, queueVars, endVars, run, gate, runs,
                 emu, cacheVars, unmet>>

\* A line the child prints: a shard it published, how many it could not build,
\* or the part of a line that it could print before it was killed.
Published(s) == [kind |-> "PUBLISHED", of |-> {s}]
Result(failed) == [kind |-> "RESULT", of |-> failed]
Cut == [kind |-> "CUT", of |-> {}]
Line == {Published(s) : s \in Shards} \cup {Result(f) : f \in SUBSET Shards} \cup {Cut}

NoChild == [up |-> FALSE, left |-> {}, failed |-> {}, said |-> FALSE, exit |-> FALSE]
NewRun == [seen |-> FALSE, bad |-> FALSE]

ChildState == [up : BOOLEAN, left : SUBSET Shards, failed : SUBSET Shards,
               said : BOOLEAN, exit : BOOLEAN]
RunState == [seen : BOOLEAN, bad : BOOLEAN]

CompileTypeOK ==
    /\ s_state \in {"idle", "running", "done"}
    /\ child \in ChildState
    /\ pipe \in Seq(Line)
    /\ watcher \in {"none", "reading", "ended"}
    /\ preparer \in {"none", "top", "waiting", "mapping", "mapped", "decide", "store", "ended"}
    /\ raw \in Seq(Shards)
    /\ ready \in Seq(Shards) /\ hand \in Seq(Shards) /\ commit \in Seq(Shards)
    /\ input_done \in BOOLEAN /\ stop \in BOOLEAN /\ gate \in BOOLEAN
    /\ run \in RunState
    /\ runs \in Nat
    /\ emu \in {"frame", "commit", "join", "shut", "down"}
    /\ cache \subseteq Shards /\ loaded \subseteq Shards /\ images \subseteq Shards
    /\ unmet \subseteq Shards

CompileInit ==
    /\ s_state = "idle" /\ child = NoChild /\ pipe = << >>
    /\ watcher = "none" /\ preparer = "none"
    /\ raw = << >> /\ ready = << >> /\ hand = << >> /\ commit = << >>
    /\ input_done = FALSE /\ stop = FALSE /\ gate = FALSE
    /\ run = NewRun /\ runs = 0 /\ emu = "frame"
    /\ cache = {} /\ loaded = {} /\ images = {} /\ unmet = {}

Woken == IF preparer = "waiting" THEN "top" ELSE preparer

---------------------------------------------------------------------------
(* The child. *)

\* A shard that was built is in the cache before its line is printed; a command
\* may print none and leave its shards to the scan at the end of the run.
ChildCompiles(s) ==
    /\ child.up /\ s \in child.left
    /\ \/ /\ cache' = cache \cup {s}
          /\ child' = [child EXCEPT !.left = @ \ {s}]
          /\ \/ pipe' = Append(pipe, Published(s)) /\ unmet' = unmet \cup {s}
             \/ UNCHANGED <<pipe, unmet>>
       \/ /\ child' = [child EXCEPT !.left = @ \ {s}, !.failed = @ \cup {s}]
          /\ UNCHANGED <<cache, pipe, unmet>>
    /\ UNCHANGED <<s_state, watcher, preparer, queueVars, endVars, run, gate, runs, emu, loaded>>

ChildReports ==
    /\ child.up /\ child.left = {} /\ ~child.said
    /\ child' = [child EXCEPT !.said = TRUE]
    /\ pipe' = Append(pipe, Result(child.failed))
    /\ UNCHANGED <<s_state, watcher, preparer, queueVars, endVars, run, gate, runs, emu, cacheVars,
                   unmet>>

\* It returns after its report, or dies before it with part of a line printed.
ChildExits ==
    /\ child.up
    /\ \/ child.said /\ child' = [child EXCEPT !.up = FALSE, !.exit = child.failed # {}]
          /\ UNCHANGED <<pipe, unmet>>
       \/ /\ ~child.said
          /\ child' = [child EXCEPT !.up = FALSE, !.exit = TRUE]
          /\ \/ UNCHANGED <<pipe, unmet>>
             \/ \E s \in child.left : pipe' = Append(pipe, Cut) /\ unmet' = unmet \cup {s}
    /\ UNCHANGED <<s_state, watcher, preparer, queueVars, endVars, run, gate, runs, emu, cacheVars>>

---------------------------------------------------------------------------
(* watch_thread: every full line, as it comes, and the end of the output. *)

WatcherReads ==
    /\ watcher = "reading"
    /\ pipe # << >> /\ Head(pipe).kind # "CUT"
    /\ pipe' = Tail(pipe)
    /\ \/ /\ Head(pipe).kind = "PUBLISHED"
          /\ \E s \in Head(pipe).of : raw' = Append(raw, s)
          /\ preparer' = Woken
          /\ UNCHANGED run
       \/ /\ Head(pipe).kind = "PUBLISHED"      \* no memory, or the path is too long
          /\ run' = [run EXCEPT !.bad = TRUE]
          /\ UNCHANGED <<raw, preparer>>
       \/ /\ Head(pipe).kind = "RESULT"
          /\ run' = [seen |-> TRUE, bad |-> run.bad \/ Head(pipe).of # {}]
          /\ UNCHANGED <<raw, preparer>>
    /\ UNCHANGED <<s_state, child, watcher, ready, hand, commit, images, endVars, gate, runs, emu,
                   cacheVars, unmet>>

WatcherEnds ==
    /\ watcher = "reading" /\ ~child.up
    /\ pipe = << >> \/ pipe = <<Cut>>
    /\ pipe' = << >>
    /\ run' = [run EXCEPT !.bad = @ \/ pipe # << >> \/ child.exit]
    /\ input_done' = TRUE
    /\ preparer' = Woken
    /\ watcher' = "ended"
    /\ UNCHANGED <<s_state, child, queueVars, stop, gate, runs, emu, cacheVars, unmet>>

---------------------------------------------------------------------------
(* publish_prepare_thread_main. *)

\* Mutant: it does not wait for the commit under way.
PrepareTakes_DuringCommit ==
    /\ preparer = "top"
    /\ \/ /\ stop \/ (raw = << >> /\ input_done)
          /\ preparer' = "decide"
          /\ UNCHANGED <<raw, hand>>
       \/ /\ ~stop
          /\ IF raw = << >> THEN ~input_done ELSE ready # << >>
          /\ preparer' = "waiting"
          /\ UNCHANGED <<raw, hand>>
       \/ /\ ~stop /\ raw # << >> /\ ready = << >>
          /\ hand' = <<Head(raw)>> /\ raw' = Tail(raw)
          /\ preparer' = "mapping"
    /\ UNCHANGED <<s_state, childVars, watcher, ready, commit, images, endVars, run, gate, runs,
                   emu, cacheVars, unmet>>

PrepareTakes ==
    /\ preparer = "top"
    /\ \/ /\ stop \/ (raw = << >> /\ input_done)
          /\ preparer' = "decide"
          /\ UNCHANGED <<raw, hand>>
       \/ /\ ~stop
          /\ IF raw = << >> THEN ~input_done ELSE ready # << >> \/ commit # << >>
          /\ preparer' = "waiting"
          /\ UNCHANGED <<raw, hand>>
       \/ /\ ~stop /\ raw # << >> /\ ready = << >> /\ commit = << >>
          /\ hand' = <<Head(raw)>> /\ raw' = Tail(raw)
          /\ preparer' = "mapping"
    /\ UNCHANGED <<s_state, childVars, watcher, ready, commit, images, endVars, run, gate, runs,
                   emu, cacheVars, unmet>>

\* overlay_loader_prepare_published, until it maps the shard or is given up.
PrepareMaps ==
    /\ preparer = "mapping"
    /\ \/ /\ images' = images \cup {hand[1]}
          /\ preparer' = "mapped"
          /\ UNCHANGED <<hand, run>>
       \/ /\ hand' = << >> /\ run' = [run EXCEPT !.bad = TRUE]
          /\ preparer' = "top"
          /\ UNCHANGED images
    /\ UNCHANGED <<s_state, childVars, watcher, raw, ready, commit, endVars, gate, runs, emu,
                   cacheVars, unmet>>

PrepareHands ==
    /\ preparer = "mapped"
    /\ hand' = << >>
    /\ \/ /\ stop
          /\ images' = images \ {hand[1]}
          /\ preparer' = "decide"
          /\ UNCHANGED ready
       \/ /\ ~stop /\ ready = << >>             \* AC_PUBLISH_READY_LIMIT = 1
          /\ ready' = hand
          /\ preparer' = "top"
          /\ UNCHANGED images
    /\ UNCHANGED <<s_state, childVars, watcher, raw, commit, endVars, run, gate, runs, emu,
                   cacheVars, unmet>>

\* "if (!s_publish_stop) ac_state_store(AC_DONE)": no lock is held.
PrepareDecides ==
    /\ preparer = "decide"
    /\ preparer' = IF stop THEN "ended" ELSE "store"
    /\ UNCHANGED <<s_state, childVars, watcher, queueVars, endVars, run, gate, runs, emu,
                   cacheVars, unmet>>

PrepareStores ==
    /\ preparer = "store"
    /\ s_state' = "done" /\ preparer' = "ended"
    /\ UNCHANGED <<childVars, watcher, queueVars, endVars, run, gate, runs, emu, cacheVars, unmet>>

---------------------------------------------------------------------------
(* autocompile_request. *)

\* publish_discard_all: refused while an item is being mapped or committed.
DiscardAll ==
    IF hand # << >> \/ commit # << >> THEN UNCHANGED <<raw, ready, images>>
    ELSE /\ raw' = << >> /\ ready' = << >>
         /\ images' = images \ {ready[i] : i \in DOMAIN ready}

RequestOpen == s_state = "idle" /\ ~gate /\ hand = << >> /\ commit = << >>

RequestResets ==
    /\ RequestOpen
    /\ DiscardAll
    /\ run' = NewRun
    /\ input_done' = FALSE

RequestStarts(work) ==
    /\ RequestResets
    /\ runs < MaxRuns /\ runs' = runs + 1
    /\ stop' = FALSE
    /\ s_state' = "running"
    /\ child' = [NoChild EXCEPT !.up = TRUE, !.left = work]
    /\ preparer' = "top" /\ watcher' = "reading"
    /\ unmet' = {}
    /\ UNCHANGED <<pipe, hand, commit, gate, emu, cacheVars>>

\* No pipe, which is not noted as a failure; or no child, no preparer or no
\* watcher, after which whatever was started is stopped and joined again, the
\* preparer by a flag that stays set until the next request.
RequestFails ==
    /\ RequestResets
    /\ gate' \in BOOLEAN /\ stop' \in {FALSE, gate'}
    /\ unmet' = {}
    /\ UNCHANGED <<s_state, childVars, watcher, preparer, hand, commit, runs, emu, cacheVars>>

\* The wall clock reaches s_retry_not_before_ms.
GateOpens ==
    /\ gate /\ gate' = FALSE
    /\ UNCHANGED <<s_state, childVars, watcher, preparer, queueVars, endVars, run, runs, emu,
                   cacheVars, unmet>>

---------------------------------------------------------------------------
(* autocompile_poll_main, once a frame: a poll that finds nothing is no step. *)

PollPops ==
    /\ emu = "frame" /\ ready # << >>
    /\ commit' = <<Head(ready)>> /\ ready' = Tail(ready)
    /\ emu' = "commit"
    /\ UNCHANGED <<s_state, childVars, watcher, preparer, raw, hand, images, endVars, run, gate,
                   runs, cacheVars, unmet>>

\* Mutant: a shard the loader refused is not noted.
PollCommits_IgnoresRefusal ==
    /\ emu = "commit"
    /\ commit' = << >> /\ images' = images \ {commit[1]}
    /\ \/ /\ commit[1] \notin loaded
          /\ loaded' = loaded \cup {commit[1]} /\ unmet' = unmet \ {commit[1]}
          /\ UNCHANGED run
       \/ UNCHANGED <<run, loaded, unmet>>
    /\ preparer' = Woken
    /\ emu' = "frame"
    /\ UNCHANGED <<s_state, childVars, watcher, raw, ready, hand, endVars, gate, runs, cache>>

\* Mutant: the end of a commit wakes nobody.
PollCommits_NoWake ==
    /\ emu = "commit"
    /\ commit' = << >> /\ images' = images \ {commit[1]}
    /\ \/ /\ commit[1] \notin loaded
          /\ loaded' = loaded \cup {commit[1]} /\ unmet' = unmet \ {commit[1]}
          /\ UNCHANGED run
       \/ run' = [run EXCEPT !.bad = TRUE] /\ UNCHANGED <<loaded, unmet>>
    /\ emu' = "frame"
    /\ UNCHANGED <<s_state, childVars, watcher, preparer, raw, ready, hand, endVars, gate, runs, cache>>

\* overlay_loader_commit_published, which consumes the image whether it takes
\* the shard or not, and then publish_commit_finished.
PollCommits ==
    /\ emu = "commit"
    /\ commit' = << >> /\ images' = images \ {commit[1]}
    /\ \/ /\ commit[1] \notin loaded
          /\ loaded' = loaded \cup {commit[1]} /\ unmet' = unmet \ {commit[1]}
          /\ UNCHANGED run
       \/ run' = [run EXCEPT !.bad = TRUE] /\ UNCHANGED <<loaded, unmet>>
    /\ preparer' = Woken
    /\ emu' = "frame"
    /\ UNCHANGED <<s_state, childVars, watcher, raw, ready, hand, endVars, gate, runs, cache>>

PublishPending == raw # << >> \/ ready # << >> \/ hand # << >> \/ commit # << >>

\* Mutant: the run is over as soon as the preparer says so.
PollChecks_Unasked ==
    /\ emu = "frame" /\ s_state = "done"
    /\ emu' = "join"
    /\ UNCHANGED <<s_state, childVars, watcher, preparer, queueVars, endVars, run, gate, runs,
                   cacheVars, unmet>>

PollChecks ==
    /\ emu = "frame" /\ s_state = "done" /\ ~PublishPending
    /\ emu' = "join"
    /\ UNCHANGED <<s_state, childVars, watcher, preparer, queueVars, endVars, run, gate, runs,
                   cacheVars, unmet>>

\* Both workers are joined; the loader scans the cache directory, unless a
\* resimulation has frozen it; and the verdict sets the retry gate.  What the
\* next request resets, and nobody reads before, is reset here already.
PollJoins ==
    /\ emu = "join"
    /\ preparer = "ended" /\ watcher = "ended"
    /\ preparer' = "none" /\ watcher' = "none"
    /\ s_state' = "idle"
    /\ loaded' \in {loaded, loaded \cup cache}
    /\ gate' = (run.bad \/ ~run.seen)
    /\ child' = NoChild /\ run' = NewRun /\ input_done' = FALSE /\ unmet' = {}
    /\ emu' = "frame"
    /\ UNCHANGED <<pipe, queueVars, stop, runs, cache>>

---------------------------------------------------------------------------
(* autocompile_shutdown. *)

\* With the job object the whole tree is killed; without it only cmd.exe is,
\* and what it started runs on.
ShutdownStops ==
    /\ emu = "frame" /\ emu' = "shut"
    /\ stop' = TRUE
    /\ preparer' = Woken
    /\ \/ /\ child.up
          /\ child' = [child EXCEPT !.up = FALSE, !.exit = TRUE]
          /\ pipe' \in {pipe, Append(pipe, Cut)}
       \/ UNCHANGED childVars
    /\ UNCHANGED <<s_state, watcher, queueVars, input_done, run, gate, runs, cacheVars, unmet>>

ShutdownJoins ==
    /\ emu = "shut" /\ emu' = "down"
    /\ preparer \in {"none", "ended"} /\ watcher \in {"none", "ended"}
    /\ preparer' = "none" /\ watcher' = "none"
    /\ DiscardAll
    /\ s_state' = "idle"
    /\ child' = NoChild /\ run' = NewRun /\ input_done' = FALSE /\ unmet' = {}
    /\ UNCHANGED <<pipe, hand, commit, stop, gate, runs, cacheVars>>

---------------------------------------------------------------------------

Worker ==
    \/ \E s \in Shards : ChildCompiles(s)
    \/ ChildReports \/ ChildExits
    \/ WatcherReads \/ WatcherEnds
    \/ PrepareTakes \/ PrepareMaps \/ PrepareHands \/ PrepareDecides \/ PrepareStores

Poll == PollPops \/ PollCommits \/ PollChecks \/ PollJoins

CompileNext ==
    \/ Worker \/ Poll
    \/ emu = "frame" /\ \E work \in SUBSET Shards : RequestStarts(work)
    \/ emu = "frame" /\ RequestFails
    \/ GateOpens
    \/ ShutdownStops \/ ShutdownJoins

CompileSpec == CompileInit /\ [][CompileNext]_compileVars

\* The threads run, a child ends, frames go on, and so does a shutdown once
\* begun: a run has finitely many steps, and one WF is enough for all of them.
CompileFairness == WF_compileVars(Worker \/ Poll \/ ShutdownJoins)

---------------------------------------------------------------------------

\* "There is exactly one mapped handoff at a time. The worker also waits for
\* the preceding main-thread commit to finish before entering the process-wide
\* Windows loader lock again": while the preparer maps a shard, none is mapped
\* and waiting, and none is being committed.
OneHandoff ==
    preparer \in {"mapping", "mapped"} => Len(hand) = 1 /\ ready = << >> /\ commit = << >>

\* "A new run cannot inherit a live consumer of the shared FIFO": in IDLE no
\* thread of a run is left, no queue holds anything, and no image is mapped
\* that nobody will commit or close.
IdleIsQuiet ==
    s_state = "idle" =>
        /\ preparer = "none" /\ watcher = "none"
        /\ ~PublishPending /\ pipe = << >> /\ ~child.up /\ images = {}

\* A run is a success, which reopens the retry gate, only if every shard its
\* child printed a line for, even part of one, was committed by the game.
HonestSuccess ==
    [][emu = "join" /\ s_state' = "idle" /\ ~gate' => unmet = {}]_compileVars

\* Every run ends: no wakeup between the three threads is lost.
RunEnds == (s_state # "idle") ~> (s_state = "idle")
===========================================================================
