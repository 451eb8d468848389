---------------------------- MODULE OverlayCapture ----------------------------
(***************************************************************************)
(* How the code a game loads over itself comes to be compiled: the pages   *)
(* the interpreter executed are snapshot with their bytes, every so often  *)
(* and before a CD transfer overwrites them, written to disk by two        *)
(* threads, and offered to the compiler of Autocompile (overlay_capture.c, *)
(* with the frame and shutdown order of main.cpp).                         *)
(*                                                                         *)
(* A shard is a page of RAM with what is in it, a variant; evidence is a   *)
(* set of shards.  Frame counts (cadence, cooldown, backoff) are left out: *)
(* what waits for one may happen at any frame.  The emulation thread does  *)
(* in a frame, in any order, what is one action here; a file commit holds  *)
(* s_commit_mutex and is one step.                                         *)
(***************************************************************************)
EXTENDS Autocompile, FiniteSets, Functions

CONSTANTS
    Pages,      \* adjacent pages of RAM, by number
    Variants,   \* what can be in a page
    Boot,       \* Boot[p]: what is in p first
    MaxTries,   \* a preserved snapshot's write attempts once it must stop: 5
    MaxWrites   \* bound: changes of RAM

ASSUME CaptureAssumption ==
    /\ Pages \subseteq Nat /\ IsFiniteSet(Pages) /\ IsFiniteSet(Variants)
    /\ Boot \in [Pages -> Variants]
    /\ Shards = Pages \X Variants
    /\ {MaxTries, MaxWrites} \subseteq Nat /\ MaxTries > 0

VARIABLES
    ram,        \* ram[p]: what is in page p
    exec,       \* g_dirty_ram_exec_page_bitmap: the pages executed as they are
    job,        \* s_autocap_write_job
    write_state,\* s_autocap_write_state: 0 idle, 1 writing, 2 complete
    fifo,       \* the preserved snapshots queued, s_preserve_head to _tail
    preserver, preserve_stop,
    archive,    \* the evidence in the files of capture_path.d
    provider,   \* the evidence still to ask for, and the last that was
    collected,  \* history: the evidence whose file the tick took for written
    offered,    \* history: what a run of the compiler was started on
    writes,
    closing,    \* how far shutdown_runtime is, once the compiler is down
    executed,   \* history: every variant that was executed
    owed,       \* history: those whose evidence the code undertakes to keep,
    reported,   \* ... gave up with an error message,
    dropped,    \* ... or without one
    rebound     \* history: variants that a restore put under a page's evidence

snapVars == <<job, write_state, fifo, preserver, preserve_stop>>
askVars == <<provider, collected, offered>>
historyVars == <<executed, owed, reported, dropped, rebound>>
captureVars == <<ram, exec, snapVars, archive, askVars, writes, closing, historyVars>>
vars == <<compileVars, captureVars>>

Snapshot == [evidence : SUBSET Shards, ok : BOOLEAN, tries : 0 .. MaxTries]

TypeOK ==
    /\ CompileTypeOK
    /\ ram \in [Pages -> Variants]
    /\ exec \subseteq Pages
    /\ job \in Seq(Snapshot) /\ fifo \in Seq(Snapshot)
    /\ write_state \in 0 .. 2 /\ (write_state # 0 => Len(job) = 1)
    /\ preserver \in {"none", "running", "ended"} /\ preserve_stop \in BOOLEAN
    /\ writes \in 0 .. MaxWrites
    /\ closing \in {"autocapture", "drain", "preserver", "final", "over"}
    /\ provider \in [pending : SUBSET Shards, sig : SUBSET Shards, reg : -1 .. Cardinality(Shards)]
    /\ archive \subseteq Shards /\ collected \subseteq Shards /\ offered \subseteq Shards
    /\ executed \subseteq Shards /\ owed \subseteq executed
    /\ reported \subseteq Shards /\ dropped \subseteq Shards /\ rebound \subseteq Shards

Init ==
    /\ CompileInit
    /\ ram = Boot /\ exec = {}
    /\ job = << >> /\ write_state = 0 /\ fifo = << >>
    /\ preserver = "none" /\ preserve_stop = FALSE
    /\ archive = {}
    /\ provider = [pending |-> {}, sig |-> {}, reg |-> -1]
    /\ collected = {} /\ offered = {}
    /\ writes = 0 /\ closing = "autocapture"
    /\ executed = {} /\ owed = {} /\ reported = {} /\ dropped = {} /\ rebound = {}

Live(pages) == {<<p, ram[p]>> : p \in exec \cap pages}
Halo(p) == {p - 1, p, p + 1}

TakeSnapshot(evidence) == [evidence |-> evidence, ok |-> FALSE, tries |-> 0]

\* capture_commit_temp: a contribution file of its own, or none.
Commits(evidence, ok) == archive' = archive \cup (IF ok THEN evidence ELSE {})

---------------------------------------------------------------------------
(* The guest. *)

Execute(p) ==
    /\ emu = "frame" /\ p \notin exec
    /\ exec' = exec \cup {p}
    /\ executed' = executed \cup {<<p, ram[p]>>} /\ owed' = owed \cup {<<p, ram[p]>>}
    /\ UNCHANGED <<compileVars, ram, snapVars, archive, askVars, writes, closing, reported, dropped,
                   rebound>>

Writes == emu = "frame" /\ writes < MaxWrites /\ writes' = writes + 1

\* A CD transfer: what was executed in the page, and next to it, is preserved
\* by a thread, or else at once; then the page's evidence is cleared.
Transfer(p, v) ==
    /\ Writes
    /\ ram' = [ram EXCEPT ![p] = v]
    /\ exec' = exec \ {p}
    /\ \/ p \notin exec /\ UNCHANGED <<snapVars, archive, reported>>
       \/ /\ p \in exec
          /\ \/ /\ fifo' = Append(fifo, TakeSnapshot(Live(Halo(p)))) /\ preserver' = "running"
                /\ UNCHANGED <<archive, preserve_stop, reported>>
             \/ /\ \E ok \in BOOLEAN :
                     /\ Commits(Live(Halo(p)), ok)
                     /\ reported' = reported \cup (IF ok THEN {} ELSE {<<p, ram[p]>>})
                /\ UNCHANGED <<fifo, preserver, preserve_stop>>
          /\ UNCHANGED <<job, write_state>>
    /\ UNCHANGED <<compileVars, askVars, closing, executed, owed, dropped, rebound>>

\* Mutant: a store leaves the evidence of its page.
Store_KeepsEvidence(p, v) ==
    /\ Writes
    /\ ram' = [ram EXCEPT ![p] = v]
    /\ owed' = owed \ Live({p})
    /\ UNCHANGED <<compileVars, exec, snapVars, archive, askVars, closing, executed, reported, dropped,
                   rebound>>

\* A store of the CPU: "a compact page clear, not a capture".
Store(p, v) ==
    /\ Writes
    /\ ram' = [ram EXCEPT ![p] = v]
    /\ exec' = exec \ {p} /\ owed' = owed \ Live({p})
    /\ UNCHANGED <<compileVars, snapVars, archive, askVars, closing, executed, reported, dropped,
                   rebound>>

\* A state is loaded: all of RAM is copied over, and the evidence stays.
Restore(image) ==
    /\ Writes
    /\ ram' = image
    /\ owed' = owed \ Live({p \in Pages : image[p] # ram[p]})
    /\ rebound' = rebound \cup {<<p, image[p]>> : p \in {q \in exec : image[q] # ram[q]}}
    /\ UNCHANGED <<compileVars, exec, snapVars, archive, askVars, closing, executed, reported,
                   dropped>>

Guest ==
    \/ \E p \in Pages : Execute(p)
    \/ \E p \in Pages, v \in Variants : Transfer(p, v) \/ Store(p, v)
    \/ \E image \in [Pages -> Variants] : Restore(image)

---------------------------------------------------------------------------
(* overlay_autocapture_tick, once a frame. *)

\* The shards a child would find to do: what is archived and not yet cached.
Work == archive \ cache

\* The signature and the number of candidates are those of the last request.
Futile(evidence) == evidence = provider.sig /\ Cardinality(loaded) = provider.reg
Asked(evidence) == [pending |-> {}, sig |-> evidence, reg |-> Cardinality(loaded)]

\* Mutant: the signature is that of the last attempt.
ProviderTries_MarksFirst(evidence) ==
    \/ /\ s_state # "idle"
       /\ provider' = [provider EXCEPT !.pending = evidence]
       /\ UNCHANGED <<compileVars, offered>>
    \/ /\ s_state = "idle" /\ Futile(evidence)
       /\ provider' = [provider EXCEPT !.pending = {}]
       /\ UNCHANGED <<compileVars, offered>>
    \/ /\ s_state = "idle" /\ ~Futile(evidence)
       /\ \/ /\ RequestStarts(Work) /\ offered' = offered \cup Work
             /\ provider' = Asked(evidence)
          \/ /\ RequestFails \/ (gate /\ UNCHANGED compileVars)
             /\ provider' = [Asked(evidence) EXCEPT !.pending = evidence]
             /\ UNCHANGED offered

\* autocap_provider_request_try, of evidence that is archived.
ProviderTries(evidence) ==
    \/ /\ s_state # "idle"
       /\ provider' = [provider EXCEPT !.pending = evidence]
       /\ UNCHANGED <<compileVars, offered>>
    \/ /\ s_state = "idle" /\ Futile(evidence)
       /\ provider' = [provider EXCEPT !.pending = {}]
       /\ UNCHANGED <<compileVars, offered>>
    \/ /\ s_state = "idle" /\ ~Futile(evidence)
       /\ \/ /\ RequestStarts(Work) /\ offered' = offered \cup Work
             /\ provider' = Asked(evidence)
          \/ /\ RequestFails \/ (gate /\ UNCHANGED compileVars)
             /\ provider' = [provider EXCEPT !.pending = evidence]
             /\ UNCHANGED offered

\* A file was written: the job is freed, and its evidence is for the compiler.
Collects(evidence) ==
    /\ job' = << >>
    /\ collected' = collected \cup evidence
    /\ ProviderTries(evidence)

\* Mutant: a job whose write failed is freed.
TickCollects_Frees ==
    /\ emu = "frame" /\ write_state = 2
    /\ write_state' = 0
    /\ IF job[1].ok THEN Collects(job[1].evidence)
       ELSE job' = << >> /\ UNCHANGED <<askVars, compileVars>>
    /\ UNCHANGED <<ram, exec, fifo, preserver, preserve_stop, archive, writes, closing, historyVars>>

TickCollects ==
    /\ emu = "frame" /\ write_state = 2
    /\ write_state' = 0
    /\ IF job[1].ok THEN Collects(job[1].evidence) ELSE UNCHANGED <<job, askVars, compileVars>>
    /\ UNCHANGED <<ram, exec, fifo, preserver, preserve_stop, archive, writes, closing, historyVars>>

\* Mutant: a write is started with no job to write.
TickRetries_NoJob ==
    /\ emu = "frame" /\ write_state = 0
    /\ write_state' = 1
    /\ UNCHANGED <<compileVars, ram, exec, job, fifo, preserver, preserve_stop, archive, askVars,
                   writes, closing, historyVars>>

TickRetries ==
    /\ emu = "frame" /\ write_state = 0 /\ job # << >>
    /\ write_state' = 1
    /\ UNCHANGED <<compileVars, ram, exec, job, fifo, preserver, preserve_stop, archive, askVars,
                   writes, closing, historyVars>>

TickAsks ==
    /\ emu = "frame" /\ write_state = 0 /\ job = << >>
    /\ provider.pending # {} /\ ProviderTries(provider.pending)
    /\ UNCHANGED <<ram, exec, snapVars, archive, collected, writes, closing, historyVars>>

\* A fire: from here the job owns the evidence of this epoch, and the next one
\* starts empty.  There is interpreter pressure, so something was executed.
TickFires ==
    /\ emu = "frame" /\ write_state = 0 /\ job = << >> /\ provider.pending = {}
    /\ s_state = "idle"
    /\ exec # {}
    /\ job' = <<TakeSnapshot(Live(Pages))>>
    /\ write_state' = 1
    /\ exec' = {}
    /\ UNCHANGED <<compileVars, ram, fifo, preserver, preserve_stop, archive, askVars,
                   writes, closing, historyVars>>

---------------------------------------------------------------------------
(* The two writer threads. *)

\* autocap_write_thread_main
JobIsWritten ==
    /\ write_state = 1 /\ write_state' = 2
    /\ \E ok \in BOOLEAN : Commits(job[1].evidence, ok) /\ job' = <<[job[1] EXCEPT !.ok = ok]>>
    /\ UNCHANGED <<compileVars, ram, exec, fifo, preserver, preserve_stop, askVars,
                   writes, closing, historyVars>>

\* preserve_write_thread_main: it writes the first, and a failed write goes to
\* the end of the queue, unless the runtime is stopping and it was tried too often.
PreserverWrites ==
    /\ preserver = "running" /\ fifo # << >>
    /\ \E ok \in BOOLEAN :
          LET snap == Head(fifo)
              tries == IF snap.tries < MaxTries THEN snap.tries + 1 ELSE MaxTries
              abandoning == ~ok /\ preserve_stop /\ tries = MaxTries IN
          /\ Commits(snap.evidence, ok)
          /\ fifo' = IF ok \/ abandoning THEN Tail(fifo)
                     ELSE Append(Tail(fifo), [snap EXCEPT !.tries = tries])
          /\ reported' = IF abandoning THEN reported \cup snap.evidence ELSE reported
    /\ UNCHANGED <<compileVars, ram, exec, job, write_state, preserver, preserve_stop, askVars,
                   writes, closing, executed, owed, dropped, rebound>>

PreserverEnds ==
    /\ preserver = "running" /\ fifo = << >> /\ preserve_stop
    /\ preserver' = "ended"
    /\ UNCHANGED <<compileVars, ram, exec, job, write_state, fifo, preserve_stop, archive, askVars,
                   writes, closing, historyVars>>

---------------------------------------------------------------------------
(* shutdown_runtime, after autocompile_shutdown. *)

Closes(from, to) ==
    /\ emu = "down" /\ closing = from /\ closing' = to
    /\ UNCHANGED compileVars

\* overlay_autocapture_shutdown: it joins a writer that is at work, and frees
\* the job of one that was.
AutocaptureShutdown ==
    /\ Closes("autocapture", "drain")
    /\ \/ write_state = 0 /\ UNCHANGED <<job, write_state, dropped>>
       \/ /\ write_state = 2 /\ write_state' = 0
          /\ job' = << >>
          /\ dropped' = dropped \cup (IF job[1].ok THEN {} ELSE job[1].evidence)
    /\ UNCHANGED <<ram, exec, fifo, preserver, preserve_stop, archive, askVars,
                   writes, executed, owed, reported, rebound>>

\* Mutant: the preserver is stopped only if it was given the job.
WaitPending_NoStop ==
    /\ Closes("drain", "preserver")
    /\ job' = << >>
    /\ \/ job = << >> /\ UNCHANGED <<fifo, preserver, reported>>
       \/ job # << >> /\ fifo' = Append(fifo, [job[1] EXCEPT !.tries = 0])
          /\ preserver' = "running" /\ UNCHANGED reported
       \/ job # << >> /\ reported' = reported \cup job[1].evidence /\ UNCHANGED <<fifo, preserver>>
    /\ preserve_stop' = (job # << >>)
    /\ UNCHANGED <<ram, exec, write_state, archive, askVars, writes, executed,
                   owed, dropped, rebound>>

\* overlay_capture_wait_pending: a job that is waiting to be tried again goes
\* to the preserver, which is told to stop and, next, waited for.
WaitPending ==
    /\ Closes("drain", "preserver")
    /\ job' = << >>
    /\ \/ job = << >> /\ UNCHANGED <<fifo, preserver, reported>>
       \/ job # << >> /\ fifo' = Append(fifo, [job[1] EXCEPT !.tries = 0])
          /\ preserver' = "running" /\ UNCHANGED reported
       \/ job # << >> /\ reported' = reported \cup job[1].evidence /\ UNCHANGED <<fifo, preserver>>
    /\ preserve_stop' = (preserver' # "none")
    /\ UNCHANGED <<ram, exec, write_state, archive, askVars, writes, executed,
                   owed, dropped, rebound>>

PreserverJoined ==
    /\ Closes("preserver", "final")
    /\ preserver # "running" /\ preserver' = "none"
    /\ UNCHANGED <<ram, exec, job, write_state, fifo, preserve_stop, archive,
                   askVars, writes, historyVars>>

\* overlay_capture_write_json, whose result nobody looks at.
WriteJson ==
    /\ Closes("final", "over")
    /\ \E ok \in BOOLEAN :
          /\ Commits(Live(Pages), ok)
          /\ dropped' = dropped \cup (IF ok THEN {} ELSE Live(Pages))
    /\ UNCHANGED <<ram, exec, job, write_state, fifo, preserver, preserve_stop, askVars,
                   writes, executed, owed, reported, rebound>>
---------------------------------------------------------------------------

Tick == TickCollects \/ TickRetries \/ TickAsks \/ TickFires
Writer == JobIsWritten \/ PreserverWrites \/ PreserverEnds
Closing == AutocaptureShutdown \/ WaitPending \/ PreserverJoined \/ WriteJson

Compiling == (Worker \/ Poll \/ GateOpens \/ ShutdownStops \/ ShutdownJoins) /\ UNCHANGED captureVars

Next == Guest \/ Tick \/ Writer \/ Closing \/ Compiling

Spec == Init /\ [][Next]_vars

\* Threads run and frames go on, in the game and in the shutdown.
Fairness ==
    /\ WF_vars((Worker \/ Poll \/ ShutdownJoins) /\ UNCHANGED captureVars)
    /\ WF_vars(JobIsWritten \/ Closing)
    /\ WF_vars(PreserverWrites \/ PreserverEnds)

FairSpec == Spec /\ Fairness

---------------------------------------------------------------------------

Held == UNION {snap.evidence : snap \in Range(job) \cup Range(fifo)}

\* Evidence of code that ran is never lost without a word, however the writes
\* of two threads and of the emulation thread fail and are retried, but in the
\* two places of the shutdown that look at no result: it is live in RAM or in a
\* snapshot somebody has still to write, or archived, or reported as lost; and
\* when the runtime is closed only the latter.
EvidenceRetained ==
    owed \subseteq (IF closing = "over" THEN {} ELSE Live(Pages) \cup Held)
                   \cup archive \cup reported \cup dropped

\* No evidence is bound to bytes that were not the ones executed, in what is
\* archived, compiled or loaded, but for the pages under a state load.
EvidenceIsTrue == archive \cup cache \cup loaded \subseteq executed \cup rebound

\* "Retain the former's signature until request() accepts it; otherwise a
\* transient CreateProcess/pipe/thread failure would mark identical evidence
\* futile and suppress compilation forever": evidence the tick took for written
\* was given to a run of the compiler, or was compiled already, or is still to
\* be asked for, through refused requests, busy runs and equal signatures.
EvidenceIsOffered == collected \subseteq offered \cup cache \cup provider.pending

\* The runtime closes: no thread is waited for that waits for ever.
ShutdownEnds == (emu = "shut") ~> (closing = "over")
===========================================================================
