----------------------- MODULE OverlayCapture_proofs -----------------------
(***************************************************************************)
(* What holds of the capture of executed code, and of the compiler under   *)
(* it, for every number of pages and variants, of writes of RAM, of write  *)
(* attempts and of runs.                                                   *)
(*                                                                         *)
(* The compiler is only ever asked as Autocompile allows, so what is       *)
(* proved of it there holds here.  Evidence is handed from the live pages  *)
(* to a snapshot, and from there to the archive, in steps of which each    *)
(* gives it to the next before it lets go.                                 *)
(***************************************************************************)
EXTENDS OverlayCapture, Autocompile_proofs, FiniteSetTheorems

MemoryTypes ==
    /\ ram \in [Pages -> Variants] /\ exec \subseteq Pages
    /\ writes \in 0 .. MaxWrites
    /\ executed \subseteq Shards /\ owed \subseteq executed /\ rebound \subseteq Shards

SnapTypes ==
    /\ job \in Seq(Snapshot) /\ fifo \in Seq(Snapshot)
    /\ write_state \in 0 .. 2 /\ (write_state # 0 => job # << >>) /\ (job # << >> => Len(job) = 1)
    /\ preserver \in {"none", "running", "ended"}
    /\ preserve_stop \in BOOLEAN

FileTypes ==
    /\ archive \subseteq Shards /\ reported \subseteq Shards /\ dropped \subseteq Shards
    /\ closing \in {"autocapture", "drain", "preserver", "final", "over"}

\* A job that was written is archived; the shutdown leaves no snapshot to a
\* thread that is gone.
Handover ==
    /\ write_state = 2 /\ job[1].ok => job[1].evidence \subseteq archive
    /\ preserver # "running" => fifo = << >>
    /\ closing # "autocapture" => emu = "down" /\ write_state = 0
    /\ closing \notin {"autocapture", "drain"} => job = << >>
    /\ closing \in {"final", "over"} => preserver = "none"

CaptureInv == MemoryTypes /\ SnapTypes /\ FileTypes /\ Handover

Evidence(q) == UNION {snap.evidence : snap \in Range(q)}

-----------------------------------------------------------------------------
(* Snapshots and queues of them *)

LEMMA LiveTypes == ASSUME MemoryTypes, NEW X PROVE Live(X) \subseteq Shards
BY CaptureAssumption DEF MemoryTypes, Live

LEMMA SnapshotTypes ==
    ASSUME NEW e \in SUBSET Shards
    PROVE  /\ TakeSnapshot(e) \in Snapshot /\ TakeSnapshot(e).evidence = e
           /\ <<TakeSnapshot(e)>> \in Seq(Snapshot) /\ Len(<<TakeSnapshot(e)>>) = 1
<1>1. TakeSnapshot(e) \in Snapshot
    BY CaptureAssumption DEF TakeSnapshot, Snapshot
<1> QED BY <1>1 DEF TakeSnapshot

LEMMA EvidenceAppend ==
    ASSUME NEW q \in Seq(Snapshot), NEW s \in Snapshot
    PROVE  Append(q, s) \in Seq(Snapshot) /\ Evidence(Append(q, s)) = Evidence(q) \cup s.evidence
<1>1. Len(q) \in Nat /\ DOMAIN q = 1 .. Len(q)
    BY LenProperties
<1>2. /\ Append(q, s) \in Seq(Snapshot)
      /\ DOMAIN Append(q, s) = 1 .. Len(q) + 1
      /\ Append(q, s)[Len(q) + 1] = s
      /\ \A i \in 1 .. Len(q) : Append(q, s)[i] = q[i]
    BY AppendProperties, LenProperties
<1>3. Range(Append(q, s)) = Range(q) \cup {s}
    BY <1>1, <1>2 DEF Range
<1> QED BY <1>2, <1>3 DEF Evidence

LEMMA EvidenceTail ==
    ASSUME NEW q \in Seq(Snapshot), q # << >>
    PROVE  /\ Head(q) \in Snapshot /\ Tail(q) \in Seq(Snapshot)
           /\ Evidence(q) = Head(q).evidence \cup Evidence(Tail(q))
<1>1. Len(q) \in Nat /\ DOMAIN q = 1 .. Len(q) /\ Len(q) > 0
    BY LenProperties, QueueTail
<1>2. /\ Head(q) \in Snapshot /\ Head(q) = q[1] /\ Tail(q) \in Seq(Snapshot)
      /\ Len(Tail(q)) = Len(q) - 1
    BY QueueTail
<1>3. DOMAIN Tail(q) = 1 .. Len(q) - 1
    BY <1>2, LenProperties
<1>4. \A i \in 1 .. Len(q) - 1 : Tail(q)[i] = q[i + 1]
    BY <1>2, HeadTailProperties
<1>5. Range(q) \subseteq {Head(q)} \cup Range(Tail(q))
    <2> SUFFICES ASSUME NEW i \in 1 .. Len(q), i # 1
                 PROVE  q[i] \in Range(Tail(q))
        BY <1>1, <1>2 DEF Range
    <2>1. i - 1 \in 1 .. Len(q) - 1 /\ Tail(q)[i - 1] = q[i]
        BY <1>1, <1>4
    <2> QED BY <2>1, <1>3 DEF Range
<1>6. {Head(q)} \cup Range(Tail(q)) \subseteq Range(q)
    BY <1>1, <1>2, <1>3, <1>4 DEF Range
<1> QED BY <1>2, <1>5, <1>6 DEF Evidence

LEMMA EvidenceFew ==
    /\ Evidence(<< >>) = {}
    /\ \A s : Evidence(<<s>>) = s.evidence
    /\ \A q \in Seq(Snapshot) : Len(q) = 1 => q[1] \in Snapshot /\ Evidence(q) = q[1].evidence
<1>1. Range(<< >>) = {}
    BY DEF Range
<1>2. ASSUME NEW s PROVE Range(<<s>>) = {s}
    BY DEF Range
<1>3. ASSUME NEW q \in Seq(Snapshot), Len(q) = 1 PROVE q[1] \in Snapshot /\ Range(q) = {q[1]}
    BY <1>3, LenProperties DEF Range
<1> QED BY <1>1, <1>2, <1>3 DEF Evidence

LEMMA HeldIs == Held = Evidence(job) \cup Evidence(fifo)
BY DEF Held, Evidence

LEMMA JobIs == ASSUME SnapTypes, job # << >> PROVE job[1] \in Snapshot /\ Evidence(job) = job[1].evidence
BY EvidenceFew DEF SnapTypes

\* Another attempt at a write is at the same evidence.
LEMMA TriedAgain ==
    ASSUME NEW snap \in Snapshot, NEW n \in 0 .. MaxTries
    PROVE  LET again == [snap EXCEPT !.tries = n]
           IN  again \in Snapshot /\ again.evidence = snap.evidence
BY DEF Snapshot

\* What the three steps that move a snapshot do to the evidence in them.
LEMMA JobWritten ==
    ASSUME SnapTypes, JobIsWritten
    PROVE  /\ \E ok \in BOOLEAN : Commits(Evidence(job), ok) /\ job'[1].ok = ok
           /\ job'[1].evidence = Evidence(job)
           /\ job' \in Seq(Snapshot) /\ Len(job') = 1 /\ job' # << >>
           /\ Evidence(job') = Evidence(job)
<1>1. job[1] \in Snapshot /\ Evidence(job) = job[1].evidence
    BY JobIs DEF JobIsWritten, SnapTypes
<1>2. PICK ok \in BOOLEAN : Commits(job[1].evidence, ok) /\ job' = <<[job[1] EXCEPT !.ok = ok]>>
    BY DEF JobIsWritten
<1> DEFINE it == [job[1] EXCEPT !.ok = ok]
<1>3. it \in Snapshot /\ it.evidence = job[1].evidence /\ it.ok = ok
    BY <1>1 DEF Snapshot
<1> HIDE DEF it
<1>4. job' = <<it>> /\ job'[1] = it
    BY <1>2 DEF it
<1>5. job' \in Seq(Snapshot) /\ Len(job') = 1 /\ job' # << >> /\ Evidence(job') = it.evidence
    BY <1>3, <1>4, EvidenceFew
<1> QED BY <1>1, <1>2, <1>3, <1>4, <1>5

LEMMA PreserverTurns ==
    ASSUME SnapTypes, PreserverWrites
    PROVE  /\ fifo' \in Seq(Snapshot)
           /\ Evidence(fifo) = Head(fifo).evidence \cup Evidence(Tail(fifo))
           /\ \/ Evidence(fifo') = Evidence(fifo)
              \/ fifo' = Tail(fifo) /\ Head(fifo).evidence \subseteq archive' \cup reported'
<1>1. /\ Head(fifo) \in Snapshot /\ Tail(fifo) \in Seq(Snapshot)
      /\ Evidence(fifo) = Head(fifo).evidence \cup Evidence(Tail(fifo))
    BY EvidenceTail DEF PreserverWrites, SnapTypes
<1>2. /\ Head(fifo).tries < MaxTries => Head(fifo).tries + 1 \in 0 .. MaxTries
      /\ MaxTries \in 0 .. MaxTries
    BY <1>1, CaptureAssumption DEF Snapshot
<1>3. \/ fifo' = Tail(fifo) /\ Head(fifo).evidence \subseteq archive' \cup reported'
      \/ \E n \in 0 .. MaxTries : fifo' = Append(Tail(fifo), [Head(fifo) EXCEPT !.tries = n])
    BY <1>2 DEF PreserverWrites, Commits
<1>4. ASSUME NEW n \in 0 .. MaxTries, fifo' = Append(Tail(fifo), [Head(fifo) EXCEPT !.tries = n])
      PROVE  fifo' \in Seq(Snapshot) /\ Evidence(fifo') = Evidence(fifo)
    BY <1>1, <1>4, TriedAgain, EvidenceAppend
<1> QED BY <1>1, <1>3, <1>4

LEMMA JobHandedOver ==
    ASSUME SnapTypes, WaitPending
    PROVE  /\ fifo' \in Seq(Snapshot) /\ job' = << >> /\ Evidence(job') = {}
           /\ Evidence(job) \cup Evidence(fifo) \subseteq Evidence(fifo') \cup reported'
           /\ Evidence(fifo') \subseteq Evidence(fifo) \cup Evidence(job)
<1>1. job' = << >> /\ Evidence(job') = {}
    BY EvidenceFew DEF WaitPending
<1>2. CASE job # << >> /\ fifo' = Append(fifo, [job[1] EXCEPT !.tries = 0])
    <2>1. 0 \in 0 .. MaxTries
        BY CaptureAssumption
    <2> DEFINE again == [job[1] EXCEPT !.tries = 0]
    <2>2. again \in Snapshot /\ again.evidence = Evidence(job)
        BY <1>2, <2>1, JobIs, TriedAgain
    <2> HIDE DEF again
    <2>3. fifo' \in Seq(Snapshot) /\ Evidence(fifo') = Evidence(fifo) \cup again.evidence
        BY <1>2, <2>2, EvidenceAppend DEF SnapTypes, again
    <2> QED BY <1>1, <2>2, <2>3
<1>3. CASE job = << >> /\ fifo' = fifo
    BY <1>1, <1>3, EvidenceFew DEF SnapTypes
<1>4. CASE job # << >> /\ reported' = reported \cup job[1].evidence /\ fifo' = fifo
    BY <1>1, <1>4, JobIs DEF SnapTypes
<1> QED BY <1>2, <1>3, <1>4 DEF WaitPending

-----------------------------------------------------------------------------
(* Types, and who holds a snapshot *)

LEMMA CaptureInit == Init => CaptureInv
<1> SUFFICES ASSUME Init PROVE CaptureInv
    OBVIOUS
<1>1. MemoryTypes
    BY CaptureAssumption DEF Init, MemoryTypes
<1>2. << >> \in Seq(Snapshot)
    BY EmptySeq
<1>3. SnapTypes
    <2>1. job = << >> /\ fifo = << >> /\ write_state = 0 /\ preserver = "none" /\ preserve_stop = FALSE
        BY DEF Init
    <2>2. preserve_stop \in BOOLEAN
        BY <2>1
    <2>3. job \in Seq(Snapshot) /\ fifo \in Seq(Snapshot)
        BY <1>2, <2>1
    <2> QED BY <2>1, <2>2, <2>3 DEF SnapTypes
<1>4. FileTypes /\ Handover
    BY DEF Init, FileTypes, Handover
<1> QED BY <1>1, <1>3, <1>4 DEF CaptureInv

\* Once the compiler is down the emulation thread stays there.
LEMMA DownStays == Compiling /\ emu = "down" => emu' = "down"
BY DEF Compiling, Worker, Poll, ChildCompiles, ChildReports, ChildExits, WatcherReads, WatcherEnds,
       PrepareTakes, PrepareMaps, PrepareHands, PrepareDecides, PrepareStores, PollPops,
       PollCommits, PollChecks, PollJoins, GateOpens, ShutdownStops, ShutdownJoins

LEMMA AskKeepsEmu ==
    ASSUME NEW e, emu = "frame", ProviderTries(e)
    PROVE  emu' = "frame"
BY DEF ProviderTries, Asked, RequestStarts, RequestFails, compileVars

LEMMA MemoryStep == ASSUME MemoryTypes, [Next]_vars PROVE MemoryTypes'
<1> USE CaptureAssumption DEF MemoryTypes
<1>1. CASE UNCHANGED <<ram, exec, writes, executed, owed, rebound>>
    BY <1>1
<1>2. ASSUME NEW p \in Pages, Execute(p) PROVE MemoryTypes'
    BY <1>2 DEF Execute
<1>3. ASSUME Writes PROVE writes' \in 0 .. MaxWrites
    BY <1>3 DEF Writes
<1>4. ASSUME NEW p \in Pages, NEW v \in Variants, Transfer(p, v) PROVE MemoryTypes'
    BY <1>4, <1>3 DEF Transfer
<1>5. ASSUME NEW p \in Pages, NEW v \in Variants, Store(p, v) PROVE MemoryTypes'
    BY <1>5, <1>3 DEF Store
<1>6. ASSUME NEW image \in [Pages -> Variants], Restore(image) PROVE MemoryTypes'
    <2>1. /\ ram' = image /\ exec' = exec /\ executed' = executed
          /\ owed' = owed \ Live({p \in Pages : image[p] # ram[p]})
          /\ rebound' = rebound \cup {<<p, image[p]>> : p \in {q \in exec : image[q] # ram[q]}}
        BY <1>6 DEF Restore
    <2>2. {<<p, image[p]>> : p \in {q \in exec : image[q] # ram[q]}} \subseteq Pages \X Variants
        OBVIOUS
    <2>3. writes' \in 0 .. MaxWrites
        BY <1>3, <1>6 DEF Restore
    <2>4. rebound' \subseteq Shards /\ owed' \subseteq executed'
        BY <2>1, <2>2
    <2> QED BY <2>1, <2>3, <2>4
<1>7. CASE TickFires
    BY <1>7 DEF TickFires, historyVars
<1>8. CASE UNCHANGED vars \/ Compiling
    BY <1>8, <1>1 DEF vars, Compiling, captureVars, historyVars
<1>9. CASE TickCollects \/ TickRetries \/ TickAsks
    BY <1>9, <1>1 DEF TickCollects, Collects, TickRetries, TickAsks, historyVars
<1>10. CASE Writer
    BY <1>10, <1>1 DEF Writer, JobIsWritten, PreserverWrites, PreserverEnds, historyVars
<1>11. CASE Closing
    BY <1>11, <1>1 DEF Closing, AutocaptureShutdown, WaitPending, PreserverJoined, WriteJson,
        historyVars
<1> QED BY <1>2, <1>4, <1>5, <1>6, <1>7, <1>8, <1>9, <1>10, <1>11 DEF Next, Guest, Tick

LEMMA SnapStep == ASSUME MemoryTypes, SnapTypes, Handover, [Next]_vars PROVE SnapTypes'
<1> USE DEF SnapTypes
<1>0. << >> \in Seq(Snapshot)
    BY EmptySeq
<1>1. CASE UNCHANGED snapVars
    BY <1>1 DEF snapVars
<1>2. ASSUME NEW p \in Pages, NEW v \in Variants, Transfer(p, v) PROVE SnapTypes'
    <2>1. CASE fifo' = Append(fifo, TakeSnapshot(Live(Halo(p)))) /\ preserver' = "running"
               /\ UNCHANGED <<job, write_state, preserve_stop>>
        <3>1. TakeSnapshot(Live(Halo(p))) \in Snapshot
            BY LiveTypes, SnapshotTypes
        <3>2. fifo' \in Seq(Snapshot)
            BY <2>1, <3>1, EvidenceAppend
        <3> QED BY <2>1, <3>2
    <2> QED BY <1>1, <1>2, <2>1 DEF Transfer, snapVars
<1>3. CASE TickCollects
    <2>1. CASE job' = << >>
        <3>1. job' \in Seq(Snapshot)
            BY <1>0, <2>1
        <3> QED BY <1>3, <2>1, <3>1 DEF TickCollects, Collects
    <2>2. CASE job' = job
        BY <1>3, <2>2 DEF TickCollects, Collects
    <2> QED BY <1>3, <2>1, <2>2 DEF TickCollects, Collects
<1>4. CASE TickRetries
    BY <1>4 DEF TickRetries
<1>5. CASE TickFires
    <2>1. job' \in Seq(Snapshot) /\ Len(job') = 1 /\ job' # << >>
        BY <1>5, LiveTypes, SnapshotTypes DEF TickFires
    <2> QED BY <1>5, <2>1 DEF TickFires
<1>6. CASE JobIsWritten
    BY <1>6, JobWritten DEF JobIsWritten
<1>7. CASE PreserverWrites
    BY <1>7, PreserverTurns DEF PreserverWrites
<1>8. CASE PreserverEnds
    BY <1>8 DEF PreserverEnds
<1>9. CASE AutocaptureShutdown
    <2>1. CASE write_state' = 0 /\ job' = << >>
        <3>1. job' \in Seq(Snapshot)
            BY <1>0, <2>1
        <3> QED BY <1>9, <2>1, <3>1 DEF AutocaptureShutdown
    <2>2. CASE UNCHANGED <<job, write_state>>
        BY <1>9, <2>2 DEF AutocaptureShutdown
    <2> QED BY <1>9, <2>1, <2>2 DEF AutocaptureShutdown
<1>10. CASE WaitPending
    <2>2. preserve_stop' \in BOOLEAN
        BY <1>10 DEF WaitPending
    <2>3. preserver' \in {"none", "running", "ended"} /\ job' = << >> /\ write_state' = 0
        BY <1>10 DEF WaitPending, Closes, Handover
    <2>4. job' \in Seq(Snapshot)
        BY <1>0, <2>3
    <2> QED BY <1>10, <2>2, <2>3, <2>4, JobHandedOver
<1>11. CASE PreserverJoined
    BY <1>11 DEF PreserverJoined
<1>12. CASE UNCHANGED vars \/ Compiling
    BY <1>12, <1>1 DEF vars, Compiling, captureVars
<1>13. CASE TickAsks \/ WriteJson
    BY <1>13, <1>1 DEF TickAsks, WriteJson, snapVars
<1>14. ASSUME NEW p \in Pages, Execute(p) PROVE SnapTypes'
    BY <1>14, <1>1 DEF Execute
<1>15. ASSUME NEW p \in Pages, NEW v \in Variants, Store(p, v) PROVE SnapTypes'
    BY <1>15, <1>1 DEF Store
<1>16. ASSUME NEW image \in [Pages -> Variants], Restore(image) PROVE SnapTypes'
    BY <1>16, <1>1 DEF Restore
<1> QED
    BY <1>2, <1>3, <1>4, <1>5, <1>6, <1>7, <1>8, <1>9, <1>10, <1>11, <1>12, <1>13, <1>14, <1>15,
       <1>16 DEF Next, Guest, Tick, Writer, Closing

LEMMA FileStep == ASSUME CaptureInv, [Next]_vars PROVE FileTypes'
<1> USE DEF FileTypes
<1>0. MemoryTypes /\ SnapTypes /\ FileTypes
    BY DEF CaptureInv
<1>1. ASSUME NEW e \in SUBSET Shards, NEW ok \in BOOLEAN, Commits(e, ok) PROVE archive' \subseteq Shards
    BY <1>0, <1>1 DEF Commits
<1>2. CASE UNCHANGED <<archive, reported, dropped, closing>>
    BY <1>0, <1>2
<1>3. ASSUME NEW p \in Pages, NEW v \in Variants, Transfer(p, v) PROVE FileTypes'
    <2>1. Live(Halo(p)) \in SUBSET Shards /\ <<p, ram[p]>> \in Shards
        BY <1>0, LiveTypes, CaptureAssumption DEF MemoryTypes
    <2> QED BY <1>0, <1>1, <1>3, <2>1 DEF Transfer
<1>4. CASE JobIsWritten
    <2>1. job # << >>
        BY <1>0, <1>4 DEF JobIsWritten, SnapTypes
    <2>2. job[1].evidence \in SUBSET Shards
        BY <1>0, <2>1, JobIs DEF Snapshot
    <2> QED BY <1>0, <1>1, <1>4, <2>2 DEF JobIsWritten, historyVars
<1>5. CASE PreserverWrites
    <2>1. Head(fifo).evidence \in SUBSET Shards
        BY <1>0, <1>5, EvidenceTail DEF PreserverWrites, SnapTypes, Snapshot
    <2> QED BY <1>0, <1>1, <1>5, <2>1 DEF PreserverWrites
<1>6. ASSUME job # << >> PROVE job[1].evidence \in SUBSET Shards
    BY <1>0, <1>6, JobIs DEF Snapshot
<1>7. CASE AutocaptureShutdown
    <2>1. write_state = 2 => job # << >>
        BY <1>0 DEF SnapTypes
    <2> QED BY <1>0, <1>6, <1>7, <2>1 DEF AutocaptureShutdown, Closes
<1>8. CASE WaitPending
    BY <1>0, <1>6, <1>8 DEF WaitPending, Closes
<1>9. CASE PreserverJoined
    BY <1>0, <1>9 DEF PreserverJoined, Closes, historyVars
<1>10. CASE WriteJson
    BY <1>0, <1>1, <1>10, LiveTypes DEF WriteJson, Closes
<1>11. CASE Tick \/ PreserverEnds
    BY <1>2, <1>11 DEF Tick, TickCollects, Collects, TickRetries, TickAsks, TickFires, PreserverEnds, historyVars
<1>12. CASE Compiling \/ UNCHANGED vars
    BY <1>2, <1>12 DEF Compiling, captureVars, historyVars, vars
<1>13. ASSUME NEW p \in Pages, Execute(p) PROVE FileTypes'
    BY <1>2, <1>13 DEF Execute
<1>14. ASSUME NEW p \in Pages, NEW v \in Variants, Store(p, v) PROVE FileTypes'
    BY <1>2, <1>14 DEF Store
<1>15. ASSUME NEW image \in [Pages -> Variants], Restore(image) PROVE FileTypes'
    BY <1>2, <1>15 DEF Restore
<1> QED
    BY <1>3, <1>4, <1>5, <1>7, <1>8, <1>9, <1>10, <1>11, <1>12, <1>13, <1>14, <1>15
       DEF Next, Guest, Writer, Closing

LEMMA HandoverStep == ASSUME CaptureInv, [Next]_vars PROVE Handover'
<1> USE DEF Handover
<1>0. MemoryTypes /\ SnapTypes /\ FileTypes /\ Handover
    BY DEF CaptureInv
<1>1. emu = "frame" => closing = "autocapture"
    BY <1>0
<1>2. \A e, ok : Commits(e, ok) => archive \subseteq archive'
    BY DEF Commits
<1>3. CASE UNCHANGED <<snapVars, archive, closing>> /\ (emu = "down" => emu' = "down")
    BY <1>0, <1>3 DEF snapVars
<1>4. CASE Compiling \/ UNCHANGED vars
    BY <1>3, <1>4, DownStays DEF Compiling, captureVars, vars, compileVars
<1>5. CASE Guest
    <2>1. ASSUME NEW p \in Pages, NEW v \in Variants, Transfer(p, v) PROVE Handover'
        <3>1. /\ emu = "frame" /\ emu' = emu /\ closing' = closing
              /\ job' = job /\ write_state' = write_state /\ archive \subseteq archive'
              /\ UNCHANGED <<fifo, preserver>> \/ preserver' = "running"
            BY <1>2, <2>1 DEF Transfer, Writes, snapVars, compileVars
        <3> QED BY <1>0, <1>1, <3>1
    <2>2. ASSUME NEW p \in Pages, Execute(p) PROVE Handover'
        BY <1>3, <2>2 DEF Execute, compileVars
    <2>3. ASSUME NEW p \in Pages, NEW v \in Variants, Store(p, v) PROVE Handover'
        BY <1>3, <2>3 DEF Store, compileVars
    <2>4. ASSUME NEW image \in [Pages -> Variants], Restore(image) PROVE Handover'
        BY <1>3, <2>4 DEF Restore, compileVars
    <2> QED BY <1>5, <2>1, <2>2, <2>3, <2>4 DEF Guest
<1>6. CASE Tick
    <2>1. /\ emu = "frame" /\ UNCHANGED <<closing, archive, fifo, preserver>>
          /\ write_state' # 2 \/ UNCHANGED <<job, write_state>>
        BY <1>6 DEF Tick, TickCollects, Collects, TickRetries, TickAsks, TickFires, snapVars
    <2> QED BY <1>0, <1>1, <2>1
<1>7. CASE JobIsWritten
    <2>1. closing = "autocapture" /\ closing' = closing /\ UNCHANGED <<fifo, preserver>>
        BY <1>0, <1>7 DEF JobIsWritten
    <2>2. \E ok \in BOOLEAN : Commits(Evidence(job), ok) /\ job'[1].ok = ok
        BY <1>0, <1>7, JobWritten
    <2>3. job'[1].ok => job'[1].evidence \subseteq archive'
        BY <1>0, <1>7, <2>2, JobWritten DEF Commits
    <2> QED BY <1>0, <2>1, <2>3
<1>8. CASE PreserverWrites
    <2>1. archive \subseteq archive'
        BY <1>2, <1>8 DEF PreserverWrites
    <2> QED BY <1>0, <1>8, <2>1 DEF PreserverWrites, compileVars
<1>9. CASE PreserverEnds
    BY <1>0, <1>9 DEF PreserverEnds, compileVars
<1>10. CASE AutocaptureShutdown
    BY <1>0, <1>10 DEF AutocaptureShutdown, Closes, compileVars
<1>11. CASE WaitPending
    BY <1>0, <1>11 DEF WaitPending, Closes, compileVars
<1>12. CASE PreserverJoined
    BY <1>0, <1>12 DEF PreserverJoined, Closes, compileVars
<1>13. CASE WriteJson
    BY <1>0, <1>13 DEF WriteJson, Closes, compileVars
<1> QED
    BY <1>4, <1>5, <1>6, <1>7, <1>8, <1>9, <1>10, <1>11, <1>12, <1>13 DEF Next, Writer, Closing

\* Who owns a snapshot: the one writer that runs, until it is archived.
THEOREM CaptureInvariance == Spec => []CaptureInv
<1>1. Init => CaptureInv
    BY CaptureInit
<1>2. CaptureInv /\ [Next]_vars => CaptureInv'
    <2> SUFFICES ASSUME CaptureInv, [Next]_vars PROVE CaptureInv'
        OBVIOUS
    <2> QED BY MemoryStep, SnapStep, FileStep, HandoverStep DEF CaptureInv
<1> QED BY <1>1, <1>2, PTL DEF Spec

-----------------------------------------------------------------------------
(* The compiler that runs is Autocompile's *)

LEMMA AskIsRequest ==
    ASSUME FileTypes, emu = "frame", NEW e, ProviderTries(e)
    PROVE  [CompileNext]_compileVars
<1>1. Work \in SUBSET Shards
    BY DEF FileTypes, Work
<1>2. RequestStarts(Work) \/ RequestFails \/ UNCHANGED compileVars
    BY DEF ProviderTries, Asked
<1> QED BY <1>1, <1>2 DEF CompileNext

LEMMA CompileSteps == ASSUME CaptureInv, [Next]_vars PROVE [CompileNext]_compileVars
<1>1. FileTypes
    BY DEF CaptureInv
<1>2. CASE UNCHANGED compileVars
    BY <1>2
<1>3. CASE Tick
    <2>1. CASE TickCollects
        BY <1>1, <2>1, AskIsRequest DEF TickCollects, Collects
    <2>2. CASE TickAsks
        BY <1>1, <2>2, AskIsRequest DEF TickAsks
    <2> QED BY <1>2, <1>3, <2>1, <2>2 DEF Tick, TickRetries, TickFires
<1>4. CASE Compiling
    BY <1>4 DEF Compiling, CompileNext
<1>5. CASE Guest
    BY <1>2, <1>5 DEF Guest, Execute, Transfer, Store, Restore
<1>6. CASE Writer \/ Closing
    BY <1>2, <1>6 DEF Writer, Closing, JobIsWritten, PreserverWrites, PreserverEnds,
        AutocaptureShutdown, WaitPending, PreserverJoined, WriteJson, Closes
<1> QED BY <1>2, <1>3, <1>4, <1>5, <1>6 DEF Next, vars

\* What autocompile.c is asked by overlay_capture.c and main.cpp never leads it
\* out of Autocompile's behaviours: it is asked by the emulation thread alone,
\* in a frame, for shards that exist.
LEMMA CompilerRefined == Spec => CompileSpec
<1>1. Init => CompileInit
    BY DEF Init
<1>2. CaptureInv /\ [Next]_vars => [CompileNext]_compileVars
    BY CompileSteps
<1> QED BY <1>1, <1>2, CaptureInvariance, PTL DEF Spec, CompileSpec

\* In the composed system too, one mapped shard is handed over at a time.
THEOREM CaptureOneHandoff == Spec => []OneHandoff
BY CompilerRefined, OneHandedOver, PTL

\* ... and no run of the compiler inherits a thread or a queue of the last one.
THEOREM CaptureRunsApart == Spec => []IdleIsQuiet
BY CompilerRefined, RunsDoNotOverlap, PTL

\* ... and a run that succeeds left nothing its child had printed.
THEOREM CaptureIsHonest == Spec => HonestSuccess
BY CompilerRefined, SuccessIsHonest, PTL

-----------------------------------------------------------------------------
(* Types of the whole *)

ProviderTypes == provider \in [pending : SUBSET Shards, sig : SUBSET Shards,
                               reg : -1 .. Cardinality(Shards)]
AskTyped == ProviderTypes /\ collected \subseteq Shards /\ offered \subseteq Shards

LEMMA ShardsFew == \A S \in SUBSET Shards : Cardinality(S) \in 0 .. Cardinality(Shards)
<1>1. IsFiniteSet(Shards)
    BY CaptureAssumption, FS_Product
<1>2. Cardinality(Shards) \in Nat
    BY <1>1, FS_CardinalityType
<1>3. ASSUME NEW S \in SUBSET Shards PROVE Cardinality(S) \in 0 .. Cardinality(Shards)
    <2>1. IsFiniteSet(S) /\ Cardinality(S) <= Cardinality(Shards)
        BY <1>1, FS_Subset
    <2>2. Cardinality(S) \in Nat
        BY <2>1, FS_CardinalityType
    <2> QED BY <1>2, <2>1, <2>2
<1> QED BY <1>3

LEMMA AskTypes ==
    ASSUME AskTyped, FileTypes, CompileTypeOK, NEW e \in SUBSET Shards, ProviderTries(e)
    PROVE  ProviderTypes' /\ offered' \subseteq Shards
<1>1. Cardinality(loaded) \in -1 .. Cardinality(Shards)
    BY ShardsFew DEF CompileTypeOK
<1>2. ProviderTypes'
    BY <1>1 DEF AskTyped, ProviderTypes, ProviderTries, Asked
<1>3. offered' \subseteq Shards
    BY DEF AskTyped, FileTypes, ProviderTries, Work
<1> QED BY <1>2, <1>3

\* The steps that are not of the tick leave what it asks for alone.
LEMMA AskKeeps ==
    ASSUME Guest \/ TickRetries \/ TickFires \/ Writer \/ Closing \/ Compiling \/ UNCHANGED vars
    PROVE  UNCHANGED askVars
<1>1. CASE Guest
    BY <1>1 DEF Guest, Execute, Transfer, Store, Restore, askVars
<1>2. CASE TickRetries \/ TickFires
    BY <1>2 DEF TickRetries, TickFires, askVars
<1>3. CASE Writer
    BY <1>3 DEF Writer, JobIsWritten, PreserverWrites, PreserverEnds, askVars
<1>4. CASE Closing
    BY <1>4 DEF Closing, AutocaptureShutdown, WaitPending, PreserverJoined, WriteJson, askVars
<1>5. CASE Compiling \/ UNCHANGED vars
    BY <1>5 DEF Compiling, captureVars, vars, askVars
<1> QED BY <1>1, <1>2, <1>3, <1>4, <1>5

LEMMA AskStep ==
    ASSUME AskTyped, CompileTypeOK, CaptureInv, [Next]_vars
    PROVE  AskTyped'
<1>1. CASE UNCHANGED askVars
    BY <1>1 DEF AskTyped, ProviderTypes, askVars
<1>2. CASE TickCollects
    <2>0. job[1] \in Snapshot
        BY <1>2, JobIs DEF TickCollects, CaptureInv, SnapTypes
    <2>1. job[1].evidence \in SUBSET Shards
        BY <2>0 DEF Snapshot
    <2>2. Collects(job[1].evidence) \/ UNCHANGED askVars
        BY <1>2 DEF TickCollects, askVars
    <2>3. CASE Collects(job[1].evidence)
        BY <2>1, <2>3, AskTypes DEF Collects, CaptureInv, AskTyped
    <2> QED BY <1>1, <2>2, <2>3
<1>3. CASE TickAsks
    <2>1. provider.pending \in SUBSET Shards
        BY DEF AskTyped, ProviderTypes
    <2> QED BY <1>3, <2>1, AskTypes DEF TickAsks, CaptureInv, AskTyped
<1> QED BY <1>1, <1>2, <1>3, AskKeeps DEF Next, Tick

\* Every variable keeps its type; a write that is under way, or complete, has
\* the one job that is written.
THEOREM CaptureTypeCorrect == Spec => []TypeOK
<1>1. Init => AskTyped
    <2>1. Cardinality(Shards) \in Nat
        BY ShardsFew
    <2> QED BY <2>1 DEF Init, AskTyped, ProviderTypes
<1>2. AskTyped /\ CompileTypeOK /\ CaptureInv /\ [Next]_vars => AskTyped'
    BY AskStep
<1>3. AskTyped /\ CompileTypeOK /\ CaptureInv => TypeOK
    BY DEF TypeOK, AskTyped, ProviderTypes, CaptureInv, MemoryTypes, SnapTypes, FileTypes
<1> QED
    BY <1>1, <1>2, <1>3, CaptureInvariance, CompilerRefined, CompileTypeCorrect, PTL
       DEF Spec

-----------------------------------------------------------------------------
(* No evidence is lost *)

\* What evidence rests on; a step that leaves these alone loses none.
holderVars == <<ram, exec, job, fifo, archive, closing, owed, reported, dropped>>

LEMMA RetainedStep == ASSUME CaptureInv, EvidenceRetained, [Next]_vars PROVE EvidenceRetained'
<1> DEFINE Archived == archive \cup reported \cup dropped
<1>0. MemoryTypes /\ SnapTypes /\ FileTypes /\ Handover
    BY DEF CaptureInv
<1>1. CASE UNCHANGED holderVars
    BY <1>1 DEF holderVars, EvidenceRetained, Live, Held
<1>2. CASE closing # "over" /\ closing' # "over"
           /\ owed' \subseteq owed \cup Live(Pages)' /\ Archived \subseteq Archived'
           /\ (Live(Pages) \cup Held) \cap owed' \subseteq (Live(Pages) \cup Held)' \cup Archived'
    BY <1>2 DEF EvidenceRetained
<1>3. emu = "frame" => closing = "autocapture"
    BY <1>0 DEF Handover
<1>4. CASE Guest
    <2>0. closing # "over" /\ closing' # "over" /\ UNCHANGED dropped
        BY <1>3, <1>4 DEF Guest, Execute, Transfer, Store, Restore, Writes
    <2>1. ASSUME NEW p \in Pages, Execute(p) PROVE EvidenceRetained'
        <3>1. Live(Pages) \subseteq Live(Pages)' /\ <<p, ram[p]>> \in Live(Pages)'
            BY <2>1 DEF Execute, Live
        <3> QED BY <1>2, <2>0, <2>1, <3>1 DEF Execute, Held, snapVars
    <2>2. ASSUME NEW p \in Pages, NEW v \in Variants, Transfer(p, v) PROVE EvidenceRetained'
        <3>1. \A x \in Live(Pages) : x \in Live(Pages)' \/ (p \in exec /\ x = <<p, ram[p]>>)
            BY <1>0, <2>2 DEF Transfer, Live, MemoryTypes
        <3>2. p \in exec => <<p, ram[p]>> \in Live(Halo(p))
            BY DEF Live, Halo
        <3>3. CASE p \notin exec
            BY <1>2, <2>0, <2>2, <3>1, <3>3 DEF Transfer, Held, snapVars
        <3>4. CASE fifo' = Append(fifo, TakeSnapshot(Live(Halo(p))))
                   /\ UNCHANGED <<job, archive, reported>>
            <4>1. Evidence(fifo') = Evidence(fifo) \cup Live(Halo(p))
                BY <1>0, <3>4, LiveTypes, SnapshotTypes, EvidenceAppend DEF SnapTypes
            <4>2. Held' = Evidence(job') \cup Evidence(fifo')
                BY DEF Held, Evidence
            <4> QED BY <1>2, <2>0, <2>2, <3>1, <3>2, <3>4, <4>1, <4>2, HeldIs DEF Transfer
        <3>5. ASSUME NEW ok \in BOOLEAN, Commits(Live(Halo(p)), ok), UNCHANGED <<job, fifo>>,
                     reported' = reported \cup (IF ok THEN {} ELSE {<<p, ram[p]>>})
              PROVE  EvidenceRetained'
            <4>1. Held' = Held
                BY <3>5 DEF Held
            <4>2. p \in exec => <<p, ram[p]>> \in archive' \cup reported'
                BY <3>2, <3>5 DEF Commits
            <4>3. Archived \subseteq Archived' /\ owed' = owed
                BY <2>0, <2>2, <3>5 DEF Commits, Transfer
            <4> QED BY <1>2, <2>0, <3>1, <4>1, <4>2, <4>3
        <3> QED BY <2>2, <3>3, <3>4, <3>5 DEF Transfer
    <2>3. ASSUME NEW p \in Pages, NEW v \in Variants, Store(p, v) PROVE EvidenceRetained'
        <3>1. Live(Pages) \ Live({p}) \subseteq Live(Pages)'
            BY <1>0, <2>3 DEF Store, Live, MemoryTypes
        <3> QED BY <1>2, <2>0, <2>3, <3>1 DEF Store, Held, snapVars
    <2>4. ASSUME NEW image \in [Pages -> Variants], Restore(image) PROVE EvidenceRetained'
        <3>1. Live(Pages) \ Live({p \in Pages : image[p] # ram[p]}) \subseteq Live(Pages)'
            BY <1>0, <2>4 DEF Restore, Live, MemoryTypes
        <3> QED BY <1>2, <2>0, <2>4, <3>1 DEF Restore, Held, snapVars
    <2> QED BY <1>4, <2>1, <2>2, <2>3, <2>4 DEF Guest
<1>5. CASE TickCollects
    <2>1. job[1].ok => Evidence(job) \subseteq archive
        BY <1>0, <1>5, JobIs DEF TickCollects, Collects, Handover, SnapTypes
    <2>2. job[1].ok \/ job' = job
        BY <1>5 DEF TickCollects, Collects
    <2>3. Live(Pages)' = Live(Pages) /\ Archived' = Archived /\ owed' = owed
        BY <1>5 DEF TickCollects, Collects, Live, historyVars
    <2>4. Held' = Evidence(job') \cup Evidence(fifo')
        BY DEF Held, Evidence
    <2> QED BY <1>2, <1>3, <1>5, <2>1, <2>2, <2>3, <2>4, HeldIs DEF TickCollects, Collects
<1>6. CASE TickFires
    <2>1. Held' = Evidence(job') \cup Evidence(fifo')
        BY DEF Held, Evidence
    <2>2. Evidence(job') = Live(Pages) /\ Evidence(job) = {}
        BY <1>0, <1>6, LiveTypes, SnapshotTypes, EvidenceFew DEF TickFires
    <2> QED BY <1>2, <1>3, <1>6, <2>1, <2>2, HeldIs DEF TickFires, historyVars
<1>7. CASE JobIsWritten
    <2>1. closing # "over" /\ closing' = closing
        BY <1>0, <1>7 DEF JobIsWritten, Handover
    <2>3. Evidence(job') = Evidence(job)
        BY <1>0, <1>7, JobWritten
    <2>4. Held' = Evidence(job') \cup Evidence(fifo')
        BY DEF Held, Evidence
    <2>5. Held' = Held /\ Live(Pages)' = Live(Pages)
        BY <1>7, <2>3, <2>4, HeldIs DEF JobIsWritten, Live
    <2>6. Archived \subseteq Archived' /\ owed' = owed
        BY <1>7 DEF Commits, JobIsWritten, historyVars
    <2> QED BY <1>2, <2>1, <2>5, <2>6
<1>8. CASE PreserverWrites
    <2>1. closing # "over" /\ closing' = closing
        BY <1>0, <1>8 DEF PreserverWrites, Handover
    <2>5. Evidence(fifo) \subseteq Evidence(fifo') \cup Archived'
        BY <1>0, <1>8, PreserverTurns
    <2>6. Archived \subseteq Archived' /\ owed' = owed
        BY <1>8 DEF Commits, PreserverWrites
    <2>7. Held' = Evidence(job') \cup Evidence(fifo')
        BY DEF Held, Evidence
    <2>8. Live(Pages)' = Live(Pages) /\ job' = job
        BY <1>8 DEF PreserverWrites, Live
    <2> QED BY <1>2, <2>1, <2>5, <2>6, <2>7, <2>8, HeldIs
<1>9. ASSUME job # << >> PROVE job[1] \in Snapshot /\ Evidence(job) = job[1].evidence
    BY <1>0, <1>9, JobIs
<1>10. CASE AutocaptureShutdown
    <2>1. Evidence(job) \subseteq Evidence(job') \cup archive \cup dropped'
        <3>1. job[1].ok /\ write_state = 2 => job[1].evidence \subseteq archive
            BY <1>0 DEF Handover
        <3>2. write_state = 2 => job # << >>
            BY <1>0 DEF SnapTypes
        <3> QED BY <1>9, <1>10, <3>1, <3>2 DEF AutocaptureShutdown
    <2>2. Archived \subseteq Archived' /\ owed' = owed /\ Live(Pages)' = Live(Pages)
        BY <1>10 DEF AutocaptureShutdown, Live
    <2>3. Held' = Evidence(job') \cup Evidence(fifo')
        BY DEF Held, Evidence
    <2> QED BY <1>2, <1>10, <2>1, <2>2, <2>3, HeldIs DEF AutocaptureShutdown, Closes
<1>11. CASE WaitPending
    <2>1. Evidence(job) \cup Evidence(fifo) \subseteq Evidence(fifo') \cup reported'
        BY <1>0, <1>11, JobHandedOver
    <2>2. Archived \subseteq Archived' /\ owed' = owed /\ Live(Pages)' = Live(Pages)
        BY <1>11 DEF WaitPending, Live
    <2>3. Held' = Evidence(job') \cup Evidence(fifo')
        BY DEF Held, Evidence
    <2> QED BY <1>2, <1>11, <2>1, <2>2, <2>3, HeldIs DEF WaitPending, Closes
<1>12. CASE PreserverJoined
    <2>1. Live(Pages)' = Live(Pages) /\ Held' = Held
        BY <1>12 DEF PreserverJoined, Live, Held
    <2> QED BY <1>2, <1>12, <2>1 DEF PreserverJoined, Closes, historyVars
<1>13. CASE WriteJson
    <2>1. Held = {}
        BY <1>0, <1>13, HeldIs, EvidenceFew DEF WriteJson, Closes, Handover
    <2>2. Live(Pages) \subseteq archive' \cup dropped' /\ Archived \subseteq Archived' /\ owed' = owed
        BY <1>13 DEF WriteJson, Commits
    <2>3. closing = "final"
        BY <1>13 DEF WriteJson, Closes
    <2> QED BY <2>1, <2>2, <2>3 DEF EvidenceRetained
<1>14. CASE TickRetries \/ TickAsks \/ PreserverEnds
    BY <1>1, <1>14 DEF holderVars, TickRetries, TickAsks, PreserverEnds, snapVars, historyVars
<1>15. CASE Compiling \/ UNCHANGED vars
    BY <1>1, <1>15 DEF holderVars, Compiling, vars, captureVars, snapVars, historyVars
<1> QED
    BY <1>4, <1>5, <1>6, <1>7, <1>8, <1>10, <1>11, <1>12, <1>13, <1>14, <1>15
       DEF Next, Tick, Writer, Closing

\* However the two threads interleave, and whatever they fail to write, what
\* was executed is in RAM, in a snapshot that somebody will write, archived, or
\* given up; a snapshot is let go only when it is archived or given up.
THEOREM NothingLost == Spec => []EvidenceRetained
<1>1. Init => EvidenceRetained
    BY DEF Init, EvidenceRetained
<1>2. CaptureInv /\ EvidenceRetained /\ [Next]_vars => EvidenceRetained'
    BY RetainedStep
<1> QED BY <1>1, <1>2, CaptureInvariance, PTL DEF Spec

-----------------------------------------------------------------------------
(* No evidence is false *)

\* The shards that lines claim were published.
Named(lines) == UNION {l.of : l \in {k \in lines : k.kind = "PUBLISHED"}}

\* Whatever the compiler has still to do, hands on, or did.
Traces == cache \cup loaded \cup child.left \cup Named(Range(pipe))
          \cup Range(raw) \cup Range(ready) \cup Range(hand) \cup Range(commit)

\* All that names a variant, and all that ever was one.
Claimed == Traces \cup archive \cup Live(Pages) \cup Held
Seen == executed \cup rebound

LEMMA RangeMoves ==
    ASSUME NEW S, NEW q \in Seq(S)
    PROVE  /\ \A s \in S : Range(Append(q, s)) = Range(q) \cup {s}
           /\ q # << >> => Head(q) \in Range(q) /\ Range(Tail(q)) \subseteq Range(q)
<1>1. Len(q) \in Nat /\ DOMAIN q = 1 .. Len(q)
    BY LenProperties
<1>2. ASSUME NEW s \in S PROVE Range(Append(q, s)) = Range(q) \cup {s}
    <2>1. /\ DOMAIN Append(q, s) = 1 .. Len(q) + 1
          /\ Append(q, s)[Len(q) + 1] = s
          /\ \A i \in 1 .. Len(q) : Append(q, s)[i] = q[i]
        BY AppendProperties, LenProperties
    <2> QED BY <1>1, <2>1 DEF Range
<1>3. ASSUME q # << >> PROVE Head(q) \in Range(q) /\ Range(Tail(q)) \subseteq Range(q)
    <2>1. /\ Head(q) = q[1] /\ Tail(q) \in Seq(S) /\ Len(q) > 0 /\ Len(Tail(q)) = Len(q) - 1
        BY <1>3, QueueTail
    <2>2. DOMAIN Tail(q) = 1 .. Len(q) - 1
        BY <2>1, LenProperties
    <2>3. \A i \in 1 .. Len(q) - 1 : Tail(q)[i] = q[i + 1]
        BY <1>3, <2>1, HeadTailProperties
    <2> QED BY <1>1, <2>1, <2>2, <2>3 DEF Range
<1> QED BY <1>2, <1>3

LEMMA RangeFew == Range(<< >>) = {} /\ \A s : Range(<<s>>) = {s}
<1>1. Range(<< >>) = {}
    BY DEF Range
<1>2. ASSUME NEW s PROVE Range(<<s>>) = {s}
    BY DEF Range
<1> QED BY <1>1, <1>2

LEMMA NamedLines ==
    /\ \A R, T : R \subseteq T => Named(R) \subseteq Named(T)
    /\ \A R, l : Named(R \cup {l}) \subseteq Named(R) \cup (IF l.kind = "PUBLISHED" THEN l.of ELSE {})
    /\ \A R, l : l \in R /\ l.kind = "PUBLISHED" => l.of \subseteq Named(R)
    /\ Named({}) = {}
BY DEF Named

\* No step of the compiler names a shard that nothing in it named before.
LEMMA TracesInside == ASSUME CompileTypeOK, OneItem, Compiling PROVE Traces' \subseteq Traces
<1> USE DEF Traces, queueVars, endVars, childVars, cacheVars
<1>1. /\ raw \in Seq(Shards) /\ ready \in Seq(Shards) /\ hand \in Seq(Shards)
      /\ commit \in Seq(Shards) /\ pipe \in Seq(Line) /\ child \in ChildState
    BY DEF CompileTypeOK
<1>2. /\ \A s : Published(s).kind = "PUBLISHED" /\ Published(s).of = {s}
      /\ \A f : Result(f).kind = "RESULT"
      /\ Cut.kind = "CUT"
    BY DEF Published, Result, Cut
<1>3. ASSUME NEW l \in Line, pipe' = Append(pipe, l)
      PROVE  Named(Range(pipe)') \subseteq Named(Range(pipe)) \cup (IF l.kind = "PUBLISHED" THEN l.of ELSE {})
    <2>1. Range(pipe)' = Range(pipe) \cup {l}
        BY <1>1, <1>3, RangeMoves
    <2> QED BY <2>1, NamedLines
<1>4. ASSUME NEW s \in Shards, ChildCompiles(s) PROVE Traces' \subseteq Traces
    <2>1. s \in child.left /\ child'.left \subseteq child.left
        BY <1>1, <1>4 DEF ChildCompiles, ChildState
    <2>2. cache' \subseteq cache \cup {s}
        BY <1>4 DEF ChildCompiles
    <2>3. Named(Range(pipe)') \subseteq Named(Range(pipe)) \cup {s}
        <3>1. CASE pipe' = Append(pipe, Published(s))
            BY <1>2, <1>3, <3>1, LineTypes
        <3> QED BY <1>4, <3>1 DEF ChildCompiles
    <2> QED BY <1>4, <2>1, <2>2, <2>3 DEF ChildCompiles
<1>5. CASE ChildReports
    <2>1. child'.left = child.left
        BY <1>1, <1>5 DEF ChildReports, ChildState
    <2>2. Named(Range(pipe)') \subseteq Named(Range(pipe))
        BY <1>1, <1>2, <1>3, <1>5, LineTypes DEF ChildReports, ChildState
    <2> QED BY <1>5, <2>1, <2>2 DEF ChildReports
<1>6. CASE ChildExits
    <2>1. child'.left = child.left
        BY <1>1, <1>6 DEF ChildExits, ChildState
    <2>2. Named(Range(pipe)') \subseteq Named(Range(pipe))
        <3>1. CASE pipe' = Append(pipe, Cut)
            BY <1>2, <1>3, <3>1, LineTypes
        <3> QED BY <1>6, <3>1 DEF ChildExits
    <2> QED BY <1>6, <2>1, <2>2 DEF ChildExits
<1>7. CASE WatcherReads
    <2>1. Head(pipe) \in Range(pipe) /\ Range(pipe)' \subseteq Range(pipe)
        BY <1>1, <1>7, RangeMoves DEF WatcherReads
    <2>2. Named(Range(pipe)') \subseteq Named(Range(pipe))
        BY <2>1, NamedLines
    <2>3. Range(raw)' \subseteq Range(raw) \cup Named(Range(pipe))
        <3>1. ASSUME Head(pipe).kind = "PUBLISHED", NEW s \in Head(pipe).of, raw' = Append(raw, s)
              PROVE  Range(raw)' \subseteq Range(raw) \cup Named(Range(pipe))
            <4>1. s \in Named(Range(pipe))
                BY <2>1, <3>1, NamedLines
            <4>2. s \in Shards
                BY <1>1, <1>7, <3>1, QueueTail, LineTypes DEF WatcherReads
            <4> QED BY <1>1, <3>1, <4>1, <4>2, RangeMoves
        <3>2. CASE raw' = raw
            BY <3>2
        <3> QED BY <1>7, <3>1, <3>2 DEF WatcherReads
    <2> QED BY <1>7, <2>2, <2>3 DEF WatcherReads
<1>8. CASE WatcherEnds
    BY <1>8, RangeFew, NamedLines DEF WatcherEnds
<1>9. CASE PrepareTakes
    <2>1. CASE raw # << >> /\ hand' = <<Head(raw)>> /\ raw' = Tail(raw)
        BY <1>1, <1>9, <2>1, RangeMoves, RangeFew DEF PrepareTakes
    <2> QED BY <1>9, <2>1 DEF PrepareTakes
<1>10. CASE PrepareMaps
    BY <1>10, RangeFew DEF PrepareMaps
<1>11. CASE PrepareHands
    BY <1>11, RangeFew DEF PrepareHands
<1>12. CASE PrepareDecides \/ PrepareStores \/ GateOpens \/ PollChecks
    BY <1>12 DEF PrepareDecides, PrepareStores, GateOpens, PollChecks
<1>13. CASE PollPops
    BY <1>1, <1>13, RangeMoves, RangeFew DEF PollPops
<1>14. CASE PollCommits
    <2>1. commit[1] \in Range(commit)
        <3>1. commit # << >>
            BY <1>14 DEF PollCommits, OneItem
        <3> QED BY <1>1, <3>1, QueueTail, RangeMoves
    <2> QED BY <1>14, <2>1, RangeFew DEF PollCommits
<1>15. CASE PollJoins
    BY <1>15 DEF PollJoins, NoChild
<1>16. CASE ShutdownStops
    <2>1. child'.left = child.left
        BY <1>1, <1>16 DEF ShutdownStops, ChildState
    <2>2. Named(Range(pipe)') \subseteq Named(Range(pipe))
        <3>1. CASE pipe' = Append(pipe, Cut)
            BY <1>2, <1>3, <3>1, LineTypes
        <3> QED BY <1>16, <3>1 DEF ShutdownStops
    <2> QED BY <1>16, <2>1, <2>2 DEF ShutdownStops
<1>17. CASE ShutdownJoins
    BY <1>17, RangeFew DEF ShutdownJoins, DiscardAll, NoChild
<1> QED
    BY <1>4, <1>5, <1>6, <1>7, <1>8, <1>9, <1>10, <1>11, <1>12, <1>13, <1>14, <1>15, <1>16, <1>17
       DEF Compiling, Worker, Poll

\* ... and a request names what is archived and not compiled.
LEMMA TracesAsked == ASSUME NEW e, ProviderTries(e) PROVE Traces' \subseteq Traces \cup archive
<1>1. CASE UNCHANGED compileVars
    BY <1>1 DEF compileVars, queueVars, childVars, cacheVars, Traces
<1>2. CASE RequestStarts(Work)
    <2>1. child'.left = Work
        BY <1>2 DEF RequestStarts, NoChild
    <2> QED BY <1>2, <2>1, RangeFew
        DEF RequestStarts, RequestResets, DiscardAll, Traces, cacheVars, Work
<1>3. CASE RequestFails
    BY <1>3, RangeFew DEF RequestFails, RequestResets, DiscardAll, Traces, childVars, cacheVars
<1> QED BY <1>1, <1>2, <1>3 DEF ProviderTries, Asked

LEMMA SeenGrows == ASSUME [Next]_vars PROVE Seen \subseteq Seen'
BY DEF Seen, Next, Guest, Execute, Transfer, Store, Restore, Tick, TickCollects, Collects, TickRetries,
       TickAsks, TickFires, Writer, JobIsWritten, PreserverWrites, PreserverEnds, Closing,
       AutocaptureShutdown, WaitPending, PreserverJoined, WriteJson, Compiling, vars, captureVars,
       historyVars

LEMMA ClaimedStep ==
    ASSUME CompileTypeOK, OneItem, CaptureInv, Claimed \subseteq Seen, [Next]_vars
    PROVE  Claimed' \subseteq Seen'
<1>0. MemoryTypes /\ SnapTypes /\ FileTypes /\ Handover
    BY DEF CaptureInv
<1>1. Seen \subseteq Seen'
    BY SeenGrows
<1>2. UNCHANGED compileVars => Traces' = Traces
    BY DEF compileVars, queueVars, childVars, cacheVars, Traces
<1>3. \A e, ok : Commits(e, ok) => archive' \subseteq archive \cup e
    BY DEF Commits
<1>4. Held' = Evidence(job') \cup Evidence(fifo')
    BY DEF Held, Evidence
<1>5. CASE Claimed' \subseteq Claimed
    BY <1>1, <1>5
<1>6. CASE Guest
    <2>0. Traces' = Traces
        BY <1>2, <1>6 DEF Guest, Execute, Transfer, Store, Restore
    <2>1. ASSUME NEW p \in Pages, Execute(p) PROVE Claimed' \subseteq Seen'
        <3>1. Live(Pages)' \subseteq Live(Pages) \cup {<<p, ram[p]>>}
            BY <2>1 DEF Execute, Live
        <3> QED BY <2>0, <2>1, <3>1 DEF Execute, Claimed, Seen, Held, snapVars
    <2>2. ASSUME NEW p \in Pages, NEW v \in Variants, Transfer(p, v) PROVE Claimed' \subseteq Seen'
        <3>1. Live(Pages)' \subseteq Live(Pages) /\ Live(Halo(p)) \subseteq Live(Pages)
            BY <1>0, <2>2 DEF Transfer, Live, MemoryTypes
        <3>2. archive' \subseteq archive \cup Live(Pages)
            BY <1>3, <2>2, <3>1 DEF Transfer
        <3>3. Evidence(fifo') \subseteq Evidence(fifo) \cup Live(Pages) /\ job' = job
            <4>1. CASE fifo' = Append(fifo, TakeSnapshot(Live(Halo(p))))
                <5>1. Evidence(fifo') = Evidence(fifo) \cup Live(Halo(p))
                    BY <1>0, <4>1, LiveTypes, SnapshotTypes, EvidenceAppend DEF SnapTypes
                <5> QED BY <2>2, <3>1, <5>1 DEF Transfer, snapVars
            <4>2. CASE fifo' = fifo
                BY <2>2, <4>2 DEF Transfer, snapVars
            <4> QED BY <2>2, <4>1, <4>2 DEF Transfer, snapVars
        <3> QED BY <1>1, <1>4, <2>0, <3>1, <3>2, <3>3, HeldIs DEF Claimed
    <2>3. ASSUME NEW p \in Pages, NEW v \in Variants, Store(p, v) PROVE Claimed' \subseteq Seen'
        <3>1. Live(Pages)' \subseteq Live(Pages)
            BY <1>0, <2>3 DEF Store, Live, MemoryTypes
        <3> QED BY <1>1, <2>0, <2>3, <3>1 DEF Store, Claimed, Held, snapVars
    <2>4. ASSUME NEW image \in [Pages -> Variants], Restore(image) PROVE Claimed' \subseteq Seen'
        <3>1. Live(Pages)' \subseteq Live(Pages) \cup rebound'
            BY <1>0, <2>4 DEF Restore, Live, MemoryTypes
        <3> QED BY <1>1, <2>0, <2>4, <3>1 DEF Restore, Claimed, Held, Seen, snapVars
    <2> QED BY <1>6, <2>1, <2>2, <2>3, <2>4 DEF Guest
<1>7. CASE TickCollects
    <2>1. Traces' \subseteq Traces \cup archive
        BY <1>2, <1>7, TracesAsked DEF TickCollects, Collects
    <2>2. Evidence(job') \subseteq Evidence(job)
        BY <1>7, EvidenceFew DEF TickCollects, Collects
    <2> QED BY <1>4, <1>5, <1>7, <2>1, <2>2, HeldIs DEF TickCollects, Collects, Claimed, Live
<1>8. CASE TickAsks
    <2>1. Traces' \subseteq Traces \cup archive
        BY <1>8, TracesAsked DEF TickAsks
    <2> QED BY <1>5, <1>8, <2>1 DEF TickAsks, Claimed, Live, Held, snapVars
<1>9. CASE TickFires
    <2>1. Evidence(job') = Live(Pages) /\ Live(Pages)' = {}
        BY <1>0, <1>9, LiveTypes, SnapshotTypes, EvidenceFew DEF TickFires, Live
    <2> QED BY <1>2, <1>4, <1>5, <1>9, <2>1, HeldIs DEF TickFires, Claimed
<1>10. CASE TickRetries \/ PreserverEnds
    BY <1>2, <1>5, <1>10 DEF TickRetries, PreserverEnds, Claimed, Live, Held
<1>11. CASE JobIsWritten
    <2>1. Evidence(job') = Evidence(job)
        BY <1>0, <1>11, JobWritten
    <2>2. archive' \subseteq archive \cup Evidence(job)
        BY <1>0, <1>3, <1>11, JobWritten
    <2> QED BY <1>2, <1>4, <1>5, <1>11, <2>1, <2>2, HeldIs DEF JobIsWritten, Claimed, Live
<1>12. CASE PreserverWrites
    <2>1. Evidence(fifo) = Head(fifo).evidence \cup Evidence(Tail(fifo))
        BY <1>0, <1>12, PreserverTurns
    <2>3. Evidence(fifo') \subseteq Evidence(fifo)
        BY <1>0, <1>12, PreserverTurns
    <2>4. archive' \subseteq archive \cup Evidence(fifo)
        BY <1>3, <1>12, <2>1 DEF PreserverWrites
    <2> QED BY <1>2, <1>4, <1>5, <1>12, <2>3, <2>4, HeldIs DEF PreserverWrites, Claimed, Live
<1>13. CASE AutocaptureShutdown
    <2>1. Evidence(job') \subseteq Evidence(job)
        BY <1>13, EvidenceFew DEF AutocaptureShutdown
    <2> QED BY <1>2, <1>4, <1>5, <1>13, <2>1, HeldIs DEF AutocaptureShutdown, Closes, Claimed, Live
<1>14. CASE WaitPending
    <2>1. /\ Evidence(job') = {}
          /\ Evidence(fifo') \subseteq Evidence(fifo) \cup Evidence(job)
        BY <1>0, <1>14, JobHandedOver
    <2> QED BY <1>2, <1>4, <1>5, <1>14, <2>1, HeldIs DEF WaitPending, Closes, Claimed, Live
<1>15. CASE PreserverJoined
    BY <1>2, <1>5, <1>15 DEF PreserverJoined, Closes, Claimed, Live, Held
<1>16. CASE WriteJson
    BY <1>2, <1>3, <1>5, <1>16 DEF WriteJson, Closes, Claimed, Live, Held
<1>17. CASE Compiling
    BY <1>5, <1>17, TracesInside DEF Compiling, captureVars, snapVars, Claimed, Live, Held
<1>18. CASE UNCHANGED vars
    BY <1>2, <1>5, <1>18 DEF vars, captureVars, snapVars, Claimed, Live, Held
<1> QED
    BY <1>6, <1>7, <1>8, <1>9, <1>10, <1>11, <1>12, <1>13, <1>14, <1>15, <1>16, <1>17, <1>18
       DEF Next, Tick, Writer, Closing

\* What is archived, compiled or loaded was executed as it is there, but for
\* pages a state load wrote over: a snapshot is taken with the bytes it is for,
\* and no step after that makes one up.
THEOREM NothingInvented == Spec => []EvidenceIsTrue
<1>1. Init => Claimed \subseteq Seen
    <2> SUFFICES ASSUME Init PROVE Claimed = {}
        OBVIOUS
    <2>1. Traces = {}
        BY RangeFew, NamedLines DEF Init, CompileInit, NoChild, Traces
    <2>2. Held = {}
        BY HeldIs, EvidenceFew DEF Init
    <2>3. archive = {} /\ Live(Pages) = {}
        BY DEF Init, Live
    <2> QED BY <2>1, <2>2, <2>3 DEF Claimed
<1>2. CompileInv /\ CaptureInv /\ Claimed \subseteq Seen /\ [Next]_vars => (Claimed \subseteq Seen)'
    BY ClaimedStep DEF CompileInv
<1>3. Claimed \subseteq Seen => EvidenceIsTrue
    BY DEF Claimed, Traces, Seen, EvidenceIsTrue
<1> QED
    BY <1>1, <1>2, <1>3, CaptureInvariance, CompilerRefined, CompileInvariance, PTL
       DEF Spec

-----------------------------------------------------------------------------
(* No evidence is left out of every request *)

\* The signature of the last request is of evidence that it covered, and while
\* a job is alive none is pending that its own could take the place of.
AskInv ==
    /\ collected \cup provider.pending \subseteq archive
    /\ job # << >> => provider.pending = {}
    /\ provider.sig \subseteq offered \cup cache
    /\ EvidenceIsOffered

\* A try at a request covers, or leaves to be asked for, what was and what is
\* handed to it, if all of that is archived.
LEMMA TryCovers ==
    ASSUME ProviderTypes, provider.sig \subseteq offered \cup cache,
           NEW old, old \subseteq archive, NEW e, e \subseteq archive,
           old \subseteq offered \cup cache \cup e, ProviderTries(e)
    PROVE  /\ provider'.pending \subseteq e
           /\ provider'.sig \subseteq offered' \cup cache'
           /\ old \subseteq offered' \cup cache' \cup provider'.pending
<1>0. provider = [pending |-> provider.pending, sig |-> provider.sig, reg |-> provider.reg]
    BY DEF ProviderTypes
<1>1. cache' = cache
    BY DEF ProviderTries, RequestStarts, RequestFails, compileVars, cacheVars
<1>2. CASE provider' = [provider EXCEPT !.pending = e] /\ UNCHANGED offered
    <2>1. provider'.pending = e /\ provider'.sig = provider.sig
        BY <1>0, <1>2
    <2> QED BY <1>1, <1>2, <2>1
<1>3. CASE Futile(e) /\ provider' = [provider EXCEPT !.pending = {}] /\ UNCHANGED offered
    <2>1. provider'.pending = {} /\ provider'.sig = provider.sig /\ e = provider.sig
        BY <1>0, <1>3 DEF Futile
    <2> QED BY <1>1, <1>3, <2>1
<1>4. CASE provider' = Asked(e) /\ offered' = offered \cup Work
    <2>1. provider'.pending = {} /\ provider'.sig = e
        BY <1>4 DEF Asked
    <2>2. archive \subseteq offered' \cup cache'
        BY <1>1, <1>4 DEF Work
    <2> QED BY <2>1, <2>2
<1> QED BY <1>2, <1>3, <1>4 DEF ProviderTries

LEMMA CacheGrows == ASSUME [Next]_vars PROVE cache \subseteq cache'
<1>1. CASE UNCHANGED compileVars
    BY <1>1 DEF compileVars, cacheVars
<1>2. CASE Compiling
    BY <1>2 DEF Compiling, Worker, Poll, ChildCompiles, ChildReports, ChildExits, WatcherReads,
       WatcherEnds, PrepareTakes, PrepareMaps, PrepareHands, PrepareDecides, PrepareStores,
       PollPops, PollCommits, PollChecks, PollJoins, GateOpens, ShutdownStops, ShutdownJoins,
       cacheVars
<1>3. ASSUME NEW e, ProviderTries(e) PROVE cache' = cache
    BY <1>3 DEF ProviderTries, RequestStarts, RequestFails, compileVars, cacheVars
<1>4. CASE TickCollects \/ TickAsks
    BY <1>1, <1>3, <1>4 DEF TickCollects, TickAsks, Collects
<1>5. CASE Guest
    BY <1>1, <1>5 DEF Guest, Execute, Transfer, Store, Restore
<1>6. CASE TickRetries \/ TickFires \/ Writer \/ Closing
    BY <1>1, <1>6 DEF TickRetries, TickFires, Writer, JobIsWritten, PreserverWrites, PreserverEnds,
       Closing, AutocaptureShutdown, WaitPending, PreserverJoined, WriteJson, Closes
<1>7. CASE UNCHANGED vars
    BY <1>1, <1>7 DEF vars
<1> QED BY <1>2, <1>4, <1>5, <1>6, <1>7 DEF Next, Tick

LEMMA ArchiveGrows == ASSUME [Next]_vars PROVE archive \subseteq archive'
<1>1. \A e, ok : Commits(e, ok) => archive \subseteq archive'
    BY DEF Commits
<1>2. CASE Guest
    BY <1>1, <1>2 DEF Guest, Execute, Transfer, Store, Restore
<1>3. CASE Tick
    BY <1>3 DEF Tick, TickCollects, TickRetries, TickAsks, TickFires
<1>4. CASE Writer
    BY <1>1, <1>4 DEF Writer, JobIsWritten, PreserverWrites, PreserverEnds
<1>5. CASE Closing
    BY <1>1, <1>5 DEF Closing, AutocaptureShutdown, WaitPending, PreserverJoined, WriteJson
<1>6. CASE Compiling \/ UNCHANGED vars
    BY <1>6 DEF Compiling, vars, captureVars
<1> QED BY <1>2, <1>3, <1>4, <1>5, <1>6 DEF Next

\* A job is made by a fire alone, which waits until nothing is pending.
LEMMA JobAlone ==
    ASSUME SnapTypes, [Next]_vars, ~TickFires, job' # << >>
    PROVE  job # << >>
<1>1. CASE UNCHANGED job
    BY <1>1
<1>2. CASE Guest
    BY <1>1, <1>2 DEF Guest, Execute, Transfer, Store, Restore, snapVars
<1>3. CASE Tick
    BY <1>3 DEF Tick, TickCollects, Collects, TickRetries, TickAsks, snapVars
<1>4. CASE Writer
    BY <1>4 DEF Writer, JobIsWritten, PreserverWrites, PreserverEnds, SnapTypes
<1>5. CASE Closing
    BY <1>5 DEF Closing, AutocaptureShutdown, WaitPending, PreserverJoined, WriteJson
<1>6. CASE Compiling \/ UNCHANGED vars
    BY <1>6 DEF Compiling, vars, captureVars, snapVars
<1> QED BY <1>2, <1>3, <1>4, <1>5, <1>6 DEF Next

LEMMA AskInvStep ==
    ASSUME AskTyped, CaptureInv, AskInv, [Next]_vars
    PROVE  AskInv'
<1> USE DEF EvidenceIsOffered
<1>0. SnapTypes /\ Handover /\ ProviderTypes
    BY DEF CaptureInv, AskTyped
<1>1. cache \subseteq cache' /\ archive \subseteq archive'
    BY CacheGrows, ArchiveGrows
<1>2. CASE UNCHANGED askVars
    <2>1. job' # << >> => provider.pending = {}
        BY <1>0, JobAlone DEF AskInv, TickFires
    <2> QED BY <1>1, <1>2, <2>1 DEF AskInv, askVars
<1>3. CASE TickCollects
    <2>1. Collects(job[1].evidence) \/ UNCHANGED askVars
        BY <1>3 DEF TickCollects, askVars
    <2>2. CASE Collects(job[1].evidence) /\ job[1].ok
        <3> DEFINE e == job[1].evidence
                   old == collected \cup e
        <3>1. e \subseteq archive /\ provider.pending = {}
            BY <1>0, <1>3, <2>2 DEF Handover, AskInv, SnapTypes, TickCollects
        <3>2. old \subseteq archive /\ old \subseteq offered \cup cache \cup e
            BY <3>1 DEF AskInv
        <3>3. ProviderTries(e) /\ collected' = old /\ job' = << >>
            BY <2>2 DEF Collects
        <3> HIDE DEF e, old
        <3>4. /\ provider'.pending \subseteq e
              /\ provider'.sig \subseteq offered' \cup cache'
              /\ old \subseteq offered' \cup cache' \cup provider'.pending
            BY <1>0, <3>1, <3>2, <3>3, TryCovers DEF AskInv
        <3> QED BY <1>1, <3>1, <3>2, <3>3, <3>4 DEF AskInv
    <2> QED BY <1>2, <1>3, <2>1, <2>2 DEF TickCollects, askVars
<1>4. CASE TickAsks
    <2> DEFINE e == provider.pending
    <2>1. /\ e \subseteq archive /\ collected \subseteq archive
          /\ collected \subseteq offered \cup cache \cup e
        BY DEF AskInv
    <2>2. ProviderTries(e) /\ collected' = collected /\ job' = << >>
        BY <1>4 DEF TickAsks, snapVars
    <2> HIDE DEF e
    <2>3. /\ provider'.pending \subseteq e
          /\ provider'.sig \subseteq offered' \cup cache'
          /\ collected \subseteq offered' \cup cache' \cup provider'.pending
        BY <1>0, <2>1, <2>2, TryCovers DEF AskInv
    <2> QED BY <1>1, <2>1, <2>2, <2>3 DEF AskInv
<1> QED BY <1>2, <1>3, <1>4, AskKeeps DEF Next, Tick

\* Evidence whose file was written is never forgotten between that and the
\* request it is for: however often the request is refused, put off by a run or
\* found futile, what was not given to a run and is not compiled is pending.
THEOREM NothingForgotten == Spec => []EvidenceIsOffered
<1>1. Init => AskTyped /\ AskInv
    <2>1. Cardinality(Shards) \in Nat
        BY ShardsFew
    <2> QED BY <2>1 DEF Init, AskTyped, ProviderTypes, AskInv, EvidenceIsOffered
<1>2. AskTyped /\ CompileTypeOK /\ CaptureInv /\ [Next]_vars => AskTyped'
    BY AskStep
<1>3. AskTyped /\ CaptureInv /\ AskInv /\ [Next]_vars => AskInv'
    BY AskInvStep
<1>4. AskInv => EvidenceIsOffered
    BY DEF AskInv
<1> QED
    BY <1>1, <1>2, <1>3, <1>4, CaptureInvariance, CompilerRefined, CompileTypeCorrect, PTL
       DEF Spec
============================================================================
