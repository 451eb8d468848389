------------------------ MODULE Autocompile_proofs ------------------------
(***************************************************************************)
(* What holds of the background compiler whatever can be compiled, however *)
(* many runs there are, and in whatever order its three threads, the child *)
(* and a shutdown take their steps.                                        *)
(***************************************************************************)
EXTENDS Autocompile, SequenceTheorems, TLAPS

\* There is one item between the raw queue and the loader, in one pair of hands.
OneItem ==
    /\ hand # << >> => Len(hand) = 1 /\ ready = << >> /\ commit = << >>
    /\ ready # << >> => Len(ready) = 1 /\ commit = << >>
    /\ commit # << >> => Len(commit) = 1
    /\ preparer \in {"mapping", "mapped"} <=> hand # << >>
    /\ emu = "commit" <=> commit # << >>

\* The image that is mapped is that item's.
ImageIsHeld ==
    images = IF ready # << >> THEN {ready[1]}
             ELSE IF commit # << >> THEN {commit[1]}
             ELSE IF preparer = "mapped" THEN {hand[1]} ELSE {}

\* The threads of a run are there from its start until they are joined.
Threads ==
    /\ s_state # "idle" => preparer # "none" /\ watcher # "none"
    /\ s_state = "idle" => /\ preparer = "none" /\ watcher = "none"
                           /\ raw = << >> /\ ready = << >> /\ commit = << >>
    /\ s_state = "done" => preparer = "ended"
    /\ emu = "join" => s_state = "done" /\ ready = << >>

\* A thread that has ended leaves nothing behind, but for a shutdown.
Drained ==
    /\ watcher # "reading" => pipe = << >> /\ ~child.up
    /\ input_done => watcher = "ended"
    /\ ~stop /\ preparer \in {"decide", "store", "ended"} => raw = << >> /\ input_done
    /\ s_state # "idle" /\ emu \in {"frame", "commit", "join"} => ~stop

\* Where a shard the child named can be until the game has it.
Underway(s) ==
    \/ \E i \in DOMAIN pipe : pipe[i] = Published(s)
    \/ \E i \in DOMAIN raw : raw[i] = s
    \/ s \in {hand[i] : i \in DOMAIN hand} \cup {ready[i] : i \in DOMAIN ready}
             \cup {commit[i] : i \in DOMAIN commit}

\* Every shard named is under way, or the run is known to have failed, or will
\* be when the watcher looks at the exit code.
Accounted ==
    ~stop /\ s_state # "idle" =>
        \/ run.bad
        \/ watcher = "reading" /\ ~child.up /\ child.exit
        \/ \A s \in unmet : Underway(s)

CompileInv == CompileTypeOK /\ OneItem /\ ImageIsHeld /\ Threads /\ Drained /\ Accounted

-----------------------------------------------------------------------------
(* Sequences *)

LEMMA QueueTail ==
    ASSUME NEW S, NEW q \in Seq(S), q # << >>
    PROVE  /\ Head(q) = q[1] /\ Head(q) \in S /\ Tail(q) \in Seq(S)
           /\ Len(q) \in Nat /\ Len(q) > 0 /\ Len(Tail(q)) = Len(q) - 1
           /\ (Len(q) = 1 => Tail(q) = << >>)
<1>1. Head(q) \in S /\ Tail(q) \in Seq(S) /\ Len(Tail(q)) = Len(q) - 1
    BY HeadTailProperties
<1>2. Len(q) \in Nat \ {0}
    BY EmptySeq
<1>3. Head(q) = q[1]
    BY DEF Head
<1>4. Tail(q) # << >> => Len(Tail(q)) \in Nat \ {0}
    BY <1>1, EmptySeq
<1> QED BY <1>1, <1>2, <1>3, <1>4

LEMMA LineTypes ==
    /\ \A s \in Shards : Published(s) \in Line
    /\ \A f \in SUBSET Shards : Result(f) \in Line
    /\ Cut \in Line
    /\ \A l \in Line : l.kind = "PUBLISHED" => \A s \in l.of : s \in Shards /\ l = Published(s)
    /\ \A l \in Line : l.kind \in {"PUBLISHED", "RESULT", "CUT"}
<1>1. \A s \in Shards : Published(s) \in Line
    BY DEF Line
<1>2. \A f \in SUBSET Shards : Result(f) \in Line
    BY DEF Line
<1>3. Cut \in Line
    BY DEF Line
<1>4. ASSUME NEW l \in Line PROVE l.kind \in {"PUBLISHED", "RESULT", "CUT"}
    BY DEF Line, Published, Result, Cut
<1>5. ASSUME NEW l \in Line, l.kind = "PUBLISHED", NEW s \in l.of
      PROVE  s \in Shards /\ l = Published(s)
    <2>1. PICK z \in Shards : l = Published(z)
        BY <1>5 DEF Line, Result, Cut
    <2> QED BY <2>1, <1>5 DEF Published
<1> QED BY <1>1, <1>2, <1>3, <1>4, <1>5

-----------------------------------------------------------------------------
(* Types *)

LEMMA Emptied ==
    /\ << >> \in Seq(Shards) /\ << >> \in Seq(Line)
    /\ NoChild \in ChildState /\ NewRun \in RunState
<1>1. << >> \in Seq(Line) /\ << >> \in Seq(Shards)
    BY EmptySeq
<1>2. NoChild \in ChildState
    BY DEF NoChild, ChildState
<1>3. NewRun \in RunState
    BY DEF NewRun, RunState
<1> QED BY <1>1, <1>2, <1>3

LEMMA Appended ==
    /\ \A q \in Seq(Line), l \in Line : Append(q, l) \in Seq(Line)
    /\ \A q \in Seq(Shards), s \in Shards : Append(q, s) \in Seq(Shards)
BY AppendProperties

LEMMA TypeInit == ASSUME CompileInit PROVE CompileTypeOK
<1>1. /\ s_state \in {"idle", "running", "done"} /\ child \in ChildState /\ pipe \in Seq(Line)
      /\ run \in RunState /\ emu \in {"frame", "commit", "join", "shut", "down"}
    BY Emptied DEF CompileInit
<1>2. /\ watcher \in {"none", "reading", "ended"}
      /\ preparer \in {"none", "top", "waiting", "mapping", "mapped", "decide", "store", "ended"}
    BY DEF CompileInit
<1>3. {raw, ready, hand, commit} \subseteq Seq(Shards)
    BY Emptied DEF CompileInit
<1>4. input_done \in BOOLEAN /\ stop \in BOOLEAN /\ gate \in BOOLEAN /\ runs \in Nat
    BY DEF CompileInit
<1>5. {cache, loaded, images, unmet} \subseteq SUBSET Shards
    BY DEF CompileInit
<1> QED BY <1>1, <1>2, <1>3, <1>4, <1>5 DEF CompileTypeOK

LEMMA WokenType == CompileTypeOK => Woken \in {"none", "top", "mapping", "mapped", "decide", "store", "ended"}
BY DEF CompileTypeOK, Woken

LEMMA TypeStep ==
    ASSUME CompileTypeOK, OneItem, [CompileNext]_compileVars
    PROVE  CompileTypeOK'
<1> USE DEF queueVars, endVars, childVars, cacheVars
<1>1. CASE UNCHANGED compileVars
    BY <1>1 DEF CompileTypeOK, compileVars
<1>2. ASSUME NEW s \in Shards, ChildCompiles(s) PROVE CompileTypeOK'
    <2>1. child' \in ChildState
        <3>1. child \in ChildState
            BY DEF CompileTypeOK
        <3>2. CASE child' = [child EXCEPT !.left = @ \ {s}]
            BY <3>1, <3>2 DEF ChildState
        <3>3. CASE child' = [child EXCEPT !.left = @ \ {s}, !.failed = @ \cup {s}]
            BY <3>1, <3>3 DEF ChildState
        <3> QED BY <1>2, <3>2, <3>3 DEF ChildCompiles
    <2>2. pipe' \in Seq(Line)
        <3>1. Published(s) \in Line
            BY LineTypes
        <3>2. pipe' = pipe \/ pipe' = Append(pipe, Published(s))
            BY <1>2 DEF ChildCompiles
        <3> QED BY <3>1, <3>2, Appended DEF CompileTypeOK
    <2>3. cache' \subseteq Shards /\ unmet' \subseteq Shards
        BY <1>2 DEF CompileTypeOK, ChildCompiles
    <2> QED BY <1>2, <2>1, <2>2, <2>3 DEF CompileTypeOK, ChildCompiles
<1>3. ASSUME NEW work \in SUBSET Shards, RequestStarts(work) PROVE CompileTypeOK'
    <2>1. child' \in ChildState
        BY <1>3 DEF RequestStarts, NoChild, ChildState
    <2>2. raw' \in Seq(Shards) /\ ready' \in Seq(Shards) /\ images' \subseteq Shards
        BY <1>3, Emptied DEF CompileTypeOK, RequestStarts, RequestResets, DiscardAll
    <2>3. runs' \in Nat
        BY <1>3 DEF CompileTypeOK, RequestStarts
    <2> QED BY <1>3, <2>1, <2>2, <2>3, Emptied DEF CompileTypeOK, RequestStarts, RequestResets
<1>4. CASE RequestFails
    <2>1. raw' \in Seq(Shards) /\ ready' \in Seq(Shards) /\ images' \subseteq Shards
        BY <1>4, Emptied DEF CompileTypeOK, RequestFails, RequestResets, DiscardAll
    <2> QED BY <1>4, <2>1, Emptied DEF CompileTypeOK, RequestFails, RequestResets
<1>5. CASE ChildReports
    <2>1. child' \in ChildState
        BY <1>5 DEF CompileTypeOK, ChildReports, ChildState
    <2>2. child.failed \in SUBSET Shards
        BY DEF CompileTypeOK, ChildState
    <2>3. pipe' \in Seq(Line)
        BY <1>5, <2>2, LineTypes, AppendProperties DEF CompileTypeOK, ChildReports
    <2> QED BY <1>5, <2>1, <2>3 DEF CompileTypeOK, ChildReports
<1>6. CASE ChildExits
    <2>1. child' \in ChildState
        BY <1>6 DEF CompileTypeOK, ChildExits, ChildState
    <2>2. child.left \in SUBSET Shards
        BY DEF CompileTypeOK, ChildState
    <2>3. pipe' \in Seq(Line) /\ unmet' \subseteq Shards
        <3>1. \/ pipe' = pipe /\ unmet' = unmet
              \/ \E s \in child.left : pipe' = Append(pipe, Cut) /\ unmet' = unmet \cup {s}
            BY <1>6 DEF ChildExits
        <3>2. pipe \in Seq(Line) /\ unmet \subseteq Shards
            BY DEF CompileTypeOK
        <3>3. Cut \in Line
            BY LineTypes
        <3> QED BY <2>2, <3>1, <3>2, <3>3, Appended
    <2> QED BY <1>6, <2>1, <2>3 DEF CompileTypeOK, ChildExits
<1>7. CASE WatcherReads
    <2>1. pipe \in Seq(Line) /\ pipe # << >> /\ run \in RunState
        BY <1>7 DEF CompileTypeOK, WatcherReads
    <2>2. Head(pipe) \in Line /\ Tail(pipe) \in Seq(Line)
        BY <2>1, QueueTail
    <2>3. raw' \in Seq(Shards)
        <3>1. CASE raw' = raw
            BY <3>1 DEF CompileTypeOK
        <3>2. CASE Head(pipe).kind = "PUBLISHED" /\ \E s \in Head(pipe).of : raw' = Append(raw, s)
            BY <3>2, <2>2, LineTypes, Appended DEF CompileTypeOK
        <3> QED BY <1>7, <3>1, <3>2 DEF WatcherReads
    <2>4. run' \in RunState
        <3>1. \/ run' = run \/ run' = [run EXCEPT !.bad = TRUE]
              \/ \E b \in BOOLEAN : run' = [seen |-> TRUE, bad |-> run.bad \/ b]
            BY <1>7 DEF WatcherReads
        <3>2. run.bad \in BOOLEAN
            BY <2>1 DEF RunState
        <3>3. CASE run' = [run EXCEPT !.bad = TRUE]
            BY <2>1, <3>3 DEF RunState
        <3>4. ASSUME NEW b \in BOOLEAN, run' = [seen |-> TRUE, bad |-> run.bad \/ b]
              PROVE  run' \in RunState
            BY <3>2, <3>4 DEF RunState
        <3> QED BY <2>1, <3>1, <3>3, <3>4
    <2> QED BY <1>7, <2>1, <2>2, <2>3, <2>4, WokenType DEF CompileTypeOK, WatcherReads
<1>8. CASE WatcherEnds
    <2>1. run' \in RunState
        BY <1>8 DEF CompileTypeOK, WatcherEnds, RunState, ChildState
    <2> QED BY <1>8, <2>1, Emptied, WokenType DEF CompileTypeOK, WatcherEnds
<1>9. CASE PrepareTakes
    <2>1. raw' \in Seq(Shards) /\ hand' \in Seq(Shards)
        <3>1. CASE raw' = raw /\ hand' = hand
            BY <3>1 DEF CompileTypeOK
        <3>2. CASE raw # << >> /\ hand' = <<Head(raw)>> /\ raw' = Tail(raw)
            <4>1. Head(raw) \in Shards /\ Tail(raw) \in Seq(Shards)
                BY <3>2, QueueTail DEF CompileTypeOK
            <4> QED BY <3>2, <4>1
        <3> QED BY <1>9, <3>1, <3>2 DEF PrepareTakes
    <2>2. preparer' \in {"decide", "waiting", "mapping"}
        BY <1>9 DEF PrepareTakes
    <2> QED BY <1>9, <2>1, <2>2 DEF CompileTypeOK, PrepareTakes
<1>10. CASE PrepareMaps
    <2>1. hand[1] \in Shards
        BY <1>10, QueueTail DEF CompileTypeOK, OneItem, PrepareMaps
    <2>2. run' \in RunState /\ hand' \in Seq(Shards)
        BY <1>10, Emptied DEF CompileTypeOK, PrepareMaps, RunState
    <2> QED BY <1>10, <2>1, <2>2 DEF CompileTypeOK, PrepareMaps
<1>11. CASE PrepareHands
    BY <1>11, Emptied DEF CompileTypeOK, PrepareHands
<1>12. CASE PrepareDecides
    BY <1>12 DEF CompileTypeOK, PrepareDecides
<1>13. CASE PrepareStores
    BY <1>13 DEF CompileTypeOK, PrepareStores
<1>14. CASE PollPops
    <2>1. Head(ready) \in Shards /\ Tail(ready) \in Seq(Shards)
        BY <1>14, QueueTail DEF CompileTypeOK, PollPops
    <2>2. commit' \in Seq(Shards)
        BY <1>14, <2>1 DEF PollPops
    <2> QED BY <1>14, <2>1, <2>2 DEF CompileTypeOK, PollPops
<1>15. CASE PollCommits
    <2>1. commit[1] \in Shards
        BY <1>15, QueueTail DEF CompileTypeOK, OneItem, PollCommits
    <2>2. run' \in RunState
        BY <1>15 DEF CompileTypeOK, PollCommits, RunState
    <2> QED BY <1>15, <2>1, <2>2, Emptied, WokenType DEF CompileTypeOK, PollCommits
<1>16. CASE PollChecks
    BY <1>16 DEF CompileTypeOK, PollChecks
<1>17. CASE PollJoins
    <2>1. gate' \in BOOLEAN
        BY <1>17 DEF PollJoins
    <2> QED BY <1>17, <2>1, Emptied DEF CompileTypeOK, PollJoins
<1>18. CASE GateOpens
    <2>1. gate' \in BOOLEAN
        BY <1>18 DEF GateOpens
    <2> QED BY <1>18, <2>1 DEF CompileTypeOK, GateOpens
<1>19. CASE ShutdownStops
    <2>1. child' \in ChildState
        BY <1>19 DEF CompileTypeOK, ShutdownStops, ChildState
    <2>2. pipe' \in Seq(Line)
        <3>1. pipe' \in {pipe, Append(pipe, Cut)}
            BY <1>19 DEF ShutdownStops
        <3>2. Cut \in Line
            BY LineTypes
        <3> QED BY <3>1, <3>2, Appended DEF CompileTypeOK
    <2> QED BY <1>19, <2>1, <2>2, WokenType DEF CompileTypeOK, ShutdownStops
<1>20. CASE ShutdownJoins
    <2>1. raw' \in Seq(Shards) /\ ready' \in Seq(Shards) /\ images' \subseteq Shards
        BY <1>20, Emptied DEF CompileTypeOK, ShutdownJoins, DiscardAll
    <2> QED BY <1>20, <2>1, Emptied DEF CompileTypeOK, ShutdownJoins
<1> QED
    BY <1>1, <1>2, <1>3, <1>4, <1>5, <1>6, <1>7, <1>8, <1>9, <1>10, <1>11, <1>12, <1>13,
       <1>14, <1>15, <1>16, <1>17, <1>18, <1>19, <1>20 DEF CompileNext, Worker, Poll

-----------------------------------------------------------------------------
(* The queues and the threads *)

ControlInv == OneItem /\ ImageIsHeld /\ Threads /\ Drained

LEMMA ControlInit == CompileInit => ControlInv
BY DEF CompileInit, ControlInv, OneItem, ImageIsHeld, Threads, Drained, NoChild

LEMMA ControlStep ==
    ASSUME CompileTypeOK, ControlInv, [CompileNext]_compileVars
    PROVE  ControlInv'
<1> USE DEF queueVars, endVars, childVars, cacheVars, ControlInv, OneItem, ImageIsHeld, Threads,
            Drained
<1>1. CASE UNCHANGED compileVars
    BY <1>1 DEF compileVars
<1>2. ASSUME NEW s \in Shards, ChildCompiles(s) PROVE ControlInv'
    BY <1>2 DEF CompileTypeOK, ChildState, ChildCompiles
<1>3. ASSUME NEW work \in SUBSET Shards, RequestStarts(work) PROVE ControlInv'
    BY <1>3 DEF CompileTypeOK, ChildState, RequestStarts, RequestResets, RequestOpen, DiscardAll, NoChild
<1>4. CASE RequestFails
    BY <1>4 DEF CompileTypeOK, ChildState, RequestFails, RequestResets, RequestOpen, DiscardAll
<1>5. CASE ChildReports
    BY <1>5 DEF CompileTypeOK, ChildState, ChildReports
<1>6. CASE ChildExits
    BY <1>6 DEF CompileTypeOK, ChildState, ChildExits
<1>7. CASE WatcherReads
    BY <1>7 DEF CompileTypeOK, ChildState, WatcherReads, Woken
<1>8. CASE WatcherEnds
    BY <1>8 DEF CompileTypeOK, ChildState, WatcherEnds, Woken
<1>9. CASE PrepareTakes
    <2>1. CASE UNCHANGED <<raw, hand>>
        BY <1>9, <2>1 DEF CompileTypeOK, PrepareTakes
    <2>2. CASE ~UNCHANGED <<raw, hand>>
        <3>1. /\ preparer = "top" /\ preparer' = "mapping" /\ ~stop
              /\ ready = << >> /\ commit = << >> /\ hand' = <<Head(raw)>>
            BY <1>9, <2>2 DEF PrepareTakes
        <3>2. hand' # << >> /\ Len(hand') = 1
            BY <3>1
        <3>3. UNCHANGED <<s_state, childVars, watcher, ready, commit, images, endVars, emu>>
            BY <1>9 DEF PrepareTakes
        <3>4. OneItem' /\ ImageIsHeld'
            BY <3>1, <3>2, <3>3
        <3>5. Threads' /\ Drained'
            BY <3>1, <3>3
        <3> QED BY <3>4, <3>5
    <2> QED BY <2>1, <2>2
<1>10. CASE PrepareMaps
    BY <1>10 DEF CompileTypeOK, ChildState, PrepareMaps
<1>11. CASE PrepareHands
    BY <1>11 DEF CompileTypeOK, ChildState, PrepareHands
<1>12. CASE PrepareDecides
    BY <1>12 DEF CompileTypeOK, ChildState, PrepareDecides
<1>13. CASE PrepareStores
    BY <1>13 DEF CompileTypeOK, ChildState, PrepareStores
<1>14. CASE PollPops
    BY <1>14 DEF CompileTypeOK, ChildState, PollPops
<1>15. CASE PollCommits
    BY <1>15 DEF CompileTypeOK, ChildState, PollCommits, Woken
<1>16. CASE PollChecks
    BY <1>16 DEF CompileTypeOK, ChildState, PollChecks, PublishPending
<1>17. CASE PollJoins
    BY <1>17 DEF CompileTypeOK, ChildState, PollJoins, NoChild
<1>18. CASE GateOpens
    BY <1>18 DEF CompileTypeOK, ChildState, GateOpens
<1>19. CASE ShutdownStops
    BY <1>19 DEF CompileTypeOK, ChildState, ShutdownStops, Woken
<1>20. CASE ShutdownJoins
    BY <1>20 DEF CompileTypeOK, ChildState, ShutdownJoins, DiscardAll, NoChild
<1> QED
    BY <1>1, <1>2, <1>3, <1>4, <1>5, <1>6, <1>7, <1>8, <1>9, <1>10, <1>11, <1>12, <1>13, <1>14, <1>15, <1>16, <1>17, <1>18, <1>19, <1>20
       DEF CompileNext, Worker, Poll

-----------------------------------------------------------------------------
(* The shards of a run *)

LEMMA AccountedInit == CompileInit => Accounted
BY DEF CompileInit, Accounted

LEMMA UnderwayAfter ==
    /\ \A q \in Seq(Line), l, m \in Line :
         (\E i \in DOMAIN q : q[i] = l) \/ l = m =>
             \E i \in DOMAIN Append(q, m) : Append(q, m)[i] = l
    /\ \A q \in Seq(Shards), s, t \in Shards :
         (\E i \in DOMAIN q : q[i] = s) \/ s = t =>
             \E i \in DOMAIN Append(q, t) : Append(q, t)[i] = s
<1>1. ASSUME NEW S, NEW q \in Seq(S), NEW l \in S, NEW m \in S,
             (\E i \in DOMAIN q : q[i] = l) \/ l = m
      PROVE  \E i \in DOMAIN Append(q, m) : Append(q, m)[i] = l
    <2>1. Len(q) \in Nat /\ DOMAIN q = 1 .. Len(q)
        BY LenProperties
    <2>2. /\ DOMAIN Append(q, m) = 1 .. Len(q) + 1
          /\ Append(q, m)[Len(q) + 1] = m
          /\ \A i \in 1 .. Len(q) : Append(q, m)[i] = q[i]
        BY AppendProperties, LenProperties
    <2> QED BY <1>1, <2>1, <2>2
<1> QED BY <1>1

\* What is taken from the head of a queue is what is no longer in it.
LEMMA UnderwayTaken ==
    ASSUME NEW S, NEW q \in Seq(S), q # << >>, NEW l \in S, NEW i \in DOMAIN q, q[i] = l
    PROVE  l = Head(q) \/ \E j \in DOMAIN Tail(q) : Tail(q)[j] = l
<1>1. Len(q) \in Nat /\ DOMAIN q = 1 .. Len(q)
    BY LenProperties
<1>2. Tail(q) \in Seq(S) /\ Len(Tail(q)) = Len(q) - 1
    BY HeadTailProperties
<1>3. DOMAIN Tail(q) = 1 .. Len(q) - 1
    BY <1>2, LenProperties
<1>4. \A j \in 1 .. Len(q) - 1 : Tail(q)[j] = q[j + 1]
    BY <1>2, HeadTailProperties
<1>5. CASE i = 1
    BY <1>5, QueueTail
<1>6. CASE i # 1
    <2>1. i - 1 \in 1 .. Len(q) - 1 /\ q[(i - 1) + 1] = l
        BY <1>1, <1>6
    <2> QED BY <2>1, <1>3, <1>4
<1> QED BY <1>5, <1>6

\* Before a step, as after it.
Known(s) == ~stop /\ s_state # "idle" /\ s \in unmet /\ ~run.bad
            /\ ~(watcher = "reading" /\ ~child.up /\ child.exit)

LEMMA AccountedStep ==
    ASSUME CompileTypeOK, ControlInv, Accounted, [CompileNext]_compileVars
    PROVE  Accounted'
<1> SUFFICES ASSUME NEW s \in unmet', Known(s)' PROVE Underway(s)'
    BY DEF Accounted, Known
<1> USE DEF queueVars, endVars, childVars, cacheVars
<1>a. Known(s) => Underway(s)
    BY DEF Accounted, Known
<1>b. pipe \in Seq(Line) /\ raw \in Seq(Shards) /\ unmet \subseteq Shards
    BY DEF CompileTypeOK
<1>1. CASE UNCHANGED compileVars
    BY <1>1, <1>a DEF compileVars, Known, Underway
<1>2. ASSUME NEW t \in Shards, ChildCompiles(t) PROVE Underway(s)'
    <2>1. s # t => Known(s)
        BY <1>2 DEF ChildCompiles, Known
    <2>2. CASE pipe' = pipe /\ unmet' = unmet
        <3>1. Known(s)
            BY <1>2, <2>2 DEF ChildCompiles, Known
        <3> QED BY <1>2, <1>a, <2>2, <3>1 DEF ChildCompiles, Underway
    <2>3. CASE pipe' = Append(pipe, Published(t)) /\ unmet' = unmet \cup {t}
        <3>1. Published(t) \in Line /\ Published(s) \in Line
            BY <2>3, <1>b, LineTypes
        <3>2. CASE s = t
            BY <1>b, <2>3, <3>1, <3>2, UnderwayAfter DEF Underway
        <3>3. CASE s # t
            <4>1. Underway(s)
                BY <1>a, <2>1, <3>3
            <4>2. (\E i \in DOMAIN pipe : pipe[i] = Published(s)) =>
                      \E i \in DOMAIN pipe' : pipe'[i] = Published(s)
                BY <1>b, <2>3, <3>1, UnderwayAfter
            <4>3. UNCHANGED <<raw, hand, ready, commit>>
                BY <1>2 DEF ChildCompiles
            <4> QED BY <4>1, <4>2, <4>3 DEF Underway
        <3> QED BY <3>2, <3>3
    <2> QED BY <1>2, <2>2, <2>3 DEF ChildCompiles
<1>3. ASSUME NEW work \in SUBSET Shards, RequestStarts(work) PROVE Underway(s)'
    BY <1>3 DEF RequestStarts
<1>4. CASE RequestFails
    BY <1>4 DEF RequestFails, RequestResets, RequestOpen, Known
<1>5. CASE ChildReports
    <2>1. Known(s) /\ Underway(s)
        BY <1>5, <1>a DEF ChildReports, Known
    <2>2. child.failed \in SUBSET Shards
        BY DEF CompileTypeOK, ChildState
    <2>3. Result(child.failed) \in Line /\ Published(s) \in Line
        BY <1>b, <1>5, <2>2, LineTypes DEF ChildReports
    <2>4. pipe' = Append(pipe, Result(child.failed)) /\ UNCHANGED <<raw, hand, ready, commit>>
        BY <1>5 DEF ChildReports
    <2>5. (\E i \in DOMAIN pipe : pipe[i] = Published(s)) =>
              \E i \in DOMAIN pipe' : pipe'[i] = Published(s)
        BY <1>b, <2>3, <2>4, UnderwayAfter
    <2> QED BY <2>1, <2>4, <2>5 DEF Underway
<1>6. CASE ChildExits
    <2>1. watcher = "reading" /\ watcher' = watcher
        BY <1>6 DEF ChildExits, ControlInv, Drained
    <2>2. child \in ChildState
        BY DEF CompileTypeOK
    <2>3. child' = [child EXCEPT !.up = FALSE, !.exit = child.failed # {}] /\ UNCHANGED <<pipe, unmet>>
        <3>1. child' # [child EXCEPT !.up = FALSE, !.exit = TRUE]
            BY <2>1, <2>2 DEF Known, ChildState
        <3> QED BY <1>6, <3>1 DEF ChildExits
    <2>4. Known(s)
        BY <1>6, <2>2, <2>3 DEF ChildExits, Known
    <2> QED BY <1>6, <1>a, <2>3, <2>4 DEF ChildExits, Underway
<1>7. CASE WatcherReads
    <2>1. Known(s) /\ Underway(s)
        <3>1. run.bad => run'.bad
            BY <1>7 DEF WatcherReads, CompileTypeOK, RunState
        <3> QED BY <1>7, <1>a, <3>1 DEF WatcherReads, Known
    <2>2. pipe # << >> /\ pipe' = Tail(pipe) /\ Head(pipe) \in Line
        BY <1>7, <1>b, QueueTail DEF WatcherReads
    <2>3. Published(s) \in Line /\ s \in Shards
        BY <1>b, <1>7, LineTypes DEF WatcherReads
    <2>4. UNCHANGED <<hand, ready, commit>>
        BY <1>7 DEF WatcherReads
    <2>5. ASSUME NEW i \in DOMAIN pipe, pipe[i] = Published(s)
          PROVE  Head(pipe) = Published(s) \/ \E j \in DOMAIN pipe' : pipe'[j] = Published(s)
        BY <1>b, <2>2, <2>3, <2>5, UnderwayTaken
    <2>6. CASE Head(pipe).kind = "PUBLISHED" /\ \E t \in Head(pipe).of : raw' = Append(raw, t)
        <3>1. PICK t \in Head(pipe).of : raw' = Append(raw, t)
            BY <2>6
        <3>2. t \in Shards /\ Head(pipe) = Published(t)
            BY <2>2, <2>6, LineTypes
        <3>3. Head(pipe) = Published(s) => s = t
            BY <3>2 DEF Published
        <3>4. (s = t \/ \E i \in DOMAIN raw : raw[i] = s) => \E i \in DOMAIN raw' : raw'[i] = s
            BY <1>b, <2>3, <3>1, <3>2, UnderwayAfter
        <3> QED BY <2>1, <2>4, <2>5, <3>3, <3>4 DEF Underway
    <2>7. CASE Head(pipe).kind = "RESULT" /\ raw' = raw
        <3>1. Head(pipe) # Published(s)
            BY <2>7 DEF Published
        <3> QED BY <2>1, <2>4, <2>5, <2>7, <3>1 DEF Underway
    <2>8. ~(run' = [run EXCEPT !.bad = TRUE])
        BY DEF Known, CompileTypeOK, RunState
    <2> QED BY <1>7, <2>6, <2>7, <2>8 DEF WatcherReads
<1>8. CASE WatcherEnds
    <2>1. ~run.bad /\ pipe = << >> /\ ~child.exit
        BY <1>8 DEF WatcherEnds, Known, CompileTypeOK, RunState, ChildState
    <2>2. Known(s)
        BY <1>8, <2>1 DEF WatcherEnds, Known
    <2> QED BY <1>8, <1>a, <2>1, <2>2 DEF WatcherEnds, Underway
<1>9. CASE PrepareTakes
    <2>1. Known(s) /\ Underway(s)
        BY <1>9, <1>a DEF PrepareTakes, Known
    <2>2. CASE UNCHANGED <<raw, hand>>
        BY <1>9, <2>1, <2>2 DEF PrepareTakes, Underway
    <2>3. CASE ~UNCHANGED <<raw, hand>>
        <3>1. preparer = "top" /\ raw # << >> /\ hand' = <<Head(raw)>> /\ raw' = Tail(raw)
            BY <1>9, <2>3 DEF PrepareTakes
        <3>2. hand = << >>
            BY <3>1 DEF ControlInv, OneItem
        <3>3. s \in Shards
            BY <1>b, <2>1 DEF Known
        <3>4. ASSUME NEW i \in DOMAIN raw, raw[i] = s
              PROVE  s = Head(raw) \/ \E j \in DOMAIN raw' : raw'[j] = s
            BY <1>b, <3>1, <3>3, <3>4, UnderwayTaken
        <3>5. hand'[1] = Head(raw) /\ 1 \in DOMAIN hand'
            BY <3>1
        <3>6. UNCHANGED <<pipe, ready, commit>>
            BY <1>9 DEF PrepareTakes
        <3> QED BY <2>1, <3>2, <3>4, <3>5, <3>6 DEF Underway
    <2> QED BY <2>2, <2>3
<1>10. CASE PrepareMaps
    <2>1. run' = run /\ hand' = hand
        BY <1>10 DEF PrepareMaps, Known, CompileTypeOK, RunState
    <2>2. Known(s)
        BY <1>10, <2>1 DEF PrepareMaps, Known
    <2> QED BY <1>10, <1>a, <2>1, <2>2 DEF PrepareMaps, Underway
<1>11. CASE PrepareHands
    <2>1. Known(s) /\ ~stop
        BY <1>11 DEF PrepareHands, Known
    <2>2. ready = << >> /\ ready' = hand /\ UNCHANGED <<pipe, raw, commit>>
        BY <1>11, <2>1 DEF PrepareHands
    <2> QED BY <1>a, <2>1, <2>2 DEF Underway
<1>12. CASE PrepareDecides
    BY <1>12, <1>a DEF PrepareDecides, Known, Underway
<1>13. CASE PrepareStores
    <2>1. s_state # "idle"
        BY <1>13 DEF PrepareStores, ControlInv, Threads
    <2> QED BY <1>13, <1>a, <2>1 DEF PrepareStores, Known, Underway
<1>14. CASE PollPops
    <2>1. Known(s) /\ Underway(s)
        BY <1>14, <1>a DEF PollPops, Known
    <2>2. Len(ready) = 1 /\ ready \in Seq(Shards) /\ ready # << >> /\ commit = << >>
        BY <1>14 DEF PollPops, ControlInv, OneItem, CompileTypeOK
    <2>3. DOMAIN ready = {1} /\ Head(ready) = ready[1]
        BY <2>2, LenProperties, QueueTail
    <2>4. commit'[1] = ready[1] /\ 1 \in DOMAIN commit'
        BY <1>14, <2>3 DEF PollPops
    <2> QED BY <1>14, <2>1, <2>2, <2>3, <2>4 DEF PollPops, Underway
<1>15. CASE PollCommits
    <2>1. unmet' = unmet \ {commit[1]} /\ run' = run
        BY <1>15 DEF PollCommits, Known, CompileTypeOK, RunState
    <2>2. Known(s) /\ Underway(s)
        BY <1>15, <1>a, <2>1 DEF PollCommits, Known
    <2>3. Len(commit) = 1 /\ commit \in Seq(Shards)
        BY <1>15 DEF PollCommits, ControlInv, OneItem, CompileTypeOK
    <2>4. DOMAIN commit = {1}
        BY <2>3, LenProperties
    <2>5. UNCHANGED <<pipe, raw, hand, ready>>
        BY <1>15 DEF PollCommits
    <2> QED BY <2>1, <2>2, <2>4, <2>5 DEF Underway
<1>16. CASE PollChecks
    BY <1>16, <1>a DEF PollChecks, Known, Underway
<1>17. CASE PollJoins
    BY <1>17 DEF PollJoins, Known
<1>18. CASE GateOpens
    BY <1>18, <1>a DEF GateOpens, Known, Underway
<1>19. CASE ShutdownStops
    BY <1>19 DEF ShutdownStops, Known
<1>20. CASE ShutdownJoins
    BY <1>20 DEF ShutdownJoins, Known
<1> QED
    BY <1>1, <1>2, <1>3, <1>4, <1>5, <1>6, <1>7, <1>8, <1>9, <1>10, <1>11, <1>12, <1>13,
       <1>14, <1>15, <1>16, <1>17, <1>18, <1>19, <1>20 DEF CompileNext, Worker, Poll

-----------------------------------------------------------------------------
(* The theorems *)

\* The strengthened invariant of the compiler.
THEOREM CompileInvariance == CompileSpec => []CompileInv
<1>1. CompileInit => CompileInv
    BY TypeInit, ControlInit, AccountedInit DEF CompileInv, ControlInv
<1>2. CompileInv /\ [CompileNext]_compileVars => CompileInv'
    BY TypeStep, ControlStep, AccountedStep DEF CompileInv, ControlInv
<1> QED BY <1>1, <1>2, PTL DEF CompileSpec

\* Every variable of the compiler keeps its type.
THEOREM CompileTypeCorrect == CompileSpec => []CompileTypeOK
<1>1. CompileInv => CompileTypeOK
    BY DEF CompileInv
<1> QED BY <1>1, CompileInvariance, PTL

\* The preparer never maps a shard while another is mapped and waiting, or is
\* being committed by the emulation thread.
THEOREM OneHandedOver == CompileSpec => []OneHandoff
<1>1. CompileInv => OneHandoff
    BY DEF CompileInv, OneItem, OneHandoff
<1> QED BY <1>1, CompileInvariance, PTL

\* Between two runs nothing of the first is left: no thread, no queue, no image.
THEOREM RunsDoNotOverlap == CompileSpec => []IdleIsQuiet
<1>1. CompileInv => IdleIsQuiet
    BY DEF CompileInv, OneItem, ImageIsHeld, Threads, Drained, IdleIsQuiet, PublishPending
<1> QED BY <1>1, CompileInvariance, PTL

\* The retry gate is reset only by a run of which the game has every shard.
THEOREM SuccessIsHonest == CompileSpec => HonestSuccess
<1>1. CompileInv /\ [CompileNext]_compileVars =>
          [emu = "join" /\ s_state' = "idle" /\ ~gate' => unmet = {}]_compileVars
    <2> SUFFICES ASSUME CompileInv, CompileNext, emu = "join", s_state' = "idle", ~gate'
                 PROVE  unmet = {}
        OBVIOUS
    <2>1. s_state = "done" /\ ready = << >> /\ preparer = "ended" /\ ~stop
        BY DEF CompileInv, Threads, Drained
    <2>2. raw = << >> /\ input_done /\ watcher = "ended" /\ pipe = << >>
        BY <2>1 DEF CompileInv, Drained
    <2>3. hand = << >> /\ commit = << >>
        BY <2>1 DEF CompileInv, OneItem
    <2>4. \A s : ~Underway(s)
        BY <2>1, <2>2, <2>3 DEF Underway
    <2>5. run.bad \/ unmet = {}
        BY <2>1, <2>2, <2>4 DEF CompileInv, Accounted
    <2>6. CASE PollJoins
        BY <2>5, <2>6 DEF PollJoins
    <2>7. CASE ~PollJoins
        BY <2>1, <2>7 DEF CompileNext, Worker, Poll, ChildCompiles, ChildReports, ChildExits,
            WatcherReads, WatcherEnds, PrepareTakes, PrepareMaps, PrepareHands, PrepareDecides,
            PrepareStores, PollPops, PollCommits, PollChecks, RequestStarts, RequestFails,
            GateOpens, ShutdownStops, ShutdownJoins, childVars
    <2> QED BY <2>6, <2>7
<1> QED BY <1>1, CompileInvariance, PTL DEF CompileSpec, HonestSuccess
============================================================================
