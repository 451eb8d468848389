---------------------------- MODULE NetplayAdmit ----------------------------
(***************************************************************************)
(* The game's frame loop on top of DelaySync in delay-sync mode:           *)
(* psx_netplay_poll_admit with its starvation hold (psx_netplay.c).  After *)
(* EnterFrames failed polls in a row a peer is latched: it only pumps, and *)
(* does not call rnet_session_try_admit again until the samples it holds   *)
(* reach InputDelay ticks ahead for ExitFrames polls.                      *)
(*                                                                         *)
(* No savestate or memory-card transfer is in progress (those paths bypass *)
(* or reset the hold), and PSX_NET_STARVATION_EXIT_HR_LEAD has its         *)
(* default 0.                                                              *)
(***************************************************************************)
EXTENDS DelaySync

CONSTANTS
    EnterFrames,    \* PSX_STARVATION_ENTER_DEFAULT (4)
    ExitFrames,     \* PSX_STARVATION_EXIT_DEFAULT (3)
    GraceTicks      \* PSX_STARVATION_GRACE_TICKS (60)

ASSUME StarvationAssumption ==
    /\ {EnterFrames, ExitFrames} \subseteq Nat \ {0}
    /\ GraceTicks \in Nat
    /\ \A p \in Slots : InputDelay[p] > 0

VARIABLES latched, enter_run, exit_run      \* g_starv, one per peer

starvVars == <<latched, enter_run, exit_run>>
hostVars == <<vars, starvVars>>

HostTypeOK ==
    /\ latched \in [Slots -> BOOLEAN]
    /\ enter_run \in [Slots -> 0 .. EnterFrames - 1]
    /\ exit_run \in [Slots -> 0 .. ExitFrames - 1]

HostInit ==
    /\ Init
    /\ latched = [p \in Slots |-> FALSE]
    /\ enter_run = [p \in Slots |-> 0]
    /\ exit_run = [p \in Slots |-> 0]

\* RNetSessionStats.remote_lead: the furthest row held of any other peer.
RemoteLead(p) ==
    Max({HighestValid(remote_rings[p][q]) : q \in Peers(p)}) - sim_tick[p]

RunwayOk(p) == RemoteLead(p) >= InputDelay[p]

InGrace(p) == sim_tick[p] < GraceTicks

\* The pump of a poll that ends at the latch.
PollLatched(p) ==
    /\ ~needs_advance[p]
    /\ ~InGrace(p)
    /\ latched[p]
    /\ \/ RunwayOk(p) /\ exit_run[p] + 1 < ExitFrames
          /\ exit_run' = [exit_run EXCEPT ![p] = @ + 1]
       \/ ~RunwayOk(p) /\ exit_run' = [exit_run EXCEPT ![p] = 0]
    /\ SendInputBundle(p)
    /\ UNCHANGED <<latched, enter_run>>

\* The latch is open, or this poll opens it, or the session is too young for it.
MayTry(p) ==
    \/ InGrace(p)
    \/ ~latched[p]
    \/ RunwayOk(p) /\ exit_run[p] + 1 >= ExitFrames

PollAdmitted(p) ==
    /\ MayTry(p)
    /\ Admit(p)
    /\ latched' = [latched EXCEPT ![p] = FALSE]
    /\ enter_run' = [enter_run EXCEPT ![p] = 0]
    /\ exit_run' = [exit_run EXCEPT ![p] = 0]

\* Mutant: the poll latches before it has sampled the tip.
PollMissed_Unsampled(p) ==
    /\ MayTry(p)
    /\ IF InGrace(p) THEN Stall(p) ELSE SendInputBundle(p)
    /\ latched' = [latched EXCEPT ![p] = ~InGrace(p)]
    /\ UNCHANGED <<enter_run, exit_run>>

\* Mutant: enter_run is not reset.
PollMissed_Counting(p) ==
    /\ MayTry(p)
    /\ Stall(p)
    /\ latched' = [latched EXCEPT ![p] = ~InGrace(p) /\ enter_run[p] + 1 >= EnterFrames]
    /\ enter_run' = [enter_run EXCEPT ![p] = IF InGrace(p) THEN 0 ELSE @ + 1]
    /\ exit_run' = [exit_run EXCEPT ![p] = 0]

PollMissed(p) ==
    LET latches == ~InGrace(p) /\ enter_run[p] + 1 >= EnterFrames
    IN  /\ MayTry(p)
        /\ Stall(p)
        /\ latched' = [latched EXCEPT ![p] = latches]
        /\ enter_run' = [enter_run EXCEPT ![p] = IF InGrace(p) \/ latches THEN 0 ELSE @ + 1]
        /\ exit_run' = [exit_run EXCEPT ![p] = 0]

Poll(p) == PollLatched(p) \/ PollAdmitted(p) \/ PollMissed(p)

\* The session's own steps: psx_netplay_pump at any time, finish_frame.
Session(p) == (SendInputBundle(p) \/ Receive(p) \/ Advance(p)) /\ UNCHANGED starvVars

HostNext == \E p \in Slots : Poll(p) \/ Session(p)

HostSpec == HostInit /\ [][HostNext]_hostVars

-----------------------------------------------------------------------------

\* A latched peer's polls repeat its INPUT bundle but no confirmation.
RepeatedByPoll(p) == IF latched[p] /\ ~InGrace(p) THEN Bundle(p, local_ring[p]) ELSE Repeated(p)

ReceiveRepeatedByPoll(p) ==
    /\ \E q \in Peers(p) : \E m \in net \cap RepeatedByPoll(q) :
          ReceiveInput(p, m) \/ ReceiveConfirm(p, m)
    /\ UNCHANGED starvVars

HostFairSpec ==
    /\ HostSpec
    /\ \A p \in Slots :
          /\ WF_hostVars(Poll(p))
          /\ WF_hostVars(Advance(p) /\ UNCHANGED starvVars)
          /\ WF_hostVars(ReceiveRepeatedByPoll(p))

\* The hold is never mutual: when every peer is latched, the slowest of them is
\* released as soon as the rows the others have already sampled reach it
\* (psx_netplay.c:4542-4558).
HoldNeverMutual ==
    (\A p \in Slots : latched[p]) =>
        \E p \in Slots : \A q \in Peers(p) :
            \E s \in local_ring[q] : s.tick - sim_tick[p] >= InputDelay[p]
=============================================================================
