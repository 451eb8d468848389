-------------------------- MODULE SessionBootstrap --------------------------
(***************************************************************************)
(* How a recomp-net session gets from its transport to its first tick:     *)
(* HELLO, READY and START, the guest's adoption of the host's input delay, *)
(* the neutral prefix of the delay, and the one restart of ICE over a      *)
(* relay (rnet_session.c).                                                 *)
(*                                                                         *)
(* Slot 0 is the sim authority.  net is every datagram sent so far: it may *)
(* arrive late, again, out of order or, where no fairness says otherwise,  *)
(* never.  Samples are left out: local_ring is the ticks a peer has a row  *)
(* for.  DelaySync takes over when every peer runs and has its prefix.     *)
(***************************************************************************)
EXTENDS Integers

CONSTANTS
    SlotCount,      \* RNetConfig.slot_count
    ConfigDelay,    \* ConfigDelay[p]: the delay p was configured with
    MinDelay,       \* the delays a guest adopts: 2 ...
    MaxDelay,       \* ... to 20
    HasTurn         \* the peers that use ICE and have TURN credentials

Slots == 0 .. SlotCount - 1
Authority == 0

ASSUME BootstrapAssumption ==
    /\ SlotCount \in Nat \ {0, 1}
    /\ ConfigDelay \in [Slots -> Nat]
    /\ MinDelay \in Nat /\ MaxDelay \in Nat
    /\ HasTurn \subseteq Slots

VARIABLES
    phase,
    delay,          \* the delay in force
    peer_ready,     \* peer_ready[p]: slots p has a READY of, itself included
    start_sent,
    sim_tick,       \* 0, or 1 once tick 0 was played
    local_ring,     \* ticks p has an own row for
    relay_tried,    \* ICE was restarted over the relay
    net

vars == <<phase, delay, peer_ready, start_sent, sim_tick, local_ring, relay_tried, net>>

Packet ==
    [type : {"HELLO"}, from : Slots, delay : Nat] \cup
    [type : {"READY"}, from : Slots] \cup
    [type : {"START"}, from : {Authority}]

TypeOK ==
    /\ phase \in [Slots -> {"IDLE", "LINKING", "READY", "RUNNING"}]
    /\ delay \in [Slots -> Nat]
    /\ peer_ready \in [Slots -> SUBSET Slots]
    /\ start_sent \in BOOLEAN
    /\ sim_tick \in [Slots -> 0 .. 1]
    /\ local_ring \in [Slots -> SUBSET Nat]
    /\ relay_tried \subseteq HasTurn
    /\ net \subseteq Packet

Init ==
    /\ phase = [p \in Slots |-> "IDLE"]
    /\ delay = ConfigDelay
    /\ peer_ready = [p \in Slots |-> {}]
    /\ start_sent = FALSE
    /\ sim_tick = [p \in Slots |-> 0]
    /\ local_ring = [p \in Slots |-> {}]
    /\ relay_tried = {}
    /\ net = {}

-----------------------------------------------------------------------------
(* rnet_session_pump *)

\* start_lan, start_lan_hub, or the pump that finds ICE completed.
Link(p) ==
    /\ phase[p] = "IDLE"
    /\ phase' = [phase EXCEPT ![p] = "LINKING"]
    /\ UNCHANGED <<delay, peer_ready, start_sent, sim_tick, local_ring, relay_tried, net>>

\* Mutant: the restart needs no TURN server.
RelayFallback_Unarmed(p) ==
    /\ phase[p] # "RUNNING"
    /\ phase' = [phase EXCEPT ![p] = "IDLE"]
    /\ relay_tried' = relay_tried \cup {p}
    /\ UNCHANGED <<delay, peer_ready, start_sent, sim_tick, local_ring, net>>

\* ICE failed, stalled or carries nothing: one restart, relay candidates only.
RelayFallback(p) ==
    /\ p \in HasTurn \ relay_tried
    /\ phase[p] # "RUNNING"
    /\ phase' = [phase EXCEPT ![p] = "IDLE"]
    /\ relay_tried' = relay_tried \cup {p}
    /\ UNCHANGED <<delay, peer_ready, start_sent, sim_tick, local_ring, net>>

Hello(p) == [type |-> "HELLO", from |-> p, delay |-> delay[p]]
Ready(p) == [type |-> "READY", from |-> p]
Start    == [type |-> "START", from |-> Authority]

\* seed_delay_prefix: rows already in the ring stay.
Seed(p, d) == local_ring[p] \cup 0 .. d - 1

Starts(p) == p = Authority /\ ~start_sent /\ peer_ready'[p] = Slots

\* Mutant: the authority waits for one guest only.
Bootstrap_AnyReady(p) ==
    /\ phase[p] \in {"LINKING", "READY"}
    /\ peer_ready' = [peer_ready EXCEPT ![p] = @ \cup {p}]
    /\ LET starts == p = Authority /\ ~start_sent /\ peer_ready[p] \ {p} # {}
       IN  /\ net' = net \cup {Ready(p)} \cup (IF phase[p] = "LINKING" THEN {Hello(p)} ELSE {})
                         \cup (IF starts THEN {Start} ELSE {})
           /\ start_sent' = (start_sent \/ starts)
           /\ phase' = [phase EXCEPT ![p] = IF starts THEN "RUNNING" ELSE @]
           /\ local_ring' = [local_ring EXCEPT ![p] = IF starts THEN Seed(p, delay[p]) ELSE @]
    /\ UNCHANGED <<delay, sim_tick, relay_tried>>

\* Mutant: the authority does not count itself.
Bootstrap_SelfMissing(p) ==
    /\ phase[p] \in {"LINKING", "READY"}
    /\ UNCHANGED peer_ready
    /\ net' = net \cup {Ready(p)} \cup (IF phase[p] = "LINKING" THEN {Hello(p)} ELSE {})
    /\ UNCHANGED <<phase, start_sent, local_ring, delay, sim_tick, relay_tried>>

\* maybe_bootstrap.  The 100 ms limits only put a repetition off.
Bootstrap(p) ==
    /\ phase[p] \in {"LINKING", "READY"}
    /\ peer_ready' = [peer_ready EXCEPT ![p] = @ \cup {p}]
    /\ net' = net \cup {Ready(p)}
                  \cup (IF phase[p] = "LINKING" THEN {Hello(p)} ELSE {})
                  \cup (IF Starts(p) THEN {Start} ELSE {})
    /\ start_sent' = (start_sent \/ Starts(p))
    /\ phase' = [phase EXCEPT ![p] = IF Starts(p) THEN "RUNNING" ELSE @]
    /\ local_ring' = [local_ring EXCEPT ![p] = IF Starts(p) THEN Seed(p, delay[p]) ELSE @]
    /\ UNCHANGED <<delay, sim_tick, relay_tried>>

\* Mutant: a guest adopts whatever tick it has reached.
Adopts_Always(p, m) ==
    /\ p # Authority /\ m.from = Authority
    /\ m.delay \in MinDelay .. MaxDelay /\ m.delay # delay[p]

\* A guest takes the host's delay; one that runs, only before it has played.
Adopts(p, m) ==
    /\ p # Authority /\ m.from = Authority
    /\ m.delay \in MinDelay .. MaxDelay /\ m.delay # delay[p]
    /\ phase[p] # "RUNNING" \/ sim_tick[p] = 0

\* The prefix of an adopted delay is seeded only by a guest that does not run.
ReceiveHello(p, m) ==
    LET linked == IF phase[p] = "LINKING" THEN "READY" ELSE phase[p]
    IN  /\ m.type = "HELLO" /\ m.from # p
        /\ phase' = [phase EXCEPT ![p] = linked]
        /\ delay' = [delay EXCEPT ![p] = IF Adopts(p, m) THEN m.delay ELSE @]
        /\ local_ring' = [local_ring EXCEPT
             ![p] = IF Adopts(p, m) /\ linked # "RUNNING" THEN Seed(p, m.delay) ELSE @]
        /\ UNCHANGED <<peer_ready, start_sent, sim_tick, relay_tried, net>>

ReceiveReady(p, m) ==
    /\ m.type = "READY" /\ m.from # p
    /\ peer_ready' = [peer_ready EXCEPT ![p] = @ \cup {m.from}]
    /\ UNCHANGED <<phase, delay, start_sent, sim_tick, local_ring, relay_tried, net>>

\* Mutant: only a guest that got a HELLO starts.
ReceiveStart_Linked(p, m) ==
    /\ m.type = "START" /\ m.from # p
    /\ phase[p] = "READY"
    /\ phase' = [phase EXCEPT ![p] = "RUNNING"]
    /\ local_ring' = [local_ring EXCEPT ![p] = Seed(p, delay[p])]
    /\ UNCHANGED <<delay, peer_ready, start_sent, sim_tick, relay_tried, net>>

\* START is heard in every phase but RUNNING.
ReceiveStart(p, m) ==
    /\ m.type = "START" /\ m.from # p
    /\ phase[p] # "RUNNING"
    /\ phase' = [phase EXCEPT ![p] = "RUNNING"]
    /\ local_ring' = [local_ring EXCEPT ![p] = Seed(p, delay[p])]
    /\ UNCHANGED <<delay, peer_ready, start_sent, sim_tick, relay_tried, net>>

-----------------------------------------------------------------------------
(* The first tick, as far as the bootstrap decides it *)

\* rnet_session_try_admit samples the row of the tip before anything else.
SampleFirst(p) ==
    /\ phase[p] = "RUNNING" /\ sim_tick[p] = 0
    /\ local_ring' = [local_ring EXCEPT ![p] = @ \cup {delay[p]}]
    /\ UNCHANGED <<phase, delay, peer_ready, start_sent, sim_tick, relay_tried, net>>

\* Tick 0 needs the row of every peer, and only a running peer sends its rows.
PlayFirst(p) ==
    /\ sim_tick[p] = 0
    /\ delay[p] \in local_ring[p]
    /\ \A q \in Slots : phase[q] = "RUNNING" /\ 0 \in local_ring[q]
    /\ sim_tick' = [sim_tick EXCEPT ![p] = 1]
    /\ UNCHANGED <<phase, delay, peer_ready, start_sent, local_ring, relay_tried, net>>

-----------------------------------------------------------------------------

Receive(p, m) == ReceiveHello(p, m) \/ ReceiveReady(p, m) \/ ReceiveStart(p, m)

Next == \E p \in Slots :
    \/ Link(p)
    \/ RelayFallback(p)
    \/ Bootstrap(p)
    \/ \E m \in net : Receive(p, m)
    \/ SampleFirst(p)
    \/ PlayFirst(p)

Spec == Init /\ [][Next]_vars

\* Pumps go on, an open transport opens again, and of what a peer repeats some
\* copy arrives.  START is sent once: here the network has to deliver it.
Fairness == \A p \in Slots :
    /\ WF_vars(Link(p))
    /\ WF_vars(Bootstrap(p))
    /\ WF_vars(SampleFirst(p))
    /\ WF_vars(PlayFirst(p))
    /\ \A q \in Slots : WF_vars(Ready(q) \in net /\ ReceiveReady(p, Ready(q)))
    /\ WF_vars(Start \in net /\ ReceiveStart(p, Start))

FairSpec == Spec /\ Fairness

-----------------------------------------------------------------------------

\* No peer runs, and none is heard in a game, before every slot has said READY
\* (maybe_bootstrap, rnet_session.c:1301-1319).
ReadyBarrier == (\E p \in Slots : phase[p] = "RUNNING") => \A q \in Slots : Ready(q) \in net

\* A delay is settled once tick 0 is played, however late a HELLO arrives: the
\* rows already sent were sampled under it (handle_decoded, :432-457).
DelaySettles == [][\A p \in Slots : sim_tick[p] > 0 => delay'[p] = delay[p]]_vars

\* A session whose START arrives plays its first tick, though every HELLO be
\* lost and ICE be restarted on the way.
FirstTickPlayed == \A p \in Slots : <>(sim_tick[p] = 1)

\* The rows of the ticks below the delay are there when a peer runs: nothing
\* else ever fills them (seed_delay_prefix, :1446-1461).
PrefixComplete ==
    \A p \in Slots : phase[p] = "RUNNING" => 0 .. delay[p] - 1 \subseteq local_ring[p]
=============================================================================
