---------------------------- MODULE MCLoadBarrier ----------------------------
EXTENDS LoadBarrier

MCPace == [cwnd |-> 1, chunks |-> 1]
MCProbes == {}

\* Slot 1 is on both peers, slot 2 on the host alone; the cards differ.
MCInitFile == [p \in Slots |-> [s \in Saves |-> IF s = 1 \/ p = Host THEN 100 * s ELSE NoFile]]
MCInitCard == [p \in Slots |-> p]
==============================================================================
