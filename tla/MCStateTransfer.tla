--------------------------- MODULE MCStateTransfer ---------------------------
EXTENDS StateTransfer

MCSaveCoord == [op |-> "SAVE", slot |-> 0, size |-> 0, crc |-> 1]
MCSaveHash  == [op |-> "SAVE", slot |-> 0, size |-> 2, crc |-> 2]
MCLoadReady == [op |-> "LOAD", slot |-> 0, size |-> 0, crc |-> 3]
MCProbes    == {MCSaveCoord, MCSaveHash, MCLoadReady}
MCNoProbes  == {}

MCPaceMin   == [cwnd |-> 1, chunks |-> 1]
MCPaceStart == [cwnd |-> 1, chunks |-> 1]
MCPaceMax   == [cwnd |-> 2, chunks |-> 2]
MCPaceStep  == [cwnd |-> 1, chunks |-> 1]
==============================================================================
