---------------------------- MODULE MCServerList ----------------------------
EXTENDS ServerList

CONSTANTS r1, r2

\* Two pieces, so that a list can be cut short, and one list shorter than the others
MCPieces == [l \in Lists |-> IF l = r2 THEN 1 ELSE 2]

============================================================================
