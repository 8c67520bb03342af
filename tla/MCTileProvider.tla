--------------------------- MODULE MCTileProvider ---------------------------
EXTENDS TileProvider

MCWindows == 1 .. MaxCalls + 1

============================================================================
