----------------------------- MODULE MCSyncDir ------------------------------
EXTENDS SyncDir, TLC
CONSTANTS d1, d2, d3
MCDirs2 == {d1, d2}
MCOrder2 == <<d1, d2>>
MCDirs3 == {d1, d2, d3}
MCOrder3 == <<d1, d2, d3>>
=============================================================================
