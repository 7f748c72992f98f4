--------------------------- MODULE MCReplayedSession ---------------------------
EXTENDS ReplayedSession, TLC

CONSTANTS g1, g2, o
Models == {g1, g2, o}
Googles == {g1, g2}
=============================================================================
