--------------------------- MODULE MCReplayCache ---------------------------
(* ReplayCache on small instances: a TTL of one second of two ticks.       *)
EXTENDS ReplayCache

CONSTANTS k1, k2
MCKeys == {k1, k2}
MCSizes == {0, 1, 2}
=============================================================================
