---------------------------- MODULE MCTransport ----------------------------
(* Three parts of the packet path that share no state, each small: a       *)
(* behaviour exercises one of them and leaves the others where they start. *)
(* The limiters have three sources and a table of two; the pool has two    *)
(* tasks, three peers and room for two of them; the stream has chunks of   *)
(* four bytes and lengths around their multiples and the reader's limit.   *)
EXTENDS RateLimit, Pool, Frames, TLC

CONSTANTS s1, s2, s3, p1, p2, p3, t1, t2

VARIABLE part

partVars == <<vars, poolVars, frameVars, part>>

PartInit == Init /\ PoolInit /\ FramesInit /\ part \in {"limits", "pool", "frames"}
PartNext ==
  \/ part = "limits" /\ Next /\ UNCHANGED <<poolVars, frameVars, part>>
  \/ part = "pool" /\ PoolNext /\ UNCHANGED <<vars, frameVars, part>>
  \/ part = "frames" /\ FramesNext /\ UNCHANGED <<vars, poolVars, part>>
PartSpec == PartInit /\ [][PartNext]_partVars

Symmetry == Permutations(Sources) \cup Permutations(Peers) \cup Permutations(Tasks)
=============================================================================
