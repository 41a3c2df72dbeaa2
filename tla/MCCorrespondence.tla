-------------------------- MODULE MCCorrespondence --------------------------
(* Correspondence with an epoch of three ticks, documents valid for one,   *)
(* two messages (one at the address of older builds) and two cover loops.  *)
EXTENDS Correspondence, TLC

CONSTANTS m1, m2, m3, k1, k2, k3, s, r, h

MCIds == {<<r, e>> : e \in -1..4}
MCSize == [m \in Envs |-> IF m = m3 THEN 4 ELSE 1]
MCTtl == [m \in Envs |-> IF m = m1 THEN 9 ELSE 0]
MCPolicy ==
  [max_mailboxes |-> 4, max_msgs_per_mailbox |-> 4, max_total_msgs |-> 4, max_msg_bytes |-> 4,
   max_total_bytes |-> 8, default_ttl_secs |-> 2, max_ttl_secs |-> 3]
MCBounds ==
  {[msgs |-> {m1}, loops |-> {1}, offsets |-> {-1, 0, 1}, rotations |-> 0, until |-> 13],
   [msgs |-> {m1, m2, m3}, loops |-> {1, 2}, offsets |-> {0}, rotations |-> 0, until |-> 6],
   [msgs |-> {}, loops |-> {}, offsets |-> {0}, rotations |-> 2, until |-> 6],
   [msgs |-> {}, loops |-> {}, offsets |-> {0}, rotations |-> 3, until |-> 5]}
=============================================================================
