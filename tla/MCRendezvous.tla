---------------------------- MODULE MCRendezvous ----------------------------
(* Rendezvous with three peers that share two addresses and two places.    *)
EXTENDS Rendezvous

CONSTANTS p1, p2, p3, a1, a2, c1, c2, c3

=============================================================================
