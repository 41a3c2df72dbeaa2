----------------------------- MODULE MCAuthority -----------------------------
(* Instances of Authority: one authority and relays that contend for places  *)
(* of its list, and three authorities that admit one relay.                  *)
EXTENDS Authority

CONSTANTS a1, a2, a3, p, h, x

Ip(w, n) == [fam |-> 4, wide |-> w, narrow |-> n]

\* h is hosted by p; x contends with both for the places of one /24.
Place(id, ip, op, rendezvous) ==
    [id |-> id, tier |-> "Mix", op |-> op, ip |-> ip, rendezvous |-> rendezvous,
     capable |-> TRUE]

ContendingProfile ==
    p :> Place(p, Ip(1, 1), "o", None) @@ h :> Place(h, None, "o", p)
        @@ x :> Place(x, Ip(1, 1), "q", None)

ContendingRank == p :> 2 @@ h :> 3 @@ x :> 1

\* One relay in trouble with one authority.
TroubleBound ==
    [order |-> <<a1>>, relays |-> {x}, heartbeat |-> 1, kinds |-> {"dir"}, gets |-> 1,
     crashing |-> {x}, faults |-> FaultKinds, probe |-> 1, lag |-> 0, pass |-> 1, collect |-> 0,
     until |-> 5]

\* Two concurrent GETs.
SlowBound ==
    [TroubleBound EXCEPT !.gets = 2, !.faults = {}, !.probe = 0, !.lag = 1]

\* Three relays contend for places while the rendezvous point comes and goes.
ContendingBound ==
    [TroubleBound EXCEPT !.relays = {p, h, x}, !.heartbeat = 2, !.crashing = {p}, !.faults = {},
                         !.probe = 0, !.pass = 0, !.until = 4]

\* Three authorities, and a client that asks each of them.
QuorumBound ==
    [TroubleBound EXCEPT !.order = <<a1, a2, a3>>, !.kinds = {"adm"}, !.crashing = {}, !.faults = {},
                         !.probe = 0, !.collect = 1, !.until = 3]

\* States that differ only in answers too old to be served again are one state.
View ==
    <<bound, now, up, loop, reg, posts, gets, got, accepted, latest,
      [a \in Authorities |-> [k \in GetKinds |-> IF CacheHit(a, k) THEN cache[a][k] ELSE Empty]]>>

MCBounds == {TroubleBound, SlowBound, ContendingBound, QuorumBound}
=============================================================================
