------------------------------ MODULE MCMixnet ------------------------------
(* An instance of Mixnet: four relays, of which h is hosted by p.           *)
EXTENDS Mixnet, TLC

CONSTANTS e, p, h, x, d1, r1

HostedPoint == h :> p

\* A packet through the hosted relay, and a reply the other way.
MCRoute == d1 :> <<e, p, h, x>> @@ r1 :> <<x, e>>
=============================================================================
