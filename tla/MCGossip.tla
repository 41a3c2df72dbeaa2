------------------------------ MODULE MCGossip ------------------------------
(* Instances of Gossip for TLC: three authorities, two of which must sign.  *)
EXTENDS Gossip
CONSTANTS n1, n2, a1, a2, a3

\* Two authorities signed, one of them for an operator label of its own.
Good(id, epoch) ==
    assemble(id, epoch, "op", <<attest(a1, id, epoch, "op"), attest(a3, id, epoch, "other"),
                                attest(a2, id, epoch, "op")>>)
\* One authority signed, twice.
Twice(id) == assemble(id, 0, "op", <<attest(a1, id, 0, "op"), attest(a1, id, 0, "op")>>)
MCAuthorities == {a1, a2, a3}
TwoNodes == {n1, n2}
At(cert, address) == [admission |-> cert, address |-> address]
MCConfigs ==
    [n \in TwoNodes |->
        IF n = n2 THEN {At(Good(n2, 0), "host")}
        ELSE {At(Good(n1, 0), "host"), At(Good(n1, 1), "host"), At(Twice(n1), "host"),
              At(Good(n1, 1), "unspecified")}]
MCBootstrap == [n \in TwoNodes |-> TwoNodes \ {n}]
MCCaps == [n \in TwoNodes |-> IF n = n2 THEN "mix" ELSE "all"]
MCBeacon(id, day) == IF day % 2 = 0 THEN "entry" ELSE "exit"
MCOffset == [n \in TwoNodes |-> IF n = n2 THEN 1 ELSE 0]
=============================================================================
