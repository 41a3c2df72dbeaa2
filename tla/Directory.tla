------------------------------ MODULE Directory ------------------------------
(***************************************************************************)
(* Relay descriptors and the diversity rules of crypto-gotham directory.rs:*)
(* what two hops of a path must not share, and how many relays of one      *)
(* network or operator an authority lists.                                 *)
(*                                                                         *)
(* A descriptor is a record of id, tier, op (an operator label or None),   *)
(* ip (None, or a record of family fam, wide network and narrow network),  *)
(* rendezvous (the id of the relay that hosts it, or None) and capable.    *)
(* For IPv4 wide is the /16 and narrow the /24; for IPv6 wide is the /48.  *)
(***************************************************************************)
EXTENDS Integers, FiniteSets, Sequences

CONSTANTS
    None,
    MAX_RELAYS_PER_24, MAX_RELAYS_PER_16, MAX_RELAYS_PER_48,
    MAX_RELAYS_PER_OPERATOR

Tiers == {"Entry", "Mix", "Exit"}

\* index_by_id(dir).get(id), for a directory given as a set of descriptors.
Get(dir, id) == {d \in dir : d.id = id}

\* The rendezvous point of a hosted relay stands for it (None: not listed).
EffectiveOf(d, dir, field) ==
    IF d.rendezvous = None THEN d[field]
    ELSE IF Get(dir, d.rendezvous) = {} THEN None
    ELSE (CHOOSE r \in Get(dir, d.rendezvous) : TRUE)[field]

eff_diversity_ip(d, dir) == EffectiveOf(d, dir, "ip")

eff_operator(d, dir) == EffectiveOf(d, dir, "op")

\* Mutant: loopback addresses aside, only the narrow networks are compared.
NarrowDiverse(a, b) == a.fam = b.fam => a.wide = "loopback" \/ a.narrow # b.narrow

network_diverse(a, b) == a.fam = b.fam => a.wide = "loopback" \/ a.wide # b.wide

\* Fails closed: without an operator on both sides two hops are not diverse.
pair_diverse(a, b, dir) ==
    LET ea == eff_diversity_ip(a, dir)
        eb == eff_diversity_ip(b, dir)
    IN  /\ eff_operator(a, dir) # None
        /\ eff_operator(b, dir) # None
        /\ eff_operator(a, dir) # eff_operator(b, dir)
        /\ a.rendezvous # None => ea # None
        /\ b.rendezvous # None => eb # None
        /\ (ea # None /\ eb # None) => network_diverse(ea, eb)

path_diverse(hops, cand, dir) ==
    \A i \in DOMAIN hops : pair_diverse(hops[i], cand, dir)

----------------------------------------------------------------------------
(* The caps of an authority's list                                         *)

\* How many of the relays kept so far agree with d on the fields of its address.
Sharing(kept, d, dir, fields) ==
    LET ip(e) == eff_diversity_ip(e, dir) IN
    Cardinality({i \in DOMAIN kept :
        ip(kept[i]) # None /\ \A f \in fields : ip(kept[i])[f] = ip(d)[f]})

net_ok(kept, d, dir) ==
    LET ip == eff_diversity_ip(d, dir) IN
    CASE ip = None -> TRUE
      [] ip # None /\ ip.fam = 4 ->
            /\ Sharing(kept, d, dir, {"fam", "wide", "narrow"}) < MAX_RELAYS_PER_24
            /\ Sharing(kept, d, dir, {"fam", "wide"}) < MAX_RELAYS_PER_16
      [] ip # None /\ ip.fam = 6 ->
            Sharing(kept, d, dir, {"fam", "wide"}) < MAX_RELAYS_PER_48

op_ok(kept, d, dir) ==
    LET op == eff_operator(d, dir) IN
    op # None => Cardinality({i \in DOMAIN kept : eff_operator(kept[i], dir) = op})
                    < MAX_RELAYS_PER_OPERATOR

\* A hosted relay without a listed point, or one relay too many, is left out.
Keeps(kept, d, dir) ==
    /\ d.rendezvous # None => eff_diversity_ip(d, dir) # None
    /\ net_ok(kept, d, dir)
    /\ op_ok(kept, d, dir)

apply_diversity_caps(ds) ==
    LET dir == {ds[i] : i \in DOMAIN ds}
        kept[n \in 0..Len(ds)] ==
            IF n = 0 THEN <<>>
            ELSE IF Keeps(kept[n - 1], ds[n], dir) THEN Append(kept[n - 1], ds[n])
            ELSE kept[n - 1]
    IN  kept[Len(ds)]
=============================================================================
