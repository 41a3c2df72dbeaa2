------------------------------- MODULE Gossip -------------------------------
(***************************************************************************)
(* The gossip directory: crypto-gotham-directory (roster.rs, attestation.rs*)
(* and advertisement.rs) and the loop that spreads rosters between relays  *)
(* (crypto-gotham-relay gossip.rs and serve_gossip_connection).            *)
(*                                                                         *)
(* A node signs an advertisement of itself once per round, with a sequence *)
(* number that starts at the wall clock of its start, and exchanges whole  *)
(* rosters with a few peers.  A roster takes an advertisement only with an *)
(* admission certificate that a quorum of the authorities signed.          *)
(*                                                                         *)
(* Cloning a roster, verifying what a peer sent and splicing it in are     *)
(* steps of their own: the lock is released between them, and the clock is *)
(* read before the lock is taken.  Every node has its own clock.           *)
(***************************************************************************)
EXTENDS Integers, FiniteSets, Sequences

CONSTANTS
    Nodes,          \* relays that gossip; a node stands for its identity key
    Authorities,    \* AuthoritySet.authorities_hex
    Threshold,      \* AuthoritySet.threshold
    Configs,        \* [Nodes -> the settings, admission and address, it may start with]
    Caps,           \* [Nodes -> capabilities]: --gossip-caps
    Beacon(_, _),   \* the tier a relay that does everything has on a day
    DAY,            \* seconds in a day
    Bootstrap,      \* [Nodes -> SUBSET Nodes]: --gossip-seed
    Offset,         \* [Nodes -> Nat]: how far a node's clock is ahead
    STALE_AFTER,    \* STALE_AFTER_SECS
    MAX_AGE,        \* MAX_ADMISSION_AGE_SECS
    CLOCK_SKEW,     \* ADMISSION_CLOCK_SKEW_SECS
    FANOUT,         \* GOSSIP_FANOUT
    MAX_ENTRIES,    \* MAX_GOSSIP_ENTRIES
    Interval,       \* --gossip-interval
    MaxLag,         \* bound on how long a verified roster waits for the lock
    MaxStarts,      \* bound on the starts of nodes, restarts included
    MaxNow          \* bound on the clock

Tiers == {"entry", "mix", "exit"}

\* The certificates that --admission-cert files hold.
Certs == {c.admission : c \in UNION {Configs[n] : n \in Nodes}}

ASSUME GossipAssumption ==
    /\ IsFiniteSet(Authorities)
    /\ Threshold \in 1..Cardinality(Authorities)
    /\ Bootstrap \in [Nodes -> SUBSET Nodes]
    /\ Offset \in [Nodes -> Nat]
    /\ STALE_AFTER \in Nat /\ MAX_AGE \in Nat /\ CLOCK_SKEW \in Nat
    /\ FANOUT \in Nat /\ MAX_ENTRIES \in Nat
    /\ Interval \in Nat \ {0} /\ MaxLag \in Nat
    /\ MaxStarts \in Nat /\ MaxNow \in Nat
    \* The lock is waited for less than the time between two rounds.
    /\ MaxLag <= Interval
    /\ \A c \in Certs : c.id \in Nodes
    /\ DAY \in Nat \ {0}
    /\ \A n \in Nodes : Caps[n] \in Tiers \cup {"all"}
    /\ \A n \in Nodes : \A d \in 0..(MaxNow + Offset[n]) : Beacon(n, d) \in Tiers

VARIABLES
    now,        \* true time, in seconds
    up,         \* [Nodes -> BOOLEAN]
    starts,     \* starts so far
    roster,     \* [Nodes -> Roster]
    seq,        \* GossipNode.seq: the next sequence number
    config,     \* GossipConfig, read once at start: admission and advertise_addr
    due,        \* true time of the next tick of the gossip loop
    todo,       \* peers left in this round
    call,       \* where the node's gossip task is
    high        \* history: latest signing time held since the start

vars == <<now, up, starts, roster, seq, config, due, todo, call, high>>

----------------------------------------------------------------------------
(* Advertisements                                                          *)

\* What a signature covers: every field but itself.
canonical_bytes(ad) == [f \in DOMAIN ad \ {"signature"} |-> ad[f]]

sign(n, address, s, t) ==
    LET ad == [id |-> n, address |-> address, caps |-> Caps[n], seq |-> s, signed_at |-> t]
    IN  [f \in DOMAIN ad \cup {"signature"} |->
            IF f = "signature" THEN [by |-> n, of |-> ad] ELSE ad[f]]

\* A signature of the relay itself, and an address that can be dialled (a relay
\* in gossip is never hosted: sign passes no rendezvous).
verify(ad) ==
    /\ ad.signature = [by |-> ad.id, of |-> canonical_bytes(ad)]
    /\ ad.address # "unspecified"

\* The tier of an advertisement on the day of t; none for a relay that does nothing.
to_relay_descriptor(ad, t, op) ==
    IF ad.caps = "none" THEN {}
    ELSE {[id |-> ad.id, address |-> ad.address, operator |-> op,
           tier |-> IF ad.caps = "all" THEN Beacon(ad.id, t \div DAY) ELSE ad.caps]}

----------------------------------------------------------------------------
(* Certificates                                                            *)

\* saturating_sub
Minus(a, b) == IF a >= b THEN a - b ELSE 0

\* What attest signs and verify rebuilds: identity, epoch and operator.
admission_bytes(id, epoch, op) == <<id, epoch, op>>

attest(a, id, epoch, op) == [by |-> a, signed |-> admission_bytes(id, epoch, op)]

\* Nothing is checked when a certificate is put together.
assemble(id, epoch, op, attestations) ==
    [id |-> id, epoch |-> epoch, op |-> op, attestations |-> attestations]

\* The key of att signed the bytes that c's own fields make.
verify_att(att, c) == att.signed = admission_bytes(c.id, c.epoch, c.op)

\* The authorities whose FIRST attestation in the list signs these bytes.
Counted(c) ==
    {a \in Authorities :
        \E i \in DOMAIN c.attestations :
            /\ c.attestations[i].by = a
            /\ \A j \in 1..(i - 1) : c.attestations[j].by # a
            /\ verify_att(c.attestations[i], c)}

\* Mutant: every valid attestation is counted, twice if it is there twice.
QuorumOfAttestations(c) ==
    Cardinality({i \in DOMAIN c.attestations :
                    /\ c.attestations[i].by \in Authorities
                    /\ verify_att(c.attestations[i], c)})
        >= Threshold

QuorumVerifies(c) == Cardinality(Counted(c)) >= Threshold

\* No certificate loaded: the node is down.
NoCert == [id |-> {}, epoch |-> 0, op |-> {}, attestations |-> <<>>]
NoConfig == [admission |-> NoCert, address |-> "unspecified"]

is_fresh(c, t) == c.epoch <= t + CLOCK_SKEW /\ Minus(t, c.epoch) <= MAX_AGE

----------------------------------------------------------------------------
(* Rosters                                                                 *)

EmptyRoster == [entries |-> <<>>, admissions |-> <<>>]

\* The advertisement is recent enough to be taken from a peer.
Recent(ad, t) == Minus(t, ad.signed_at) <= STALE_AFTER

\* What verify_incoming and merge_admitted ask of one entry of a peer.
Acceptable(other, k, t) ==
    /\ Recent(other.entries[k], t)
    /\ verify(other.entries[k])
    /\ k \in DOMAIN other.admissions
    /\ other.admissions[k].id = k
    /\ QuorumVerifies(other.admissions[k])
    /\ is_fresh(other.admissions[k], t)

\* Only the first MAX_GOSSIP_ENTRIES are looked at, in hash order: any that many.
Looked(other) ==
    LET d == DOMAIN other.entries IN
    IF Cardinality(d) <= MAX_ENTRIES THEN {d}
    ELSE {s \in SUBSET d : Cardinality(s) = MAX_ENTRIES}

Restricted(r, ks) ==
    [entries |-> [k \in ks |-> r.entries[k]],
     admissions |-> [k \in ks |-> r.admissions[k]]]

verify_incoming(other, looked, t) ==
    Restricted(other, {k \in looked : Acceptable(other, k, t)})

\* r with the entries ks of other put in, each with its certificate.
Insert(r, other, ks) ==
    [entries |-> [k \in ks \cup DOMAIN r.entries |->
                    IF k \in ks THEN other.entries[k] ELSE r.entries[k]],
     admissions |-> [k \in ks \cup DOMAIN r.admissions |->
                    IF k \in ks THEN other.admissions[k] ELSE r.admissions[k]]]

\* Mutant: the epoch of the certificate is not compared.
NewerAnyEpoch(r, k, ad, cert) ==
    k \in DOMAIN r.entries => ad.seq > r.entries[k].seq

\* Mutant: whatever is recent replaces what is held.
NewerAnySeq(r, k, ad, cert) ==
    k \in DOMAIN r.admissions => cert.epoch >= r.admissions[k].epoch

\* A strictly newer advertisement under a certificate that is not older.
Newer(r, k, ad, cert) ==
    /\ k \in DOMAIN r.entries => ad.seq > r.entries[k].seq
    /\ k \in DOMAIN r.admissions => cert.epoch >= r.admissions[k].epoch

splice_verified(r, v) ==
    Insert(r, v, {k \in DOMAIN v.entries :
                    /\ k \in DOMAIN v.admissions
                    /\ Newer(r, k, v.entries[k], v.admissions[k])})

\* Mutant: the merge forgets the age limit that verify_incoming applies.
MergeAnyAge(r, other, t) ==
    Insert(r, other,
        {k \in DOMAIN other.entries :
            /\ verify(other.entries[k])
            /\ k \in DOMAIN other.admissions
            /\ other.admissions[k].id = k
            /\ QuorumVerifies(other.admissions[k])
            /\ is_fresh(other.admissions[k], t)
            /\ Newer(r, k, other.entries[k], other.admissions[k])})

\* The one-pass form, which holds the lock while it verifies.
merge_admitted(r, other, t) ==
    Insert(r, other,
        {k \in DOMAIN other.entries :
            /\ Acceptable(other, k, t)
            /\ Newer(r, k, other.entries[k], other.admissions[k])})

\* insert_admitted: a refusal leaves the roster as it is.
insert_admitted(r, ad, cert, t) ==
    IF /\ verify(ad)
       /\ cert.id = ad.id
       /\ QuorumVerifies(cert)
       /\ is_fresh(cert, t)
       /\ Newer(r, ad.id, ad, cert)
    THEN Insert(r, [entries |-> [k \in {ad.id} |-> ad],
                    admissions |-> [k \in {ad.id} |-> cert]], {ad.id})
    ELSE r

\* Mutant: a round prunes nothing.
PruneNothing(r, t) == r

prune_stale(r, t) ==
    LET live == {k \in DOMAIN r.entries :
                    r.entries[k].signed_at >= Minus(t, STALE_AFTER)}
    IN  [entries |-> [k \in live |-> r.entries[k]],
         admissions |-> [k \in live \cap DOMAIN r.admissions |-> r.admissions[k]]]

\* What path selection is given: the relays that are admitted and fresh now, each
\* under the operator of its certificate.
to_relay_descriptors(r, t) ==
    UNION {to_relay_descriptor(r.entries[k], t, r.admissions[k].op) :
              k \in {j \in DOMAIN r.entries : Acceptable(r, j, t)}}

\* The candidates of pick_peers.
Candidates(n, r, t) ==
    {k \in DOMAIN r.entries \ {n} :
        Recent(r.entries[k], t) /\ k \in DOMAIN r.admissions}

\* A random FANOUT of the candidates, and every bootstrap peer.
pick_peers(n, r, t) ==
    LET c == Candidates(n, r, t) IN
    {s \cup Bootstrap[n] :
        s \in {p \in SUBSET c :
                 Cardinality(p) = IF Cardinality(c) < FANOUT THEN Cardinality(c)
                                  ELSE FANOUT}}

----------------------------------------------------------------------------
(* The gossip task of each node                                            *)

clock(n) == now + Offset[n]

FirstSeq(n) == clock(n)

routable_descriptors(n) == to_relay_descriptors(roster[n], clock(n))

Stages == {"idle", "refreshed", "dial", "sent", "got", "merged", "reply", "checked"}

\* peer: whom the task talks to; blob: the roster in flight; since: when the
\* task read the clock it is going to act on.
Idle == [at |-> "idle", peer |-> {}, blob |-> EmptyRoster, since |-> 0]

\* Node n's roster becomes r.
Hold(n, r) ==
    /\ roster' = [roster EXCEPT ![n] = r]
    /\ high' = [high EXCEPT ![n] = [k \in Nodes |->
                 IF k \in DOMAIN r.entries /\ r.entries[k].signed_at > high[n][k]
                 THEN r.entries[k].signed_at ELSE high[n][k]]]

\* Nothing in flight, at a stage of the loop.
Goto(n, stage) == call' = [call EXCEPT ![n] = [Idle EXCEPT !.at = stage]]

Init ==
    /\ now = 0
    /\ up = [n \in Nodes |-> FALSE]
    /\ starts = 0
    /\ roster = [n \in Nodes |-> EmptyRoster]
    /\ seq = [n \in Nodes |-> 0]
    /\ config = [n \in Nodes |-> NoConfig]
    /\ due = [n \in Nodes |-> 0]
    /\ todo = [n \in Nodes |-> {}]
    /\ call = [n \in Nodes |-> Idle]
    /\ high = [n \in Nodes |-> [k \in Nodes |-> -1]]

\* build_gossip and GossipNode::new: the roster starts empty, the sequence
\* number at the wall clock, and the certificate is what the file holds now.
Start(n, c) ==
    /\ ~up[n] /\ starts < MaxStarts
    /\ starts' = starts + 1
    /\ up' = [up EXCEPT ![n] = TRUE]
    /\ seq' = [seq EXCEPT ![n] = FirstSeq(n)]
    /\ config' = [config EXCEPT ![n] = c]
    /\ due' = [due EXCEPT ![n] = now]
    /\ UNCHANGED <<now, roster, todo, call, high>>

\* Nothing of the gossip state is on disk.
\* A conversation needs both ends.  A node that crashes while its peer holds
\* what it sent ("got") is a node that crashes right after that peer's splice,
\* which does not depend on it.
Crash(n) ==
    /\ up[n]
    /\ call[n].at # "got"
    /\ up' = [up EXCEPT ![n] = FALSE]
    /\ roster' = [roster EXCEPT ![n] = EmptyRoster]
    /\ seq' = [seq EXCEPT ![n] = 0]
    /\ config' = [config EXCEPT ![n] = NoConfig]
    /\ due' = [due EXCEPT ![n] = 0]
    /\ high' = [high EXCEPT ![n] = [k \in Nodes |-> -1]]
    /\ todo' = [todo EXCEPT ![n] = {}]
    /\ call' = [m \in Nodes |->
                  IF m = n THEN Idle
                  ELSE IF call[m].at \in {"sent", "got", "merged"} /\ call[m].peer = n
                  THEN [Idle EXCEPT !.at = "dial"] ELSE call[m]]
    /\ UNCHANGED <<now, starts>>

\* refresh_self: sign a new advertisement and put it in the own roster.
refresh_self(n) ==
    /\ up[n] /\ call[n].at = "idle" /\ now >= due[n]
    /\ LET ad == sign(n, config[n].address, seq[n], clock(n))
       IN  Hold(n, insert_admitted(roster[n], ad, config[n].admission, clock(n)))
    /\ seq' = [seq EXCEPT ![n] = @ + 1]
    /\ due' = [due EXCEPT ![n] = @ + Interval]
    /\ call' = [call EXCEPT ![n] = [Idle EXCEPT !.at = "refreshed", !.since = now]]
    /\ UNCHANGED <<now, up, starts, config, todo>>

\* gossip_once goes on, under a second lock: prune, then choose the peers.
PrunePick(n) ==
    /\ call[n].at = "refreshed"
    /\ LET t == call[n].since + Offset[n]
           r == prune_stale(roster[n], t)
       IN  /\ Hold(n, r)
           /\ \E ps \in pick_peers(n, r, t) : todo' = [todo EXCEPT ![n] = ps]
    /\ Goto(n, "dial")
    /\ UNCHANGED <<now, up, starts, seq, config, due>>

\* gossip_round_client: connect, clone the roster under the lock, send it.
Dial(n, p) ==
    /\ call[n].at = "dial" /\ p \in todo[n] /\ up[p]
    /\ call' = [call EXCEPT ![n] = [at |-> "sent", peer |-> p, blob |-> roster[n],
                                    since |-> 0]]
    /\ todo' = [todo EXCEPT ![n] = @ \ {p}]
    /\ UNCHANGED <<now, up, starts, roster, seq, config, due, high>>

\* The peer does not answer; the round goes on with the next one.
DialFails(n, p) ==
    /\ call[n].at = "dial" /\ p \in todo[n]
    /\ todo' = [todo EXCEPT ![n] = @ \ {p}]
    /\ UNCHANGED <<now, up, starts, roster, seq, config, due, call, high>>

\* The connection breaks with the roster or the answer in flight.
Abort(n) ==
    /\ call[n].at \in {"sent", "merged", "reply"}
    /\ Goto(n, "dial")
    /\ UNCHANGED <<now, up, starts, roster, seq, config, due, todo, high>>

\* Node m verifies the roster that conversation n carries, with its own clock.
Verify(n, m, from, to) ==
    /\ call[n].at = from
    /\ \E looked \in Looked(call[n].blob) :
         call' = [call EXCEPT ![n].at = to, ![n].since = now,
                              ![n].blob = verify_incoming(@, looked, clock(m))]
    /\ UNCHANGED <<now, up, starts, roster, seq, config, due, todo, high>>

\* serve_gossip_connection: verify; splice under the lock; clone and answer.
ServerVerify(n) == call[n].at = "sent" /\ Verify(n, call[n].peer, "sent", "got")

ServerSplice(n) ==
    /\ call[n].at = "got"
    /\ Hold(call[n].peer, splice_verified(roster[call[n].peer], call[n].blob))
    /\ call' = [call EXCEPT ![n] = [Idle EXCEPT !.at = "merged", !.peer = call[n].peer]]
    /\ UNCHANGED <<now, up, starts, seq, config, due, todo>>

ServerReply(n) ==
    /\ call[n].at = "merged"
    /\ call' = [call EXCEPT ![n] = [Idle EXCEPT !.at = "reply", !.blob = roster[call[n].peer]]]
    /\ UNCHANGED <<now, up, starts, roster, seq, config, due, todo, high>>

\* gossip_round_client again, on the answer.
ClientVerify(n) == Verify(n, n, "reply", "checked")

ClientSplice(n) ==
    /\ call[n].at = "checked"
    /\ Hold(n, splice_verified(roster[n], call[n].blob))
    /\ Goto(n, "dial")
    /\ UNCHANGED <<now, up, starts, seq, config, due, todo>>

RoundEnds(n) ==
    /\ call[n].at = "dial" /\ todo[n] = {}
    /\ Goto(n, "idle")
    /\ UNCHANGED <<now, up, starts, roster, seq, config, due, todo, high>>

\* A task that has read the clock acts within MaxLag.
Tick ==
    /\ now < MaxNow
    /\ \A n \in Nodes : call[n].at \in {"refreshed", "got", "checked"}
                          => now < call[n].since + MaxLag
    /\ now' = now + 1
    /\ UNCHANGED <<up, starts, roster, seq, config, due, todo, call, high>>

Step(n) ==
    \/ refresh_self(n) \/ PrunePick(n)
    \/ \E p \in Nodes : Dial(n, p)
    \/ ServerVerify(n) \/ ServerSplice(n) \/ ServerReply(n)
    \/ ClientVerify(n) \/ ClientSplice(n) \/ RoundEnds(n)

Fault(n) ==
    \/ \E c \in Configs[n] : Start(n, c)
    \/ Crash(n)
    \/ \E p \in Nodes : DialFails(n, p)
    \/ Abort(n)

Next == Tick \/ \E n \in Nodes : Step(n) \/ Fault(n)

Spec == Init /\ [][Next]_vars

----------------------------------------------------------------------------
(* Properties                                                              *)

IsRoster(r) ==
    /\ DOMAIN r = {"entries", "admissions"}
    /\ DOMAIN r.entries \subseteq Nodes
    /\ \A k \in DOMAIN r.entries :
         r.entries[k].id = k /\ r.entries[k].seq \in Nat /\ r.entries[k].signed_at \in Nat

\* Every variable has its type; an entry sits under its own identity.
TypeOK ==
    /\ now \in 0..MaxNow
    /\ up \in [Nodes -> BOOLEAN]
    /\ starts \in 0..MaxStarts
    /\ \A n \in Nodes : IsRoster(roster[n]) /\ IsRoster(call[n].blob)
    /\ seq \in [Nodes -> Nat]
    /\ \A n \in Nodes : config[n] \in Configs[n] \cup {NoConfig}
    /\ due \in [Nodes -> Nat]
    /\ todo \in [Nodes -> SUBSET Nodes]
    /\ \A n \in Nodes : call[n].at \in Stages
    /\ high \in [Nodes -> [Nodes -> Int]]

\* The authorities that signed exactly this certificate's content, and the
\* certificates that enough of them signed.
Signers(c) ==
    {a \in Authorities : \E i \in DOMAIN c.attestations :
        c.attestations[i].by = a /\ c.attestations[i].signed = admission_bytes(c.id, c.epoch, c.op)}
Quorate == {c \in Certs : Cardinality(Signers(c)) >= Threshold}

\* k-of-n admission: whatever certificates the relays' files hold, and however
\* rosters travel, a roster holds an advertisement only together with a
\* certificate for that same relay that Threshold different authorities signed
\* (insert_admitted, verify_incoming, splice_verified, prune_stale).
QuorumBacked ==
    /\ TypeOK
    /\ \A n \in Nodes :
        /\ DOMAIN roster[n].admissions = DOMAIN roster[n].entries
        /\ \A k \in DOMAIN roster[n].entries :
             LET c == roster[n].admissions[k]
             IN  c.id = k /\ c \in Quorate

\* What a node hands to path selection can be used: a relay it can dial, with the
\* operator a quorum vouched for, and in the same tier at every node whose clock
\* shows that day, although each relay chooses its own address and capabilities
\* and rosters travel at different speeds (to_relay_descriptors).
RoutableSound ==
    LET routable == [n \in Nodes |-> routable_descriptors(n)] IN
    \A n \in Nodes : \A d \in routable[n] :
        /\ d.address # "unspecified" /\ d.tier \in Tiers
        /\ \E c \in Quorate : c.id = d.id /\ c.op = d.operator
        /\ \A m \in {k \in Nodes : clock(k) \div DAY = clock(n) \div DAY} :
             \A e \in routable[m] : e.id = d.id => e.tier = d.tier

\* A quorum stands behind what a node stores and behind what it hands out.
RosterSound == QuorumBacked /\ RoutableSound

\* A running node never goes back to an older advertisement of a relay, not even
\* after prune_stale dropped the newer one and, with it, the sequence number that
\* splice_verified compares with: what a peer may still send is then too old.
\* The clock is read before the lock is taken, so "older" is up to MaxLag: two
\* advertisements signed within that time can be swapped by a prune in between.
NoRollback ==
    \A n \in Nodes : \A k \in DOMAIN roster[n].entries :
        roster[n].entries[k].signed_at + MaxLag >= high[n][k]

\* While a node holds a relay, the certificate it holds for it never gets older,
\* whatever order rosters arrive in.
ForwardOnly ==
    [][\A n \in Nodes : up[n] /\ up'[n] =>
         \A k \in DOMAIN roster[n].entries \cap DOMAIN roster'[n].entries :
            roster'[n].admissions[k].epoch >= roster[n].admissions[k].epoch]_vars

\* Verifying outside the lock and splicing under it gives what the one-pass
\* merge_admitted gives for the same roster and the same clock.
MergeAgrees ==
    \A n, m \in Nodes :
        n # m /\ Cardinality(DOMAIN roster[m].entries) <= MAX_ENTRIES =>
        splice_verified(roster[n],
                verify_incoming(roster[m], DOMAIN roster[m].entries, clock(n)))
            = merge_admitted(roster[n], roster[m], clock(n))

\* A relay that fell silent is forgotten although its peers keep sending its last
\* advertisement to each other and late rosters keep arriving: a node whose rounds
\* are on time holds nothing that is older than STALE_AFTER_SECS by more than one
\* round and the wait for the lock (gossip_once prunes, verify_incoming refuses).
SilentForgotten ==
    \A n \in Nodes : \A k \in DOMAIN roster[n].entries :
        (due[n] > now /\ call[n].at # "refreshed") =>
            roster[n].entries[k].signed_at + STALE_AFTER + Interval + MaxLag > clock(n)
=============================================================================
