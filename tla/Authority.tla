------------------------------ MODULE Authority ------------------------------
(***************************************************************************)
(* Directory authorities and the relays that enroll with them: Registry of *)
(* crypto-gotham enroll.rs, the handlers of crypto-gotham-authority        *)
(* (/enroll, /directory, /admissions) and run_enrollment_loop of           *)
(* crypto-gotham-relay enroll_client.rs.                                   *)
(*                                                                         *)
(* A relay announces itself to every authority, one after the other, with  *)
(* one sequence number and one attestation epoch per pass.  /enroll awaits *)
(* a probe of the relay before it takes the registry lock, so enrollments  *)
(* finish in any order.  A GET answers from a cache for a few seconds; on a*)
(* miss it prunes and lists the registry under one lock and stores the     *)
(* answer under another.                                                   *)
(***************************************************************************)
EXTENDS Directory, SequencesExt

CONSTANTS
    Authorities,
    Relays,         \* relay ids (kem_pubkey_hex)
    Profile,        \* [Relays -> descriptor]: what a relay announces
    Rank,           \* [Relays -> Nat]: order of the hashes of the ids
    STALE_AFTER,    \* ENROLL_STALE_AFTER_SECS
    CACHE_TTL,      \* DIRECTORY_CACHE_TTL_SECS, ADMISSIONS_CACHE_TTL_SECS
    BUCKET,         \* ATTEST_EPOCH_BUCKET_SECS
    CLOCK_SKEW,     \* ADMISSION_CLOCK_SKEW_SECS
    Threshold,      \* k of the clients' quorum
    Bounds          \* bounds on a behaviour, and what goes wrong in it:
                    \*   order: the authorities, the primary first; relays: those there are
                    \*   heartbeat: cfg.heartbeat of the relays
                    \*   kinds: GETs that clients make, of "dir" and "adm"; gets: how many at a time
                    \*   crashing: relays that crash and restart; faults: of FaultKinds
                    \*   probe: how long a probe takes (--probe-timeout-secs)
                    \*   lag: how long a GET takes from reading the clock to its store
                    \*   pass: how late a pass may end; collect: a client's round of GETs
                    \*   until: the last time

FaultKinds == {"restart", "refuse", "probe", "timeout"}

ASSUME AuthorityAssumption ==
    /\ Rank \in [Relays -> Nat]
    /\ STALE_AFTER \in Nat
    /\ \A b \in Bounds :
          /\ b.order \in Seq(Authorities) /\ b.faults \subseteq FaultKinds
          /\ b.crashing \subseteq b.relays /\ b.relays \subseteq Relays
          /\ b.probe \in Nat /\ b.probe < STALE_AFTER

VARIABLES
    bound,      \* the member of Bounds it keeps to
    now,
    up,         \* [Relays -> BOOLEAN]
    loop,       \* [Relays -> state of run_enrollment_loop]
    reg,        \* [Authorities -> Registry.entries]
    posts,      \* /enroll handlers that await their probe
    cache,      \* [Authorities -> [GetKinds -> last answer stored]]
    gets,       \* GET handlers between their locks
    got,        \* what a client has collected from the authorities, since when
    accepted,   \* history: highest sequence number enrolled since the start
    latest      \* history: latest valid_after of a directory served

vars == <<bound, now, up, loop, reg, posts, cache, gets, got, accepted, latest>>

GetKinds == {"dir", "adm"}

Minus(a, b) == IF a >= b THEN a - b ELSE 0

----------------------------------------------------------------------------
(* Registry                                                                *)

\* Mutant: a sequence number that comes late is taken as well.
EnrollAnySeq(r, e, t) ==
    [k \in DOMAIN r \cup {e.relay} |->
        IF k = e.relay
        THEN [seq |-> e.seq, epoch |-> e.epoch, last_seen |-> t,
              first_seen |-> IF k \in DOMAIN r THEN r[k].first_seen ELSE t]
        ELSE r[k]]

enroll_at(r, e, t) ==
    IF e.relay \in DOMAIN r /\ e.seq <= r[e.relay].seq THEN r
    ELSE [k \in DOMAIN r \cup {e.relay} |->
            IF k = e.relay
            THEN [seq |-> e.seq, epoch |-> e.epoch, last_seen |-> t,
                  first_seen |-> IF k \in DOMAIN r THEN r[k].first_seen ELSE t]
            ELSE r[k]]

prune_at(r, t) ==
    [k \in {j \in DOMAIN r : r[j].last_seen >= Minus(t, STALE_AFTER)} |-> r[k]]

\* The registry entry can host: it is there, reachable and says so.
rendezvous_point(r, id) ==
    id \in DOMAIN r /\ Profile[id].rendezvous = None /\ Profile[id].capable

\* Mutant: contested places go by the hash of the id alone.
OrderByHash(r) ==
    LET before(a, b) == Rank[a] < Rank[b]
        ids == SetToSortSeq(DOMAIN r, before)
    IN  [i \in DOMAIN ids |-> Profile[ids[i]]]

\* Descriptors by seniority, ties by the hash of the id.
order_for_diversity_caps(r) ==
    LET before(a, b) == \/ r[a].first_seen < r[b].first_seen
                        \/ r[a].first_seen = r[b].first_seen /\ Rank[a] < Rank[b]
        ids == SetToSortSeq(DOMAIN r, before)
    IN  [i \in DOMAIN ids |-> Profile[ids[i]]]

\* The ids that build_signed and admission_inputs list.
Listed(r) ==
    LET kept == apply_diversity_caps(order_for_diversity_caps(r))
    IN  {kept[i].id : i \in DOMAIN kept}

current_attest_epoch(t) == (t \div BUCKET) * BUCKET

epoch_acceptable(epoch, t) == epoch <= t + CLOCK_SKEW /\ epoch + 2 * BUCKET >= t

----------------------------------------------------------------------------
(* The relays' enrollment loop                                             *)

Asleep(seq, next) == [seq |-> seq, epoch |-> 0, i |-> 0, next |-> next, wait |-> FALSE]

\* The next target, or the end of the pass: a new sequence number, then sleep
\* (the shorter sleeps before the first success are a heartbeat here).
Advance(l) ==
    IF l.i < Len(bound.order) THEN [l EXCEPT !.i = @ + 1, !.wait = FALSE]
    ELSE Asleep(l.seq + 1, now + bound.heartbeat)

\* Relay r awaits the answer to post p.
Awaits(r, p) ==
    /\ up[r] /\ loop[r].wait
    /\ p.relay = r /\ p.seq = loop[r].seq /\ p.authority = bound.order[loop[r].i]

Answered(p) == [r \in Relays |-> IF Awaits(r, p) THEN Advance(loop[r]) ELSE loop[r]]

NothingYet == [since |-> 0, lists |-> <<>>]

NoDoc == [at |-> 0, list |-> <<>>]

Empty == [some |-> FALSE, built |-> 0, doc |-> NoDoc]

Start(r) ==
    /\ ~up[r]
    /\ up' = [up EXCEPT ![r] = TRUE]
    /\ loop' = [loop EXCEPT ![r] = Asleep(now, now)]
    /\ UNCHANGED <<bound, now, reg, posts, cache, gets, got, accepted, latest>>

Crash(r) ==
    /\ r \in bound.crashing /\ up[r]
    /\ up' = [up EXCEPT ![r] = FALSE]
    /\ loop' = [loop EXCEPT ![r] = Asleep(0, 0)]
    /\ UNCHANGED <<bound, now, reg, posts, cache, gets, got, accepted, latest>>

\* Mutant: the epoch is the clock itself, not its day.
BeginPassUnbucketed(r) ==
    /\ up[r] /\ loop[r].i = 0 /\ now >= loop[r].next
    /\ loop' = [loop EXCEPT ![r].i = 1, ![r].epoch = now]
    /\ UNCHANGED <<bound, now, up, reg, posts, cache, gets, got, accepted, latest>>

BeginPass(r) ==
    /\ up[r] /\ loop[r].i = 0 /\ now >= loop[r].next
    /\ loop' = [loop EXCEPT ![r].i = 1, ![r].epoch = current_attest_epoch(now)]
    /\ UNCHANGED <<bound, now, up, reg, posts, cache, gets, got, accepted, latest>>

\* /enroll up to the await: a hosted relay's point must be registered.
Post(r) ==
    LET a == bound.order[loop[r].i]
        point == Profile[r].rendezvous
    IN  /\ up[r] /\ loop[r].i > 0 /\ ~loop[r].wait
        /\ point # None => rendezvous_point(reg[a], point)
        /\ posts' = posts \cup {[authority |-> a, relay |-> r, seq |-> loop[r].seq,
                                 epoch |-> loop[r].epoch, since |-> now]}
        /\ loop' = [loop EXCEPT ![r].wait = TRUE]
        /\ UNCHANGED <<bound, now, up, reg, cache, gets, got, accepted, latest>>

\* An error before the await: no connection, token, rate, proof, permit, point.
Refused(r) ==
    LET a == bound.order[loop[r].i]
        point == Profile[r].rendezvous
    IN  /\ up[r] /\ loop[r].i > 0 /\ ~loop[r].wait
        /\ \/ "refuse" \in bound.faults
           \/ point # None /\ ~rendezvous_point(reg[a], point)
        /\ loop' = [loop EXCEPT ![r] = Advance(@)]
        /\ UNCHANGED <<bound, now, up, reg, posts, cache, gets, got, accepted, latest>>

\* The client's timeout; the handler may still be at work.
TimesOut(r) ==
    /\ "timeout" \in bound.faults /\ up[r] /\ loop[r].wait
    /\ loop' = [loop EXCEPT ![r] = Advance(@)]
    /\ UNCHANGED <<bound, now, up, reg, posts, cache, gets, got, accepted, latest>>

\* The probe reached the relay (through its point): the rest of /enroll.
Enroll(p) ==
    /\ up[p.relay]
    /\ Profile[p.relay].rendezvous # None => up[Profile[p.relay].rendezvous]
    /\ posts' = posts \ {p}
    /\ reg' = [reg EXCEPT ![p.authority] = enroll_at(@, p, now)]
    /\ accepted' = [accepted EXCEPT ![p.authority][p.relay] =
                        IF reg'[p.authority] # reg[p.authority] /\ p.seq > @
                        THEN p.seq ELSE @]
    /\ loop' = Answered(p)
    /\ UNCHANGED <<bound, now, up, cache, gets, got, latest>>

\* The probe failed, or the handler was dropped with its connection.
ProbeFails(p) ==
    /\ \/ "probe" \in bound.faults
       \/ ~up[p.relay]
       \/ Profile[p.relay].rendezvous # None /\ ~up[Profile[p.relay].rendezvous]
    /\ posts' = posts \ {p}
    /\ loop' = Answered(p)
    /\ UNCHANGED <<bound, now, up, reg, cache, gets, got, accepted, latest>>

\* An authority restarts: the registry and the caches are in memory only.
Restart(a) ==
    /\ "restart" \in bound.faults
    /\ reg' = [reg EXCEPT ![a] = <<>>]
    /\ posts' = {p \in posts : p.authority # a}
    /\ loop' = [r \in Relays |-> IF \E p \in posts : p.authority = a /\ Awaits(r, p)
                                 THEN Advance(loop[r]) ELSE loop[r]]
    /\ cache' = [cache EXCEPT ![a] = [k \in GetKinds |-> Empty]]
    /\ gets' = {g \in gets : g.authority # a}
    /\ accepted' = [accepted EXCEPT ![a] = [r \in Relays |-> 0]]
    /\ UNCHANGED <<bound, now, up, got, latest>>

----------------------------------------------------------------------------
(* GET /directory and GET /admissions                                      *)

\* The answer to a client, who keeps the attestations.
Serve(a, k, doc) ==
    got' = IF k = "adm" /\ a \notin DOMAIN got.lists
           THEN [since |-> IF got.lists = <<>> THEN now ELSE got.since,
                 lists |-> got.lists @@ (a :> doc.list)]
           ELSE got

CacheHit(a, k) == cache[a][k].some /\ Minus(now, cache[a][k].built) < CACHE_TTL

GetCached(a, k) ==
    /\ CacheHit(a, k)
    /\ Serve(a, k, cache[a][k].doc)
    /\ UNCHANGED <<bound, now, up, loop, reg, posts, cache, gets, accepted, latest>>

GetMiss(a, k) ==
    /\ ~CacheHit(a, k)
    /\ Cardinality(gets) < bound.gets
    /\ gets' = gets \cup {[authority |-> a, kind |-> k, now |-> now,
                           built |-> FALSE, doc |-> NoDoc]}
    /\ UNCHANGED <<bound, now, up, loop, reg, posts, cache, got, accepted, latest>>

\* What the answers list: of a relay, when it was last heard, or the epoch of
\* its attestation.
directory(r) == [k \in Listed(r) |-> r[k].last_seen]

admissions(r, t) == [k \in {j \in Listed(r) : epoch_acceptable(r[j].epoch, t)} |-> r[k].epoch]

\* Mutant: valid_after is rounded down.
GetBuildRounded(g) ==
    LET r == prune_at(reg[g.authority], g.now)
        list == IF g.kind = "dir" THEN directory(r) ELSE admissions(r, g.now)
    IN  /\ ~g.built
        /\ reg' = [reg EXCEPT ![g.authority] = r]
        /\ gets' = (gets \ {g}) \cup
                    {[g EXCEPT !.built = TRUE, !.doc = [at |-> current_attest_epoch(now), list |-> list]]}
        /\ UNCHANGED <<bound, now, up, loop, posts, cache, got, accepted, latest>>

\* Under the registry lock: prune, then list what is left.
GetBuild(g) ==
    LET r == prune_at(reg[g.authority], g.now)
        list == IF g.kind = "dir" THEN directory(r) ELSE admissions(r, g.now)
    IN  /\ ~g.built
        /\ reg' = [reg EXCEPT ![g.authority] = r]
        /\ gets' = (gets \ {g}) \cup
                    {[g EXCEPT !.built = TRUE, !.doc = [at |-> now, list |-> list]]}
        /\ UNCHANGED <<bound, now, up, loop, posts, cache, got, accepted, latest>>

\* The entry carries the clock reading from before the build.
GetStore(g) ==
    /\ g.built
    /\ gets' = gets \ {g}
    /\ cache' = [cache EXCEPT ![g.authority][g.kind] =
                    [some |-> TRUE, built |-> g.now, doc |-> g.doc]]
    /\ latest' = [latest EXCEPT ![g.authority] =
                    IF g.kind = "dir" /\ g.doc.at > @ THEN g.doc.at ELSE @]
    /\ Serve(g.authority, g.kind, g.doc)
    /\ UNCHANGED <<bound, now, up, loop, reg, posts, accepted>>

\* A client starts over.
Forget ==
    /\ got.lists # <<>>
    /\ got' = NothingYet
    /\ UNCHANGED <<bound, now, up, loop, reg, posts, cache, gets, accepted, latest>>

\* Time passes, but no probe, GET, round of GETs or pass exceeds its bound.
Tick ==
    /\ now < bound.until
    /\ \A p \in posts : now < p.since + bound.probe
    /\ \A g \in gets : now < g.now + bound.lag
    /\ got.lists # <<>> => now < got.since + bound.collect
    /\ \A r \in Relays : up[r] =>
                    now < loop[r].next + (IF loop[r].i = 0 THEN 0 ELSE bound.pass)
    /\ now' = now + 1
    /\ UNCHANGED <<bound, up, loop, reg, posts, cache, gets, got, accepted, latest>>

Init ==
    /\ bound \in Bounds
    /\ now = 1
    /\ up = [r \in Relays |-> FALSE]
    /\ loop = [r \in Relays |-> Asleep(0, 0)]
    /\ reg = [a \in Authorities |-> <<>>]
    /\ posts = {} /\ gets = {}
    /\ cache = [a \in Authorities |-> [k \in GetKinds |-> Empty]]
    /\ got = NothingYet
    /\ accepted = [a \in Authorities |-> [r \in Relays |-> 0]]
    /\ latest = [a \in Authorities |-> 0]

\* The authorities of this behaviour.
InUse == ToSet(bound.order)

Next ==
    \/ \E r \in bound.relays : \/ Start(r) \/ Crash(r) \/ BeginPass(r)
                               \/ Post(r) \/ Refused(r) \/ TimesOut(r)
    \/ \E p \in posts : Enroll(p) \/ ProbeFails(p)
    \/ \E a \in InUse : Restart(a)
    \/ \E a \in InUse, k \in bound.kinds : GetCached(a, k) \/ GetMiss(a, k)
    \/ \E g \in gets : GetBuild(g) \/ GetStore(g)
    \/ Forget
    \/ Tick

Spec == Init /\ [][Next]_vars

----------------------------------------------------------------------------
(* Properties                                                              *)

Entries == [seq : Nat, epoch : Nat, last_seen : Nat, first_seen : Nat]

\* The state has the shape the structs of the three programs give it.
TypeOK ==
    /\ now \in Nat /\ up \in [Relays -> BOOLEAN]
    /\ \A r \in Relays : loop[r].i \in 0..Len(bound.order) /\ loop[r].seq \in Nat
    /\ \A a \in Authorities : /\ DOMAIN reg[a] \subseteq Relays
                              /\ \A r \in DOMAIN reg[a] : reg[a][r] \in Entries
    /\ \A p \in posts : p.authority \in Authorities /\ p.relay \in Relays
    /\ \A g \in gets : g.authority \in Authorities /\ g.kind \in GetKinds

\* An enrollment that comes out of its probe late never takes the place of one
\* sent after it, although prune_at forgets sequence numbers and a relay that
\* restarts takes its number from the clock (Registry::enroll_at).
NewestWins ==
    /\ TypeOK
    /\ \A a \in Authorities : \A r \in DOMAIN reg[a] : reg[a][r].seq >= accepted[a][r]

Slack == IF CACHE_TTL - 1 > bound.lag THEN CACHE_TTL - 1 ELSE bound.lag

\* The directories just built, and those that a GET can be answered with now.
Built(a) == {g.doc : g \in {f \in gets : f.authority = a /\ f.kind = "dir" /\ f.built}}
Answers(a) == Built(a) \cup (IF CacheHit(a, "dir") THEN {cache[a]["dir"].doc} ELSE {})

\* A served directory lists only relays heard of within the stale period and
\* the age of the cache, whatever build stored its answer last, and clients
\* that compare valid_after see it go back by less than that age when a slower
\* build overwrites the cache (directory).
ServedFresh ==
    \A a \in InUse : \A doc \in Answers(a) :
        /\ \A r \in DOMAIN doc.list : doc.list[r] + STALE_AFTER + Slack >= now
        /\ doc.at + Slack >= latest[a]

Profiles == {Profile[r] : r \in Relays}

\* Of one /24, /16 or operator, the point's for a hosted relay, no more relays
\* are listed than the caps allow, in any order of arrival
\* (apply_diversity_caps).
CapsRespected ==
    \A a \in InUse : \A doc \in Built(a) : \A r \in DOMAIN doc.list :
        LET ip(q) == eff_diversity_ip(Profile[q], Profiles)
            op(q) == eff_operator(Profile[q], Profiles)
            same(f(_)) == Cardinality({q \in DOMAIN doc.list : f(q) = f(r)})
        IN  /\ same(LAMBDA q : <<ip(q).wide, ip(q).narrow>>) <= MAX_RELAYS_PER_24
            /\ same(LAMBDA q : ip(q).wide) <= MAX_RELAYS_PER_16
            /\ op(r) # None => same(op) <= MAX_RELAYS_PER_OPERATOR

\* The newest entry displaces nobody from the list, unless it is the point of
\* relays registered before it (order_for_diversity_caps).
SeniorityKept ==
    \A a \in Authorities : \A x \in DOMAIN reg[a] :
        LET others == DOMAIN reg[a] \ {x}
        IN  (\A y \in others : /\ reg[a][y].first_seen < reg[a][x].first_seen
                               /\ Profile[y].rendezvous # x)
            => Listed(reg[a]) \ {x} = Listed([y \in others |-> reg[a][y]])

\* The list is sound: within the caps, and contested places go by seniority
\* (Registry::build_signed).
ListSound == CapsRespected /\ SeniorityKept

\* Enrolled everywhere for as long as an answer may have been in a cache.
Settled(r) ==
    \A a \in InUse :
        r \in DOMAIN reg[a] /\ reg[a][r].first_seen + Slack < got.since

\* The attestations a client has collected of r agree on an epoch in a quorum.
QuorumFor(r) ==
    \E e \in 0..bound.until :
        Cardinality({a \in InUse :
            r \in DOMAIN got.lists[a] /\ got.lists[a][r] = e}) >= Threshold

Collected == DOMAIN got.lists = InUse

\* While relays keep their heartbeat, a client that asks every authority for
\* /admissions finds k attestations of one epoch, at the change of epoch too:
\* a pass leaves at most two epochs in the registries (run_enrollment_loop).
QuorumKept == Collected => \A r \in bound.relays : Settled(r) => QuorumFor(r)
=============================================================================
