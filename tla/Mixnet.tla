------------------------------- MODULE Mixnet -------------------------------
(***************************************************************************)
(* Packets on their way through the relays: ship_path and the reply blocks *)
(* (SURBs) of the sender, Relay::process, serve_connection and             *)
(* run_rendezvous_inbound of a relay, ConnectionPool::send, and the tunnel *)
(* through which a rendezvous point pushes to a relay it hosts.            *)
(*                                                                         *)
(* Links lose packets and, when the pool sends again over a new connection *)
(* what it may have sent over the old one, duplicate them.  Relays crash,  *)
(* lose what they hold for its delay, and come back with the replay tags   *)
(* they saved last.                                                        *)
(***************************************************************************)
EXTENDS Sphinx, FiniteSets, SequencesExt

CONSTANTS
    Relays,
    Point,          \* [hosted relays -> the relay that hosts them]
    Packets,        \* names of packets
    Route,          \* [Packets -> sequence of relays]
    Replies,        \* the packets that are sent with a reply block
    INBOUND_QUEUE,  \* RENDEZVOUS_INBOUND_QUEUE
    Faults,         \* what goes wrong: a subset of FaultKinds
    Crashing,       \* the relays that may crash
    MaxCrashes      \* bound on the crashes of all relays

FaultKinds == {"lose", "resend", "limit", "tunnel"}

ASSUME MixnetAssumption ==
    /\ DOMAIN Point \subseteq Relays /\ Faults \subseteq FaultKinds
    /\ Crashing \subseteq Relays
    /\ \A p \in Packets : Route[p] \in Seq(Relays)
    /\ Replies \subseteq Packets /\ INBOUND_QUEUE \in Nat \ {0}

VARIABLES
    shipped,    \* packets whose sender is done with them
    wire,       \* packets on a link: [to, header, region, copy]
    inbound,    \* [hosted relays -> queue of packets out of the tunnel]
    tunnel,     \* [hosted relays -> BOOLEAN]: registered at the point
    seen,       \* [Relays -> tags in the replay cache]
    saved,      \* [Relays -> tags in the replay file]
    tasks,      \* spawned tasks that sleep until a packet's delay is over
    delivered,  \* history: what the delivery handlers were given
    crashes,    \* [Relays -> Nat]
    taken       \* history: the packets of which a fault took a copy

vars == <<shipped, wire, inbound, tunnel, seen, saved, tasks, delivered, crashes,
          taken>>

Hosted == DOMAIN Point

Name(header) == header.alpha[1]

----------------------------------------------------------------------------
(* The sender                                                              *)

\* Mutant: the flag for a hosted next hop is not set.
RecordDirect(route, i) ==
    IF i < Len(route) THEN Record(route[i + 1], FALSE, FALSE, NoGamma)
    ELSE Record("none", FALSE, TRUE, NoGamma)

\* A hosted relay is reached through the hop before it.
RecordFor(route, i) ==
    IF i < Len(route)
    THEN Record(route[i + 1], route[i + 1] \in Hosted, FALSE, NoGamma)
    ELSE Record("none", FALSE, TRUE, NoGamma)

\* ship_path and build_surb, and the reply that seal_reply puts under a SURB.
\* A SURB has at least two hops, and none of them is hosted.
MayShip(p) ==
    /\ Len(Route[p]) \in 1..MAX_HOPS
    /\ Route[p][1] \notin Hosted
    /\ p \in Replies => /\ Len(Route[p]) >= 2
                        /\ \A i \in 1..Len(Route[p]) : Route[p][i] \notin Hosted

RegionOf ==
    [p \in Packets |-> IF p \in Replies THEN encrypt(<<"reply_key", p>>, Plain(p))
                       ELSE encrypt_all(sub_keys(p, Route[p]), Plain(p))]

HeaderOf ==
    [p \in Packets |-> wrap_header(p, Route[p],
                         [i \in 1..Len(Route[p]) |-> RecordFor(Route[p], i)])]

Ship(p) ==
    /\ MayShip(p) /\ p \notin shipped
    /\ shipped' = shipped \cup {p}
    /\ wire' = wire \cup
        {[to |-> Route[p][1], header |-> HeaderOf[p], region |-> RegionOf[p],
          copy |-> 0]}
    /\ UNCHANGED <<inbound, tunnel, seen, saved, tasks, delivered, crashes, taken>>

\* What the owner of the reply block, or the exit, reads in a region.
Opened(p, region) ==
    IF p \in Replies
    THEN decrypt(<<"reply_key", p>>, encrypt_all(sub_keys(p, Route[p]), region))
    ELSE region

----------------------------------------------------------------------------
(* A relay                                                                 *)

\* Mutant: a tag that has been seen is not refused.
AcceptAgain(r, w) ==
    LET key == derive_hop_subkeys(r, w.header.alpha)
        out == unwrap_header(w.header, key)
    IN  /\ TagHolds(w.header, key)
        /\ seen' = [seen EXCEPT ![r] = @ \cup {w.header.gamma}]
        /\ tasks' = tasks \cup
            {[at |-> r, record |-> out.record, header |-> out.next_header,
              region |-> decrypt(key, w.region), copy |-> w.copy,
              again |-> FALSE]}

\* The packet is good and new: it waits for its delay.  Self-loops go no further.
Accept(r, w) ==
    LET key == derive_hop_subkeys(r, w.header.alpha)
        out == unwrap_header(w.header, key)
    IN  /\ TagHolds(w.header, key)
        /\ w.header.gamma \notin seen[r]
        /\ seen' = [seen EXCEPT ![r] = @ \cup {w.header.gamma}]
        /\ tasks' = IF ~out.record[3] /\ out.record[1] = r THEN tasks
                    ELSE tasks \cup
                        {[at |-> r, record |-> out.record, header |-> out.next_header,
                          region |-> decrypt(key, w.region), copy |-> w.copy,
              again |-> FALSE]}

\* The packets of which a copy is among ws.
Names(ws) == {Name(w.header) : w \in ws}

\* Malformed, a tag that does not hold, a replay.
Refuses(r, w) ==
    \/ ~decode_header(w.header)
    \/ ~TagHolds(w.header, derive_hop_subkeys(r, w.header.alpha))
    \/ w.header.gamma \in seen[r]

\* The rate limiter of serve_connection comes first.
process(r, w) ==
    \/ decode_header(w.header) /\ Accept(r, w) /\ UNCHANGED taken
    \/ Refuses(r, w) /\ UNCHANGED <<seen, tasks, taken>>
    \/ "limit" \in Faults /\ taken' = taken \cup Names({w}) /\ UNCHANGED <<seen, tasks>>

\* serve_connection reads a frame.
Receive(w) ==
    /\ w.to \notin Hosted
    /\ wire' = wire \ {w}
    /\ process(w.to, w)
    /\ UNCHANGED <<shipped, inbound, tunnel, saved, delivered, crashes>>

\* rendezvous_session reads a frame; it waits while the queue is full.
FromTunnel(w) ==
    /\ w.to \in Hosted
    /\ Len(inbound[w.to]) < INBOUND_QUEUE
    /\ wire' = wire \ {w}
    /\ inbound' = [inbound EXCEPT ![w.to] = Append(@, w)]
    /\ UNCHANGED <<shipped, tunnel, seen, saved, tasks, delivered, crashes, taken>>

\* run_rendezvous_inbound.
ReceiveInbound(h) ==
    /\ inbound[h] # <<>>
    /\ inbound' = [inbound EXCEPT ![h] = Tail(@)]
    /\ process(h, Head(inbound[h]))
    /\ UNCHANGED <<shipped, wire, tunnel, saved, delivered, crashes>>

\* The delay is over at the last hop.
Deliver(t) ==
    /\ t.record[3]
    /\ tasks' = tasks \ {t}
    /\ delivered' = Append(delivered, [at |-> t.at, name |-> Name(t.header),
                                       region |-> t.region])
    /\ UNCHANGED <<shipped, wire, inbound, tunnel, seen, saved, crashes, taken>>

OnWire(t, copy) ==
    [to |-> t.record[1], header |-> t.header, region |-> t.region, copy |-> copy]

\* RendezvousTable::push: one tunnel, no second try.
Push(t) ==
    LET next == t.record[1]
        up == next \in Hosted /\ Point[next] = t.at /\ tunnel[next]
    IN  /\ ~t.record[3] /\ t.record[2]
        /\ tasks' = tasks \ {t}
        /\ wire' = IF up THEN wire \cup {OnWire(t, t.copy)} ELSE wire
        /\ taken' = IF next \in Hosted /\ ~tunnel[next] THEN taken \cup Names({t}) ELSE taken
        /\ UNCHANGED <<shipped, inbound, tunnel, seen, saved, delivered, crashes>>

\* ConnectionPool::send: over the cached connection or a new one (none to the
\* empty address of a hosted relay), ...
Send(t) ==
    /\ ~t.record[3] /\ ~t.record[2]
    /\ tasks' = tasks \ {t}
    /\ wire' = IF t.record[1] \in Hosted THEN wire
               ELSE wire \cup {OnWire(t, IF t.again THEN 1 ELSE t.copy)}
    /\ UNCHANGED <<shipped, inbound, tunnel, seen, saved, delivered, crashes, taken>>

\* ... or over both, when the cached one fails with the frame on its way or not.
SendFails(t) ==
    /\ "resend" \in Faults
    /\ ~t.record[3] /\ ~t.record[2] /\ ~t.again /\ t.copy = 0
    /\ tasks' = (tasks \ {t}) \cup {[t EXCEPT !.again = TRUE]}
    /\ t.record[1] \notin Hosted
    /\ wire' \in {wire, wire \cup {OnWire(t, 0)}}
    /\ UNCHANGED <<shipped, inbound, tunnel, seen, saved, delivered, crashes, taken>>

----------------------------------------------------------------------------
(* The environment                                                         *)

Lose(w) ==
    /\ "lose" \in Faults
    /\ wire' = wire \ {w}
    /\ taken' = taken \cup Names({w})
    /\ UNCHANGED <<shipped, inbound, tunnel, seen, saved, tasks, delivered, crashes>>

\* A tunnel goes down with what is on it.
TunnelDown(h) ==
    /\ "tunnel" \in Faults /\ tunnel[h]
    /\ tunnel' = [tunnel EXCEPT ![h] = FALSE]
    /\ wire' = {w \in wire : w.to # h}
    /\ taken' = taken \cup Names(wire \ wire')
    /\ UNCHANGED <<shipped, inbound, seen, saved, tasks, delivered, crashes>>

\* run_rendezvous_client connects again.
TunnelUp(h) ==
    /\ ~tunnel[h]
    /\ tunnel' = [tunnel EXCEPT ![h] = TRUE]
    /\ UNCHANGED <<shipped, wire, inbound, seen, saved, tasks, delivered, crashes, taken>>

\* spawn_replay_persistence.
Save(r) ==
    /\ r \in Crashing /\ saved[r] # seen[r]
    /\ saved' = [saved EXCEPT ![r] = seen[r]]
    /\ UNCHANGED <<shipped, wire, inbound, tunnel, seen, tasks, delivered, crashes, taken>>

CrashCount == Cardinality({<<r, n>> \in Relays \X (1..MaxCrashes) : n <= crashes[r]})

Crash(r) ==
    /\ r \in Crashing /\ CrashCount < MaxCrashes
    /\ crashes' = [crashes EXCEPT ![r] = @ + 1]
    /\ seen' = [seen EXCEPT ![r] = saved[r]]
    /\ tasks' = {t \in tasks : t.at # r}
    /\ inbound' = [h \in Hosted |-> IF h = r THEN <<>> ELSE inbound[h]]
    /\ tunnel' = [h \in Hosted |-> tunnel[h] /\ h # r /\ Point[h] # r]
    /\ wire' = {w \in wire : w.to # r /\ (w.to \in Hosted => Point[w.to] # r)}
    /\ taken' = taken \cup Names((wire \ wire') \cup (tasks \ tasks'))
                     \cup (IF r \in Hosted THEN Names(ToSet(inbound[r])) ELSE {})
    /\ UNCHANGED <<shipped, saved, delivered>>

Init ==
    /\ shipped = {} /\ wire = {} /\ tasks = {} /\ delivered = <<>>
    /\ inbound = [h \in Hosted |-> <<>>]
    /\ tunnel = [h \in Hosted |-> TRUE]
    /\ seen = [r \in Relays |-> {}] /\ saved = [r \in Relays |-> {}]
    /\ crashes = [r \in Relays |-> 0] /\ taken = {}

Next ==
    \/ \E p \in Packets : Ship(p)
    \/ \E w \in wire : Receive(w) \/ FromTunnel(w) \/ Lose(w)
    \/ \E h \in Hosted : ReceiveInbound(h) \/ TunnelDown(h) \/ TunnelUp(h)
    \/ \E t \in tasks : Deliver(t) \/ Push(t) \/ Send(t) \/ SendFails(t)
    \/ \E r \in Relays : Save(r) \/ Crash(r)

Spec == Init /\ [][Next]_vars

----------------------------------------------------------------------------
(* Properties                                                              *)

\* The state has the shape the programs give it, and the bounds hold.
TypeOK ==
    /\ shipped \subseteq Packets
    /\ \A w \in wire : w.to \in Relays /\ w.header.hop_index \in 1..MAX_HOPS
    /\ \A h \in Hosted : Len(inbound[h]) <= INBOUND_QUEUE
    /\ \A t \in tasks : t.at \in Relays /\ t.copy \in 0..1
    /\ \A i \in DOMAIN delivered : delivered[i].name \in Packets

Deliveries(p) == {i \in DOMAIN delivered : delivered[i].name = p}

\* However often links resend and other relays crash, an exit that has not
\* crashed hands a packet to its delivery handler at most once
\* (Relay::process, ConnectionPool::send).
AtMostOnce ==
    \A p \in Packets :
        crashes[Route[p][Len(Route[p])]] = 0 => Cardinality(Deliveries(p)) <= 1

\* A packet is only ever on its way to the relay of its route whose slot comes
\* next, and that relay finds the tag in order (wrap_header, unwrap_header).
RouteFollowed ==
    /\ TypeOK
    /\ \A w \in wire \cup UNION {ToSet(inbound[h]) : h \in Hosted} :
        /\ w.to = Route[Name(w.header)][w.header.hop_index]
        /\ TagHolds(w.header, derive_hop_subkeys(w.to, w.header.alpha))

\* The exit of the route, no other relay, gets the text the sender wrote: a
\* payload loses its last layer there, and a reply the owner of the block can
\* open carries one layer of every hop (ship_path, SurbKeys::open).
TextIntact ==
    \A i \in DOMAIN delivered :
        LET d == delivered[i]
        IN  /\ d.at = Route[d.name][Len(Route[d.name])]
            /\ Opened(d.name, d.region) = Plain(d.name)

\* A packet goes the way its sender chose, and only the end of it reads the text.
ExitReads == RouteFollowed /\ TextIntact

\* No string of the header that one hop passes on is one that it received:
\* every slot, the trailer, alpha and the tag have changed (unwrap_header).
NothingCarriedOver ==
    \A w \in wire, v \in wire \cup {[x \in {"header"} |-> t.header] : t \in tasks} :
        w.header.hop_index # v.header.hop_index =>
            /\ \A s \in Slots : w.header.beta[s] # v.header.beta[s]
            /\ w.header.trailer # v.header.trailer
            /\ w.header.alpha # v.header.alpha
            /\ w.header.gamma # v.header.gamma

Somewhere ==
    Names(wire) \cup Names(tasks) \cup UNION {Names(ToSet(inbound[h])) : h \in Hosted}

\* A packet that has been shipped is on its way or has arrived, unless a fault
\* took a copy of it: not when a pool sends again and one copy is refused as a
\* replay of the other, not at a tunnel whose queue is full, not when a relay
\* comes back with the tags it had saved (Relay::process, ConnectionPool::send,
\* rendezvous_session).
NoneVanishes ==
    \A p \in shipped \ taken : p \in Somewhere \/ Deliveries(p) # {}
=============================================================================
