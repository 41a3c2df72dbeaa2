-------------------------------- MODULE Link --------------------------------
(***************************************************************************)
(* Connections to a relay's listener (crypto-gotham-relay/src/transport.rs)*)
(* The listener takes a permit for each connection it accepts and sheds    *)
(* the others; the task of a connection goes by the protocol the client    *)
(* asked for (its ALPN), does a Noise handshake and serves until the peer  *)
(* leaves.  Noise is symbolic: a message made for a key is read only by    *)
(* the process that holds it.  Client and server of a connection move on   *)
(* their own, and either may give up on the other.                         *)
(***************************************************************************)
EXTENDS Integers, Sequences, FiniteSets, SequencesExt

CONSTANTS
  Relays,           \* a relay is its key
  Addrs,            \* the addresses they listen at
  Slots,            \* bound: connections at a time
  MaxRequests,      \* MAX_MAILBOX_REQUESTS_PER_CONN
  MaxQuerierKeys,   \* MAX_QUERIER_KEYS
  None

VARIABLES
  bound,       \* bounds of the behaviour; bound.inflight is MAX_INFLIGHT_CONNS
  listening,   \* [Addrs -> Relays \cup {None}]: the process that answers there
  services,    \* [Relays -> SUBSET {"mailbox", "gossip"}]: what its listener serves
  queriers,    \* [Relays -> Seq]: QuerierKeys, oldest first
  tunnels,     \* pairs of a rendezvous point and a relay it hosts
  permits,     \* [Relays -> Nat]: free permits of the listener
  conns,       \* [Slots -> connection or Free]
  faults       \* losses and timeouts the network may still cause

linkVars == <<listening, services, queriers, tunnels, permits, conns, faults>>

Free == [use |-> None]
InUse(c) == conns[c].use # None
(* An authority's probe is a packet connection that closes at once.        *)
OfDesk(c) == conns[c].use \in {"probe", "query"}
(* The server's task is running and holds a permit.                        *)
Served(c) == InUse(c) /\ conns[c].server \in {"accepted", "handshake", "sent2", "open"}
Answerer(addr) == IF addr \in Addrs THEN listening[addr] ELSE None
Gone(c) == conns[c].client \in {"failed", "closed"}

(* querier_keys, add_querier_key, querier_known.                           *)
querier_keys(pinned) == IF pinned = None THEN <<>> ELSE <<pinned>>
add_querier_key(held, pk) ==
  IF pk \in ToSet(held) THEN held
  ELSE Append(IF Len(held) >= MaxQuerierKeys THEN Tail(held) ELSE held, pk)
querier_known(held, pk) == pk \in ToSet(held)

Set(c, client, server) == [conns EXCEPT ![c].client = client, ![c].server = server]
(* The task of c ends and drops its permit.                                *)
EndTask(c, client) ==
  /\ conns' = Set(c, client, "ended")
  /\ permits' = [permits EXCEPT ![conns[c].to] = @ + 1]
  /\ UNCHANGED <<listening, services, queriers, tunnels, faults>>
Step(c, client, server) ==
  conns' = Set(c, client, server) /\ UNCHANGED <<listening, services, queriers, tunnels, permits, faults>>

-----------------------------------------------------------------------------
(* The protocols a listener offers, and the one a client's endpoint asks   *)
(* for: a probe is an ordinary packet connection.                          *)
build_server_endpoint == {"mixnet", "mailbox", "gossip", "rendezvous", "query"}
build_client_endpoint(use) == IF use = "probe" THEN "mixnet" ELSE use
negotiated_alpn(c) ==
  LET alpn == build_client_endpoint(conns[c].use)
  IN  IF alpn \in build_server_endpoint THEN alpn ELSE None

(* The client dials: endpoint.connect, open_bi.                            *)
Dialled(use, from, addr, expect, about) ==
  [use |-> use, from |-> from, addr |-> addr, expect |-> expect, about |-> about,
   to |-> None, client |-> "dialling", server |-> "none", served |-> 0, answer |-> None]
Dial(c, use, from, addr, expect, about) ==
  /\ ~InUse(c)
  /\ conns' = [conns EXCEPT ![c] = Dialled(use, from, addr, expect, about)]

(* endpoint.accept: a permit, or the connection is shed.                   *)
Accept(c) ==
  LET r == Answerer(conns[c].addr) IN
  /\ InUse(c) /\ conns[c].client = "dialling" /\ conns[c].server = "none" /\ r # None
  /\ IF permits[r] = 0
     THEN conns' = Set(c, "failed", "ended") /\ UNCHANGED permits
     ELSE /\ conns' = [conns EXCEPT ![c].server = "accepted", ![c].to = r]
          /\ permits' = [permits EXCEPT ![r] = @ - 1]
  /\ UNCHANGED <<listening, services, queriers, tunnels, faults>>

(* Mutant: the permit is kept when the service is not there.               *)
DispatchLeaks(c) ==
  /\ InUse(c) /\ conns[c].server = "accepted"
  /\ IF negotiated_alpn(c) \in {"mailbox", "gossip"} \ services[conns[c].to]
     THEN Step(c, "failed", "ended")
     ELSE Step(c, conns[c].client, "handshake")

(* The match on the negotiated ALPN: a mailbox or gossip connection is     *)
(* closed by a relay that has none; everything else is served.             *)
Dispatch(c) ==
  /\ InUse(c) /\ conns[c].server = "accepted"
  /\ IF negotiated_alpn(c) \in {"mailbox", "gossip"} \ services[conns[c].to]
     THEN EndTask(c, "failed")
     ELSE Step(c, conns[c].client, "handshake")

(* Noise XK has three messages, the first made for the key the client      *)
(* expects.                                                                *)
ClientHello(c) ==
  /\ InUse(c) /\ conns[c].client = "dialling" /\ conns[c].server \in {"accepted", "handshake"}
  /\ Step(c, "sent1", conns[c].server)

(* Mutant: any first message is answered.                                  *)
ServerReplyAny(c) ==
  /\ InUse(c) /\ conns[c].use # "query" /\ conns[c].server = "handshake" /\ conns[c].client = "sent1"
  /\ Step(c, "sent1", "sent2")
ServerReply(c) ==
  /\ InUse(c) /\ conns[c].use # "query" /\ conns[c].server = "handshake" /\ conns[c].client = "sent1"
  /\ IF conns[c].expect = conns[c].to THEN Step(c, "sent1", "sent2") ELSE EndTask(c, "sent1")

(* The client reads the answer, sends its own key and is done before the   *)
(* server is.                                                              *)
ClientFinish(c) ==
  /\ InUse(c) /\ conns[c].client = "sent1" /\ conns[c].server = "sent2"
  /\ Step(c, "done", "sent2")
ServerFinish(c) ==
  /\ InUse(c) /\ conns[c].server = "sent2" /\ conns[c].client \in {"done", "closed"}
  /\ Step(c, conns[c].client, "open")

(* Noise IK, of a query: the client's key is in its first message, so the  *)
(* server is done when it has answered and knows who asks.                 *)
IKReply(c) ==
  /\ InUse(c) /\ conns[c].use = "query" /\ conns[c].server = "handshake" /\ conns[c].client = "sent1"
  /\ IF conns[c].expect = conns[c].to THEN Step(c, "sent1", "open") ELSE EndTask(c, "sent1")
IKFinish(c) ==
  /\ InUse(c) /\ conns[c].use = "query" /\ conns[c].client = "sent1" /\ conns[c].server = "open"
  /\ Step(c, "done", "open")

(* Nothing more will come: nobody at the address, or the server left.      *)
Stuck(c) ==
  \/ conns[c].client = "dialling" /\ conns[c].server = "none" /\ Answerer(conns[c].addr) = None
  \/ conns[c].client \in {"dialling", "sent1"} /\ conns[c].server = "ended"
  \/ conns[c].client = "done" /\ conns[c].server = "ended" /\ conns[c].use # "probe"
                              /\ conns[c].answer = None
ClientGivesUp(c) ==
  InUse(c) /\ Stuck(c) /\ Step(c, "failed", conns[c].server)

(* HANDSHAKE_READ_TIMEOUT, the timeout of a probe, a lost connection: one  *)
(* side gives up although the other is there.                              *)
ClientCut(c) ==
  /\ InUse(c) /\ conns[c].client \in {"dialling", "sent1", "done"} /\ faults > 0
  /\ conns' = Set(c, "failed", conns[c].server) /\ faults' = faults - 1
  /\ UNCHANGED <<listening, services, queriers, tunnels, permits>>
ServerCut(c) ==
  /\ Served(c) /\ ~Gone(c) /\ faults > 0
  /\ conns' = Set(c, conns[c].client, "ended") /\ faults' = faults - 1
  /\ permits' = [permits EXCEPT ![conns[c].to] = @ + 1]
  /\ UNCHANGED <<listening, services, queriers, tunnels>>

(* serve_rendezvous_query: only a known key is answered.                   *)
AnswerQuery(c) ==
  /\ InUse(c) /\ conns[c].use = "query" /\ conns[c].server = "open" /\ conns[c].client = "done"
  /\ LET r == conns[c].to IN
     IF querier_known(queriers[r], conns[c].from)
     THEN conns' = [conns EXCEPT ![c].answer = IF <<r, conns[c].about>> \in tunnels THEN "yes" ELSE "no",
                                 ![c].server = "ended"]
     ELSE conns' = [conns EXCEPT ![c].server = "ended", ![c].client = "failed"]
  /\ permits' = [permits EXCEPT ![conns[c].to] = @ + 1]
  /\ UNCHANGED <<listening, services, queriers, tunnels, faults>>

(* One request of a mailbox connection; the one after the budget is        *)
(* answered RateLimited and ends it.  Gossip and packets have no budget.   *)
ServeRequest(c) ==
  /\ InUse(c) /\ conns[c].use # "query" /\ conns[c].server = "open" /\ conns[c].client = "done"
  /\ IF conns[c].use = "mailbox" /\ conns[c].served >= MaxRequests
     THEN EndTask(c, "done")
     ELSE /\ conns' = [conns EXCEPT ![c].served = IF conns[c].use = "mailbox" THEN @ + 1 ELSE @]
          /\ UNCHANGED <<listening, services, queriers, tunnels, permits, faults>>

(* The client has what it wanted; the server's next read fails.            *)
ClientCloses(c) ==
  InUse(c) /\ conns[c].client = "done" /\ ~OfDesk(c) /\ Step(c, "closed", conns[c].server)
ServerReadFails(c) ==
  Served(c) /\ Gone(c) /\ EndTask(c, conns[c].client)

Forget(c) ==
  /\ InUse(c) /\ Gone(c) /\ ~Served(c) /\ (OfDesk(c) => conns[c].client = "closed")
  /\ conns' = [conns EXCEPT ![c] = Free]
  /\ UNCHANGED <<listening, services, queriers, tunnels, permits, faults>>

(* A process ends: its tasks are gone and its permits with them.           *)
LinkCrash(r) ==
  /\ listening' = [a \in Addrs |-> IF listening[a] = r THEN None ELSE listening[a]]
  /\ services' = [services EXCEPT ![r] = {}]
  /\ queriers' = [queriers EXCEPT ![r] = <<>>]
  /\ tunnels' = {t \in tunnels : r \notin {t[1], t[2]}}
  /\ permits' = [p \in Relays |-> IF p = r THEN bound.inflight
                                 ELSE permits[p] + Cardinality(tunnels \cap {<<p, r>>})]
  /\ conns' = [c \in Slots |-> IF InUse(c) /\ conns[c].to = r /\ Served(c)
                               THEN [conns[c] EXCEPT !.server = "ended"] ELSE conns[c]]

LinkStep(c) ==
  \/ Accept(c) \/ Dispatch(c)
  \/ ClientHello(c) \/ ServerReply(c) \/ ClientFinish(c) \/ ServerFinish(c)
  \/ IKReply(c) \/ IKFinish(c)
  \/ AnswerQuery(c) \/ ClientGivesUp(c) \/ ServerReadFails(c) \/ Forget(c)
LinkOther(c) == ServeRequest(c) \/ ClientCloses(c) \/ ClientCut(c) \/ ServerCut(c)

LinkInit ==
  /\ listening = [a \in Addrs |-> None]
  /\ services = [r \in Relays |-> {}]
  /\ queriers = [r \in Relays |-> <<>>]
  /\ tunnels = {}
  /\ permits = [r \in Relays |-> bound.inflight]
  /\ conns = [c \in Slots |-> Free]

-----------------------------------------------------------------------------
(* A client that finished the handshake talks to the process that holds    *)
(* the key it expected, even when another relay has the address by then    *)
(* (noise_initiator_handshake, noise_ik_initiator_handshake): what makes a *)
(* probe proof of possession.                                              *)
LinkAuthentic ==
  \A c \in Slots : InUse(c) /\ conns[c].client = "done" => conns[c].to = conns[c].expect

(* Every permit is free or held by a running task, a tunnel's included, on *)
(* every way out of one, so a relay never sheds connections for tasks that *)
(* ended (serve_endpoint_with_services_shared).                            *)
PermitsConserved ==
  \A r \in Relays :
    permits[r] + Cardinality({c \in Slots : Served(c) /\ conns[c].to = r})
               + Cardinality({t \in tunnels : t[1] = r}) = bound.inflight
=============================================================================
