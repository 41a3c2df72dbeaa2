--------------------------- MODULE MCRelayProcess ---------------------------
(* Instances of RelayProcess: a rendezvous point p and a relay h it hosts; *)
(* one relay under many configurations before two authorities; and one     *)
(* listener under several clients.                                         *)
EXTENDS RelayProcess, TLC

CONSTANTS p, h, a1, a2, u1, u2

MCSlots == ({a1, a2} \X {p, h}) \cup {u1, u2}

Plain == [advertise |-> "x1", upnp |-> FALSE, nat |-> "open", tier |-> TRUE, via |-> None,
          dial |-> None, capable |-> FALSE, mailbox |-> FALSE, gossip |-> "off",
          operator |-> TRUE, pin |-> None, token |-> TRUE]
Point == [Plain EXCEPT !.capable = TRUE]
Hosted == [Plain EXCEPT !.advertise = None, !.nat = "closed", !.via = p, !.dial = "x1"]

MCWan == (p :> "x1") @@ (h :> "x2")
NoBound == [urls |-> <<>>, configs |-> (p :> {}) @@ (h :> {}), launches |-> 0, moves |-> 0, faults |-> 0,
            inflight |-> 3, probes |-> 2, dials |-> {}, slots |-> {}, watched |-> FALSE, wan |-> MCWan]

(* A point and a hosted relay, both before one authority that may restart. *)
HostedBound ==
  [NoBound EXCEPT !.urls = <<a1>>, !.configs = (p :> {Point}) @@ (h :> {Hosted}), !.launches = 2,
                  !.moves = 1, !.faults = 0]
(* The same with losses.                                                   *)
LossyBound == [HostedBound EXCEPT !.moves = 0, !.faults = 1]
(* The same with a process that is launched again.                         *)
AgainBound == [HostedBound EXCEPT !.moves = 0, !.launches = 3, !.probes = 1]

(* Many configurations of one relay.                                       *)
MCConfigs ==
  {Point,
   [Plain EXCEPT !.mailbox = TRUE, !.operator = FALSE],
   [Point EXCEPT !.pin = <<a1, 1>>],
   [Plain EXCEPT !.advertise = None, !.upnp = TRUE, !.nat = "igd"],
   [Plain EXCEPT !.advertise = None, !.upnp = TRUE, !.nat = "cgnat"]}
OddConfigs ==
  {[Plain EXCEPT !.advertise = "garbage"],
   [Plain EXCEPT !.advertise = "zero"],
   [Plain EXCEPT !.advertise = None, !.nat = "closed"],
   [Plain EXCEPT !.tier = FALSE],
   [Plain EXCEPT !.token = FALSE],
   [Plain EXCEPT !.gossip = "broken"],
   [Plain EXCEPT !.gossip = "on", !.advertise = None, !.upnp = TRUE, !.nat = "igd"],
   [Hosted EXCEPT !.capable = TRUE],
   [Hosted EXCEPT !.dial = None],
   [Plain EXCEPT !.dial = "x1"],
   [Hosted EXCEPT !.via = "garbled"]}
ConfigBound ==
  [NoBound EXCEPT !.urls = <<a1, a2>>, !.configs = (p :> MCConfigs) @@ (h :> {}), !.launches = 1,
                  !.moves = 1]
(* The self-check and doctor.                                              *)
WatchBound ==
  [NoBound EXCEPT !.urls = <<a1, a2>>, !.configs = (p :> {Plain, [Plain EXCEPT !.operator = FALSE], [Plain EXCEPT !.token = FALSE]})
                              @@ (h :> {}),
                  !.launches = 1, !.faults = 1, !.watched = TRUE]
OddBound ==
  [NoBound EXCEPT !.urls = <<a1, a2>>, !.configs = (p :> OddConfigs \cup {Plain}) @@ (h :> {}), !.launches = 2]
(* An address that changes hands while authorities probe.                  *)
SwapBound ==
  [NoBound EXCEPT !.urls = <<a1>>, !.configs = (p :> {Plain}) @@ (h :> {[Plain EXCEPT !.advertise = "x3"]}),
                  !.launches = 2, !.moves = 1, !.probes = 1]
(* Clients of one listener.                                                *)
MCDials == {[use |-> u, addr |-> "x1", expect |-> p] : u \in {"mixnet", "mailbox", "gossip"}}
             \cup {[use |-> "mixnet", addr |-> "x1", expect |-> h]}
LinkBound ==
  [NoBound EXCEPT !.configs = (p :> {[Plain EXCEPT !.mailbox = TRUE], [Plain EXCEPT !.gossip = "on"]})
                              @@ (h :> {}),
                  !.launches = 2, !.faults = 1, !.inflight = 1, !.dials = MCDials, !.slots = {u1, u2}]

MCBounds == {HostedBound, LossyBound, AgainBound, ConfigBound, WatchBound, OddBound, SwapBound, LinkBound}
=============================================================================
