----------------------------- MODULE Rendezvous -----------------------------
(***************************************************************************)
(* The tunnels of relays behind a NAT (crypto-gotham-relay/src/            *)
(* rendezvous.rs): each peer dials the rendezvous relay R, reconnects when *)
(* its session ends, and R keeps one tunnel per peer in RendezvousTable.   *)
(*                                                                         *)
(* A connection has three views that change one at a time: the network     *)
(* (lost), the task of R that serves it (task) and the client's session.   *)
(***************************************************************************)
EXTENDS Integers, FiniteSets

CONSTANTS
  Peers,                \* static keys of the hosted relays
  Ips,                  \* source addresses
  Conns,                \* connections; one is used again when both ends have dropped it
  MAX_TUNNELS, MAX_TUNNELS_PER_IP,
  NoConn

ASSUME CapAssumption == MAX_TUNNELS \in Nat /\ MAX_TUNNELS_PER_IP \in Nat
ASSUME ConnAssumption == NoConn \notin Conns
ASSUME PeerAssumption == IsFiniteSet(Peers) /\ Peers # {} /\ Ips # {}

VARIABLES
  task,     \* serve_rendezvous_connection of each connection
  peer, ip, \* what its handshake and its address say
  lost,     \* the connections that no longer carry anything
  table,    \* RendezvousTable: the tunnel of each peer, or NoConn
  client,   \* the connection of each peer's rendezvous_session, or NoConn
  (* History, read by no action of the program: *)
  latest,   \* the last connection registered for each peer
  newcomer  \* the connections registered for a peer that had no tunnel

vars == <<task, peer, ip, lost, table, client, latest, newcomer>>

Hosted == {p \in Peers : table[p] # NoConn}
SameIp(a) == {p \in Hosted : ip[table[p]] = a}

MayAdmitAnyIp(total, same_ip, is_refresh) ==  \* mutant: no cap per address
  is_refresh \/ total < MAX_TUNNELS
may_admit(total, same_ip, is_refresh) ==
  is_refresh \/ (total < MAX_TUNNELS /\ same_ip < MAX_TUNNELS_PER_IP)

-----------------------------------------------------------------------------
(* run_rendezvous_client dials again: the handshake is complete on both    *)
(* sides, R has yet to register the tunnel.                                *)
Connect(p, c, a) ==
  /\ client[p] = NoConn
  /\ task[c] \in {"unused", "done"}
  /\ \A q \in Peers : client[q] # c
  /\ client' = [client EXCEPT ![p] = c]
  /\ task' = [task EXCEPT ![c] = "handshaken"]
  /\ peer' = [peer EXCEPT ![c] = p]
  /\ ip' = [ip EXCEPT ![c] = a]
  /\ lost' = lost \ {c}
  /\ latest' = [q \in Peers |-> IF latest[q] = c THEN NoConn ELSE latest[q]]
  /\ newcomer' = newcomer \ {c}
  /\ UNCHANGED table

(* register, under the table's lock.  A tunnel it refuses is closed.       *)
Register(c) ==
  LET p == peer[c]
      is_refresh == table[p] # NoConn
  IN /\ task[c] = "handshaken"
     /\ IF may_admit(Cardinality(Hosted), Cardinality(SameIp(ip[c])), is_refresh)
        THEN /\ table' = [table EXCEPT ![p] = c]
             /\ latest' = [latest EXCEPT ![p] = c]
             /\ newcomer' = IF is_refresh THEN newcomer ELSE newcomer \cup {c}
             /\ task' = [task EXCEPT ![c] = "serving"]
             /\ UNCHANGED lost
        ELSE /\ lost' = lost \cup {c}
             /\ task' = [task EXCEPT ![c] = "done"]
             /\ UNCHANGED <<table, latest, newcomer>>
     /\ UNCHANGED <<peer, ip, client>>

(* Mutant: the entry goes whatever tunnel it holds.                        *)
RemoveAny(c) == table' = [table EXCEPT ![peer[c]] = NoConn]

remove_if_current(c) ==
  table' = IF table[peer[c]] = c THEN [table EXCEPT ![peer[c]] = NoConn] ELSE table

(* Mutant: the task waits for the client to end its session.               *)
TunnelClosedByClient(c) ==
  /\ task[c] = "serving"
  /\ c \in lost
  /\ client[peer[c]] # c
  /\ remove_if_current(c)
  /\ task' = [task EXCEPT ![c] = "done"]
  /\ UNCHANGED <<peer, ip, lost, client, latest, newcomer>>

(* conn.closed() returns, by an error or the idle timeout.                 *)
TunnelClosed(c) ==
  /\ task[c] = "serving"
  /\ c \in lost
  /\ remove_if_current(c)
  /\ task' = [task EXCEPT ![c] = "done"]
  /\ UNCHANGED <<peer, ip, lost, client, latest, newcomer>>

(* rendezvous_session returns its read error; the client sleeps and dials  *)
(* again.                                                                  *)
SessionEnds(p) ==
  /\ client[p] \in lost
  /\ client' = [client EXCEPT ![p] = NoConn]
  /\ UNCHANGED <<task, peer, ip, lost, table, latest, newcomer>>

(* The network loses the connection, or the client's process dies.         *)
Lose(c) ==
  /\ task[c] # "unused"
  /\ c \notin lost
  /\ lost' = lost \cup {c}
  /\ UNCHANGED <<task, peer, ip, table, client, latest, newcomer>>

-----------------------------------------------------------------------------
Init ==
  /\ task = [c \in Conns |-> "unused"]
  /\ peer = [c \in Conns |-> CHOOSE p \in Peers : TRUE]
  /\ ip = [c \in Conns |-> CHOOSE a \in Ips : TRUE]
  /\ lost = {}
  /\ table = [p \in Peers |-> NoConn]
  /\ client = [p \in Peers |-> NoConn]
  /\ latest = [p \in Peers |-> NoConn]
  /\ newcomer = {}

Next ==
  \/ \E p \in Peers, c \in Conns, a \in Ips : Connect(p, c, a)
  \/ \E c \in Conns : Register(c) \/ TunnelClosed(c) \/ Lose(c)
  \/ \E p \in Peers : SessionEnds(p)

Spec == Init /\ [][Next]_vars

(* R's tasks run, and so does the client's loop; nothing makes the network *)
(* fail.                                                                   *)
ServerFairness == \A c \in Conns : WF_vars(Register(c)) /\ WF_vars(TunnelClosed(c))
ClientFairness ==
  \A p \in Peers :
    WF_vars(SessionEnds(p)) /\ WF_vars(\E c \in Conns, a \in Ips : Connect(p, c, a))
ServerSpec == Spec /\ ServerFairness
FairSpec == ServerSpec /\ ClientFairness

-----------------------------------------------------------------------------
(* Connections, tasks and tables hold what they are declared to hold.      *)
TypeOK ==
  /\ task \in [Conns -> {"unused", "handshaken", "serving", "done"}]
  /\ peer \in [Conns -> Peers]
  /\ ip \in [Conns -> Ips]
  /\ lost \subseteq Conns
  /\ newcomer \subseteq Conns
  /\ \A f \in {table, client, latest} : f \in [Peers -> Conns \cup {NoConn}]

(* remove_if_current against register: whatever order tunnels of a peer    *)
(* are registered, lost and closed in, the table holds the one registered  *)
(* last for exactly as long as R serves it.  Closing an older one does not *)
(* take its successor away, and no entry outlives its task.                *)
LatestTunnelServes ==
  \A p \in Peers :
    /\ table[p] # NoConn => table[p] = latest[p] /\ task[table[p]] = "serving" /\ peer[table[p]] = p
    /\ latest[p] # NoConn /\ table[p] = NoConn => task[latest[p]] = "done"

(* may_admit: the table never outgrows MAX_TUNNELS, although a refresh is  *)
(* always let in.                                                          *)
TableBounded == Cardinality(Hosted) <= MAX_TUNNELS

(* An address holds at most MAX_TUNNELS_PER_IP places, not counting peers  *)
(* that had a tunnel from somewhere else when they came to it.             *)
PerIpBounded ==
  \A a \in Ips : Cardinality({p \in SameIp(a) : table[p] \in newcomer}) <= MAX_TUNNELS_PER_IP

(* Both caps of may_admit hold, in a state that keeps its types.           *)
CapsHeld == TypeOK /\ TableBounded /\ PerIpBounded

(* A tunnel the network has lost leaves the table.                         *)
Reaped == \A c \in Conns : (c \in lost) ~> (\A p \in Peers : table[p] # c)

(* README.md: a relay behind CGNAT "keeps an outbound tunnel to a public   *)
(* rendezvous relay and is reachable through it".  A relay that keeps a    *)
(* connection for good ends up in the table with it.                       *)
ReachableThroughTunnel ==
  \A p \in Peers, c \in Conns : <>[](client[p] = c /\ c \notin lost) => <>[](table[p] = c)
=============================================================================
