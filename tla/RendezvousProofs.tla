-------------------------- MODULE RendezvousProofs --------------------------
(***************************************************************************)
(* The tunnel table is correct for any number of peers, addresses and      *)
(* connections and for any caps.                                           *)
(***************************************************************************)
EXTENDS Rendezvous, FiniteSetTheorems, TLAPS

(* A connection counts as a newcomer only once it has been registered.     *)
NewcomersRegistered == \A c \in newcomer : task[c] \in {"serving", "done"}

IInv == TypeOK /\ NewcomersRegistered /\ LatestTunnelServes /\ TableBounded /\ PerIpBounded

Newcomers(a) == {p \in SameIp(a) : table[p] \in newcomer}

(* Every set of peers is finite, and what a smaller set counts is no more. *)
LEMMA PeerSets ==
  ASSUME NEW S, NEW T, S \subseteq T, T \subseteq Peers
  PROVE  /\ IsFiniteSet(S) /\ IsFiniteSet(T)
         /\ Cardinality(S) \in Nat /\ Cardinality(T) \in Nat
         /\ Cardinality(S) <= Cardinality(T)
BY PeerAssumption, FS_Subset, FS_CardinalityType

(* The bounds carry over to any table whose hosted peers, and whose        *)
(* newcomers from each address, were already there.                        *)
LEMMA BoundsKept ==
  ASSUME TableBounded, PerIpBounded, Hosted' \subseteq Hosted,
         \A a \in Ips : Newcomers(a)' \subseteq Newcomers(a)
  PROVE  TableBounded' /\ PerIpBounded'
<1>1. TableBounded'
  <2>1. Hosted \subseteq Peers
    BY DEF Hosted
  <2>2. Cardinality(Hosted') <= Cardinality(Hosted) /\ Cardinality(Hosted') \in Nat /\ Cardinality(Hosted) \in Nat
    BY <2>1, PeerSets
  <2> QED
    BY <2>2, CapAssumption DEF TableBounded
<1>2. PerIpBounded'
  <2> SUFFICES ASSUME NEW a \in Ips
               PROVE  Cardinality(Newcomers(a)') <= MAX_TUNNELS_PER_IP
    BY DEF PerIpBounded, Newcomers
  <2>1. Newcomers(a) \subseteq Peers /\ Newcomers(a)' \subseteq Newcomers(a)
    BY DEF Newcomers, SameIp, Hosted
  <2>2. /\ Cardinality(Newcomers(a)') <= Cardinality(Newcomers(a))
        /\ Cardinality(Newcomers(a)') \in Nat /\ Cardinality(Newcomers(a)) \in Nat
    BY <2>1, PeerSets
  <2>3. Cardinality(Newcomers(a)) <= MAX_TUNNELS_PER_IP
    BY DEF PerIpBounded, Newcomers
  <2> QED
    BY <2>2, <2>3, CapAssumption
<1> QED
  BY <1>1, <1>2

(* RendezvousTable::new: an empty table.                                   *)
LEMMA InitInv == Init => IInv
<1> SUFFICES ASSUME Init PROVE IInv
  OBVIOUS
<1>1. TypeOK
  BY PeerAssumption DEF Init, TypeOK
<1>2. NewcomersRegistered /\ LatestTunnelServes
  BY DEF Init, NewcomersRegistered, LatestTunnelServes
<1>3. Hosted = {}
  BY DEF Init, Hosted
<1>4. \A a \in Ips : {p \in SameIp(a) : table[p] \in newcomer} = {}
  BY <1>3 DEF SameIp
<1>5. TableBounded /\ PerIpBounded
  BY <1>3, <1>4, FS_EmptySet, CapAssumption DEF TableBounded, PerIpBounded
<1> QED
  BY <1>1, <1>2, <1>5 DEF IInv

(* A new connection takes over a handle that no table entry holds.         *)
LEMMA ConnectInv ==
  ASSUME IInv, NEW p \in Peers, NEW c \in Conns, NEW a \in Ips, Connect(p, c, a)
  PROVE  IInv'
<1> USE DEF IInv
<1>1. TypeOK'
  BY DEF TypeOK, Connect
<1>2. NewcomersRegistered'
  BY DEF NewcomersRegistered, Connect, TypeOK
<1>3. \A q \in Peers : table[q] # c
  BY ConnAssumption DEF LatestTunnelServes, Connect
<1>4. LatestTunnelServes'
  <2> SUFFICES ASSUME NEW q \in Peers
               PROVE  /\ table'[q] # NoConn => table'[q] = latest'[q] /\ task'[table'[q]] = "serving" /\ peer'[table'[q]] = q
                      /\ latest'[q] # NoConn /\ table'[q] = NoConn => task'[latest'[q]] = "done"
    BY DEF LatestTunnelServes
  <2>1. table' = table /\ table[q] # c /\ table[q] \in Conns \cup {NoConn} /\ latest[q] \in Conns \cup {NoConn}
    BY <1>3 DEF Connect, TypeOK
  <2>2. CASE table[q] # NoConn
    <3>1. table[q] = latest[q] /\ task[table[q]] = "serving" /\ peer[table[q]] = q
      BY <2>2 DEF LatestTunnelServes
    <3>2. latest'[q] = latest[q]
      BY <2>1, <3>1 DEF Connect
    <3>3. task'[table[q]] = "serving" /\ peer'[table[q]] = q
      BY <2>1, <2>2, <3>1 DEF Connect, TypeOK
    <3> QED
      BY <2>1, <2>2, <3>1, <3>2, <3>3
  <2>3. CASE table[q] = NoConn /\ latest'[q] # NoConn
    <3>1. latest'[q] = latest[q] /\ latest[q] # c
      BY <2>3 DEF Connect
    <3>2. task[latest[q]] = "done"
      BY <2>3, <3>1 DEF LatestTunnelServes
    <3> QED
      BY <2>1, <2>3, <3>1, <3>2 DEF Connect, TypeOK
  <2> QED
    BY <2>1, <2>2, <2>3
<1>5. Hosted' = Hosted
  BY DEF Hosted, Connect
<1>6. \A b \in Ips : Newcomers(b)' \subseteq Newcomers(b)
  BY <1>3, <1>5 DEF Newcomers, SameIp, Hosted, Connect, TypeOK
<1>7. TableBounded' /\ PerIpBounded'
  BY <1>5, <1>6, BoundsKept
<1> QED
  BY <1>1, <1>2, <1>4, <1>7

(* register keeps the invariant: the refresh replaces its own entry, and a *)
(* new peer is let in only below both caps.                                *)
LEMMA RegisterInv ==
  ASSUME IInv, NEW c \in Conns, Register(c)
  PROVE  IInv'
<1> USE DEF IInv
<1> DEFINE p == peer[c]
           admitted == may_admit(Cardinality(Hosted), Cardinality(SameIp(ip[c])), table[p] # NoConn)
<1>1. p \in Peers /\ ip[c] \in Ips /\ task[c] = "handshaken"
  BY DEF Register, TypeOK
<1>2. TypeOK'
  BY <1>1 DEF TypeOK, Register
<1>3. (\A q \in Peers : table[q] # c) /\ c \notin newcomer
  BY <1>1, ConnAssumption DEF LatestTunnelServes, NewcomersRegistered
<1>4. NewcomersRegistered'
  BY DEF NewcomersRegistered, Register, TypeOK
<1>5. LatestTunnelServes'
  BY <1>1, <1>3, ConnAssumption DEF LatestTunnelServes, Register, TypeOK
<1>6. CASE ~admitted
  <2>1. UNCHANGED <<table, ip, newcomer>>
    BY <1>6 DEF Register
  <2>2. Hosted' = Hosted /\ \A a \in Ips : Newcomers(a)' = Newcomers(a)
    BY <2>1 DEF Hosted, Newcomers, SameIp
  <2>3. TableBounded' /\ PerIpBounded'
    BY <2>2, BoundsKept
  <2> QED
    BY <1>2, <1>4, <1>5, <2>3
<1>7. CASE admitted /\ table[p] # NoConn
  <2>1. table' = [table EXCEPT ![p] = c] /\ UNCHANGED <<ip, newcomer>>
    BY <1>7 DEF Register
  <2>2. Hosted' = Hosted
    BY <1>1, <1>7, <2>1, ConnAssumption DEF Hosted, TypeOK
  <2>3. \A a \in Ips : Newcomers(a)' \subseteq Newcomers(a)
    BY <1>1, <1>3, <2>1, <2>2 DEF Newcomers, SameIp, TypeOK
  <2>4. TableBounded' /\ PerIpBounded'
    BY <2>2, <2>3, BoundsKept
  <2> QED
    BY <1>2, <1>4, <1>5, <2>4
<1>8. CASE admitted /\ table[p] = NoConn
  <2>1. /\ table' = [table EXCEPT ![p] = c] /\ ip' = ip /\ newcomer' = newcomer \cup {c}
        /\ Cardinality(Hosted) < MAX_TUNNELS /\ Cardinality(SameIp(ip[c])) < MAX_TUNNELS_PER_IP
    BY <1>8 DEF Register, may_admit
  <2>2. Hosted \subseteq Peers /\ SameIp(ip[c]) \subseteq Peers /\ p \notin Hosted
    BY <1>8 DEF Hosted, SameIp
  <2>3. Hosted' = Hosted \cup {p}
    BY <1>1, <2>1, ConnAssumption DEF Hosted, TypeOK
  <2>4. Cardinality(Hosted') = Cardinality(Hosted) + 1 /\ Cardinality(Hosted) \in Nat
    BY <2>2, <2>3, PeerSets, FS_AddElement, SMTT(30)
  <2>5. TableBounded'
    BY <2>1, <2>4, CapAssumption DEF TableBounded
  <2>6. PerIpBounded'
    <3> SUFFICES ASSUME NEW a \in Ips
                 PROVE  Cardinality(Newcomers(a)') <= MAX_TUNNELS_PER_IP
      BY DEF PerIpBounded, Newcomers
    <3>1. CASE a # ip[c]
      <4>1. Newcomers(a)' \subseteq Newcomers(a) /\ Newcomers(a) \subseteq Peers
        BY <1>1, <1>3, <2>1, <2>3, <3>1 DEF Newcomers, SameIp, Hosted, TypeOK
      <4>2. Cardinality(Newcomers(a)') <= Cardinality(Newcomers(a))
            /\ Cardinality(Newcomers(a)') \in Nat /\ Cardinality(Newcomers(a)) \in Nat
        BY <4>1, PeerSets
      <4>3. Cardinality(Newcomers(a)) <= MAX_TUNNELS_PER_IP
        BY DEF PerIpBounded, Newcomers
      <4> QED
        BY <4>2, <4>3, CapAssumption
    <3>2. CASE a = ip[c]
      <4>1. Newcomers(a)' \subseteq SameIp(ip[c]) \cup {p} /\ SameIp(ip[c]) \cup {p} \subseteq Peers
        BY <1>1, <2>1, <2>2, <2>3, <3>2 DEF Newcomers, SameIp, Hosted, TypeOK
      <4>2. p \notin SameIp(ip[c])
        BY <2>2 DEF SameIp
      <4>3. Cardinality(SameIp(ip[c]) \cup {p}) = Cardinality(SameIp(ip[c])) + 1
            /\ Cardinality(SameIp(ip[c])) \in Nat
        BY <2>2, <4>2, PeerSets, FS_AddElement
      <4>4. Cardinality(Newcomers(a)') <= Cardinality(SameIp(ip[c]) \cup {p}) /\ Cardinality(Newcomers(a)') \in Nat
        BY <4>1, PeerSets
      <4> QED
        BY <2>1, <4>3, <4>4, CapAssumption
    <3> QED
      BY <3>1, <3>2
  <2> QED
    BY <1>2, <1>4, <1>5, <2>5, <2>6
<1> QED
  BY <1>6, <1>7, <1>8

(* Closing a tunnel takes away its own entry or none.                      *)
LEMMA TunnelClosedInv ==
  ASSUME IInv, NEW c \in Conns, TunnelClosed(c)
  PROVE  IInv'
<1> USE DEF IInv
<1>1. peer[c] \in Peers /\ table' \in [Peers -> Conns \cup {NoConn}]
      /\ \A q \in Peers : table'[q] = table[q] \/ (table'[q] = NoConn /\ table[q] = c /\ q = peer[c])
  BY DEF TunnelClosed, remove_if_current, TypeOK
<1>2. TypeOK'
  BY <1>1 DEF TypeOK, TunnelClosed
<1>3. NewcomersRegistered'
  BY DEF NewcomersRegistered, TunnelClosed, TypeOK
<1>4. \A q \in Peers : table'[q] # c
  BY <1>1, ConnAssumption DEF TunnelClosed, remove_if_current, LatestTunnelServes, TypeOK
<1>5. LatestTunnelServes'
  <2> SUFFICES ASSUME NEW q \in Peers
               PROVE  /\ table'[q] # NoConn => table'[q] = latest'[q] /\ task'[table'[q]] = "serving" /\ peer'[table'[q]] = q
                      /\ latest'[q] # NoConn /\ table'[q] = NoConn => task'[latest'[q]] = "done"
    BY DEF LatestTunnelServes
  <2>1. CASE table'[q] = table[q]
    BY <1>4, <2>1 DEF LatestTunnelServes, TunnelClosed, TypeOK
  <2>2. CASE table'[q] = NoConn /\ table[q] = c
    BY <2>2, ConnAssumption DEF LatestTunnelServes, TunnelClosed, TypeOK
  <2> QED
    BY <1>1, <2>1, <2>2
<1>6. Hosted' \subseteq Hosted
  BY <1>1 DEF Hosted
<1>7. \A a \in Ips : Newcomers(a)' \subseteq Newcomers(a)
  BY <1>1, <1>6 DEF Newcomers, SameIp, Hosted, TunnelClosed
<1>8. TableBounded' /\ PerIpBounded'
  BY <1>6, <1>7, BoundsKept
<1> QED
  BY <1>2, <1>3, <1>5, <1>8

(* Every step keeps the invariant.                                         *)
LEMMA NextInv == IInv /\ [Next]_vars => IInv'
<1> SUFFICES ASSUME IInv, [Next]_vars PROVE IInv'
  OBVIOUS
<1>1. ASSUME NEW p \in Peers, NEW c \in Conns, NEW a \in Ips, Connect(p, c, a) PROVE IInv'
  BY <1>1, ConnectInv
<1>2. ASSUME NEW c \in Conns, Register(c) PROVE IInv'
  BY <1>2, RegisterInv
<1>3. ASSUME NEW c \in Conns, TunnelClosed(c) PROVE IInv'
  BY <1>3, TunnelClosedInv
<1>4. ASSUME UNCHANGED <<task, peer, ip, table, latest, newcomer>>, TypeOK' PROVE IInv'
  BY <1>4 DEF IInv, NewcomersRegistered, LatestTunnelServes, TableBounded, PerIpBounded, SameIp, Hosted
<1>5. ASSUME NEW c \in Conns, Lose(c) PROVE IInv'
  BY <1>4, <1>5 DEF Lose, IInv, TypeOK
<1>6. ASSUME NEW p \in Peers, SessionEnds(p) PROVE IInv'
  BY <1>4, <1>6 DEF SessionEnds, IInv, TypeOK
<1>7. CASE UNCHANGED vars
  BY <1>4, <1>7 DEF vars, IInv, TypeOK
<1> QED
  BY <1>1, <1>2, <1>3, <1>5, <1>6, <1>7 DEF Next

(* register, remove_if_current and the loss of connections keep the        *)
(* inductive invariant of the tunnel table.                                *)
THEOREM Invariance == Spec => []IInv
BY InitInv, NextInv, PTL DEF Spec

(* register and remove_if_current: the table holds, for each peer, the     *)
(* tunnel registered last for exactly as long as R serves it.              *)
THEOREM TunnelsCurrent == Spec => []LatestTunnelServes
<1>1. IInv => LatestTunnelServes
  BY DEF IInv
<1> QED
  BY <1>1, Invariance, PTL

(* may_admit: both caps hold although a refresh is always admitted.        *)
THEOREM CapsHold == Spec => []CapsHeld
<1>1. IInv => CapsHeld
  BY DEF IInv, CapsHeld
<1> QED
  BY <1>1, Invariance, PTL
=============================================================================
