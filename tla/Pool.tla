-------------------------------- MODULE Pool --------------------------------
(***************************************************************************)
(* The connections a relay keeps to the next relays (crypto-gotham-relay/  *)
(* src/pool.rs).  Forwarding tasks share the pool; each lock section of    *)
(* ConnectionPool::send is a step of its own.  A connection closes when    *)
(* neither the pool nor a task holds it any more.                          *)
(***************************************************************************)
EXTENDS Integers, FiniteSets, Functions

CONSTANTS
  Peers,        \* the keys of the pool: an address and the key expected there
  Tasks,        \* forwarding tasks, one packet each at a time
  max_size,
  MaxConns,     \* bound: connections opened
  MaxPackets    \* bound: packets forwarded

VARIABLES
  pool,        \* [SUBSET Peers -> connection]
  conn,        \* [opened so far -> [to, up, last_used]]
  task,        \* [Tasks -> where ConnectionPool::send is]
  sent,        \* packets handed to send so far
  instant      \* Instant::now(), a counter

poolVars == <<pool, conn, task, sent, instant>>

Idle == [at |-> "idle", peer |-> {}, conn |-> 0]
Opened == DOMAIN conn
At(t, stage) == task[t].at = stage

(* A connection that neither the pool nor a task holds is closed.          *)
Closing(pl, tk) ==
  [c \in Opened |->
     [conn[c] EXCEPT !.up = @ /\ (c \in Range(pl) \/ \E t \in Tasks : tk[t].conn = c)]]

(* send: is there a connection to this peer?                               *)
Look(t, p) ==
  /\ At(t, "idle") /\ sent < MaxPackets
  /\ sent' = sent + 1
  /\ task' = [task EXCEPT ![t] = IF p \in DOMAIN pool
                                 THEN [at |-> "try", peer |-> p, conn |-> pool[p]]
                                 ELSE [at |-> "open", peer |-> p, conn |-> 0]]
  /\ UNCHANGED <<pool, conn, instant>>

(* send_packet on the pooled connection, or the task goes on without it.   *)
Try(t) ==
  /\ At(t, "try")
  /\ IF conn[task[t].conn].up
     THEN /\ task' = [task EXCEPT ![t] = Idle]
          /\ conn' = [Closing(pool, task') EXCEPT ![task[t].conn].last_used = instant + 1]
          /\ instant' = instant + 1
     ELSE task' = [task EXCEPT ![t].at = "remove"] /\ UNCHANGED <<conn, instant>>
  /\ UNCHANGED <<pool, sent>>

(* pool.remove(&key): whatever is under the key by now.                    *)
RemoveDead(t) ==
  /\ At(t, "remove")
  /\ pool' = Restrict(pool, DOMAIN pool \ {task[t].peer})
  /\ task' = [task EXCEPT ![t].at = "open", ![t].conn = 0]
  /\ conn' = Closing(pool', task')
  /\ UNCHANGED <<sent, instant>>

(* open_new, then send_packet; an error of either ends send.               *)
open_new(t) ==
  /\ At(t, "open")
  /\ \/ LET c == Cardinality(Opened) + 1 IN
        /\ c <= MaxConns
        /\ conn' = [d \in Opened \cup {c} |->
             IF d = c THEN [to |-> task[t].peer, up |-> TRUE, last_used |-> instant + 1] ELSE conn[d]]
        /\ task' = [task EXCEPT ![t].at = "store", ![t].conn = c]
        /\ instant' = instant + 1
     \/ task' = [task EXCEPT ![t] = Idle] /\ UNCHANGED <<conn, instant>>
  /\ UNCHANGED <<pool, sent>>

(* evict_oldest_locked: the pool without the connection used longest ago.  *)
evict_none(pl) == {pl}  \* mutant
evict_oldest_locked(pl) ==
  {Restrict(pl, DOMAIN pl \ {p}) : p \in {q \in DOMAIN pl :
      \A r \in DOMAIN pl : conn[pl[q]].last_used <= conn[pl[r]].last_used}}

(* The last lock section: make room, insert under the key.                 *)
Store(t) ==
  /\ At(t, "store")
  /\ \E pl \in IF Cardinality(DOMAIN pool) >= max_size THEN evict_oldest_locked(pool) ELSE {pool} :
       pool' = [p \in DOMAIN pl \cup {task[t].peer} |-> IF p = task[t].peer THEN task[t].conn ELSE pl[p]]
  /\ task' = [task EXCEPT ![t] = Idle]
  /\ conn' = Closing(pool', task')
  /\ UNCHANGED <<sent, instant>>

(* A connection breaks; nobody is told before the next send over it.       *)
Break(c) ==
  /\ conn[c].up
  /\ conn' = [conn EXCEPT ![c].up = FALSE]
  /\ UNCHANGED <<pool, task, sent, instant>>

PoolInit ==
  /\ pool = [p \in {} |-> 0] /\ conn = [c \in {} |-> 0]
  /\ task = [t \in Tasks |-> Idle]
  /\ sent = 0 /\ instant = 0

PoolNext ==
  \/ \E t \in Tasks : (\E p \in Peers : Look(t, p)) \/ Try(t) \/ RemoveDead(t) \/ open_new(t) \/ Store(t)
  \/ \E c \in Opened : Break(c)

-----------------------------------------------------------------------------
(* However the sends of the tasks interleave with broken connections and   *)
(* with each other's removals and insertions, the pool keeps to max_size,  *)
(* files every connection under the peer it leads to, and leaves no more   *)
(* open than its room and the sends that run (ConnectionPool::send).       *)
PoolSound ==
  /\ Cardinality(DOMAIN pool) <= max_size
  /\ \A p \in DOMAIN pool : conn[pool[p]].to = p
  /\ Cardinality({c \in Opened : conn[c].up})
       <= max_size + Cardinality({t \in Tasks : ~At(t, "idle")})
=============================================================================
