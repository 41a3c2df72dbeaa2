------------------------------ MODULE Mailbox ------------------------------
(***************************************************************************)
(* The mailbox of a relay in service: depositors, recipients who fetch     *)
(* over a connection (serve_mailbox_connection against MailboxClient::     *)
(* fetch_all) or through a reply block (make_mailbox_service_handler), the *)
(* maintenance task that prunes and writes snapshots, the save on          *)
(* shutdown, crashes and restarts.  The store itself is MailboxStore.      *)
(*                                                                         *)
(* A handler reads the clock, then waits for the mailbox lock: it applies  *)
(* its operation with a time up to bound.lag old.                          *)
(***************************************************************************)
EXTENDS MailboxStore

CONSTANTS
  To,            \* the mailbox each envelope is addressed to
  SurbTasks,     \* spawned tasks that answer FetchWithSurb
  Sessions,      \* recipients in fetch_all
  FetchBudget,   \* MAILBOX_FETCH_BUDGET
  SurbBudget,    \* SURB_FETCH_BUDGET; a larger batch does not fit a reply
  MaxRounds,     \* MAX_FETCH_ROUNDS
  MaxFetchBytes, \* MAX_FETCH_TOTAL_BYTES
  Bounds         \* bounds on a behaviour, and what its environment does:
                 \*   envs, sessions: those that take part; ttls: the lifetimes asked for
                 \*   lag: how long a handler waits for the lock; until: the last time
                 \*   store: --mailbox-store is given; stop: the relay is shut down
                 \*   crash: the process may die; fail: a response or reply may not go out

VARIABLES
  bound,         \* the member of Bounds it keeps to
  now, phase,    \* "up"; "exiting": shutting down, tasks still run; "down"
  store,         \* the Mailbox
  surb,          \* what each SURB task has drained and not yet shipped
  session,       \* where each fetch_all is
  writer,        \* the snapshots of the maintenance task and of main
  tmp, disk,     \* the temporary file and the snapshot file
  (* History, read by no action of the program: *)
  born,          \* when an envelope was accepted
  deadline,      \* when its current entry expires
  order,         \* the envelopes accepted, in order
  moved,         \* those put back by a SURB task
  received,      \* those a recipient's fetch_all or reply block returned
  revived        \* those of them that a restart brought back

tasks == <<surb, session>>
files == <<writer, tmp, disk>>
fate == <<received, revived>>
history == <<born, deadline, order, moved, fate>>
vars == <<bound, now, phase, store, tasks, files, history>>

Never == -1
Idle == [st |-> "idle"]
NoFile == [id \in {} |-> <<>>]
Accepted == {e \in Envs : born[e] # Never}
Clock == Max({0, now - bound.lag})..now

-----------------------------------------------------------------------------
(* MailboxRequest::Deposit, over a connection or out of the mixnet.        *)
Deposit(e) ==
  /\ phase # "down"
  /\ e \notin Accepted
  /\ \E t \in Clock, ttl \in bound.ttls :
       LET d == deposit(store, To[e], e, t, ttl) IN
       /\ store' = d.store
       /\ IF d.ok
          THEN /\ born' = [born EXCEPT ![e] = now]
               /\ deadline' = [deadline EXCEPT ![e] = t + Lifetime(ttl)]
               /\ order' = Append(order, e)
          ELSE UNCHANGED <<born, deadline, order>>
  /\ UNCHANGED <<bound, now, phase, tasks, files, moved, fate>>

(* MailboxRequest::FetchWithSurb with a good proof: the task drains a      *)
(* batch under the lock; an empty one ends it.                             *)
SurbFetch(w, id) ==
  /\ phase # "down"
  /\ surb[w] = Idle
  /\ \E t \in Clock :
       LET f == fetch_batch(store, id, t, SurbBudget) IN
       /\ store' = f.store
       /\ surb' = IF f.batch = <<>> THEN surb
                  ELSE [surb EXCEPT ![w] = [st |-> "ship", id |-> id, batch |-> f.batch, at |-> t]]
  /\ UNCHANGED <<bound, now, phase, session, files, history>>

TooLarge(batch) == BytesOf(batch) > SurbBudget

(* ship_surb_reply succeeds: the reply leaves for the recipient.           *)
SurbShipped(w) ==
  /\ phase # "down"
  /\ surb[w] # Idle
  /\ ~TooLarge(surb[w].batch)
  /\ received' = received \cup EnvsOf(surb[w].batch)
  /\ surb' = [surb EXCEPT ![w] = Idle]
  /\ UNCHANGED <<bound, now, phase, store, session, files, born, deadline, order, moved, revived>>

(* It fails: the batch is deposited again, one by one, at the time the     *)
(* task started and with the default lifetime; refusals are ignored.       *)
Redeposit(s, id, batch, at) ==
  FoldLeft(LAMBDA acc, e :
             LET d == deposit(acc.store, id, e.env, at, 0) IN
             [store |-> d.store, back |-> IF d.ok THEN acc.back \cup {e.env} ELSE acc.back],
           [store |-> s, back |-> {}], batch)
SurbFailed(w) ==
  /\ phase # "down"
  /\ surb[w] # Idle
  /\ TooLarge(surb[w].batch) \/ bound.fail
  /\ LET r == Redeposit(store, surb[w].id, surb[w].batch, surb[w].at) IN
     /\ store' = r.store
     /\ moved' = moved \cup r.back
     /\ deadline' = [e \in Envs |-> IF e \in r.back THEN surb[w].at + Lifetime(0) ELSE deadline[e]]
  /\ surb' = [surb EXCEPT ![w] = Idle]
  /\ UNCHANGED <<bound, now, phase, session, files, born, order, fate>>

-----------------------------------------------------------------------------
(* MailboxRequest::Fetch with a good proof: the batch leaves the store     *)
(* under the lock, the response is written after it.                       *)
FetchRequest(c, id) ==
  /\ phase # "down"
  /\ \/ session[c] = Idle
     \/ session[c].st = "more" /\ session[c].id = id
  /\ \E t \in Clock :
       LET f == fetch_batch(store, id, t, FetchBudget)
           old == IF session[c] = Idle THEN [all |-> <<>>, rounds |-> 0] ELSE session[c]
       IN /\ store' = f.store
          /\ session' = [session EXCEPT ![c] =
               [st |-> "reply", id |-> id, all |-> old.all, rounds |-> old.rounds + 1,
                batch |-> f.batch, more |-> f.more]]
  /\ UNCHANGED <<bound, now, phase, surb, files, history>>

(* fetch_all reads the response.  It returns everything collected once the *)
(* host has no more, and nothing at all when it stops for any other reason.*)
FetchReply(c) ==
  /\ session[c] # Idle
  /\ session[c].st = "reply"
  /\ LET s == session[c]
         all == s.all \o s.batch
         bad == \/ s.more /\ s.batch = <<>>
                \/ BytesOf(all) > MaxFetchBytes
                \/ s.more /\ s.rounds >= MaxRounds
     IN /\ received' = IF ~bad /\ ~s.more THEN received \cup EnvsOf(all) ELSE received
        /\ session' = [session EXCEPT ![c] =
             IF ~bad /\ s.more THEN [st |-> "more", id |-> s.id, all |-> all, rounds |-> s.rounds]
             ELSE Idle]
  /\ UNCHANGED <<bound, now, phase, store, surb, files, born, deadline, order, moved, revived>>

InSession(s) == IF s = Idle THEN {} ELSE EnvsOf(s.all) \cup (IF s.st = "reply" THEN EnvsOf(s.batch) ELSE {})
InTask(w) == IF w = Idle THEN {} ELSE EnvsOf(w.batch)
InFlight == UNION {InSession(session[c]) : c \in Sessions} \cup UNION {InTask(surb[w]) : w \in SurbTasks}

(* The connection breaks: the client returns the error, and nothing else.  *)
FetchFailed(c) ==
  /\ bound.fail
  /\ session[c] # Idle
  /\ session' = [session EXCEPT ![c] = Idle]
  /\ UNCHANGED <<bound, now, phase, store, surb, files, history>>

-----------------------------------------------------------------------------
(* spawn_mailbox_maintenance: prune and snapshot under the lock.           *)
Maintain ==
  /\ phase # "down"
  /\ writer["maintenance"] = Idle
  /\ store' = prune_expired(store, now)
  /\ writer' = IF bound.store
               THEN [writer EXCEPT !["maintenance"] = [st |-> "write", snap |-> snapshot(store')]]
               ELSE writer
  /\ UNCHANGED <<bound, now, phase, tasks, tmp, disk, history>>

(* The end of main: the snapshot is taken under the lock.                  *)
Shutdown ==
  /\ bound.stop
  /\ phase = "up"
  /\ phase' = "exiting"
  /\ writer' = IF bound.store
               THEN [writer EXCEPT !["main"] = [st |-> "write", snap |-> snapshot(store)]]
               ELSE writer
  /\ UNCHANGED <<bound, now, store, tasks, tmp, disk, history>>

(* persist_mailbox, outside the lock and with one temporary file for both  *)
(* writers: write it, rename it.  A rename that finds it gone fails, and   *)
(* the error is logged.                                                    *)
WriteTmp(w) ==
  /\ phase # "down"
  /\ writer[w] # Idle
  /\ writer[w].st = "write"
  /\ tmp' = [some |-> TRUE, snap |-> writer[w].snap]
  /\ writer' = [writer EXCEPT ![w] = [st |-> "rename"]]
  /\ UNCHANGED <<bound, now, phase, store, tasks, disk, history>>

Rename(w) ==
  /\ phase # "down"
  /\ writer[w] = [st |-> "rename"]
  /\ disk' = IF tmp.some THEN tmp.snap ELSE disk
  /\ tmp' = [some |-> FALSE, snap |-> NoFile]
  /\ writer' = [writer EXCEPT ![w] = Idle]
  /\ UNCHANGED <<bound, now, phase, store, tasks, history>>

(* The process ends: when main has returned and the maintenance task is    *)
(* not in the middle of a write, or by a crash.  What was in flight is     *)
(* gone; a client sees its connection break.                               *)
Stop ==
  /\ \/ bound.crash /\ phase # "down"
     \/ phase = "exiting" /\ \A w \in DOMAIN writer : writer[w] = Idle
  /\ phase' = "down"
  /\ store' = EmptyStore
  /\ surb' = [w \in SurbTasks |-> Idle]
  /\ session' = [c \in Sessions |-> Idle]
  /\ writer' = [w \in DOMAIN writer |-> Idle]
  /\ UNCHANGED <<bound, now, tmp, disk, history>>

ExpiryIn(q, e) == (CHOOSE x \in ToSet(q) : x.env = e).exp

(* load_mailbox.                                                           *)
Start ==
  /\ phase = "down"
  /\ phase' = "up"
  /\ store' = from_snapshot(disk, now)
  /\ revived' = revived \cup (Stored(store'.boxes) \cap received)
  /\ deadline' = [e \in Envs |->
       IF e \in Stored(store'.boxes) THEN ExpiryIn(store'.boxes[To[e]], e) ELSE deadline[e]]
  /\ UNCHANGED <<bound, now, tasks, files, born, order, moved, received>>

Tick ==
  /\ now < bound.until
  /\ now' = now + 1
  /\ UNCHANGED <<bound, phase, store, tasks, files, history>>

-----------------------------------------------------------------------------
Init ==
  /\ bound \in Bounds
  /\ now = 0
  /\ phase = "up"
  /\ store = EmptyStore
  /\ surb = [w \in SurbTasks |-> Idle]
  /\ session = [c \in Sessions |-> Idle]
  /\ writer = [w \in {"maintenance", "main"} |-> Idle]
  /\ tmp = [some |-> FALSE, snap |-> NoFile]
  /\ disk = NoFile
  /\ born = [e \in Envs |-> Never]
  /\ deadline = [e \in Envs |-> 0]
  /\ order = <<>>
  /\ moved = {} /\ received = {} /\ revived = {}

Next ==
  \/ \E e \in bound.envs : Deposit(e)
  \/ \E w \in SurbTasks : (\E id \in Ids : SurbFetch(w, id)) \/ SurbShipped(w) \/ SurbFailed(w)
  \/ \E c \in bound.sessions : (\E id \in Ids : FetchRequest(c, id)) \/ FetchReply(c) \/ FetchFailed(c)
  \/ Maintain
  \/ Shutdown
  \/ \E w \in {"maintenance", "main"} : WriteTmp(w) \/ Rename(w)
  \/ Stop
  \/ Start
  \/ Tick

Spec == Init /\ [][Next]_vars

(* The maintenance task runs off a timer and writes without waiting.       *)
FairSpec ==
  Spec /\ WF_vars(Maintain) /\ WF_vars(WriteTmp("maintenance")) /\ WF_vars(Rename("maintenance"))

-----------------------------------------------------------------------------
(* The store and the histories have their types, and no batch claims more  *)
(* to come while it is empty.                                              *)
TypeOK ==
  /\ now \in Nat
  /\ phase \in {"up", "exiting", "down"}
  /\ IsStore(store)
  /\ \A w \in SurbTasks : surb[w] # Idle => surb[w].batch \in Seq(Entry) /\ surb[w].batch # <<>>
  /\ \A c \in Sessions : session[c] # Idle /\ session[c].st = "reply" =>
       (session[c].more => session[c].batch # <<>>)
  /\ received \cup moved \subseteq Accepted

(* The running counts of deposit, fetch_batch, prune_expired and           *)
(* from_snapshot agree with the boxes, and no empty box holds a place.     *)
CountsMatch ==
  /\ store.total = MapThenSumSet(LAMBDA id : Len(store.boxes[id]), DOMAIN store.boxes)
  /\ store.bytes = MapThenSumSet(LAMBDA id : BytesOf(store.boxes[id]), DOMAIN store.boxes)
  /\ \A id \in DOMAIN store.boxes : store.boxes[id] # <<>>

(* No cap of the policy is ever exceeded, also when a drained batch is put *)
(* back after other deposits have taken its place.                         *)
WithinCaps ==
  /\ Cardinality(DOMAIN store.boxes) <= Policy.max_mailboxes
  /\ \A id \in DOMAIN store.boxes : Len(store.boxes[id]) <= Policy.max_msgs_per_mailbox
  /\ store.total <= Policy.max_total_msgs
  /\ store.bytes <= Policy.max_total_bytes

(* The store is consistent: counts and boxes agree, and no cap is exceeded *)
(* (Mailbox::deposit, fetch_batch, prune_expired, from_snapshot).          *)
StoreConsistent == TypeOK /\ CountsMatch /\ WithinCaps

Count(q, e) == Cardinality({i \in DOMAIN q : q[i].env = e})
Copies(e) ==
  (IF To[e] \in DOMAIN store.boxes THEN Count(store.boxes[To[e]], e) ELSE 0)
    + Cardinality({w \in SurbTasks : e \in InTask(surb[w])})
    + Cardinality({c \in Sessions : e \in InSession(session[c])})
    + (IF e \in received THEN 1 ELSE 0)

(* Where a message is.  One that a restart brought back may be in two      *)
(* places, and counts as gone when it leaves again.                        *)
Fate(e) ==
  IF e \notin Accepted THEN "new"
  ELSE IF Copies(e) > 1 /\ e \notin revived THEN "twice"
  ELSE IF e \in Stored(store.boxes) THEN "held"
  ELSE IF e \in received \ revived THEN "received"
  ELSE IF e \in InFlight THEN "out" ELSE "gone"

Promise ==
  INSTANCE Delivery WITH Messages <- Envs, up <- phase # "down",
    fate <- [e \in Envs |-> Fate(e)], expired <- {e \in Accepted : deadline[e] <= now}

(* The mailbox keeps its promise: however fetches, failed replies,         *)
(* put-backs, pruning, shutdown and restarts interleave, no message is     *)
(* handed out twice or vanishes before it expires, save for the fetches    *)
(* and the restarts that lose it (serve_mailbox_connection,                *)
(* make_mailbox_service_handler, load_mailbox).                            *)
DeliveryKept == Promise!Spec

(* "the relay clamps it to a 30-day maximum": no entry outlives max_ttl of *)
(* its message's acceptance (LOGGING-POLICY.md).                           *)
KeptToMaximum ==
  \A e \in Stored(store.boxes) : deadline[e] <= born[e] + Policy.max_ttl_secs

(* A box, and what one fetch collects from it, is in order of acceptance,  *)
(* apart from messages a failed reply put back.                            *)
Ordered(q) ==
  LET pos(e) == CHOOSE n \in DOMAIN order : order[n] = e IN
  \A i, j \in DOMAIN q : i < j /\ {q[i].env, q[j].env} \cap moved = {} => pos(q[i].env) < pos(q[j].env)
InOrder ==
  /\ \A id \in DOMAIN store.boxes : Ordered(store.boxes[id])
  /\ \A c \in Sessions : session[c] # Idle =>
       Ordered(IF session[c].st = "reply" THEN session[c].all \o session[c].batch ELSE session[c].all)

(* While the relay stays up, an expired message leaves the disk: the       *)
(* maintenance task prunes it and writes a snapshot without it.            *)
Reclaimed ==
  \A e \in Envs :
    (e \in Stored(disk) /\ deadline[e] <= now) ~> (e \notin Stored(disk) \/ phase # "up")
=============================================================================
