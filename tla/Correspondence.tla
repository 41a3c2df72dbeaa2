--------------------------- MODULE Correspondence ---------------------------
(***************************************************************************)
(* A message from one person to another: the directory documents both hold *)
(* (SignedDirectory), the mailbox address the sender derives from its own, *)
(* the queue its cover loop drains, the mixnet in between, the relay that  *)
(* keeps the message (MailboxStore) and the recipient who reads the        *)
(* addresses its own document names, with a proof the relay judges by the  *)
(* relay's clock (cover_loop.rs, client.rs, mailbox.rs, mailbox_client.rs, *)
(* the exit's handlers in transport.rs).                                   *)
(***************************************************************************)
EXTENDS SignedDirectory, MailboxStore

CONSTANTS
  Sender, Recipient, Host,
  Loops,        \* cover loops over one queue: the second is started after a stop
  Ttl,          \* the lifetime asked for each message
  OldBuild,     \* messages of a sender that still uses the address without an epoch
  EpochSecs,    \* MAILBOX_EPOCH_SECS
  MaxPayload,   \* the largest envelope a packet carries
  MaxTransit,   \* bound: the longest a message waits and travels while a loop runs
  FirstNow,
  Bounds        \* bounds on a behaviour: its messages, loops, clock offsets, key transitions, end

Parties == {Sender, Recipient}
None == "none"
Never == FirstNow + 1000

VARIABLES
  now,          \* the clock of sender, recipient and authority
  bound,        \* the member of Bounds it keeps to
  offset,       \* the host's clock is now + offset
  transitions,  \* the key transitions published so far
  known,        \* how many of them each party has
  doc,          \* the document each party holds
  queue,        \* the packets waiting for the cover loop
  loop,         \* of each cover loop: its step, whether it was cancelled, its packet
  answer,       \* what the sender was told of each message
  wire,         \* packets inside the mixnet
  store,        \* the host's mailbox
  polled,       \* whether the recipient has read its addresses since the clock last moved
  queuedAt,     \* when each message was queued
  arrived,      \* when the host took it
  firstLife,    \* the end of the lifetime it was first given
  received      \* the messages the recipient has

mail == <<queue, loop, answer, wire, store, polled, queuedAt, arrived, firstLife, received>>
documents == <<transitions, known, doc>>
vars == <<now, bound, offset, documents, mail>>
fixed == <<bound, offset>>

hostNow == now + offset

-----------------------------------------------------------------------------
(* Addresses.  An address is the key it belongs to and an epoch; the older *)
(* builds' address has none.                                               *)

Legacy == -1
mailbox_epoch_of(t) == t \div EpochSecs
mailbox_id_for_epoch(pk, e) == <<pk, e>>
mailbox_id_legacy(pk) == <<pk, Legacy>>
mailbox_id_for_deposit(pk, valid_after) == mailbox_id_for_epoch(pk, mailbox_epoch_of(valid_after))
ReadCurrentOnly(pk, valid_after) == {mailbox_id_for_deposit(pk, valid_after)}  \* mutant
mailbox_ids_to_read(pk, valid_after) ==
  LET e == mailbox_epoch_of(valid_after)
  IN {mailbox_id_for_epoch(pk, e), mailbox_id_for_epoch(pk, Max({e - 1, 0}))}

FETCH_EPOCHS_BEHIND == Policy.max_ttl_secs \div EpochSecs + 2
FETCH_EPOCHS_AHEAD == 1
(* Mutant: the epochs behind are only those the recipient reads.           *)
OwnedLately(pk, id, t) ==
  \/ id = mailbox_id_legacy(pk)
  \/ \E e \in Max({mailbox_epoch_of(t) - 1, 0})..(mailbox_epoch_of(t) + FETCH_EPOCHS_AHEAD) :
       id = mailbox_id_for_epoch(pk, e)
mailbox_id_owned_at(pk, id, t) ==
  LET cur == mailbox_epoch_of(t) IN
  \/ id = mailbox_id_legacy(pk)
  \/ \E e \in Max({cur - FETCH_EPOCHS_BEHIND, 0})..(cur + FETCH_EPOCHS_AHEAD) :
       id = mailbox_id_for_epoch(pk, e)

(* The proof of possession: a tag keyed by the secret the two keys share,  *)
(* over the connection's (or the reply block's) binding and the address.   *)
fetch_auth_tag(shared, binding, id) == <<shared, binding, id>>
fetch_auth_for(pk, host, binding, id) ==
  [pk |-> pk, tag |-> fetch_auth_tag({pk, host}, binding, id)]
surb_fetch_binding(surb) == <<"gotham-mailbox-surb-binding-v1", surb>>
verify_at(auth, host, binding, id, t) ==
  /\ mailbox_id_owned_at(auth.pk, id, t)
  /\ auth.tag = fetch_auth_tag({auth.pk, host}, binding, id)

-----------------------------------------------------------------------------
(* Sealing: only the key it was sealed to opens an envelope.               *)
seal(pk, from, body) == [to |-> pk, from |-> from, body |-> body]
unseal(pk, envelope) == IF envelope.to = pk THEN {envelope.body} ELSE {}
(* frame_sealed_for_exit: nothing to send when the frame is too large.     *)
frame_sealed_for_exit(exit, from, body) ==
  {e \in {seal(exit, from, body)} : Size[body.env] <= MaxPayload}
build_cover_payload == seal("nobody", "nobody", None)

Init ==
  /\ now = FirstNow /\ bound \in Bounds /\ offset \in bound.offsets
  /\ transitions = <<>> /\ known = [p \in Parties |-> 0]
  /\ doc = [p \in Parties |-> sign(Pinned, FirstNow)]
  /\ queue = <<>> /\ wire = {} /\ store = EmptyStore /\ polled = FALSE /\ received = {}
  /\ loop = [l \in Loops |-> [at |-> "off", cancelled |-> FALSE, packet |-> None]]
  /\ answer = [m \in Envs |-> None]
  /\ queuedAt = [m \in Envs |-> Never]
  /\ arrived = [m \in Envs |-> Never]
  /\ firstLife = [m \in Envs |-> 0]

-----------------------------------------------------------------------------
(* Documents.  The authority signs one whenever it is asked; an authority  *)
(* still running on an old key does so too, and an answer may be as old as *)
(* it is valid.                                                            *)

Minted == {Pinned} \cup {transitions[i].new : i \in DOMAIN transitions}
Offered == {sign(k, t) : k \in Minted, t \in Max({FirstNow, now - Validity - 1})..now}

Rotate(old, new) ==
  /\ Len(transitions) < bound.rotations /\ old \in Minted /\ old # new
  /\ \/ transitions' = Append(transitions, build(old, new))
     \/ transitions' = Append(transitions, [build(old, new) EXCEPT !.signed = {old}])
  /\ UNCHANGED <<now, fixed, known, doc, mail>>

(* The client's check of an answer: the rotation rules, and no document    *)
(* older than the last one it took.                                        *)
Acceptable(p, d) ==
  /\ verify_with_transitions(d, Pinned, SubSeq(transitions, 1, known[p]), now)
  /\ verify_monotonic(d, d.authority, now, doc[p].valid_after)

Adopt(p, d) ==
  /\ d \in Offered /\ d # doc[p] /\ Acceptable(p, d)
  /\ doc' = [doc EXCEPT ![p] = d]
  /\ UNCHANGED <<now, fixed, transitions, known, mail>>

LearnTransitions(p) ==
  /\ known[p] < Len(transitions)
  /\ known' = [known EXCEPT ![p] = Len(transitions)]
  /\ UNCHANGED <<now, fixed, transitions, doc, mail>>

Holds(p) == verify(doc[p], doc[p].authority, now)

-----------------------------------------------------------------------------
(* The sender.  The message is addressed and sealed when it is queued.     *)

Queue(m) ==
  /\ m \in bound.msgs /\ queuedAt[m] = Never /\ Holds(Sender)
  /\ LET id == IF m \in OldBuild THEN mailbox_id_legacy(Recipient)
               ELSE mailbox_id_for_deposit(Recipient, doc[Sender].valid_after)
     IN \E p \in frame_sealed_for_exit(Host, Sender, [id |-> id, env |-> m, ttl |-> Ttl[m]]) :
          queue' = Append(queue, p)
  /\ queuedAt' = [queuedAt EXCEPT ![m] = now]
  /\ UNCHANGED <<now, fixed, documents, loop, answer, wire, store, polled, arrived, firstLife, received>>

At(l, at) == loop[l].at = at
Move(l, at, packet) == loop' = [loop EXCEPT ![l].at = at, ![l].packet = packet]
Running(l) == loop[l].at \notin {"off", "done"}

(* spawn_cover_loop: a new loop only after the one before was stopped.     *)
spawn_cover_loop(l) ==
  /\ l \in bound.loops /\ At(l, "off") /\ \A k \in Loops : Running(k) => loop[k].cancelled
  /\ Move(l, "asleep", None)
  /\ UNCHANGED <<now, fixed, documents, queue, answer, wire, store, polled, queuedAt, arrived,
                 firstLife, received>>

StopLoop(l) ==
  /\ Running(l) /\ ~loop[l].cancelled
  /\ loop' = [loop EXCEPT ![l].cancelled = TRUE]
  /\ UNCHANGED <<now, fixed, documents, queue, answer, wire, store, polled, queuedAt, arrived,
                 firstLife, received>>

LeaveLoop(l) ==
  /\ At(l, "asleep") /\ loop[l].cancelled
  /\ Move(l, "done", None)
  /\ UNCHANGED <<now, fixed, documents, queue, answer, wire, store, polled, queuedAt, arrived,
                 firstLife, received>>

(* Mutant: an interval may be spent on cover although a packet waits.      *)
WakeEither(l) ==
  /\ At(l, "asleep")
  /\ \/ queue # <<>> /\ Move(l, "real", None)
     \/ Move(l, "cover", build_cover_payload)
  /\ UNCHANGED <<now, fixed, documents, queue, answer, wire, store, polled, queuedAt, arrived,
                 firstLife, received>>

next_intent(has_real_packet) == IF has_real_packet THEN {"Real"} ELSE {"Loop", "Drop"}

(* The interval is over: one look at the queue decides between a real      *)
(* packet and a dummy.  A loop cancelled meanwhile may still win the race. *)
Wake(l) ==
  /\ At(l, "asleep")
  /\ \E intent \in next_intent(queue # <<>>) :
       IF intent = "Real" THEN Move(l, "real", None) ELSE Move(l, "cover", build_cover_payload)
  /\ UNCHANGED <<now, fixed, documents, queue, answer, wire, store, polled, queuedAt, arrived,
                 firstLife, received>>

(* Mutant: the packet is read but stays in the queue.                      *)
PopPeek(l) ==
  /\ At(l, "real")
  /\ IF queue = <<>> THEN Move(l, "asleep", None) ELSE Move(l, "send", Head(queue))
  /\ UNCHANGED <<now, fixed, documents, queue, answer, wire, store, polled, queuedAt, arrived,
                 firstLife, received>>

(* A second lock: another loop may have taken the packet in between, and   *)
(* then this interval sends nothing.                                       *)
Pop(l) ==
  /\ At(l, "real")
  /\ IF queue = <<>> THEN Move(l, "asleep", None) /\ UNCHANGED queue
     ELSE Move(l, "send", Head(queue)) /\ queue' = Tail(queue)
  /\ UNCHANGED <<now, fixed, documents, answer, wire, store, polled, queuedAt, arrived,
                 firstLife, received>>

(* send and send_to_exit down to the entry relay: a packet that left, or   *)
(* one of the errors of path selection and transport.  A dummy that left   *)
(* is discarded by its exit, which cannot open it.                         *)
Send(l) ==
  /\ loop[l].at \in {"send", "cover"}
  /\ LET p == loop[l].packet IN
     IF At(l, "cover") THEN UNCHANGED <<wire, answer>>
     ELSE \/ wire' = wire \cup {p} /\ answer' = [answer EXCEPT ![p.body.env] = "ok"]
          \/ answer' = [answer EXCEPT ![p.body.env] = "failed"] /\ UNCHANGED wire
  /\ Move(l, "asleep", None)
  /\ UNCHANGED <<now, fixed, documents, queue, store, polled, queuedAt, arrived, firstLife, received>>

-----------------------------------------------------------------------------
(* The host: unseal, parse, deposit.                                       *)

Deliver(p) ==
  /\ p \in wire
  /\ \E r \in unseal(Host, p) :
       LET d == deposit(store, r.id, r.env, hostNow, r.ttl) IN
       /\ store' = d.store
       /\ IF d.ok
          THEN /\ arrived' = [arrived EXCEPT ![r.env] = now]
               /\ firstLife' = [firstLife EXCEPT ![r.env] = hostNow + Lifetime(r.ttl)]
          ELSE UNCHANGED <<arrived, firstLife>>
  /\ wire' = wire \ {p}
  /\ UNCHANGED <<now, fixed, documents, queue, loop, answer, polled, queuedAt, received>>

Lose(p) ==
  /\ p \in wire /\ wire' = wire \ {p}
  /\ UNCHANGED <<now, fixed, documents, queue, loop, answer, store, polled, queuedAt, arrived,
                 firstLife, received>>

-----------------------------------------------------------------------------
(* The recipient, who also still reads the address of older builds.        *)

Addresses ==
  mailbox_ids_to_read(Recipient, doc[Recipient].valid_after) \cup {mailbox_id_legacy(Recipient)}

Poll ==
  /\ Holds(Recipient) /\ ~polled
  /\ LET owned == {id \in Addresses :
           verify_at(fetch_auth_for(Recipient, Host, "connection", id), Host, "connection", id, hostNow)}
         read(s, id) == fetch_batch(s, id, hostNow, Policy.max_total_bytes)
     IN /\ store' = FoldSet(LAMBDA id, s : read(s, id).store, store, owned)
        /\ received' = received \cup UNION {EnvsOf(read(store, id).batch) : id \in owned}
  /\ polled' = TRUE
  /\ UNCHANGED <<now, fixed, documents, queue, loop, answer, wire, queuedAt, arrived, firstLife>>

(* The answer to a read through the mixnet could not be sent: the host     *)
(* puts the batch back, each message with a default lifetime.              *)
PollUnanswered(id) ==
  /\ Holds(Recipient) /\ ~polled /\ id \in Addresses
  /\ LET binding == surb_fetch_binding("reply block")
     IN verify_at(fetch_auth_for(Recipient, Host, binding, id), Host, binding, id, hostNow)
  /\ LET f == fetch_batch(store, id, hostNow, Policy.max_total_bytes)
     IN store' = FoldLeft(LAMBDA s, e : deposit(s, id, e.env, hostNow, 0).store, f.store, f.batch)
  /\ UNCHANGED <<now, fixed, documents, queue, loop, answer, wire, polled, queuedAt, arrived,
                 firstLife, received>>

-----------------------------------------------------------------------------
(* Time passes.  It waits for a recipient who is online to read what it    *)
(* can, and for packets that are on their way.                             *)

Waiting(p) == now - queuedAt[p.body.env] >= MaxTransit
Tick ==
  /\ now < bound.until
  /\ IF Holds(Recipient) THEN polled
     ELSE \A d \in Offered : ~Acceptable(Recipient, d)
  /\ \A p \in wire \cup {loop[l].packet : l \in {k \in Loops : At(k, "send")}} : ~Waiting(p)
  /\ (\E l \in Loops : Running(l) /\ ~loop[l].cancelled) => \A i \in DOMAIN queue : ~Waiting(queue[i])
  /\ now' = now + 1 /\ polled' = FALSE
  /\ UNCHANGED <<fixed, documents, queue, loop, answer, wire, store, queuedAt, arrived, firstLife,
                 received>>

Next ==
  \/ Tick
  \/ \E old, new \in Keys : Rotate(old, new)
  \/ \E p \in Parties : (\E d \in Offered : Adopt(p, d)) \/ LearnTransitions(p)
  \/ \E m \in Envs : Queue(m)
  \/ \E l \in Loops : spawn_cover_loop(l) \/ StopLoop(l) \/ LeaveLoop(l) \/ Wake(l) \/ Pop(l) \/ Send(l)
  \/ \E p \in wire : Deliver(p) \/ Lose(p)
  \/ Poll
  \/ \E id \in Addresses : PollUnanswered(id)

Spec == Init /\ [][Next]_vars
(* The runtime keeps running a spawned task.                               *)
FairSpec == Spec /\ \A l \in Loops : WF_vars(LeaveLoop(l) \/ Wake(l) \/ Pop(l) \/ Send(l))

-----------------------------------------------------------------------------
(* A document a client takes was signed with the key at the end of the one *)
(* line of rotations it knows of, starting at the pinned key; a client     *)
(* that has seen a key rotated away from, or two successors of one key,    *)
(* takes nothing signed with it, and time does not run backwards for it    *)
(* (verify_with_transitions, verify_monotonic).                            *)
RotationRespected ==
  [][\A p \in Parties : doc'[p] # doc[p] =>
       /\ EndOfChain(doc'[p].authority, Pinned, Edges(SubSeq(transitions, 1, known[p])))
       /\ doc'[p].valid_after >= doc[p].valid_after]_vars

(* For as long as the lifetime a message was accepted with runs, the relay *)
(* lets its owner read the address it lies at, whatever document the       *)
(* sender had used and however the relay's clock is set                    *)
(* (mailbox_id_owned_at against deposit's clamp).                          *)
MailStaysReadable ==
  \A id \in DOMAIN store.boxes : \A i \in DOMAIN store.boxes[id] :
    hostNow < firstLife[store.boxes[id][i].env] => mailbox_id_owned_at(Recipient, id, hostNow)

(* A message that was not held up reaches a recipient who keeps reading:   *)
(* the two epochs of mailbox_ids_to_read meet the epoch the sender put     *)
(* into the address, although each side derives it from its own document.  *)
ReceivedInTime ==
  \A m \in Envs :
    (arrived[m] # Never /\ arrived[m] - queuedAt[m] <= MaxTransit /\ arrived[m] + 2 <= now) => m \in received

(* A message has one place between the queue, the loops and the mixnet,    *)
(* the sender is told "ok" only when the packet left, and an interval goes *)
(* by without a packet only when a second loop took it (spawn_cover_loop:  *)
(* the look and the pop are two locks).                                    *)
Places(m) ==
  Cardinality({i \in DOMAIN queue : queue[i].body.env = m})
  + Cardinality({l \in Loops : At(l, "send") /\ loop[l].packet.body.env = m})
  + (IF answer[m] = None THEN 0 ELSE 1)
CoverLoopExact ==
  /\ \A m \in Envs : Places(m) = IF queuedAt[m] # Never THEN 1 ELSE 0
  /\ \A m \in Envs : answer[m] # "ok" => m \notin {p.body.env : p \in wire} \cup Stored(store.boxes)
  /\ \A l \in Loops : At(l, "real") /\ queue = <<>> =>
       \E k \in Loops \ {l} : loop[k].at # "off"

(* Every queued message is answered, unless the loops were all stopped.    *)
QueueAnswered ==
  \A m \in Envs :
    (queuedAt[m] # Never /\ \E l \in Loops : Running(l))
      ~> (answer[m] # None \/ \A l \in Loops : ~Running(l))
=============================================================================
