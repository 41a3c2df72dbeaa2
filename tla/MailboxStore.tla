---------------------------- MODULE MailboxStore ----------------------------
(***************************************************************************)
(* The mailbox of a relay as a value, and its operations as functions on   *)
(* that value (crypto-gotham/src/mailbox.rs).  A store is a record of the  *)
(* boxes, the count of all messages and the count of their bytes; an entry *)
(* is an envelope and the time it expires.                                 *)
(***************************************************************************)
EXTENDS Integers, Sequences, FiniteSets, SequencesExt, FiniteSetsExt

CONSTANTS
  Ids,      \* mailbox identifiers
  Envs,     \* sealed envelopes
  Size,     \* the bytes of each
  Policy    \* MailboxPolicy: the caps and the lifetimes

ASSUME SizeAssumption == Size \in [Envs -> Nat]
ASSUME PolicyAssumption ==
  Policy \in [max_mailboxes : Nat, max_msgs_per_mailbox : Nat \ {0}, max_total_msgs : Nat,
              max_msg_bytes : Nat, max_total_bytes : Nat,
              default_ttl_secs : Nat, max_ttl_secs : Nat \ {0}]

Entry == [env : Envs, exp : Nat]
IsStore(s) ==
  /\ DOMAIN s.boxes \subseteq Ids
  /\ \A id \in DOMAIN s.boxes : s.boxes[id] \in Seq(Entry)
  /\ s.total \in Nat /\ s.bytes \in Nat

BytesOf(q) == FoldLeft(LAMBDA n, e : n + Size[e.env], 0, q)
LiveEarly(q, now) == SelectSeq(q, LAMBDA e : e.exp > now + 1)  \* mutant: expires early
Live(q, now) == SelectSeq(q, LAMBDA e : e.exp > now)
EmptyStore == [boxes |-> <<>>, total |-> 0, bytes |-> 0]

(* entries.retain(|e| e.expires_at > now) on the boxes D, with the counts  *)
(* brought up to date.                                                     *)
Retain(s, D, now) ==
  [boxes |-> [id \in DOMAIN s.boxes |-> IF id \in D THEN Live(s.boxes[id], now) ELSE s.boxes[id]],
   total |-> s.total - MapThenSumSet(LAMBDA id : Len(s.boxes[id]) - Len(Live(s.boxes[id], now)), D),
   bytes |-> s.bytes -
     MapThenSumSet(LAMBDA id : BytesOf(s.boxes[id]) - BytesOf(Live(s.boxes[id], now)), D)]

DropEmpty(s, D) ==
  [s EXCEPT !.boxes = [id \in {i \in DOMAIN @ : i \in D => @[i] # <<>>} |-> @[id]]]

NoPrune(s, now) == s  \* mutant: nothing is pruned
prune_expired(s, now) == DropEmpty(Retain(s, DOMAIN s.boxes, now), DOMAIN s.boxes)

(* Mutants: the bytes are not counted; the message goes to the front.      *)
PushUncounted(s, id, e) ==
  [s EXCEPT !.boxes = [i \in DOMAIN @ \cup {id} |->
                         IF i # id THEN @[i] ELSE IF id \in DOMAIN @ THEN Append(@[id], e) ELSE <<e>>],
            !.total = @ + 1]
PushFront(s, id, e) ==
  [boxes |-> [i \in DOMAIN s.boxes \cup {id} |->
                IF i # id THEN s.boxes[i]
                ELSE IF id \in DOMAIN s.boxes THEN <<e>> \o s.boxes[id] ELSE <<e>>],
   total |-> s.total + 1,
   bytes |-> s.bytes + Size[e.env]]

(* entry(id).or_default().push(...) and the two counts.                    *)
Push(s, id, e) ==
  [boxes |-> [i \in DOMAIN s.boxes \cup {id} |->
                IF i # id THEN s.boxes[i]
                ELSE IF id \in DOMAIN s.boxes THEN Append(s.boxes[id], e) ELSE <<e>>],
   total |-> s.total + 1,
   bytes |-> s.bytes + Size[e.env]]

Lifetime(ttl) ==
  IF ttl = 0 THEN Policy.default_ttl_secs ELSE Max({Min({ttl, Policy.max_ttl_secs}), 1})

Full(s, env) ==
  s.total >= Policy.max_total_msgs \/ s.bytes + Size[env] > Policy.max_total_bytes

(* deposit: the store afterwards (a refusal after the first retain, or     *)
(* after a prune, keeps what they removed) and whether it took the message.*)
deposit(s, id, env, now, ttl) ==
  LET refuse(t) == [store |-> t, ok |-> FALSE]
      isNew == id \notin DOMAIN s.boxes
      kept == IF isNew THEN s ELSE Retain(s, {id}, now)
      room == IF Full(kept, env) THEN prune_expired(kept, now) ELSE kept
  IN IF \/ Size[env] > Policy.max_msg_bytes
        \/ isNew /\ Cardinality(DOMAIN s.boxes) >= Policy.max_mailboxes
     THEN refuse(s)
     ELSE IF ~isNew /\ Len(kept.boxes[id]) >= Policy.max_msgs_per_mailbox THEN refuse(kept)
     ELSE IF Full(room, env) THEN refuse(room)
     ELSE [store |-> Push(room, id, [env |-> env, exp |-> now + Lifetime(ttl)]), ok |-> TRUE]

(* fetch_batch: the live messages from the front of the box that fit the   *)
(* budget, always at least one, and whether some are left.                 *)
fetch_batch(s, id, now, budget) ==
  IF id \notin DOMAIN s.boxes THEN [store |-> s, batch |-> <<>>, more |-> FALSE]
  ELSE LET kept == Retain(s, {id}, now)
           q == kept.boxes[id]
           n == Max({0} \cup {j \in 1..Len(q) : j = 1 \/ BytesOf(SubSeq(q, 1, j)) <= budget})
           took == SubSeq(q, 1, n)
           rest == SubSeq(q, n + 1, Len(q))
       IN [store |-> DropEmpty([boxes |-> [kept.boxes EXCEPT ![id] = rest],
                                total |-> kept.total - n,
                                bytes |-> kept.bytes - BytesOf(took)], {id}),
           batch |-> took,
           more |-> rest # <<>>]

(* snapshot keeps the boxes; from_snapshot counts again what is still live.*)
snapshot(s) == s.boxes
from_snapshot(snap, now) ==
  LET ids == {id \in DOMAIN snap : Live(snap[id], now) # <<>>}
      boxes == [id \in ids |-> Live(snap[id], now)]
  IN [boxes |-> boxes,
      total |-> MapThenSumSet(LAMBDA id : Len(boxes[id]), ids),
      bytes |-> MapThenSumSet(LAMBDA id : BytesOf(boxes[id]), ids)]

EnvsOf(q) == {q[i].env : i \in DOMAIN q}
Stored(boxes) == UNION {EnvsOf(boxes[id]) : id \in DOMAIN boxes}
=============================================================================
