--------------------------- MODULE SignedDirectory ---------------------------
(***************************************************************************)
(* Signed directory documents and the rotation of the authority's key      *)
(* (crypto-gotham/src/directory.rs).  A signature is the key it was made   *)
(* with; a document is what decides whether a client takes it, without its *)
(* list of relays.                                                         *)
(***************************************************************************)
EXTENDS Integers, Sequences, FiniteSets, SequencesExt

CONSTANTS
  Keys,            \* authority signing keys
  Pinned,          \* the one a client is shipped with
  Validity,        \* seconds a document is valid
  MaxTransitions   \* MAX_TRANSITIONS

ASSUME DirectoryAssumption ==
  Pinned \in Keys /\ IsFiniteSet(Keys) /\ Validity \in Nat /\ MaxTransitions \in Nat

(* DirectoryDoc::new and SignedDirectory::sign.                            *)
sign(key, now) ==
  [authority |-> key, signature |-> key, valid_after |-> now, valid_until |-> now + Validity]

(* SignedDirectory::verify; both ends of the window are inside it.         *)
verify(d, expected, now) ==
  /\ d.authority = expected
  /\ d.signature = expected
  /\ d.valid_after <= d.valid_until
  /\ d.valid_after <= now /\ now <= d.valid_until

(* A document of the second already seen is taken again.                   *)
verify_monotonic(d, expected, now, seen) == verify(d, expected, now) /\ d.valid_after >= seen

(* AuthorityKeyTransition: build signs with both keys, verify wants both.  *)
build(old, new) == [old |-> old, new |-> new, signed |-> {old, new}]
VerifiedOldOnly(t) == t.old \in t.signed  \* mutant: the new key's signature is not looked at
Verified(t) == {t.old, t.new} \subseteq t.signed
Edges(transitions) == {<<t.old, t.new>> : t \in {u \in ToSet(transitions) : Verified(u)}}

(* The loop that lets trust grow from the pinned key until it stops.       *)
Trusted(edges, pinned) ==
  LET grow[n \in 0..Cardinality(Keys)] ==
        IF n = 0 THEN {pinned}
        ELSE grow[n - 1] \cup {e[2] : e \in {f \in edges : f[1] \in grow[n - 1]}}
  IN grow[Cardinality(Keys)]

(* Mutant: superseded keys are still accepted.                             *)
verify_ignoring_superseded(d, pinned, transitions, now) ==
  LET trusted == Trusted(Edges(transitions), pinned)
  IN d.authority \in trusted /\ verify(d, d.authority, now)

verify_with_transitions(d, pinned, transitions, now) ==
  LET edges == Edges(transitions)
      trusted == Trusted(edges, pinned)
      forked == \E e, f \in edges : e[1] \in trusted /\ e[1] = f[1] /\ e[2] # f[2]
      superseded == {e[1] : e \in edges}
  IN /\ Len(transitions) <= MaxTransitions
     /\ ~forked
     /\ d.authority \notin superseded
     /\ d.authority \in trusted
     /\ verify(d, d.authority, now)

(* What it is meant to decide: the rotations lead from the pinned key to   *)
(* key in one line, without a second branch anywhere on it, and end there. *)
EndOfChain(key, pinned, edges) ==
  LET from(k) == {e[2] : e \in {f \in edges : f[1] = k}} IN
  \E n \in 1..Cardinality(Keys) : \E line \in [1..n -> Keys] :
    /\ line[1] = pinned /\ line[n] = key
    /\ \A i \in 1..(n - 1) : from(line[i]) = {line[i + 1]}
    /\ from(key) = {}
=============================================================================
