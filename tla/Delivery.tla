------------------------------ MODULE Delivery ------------------------------
(***************************************************************************)
(* What a mailbox promises, message by message and without a word on       *)
(* boxes, caps, locks, sessions or files.  A message is new, then held,    *)
(* then out with a recipient's fetch, and then received.  A fetch that     *)
(* fails gives it back or loses it.  A held message leaves only with a     *)
(* fetch or because it expired.  What is received or gone stays so, except *)
(* across a restart, which may lose messages and may bring some back.      *)
(***************************************************************************)
CONSTANT Messages

VARIABLES
  up,        \* the relay is running
  fate,      \* [Messages -> {"new", "held", "out", "received", "gone"}]
  expired    \* the messages whose time is over

vars == <<up, fate, expired>>

Init == up = TRUE /\ fate = [m \in Messages |-> "new"] /\ expired = {}

Moves(m) ==
  \/ fate'[m] = fate[m]
  \/ fate[m] = "new" /\ fate'[m] = "held"
  \/ fate[m] = "held" /\ fate'[m] = "out"
  \/ fate[m] = "held" /\ fate'[m] = "gone" /\ m \in expired
  \/ fate[m] = "out" /\ fate'[m] \in {"held", "received", "gone"}

(* Messages move, several at a time; time passes, and starts again only    *)
(* for a message that is given back.                                       *)
Serve ==
  /\ up /\ up' = TRUE
  /\ \A m \in Messages : Moves(m)
  /\ \A m \in expired \ expired' : fate[m] = "out" /\ fate'[m] = "held"

(* The relay ends, with what it holds and what is out.                     *)
Halt ==
  /\ up /\ up' = FALSE
  /\ \A m \in Messages : fate'[m] = IF fate[m] \in {"held", "out"} THEN "gone" ELSE fate[m]
  /\ expired' = expired

Wait == ~up /\ up' = FALSE /\ fate' = fate /\ expired \subseteq expired'

(* It starts with what a snapshot held.                                    *)
Recover ==
  /\ ~up /\ up' = TRUE
  /\ \A m \in Messages : fate'[m] = fate[m] \/ (fate[m] # "new" /\ fate'[m] = "held")

Next == Serve \/ Halt \/ Wait \/ Recover

Spec == Init /\ [][Next]_vars
=============================================================================
