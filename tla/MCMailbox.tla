----------------------------- MODULE MCMailbox -----------------------------
(* Mailbox on small instances: three envelopes, one of them too large for  *)
(* a reply block, two mailboxes, caps that are reached.                    *)
EXTENDS Mailbox, TLC

CONSTANTS a, b, c, m1, m2, t1, s1

MCEnvs == {a, b, c}
MCSize == (a :> 1 @@ b :> 1 @@ c :> 2)
MCTo == (a :> m1 @@ b :> m2 @@ c :> m1)
Tight ==
  [max_mailboxes |-> 2, max_msgs_per_mailbox |-> 2, max_total_msgs |-> 2, max_msg_bytes |-> 2,
   max_total_bytes |-> 3, default_ttl_secs |-> 1, max_ttl_secs |-> 1]

(* A relay in service: deposits, fetches of both kinds that may fail.      *)
ServiceBound ==
  [envs |-> MCEnvs, sessions |-> {s1}, ttls |-> {0}, lag |-> 0, until |-> 2,
   store |-> FALSE, stop |-> FALSE, crash |-> FALSE, fail |-> TRUE]
(* Handlers that wait for the lock while time passes.                      *)
LateBound == [ServiceBound EXCEPT !.envs = {a, c}, !.lag = 1]
(* A relay with a snapshot file that is stopped, dies and starts again.    *)
RestartBound ==
  [envs |-> {a, c}, sessions |-> {}, ttls |-> {2}, lag |-> 0, until |-> 2,
   store |-> TRUE, stop |-> TRUE, crash |-> TRUE, fail |-> FALSE]
(* The same while a recipient fetches.                                     *)
BrokenBound == [RestartBound EXCEPT !.envs = {a}, !.sessions = {s1}]
MCBounds == {ServiceBound, LateBound, RestartBound, BrokenBound}

(* Lifetimes apart, as they are in the code: the default below the maximum.*)
Lasting == [Tight EXCEPT !.default_ttl_secs = 2, !.max_ttl_secs = 3]
AgeBounds == {[ServiceBound EXCEPT !.envs = {a}, !.sessions = {}, !.ttls = {3}, !.lag = 0, !.until = 3]}
=============================================================================
