----------------------------- MODULE RateLimit -----------------------------
(***************************************************************************)
(* The rate limiters a packet meets (crypto-gotham-relay/src/              *)
(* rate_limit.rs): serve_connection asks the limiter of its source, then   *)
(* Relay::process asks the relay's own.                                    *)
(*                                                                         *)
(* Time is in ticks, Sub to the second.  Tokens are counted in 1/Sub of a  *)
(* packet, so a tick adds pps of them and a packet costs Sub; the rounding *)
(* of f64 is left out.                                                     *)
(***************************************************************************)
EXTENDS Integers, Sequences, FiniteSets

CONSTANTS
  Sources,             \* source addresses
  Sub,                 \* ticks in a second
  MaxPps, SourcePps,   \* --max-pps and PER_SOURCE_MAX_PPS; 0 is unlimited
  MaxBytes,            \* --max-bytes-per-day; 0 is unlimited
  Wire,                \* WIRE_BYTES_PER_PACKET
  QuotaWindow,         \* QUOTA_WINDOW, in ticks
  MaxEntries,          \* PER_SOURCE_MAX_TRACKED
  MaxNow               \* bound: the clock stops here

ASSUME UnitAssumption == Sub \in Nat \ {0} /\ Wire \in Nat \ {0} /\ QuotaWindow \in Nat
ASSUME LimitAssumption == MaxPps \in Nat /\ SourcePps \in Nat /\ MaxBytes \in Nat /\ MaxEntries \in Nat \ {0}
ASSUME BoundAssumption == MaxNow \in Nat

VARIABLES
  now,
  relay,     \* the RateLimiter of Relay
  buckets,   \* PerSourceLimiter: the limiter of each tracked source and when it was seen
  (* History, read by no action of the program: *)
  passed,    \* when the relay's limiter let a packet through
  stint,     \* when a source last entered the table, and its packets let through since
  prev,      \* when each source sent its last packet
  steady,    \* the sources that never sent two packets closer than their rate
  refused    \* those whose own limiter has refused a packet

history == <<passed, stint, prev, steady, refused>>
vars == <<now, relay, buckets, history>>

Never == -1
Least(a, b) == IF a <= b THEN a ELSE b
Burst(pps) == 2 * pps * Sub

(* RateLimiter::new.                                                       *)
new(pps, t) == [tokens |-> Burst(pps), last_refill |-> t, bytes_used |-> 0, window_start |-> t]

Refilled(l, pps, t) == Least(l.tokens + (t - l.last_refill) * pps, Burst(pps))
Reset(l, t) == t - l.window_start >= QuotaWindow
Used(l, t) == IF Reset(l, t) THEN 0 ELSE l.bytes_used

OverQuotaLate(l, quota, t) == quota > 0 /\ Used(l, t) > quota  \* mutant: the packet is not counted
OverQuota(l, quota, t) == quota > 0 /\ Used(l, t) + Wire > quota
Dry(l, pps, t) == pps > 0 /\ Refilled(l, pps, t) < Sub
allows(l, pps, quota, t) == ~OverQuota(l, quota, t) /\ ~Dry(l, pps, t)

(* RateLimiter::check_at on a packet it allows; a refusal changes nothing. *)
charge(l, pps, quota, t) ==
  [tokens       |-> IF pps > 0 THEN Refilled(l, pps, t) - Sub ELSE l.tokens,
   last_refill  |-> IF pps > 0 THEN t ELSE l.last_refill,
   bytes_used   |-> IF quota > 0 THEN Used(l, t) + Wire ELSE l.bytes_used,
   window_start |-> IF quota > 0 /\ Reset(l, t) THEN t ELSE l.window_start]
check_at(l, pps, quota, t) == IF allows(l, pps, quota, t) THEN charge(l, pps, quota, t) ELSE l

-----------------------------------------------------------------------------
(* The sources that may be dropped to make room for s: the longest idle.   *)
Evicts(s, victim) ==
  IF s \in DOMAIN buckets \/ Cardinality(DOMAIN buckets) < MaxEntries THEN victim = {}
  ELSE \E v \in DOMAIN buckets :
         /\ victim = {v}
         /\ \A w \in DOMAIN buckets : buckets[v].seen <= buckets[w].seen

RelayUncharged(own) == relay  \* mutant: the relay's limiter is a copy

(* The limiter of the relay after a packet its source may or may not send. *)
RelayCharged(own) == IF own THEN check_at(relay, MaxPps, MaxBytes, now) ELSE relay

(* PerSourceLimiter::check_at, then the check at the head of process.      *)
Packet(s) ==
  /\ \E victim \in {{}} \cup {{v} : v \in DOMAIN buckets} :
       LET kept == DOMAIN buckets \ victim
           lim == IF s \in kept THEN buckets[s].lim ELSE new(SourcePps, now)
           since == IF s \in kept THEN stint[s] ELSE [from |-> now, n |-> 0]
           own == allows(lim, SourcePps, 0, now)
           ok == own /\ allows(relay, MaxPps, MaxBytes, now)
       IN /\ Evicts(s, victim)
          /\ buckets' = [w \in kept \cup {s} |->
               IF w = s THEN [lim |-> check_at(lim, SourcePps, 0, now), seen |-> now] ELSE buckets[w]]
          /\ relay' = RelayCharged(own)
          /\ passed' = IF ok THEN Append(passed, now) ELSE passed
          /\ stint' = [stint EXCEPT ![s] = IF own THEN [since EXCEPT !.n = @ + 1] ELSE since]
          /\ refused' = IF own THEN refused ELSE refused \cup {s}
  /\ prev' = [prev EXCEPT ![s] = now]
  /\ steady' = IF prev[s] # Never /\ (now - prev[s]) * SourcePps < Sub THEN steady \ {s} ELSE steady
  /\ UNCHANGED now

Tick ==
  /\ now < MaxNow
  /\ now' = now + 1
  /\ UNCHANGED <<relay, buckets, history>>

Init ==
  /\ now = 0
  /\ relay = new(MaxPps, 0)
  /\ buckets = [s \in {} |-> relay]
  /\ passed = <<>>
  /\ stint = [s \in Sources |-> [from |-> 0, n |-> 0]]
  /\ prev = [s \in Sources |-> Never]
  /\ steady = Sources
  /\ refused = {}

Next == Tick \/ \E s \in Sources : Packet(s)

Spec == Init /\ [][Next]_vars

-----------------------------------------------------------------------------
(* A limiter's tokens stay between nothing and the burst, and its times in *)
(* the past.                                                               *)
LimiterOK(l, pps) ==
  /\ l.tokens \in Nat /\ l.tokens <= Burst(pps)
  /\ l.last_refill \in Nat /\ l.last_refill <= now
  /\ l.bytes_used \in Nat
  /\ l.window_start \in Nat /\ l.window_start <= now
TypeOK ==
  /\ now \in Nat
  /\ LimiterOK(relay, MaxPps)
  /\ DOMAIN buckets \subseteq Sources
  /\ \A s \in DOMAIN buckets : LimiterOK(buckets[s].lim, SourcePps) /\ buckets[s].seen \in 0..now
  /\ passed \in Seq(Nat)

(* The token bucket of check_at: over any stretch of packets the relay     *)
(* lets through no more than the burst and what the rate allows, however   *)
(* refusals and pauses are mixed in.                                       *)
RateBounded ==
  MaxPps > 0 =>
    \A i, j \in 1..Len(passed) :
      i <= j => (j - i + 1) * Sub <= Burst(MaxPps) + MaxPps * (passed[j] - passed[i])

(* The quota window starts over at the first packet a day after it began,  *)
(* so any day sees at most two budgets.                                    *)
QuotaBounded ==
  MaxBytes > 0 =>
    \A i \in 1..Len(passed) :
      Wire * Cardinality({j \in i..Len(passed) : passed[j] - passed[i] < QuotaWindow}) <= 2 * MaxBytes

(* For as long as the table holds a source, it gets one burst and its rate;*)
(* the table does not outgrow MaxEntries (PER_SOURCE_MAX_TRACKED).         *)
SourceBounded ==
  /\ TypeOK
  /\ Cardinality(DOMAIN buckets) <= MaxEntries
  /\ SourcePps > 0 =>
    \A s \in DOMAIN buckets :
      stint[s].n * Sub <= Burst(SourcePps) + SourcePps * (now - stint[s].from)

(* A source that keeps to its rate is never refused by its own limiter,    *)
(* whatever the others send and however often it is evicted.               *)
SteadyNeverRefused == steady \cap refused = {}

(* What the limits promise operators (--max-bytes-per-day) and protect     *)
(* (PER_SOURCE_MAX_PPS): the day's bytes, the share of each source, and    *)
(* that a source which keeps to its share is not refused for the others.   *)
LimitsHeld == QuotaBounded /\ SourceBounded /\ SteadyNeverRefused
=============================================================================
