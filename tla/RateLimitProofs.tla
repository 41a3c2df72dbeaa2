-------------------------- MODULE RateLimitProofs --------------------------
(***************************************************************************)
(* The relay's token bucket keeps to its rate over every stretch of        *)
(* packets, for any rate, burst, resolution and history of refusals.       *)
(***************************************************************************)
EXTENDS RateLimit, SequenceTheorems, TLAPS

(* What the bucket still holds, added to what it let through since packet  *)
(* i, is covered by one burst and the refills since then.                  *)
Covered ==
  MaxPps > 0 =>
    \A i \in 1..Len(passed) :
      (Len(passed) - i + 1) * Sub + relay.tokens <= Burst(MaxPps) + MaxPps * (relay.last_refill - passed[i])

RelayOK ==
  /\ now \in Nat
  /\ relay.tokens \in Nat /\ relay.tokens <= Burst(MaxPps)
  /\ relay.last_refill \in Nat /\ relay.last_refill <= now
  /\ passed \in Seq(Nat)

IInv == RelayOK /\ Covered /\ RateBounded

(* Products of naturals are natural.                                       *)
LEMMA ProductNat ==
  ASSUME NEW a \in Nat, NEW b \in Nat
  PROVE  a * b \in Nat
OBVIOUS

(* Multiplication distributes over a difference.                           *)
LEMMA Distributes ==
  ASSUME NEW a \in Int, NEW b \in Int, NEW c \in Int
  PROVE  a * (b - c) \in Int /\ a * (b - c) = a * b - a * c
OBVIOUS

(* What a rate gives over two stretches of time adds up.                   *)
LEMMA Chasles ==
  ASSUME NEW a \in Int, NEW x \in Int, NEW y \in Int, NEW z \in Int
  PROVE  a * (z - x) = a * (y - x) + (z - y) * a /\ a * (y - x) \in Int
OBVIOUS

(* A bucket refilled by gain and charged one packet stays covered.         *)
LEMMA Settles ==
  ASSUME NEW before \in Int, NEW owed \in Int, NEW gain \in Int, NEW tokens \in Int,
         NEW full \in Int, NEW burst \in Int, NEW cost \in Int,
         before + tokens <= burst + owed, full <= tokens + gain
  PROVE  (before + cost) + (full - cost) <= burst + (owed + gain)
OBVIOUS

(* Products with nothing and with one.                                     *)
LEMMA Units ==
  ASSUME NEW a \in Int, NEW x \in Int, NEW n \in Int, x = 0, n = 1
  PROVE  a * x = 0 /\ n * a = a
OBVIOUS

(* Least is one of two naturals and no more than either.                   *)
LEMMA LeastOf ==
  ASSUME NEW a \in Nat, NEW b \in Nat
  PROVE  Least(a, b) \in Nat /\ Least(a, b) <= a /\ Least(a, b) <= b
BY DEF Least

(* The burst is a number of tokens.                                        *)
LEMMA BurstNat == Burst(MaxPps) \in Nat
BY LimitAssumption, UnitAssumption, ProductNat DEF Burst

(* RateLimiter::new: a full bucket and no packet yet.                      *)
LEMMA InitInv == Init => IInv
BY BurstNat DEF Init, IInv, RelayOK, Covered, RateBounded, new

(* A packet that is let through costs Sub tokens out of the refilled       *)
(* bucket; any other leaves the relay's limiter alone.                     *)
LEMMA PacketEffect ==
  ASSUME NEW s \in Sources, Packet(s)
  PROVE  \/ UNCHANGED <<relay, passed>>
         \/ /\ passed' = Append(passed, now)
            /\ allows(relay, MaxPps, MaxBytes, now)
            /\ relay' = charge(relay, MaxPps, MaxBytes, now)
<1> DEFINE lim(v) == IF s \in DOMAIN buckets \ v THEN buckets[s].lim ELSE new(SourcePps, now)
           own(v) == allows(lim(v), SourcePps, 0, now)
<1>1. PICK v \in {{}} \cup {{w} : w \in DOMAIN buckets} :
        /\ relay' = RelayCharged(own(v))
        /\ passed' = IF own(v) /\ allows(relay, MaxPps, MaxBytes, now) THEN Append(passed, now) ELSE passed
  BY Zenon DEF Packet
<1> HIDE DEF own
<1> QED
  BY <1>1 DEF RelayCharged, check_at

(* A packet keeps the invariant: what check_at lets through is paid for.   *)
LEMMA PacketInv ==
  ASSUME IInv, NEW s \in Sources, Packet(s)
  PROVE  IInv'
<1>1. now' = now
  BY DEF Packet
<1>2. CASE UNCHANGED <<relay, passed>>
  BY <1>1, <1>2 DEF IInv, RelayOK, Covered, RateBounded
<1>3. CASE /\ passed' = Append(passed, now)
           /\ allows(relay, MaxPps, MaxBytes, now)
           /\ relay' = charge(relay, MaxPps, MaxBytes, now)
  <2> DEFINE n == Len(passed)
             gain == (now - relay.last_refill) * MaxPps
  <2>1. /\ n \in Nat /\ now \in Nat /\ passed \in Seq(Nat)
        /\ relay.tokens \in Nat /\ relay.last_refill \in Nat /\ relay.last_refill <= now
        /\ Burst(MaxPps) \in Nat /\ MaxPps \in Nat /\ Sub \in Nat
    BY BurstNat, LimitAssumption, UnitAssumption, LenProperties DEF IInv, RelayOK
  <2>2. now - relay.last_refill \in Nat /\ gain \in Nat
    BY <2>1, ProductNat
  <2>3. /\ passed' \in Seq(Nat) /\ Len(passed') = n + 1 /\ passed'[n + 1] = now
        /\ \A i \in 1..n : passed'[i] = passed[i] /\ passed[i] \in Nat
    BY <1>3, <2>1, AppendProperties, ElementOfSeq
  <2>4. CASE MaxPps = 0
    <3>1. relay'.tokens = relay.tokens /\ relay'.last_refill = relay.last_refill
      BY <1>3, <2>4 DEF charge
    <3>2. RelayOK'
      BY <1>1, <2>1, <2>3, <3>1 DEF IInv, RelayOK
    <3> QED
      BY <2>4, <3>2 DEF IInv, Covered, RateBounded
  <2>5. CASE MaxPps > 0
    <3>1. relay'.tokens = Refilled(relay, MaxPps, now) - Sub /\ relay'.last_refill = now
      BY <1>3, <2>5 DEF charge
    <3>a. Refilled(relay, MaxPps, now) = Least(relay.tokens + gain, Burst(MaxPps))
      BY DEF Refilled
    <3>b. relay.tokens + gain \in Nat
      <4> HIDE DEF gain
      <4> QED
        BY <2>1, <2>2
    <3>3. /\ Refilled(relay, MaxPps, now) \in Nat
          /\ Refilled(relay, MaxPps, now) <= Burst(MaxPps)
          /\ Refilled(relay, MaxPps, now) <= relay.tokens + gain
      BY <2>1, <3>a, <3>b, LeastOf, Zenon
    <3>2. Refilled(relay, MaxPps, now) >= Sub
      BY <1>3, <2>1, <2>5, <3>3 DEF allows, Dry
    <3>4. RelayOK'
      <4> DEFINE full == Refilled(relay, MaxPps, now)
      <4>1. relay'.tokens = full - Sub /\ full \in Nat /\ full <= Burst(MaxPps) /\ full >= Sub
        BY <3>1, <3>2, <3>3
      <4> HIDE DEF full, gain, n
      <4>2. relay'.tokens \in Nat /\ relay'.tokens <= Burst(MaxPps)
        BY <2>1, <4>1
      <4> QED
        BY <1>1, <2>1, <2>3, <3>1, <4>2 DEF RelayOK
    <3>5. ASSUME NEW i \in 1..n
          PROVE  (n + 1 - i + 1) * Sub + relay'.tokens <= Burst(MaxPps) + MaxPps * (now - passed[i])
      <4> DEFINE k == n - i + 1
                 last == relay.last_refill
                 p == passed[i]
      <4>0. p \in Nat
        BY <2>3, Zenon
      <4>1. k \in Nat /\ p \in Int /\ last \in Int /\ now \in Int /\ MaxPps \in Int
        <5> HIDE DEF n, p, gain
        <5> QED
          BY <2>1, <4>0
      <4>2. k * Sub + relay.tokens <= Burst(MaxPps) + MaxPps * (last - p)
        BY <2>5, <3>5 DEF IInv, Covered
      <4>3. (n + 1 - i + 1) * Sub = k * Sub + Sub /\ k * Sub \in Int
        BY <2>1, <4>1
      <4>5. MaxPps * (now - p) = MaxPps * (last - p) + gain /\ MaxPps * (last - p) \in Int
        <5>1. gain = (now - last) * MaxPps
          OBVIOUS
        <5> HIDE DEF gain, last, p, k, n
        <5>2. MaxPps * (now - p) = MaxPps * (last - p) + (now - last) * MaxPps /\ MaxPps * (last - p) \in Int
          BY <4>1, Chasles
        <5> QED
          BY <5>1, <5>2, Zenon
      <4> DEFINE spent == (n + 1 - i + 1) * Sub
                 before == k * Sub
                 owed == MaxPps * (last - p)
                 due == MaxPps * (now - p)
                 full == Refilled(relay, MaxPps, now)
      <4>6. /\ spent = before + Sub /\ before \in Int
            /\ due = owed + gain /\ owed \in Int
            /\ before + relay.tokens <= Burst(MaxPps) + owed
            /\ relay'.tokens = full - Sub /\ full \in Nat /\ full <= relay.tokens + gain
        BY <3>1, <3>3, <4>2, <4>3, <4>5
      <4> HIDE DEF spent, before, owed, due, full, gain
      <4>7. spent + relay'.tokens <= Burst(MaxPps) + due
        <5>t. Sub \in Int /\ relay.tokens \in Int /\ gain \in Int /\ Burst(MaxPps) \in Int /\ full \in Int
          BY <2>1, <2>2, <4>6
        <5>1. (before + Sub) + (full - Sub) <= Burst(MaxPps) + (owed + gain)
          BY <4>6, <5>t, Settles, Zenon
        <5> QED
          BY <4>6, <5>1, Zenon
      <4> QED
        BY <4>7 DEF spent, due
    <3>6. Covered'
      <4> SUFFICES ASSUME NEW i \in 1..(n + 1)
                   PROVE  (n + 1 - i + 1) * Sub + relay'.tokens <= Burst(MaxPps) + MaxPps * (now - passed'[i])
        BY <2>1, <2>3, <3>1 DEF Covered, Burst
      <4>1. CASE i \in 1..n
        BY <2>3, <3>5, <4>1, SMTT(30)
      <4>2. CASE i = n + 1
        <5>1. now - passed'[i] = 0 /\ n + 1 - i + 1 = 1
          BY <2>1, <2>3, <4>2
        <5> DEFINE owed == MaxPps * (now - passed'[i])
                   spent == (n + 1 - i + 1) * Sub
        <5>2. owed = 0 /\ spent = Sub
          <6>1. MaxPps \in Int /\ Sub \in Int /\ now - passed'[i] \in Int /\ n + 1 - i + 1 \in Int
            BY <2>1, <5>1
          <6> QED
            BY <5>1, <6>1, Units
        <5>3. relay'.tokens + Sub <= Burst(MaxPps) /\ relay'.tokens \in Int
          BY <2>1, <3>1, <3>3
        <5> HIDE DEF owed, spent
        <5>4. spent + relay'.tokens <= Burst(MaxPps) + owed
          BY <2>1, <5>2, <5>3
        <5> QED
          BY <5>4 DEF owed, spent
      <4> QED
        BY <2>1, <4>1, <4>2
    <3>7. RateBounded'
      <4> SUFFICES ASSUME NEW i \in 1..(n + 1), NEW j \in 1..(n + 1), i <= j
                   PROVE  (j - i + 1) * Sub <= Burst(MaxPps) + MaxPps * (passed'[j] - passed'[i])
        BY <2>1, <2>3 DEF RateBounded, Burst
      <4>1. CASE j \in 1..n
        <5>0. i \in 1..n
          BY <2>1, <4>1
        <5>1. i \in 1..n /\ passed'[i] = passed[i] /\ passed'[j] = passed[j]
          BY <2>3, <4>1, <5>0
        <5> QED
          BY <2>5, <4>1, <5>1 DEF IInv, RateBounded
      <4>2. CASE j = n + 1
        <5>1. (n + 1 - i + 1) * Sub + relay'.tokens <= Burst(MaxPps) + MaxPps * (now - passed'[i])
          BY <2>3, <2>5, <3>1, <3>6 DEF Covered, Burst
        <5>2. relay'.tokens \in Nat /\ passed'[j] = now /\ (n + 1 - i + 1) * Sub \in Int
          <6>1. relay'.tokens \in Nat
            BY <3>4, Zenon DEF RelayOK
          <6>2. passed'[j] = now
            BY <2>3, <4>2, Zenon
          <6>3. n + 1 - i + 1 \in Nat
            <7> HIDE DEF n, gain
            <7> QED
              BY <2>1
          <6>4. (n + 1 - i + 1) * Sub \in Nat
            BY <2>1, <6>3, ProductNat, Zenon
          <6> QED
            BY <6>1, <6>2, <6>4
        <5>3. passed'[i] \in Nat /\ MaxPps * (now - passed'[i]) \in Int
          <6>1. passed'[i] \in Nat
            BY <2>3, ElementOfSeq
          <6>2. MaxPps \in Int /\ now \in Int /\ passed'[i] \in Int
            BY <2>1, <6>1
          <6> QED
            BY <6>1, <6>2, Distributes, Zenon
        <5> DEFINE owed == MaxPps * (now - passed'[i])
                   spent == (n + 1 - i + 1) * Sub
        <5>4. /\ spent + relay'.tokens <= Burst(MaxPps) + owed
              /\ spent \in Int /\ owed \in Int /\ relay'.tokens \in Nat
          BY <5>1, <5>2, <5>3
        <5> HIDE DEF owed, spent
        <5>5. spent <= Burst(MaxPps) + owed
          BY <2>1, <5>4
        <5> QED
          BY <4>2, <5>2, <5>5 DEF owed, spent
      <4> QED
        BY <2>1, <4>1, <4>2
    <3> QED
      BY <3>4, <3>6, <3>7 DEF IInv
  <2> QED
    BY <2>1, <2>4, <2>5
<1> QED
  BY <1>2, <1>3, PacketEffect

(* Every step keeps the invariant; time adds only credit.                  *)
LEMMA NextInv == IInv /\ [Next]_vars => IInv'
<1> SUFFICES ASSUME IInv, [Next]_vars PROVE IInv'
  OBVIOUS
<1>1. CASE Tick
  BY <1>1 DEF Tick, history, IInv, RelayOK, Covered, RateBounded
<1>2. CASE UNCHANGED vars
  BY <1>2 DEF vars, history, IInv, RelayOK, Covered, RateBounded
<1> QED
  BY <1>1, <1>2, PacketInv DEF Next

(* check_at: the relay's limiter keeps to its rate over any stretch of the *)
(* packets it lets through.                                                *)
THEOREM RateHolds == Spec => []RateBounded
<1>1. IInv => RateBounded
  BY DEF IInv
<1> QED
  BY <1>1, InitInv, NextInv, PTL DEF Spec
=============================================================================
