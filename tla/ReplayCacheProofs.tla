------------------------ MODULE ReplayCacheProofs ------------------------
(***************************************************************************)
(* The replay cache keeps its window, for every set of keys, every TTL,    *)
(* every resolution of the clock and every sequence of capacities.         *)
(***************************************************************************)
EXTENDS ReplayCache, FiniteSetTheorems, SequenceTheorems, TLAPS

-----------------------------------------------------------------------------
(* Rounding *)

(* Secs(t) is the whole number of seconds in t.                            *)
LEMMA SecsBounds ==
  ASSUME NEW t \in Nat
  PROVE  /\ Secs(t) \in Nat
         /\ Secs(t) * Sub <= t
         /\ t < Secs(t) * Sub + Sub
BY SubAssumption DEF Secs

(* Secs(t) is the only number with these bounds.                           *)
LEMMA SecsUnique ==
  ASSUME NEW t \in Nat, NEW q \in Nat, q * Sub <= t, t < q * Sub + Sub
  PROVE  Secs(t) = q
BY SubAssumption DEF Secs

(* Secs is monotonic.                                                      *)
LEMMA SecsMonotonic ==
  ASSUME NEW a \in Nat, NEW b \in Nat, a <= b
  PROVE  Secs(a) <= Secs(b)
BY SubAssumption, SecsBounds DEF Secs

(* The second encode_into stores for an entry seen at t is not before t's  *)
(* and not after the clock's.                                              *)
LEMMA StoredSecond ==
  ASSUME NEW n \in Nat, NEW t \in Nat, t <= n
  PROVE  /\ Secs(n) - Secs(n - t) \in Nat
         /\ Secs(n) - Secs(n - t) >= Secs(t)
         /\ Secs(n) - Secs(n - t) <= Secs(n)
<1> DEFINE a == Secs(n)
           b == Secs(n - t)
           c == Secs(t)
<1>1. n - t \in Nat
  OBVIOUS
<1>2. a \in Nat /\ b \in Nat /\ c \in Nat
  BY <1>1, SecsBounds
<1>3. n < a * Sub + Sub /\ b * Sub <= n - t /\ c * Sub <= t
  BY <1>1, SecsBounds
<1> HIDE DEF a, b, c
<1>4. (b + c) * Sub < (a + 1) * Sub
  BY <1>2, <1>3, SubAssumption
<1>5. b + c < a + 1
  BY <1>2, <1>4, SubAssumption
<1>6. a - b \in Nat /\ a - b >= c /\ a - b <= a
  BY <1>2, <1>5
<1> QED
  BY <1>6 DEF a, b, c

(* restore_at puts a record of second s back at a time of second s.        *)
LEMMA RestoredTime ==
  ASSUME NEW n \in Nat, NEW s \in Nat, s <= Secs(n)
  PROVE  /\ n - (Secs(n) - s) * Sub \in Nat
         /\ n - (Secs(n) - s) * Sub <= n
         /\ Secs(n - (Secs(n) - s) * Sub) = s
<1> DEFINE a == Secs(n)
           t == n - (a - s) * Sub
<1>1. a \in Nat /\ a * Sub <= n /\ n < a * Sub + Sub
  BY SecsBounds
<1>2. s <= a
  OBVIOUS
<1> HIDE DEF a
<1>3. t = (n - a * Sub) + s * Sub
  BY <1>1, SubAssumption
<1>4. s * Sub \in Nat /\ (a - s) * Sub \in Nat
  BY <1>1, <1>2, SubAssumption
<1>5. t \in Nat /\ t <= n /\ s * Sub <= t /\ t < s * Sub + Sub
  BY <1>1, <1>3, <1>4, SubAssumption
<1>6. Secs(t) = s
  BY <1>5, SecsUnique
<1> QED
  BY <1>5, <1>6 DEF a

(* Of two records the later one is restored later.                         *)
LEMMA RestoredOrder ==
  ASSUME NEW n \in Nat, NEW r \in Nat, NEW s \in Nat, r <= s
  PROVE  n - (Secs(n) - r) * Sub <= n - (Secs(n) - s) * Sub
<1>1. Secs(n) \in Nat
  BY SecsBounds
<1>2. r * Sub <= s * Sub
  BY SubAssumption
<1> QED
  BY <1>1, <1>2, SubAssumption

(* An entry that is not older than its acceptance, to the second, expires  *)
(* less than a second early.                                               *)
LEMMA ShortByASecond ==
  ASSUME NEW t \in Nat, NEW a \in Nat, Secs(t) >= Secs(a)
  PROVE  t >= a - (Sub - 1)
<1>1. Secs(t) * Sub >= Secs(a) * Sub
  BY SecsBounds, SubAssumption
<1> QED
  BY <1>1, SecsBounds, SubAssumption

-----------------------------------------------------------------------------
(* The inductive invariant *)

SeenInThePast == \A k \in Keys : seen[k] <= now

IInv ==
  /\ TypeOK
  /\ MapMatchesQueue
  /\ Bounded
  /\ QueueInOrder
  /\ EntryTimes
  /\ Remembered
  /\ FileAccounts
  /\ SeenInThePast

(* TTL in ticks is a number.                                               *)
LEMMA TicksType == TTL * Sub \in Nat /\ Sub \in Nat \ {0}
BY SubAssumption, TTLAssumption

(* Initially the cache and the file are empty.                             *)
LEMMA InitInv == Init => IInv
<1> SUFFICES ASSUME Init PROVE IInv
  OBVIOUS
<1>1. IsFiniteSet({})
  BY FS_EmptySet
<1>0. EmptyFile \in Buffers
  BY DEF EmptyFile, Buffers
<1>2. TypeOK
  <2>1. pending \in BOOLEAN
    BY Zenon DEF Init
  <2>3. queue \in Seq(Entries)
    BY DEF Init
  <2>2. now \in Nat /\ seen \in [Keys -> Nat \cup {Never}] /\ phase \in {"up", "exiting", "down"}
    BY DEF Init
  <2> QED
    BY <1>0, <2>1, <2>2, <2>3, Zenon DEF Init, TypeOK
<1>3. Accounts(file) /\ Accounts(buf)
  BY <1>1 DEF Init, Accounts, EmptyFile, Never
<1>4. MapMatchesQueue /\ QueueInOrder /\ EntryTimes /\ Remembered /\ SeenInThePast
  BY DEF Init, MapMatchesQueue, QueueInOrder, EntryTimes, Remembered, SeenInThePast, Never
<1>5. Bounded
  BY SizesAssumption DEF Init, Bounded, Cap
<1> QED
  BY <1>2, <1>3, <1>4, <1>5 DEF IInv, FileAccounts

(* The file and the buffer keep accounting for what they cover while time  *)
(* passes and keys are accepted.                                           *)
LEMMA AccountsKept ==
  ASSUME NEW f \in Buffers, Accounts(f), now \in Nat, now' \in Nat, now' >= now,
         \A k \in Keys : seen[k] # Never => seen'[k] # Never
  PROVE  Accounts(f)'
<1>1. f.recs \subseteq Records /\ f.covers \in [Keys -> Nat \cup {Never}]
  BY DEF Buffers
<1>2. ASSUME NEW r \in f.recs
      PROVE  /\ r.ts <= Secs(now')
             /\ seen'[r.key] # Never
             /\ f.covers[r.key] # Never => r.ts >= Secs(f.covers[r.key])
  <2>1. r \in Records
    BY <1>1
  <2>2. Secs(now) <= Secs(now') /\ Secs(now) \in Nat /\ Secs(now') \in Nat
    BY SecsMonotonic, SecsBounds
  <2> QED
    BY <2>1, <2>2 DEF Accounts, Records
<1>3. ASSUME NEW k \in Keys, f.covers[k] # Never
      PROVE  /\ f.covers[k] <= now'
             /\ \/ \E r \in f.recs : r.key = k
                \/ now' - f.covers[k] > TTL * Sub - (Sub - 1)
  <2>1. f.covers[k] \in Nat
    BY <1>1, <1>3
  <2>2. /\ f.covers[k] <= now
        /\ \/ \E r \in f.recs : r.key = k
           \/ now - f.covers[k] > TTL * Sub - (Sub - 1)
    BY <1>3 DEF Accounts
  <2> QED
    BY <2>1, <2>2, TicksType
<1> QED
  BY <1>2, <1>3 DEF Accounts, Secs

-----------------------------------------------------------------------------
(* check_and_insert_at *)

(* Popping the first m entries of the queue.                               *)
LEMMA Popped ==
  ASSUME TypeOK, NEW m \in 0..Len(queue)
  PROVE  /\ Len(queue) \in Nat
         /\ SubSeq(queue, m + 1, Len(queue)) \in Seq(Entries)
         /\ Len(SubSeq(queue, m + 1, Len(queue))) = Len(queue) - m
         /\ \A i \in 1..(Len(queue) - m) :
              SubSeq(queue, m + 1, Len(queue))[i] = queue[i + m]
         /\ \A i \in 1..Len(queue) : queue[i] \in Entries
<1>1. queue \in Seq(Entries) /\ Len(queue) \in Nat
  BY DEF TypeOK
<1> QED
  BY <1>1, ElementOfSeq, SubSeqProperties

(* What is left of the map after n keys were swept: the keys of the rest   *)
(* of the queue, as many as it has entries.                                *)
LEMMA HeldKeys ==
  ASSUME TypeOK, MapMatchesQueue, NEW n \in 0..Len(queue)
  PROVE  /\ map \ SweptKeys(n) = {queue[i].key : i \in (n + 1)..Len(queue)}
         /\ Cardinality(map \ SweptKeys(n)) = Len(queue) - n
<1> DEFINE H == {queue[i].key : i \in (n + 1)..Len(queue)}
           f == [i \in 1..(Len(queue) - n) |-> queue[i + n].key]
<1>1. Len(queue) \in Nat /\ Len(queue) - n \in Nat
  BY DEF TypeOK
<1>2. map \ SweptKeys(n) = H
  BY <1>1 DEF MapMatchesQueue, SweptKeys
<1>3. f \in Bijection(1..(Len(queue) - n), H)
  <2>1. f \in [1..(Len(queue) - n) -> H]
    BY <1>1
  <2>2. ASSUME NEW i \in 1..(Len(queue) - n), NEW j \in 1..(Len(queue) - n), f[i] = f[j]
        PROVE  i = j
    <3>1. i + n \in 1..Len(queue) /\ j + n \in 1..Len(queue)
      BY <1>1
    <3>2. queue[i + n].key = queue[j + n].key
      BY <2>2
    <3> QED
      BY <1>1, <3>1, <3>2 DEF MapMatchesQueue
  <2>3. ASSUME NEW h \in H
        PROVE  \E i \in 1..(Len(queue) - n) : f[i] = h
    <3>1. PICK j \in (n + 1)..Len(queue) : h = queue[j].key
      OBVIOUS
    <3>2. j - n \in 1..(Len(queue) - n) /\ (j - n) + n = j
      BY <1>1
    <3> QED
      BY <3>1, <3>2, Zenon
  <2>4. f \in Injection(1..(Len(queue) - n), H)
    BY <2>1, <2>2, Zenon DEF Injection, IsInjective
  <2>5. f \in Surjection(1..(Len(queue) - n), H)
    BY <2>1, <2>3, Zenon DEF Surjection
  <2> QED
    BY <2>4, <2>5 DEF Bijection
<1>4. ExistsBijection(1..(Len(queue) - n), H)
  BY <1>3 DEF ExistsBijection
<1>5. Cardinality(H) = Len(queue) - n
  BY <1>1, <1>4, FS_CountingElements
<1> QED
  BY <1>2, <1>5, Zenon

(* A key swept by sweep_expired is past its window.                        *)
LEMMA SweptPastWindow ==
  ASSUME IInv, NEW n \in 0..Len(queue), Swept(n), NEW k \in SweptKeys(n), k \in Keys,
         seen[k] # Never, k \notin evicted \cup lost
  PROVE  now - seen[k] > Window(k)
<1>1. PICK i \in 1..n : k = queue[i].key
  BY DEF SweptKeys
<1>2. Len(queue) \in Nat /\ i \in 1..Len(queue)
  BY DEF IInv, TypeOK
<1>3. queue[i] \in Entries /\ queue[i].ts \in Nat
  BY <1>2, Popped DEF IInv, Entries
<1>4. now - queue[i].ts > TTL * Sub
  BY <1>1 DEF Swept, Expired
<1>5. now \in Nat /\ seen[k] \in Nat
  BY DEF IInv, TypeOK
<1>6. CASE k \in fresh
  <2>1. queue[i].ts = seen[k]
    BY <1>1, <1>2, <1>6 DEF IInv, EntryTimes
  <2> QED
    BY <1>4, <1>5, <1>6, <2>1, TicksType DEF Window
<1>7. CASE k \notin fresh
  <2>1. Secs(queue[i].ts) >= Secs(seen[k])
    BY <1>1, <1>2 DEF IInv, EntryTimes
  <2>2. queue[i].ts >= seen[k] - (Sub - 1)
    BY <1>3, <1>5, <2>1, ShortByASecond
  <2> QED
    BY <1>3, <1>4, <1>5, <1>7, <2>2, TicksType, SMTT(30) DEF Window
<1> QED
  BY <1>6, <1>7

(* A packet called a replay leaves the invariant true: only the sweep      *)
(* changed the cache.                                                      *)
LEMMA CheckReplayInv ==
  ASSUME IInv, NEW k \in Keys, CheckReplay(k)
  PROVE  IInv'
<1>1. PICK n \in 0..Len(queue) :
        /\ Swept(n)
        /\ map' = map \ SweptKeys(n)
        /\ queue' = SubSeq(queue, n + 1, Len(queue))
  BY DEF CheckReplay
<1>2. UNCHANGED <<now, phase, max_size, pending, buf, file, seen, fresh, evicted, lost>>
  BY DEF CheckReplay, writer, history
<1>3. TypeOK
  BY DEF IInv
<1>4. /\ Len(queue) \in Nat
      /\ queue' \in Seq(Entries)
      /\ Len(queue') = Len(queue) - n
      /\ \A i \in 1..Len(queue') : queue'[i] = queue[i + n] /\ i + n \in 1..Len(queue)
  BY <1>1, <1>3, Popped
<1>5. map' = {queue[i].key : i \in (n + 1)..Len(queue)}
  BY <1>1, HeldKeys, Zenon DEF IInv
<1>6. TypeOK'
  BY <1>1, <1>2, <1>3, <1>4 DEF TypeOK
<1>7. MapMatchesQueue'
  <2>1. map' = {queue'[i].key : i \in 1..Len(queue')}
    <3>1. ASSUME NEW i \in (n + 1)..Len(queue)
          PROVE  i - n \in 1..Len(queue') /\ queue'[i - n] = queue[i]
      BY <1>4
    <3>2. ASSUME NEW i \in 1..Len(queue')
          PROVE  queue'[i] = queue[i + n] /\ i + n \in (n + 1)..Len(queue)
      BY <1>4
    <3>3. map' \subseteq {queue'[i].key : i \in 1..Len(queue')}
      BY <1>5, <3>1, Zenon
    <3>4. {queue'[i].key : i \in 1..Len(queue')} \subseteq map'
      BY <1>5, <3>2
    <3> QED
      BY <3>3, <3>4
  <2> QED
    BY <1>4, <2>1 DEF IInv, MapMatchesQueue
<1>8. Bounded'
  <2>1. Cap \in Nat
    BY <1>3, SizesAssumption DEF Cap, TypeOK
  <2> QED
    BY <1>2, <1>4, <2>1 DEF IInv, Bounded, Cap
<1>9. QueueInOrder'
  <2>1. \A i, j \in 1..Len(queue') : i <= j => i + n <= j + n
    BY <1>4
  <2> QED
    BY <1>2, <1>4, <2>1, SMTT(30) DEF IInv, QueueInOrder
<1>10. EntryTimes'
  BY <1>2, <1>4, SMTT(30) DEF IInv, EntryTimes, Secs
<1>11. Remembered'
  <2> SUFFICES ASSUME NEW j \in Keys, phase # "down", seen[j] # Never,
                      j \notin evicted \cup lost, now - seen[j] <= Window(j)
               PROVE  j \in map'
    BY <1>2 DEF Remembered, Window
  <2>1. j \in map
    BY DEF IInv, Remembered
  <2>2. now \in Nat /\ seen[j] \in Nat /\ Window(j) \in Int
    BY <1>3, TicksType DEF TypeOK, Window
  <2>3. j \notin SweptKeys(n)
    BY <1>1, <2>2, SweptPastWindow
  <2> QED
    BY <1>1, <2>1, <2>3
<1>12. FileAccounts'
  BY <1>2 DEF IInv, FileAccounts, Accounts, Secs
<1>13. SeenInThePast'
  BY <1>2 DEF IInv, SeenInThePast
<1> QED
  BY <1>6, <1>7, <1>8, <1>9, <1>10, <1>11, <1>12, <1>13 DEF IInv

(* A packet accepted as fresh leaves the invariant true: the key goes to   *)
(* the back of the queue, and a key popped to make room counts as evicted. *)
LEMMA CheckFreshInv ==
  ASSUME IInv, NEW k \in Keys, CheckFresh(k)
  PROVE  IInv'
<1> DEFINE held(n) == map \ SweptKeys(n)
           full(n) == Full(held(n), n)
           victim(n) == IF full(n) THEN {queue[n + 1].key} ELSE {}
           pops(n) == IF full(n) THEN n + 1 ELSE n
<1>1. PICK n \in 0..Len(queue) :
        /\ Swept(n)
        /\ k \notin held(n)
        /\ map' = (held(n) \ victim(n)) \cup {k}
        /\ queue' = Append(SubSeq(queue, pops(n) + 1, Len(queue)), [key |-> k, ts |-> now])
        /\ evicted' = (evicted \cup victim(n)) \ {k}
  BY Zenon DEF CheckFresh
<1>2. /\ UNCHANGED <<now, phase, max_size, pending, buf, file>>
      /\ seen' = [seen EXCEPT ![k] = now]
      /\ fresh' = fresh \cup {k}
      /\ lost' = lost \ {k}
  BY DEF CheckFresh, writer
<1>3. TypeOK /\ now \in Nat
  BY DEF IInv, TypeOK
<1> DEFINE m == pops(n)
           rest == SubSeq(queue, m + 1, Len(queue))
           new == [key |-> k, ts |-> now]
<1>4. /\ m \in 0..Len(queue) /\ Len(queue) \in Nat /\ n \in Nat /\ n <= m
      /\ full(n) => m = n + 1 /\ victim(n) = {queue[n + 1].key} /\ n < Len(queue)
      /\ ~full(n) => m = n /\ victim(n) = {}
      /\ queue' = Append(rest, new)
  <2>1. Len(queue) \in Nat /\ n \in Nat
    BY <1>3 DEF TypeOK
  <2>2. queue' = Append(rest, new)
    BY <1>1
  <2>3. full(n) => m = n + 1 /\ victim(n) = {queue[n + 1].key} /\ n < Len(queue)
    BY Zenon DEF Full
  <2>4. ~full(n) => m = n /\ victim(n) = {}
    BY Zenon
  <2> HIDE DEF full, m, victim
  <2>5. m \in 0..Len(queue) /\ n <= m
    BY <2>1, <2>3, <2>4
  <2> QED
    BY <2>1, <2>2, <2>3, <2>4, <2>5
<1>x. /\ full(n) <=> Cardinality(held(n)) >= max_size /\ n < Len(queue)
      /\ k \notin held(n) /\ map' = (held(n) \ victim(n)) \cup {k} /\ evicted' = (evicted \cup victim(n)) \ {k}
  BY <1>1 DEF Full
<1> HIDE DEF m, victim, pops, full
<1>5. /\ rest \in Seq(Entries)
      /\ Len(rest) = Len(queue) - m
      /\ \A i \in 1..(Len(queue) - m) : rest[i] = queue[i + m] /\ i + m \in 1..Len(queue)
  <2>1. Len(queue) \in Nat /\ m \in Nat
    BY <1>4
  <2>2. \A i \in 1..(Len(queue) - m) : i + m \in 1..Len(queue)
    BY <2>1
  <2> QED
    BY <1>3, <1>4, <2>2, Popped, SMTT(30)
<1>6. new \in Entries
  BY <1>3 DEF Entries
<1>7. /\ queue' \in Seq(Entries)
      /\ Len(queue') = Len(queue) - m + 1
      /\ \A i \in 1..(Len(queue) - m) : queue'[i] = queue[i + m] /\ i + m \in 1..Len(queue)
      /\ queue'[Len(queue) - m + 1] = new
  BY <1>4, <1>5, <1>6, AppendProperties
<1>y. \A i \in 1..Len(queue') : i \in 1..(Len(queue) - m) \/ i = Len(queue) - m + 1
  <2>1. Len(queue') = Len(queue) - m + 1 /\ Len(queue) - m \in Nat
    BY <1>4, <1>7
  <2> QED
    BY <2>1
<1>8. held(n) = {queue[i].key : i \in (n + 1)..Len(queue)} /\ Cardinality(held(n)) = Len(queue) - n
  BY HeldKeys, Zenon DEF IInv
<1>9. held(n) \ victim(n) = {queue[i].key : i \in (m + 1)..Len(queue)}
  <2>1. CASE full(n)
    <3>1. m = n + 1 /\ victim(n) = {queue[n + 1].key} /\ n + 1 \in 1..Len(queue)
      BY <1>4, <2>1
    <3>2. \A i \in (m + 1)..Len(queue) : queue[i].key # queue[n + 1].key
      BY <1>4, <3>1 DEF IInv, MapMatchesQueue
    <3>3. (n + 1)..Len(queue) = {n + 1} \cup ((m + 1)..Len(queue))
      BY <1>4, <3>1
    <3> QED
      BY <1>8, <3>1, <3>2, <3>3
  <2>2. CASE ~full(n)
    <3>1. m = n /\ victim(n) = {}
      BY <1>4, <2>2
    <3> QED
      BY <1>8, <3>1
  <2> QED
    BY <2>1, <2>2
<1>10. victim(n) \subseteq Keys
  <2>1. \A i \in 1..Len(queue) : queue[i].key \in Keys
    BY <1>3, Popped DEF Entries
  <2> QED
    BY <1>4, <2>1
<1>11. Len(queue) - m + 1 <= Cap
  <2>1. max_size \in Nat /\ Len(queue) <= Cap
    BY <1>3, SizesAssumption DEF IInv, Bounded, TypeOK
  <2>2. CASE full(n)
    BY <1>4, <2>1, <2>2 DEF Cap
  <2>3. CASE ~full(n)
    BY <1>4, <1>8, <1>x, <2>1, <2>3 DEF Cap
  <2> QED
    BY <2>2, <2>3
<1> HIDE DEF held, rest
<1>12. TypeOK'
  <2>1. map' \subseteq Keys /\ evicted' \subseteq Keys /\ fresh' \subseteq Keys /\ lost' \subseteq Keys
    BY <1>1, <1>2, <1>3, <1>10 DEF TypeOK, held
  <2>2. seen' \in [Keys -> Nat \cup {Never}]
    BY <1>2, <1>3 DEF TypeOK
  <2> QED
    BY <1>2, <1>3, <1>7, <2>1, <2>2 DEF TypeOK
<1>13. MapMatchesQueue'
  <2>1. ASSUME NEW i \in (m + 1)..Len(queue)
        PROVE  i - m \in 1..(Len(queue) - m) /\ queue'[i - m] = queue[i]
    BY <1>4, <1>7
  <2>2. {queue[i].key : i \in (m + 1)..Len(queue)} = {queue'[i].key : i \in 1..(Len(queue) - m)}
    <3>1. ASSUME NEW i \in 1..(Len(queue) - m)
          PROVE  queue'[i] = queue[i + m] /\ i + m \in (m + 1)..Len(queue)
      BY <1>4, <1>7
    <3> QED
      BY <2>1, <3>1
  <2>3. map' = {queue'[i].key : i \in 1..Len(queue')}
    <3>1. \A i \in 1..Len(queue') : i \in 1..(Len(queue) - m) \/ i = Len(queue')
      BY <1>4, <1>7
    <3>2. Len(queue') \in 1..Len(queue') /\ 1..(Len(queue) - m) \subseteq 1..Len(queue')
      BY <1>4, <1>7
    <3> QED
      <4>1. map' = {queue'[i].key : i \in 1..(Len(queue) - m)} \cup {queue'[Len(queue')].key}
        BY <1>x, <1>7, <1>9, <2>2
      <4> QED
        BY <3>1, <3>2, <4>1
  <2>4. ASSUME NEW i \in 1..(Len(queue) - m) PROVE queue'[i].key # k
    BY <1>x, <1>9, <2>2, Zenon
  <2>5. ASSUME NEW i \in 1..Len(queue'), NEW j \in 1..Len(queue'), queue'[i].key = queue'[j].key
        PROVE  i = j
    <3>1. CASE i \in 1..(Len(queue) - m) /\ j \in 1..(Len(queue) - m)
      <4>1. queue[i + m].key = queue[j + m].key /\ i + m \in 1..Len(queue) /\ j + m \in 1..Len(queue)
        BY <1>7, <2>5, <3>1
      <4>2. i + m = j + m
        BY <4>1 DEF IInv, MapMatchesQueue
      <4> QED
        BY <1>4, <4>2
    <3>2. CASE i = Len(queue') \/ j = Len(queue')
      BY <1>4, <1>7, <2>4, <2>5, <3>2, SMTT(30)
    <3> QED
      BY <1>4, <1>7, <3>1, <3>2
  <2> QED
    BY <2>3, <2>5 DEF MapMatchesQueue
<1>14. Bounded'
  BY <1>2, <1>7, <1>11 DEF Bounded, Cap
<1>15. QueueInOrder'
  <2>1. ASSUME NEW i \in 1..Len(queue') PROVE queue'[i].ts <= now /\ queue'[i].ts \in Nat
    <3>1. \A j \in 1..Len(queue) : queue[j].ts <= now /\ queue[j].ts \in Nat
      BY <1>3, Popped DEF IInv, QueueInOrder, Entries
    <3>2. CASE i \in 1..(Len(queue) - m)
      <4>1. queue'[i] = queue[i + m] /\ i + m \in 1..Len(queue)
        BY <1>7, <3>2
      <4> QED
        BY <3>1, <4>1
    <3>3. CASE i = Len(queue) - m + 1
      BY <1>3, <1>7, <3>3
    <3> QED
      BY <1>y, <3>2, <3>3
  <2>2. ASSUME NEW i \in 1..Len(queue'), NEW j \in 1..Len(queue'), i <= j
        PROVE  queue'[i].ts <= queue'[j].ts
    <3>1. CASE j = Len(queue) - m + 1
      <4>1. queue'[j].ts = now
        BY <1>7, <3>1
      <4> QED
        BY <2>1, <4>1
    <3>2. CASE j \in 1..(Len(queue) - m)
      <4>1. i \in 1..(Len(queue) - m) /\ i + m <= j + m
        BY <1>4, <2>2, <3>2
      <4> QED
        BY <1>7, <3>2, <4>1 DEF IInv, QueueInOrder
    <3> QED
      BY <1>y, <3>1, <3>2
  <2> QED
    BY <1>2, <2>1, <2>2, SMTT(30) DEF QueueInOrder
<1>16. ASSUME NEW i \in 1..(Len(queue) - m) PROVE queue'[i].key # k
  <2>1. queue'[i] = queue[i + m] /\ i + m \in (m + 1)..Len(queue)
    BY <1>4, <1>7
  <2>2. queue[i + m].key \in held(n)
    BY <1>9, <2>1
  <2> QED
    BY <1>x, <2>1, <2>2
<1>17. EntryTimes'
  <2> SUFFICES ASSUME NEW i \in 1..Len(queue')
               PROVE  /\ seen'[queue'[i].key] # Never
                      /\ queue'[i].key \in fresh' => queue'[i].ts = seen'[queue'[i].key]
                      /\ queue'[i].key \notin lost' => Secs(queue'[i].ts) >= Secs(seen'[queue'[i].key])
    BY DEF EntryTimes, Secs
  <2>3. i \in 1..(Len(queue) - m) \/ i = Len(queue) - m + 1
    BY <1>y
  <2>1. CASE i \in 1..(Len(queue) - m)
    <3>1. queue'[i] = queue[i + m] /\ i + m \in 1..Len(queue) /\ queue'[i].key # k
      BY <1>7, <1>16, <2>1
    <3>2. queue[i + m].key \in Keys
      BY <1>3, <3>1, Popped DEF Entries
    <3>3. seen'[queue[i + m].key] = seen[queue[i + m].key]
      BY <1>2, <1>3, <3>1, <3>2 DEF TypeOK
    <3> QED
      BY <1>2, <3>1, <3>3 DEF IInv, EntryTimes
  <2>2. CASE i = Len(queue) - m + 1
    <3>1. queue'[i] = new /\ seen'[k] = now
      BY <1>2, <1>3, <1>7, <2>2 DEF TypeOK
    <3>2. Secs(now) \in Nat
      BY <1>3, SecsBounds, Zenon
    <3>3. now # Never
      BY <1>3 DEF Never
    <3> QED
      BY <3>1, <3>2, <3>3
  <2> QED
    BY <2>1, <2>2, <2>3
<1>18. Remembered'
  <2> SUFFICES ASSUME NEW j \in Keys, phase' # "down", seen'[j] # Never,
                      j \notin evicted' \cup lost', now' - seen'[j] <= Window(j)'
               PROVE  j \in map'
    BY DEF Remembered
  <2>1. CASE j = k
    BY <1>1, <2>1
  <2>2. CASE j # k
    <3>1. seen'[j] = seen[j] /\ Window(j)' = Window(j)
      BY <1>2, <1>3, <2>2 DEF TypeOK, Window
    <3>2. j \notin evicted \cup lost /\ j \notin victim(n)
      BY <1>1, <1>2, <2>2
    <3>3. seen[j] # Never /\ now - seen[j] <= Window(j)
      BY <1>2, <3>1
    <3>4. j \in map
      BY <1>2, <3>2, <3>3 DEF IInv, Remembered
    <3>5. now \in Nat /\ seen[j] \in Nat /\ Window(j) \in Int
      BY <1>3, <3>3, TicksType, SMTT(30) DEF TypeOK, Window
    <3>6. j \notin SweptKeys(n)
      BY <1>1, <3>2, <3>3, <3>5, SweptPastWindow
    <3> QED
      BY <1>1, <3>2, <3>4, <3>6 DEF held
  <2> QED
    BY <2>1, <2>2
<1>19. FileAccounts'
  <2>1. \A j \in Keys : seen[j] # Never => seen'[j] # Never
    BY <1>2, <1>3 DEF TypeOK, Never
  <2>2. now' \in Nat /\ now' >= now
    BY <1>2, <1>3
  <2>3. Accounts(file)' /\ Accounts(buf)'
    BY <1>2, <1>3, <2>1, <2>2, AccountsKept DEF IInv, FileAccounts, TypeOK
  <2> QED
    BY <2>3 DEF FileAccounts
<1>20. SeenInThePast'
  BY <1>2, <1>3, SMTT(30) DEF IInv, SeenInThePast, TypeOK
<1> QED
  BY <1>12, <1>13, <1>14, <1>15, <1>17, <1>18, <1>19, <1>20 DEF IInv

-----------------------------------------------------------------------------
(* encode_into *)

(* The buffer encode_into returns accounts for every acceptance the relay  *)
(* remembers.                                                              *)
LEMMA EncodeAccounts ==
  ASSUME IInv, phase # "down"
  PROVE  Encode \in Buffers /\ Accounts(Encode)
<1> DEFINE live == {j \in 1..Len(queue) : ~Expired(queue[j])}
           rec(i) == [key |-> queue[i].key, ts |-> Secs(now) - Secs(now - queue[i].ts)]
           R == {rec(i) : i \in live}
           C == [k \in Keys |-> IF k \in evicted \cup lost THEN Never ELSE seen[k]]
<1>1. Encode = [recs |-> R, covers |-> C]
  BY DEF Encode
<1>2. Encode.recs = R /\ Encode.covers = C
  BY <1>1
<1>3. TypeOK /\ now \in Nat /\ Len(queue) \in Nat
  BY DEF IInv, TypeOK
<1>4. ASSUME NEW i \in 1..Len(queue)
      PROVE  /\ queue[i].key \in Keys /\ queue[i].ts \in Nat /\ queue[i].ts <= now
             /\ Secs(now) - Secs(now - queue[i].ts) \in Nat
             /\ Secs(now) - Secs(now - queue[i].ts) >= Secs(queue[i].ts)
             /\ Secs(now) - Secs(now - queue[i].ts) <= Secs(now)
  <2>1. queue[i].key \in Keys /\ queue[i].ts \in Nat
    BY <1>3, Popped DEF Entries
  <2>2. queue[i].ts <= now
    BY DEF IInv, QueueInOrder
  <2> QED
    BY <1>3, <2>1, <2>2, StoredSecond, Zenon
<1>5. Encode \in Buffers
  <2>1. R \subseteq Records
    BY <1>4 DEF Records
  <2>2. C \in [Keys -> Nat \cup {Never}]
    BY <1>3 DEF TypeOK
  <2> QED
    BY <1>1, <2>1, <2>2 DEF Buffers
<1>6. IsFiniteSet(R)
  <2>1. IsFiniteSet(live)
    <3>1. IsFiniteSet(1..Len(queue)) /\ live \in SUBSET (1..Len(queue))
      BY <1>3, FS_Interval, SMTT(30)
    <3> QED
      BY <3>1, FS_Subset
  <2> DEFINE f == [i \in live |-> rec(i)]
  <2>2. f \in Surjection(live, R)
    BY DEF Surjection
  <2> HIDE DEF f, live, R
  <2> QED
    BY <2>1, <2>2, FS_Surjection
<1>7. ASSUME NEW r \in R, NEW s \in R, r.key = s.key PROVE r = s
  <2>1. PICK i \in live : r = rec(i)
    OBVIOUS
  <2>2. PICK j \in live : s = rec(j)
    OBVIOUS
  <2>3. queue[i].key = queue[j].key
    BY <1>7, <2>1, <2>2, SMTT(30)
  <2>4. i = j
    BY <2>3, SMTT(30) DEF IInv, MapMatchesQueue
  <2> QED
    BY <2>1, <2>2, <2>4, SMTT(30)
<1>8. ASSUME NEW r \in R
      PROVE  /\ r.ts <= Secs(now)
             /\ seen[r.key] # Never
             /\ C[r.key] # Never => r.ts >= Secs(C[r.key])
  <2>1. PICK i \in live : r = rec(i)
    OBVIOUS
  <2>2. r.key = queue[i].key /\ r.ts = Secs(now) - Secs(now - queue[i].ts) /\ i \in 1..Len(queue)
    BY <2>1
  <2>3. seen[r.key] # Never /\ (r.key \notin lost => Secs(queue[i].ts) >= Secs(seen[r.key]))
    BY <2>2 DEF IInv, EntryTimes
  <2>4. r.key \in Keys /\ r.ts <= Secs(now) /\ r.ts >= Secs(queue[i].ts) /\ r.ts \in Nat
    BY <1>4, <2>2
  <2>5. ASSUME C[r.key] # Never PROVE r.ts >= Secs(C[r.key])
    <3>1. C[r.key] = seen[r.key] /\ r.key \notin lost
      BY <2>4, <2>5
    <3>2. seen[r.key] \in Nat
      BY <1>3, <2>3, <2>4 DEF TypeOK
    <3>3. Secs(seen[r.key]) \in Nat /\ Secs(queue[i].ts) \in Nat
      BY <1>4, <2>2, <3>2, SecsBounds, Zenon
    <3> QED
      BY <2>3, <2>4, <3>1, <3>3
  <2> QED
    BY <2>3, <2>4, <2>5
<1>9. ASSUME NEW k \in Keys, C[k] # Never
      PROVE  /\ C[k] <= now
             /\ \/ \E r \in R : r.key = k
                \/ now - C[k] > TTL * Sub - (Sub - 1)
  <2>1. C[k] = seen[k] /\ k \notin evicted \cup lost /\ seen[k] # Never
    BY <1>9
  <2>2. seen[k] \in Nat /\ seen[k] <= now
    BY <1>3, <2>1 DEF IInv, SeenInThePast, TypeOK
  <2>3. ASSUME now - seen[k] <= TTL * Sub - (Sub - 1)
        PROVE  \E r \in R : r.key = k
    <3>1. now - seen[k] <= Window(k)
      BY <1>3, <2>2, <2>3, TicksType DEF Window
    <3>2. k \in map
      BY <2>1, <3>1 DEF IInv, Remembered
    <3>3. PICK i \in 1..Len(queue) : queue[i].key = k
      BY <3>2 DEF IInv, MapMatchesQueue
    <3>4. Secs(queue[i].ts) >= Secs(seen[k])
      BY <2>1, <3>3 DEF IInv, EntryTimes
    <3>5. queue[i].ts >= seen[k] - (Sub - 1)
      BY <1>4, <2>2, <3>4, ShortByASecond
    <3>6. ~Expired(queue[i])
      BY <1>3, <1>4, <2>2, <2>3, <3>5, TicksType, SMTT(30) DEF Expired
    <3>7. i \in live /\ rec(i).key = k
      BY <3>3, <3>6
    <3> QED
      BY <3>7, Zenon
  <2> QED
    BY <1>3, <2>1, <2>2, <2>3, TicksType
<1> HIDE DEF R, C
<1> QED
  BY <1>2, <1>5, <1>6, <1>7, <1>8, <1>9 DEF Accounts

-----------------------------------------------------------------------------
(* restore_at *)

(* A start from the file leaves the invariant true: what the file covers   *)
(* and has not expired is back in the cache, or was skipped for capacity.  *)
LEMMA StartInv ==
  ASSUME IInv, Start
  PROVE  IInv'
<1> DEFINE N == Cardinality(FirstOfKey)
           skip == IF N > max_size' THEN N - max_size' ELSE 0
<1>1. PICK o \in Bijection(1..N, FirstOfKey) :
        /\ Sorted(o)
        /\ queue' = [i \in 1..(N - skip) |-> Restored(o[i + skip])]
        /\ map' = {o[i].key : i \in (skip + 1)..N}
        /\ evicted' = evicted \cup {o[i].key : i \in 1..skip}
  BY Zenon DEF Start
<1>2. /\ UNCHANGED <<now, pending, buf, file, seen>>
      /\ phase' = "up" /\ max_size' \in Sizes /\ max_size' \in Nat
      /\ fresh' = {}
      /\ lost' = lost \cup Uncovered
  BY SizesAssumption DEF Start, writer
<1>3. TypeOK /\ now \in Nat /\ Accounts(file) /\ file \in Buffers
  BY DEF IInv, TypeOK, FileAccounts
<1>4. file.recs \subseteq Records /\ file.covers \in [Keys -> Nat \cup {Never}]
  BY <1>3, SMTT(30) DEF Buffers
<1>5. FirstOfKey \subseteq Adopted /\ Adopted \subseteq file.recs
  BY DEF FirstOfKey, Adopted
<1>6. N \in Nat
  <2>1. IsFiniteSet(FirstOfKey)
    BY <1>3, <1>5, FS_Subset DEF Accounts
  <2> QED
    BY <2>1, FS_CardinalityType
<1>7. skip \in Nat /\ skip <= N /\ N - skip \in Nat /\ N - skip <= max_size'
  BY <1>2, <1>6
<1> HIDE DEF N, skip
<1>8. /\ o \in [1..N -> FirstOfKey]
      /\ \A i, j \in 1..N : o[i] = o[j] => i = j
      /\ \A r \in FirstOfKey : \E i \in 1..N : o[i] = r
  BY DEF Bijection, Injection, Surjection, IsInjective
<1>9. ASSUME NEW i \in 1..N
      PROVE  /\ o[i] \in file.recs /\ o[i].key \in Keys /\ o[i].ts \in Nat /\ o[i].ts <= Secs(now)
             /\ Restored(o[i]).key = o[i].key
             /\ Restored(o[i]).ts \in Nat
             /\ Restored(o[i]).ts <= now
             /\ Secs(Restored(o[i]).ts) = o[i].ts
  <2>1. o[i] \in file.recs /\ o[i] \in Records
    BY <1>4, <1>5, <1>8, SMTT(30)
  <2>2. o[i].key \in Keys /\ o[i].ts \in Nat /\ o[i].ts <= Secs(now)
    BY <1>3, <2>1 DEF Records, Accounts
  <2> QED
    BY <1>3, <2>1, <2>2, RestoredTime DEF Restored
<1>10. ASSUME NEW i \in 1..N, NEW j \in 1..N, o[i].key = o[j].key PROVE i = j
  <2>1. o[i] = o[j]
    BY <1>3, <1>9, <1>10, SMTT(30) DEF Accounts
  <2> QED
    BY <1>8, <2>1, SMTT(30)
<1>11. /\ Len(queue') = N - skip
       /\ \A i \in 1..Len(queue') : queue'[i] = Restored(o[i + skip]) /\ i + skip \in 1..N
       /\ queue' \in Seq(Entries)
  <2>1. \A i \in 1..(N - skip) : i + skip \in 1..N
    BY <1>6, <1>7
  <2>2. \A i \in 1..(N - skip) : Restored(o[i + skip]) \in Entries
    <3>1. ASSUME NEW i \in 1..(N - skip) PROVE Restored(o[i + skip]) \in Entries
      BY <1>9, <2>1 DEF Restored, Entries
    <3> QED
      BY <3>1
  <2>3. queue' \in [1..(N - skip) -> Entries]
    BY <1>1, <2>2
  <2>4. queue' \in Seq(Entries) /\ Len(queue') = N - skip
    BY <1>7, <2>3, SeqDef, LenProperties
  <2> QED
    BY <1>1, <2>1, <2>4, Zenon
<1>12. TypeOK'
  <2>1. map' \subseteq Keys
    BY <1>1, <1>6, <1>7, <1>9, SMTT(30)
  <2>2. evicted' \subseteq Keys
    BY <1>1, <1>3, <1>6, <1>7, <1>9 DEF TypeOK
  <2>3. fresh' \subseteq Keys /\ lost' \subseteq Keys
    BY <1>2, <1>3 DEF TypeOK, Uncovered
  <2> QED
    BY <1>2, <1>3, <1>11, <2>1, <2>2, <2>3 DEF TypeOK
<1>13. MapMatchesQueue'
  <2>1. ASSUME NEW i \in (skip + 1)..N
        PROVE  i - skip \in 1..Len(queue') /\ queue'[i - skip].key = o[i].key
    <3>1. i - skip \in 1..(N - skip) /\ (i - skip) + skip = i /\ i \in 1..N
      BY <1>6, <1>7
    <3> QED
      BY <1>9, <1>11, <3>1
  <2>2. ASSUME NEW i \in 1..Len(queue')
        PROVE  i + skip \in (skip + 1)..N /\ queue'[i].key = o[i + skip].key
    BY <1>6, <1>7, <1>9, <1>11
  <2>6. map' = {o[i].key : i \in (skip + 1)..N}
    BY <1>1
  <2>3. map' \subseteq {queue'[i].key : i \in 1..Len(queue')}
    BY <2>1, <2>6
  <2>4. {queue'[i].key : i \in 1..Len(queue')} \subseteq map'
    BY <2>2, <2>6
  <2>5. ASSUME NEW i \in 1..Len(queue'), NEW j \in 1..Len(queue'), queue'[i].key = queue'[j].key
        PROVE  i = j
    <3>1. i + skip = j + skip
      BY <1>10, <1>11, <2>2, <2>5
    <3> QED
      BY <1>7, <1>11, <3>1
  <2> QED
    BY <2>3, <2>4, <2>5, SMTT(30) DEF MapMatchesQueue
<1>14. Bounded'
  BY <1>2, <1>7, <1>11 DEF Bounded, Cap
<1>15. QueueInOrder'
  <2>1. ASSUME NEW i \in 1..Len(queue'), NEW j \in 1..Len(queue'), i <= j
        PROVE  queue'[i].ts <= queue'[j].ts
    <3>1. i + skip \in 1..N /\ j + skip \in 1..N /\ i + skip <= j + skip
      BY <1>7, <1>11, <2>1
    <3>2. o[i + skip].ts <= o[j + skip].ts
      BY <1>1, <1>8, <3>1, SMTT(30) DEF Sorted
    <3>3. Restored(o[i + skip]).ts <= Restored(o[j + skip]).ts
      BY <1>3, <1>9, <3>1, <3>2, RestoredOrder, Zenon DEF Restored
    <3> QED
      BY <1>11, <3>3
  <2>2. ASSUME NEW i \in 1..Len(queue') PROVE queue'[i].ts <= now'
    BY <1>2, <1>9, <1>11
  <2> QED
    BY <2>1, <2>2 DEF QueueInOrder
<1>16. EntryTimes'
  <2> SUFFICES ASSUME NEW i \in 1..Len(queue')
               PROVE  /\ seen'[queue'[i].key] # Never
                      /\ queue'[i].key \notin lost' => Secs(queue'[i].ts) >= Secs(seen'[queue'[i].key])
    BY <1>2 DEF EntryTimes, Secs
  <2> DEFINE r == o[i + skip]
  <2>1. r \in file.recs /\ queue'[i].key = r.key /\ Secs(queue'[i].ts) = r.ts /\ r.key \in Keys
    BY <1>9, <1>11
  <2>2. seen[r.key] # Never /\ (file.covers[r.key] # Never => r.ts >= Secs(file.covers[r.key]))
    BY <1>3, <2>1, SMTT(30) DEF Accounts
  <2>3. r.key \notin lost' => file.covers[r.key] = seen[r.key]
    BY <1>2, <2>1, <2>2, SMTT(30) DEF Uncovered
  <2> QED
    BY <1>2, <2>1, <2>2, <2>3
<1>17. Remembered'
  <2> SUFFICES ASSUME NEW k \in Keys, seen'[k] # Never, k \notin evicted' \cup lost',
                      now' - seen'[k] <= Window(k)'
               PROVE  k \in map'
    BY DEF Remembered
  <2>1. Window(k)' = TTL * Sub - (Sub - 1)
    BY <1>2 DEF Window
  <2>2. file.covers[k] = seen[k] /\ seen[k] \in Nat
    BY <1>2, <1>3, SMTT(30) DEF Uncovered, TypeOK
  <2>3. PICK r \in file.recs : r.key = k
    BY <1>2, <1>3, <2>1, <2>2, TicksType, SMTT(30) DEF Accounts, Never
  <2>4. r.ts \in Nat /\ r.ts >= Secs(seen[k]) /\ Secs(now) \in Nat
    BY <1>2, <1>3, <1>4, <2>2, <2>3, SecsBounds, Zenon DEF Accounts, Records, Never
  <2>5. r \in Adopted
    <3>1. Secs(now) - r.ts <= TTL
      <4>1. SUFFICES ASSUME r.ts + TTL + 1 <= Secs(now) PROVE FALSE
        BY <2>4, TTLAssumption
      <4> DEFINE b == Secs(seen[k])
      <4>2. b \in Nat /\ seen[k] < b * Sub + Sub /\ Secs(now) * Sub <= now
        BY <1>3, <2>2, SecsBounds
      <4>3. b + TTL + 1 <= Secs(now)
        BY <2>4, <4>1, <4>2, TTLAssumption
      <4> HIDE DEF b
      <4>4. (b + TTL + 1) * Sub <= Secs(now) * Sub
        BY <2>4, <4>2, <4>3, TTLAssumption, SubAssumption
      <4>5. (b + TTL + 1) * Sub = b * Sub + TTL * Sub + Sub
        BY <4>2, TTLAssumption, SubAssumption
      <4>6. now - seen[k] > TTL * Sub
        BY <1>3, <2>2, <2>4, <4>2, <4>4, <4>5, TTLAssumption, SubAssumption, SMTT(30)
      <4> QED
        BY <1>2, <1>3, <2>1, <2>2, <4>6, TicksType
    <3> QED
      BY <2>3, <3>1 DEF Adopted
  <2>6. r \in FirstOfKey
    BY <1>3, <1>5, <2>4, <2>5, SMTT(30) DEF FirstOfKey, Accounts
  <2>7. PICK i \in 1..N : o[i] = r
    BY <1>8, <2>6, SMTT(30)
  <2>8. i \notin 1..skip
    BY <1>1, <2>3, <2>7
  <2>9. i \in (skip + 1)..N
    BY <1>6, <1>7, <2>8, SMTT(30)
  <2> QED
    BY <1>1, <2>3, <2>7, <2>9
<1>18. FileAccounts' /\ SeenInThePast'
  BY <1>2 DEF IInv, FileAccounts, Accounts, Secs, SeenInThePast
<1> QED
  BY <1>12, <1>13, <1>14, <1>15, <1>16, <1>17, <1>18 DEF IInv

-----------------------------------------------------------------------------
(* The other steps *)

(* The writer's steps change the file and the buffer only.                 *)
LEMMA WriterInv ==
  ASSUME IInv,
         UNCHANGED <<now, cache, history>>,
         pending' \in BOOLEAN,
         phase' \in {"up", "exiting"}, phase # "down",
         buf' \in {buf, EmptyFile, Encode},
         file' \in {file, buf, Encode}
  PROVE  IInv'
<1>1. UNCHANGED <<now, max_size, map, queue, seen, fresh, evicted, lost>>
  BY DEF cache, history
<1>2. /\ Encode \in Buffers /\ Accounts(Encode)
      /\ buf \in Buffers /\ Accounts(buf)
      /\ file \in Buffers /\ Accounts(file)
  BY EncodeAccounts, SMTT(30) DEF IInv, TypeOK, FileAccounts
<1>3. EmptyFile \in Buffers /\ Accounts(EmptyFile)
  <2>1. IsFiniteSet({})
    BY FS_EmptySet
  <2> QED
    BY <2>1 DEF EmptyFile, Buffers, Accounts
<1>4. file' \in Buffers /\ buf' \in Buffers /\ Accounts(file') /\ Accounts(buf')
  BY <1>2, <1>3
<1>5. TypeOK'
  BY <1>1, <1>4, SMTT(30) DEF IInv, TypeOK
<1>6. FileAccounts'
  BY <1>1, <1>4, SMTT(30) DEF FileAccounts, Accounts, Secs
<1>7. MapMatchesQueue' /\ Bounded' /\ QueueInOrder' /\ EntryTimes' /\ SeenInThePast'
  BY <1>1 DEF IInv, MapMatchesQueue, Bounded, Cap, QueueInOrder, EntryTimes, SeenInThePast, Secs
<1>8. Remembered'
  BY <1>1 DEF IInv, Remembered, Window
<1> QED
  BY <1>5, <1>6, <1>7, <1>8 DEF IInv

(* Stopping empties the cache and keeps the file.                          *)
LEMMA StopInv ==
  ASSUME IInv,
         UNCHANGED <<now, max_size, file, history>>,
         phase' = "down", map' = {}, queue' = <<>>, pending' = FALSE, buf' = EmptyFile
  PROVE  IInv'
<1>1. UNCHANGED <<now, max_size, file, seen, fresh, evicted, lost>>
  BY SMTT(30) DEF history
<1>2. EmptyFile \in Buffers /\ Accounts(EmptyFile)
  <2>1. IsFiniteSet({})
    BY FS_EmptySet
  <2> QED
    BY <2>1 DEF EmptyFile, Buffers, Accounts
<1>3. queue' \in Seq(Entries) /\ Len(queue') = 0
  OBVIOUS
<1>4. pending' \in BOOLEAN
  BY Zenon
<1>5. TypeOK'
  BY <1>1, <1>2, <1>3, <1>4, SMTT(30) DEF IInv, TypeOK
<1>6. FileAccounts'
  BY <1>1, <1>2, SMTT(30) DEF IInv, FileAccounts, Accounts, Secs
<1>7. MapMatchesQueue' /\ QueueInOrder' /\ EntryTimes'
  BY <1>3 DEF MapMatchesQueue, QueueInOrder, EntryTimes
<1>8. Bounded'
  BY <1>1, <1>3, SizesAssumption DEF IInv, TypeOK, Bounded, Cap
<1>9. Remembered' /\ SeenInThePast'
  BY <1>1 DEF IInv, Remembered, SeenInThePast
<1> QED
  BY <1>5, <1>6, <1>7, <1>8, <1>9 DEF IInv

(* A start from a file that cannot be read: every acceptance is lost.      *)
LEMMA StartUnreadableInv ==
  ASSUME IInv, StartUnreadable
  PROVE  IInv'
<1>1. /\ UNCHANGED <<now, pending, buf, file, seen, evicted>>
      /\ phase' = "up" /\ max_size' \in Sizes
      /\ queue' = <<>> /\ map' = {} /\ fresh' = {}
      /\ lost' = {k \in Keys : seen[k] # Never}
  BY DEF StartUnreadable, writer
<1>2. queue' \in Seq(Entries) /\ Len(queue') = 0
  BY <1>1
<1>3. TypeOK'
  BY <1>1, <1>2 DEF IInv, TypeOK
<1>4. MapMatchesQueue' /\ QueueInOrder' /\ EntryTimes'
  BY <1>1, <1>2 DEF MapMatchesQueue, QueueInOrder, EntryTimes
<1>5. Bounded'
  BY <1>1, <1>2, SizesAssumption DEF Bounded, Cap
<1>6. Remembered' /\ SeenInThePast'
  BY <1>1, SMTT(30) DEF IInv, Remembered, SeenInThePast
<1>7. FileAccounts'
  BY <1>1 DEF IInv, FileAccounts, Accounts, Secs
<1> QED
  BY <1>3, <1>4, <1>5, <1>6, <1>7 DEF IInv

(* The passing of time.                                                    *)
LEMMA TickInv ==
  ASSUME IInv, Tick
  PROVE  IInv'
<1>1. /\ UNCHANGED <<phase, max_size, map, queue, pending, buf, file, seen, fresh, evicted, lost>>
      /\ now' = now + 1
  BY DEF Tick, cache, writer, history
<1>2. now \in Nat /\ now' \in Nat /\ now' >= now
  BY <1>1 DEF IInv, TypeOK
<1>3. TypeOK'
  BY <1>1, <1>2, SMTT(30) DEF IInv, TypeOK
<1>4. MapMatchesQueue' /\ Bounded' /\ EntryTimes'
  BY <1>1 DEF IInv, MapMatchesQueue, Bounded, Cap, EntryTimes, Secs
<1>5. QueueInOrder'
  <2>1. \A i \in 1..Len(queue) : queue[i].ts \in Nat
    BY Popped DEF IInv, TypeOK, Entries
  <2> QED
    BY <1>1, <1>2, <2>1 DEF IInv, QueueInOrder
<1>6. Remembered'
  <2> SUFFICES ASSUME NEW k \in Keys, phase # "down", seen[k] # Never,
                      k \notin evicted \cup lost, now' - seen[k] <= Window(k)
               PROVE  k \in map
    BY <1>1 DEF Remembered, Window
  <2>1. seen[k] \in Nat /\ Window(k) \in Int
    BY TicksType DEF IInv, TypeOK, Window
  <2>2. now - seen[k] <= Window(k)
    BY <1>1, <1>2, <2>1
  <2> QED
    BY <2>2 DEF IInv, Remembered
<1>7. FileAccounts'
  <2>1. Accounts(file)' /\ Accounts(buf)'
    BY <1>1, <1>2, AccountsKept DEF IInv, FileAccounts, TypeOK
  <2> QED
    BY <2>1 DEF FileAccounts
<1>8. SeenInThePast'
  <2>1. \A k \in Keys : seen[k] \in Int
    BY DEF IInv, TypeOK, Never
  <2> QED
    BY <1>1, <1>2, <2>1 DEF IInv, SeenInThePast
<1> QED
  BY <1>3, <1>4, <1>5, <1>6, <1>7, <1>8 DEF IInv

-----------------------------------------------------------------------------
(* Every step of the relay keeps the invariant.                            *)
LEMMA NextInv == IInv /\ [Next]_vars => IInv'
<1> SUFFICES ASSUME IInv, [Next]_vars PROVE IInv'
  OBVIOUS
<1>1. ASSUME NEW k \in Keys, CheckReplay(k) PROVE IInv'
  BY <1>1, CheckReplayInv
<1>2. ASSUME NEW k \in Keys, CheckFresh(k) PROVE IInv'
  BY <1>2, CheckFreshInv, SMTT(30)
<1>3. CASE PeriodicEncode
  <2>1. pending' \in BOOLEAN
    BY <1>3, Zenon DEF PeriodicEncode
  <2> QED
    BY <1>3, <2>1, WriterInv DEF PeriodicEncode, IInv, TypeOK
<1>4. CASE PeriodicWrite
  <2>1. pending' \in BOOLEAN
    BY <1>4, Zenon DEF PeriodicWrite
  <2> QED
    BY <1>4, <2>1, WriterInv DEF PeriodicWrite, IInv, TypeOK
<1>5. CASE PeriodicWriteFails
  <2>1. pending' \in BOOLEAN
    BY <1>5, Zenon DEF PeriodicWriteFails
  <2> QED
    BY <1>5, <2>1, WriterInv DEF PeriodicWriteFails, IInv, TypeOK
<1>6. CASE ShutdownSave
  <2>1. /\ UNCHANGED <<now, cache, history, pending, buf>>
        /\ phase = "up" /\ phase' = "exiting"
        /\ file' \in {file, buf, Encode}
    BY <1>6 DEF ShutdownSave, writer
  <2>2. pending' \in BOOLEAN
    BY <2>1 DEF IInv, TypeOK
  <2> QED
    BY <2>1, <2>2, WriterInv
<1>7. CASE Exit
  BY <1>7, StopInv, Zenon DEF Exit
<1>8. CASE Crash
  BY <1>8, StopInv, Zenon DEF Crash
<1>9. CASE Start
  BY <1>9, StartInv
<1>10. CASE StartUnreadable
  BY <1>10, StartUnreadableInv
<1>11. CASE Tick
  BY <1>11, TickInv
<1>12. CASE UNCHANGED vars
  <2>1. UNCHANGED <<now, phase, max_size, map, queue, pending, buf, file>>
    BY <1>12 DEF vars, cache, writer
  <2>2. UNCHANGED <<seen, fresh, evicted, lost>>
    BY <1>12 DEF vars, history
  <2>3. TypeOK'
    BY <2>1, <2>2 DEF IInv, TypeOK
  <2>4. MapMatchesQueue' /\ Bounded' /\ QueueInOrder'
    BY <2>1, SMTT(30) DEF IInv, MapMatchesQueue, Bounded, Cap, QueueInOrder
  <2>5. EntryTimes'
    BY <2>1, <2>2 DEF IInv, EntryTimes, Secs
  <2>6. Remembered'
    BY <2>1, <2>2, SMTT(30) DEF IInv, Remembered, Window
  <2>7. FileAccounts'
    BY <2>1, <2>2 DEF IInv, FileAccounts, Accounts, Secs
  <2>8. SeenInThePast'
    BY <2>1, <2>2 DEF IInv, SeenInThePast
  <2> QED
    BY <2>3, <2>4, <2>5, <2>6, <2>7, <2>8 DEF IInv
<1> QED
  BY <1>1, <1>2, <1>3, <1>4, <1>5, <1>6, <1>7, <1>8, <1>9, <1>10, <1>11, <1>12, SMTT(30) DEF Next

(* The inductive invariant holds throughout.                               *)
THEOREM Invariance == Spec => []IInv
BY InitInv, NextInv, PTL DEF Spec

(* The types of the cache, of the writer and of the file are kept.         *)
THEOREM TypeCorrect == Spec => []TypeOK
<1>1. IInv => TypeOK
  BY DEF IInv
<1> QED
  BY <1>1, Invariance, PTL

(* map and queue of replay.rs agree, the queue is in order of time and the *)
(* cache never holds more than max_size keys.                              *)
THEOREM CacheConsistent == Spec => []Consistent
<1>1. IInv => Consistent
  BY DEF IInv, Consistent
<1> QED
  BY <1>1, Invariance, PTL

(* The replay window: whatever packets arrive, and through any number of   *)
(* restarts, a key accepted less than the TTL (less than a second under    *)
(* it, after a restart) ago is in the cache, unless it was evicted for     *)
(* capacity or its acceptance had not reached the file that was loaded.    *)
THEOREM WindowKept == Spec => []Remembered
<1>1. IInv => Remembered
  BY DEF IInv
<1> QED
  BY <1>1, Invariance, PTL

(* Saving and loading never make an entry older than its acceptance, and   *)
(* the file accounts for every acceptance it covers.                       *)
THEOREM FileFaithful == Spec => [](EntryTimes /\ FileAccounts)
<1>1. IInv => EntryTimes /\ FileAccounts
  BY DEF IInv
<1> QED
  BY <1>1, Invariance, PTL
=============================================================================
