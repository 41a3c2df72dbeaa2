---------------------------- MODULE ReplayCache ----------------------------
(***************************************************************************)
(* The replay cache of a relay and its file (crypto-gotham-relay/src/      *)
(* replay.rs), with everything that touches them: packet processing        *)
(* (process.rs), the periodic writer (transport.rs), the save on shutdown  *)
(* and the load at start (main.rs, process.rs).                            *)
(*                                                                         *)
(* A key is a packet's gamma.  Time is counted in ticks, Sub ticks to the  *)
(* second: an Instant keeps ticks, the file keeps whole seconds, so the    *)
(* rounding of encode_into and restore_at is part of the model.  The wall  *)
(* clock and the monotonic clock advance together.                         *)
(***************************************************************************)
EXTENDS Integers, Sequences, FiniteSets, Functions

CONSTANTS
  Keys,        \* the gammas packets carry
  Sub,         \* ticks in a second
  TTL,         \* --replay-ttl-secs, in seconds
  Sizes,       \* the values --replay-size may take from one start to the next
  MaxNow,      \* bound: the clock stops here
  MayCrash,    \* the process may die without its shutdown save
  IoMayFail    \* writing or reading the file may fail

ASSUME SubAssumption == Sub \in Nat \ {0}
ASSUME TTLAssumption == TTL \in Nat
ASSUME SizesAssumption == Sizes \subseteq Nat /\ Sizes # {}
ASSUME MaxNowAssumption == MaxNow \in Nat
ASSUME FlagAssumption == MayCrash \in BOOLEAN /\ IoMayFail \in BOOLEAN

VARIABLES
  now,       \* the clock, in ticks
  phase,     \* "up"; "exiting": the shutdown save is done, tasks still run; "down"
  max_size,  \* ReplayCache::max_size
  map,       \* the keys of ReplayCache::map (its values are never read)
  queue,     \* ReplayCache::queue: [key, ts], oldest first
  pending,   \* the periodic writer holds an encoded buffer it has not renamed yet
  buf,       \* that buffer (EmptyFile when there is none)
  file,      \* the contents of replay.bin
  (* History, read by no action of the program: *)
  seen,      \* when a key was last accepted as Fresh
  fresh,     \* the keys accepted since the last start
  evicted,   \* the keys dropped for capacity since they were last accepted
  lost       \* the keys whose last acceptance was not in the file a start loaded

cache == <<max_size, map, queue>>
writer == <<pending, buf>>
history == <<seen, fresh, evicted, lost>>
vars == <<now, phase, cache, writer, file, history>>

-----------------------------------------------------------------------------
Never == -1
Secs(t) == t \div Sub
Cap == IF max_size = 0 THEN 1 ELSE max_size

Entries == [key : Keys, ts : Nat]
Records == [key : Keys, ts : Nat]

(* A buffer holds the records and, as history, the acceptances that were   *)
(* remembered when it was encoded.                                         *)
Buffers == [recs : SUBSET Records, covers : [Keys -> Nat \cup {Never}]]
EmptyFile == [recs |-> {}, covers |-> [k \in Keys |-> Never]]

ExpiredEarly(e) == now - e.ts >= TTL * Sub  \* mutant: off by one
Expired(e) == now - e.ts > TTL * Sub

(* sweep_expired pops the front of the queue n times: every popped entry   *)
(* has expired, the one that is then in front has not.                     *)
Swept(n) ==
  /\ \A i \in 1..n : Expired(queue[i])
  /\ n < Len(queue) => ~Expired(queue[n + 1])
SweptKeysLate(n) == {queue[i].key : i \in 2..n}  \* mutant: the first stays in the map
SweptKeys(n) == {queue[i].key : i \in 1..n}

(* check_and_insert_at on a key that is still in the map: the sweep is     *)
(* kept, nothing else changes.                                             *)
CheckReplay(k) ==
  /\ phase # "down"
  /\ \E n \in 0..Len(queue) :
       /\ Swept(n)
       /\ k \in map \ SweptKeys(n)
       /\ map' = map \ SweptKeys(n)
       /\ queue' = SubSeq(queue, n + 1, Len(queue))
  /\ UNCHANGED <<now, phase, max_size, writer, file, history>>

Full(held, n) == Cardinality(held) >= max_size /\ n < Len(queue)

(* check_and_insert_at on a key the map does not hold: one more entry is   *)
(* popped when the map is at max_size, then the key is pushed.             *)
CheckFresh(k) ==
  /\ phase # "down"
  /\ \E n \in 0..Len(queue) :
       LET held == map \ SweptKeys(n)
           full == Full(held, n)
           m == IF full THEN n + 1 ELSE n
           victim == IF full THEN {queue[n + 1].key} ELSE {}
       IN /\ Swept(n)
          /\ k \notin held
          /\ map' = (held \ victim) \cup {k}
          /\ queue' = Append(SubSeq(queue, m + 1, Len(queue)), [key |-> k, ts |-> now])
          /\ evicted' = (evicted \cup victim) \ {k}
  /\ seen' = [seen EXCEPT ![k] = now]
  /\ fresh' = fresh \cup {k}
  /\ lost' = lost \ {k}
  /\ UNCHANGED <<now, phase, max_size, writer, file>>

-----------------------------------------------------------------------------
(* Mutant: the oldest entry is left out.                                   *)
EncodeTail ==
  [recs |-> {[key |-> queue[i].key, ts |-> Secs(now) - Secs(now - queue[i].ts)] :
               i \in {j \in 2..Len(queue) : ~Expired(queue[j])}},
   covers |-> [k \in Keys |-> IF k \in evicted \cup lost THEN Never ELSE seen[k]]]

(* encode_into: the entries not yet expired, each with the second it was   *)
(* seen, computed back from the wall clock and the whole seconds elapsed.  *)
Encode ==
  [recs |-> {[key |-> queue[i].key, ts |-> Secs(now) - Secs(now - queue[i].ts)] :
               i \in {j \in 1..Len(queue) : ~Expired(queue[j])}},
   covers |-> [k \in Keys |-> IF k \in evicted \cup lost THEN Never ELSE seen[k]]]

(* spawn_replay_persistence, under the relay lock: the next buffer is      *)
(* encoded once the previous write has been awaited.                       *)
PeriodicEncode ==
  /\ phase # "down"
  /\ ~pending
  /\ pending' = TRUE
  /\ buf' = Encode
  /\ UNCHANGED <<now, phase, cache, file, history>>

(* Mutant: the temporary file is never renamed.                            *)
WriteNoRename ==
  /\ phase # "down"
  /\ pending
  /\ pending' = FALSE
  /\ buf' = EmptyFile
  /\ UNCHANGED <<now, phase, cache, file, history>>

(* write_encoded in spawn_blocking, outside the relay lock: temporary      *)
(* file, fsync, rename.  The old file or the new one, never a torn one.    *)
PeriodicWrite ==
  /\ phase # "down"
  /\ pending
  /\ pending' = FALSE
  /\ buf' = EmptyFile
  /\ file' = buf
  /\ UNCHANGED <<now, phase, cache, history>>

PeriodicWriteFails ==
  /\ IoMayFail
  /\ phase # "down"
  /\ pending
  /\ pending' = FALSE
  /\ buf' = EmptyFile
  /\ UNCHANGED <<now, phase, cache, file, history>>

(* The end of main: persist_replay encodes and writes with the relay lock  *)
(* held.  A failure is logged and ignored.  The spawned tasks are alive    *)
(* until the runtime is dropped.                                           *)
ShutdownSave ==
  /\ phase = "up"
  /\ phase' = "exiting"
  /\ \/ file' = Encode
     \/ IoMayFail /\ file' = file
  /\ UNCHANGED <<now, cache, writer, history>>

(* The runtime is dropped.  A blocking write that has started is waited    *)
(* for (PeriodicWrite comes first); one still queued is discarded.         *)
Exit ==
  /\ phase = "exiting"
  /\ phase' = "down"
  /\ map' = {}
  /\ queue' = <<>>
  /\ pending' = FALSE
  /\ buf' = EmptyFile
  /\ UNCHANGED <<now, max_size, file, history>>

Crash ==
  /\ MayCrash
  /\ phase # "down"
  /\ phase' = "down"
  /\ map' = {}
  /\ queue' = <<>>
  /\ pending' = FALSE
  /\ buf' = EmptyFile
  /\ UNCHANGED <<now, max_size, file, history>>

-----------------------------------------------------------------------------
(* restore_at on an empty cache.  Records older than the TTL are dropped,  *)
(* the rest sorted by time, only the first of a key kept, the oldest       *)
(* skipped when there are more than max_size.  Records of the same second  *)
(* may come in any order.                                                  *)
Adopted == {r \in file.recs : Secs(now) - r.ts <= TTL}
FirstOfKey == {r \in Adopted : \A s \in Adopted : s.key = r.key => r.ts <= s.ts}
Sorted(o) == \A i, j \in DOMAIN o : i <= j => o[i].ts <= o[j].ts
Restored(r) == [key |-> r.key, ts |-> now - (Secs(now) - r.ts) * Sub]
Uncovered == {k \in Keys : seen[k] # Never /\ file.covers[k] # seen[k]}

Start ==
  /\ phase = "down"
  /\ phase' = "up"
  /\ max_size' \in Sizes
  /\ \E o \in Bijection(1..Cardinality(FirstOfKey), FirstOfKey) :
       LET n == Cardinality(FirstOfKey)
           skip == IF n > max_size' THEN n - max_size' ELSE 0
       IN /\ Sorted(o)
          /\ queue' = [i \in 1..(n - skip) |-> Restored(o[i + skip])]
          /\ map' = {o[i].key : i \in (skip + 1)..n}
          /\ evicted' = evicted \cup {o[i].key : i \in 1..skip}
  /\ fresh' = {}
  /\ lost' = lost \cup Uncovered
  /\ UNCHANGED <<now, writer, file, seen>>

(* with_replay_persistence logs a file it cannot read and starts empty.    *)
StartUnreadable ==
  /\ IoMayFail
  /\ phase = "down"
  /\ phase' = "up"
  /\ max_size' \in Sizes
  /\ queue' = <<>>
  /\ map' = {}
  /\ fresh' = {}
  /\ lost' = {k \in Keys : seen[k] # Never}
  /\ UNCHANGED <<now, writer, file, seen, evicted>>

Tick ==
  /\ now < MaxNow
  /\ now' = now + 1
  /\ UNCHANGED <<phase, cache, writer, file, history>>

-----------------------------------------------------------------------------
Init ==
  /\ now = 0
  /\ phase = "up"
  /\ max_size \in Sizes
  /\ map = {}
  /\ queue = <<>>
  /\ pending = FALSE
  /\ buf = EmptyFile
  /\ file = EmptyFile
  /\ seen = [k \in Keys |-> Never]
  /\ fresh = {}
  /\ evicted = {}
  /\ lost = {}

Next ==
  \/ \E k \in Keys : CheckReplay(k) \/ CheckFresh(k)
  \/ PeriodicEncode
  \/ PeriodicWrite
  \/ PeriodicWriteFails
  \/ ShutdownSave
  \/ Exit
  \/ Crash
  \/ Start
  \/ StartUnreadable
  \/ Tick

Spec == Init /\ [][Next]_vars

(* The periodic writer is a task with a timer, its write a blocking task:  *)
(* the runtime runs both, and the disk does not fail for ever.             *)
FairSpec == Spec /\ WF_vars(PeriodicEncode) /\ SF_vars(PeriodicWrite)

-----------------------------------------------------------------------------
(* Every variable of the cache, the writer and the file keeps its type.    *)
TypeOK ==
  /\ now \in Nat
  /\ phase \in {"up", "exiting", "down"}
  /\ max_size \in Sizes
  /\ map \subseteq Keys
  /\ queue \in Seq(Entries)
  /\ pending \in BOOLEAN
  /\ buf \in Buffers
  /\ file \in Buffers
  /\ seen \in [Keys -> Nat \cup {Never}]
  /\ fresh \subseteq Keys
  /\ evicted \subseteq Keys
  /\ lost \subseteq Keys

(* map and queue, which check_and_insert_at, sweep_expired and restore_at  *)
(* change side by side, hold the same keys, each once.                     *)
MapMatchesQueue ==
  /\ map = {queue[i].key : i \in 1..Len(queue)}
  /\ \A i, j \in 1..Len(queue) : queue[i].key = queue[j].key => i = j

(* The cache never outgrows max_size (one entry when max_size is 0).       *)
Bounded == Len(queue) <= Cap

(* The queue is in order of time and holds nothing from the future, also   *)
(* after restored entries were put in front: sweep_expired, which stops at *)
(* the first live entry, leaves no expired entry behind it.                *)
QueueInOrder ==
  /\ \A i, j \in 1..Len(queue) : i <= j => queue[i].ts <= queue[j].ts
  /\ \A i \in 1..Len(queue) : queue[i].ts <= now

(* The cache is consistent, as every later lookup relies on.               *)
Consistent == MapMatchesQueue /\ QueueInOrder /\ Bounded

(* What the cache is for: a key accepted within the TTL is still held, so  *)
(* the next packet with it is a replay, unless it was evicted for capacity *)
(* or its acceptance was not in the file the relay was started from.  Over *)
(* any number of restarts the window of an entry is short of the TTL by    *)
(* less than one second, the file's resolution.                            *)
Window(k) == TTL * Sub - (IF k \in fresh THEN 0 ELSE Sub - 1)
Remembered ==
  phase # "down" =>
    \A k \in Keys :
      /\ seen[k] # Never
      /\ k \notin evicted \cup lost
      /\ now - seen[k] <= Window(k)
      => k \in map

(* An entry carries the time of its key's acceptance: exactly, if the key  *)
(* was accepted since the start; if it came through the file, at the same  *)
(* second or later, however many restarts ago: rounding in encode_into and *)
(* restore_at never makes an entry older than it is.                       *)
EntryTimes ==
  \A i \in 1..Len(queue) :
    LET k == queue[i].key IN
    /\ seen[k] # Never
    /\ k \in fresh => queue[i].ts = seen[k]
    /\ k \notin lost => Secs(queue[i].ts) >= Secs(seen[k])

(* The file, and a buffer on its way to it, account for every acceptance   *)
(* that was remembered when they were encoded: there is one record of the  *)
(* key, of that second or later, or the window has passed.                 *)
Accounts(f) ==
  /\ IsFiniteSet(f.recs)
  /\ \A r, s \in f.recs : r.key = s.key => r = s
  /\ \A r \in f.recs :
       /\ r.ts <= Secs(now)
       /\ seen[r.key] # Never
       /\ f.covers[r.key] # Never => r.ts >= Secs(f.covers[r.key])
  /\ \A k \in Keys :
       f.covers[k] # Never =>
         /\ f.covers[k] <= now
         /\ \/ \E r \in f.recs : r.key = k
            \/ now - f.covers[k] > TTL * Sub - (Sub - 1)
FileAccounts == Accounts(file) /\ Accounts(buf)

(* An acceptance reaches the disk: the periodic writer saves every key the *)
(* relay still remembers, or the relay stops first.                        *)
EventuallySaved ==
  \A k \in Keys :
    (phase = "up" /\ k \in fresh)
      ~> (file.covers[k] = seen[k] \/ k \in evicted \/ phase # "up")
=============================================================================
