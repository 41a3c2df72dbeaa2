------------------------------- MODULE Frames -------------------------------
(***************************************************************************)
(* Blobs on a Noise stream (crypto-gotham-relay/src/transport.rs): mailbox *)
(* requests and answers, rosters.  A blob goes out as a header, which      *)
(* holds its length, and chunks; nothing on the wire tells the two apart   *)
(* but their order.  The reader has a limit of its own, and the stream may *)
(* break at any message.  A blob is its length.                            *)
(***************************************************************************)
EXTENDS Integers, Sequences, SequencesExt

CONSTANTS
  NOISE_CHUNK,
  MAX_FRAME,     \* MAX_MAILBOX_FRAME, the writer's limit
  ReadCap,       \* max_frame: MAX_MAILBOX_FRAME or MAX_GOSSIP_FRAME
  HeaderLen,     \* 4
  Blobs,         \* lengths of the blobs to write
  MaxBlobs       \* bound: blobs on one stream

VARIABLES
  stream,     \* messages written and not yet read
  reading,    \* read_noise_blob_capped: total and out.len(), or Waiting for a header
  end,        \* "open"; "cut": nothing more arrives; "failed": the reader gave up
  wrote,      \* history: the blobs written
  got         \* history: the blobs returned

frameVars == <<stream, reading, end, wrote, got>>

Waiting == [total |-> -1, out |-> 0]

(* write_one_noise_msg; says is what the first bytes spell as a number.    *)
Message(len, says) == [len |-> len, says |-> says]

write_noise_blob(n) ==
  LET chunks == (n + NOISE_CHUNK - 1) \div NOISE_CHUNK IN
  <<Message(HeaderLen, n)>> \o
    [i \in 1..chunks |-> Message(IF i < chunks THEN NOISE_CHUNK ELSE n - (i - 1) * NOISE_CHUNK, 0)]

Write(n) ==
  /\ end = "open" /\ Len(wrote) < MaxBlobs /\ n <= MAX_FRAME
  /\ stream' = stream \o write_noise_blob(n)
  /\ wrote' = Append(wrote, n)
  /\ UNCHANGED <<reading, end, got>>

(* The connection breaks; some of the last messages never arrive.          *)
Cut ==
  /\ end = "open"
  /\ \E k \in 0..Len(stream) : stream' = SubSeq(stream, 1, k)
  /\ end' = "cut"
  /\ UNCHANGED <<reading, wrote, got>>

(* read_one_noise_msg refuses an empty message and one over the chunk.     *)
read_one_noise_msg(m) == m.len \in 1..NOISE_CHUNK

(* Mutant: a blob that fills its last chunk is refused.                    *)
read_below(r, m) ==
  IF r = Waiting THEN IF m.len = HeaderLen /\ m.says <= ReadCap THEN [total |-> m.says, out |-> 0] ELSE Waiting
  ELSE IF r.out + m.len >= r.total THEN Waiting ELSE [total |-> r.total, out |-> r.out + m.len]

(* The state of read_noise_blob_capped after message m; Waiting: an error. *)
read_noise_blob_capped(r, m) ==
  IF r = Waiting THEN IF m.len = HeaderLen /\ m.says <= ReadCap THEN [total |-> m.says, out |-> 0] ELSE Waiting
  ELSE IF r.out + m.len > r.total THEN Waiting ELSE [total |-> r.total, out |-> r.out + m.len]

(* One message is read; a blob that is complete is returned, an error ends *)
(* the connection.                                                         *)
ReadMessage ==
  /\ end \in {"open", "cut"} /\ stream # <<>>
  /\ stream' = Tail(stream)
  /\ LET r == read_noise_blob_capped(reading, Head(stream)) IN
     IF r = Waiting \/ ~read_one_noise_msg(Head(stream))
     THEN end' = "failed" /\ UNCHANGED <<reading, got>>
     ELSE /\ reading' = IF r.out = r.total THEN Waiting ELSE r
          /\ got' = IF r.out = r.total THEN Append(got, r.total) ELSE got
          /\ UNCHANGED end
  /\ UNCHANGED wrote

FramesInit == stream = <<>> /\ reading = Waiting /\ end = "open" /\ wrote = <<>> /\ got = <<>>
FramesNext == (\E n \in Blobs : Write(n)) \/ Cut \/ ReadMessage

-----------------------------------------------------------------------------
(* The reader returns whole blobs only, in the order they were written and *)
(* whatever their lengths, the empty one and exact multiples of a chunk    *)
(* included, and it fails for nothing but a blob over its own limit, which *)
(* the writer's larger one lets through; what it has when the stream ends  *)
(* is all that arrived (write_noise_blob, read_noise_blob_capped).         *)
BlobsWhole ==
  /\ IsPrefix(got, wrote)
  /\ end = "failed" => Len(got) < Len(wrote) /\ wrote[Len(got) + 1] > ReadCap
  /\ end # "failed" => \A i \in 1..Len(got) : got[i] <= ReadCap
  /\ end = "open" /\ stream = <<>> => got = wrote
=============================================================================
