------------------------------- MODULE Sphinx -------------------------------
(***************************************************************************)
(* Sphinx packets: crypto-gotham header.rs and the use it makes of Lioness,*)
(* in the symbolic model.  A string of the header is the set of the        *)
(* independent strings whose exclusive or it is.  Keys, streams and tags   *)
(* are free terms; a hop's keys are those of its relay and its alpha.      *)
(* Hops and slots count from 1.  Version, mode and delay are left out.     *)
(***************************************************************************)
EXTENDS Integers, Sequences

CONSTANT MAX_HOPS

ASSUME MaxHopsAssumption == MAX_HOPS \in Nat \ {0}

XOR(a, b) == (a \ b) \cup (b \ a)

Slots == 1..MAX_HOPS

Trailer == MAX_HOPS + 1

derive_hop_subkeys(relay, alpha) == <<relay, alpha>>

\* Each hop multiplies alpha by a scalar of its own keys.
blind_alpha(alpha, key) == Append(alpha, key[1])

header_stream(key) == {<<"k_header", key>>}

\* Mutant: the stream ends with beta, and the trailer stays as it is.
ShuffleBetaOnly(key, slot) == IF slot = Trailer THEN {} ELSE {<<"k_shuffle", key, slot>>}

shuffle_stream(key, slot) == {<<"k_shuffle", key, slot>>}

random_bytes(packet, slot) == {<<"random", packet, slot>>}

NoGamma == <<"zero">>

poly1305_tag(key, data) == <<"k_mac", key, data>>

\* RoutingRecord: the next relay, how to reach it, the tag it will check.
Record(next, via, last, gamma) == <<next, via, last, gamma>>

encode(rec) == {<<"record", rec>>}

\* Bytes that no sender wrote as a record decode to a record all the same.
decode(bytes) ==
    IF \E s \in bytes : bytes = {s} /\ s[1] = "record"
    THEN (CHOOSE s \in bytes : TRUE)[2]
    ELSE Record("garbage", FALSE, FALSE, NoGamma)

\* The tag of a slot covers that slot and all later ones.
mac_input_for_slot(hdr, i) ==
    <<hdr.hop_count, i, hdr.alpha, SubSeq(hdr.beta, i, MAX_HOPS), hdr.trailer>>

----------------------------------------------------------------------------
(* The sender                                                              *)

\* alphas[i] for the hops of a route.
alphas(packet, route) ==
    [i \in 1..Len(route) |-> <<packet>> \o SubSeq(route, 1, i - 1)]

sub_keys(packet, route) ==
    [i \in 1..Len(route) |-> derive_hop_subkeys(route[i], alphas(packet, route)[i])]

\* What the hops before hop i have added to a slot.
prefix(keys, i, slot) ==
    LET acc[j \in 0..Len(keys)] ==
            IF j = 0 THEN {} ELSE XOR(acc[j - 1], shuffle_stream(keys[j], slot))
    IN  acc[i - 1]

\* The header as hop i receives it, its tag aside.
Seen(keys, alpha, beta, trailer, i) ==
    [hop_count |-> Len(keys), hop_index |-> i, alpha |-> alpha,
     beta |-> [s \in Slots |-> XOR(beta[s], prefix(keys, i, s))],
     trailer |-> XOR(trailer, prefix(keys, i, Trailer))]

\* From the last hop to the first: write the record, then tag what hop i sees.
wrap_header(packet, route, records) ==
    LET keys == sub_keys(packet, route)
        n == Len(route)
        trailer == random_bytes(packet, Trailer)
        step[i \in 1..n + 1] ==
            IF i = n + 1
            THEN [beta |-> [s \in Slots |-> random_bytes(packet, s)], gamma |-> NoGamma]
            ELSE LET later == step[i + 1]
                     rec == [records[i] EXCEPT ![4] = later.gamma]
                     slot == XOR(XOR(encode(rec), header_stream(keys[i])),
                                 prefix(keys, i, i))
                     beta == [later.beta EXCEPT ![i] = slot]
                     seen == Seen(keys, alphas(packet, route)[i], beta, trailer, i)
                 IN  [beta |-> beta,
                      gamma |-> poly1305_tag(keys[i], mac_input_for_slot(seen, i))]
    IN  [hop_count |-> n, hop_index |-> 1, alpha |-> alphas(packet, route)[1],
         beta |-> step[1].beta, gamma |-> step[1].gamma, trailer |-> trailer]

----------------------------------------------------------------------------
(* A hop                                                                   *)

\* The header's own numbers make sense.
decode_header(hdr) == hdr.hop_count \in 1..MAX_HOPS /\ hdr.hop_index <= hdr.hop_count

TagHolds(hdr, key) ==
    hdr.gamma = poly1305_tag(key, mac_input_for_slot(hdr, hdr.hop_index))

\* Only called when the tag holds.
unwrap_header(hdr, key) ==
    LET i == hdr.hop_index
        rec == decode(XOR(hdr.beta[i], header_stream(key)))
    IN  [record |-> rec,
         next_header |->
            [hop_count |-> hdr.hop_count, hop_index |-> i + 1,
             alpha |-> blind_alpha(hdr.alpha, key),
             beta |-> [s \in Slots |-> XOR(hdr.beta[s], shuffle_stream(key, s))],
             gamma |-> rec[4],
             trailer |-> XOR(hdr.trailer, shuffle_stream(key, Trailer))]]

----------------------------------------------------------------------------
(* The payload region: a text under a sequence of encryptions and          *)
(* decryptions, the outermost last.                                        *)

Plain(text) == [text |-> text, ops |-> <<>>]

Apply(op, inverse, key, region) ==
    LET n == Len(region.ops)
    IN  IF n > 0 /\ region.ops[n] = <<inverse, key>>
        THEN [region EXCEPT !.ops = SubSeq(@, 1, n - 1)]
        ELSE [region EXCEPT !.ops = Append(@, <<op, key>>)]

encrypt(key, region) == Apply("encrypt", "decrypt", key, region)

decrypt(key, region) == Apply("decrypt", "encrypt", key, region)

\* Mutant: the layers go on in the order of the route.
EncryptForward(keys, region) ==
    LET done[i \in 0..Len(keys)] ==
            IF i = 0 THEN region ELSE encrypt(keys[i], done[i - 1])
    IN  done[Len(keys)]

\* for k in keys.iter().rev(): encrypt.
encrypt_all(keys, region) ==
    LET done[i \in 1..Len(keys) + 1] ==
            IF i = Len(keys) + 1 THEN region ELSE encrypt(keys[i], done[i + 1])
    IN  done[1]
=============================================================================
