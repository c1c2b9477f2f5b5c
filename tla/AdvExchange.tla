---------------------------- MODULE AdvExchange ---------------------------
(***************************************************************************)
(* One advertisement from a sender to a receiver: any payload size, keys   *)
(* in another order, and the forms another implementation may send for     *)
(* features this endpoint does not support.                                *)
(***************************************************************************)
EXTENDS ResourceAdv

CONSTANTS
    Sizes,      \* payload sizes the application asks to send
    Requests    \* IDs of requests, for response advertisements

VARIABLES
    size,       \* size of the payload
    wire,       \* the advertisement in transit, <<>> before it is built
    foreign,    \* whether its content is not this sender's
    admitted,   \* advertisements the receiver admitted, at most one
    refusal,    \* what the receiver can name in a refusal, at most one hash
    judged      \* what the receiver was waiting for when it judged it, or "not yet"

advVars == <<size, wire, foreign, admitted, refusal, judged>>

AdvInit ==
    /\ size \in Sizes
    /\ wire = <<>>
    /\ foreign = FALSE
    /\ admitted = {}
    /\ refusal = {}
    /\ judged = "not yet"

\* The hashmap holds one entry per part.
built ==
    LET parts == PartCount(TokenEncrypted(RANDOM_HASH_SIZE + size))
    IN  advertisement("hash", size, [i \in 1 .. parts |-> i])

\* build_into refuses what exceeds DATA_MAX; then the advertisement is packed.
Build ==
    /\ wire = <<>> /\ judged = "not yet"
    /\ size <= DATA_MAX
    /\ wire' = pack(built)
    /\ UNCHANGED <<size, foreign, admitted, refusal, judged>>

BuildTooLarge ==
    /\ wire = <<>> /\ judged = "not yet"
    /\ size > DATA_MAX
    /\ judged' = "refused"
    /\ UNCHANGED <<size, wire, foreign, admitted, refusal>>

\* A peer that encodes the same map with two neighbouring keys exchanged.
Reorder(k) ==
    /\ wire = pack(built) /\ judged = "not yet"
    /\ wire' = [wire EXCEPT ![k] = wire[k + 1], ![k + 1] = wire[k]]
    /\ UNCHANGED <<size, foreign, admitted, refusal, judged>>

\* Other values of a key: the next size, another part count, one more segment,
\* a request ID, flags of features not supported here, a longer hashmap.
Other(key, v) ==
    CASE key \in {"t", "d", "n", "i", "l"} -> {v + 1, v + 16}
      [] key = "q" -> {Bin(16, id) : id \in Requests}
      [] key = "f" -> {b \in 0 .. 63 : b # v}
      [] key = "m" -> {Bin(v.len + 4, v.body), Bin(36, v.body), Bin(v.len + 1, v.body)}
      [] OTHER     -> {Bin(v.len - 1, v.body)}

Alter(k) ==
    /\ wire # <<>> /\ judged = "not yet" /\ ~foreign
    /\ \E v \in Other(wire[k][1], wire[k][2]) : wire' = [wire EXCEPT ![k] = <<@[1], v>>]
    /\ foreign' = TRUE
    /\ UNCHANGED <<size, admitted, refusal, judged>>

\* The same transfer sent by a peer as the response to a request.
RespondWith(id) ==
    /\ wire = pack(built) /\ judged = "not yet"
    /\ wire' = pack([built EXCEPT !.flags = @ \cup {"is_response"}, !.request_id = Bin(16, id)])
    /\ foreign' = TRUE
    /\ UNCHANGED <<size, admitted, refusal, judged>>

\* A key sent twice in place of another.
Repeat(k) ==
    /\ wire # <<>> /\ judged = "not yet" /\ ~foreign
    /\ wire' = [wire EXCEPT ![k] = wire[k + 1]]
    /\ foreign' = TRUE
    /\ UNCHANGED <<size, admitted, refusal, judged>>

\* The receiver parses the map and admits an ordinary transfer or the response
\* to a request it has pending.
Receive(expected) ==
    /\ wire # <<>> /\ judged = "not yet"
    /\ admitted' = {adv \in parse(wire) : validate_adv(adv, expected)}
    /\ refusal' = IF admitted' # {} THEN {}
                  ELSE IF expected = "none" THEN rejection_hash(wire)
                  ELSE rejection_hash(wire) \cup response_id(wire)
    /\ judged' = expected
    /\ UNCHANGED <<size, wire, foreign>>

AdvNext ==
    \/ Build
    \/ BuildTooLarge
    \/ \E k \in 1 .. 10 : Reorder(k)
    \/ \E k \in 1 .. 11 : Alter(k)
    \/ \E k \in 1 .. 10 : Repeat(k)
    \/ \E id \in Requests : RespondWith(id)
    \/ \E expected \in Requests \cup {"none"} : Receive(expected)

AdvSpec == AdvInit /\ [][AdvNext]_advVars

---------------------------------------------------------------------------
\* Every payload the sender accepts has an advertisement the receiver admits as
\* it was built, whatever the order of its keys, or can refuse by name while it
\* waits for a response; and whatever the receiver of
\* resource.rs admits has parts that exactly tile a blob that fits its buffer,
\* each filling a packet except the last, and carries the payload it names.
AdmittedTransfersFit ==
    /\ \A adv \in admitted :
          LET total == adv.transfer_size
              n == adv.num_parts
          IN  /\ n \in 1 .. MAX_PARTS /\ total <= TRANSFER_MAX
              /\ MapThenSumSet(LAMBDA i : expected_part_len(total, i), 0 .. n - 1) = total
              /\ \A i \in 0 .. n - 1 : expected_part_len(total, i) \in 1 .. SDU
              /\ TokenEncrypted(RANDOM_HASH_SIZE + adv.data_size) = total
              /\ adv.hashmap_len = n * MAPHASH_LEN
    /\ judged = "none" /\ ~foreign => admitted = {built}
    /\ judged \in Requests /\ ~foreign => refusal = {"hash"}
===========================================================================
