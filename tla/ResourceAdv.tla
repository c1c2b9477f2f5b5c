---------------------------- MODULE ResourceAdv ---------------------------
(***************************************************************************)
(* Sizes and advertisements of resource.rs as operators.  An advertisement *)
(* travels as a map of eleven one-letter keys; `wire` is that map as the   *)
(* sequence of its <<key, value>> pairs, in wire order.  An integer is a   *)
(* number, a byte string is a record of its length and what it holds.      *)
(***************************************************************************)
EXTENDS PacketSizes, Integers, Sequences, FiniteSets, FiniteSetsExt, Functions

MAPHASH_LEN == 4
RANDOM_HASH_SIZE == 4
REQUEST_ID_MAX == 32
MAX_PARTS == 8

SDU == MTU - (HEADER_MAXSIZE + 1)
TRANSFER_MAX == MAX_PARTS * SDU
DATA_MAX == (TRANSFER_MAX - TOKEN_OVERHEAD) - 1 - RANDOM_HASH_SIZE

div_ceil(a, b) == (a + b - 1) \div b

\* Mutant: the block PKCS7 adds to a plaintext of whole blocks is forgotten.
TokenWithoutFullPad(pt_len) == 16 + div_ceil(pt_len, 16) * 16 + 32

\* The length the receiver expects of an encrypted plaintext.
token_len(pt_len) == 16 + (pt_len \div 16 + 1) * 16 + 32

\* The length the cipher produces: 1 to 16 bytes of padding, IV and HMAC.
TokenEncrypted(pt_len) == pt_len + (16 - (pt_len % 16)) + TOKEN_OVERHEAD

\* The number of parts of an encrypted blob, and the length of part i (from 0).
PartCount(total) == div_ceil(total, SDU)

expected_part_len(total, i) ==
    IF i + 1 = PartCount(total) THEN total - i * SDU ELSE SDU

---------------------------------------------------------------------------
\* Flag bits, low bit first.
FlagNames == <<"encrypted", "compressed", "split", "is_request", "is_response", "has_metadata">>

to_byte(flags) ==
    MapThenSumSet(LAMBDA k : 2 ^ (k - 1), {k \in DOMAIN FlagNames : FlagNames[k] \in flags})

from_byte(b) ==
    {FlagNames[k] : k \in {j \in DOMAIN FlagNames : (b \div 2 ^ (j - 1)) % 2 = 1}}

Bin(n, body) == [len |-> n, body |-> body]
Nil == [len |-> 0, body |-> "nil"]

\* Key order of pack.
Keys == <<"t", "d", "n", "h", "r", "o", "i", "l", "q", "f", "m">>

\* The eleven pairs an advertisement is encoded as.
pack(adv) ==
    LET value == [t |-> adv.transfer_size, d |-> adv.data_size, n |-> adv.num_parts,
                  h |-> Bin(32, adv.resource_hash),
                  r |-> Bin(RANDOM_HASH_SIZE, adv.random_hash),
                  o |-> Bin(32, adv.original_hash),
                  i |-> adv.segment_index, l |-> adv.total_segments,
                  q |-> IF adv.request_id.len = 0 THEN Nil ELSE adv.request_id,
                  f |-> to_byte(adv.flags),
                  m |-> Bin(MAPHASH_LEN * Len(adv.hashmap), adv.hashmap)]
    IN  [k \in 1 .. 11 |-> <<Keys[k], value[Keys[k]]>>]

\* What parse_bounded requires of the value of one key.
WellFormed(key, v) ==
    CASE key \in {"t", "d", "n", "i", "l"} -> v \in Nat
      [] key \in {"h", "o"}                -> v.len = 32
      [] key = "r"                         -> v.len = RANDOM_HASH_SIZE
      [] key = "q"                         -> v.len <= REQUEST_ID_MAX
      [] key = "f"                         -> v <= 255
      [] key = "m"                         -> v.len % MAPHASH_LEN = 0

\* The advertisements a map denotes: one, or none when it is rejected.  Keys
\* come in any order, each exactly once.
parse_bounded(wire) ==
    IF /\ Len(wire) = 11
       /\ {wire[k][1] : k \in 1 .. 11} = Range(Keys)
       /\ \A k \in 1 .. 11 : WellFormed(wire[k][1], wire[k][2])
      THEN LET v == [key \in Range(Keys) |-> wire[CHOOSE k \in 1 .. 11 : wire[k][1] = key][2]]
           IN  {[transfer_size |-> v["t"], data_size |-> v["d"], num_parts |-> v["n"],
                 resource_hash |-> v["h"].body, random_hash |-> v["r"].body,
                 original_hash |-> v["o"].body, segment_index |-> v["i"],
                 total_segments |-> v["l"],
                 request_id |-> IF v["q"].len = 0 THEN Nil ELSE v["q"],
                 flags |-> from_byte(v["f"]), hashmap_len |-> v["m"].len,
                 hashmap |-> v["m"].body]}
      ELSE {}

parse(wire) == {adv \in parse_bounded(wire) : adv.hashmap_len <= MAX_PARTS * MAPHASH_LEN}

\* The hash a host names when it refuses an advertisement it cannot admit.
rejection_hash(wire) == {adv.resource_hash : adv \in parse_bounded(wire)}

\* The request a response advertisement answers, admitted or not.
response_id(wire) ==
    {adv.request_id.body : adv \in {a \in parse_bounded(wire) :
        "is_response" \in a.flags /\ "is_request" \notin a.flags /\ a.request_id.len = 16}}

---------------------------------------------------------------------------
\* What a receiver admits: `expected` is the pending request's ID, or "none"
\* for an ordinary transfer.
validate_adv(adv, expected) ==
    /\ adv.flags \cap {"compressed", "has_metadata", "split"} = {}
    /\ adv.total_segments = 1 /\ adv.segment_index = 1
    /\ "is_request" \notin adv.flags
    /\ IF expected = "none"
         THEN "is_response" \notin adv.flags /\ adv.request_id.len = 0
         ELSE "is_response" \in adv.flags /\ adv.request_id = Bin(16, expected)
    /\ "encrypted" \in adv.flags
    /\ adv.transfer_size <= TRANSFER_MAX /\ adv.data_size <= DATA_MAX
    /\ adv.transfer_size >= TOKEN_OVERHEAD + 16
    /\ token_len(RANDOM_HASH_SIZE + adv.data_size) = adv.transfer_size
    /\ adv.num_parts = PartCount(adv.transfer_size)
    /\ adv.hashmap_len = adv.num_parts * MAPHASH_LEN

\* The advertisement a sender builds for a resource of this hash, size and map.
advertisement(hash, data_size, maps) ==
    LET total == TokenEncrypted(RANDOM_HASH_SIZE + data_size)
    IN  [transfer_size |-> total, data_size |-> data_size, num_parts |-> PartCount(total),
         resource_hash |-> hash, random_hash |-> hash, original_hash |-> hash,
         segment_index |-> 1, total_segments |-> 1, request_id |-> Nil,
         flags |-> {"encrypted"}, hashmap_len |-> MAPHASH_LEN * Len(maps), hashmap |-> maps]
===========================================================================
