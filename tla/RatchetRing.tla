---------------------------- MODULE RatchetRing ----------------------------
(***************************************************************************)
(* The ring of a destination's own ratchet keys (ratchet.rs), newest       *)
(* first, and the host that owns its durable copy: a rotation is prepared, *)
(* stored, committed and advertised, and the host may restart between any  *)
(* two steps. Keys are numbered in the order they are generated.           *)
(***************************************************************************)
EXTENDS RatchetAges, Sequences

CONSTANTS
    RingMax,        \* RATCHET_RING_MAX
    IntervalSecs,   \* RATCHET_INTERVAL_SECS
    MaxKeys,        \* bound: keys ever generated
    MaxTime         \* bound: the last real time

\* The third conjunct is the static assertion of the source.
ASSUME RingAssumption ==
    /\ {RingMax, IntervalSecs} \subseteq Nat \ {0}
    /\ {MaxKeys, MaxTime} \subseteq Nat
    /\ RingMax * IntervalSecs >= ExpirySecs

VARIABLES
    ring,           \* the live keys with their ages
    candidate,      \* the blob the host has prepared; NoBlob when it has none
    stored_ring,    \* the blob in durable storage
    time,           \* real time, which the wall clock shows where there is one
    boot,           \* when the present boot began
    created,        \* history: when each key was generated
    advertised      \* history: the keys that were announced and have not expired

ringVars == <<ring, candidate, stored_ring, time, boot, created, advertised>>

----------------------------------------------------------------------------
Entry(key, age) == [key |-> key, age |-> age]

\* A version 2 blob has an age per key, a version 1 blob the last rotation alone.
Blob2(entries) == [version |-> 2, last_rotation |-> 0, entries |-> entries]

NoBlob == Blob2(<<>>)

RingKeys(entries) == [i \in DOMAIN entries |-> entries[i].key]

KeySet(entries) == {entries[i].key : i \in DOMAIN entries}

\* What load_persisted makes of a blob; a legacy blob dates its newest key only.
load_persisted(blob) ==
    [i \in DOMAIN blob.entries |->
        Entry(blob.entries[i].key,
              IF blob.version = 2 THEN restored_age(blob.entries[i].age)
              ELSE IF i = 1 /\ blob.last_rotation # 0
                     THEN [kind |-> "Wall", secs |-> blob.last_rotation]
                     ELSE Unknown)]

needs_anchor(clock) == \E i \in DOMAIN ring : ~age_comparable(ring[i].age, clock)

rotation_due(clock) == age_elapsed_at_least(ring[1].age, clock, IntervalSecs)

\* There is room for a key, or the oldest has provably expired.
CanRotate(clock) ==
    Len(ring) < RingMax \/ age_expired(ring[Len(ring)].age, clock)

rotation_action(clock) ==
    IF ring = <<>> THEN "Rotate"
    ELSE IF rotation_due(clock) /\ CanRotate(clock) THEN "Rotate"
    ELSE IF needs_anchor(clock) THEN "PersistMetadata"
    ELSE IF rotation_due(clock) THEN "FullRingProtected"
    ELSE "Unchanged"

\* The live keys with their ages re-anchored where they cannot be compared.
Anchored(clock) ==
    [i \in DOMAIN ring |-> Entry(ring[i].key, effective_age(ring[i].age, clock))]

Shorter(a, b) == IF a <= b THEN a ELSE b

\* The rotated ring: the fresh key first, the oldest dropped where there is no room.
Rotated(fresh, clock) ==
    SubSeq(<<Entry(fresh, anchor(clock))>> \o Anchored(clock), 1,
           Shorter(Len(ring) + 1, RingMax))

\* Mutant: a full ring is expected to grow.
is_valid_candidate_uncapped(blob) ==
    LET keys == RingKeys(blob.entries) IN
    \/ ring = <<>> /\ Len(keys) = 1
    \/ ring # <<>> /\ keys = RingKeys(ring)
    \/ ring # <<>> /\ Len(keys) = Len(ring) + 1 /\ Tail(keys) = RingKeys(ring)

\* A candidate has the live keys, or one new key in front of those that still fit.
is_valid_candidate(blob) ==
    LET keys == RingKeys(blob.entries) IN
    \/ ring = <<>> /\ Len(keys) = 1
    \/ ring # <<>> /\ keys = RingKeys(ring)
    \/ /\ ring # <<>>
       /\ Len(keys) = Shorter(Len(ring) + 1, RingMax)
       /\ \A i \in 2 .. Len(keys) : keys[i] = ring[i - 1].key

----------------------------------------------------------------------------
\* Whether a key has really expired, whatever the ring believes.
Expired(key, at) == at - created[key] > ExpirySecs

\* A new destination, or one with a legacy blob of up to RingMax keys in storage.
RingInit ==
    /\ time = 1
    /\ boot = 1
    /\ \E n \in 0 .. RingMax, last_rotation \in {0, 1} :
         /\ created = [k \in 1 .. n |-> 1]
         /\ advertised = 1 .. n
         /\ stored_ring = IF n = 0 THEN NoBlob
                     ELSE [version |-> 1, last_rotation |-> last_rotation,
                           entries |-> [i \in 1 .. n |-> Entry(n + 1 - i, Unknown)]]
         /\ ring = load_persisted(stored_ring)
    /\ candidate = NoBlob

\* prepare_rotation_into: the live ring stays as it is. An earlier candidate is abandoned.
prepare_rotation ==
    /\ \E clock \in Clocks(time, boot) :
         \/ /\ rotation_action(clock) = "Rotate"
            /\ Len(created) < MaxKeys
            /\ candidate' = Blob2(Rotated(Len(created) + 1, clock))
            /\ created' = Append(created, time)
         \/ /\ rotation_action(clock) = "PersistMetadata"
            /\ candidate' = Blob2(Anchored(clock))
            /\ UNCHANGED created
    /\ UNCHANGED <<ring, stored_ring, time, boot, advertised>>

\* The host's durable write of the candidate, which happens entirely or not at all.
StoreCandidate ==
    /\ candidate # NoBlob
    /\ stored_ring' = candidate
    /\ UNCHANGED <<ring, candidate, time, boot, created, advertised>>

\* The host commits what it has stored; the ages are taken over as they are.
commit_prepared_blob ==
    /\ candidate # NoBlob
    /\ stored_ring = candidate
    /\ is_valid_candidate(candidate)
    /\ ring' = candidate.entries
    /\ candidate' = NoBlob
    /\ UNCHANGED <<stored_ring, time, boot, created, advertised>>

\* The host announces the current public key.
Advertise ==
    /\ ring # <<>>
    /\ advertised' = advertised \cup ({ring[1].key} \ {k \in DOMAIN created : Expired(k, time)})
    /\ UNCHANGED <<ring, candidate, stored_ring, time, boot, created>>

RingRestart ==
    /\ ring' = load_persisted(stored_ring)
    /\ candidate' = NoBlob
    /\ boot' = time
    /\ UNCHANGED <<stored_ring, time, created, advertised>>

Pass ==
    /\ time < MaxTime
    /\ time' = time + 1
    /\ advertised' = {k \in advertised : ~Expired(k, time + 1)}
    /\ UNCHANGED <<ring, candidate, stored_ring, boot, created>>

RingNext ==
    \/ prepare_rotation
    \/ StoreCandidate
    \/ commit_prepared_blob
    \/ Advertise
    \/ RingRestart
    \/ Pass

RingSpec == RingInit /\ [][RingNext]_ringVars

----------------------------------------------------------------------------
\* A key that was announced can decrypt until it has really expired: it is in the live ring,
\* and in storage should the host restart now, through any restarts, lost clocks and
\* abandoned rotations.
AdvertisedKeysAreKept ==
    \A k \in advertised :
        ~Expired(k, time) => k \in KeySet(ring) /\ k \in KeySet(stored_ring.entries)

\* The ring never claims that a key is older than it really is, under any clock it may be
\* judged by in this boot, live or restored.
AgesAreConservative ==
    \A entries \in {ring, load_persisted(stored_ring)}, clock \in Clocks(time, boot) :
        \A i \in DOMAIN entries :
            age_comparable(entries[i].age, clock) =>
                Elapsed(entries[i].age, clock) <= time - created[entries[i].key]

\* What the host prepared and stored is accepted when it commits it: preparation and
\* validation agree about every ring, full or not.
StoredCandidatesCommit ==
    candidate # NoBlob => is_valid_candidate(candidate)
=============================================================================
