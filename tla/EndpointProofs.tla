-------------------------- MODULE EndpointProofs ---------------------------
(*****************************************************************************)
(* The parts of an endpoint that outlive a restart or a peer: the ordering   *)
(* value of its announces, its ring of ratchet keys, the messages it has     *)
(* seen, and the handshake of its links.                                     *)
(*****************************************************************************)
EXTENDS AnnounceState, RatchetRing, SeenMessages, LinkHandshake, SequenceTheorems, TLAPS

\* The time every leaf may take that names no prover of its own.
USE SMTT(60)

----------------------------------------------------------------------------
(* The ordering value of announces                                           *)

\* The stored blob restores the value it was made from (serialize_into, deserialize).
LEMMA BlobRoundTrip ==
    ASSUME NEW v \in Values \cup {NoValue}
    PROVE  /\ deserialize(serialize_into(v)) = v
           /\ serialize_into(v) \in [has_last_value : BOOLEAN, last_value : Values]
           /\ ~serialize_into(v).has_last_value => serialize_into(v).last_value = 0
  <1> USE AnnounceAssumption DEF NoValue, Values
  <1>1. CASE v = NoValue
    <2>1. serialize_into(v) = [has_last_value |-> FALSE, last_value |-> 0]
      BY Zenon, <1>1 DEF serialize_into
    <2>2. deserialize(serialize_into(v)) = v
      BY <1>1, <2>1 DEF deserialize
    <2>3. serialize_into(v) \in [has_last_value : BOOLEAN, last_value : Values]
      BY <2>1
    <2> QED
      BY <2>1, <2>2, <2>3
  <1>2. CASE v # NoValue
    <2>1. serialize_into(v) = [has_last_value |-> TRUE, last_value |-> v]
      BY Zenon, <1>2 DEF serialize_into
    <2> QED
      BY <1>2, <2>1 DEF deserialize
  <1> QED
    BY <1>1, <1>2

\* Whatever blob is stored, the value restored from it fits the wire field.
LEMMA RestoredFits ==
    ASSUME AnnounceTypeOK
    PROVE  deserialize(stored) \in Values \cup {NoValue}
  BY DEF AnnounceTypeOK, deserialize

\* Together, the types and the order of emitted, live and stored values are inductive.
LEMMA AnnounceStep ==
    ASSUME AnnounceTypeOK, StoredBeforeUse, [AnnounceNext]_announceVars
    PROVE  AnnounceTypeOK' /\ StoredBeforeUse'
  <1> USE AnnounceAssumption DEF Values, NoValue
  <1>1. CASE prepare_next
    <2>1. /\ prepared' \in Values
          /\ live < prepared'
      BY <1>1 DEF prepare_next, WallCandidates, LogicalCandidates, AnnounceTypeOK
    <2> QED
      BY <1>1, <2>1 DEF prepare_next, AnnounceTypeOK, StoredBeforeUse, deserialize
  <1>2. CASE Store
    <2>1. prepared \in Values \cup {NoValue} /\ stored' = serialize_into(prepared)
      BY <1>2 DEF Store, AnnounceTypeOK
    <2>2. /\ deserialize(stored') = prepared
          /\ stored' \in [has_last_value : BOOLEAN, last_value : Values]
          /\ ~stored'.has_last_value => stored'.last_value = 0
      BY <2>1, BlobRoundTrip
    <2>3. AnnounceTypeOK'
      BY <1>2, <2>2 DEF Store, AnnounceTypeOK
    <2>4. live <= prepared
      BY <1>2 DEF Store, StoredBeforeUse, AnnounceTypeOK
    <2>5. deserialize(stored)' = prepared
      BY <2>2 DEF deserialize
    <2> QED
      BY <1>2, <2>3, <2>4, <2>5 DEF Store, StoredBeforeUse
  <1>3. CASE commit_prepared
    <2>1. deserialize(stored) = prepared
      BY <1>3, BlobRoundTrip DEF commit_prepared, AnnounceTypeOK
    <2> QED
      BY <1>3, <2>1 DEF commit_prepared, AnnounceTypeOK, StoredBeforeUse, deserialize
  <1>4. CASE Emit
    BY <1>4 DEF Emit, AnnounceTypeOK, StoredBeforeUse, deserialize
  <1>5. CASE Restart
    <2>1. AnnounceTypeOK'
      BY <1>5, RestoredFits DEF Restart, AnnounceTypeOK
    <2>2. emitted <= deserialize(stored)
      BY RestoredFits DEF AnnounceTypeOK, StoredBeforeUse
    <2>3. deserialize(stored)' = deserialize(stored)
      BY Zenon, <1>5 DEF Restart, deserialize
    <2> QED
      BY <1>5, <2>1, <2>2, <2>3, RestoredFits DEF Restart, StoredBeforeUse, AnnounceTypeOK
  <1>6. CASE UNCHANGED announceVars
    BY <1>6 DEF announceVars, AnnounceTypeOK, StoredBeforeUse, deserialize
  <1> QED
    BY <1>1, <1>2, <1>3, <1>4, <1>5, <1>6 DEF AnnounceNext

\* In every reachable state the stored value covers the live one, and that every value
\* emitted (prepare_next, commit_prepared, and the host's stores and restarts).
THEOREM AnnounceInvariant == AnnounceSpec => [](AnnounceTypeOK /\ StoredBeforeUse)
  <1>1. AnnounceInit => AnnounceTypeOK /\ StoredBeforeUse
    BY AnnounceAssumption
    DEF AnnounceInit, AnnounceTypeOK, StoredBeforeUse, serialize_into, deserialize,
        NoValue, Values
  <1> QED
    BY <1>1, AnnounceStep, PTL DEF AnnounceSpec

\* For any clock and any sequence of restarts, announces carry growing values.
THEOREM AnnouncesGrow == AnnounceSpec => AnnouncesAdvance
  <1>1. ASSUME AnnounceTypeOK, StoredBeforeUse, Emit
        PROVE  outgoing > emitted
    BY <1>1, AnnounceAssumption DEF Emit, StoredBeforeUse, AnnounceTypeOK, NoValue, Values
  <1>2. AnnounceTypeOK /\ StoredBeforeUse => [Emit => outgoing > emitted]_announceVars
    BY <1>1
  <1> QED
    BY <1>2, AnnounceInvariant, PTL DEF AnnouncesAdvance

----------------------------------------------------------------------------
(* The ratchet ring                                                          *)

\* The entries a ring may hold, for these keys.
Entries(made) == [key : DOMAIN made, age : Ages]

\* No stamp dates a key before it was made: neither by the wall clock, nor by the uptime of
\* the boot the stamp was taken in.
Truthful(entry, booted, made) ==
    /\ entry.age.kind = "Wall" => made[entry.key] <= entry.age.secs
    /\ entry.age.kind = "Uptime" => made[entry.key] <= booted + entry.age.secs

\* A ring of such entries, none too many.
TruthfulRing(entries, booted, made) ==
    /\ entries \in Seq(Entries(made)) /\ Len(entries) <= RingMax
    /\ \A i \in DOMAIN entries : Truthful(entries[i], booted, made)

\* The keys of a ring that have not expired are among these.
Covers(keys, entries, at, made) ==
    \A k \in KeySet(entries) : at - made[k] <= ExpirySecs => k \in keys

\* Why announced keys are kept: stamps are truthful, so a key is dropped only when it has
\* expired; what is in storage, and what is prepared to go there, covers the live ring.
RingKept ==
    /\ time \in Nat /\ boot \in 0 .. time
    /\ created \in Seq(Nat) /\ \A k \in DOMAIN created : created[k] <= time
    /\ advertised \subseteq DOMAIN created
    /\ TruthfulRing(ring, boot, created)
    /\ candidate = Blob2(candidate.entries) /\ TruthfulRing(candidate.entries, boot, created)
    /\ stored_ring.entries \in Seq(Entries(created)) 
    /\ TruthfulRing(load_persisted(stored_ring), boot, created)
    /\ Covers(KeySet(stored_ring.entries), ring, time, created)
    /\ candidate # NoBlob => Covers(KeySet(candidate.entries), ring, time, created)
    /\ \A k \in advertised : time - created[k] <= ExpirySecs => k \in KeySet(ring)
    /\ StoredCandidatesCommit

----------------------------------------------------------------------------
\* A clock of this boot shows the real time, if it shows the wall time at all.
LEMMA ClockShows ==
    ASSUME NEW now \in Nat, NEW booted \in 0 .. now, NEW clock \in Clocks(now, booted)
    PROVE  /\ clock.wall \in {NoWall, now} /\ clock.uptime = now - booted
           /\ clock.uptime \in Nat /\ NoWall # now
  BY DEF Clocks, NoWall

\* A stamp taken now is an age, and truthful of every key made so far.
LEMMA AnchorTruthful ==
    ASSUME NEW now \in Nat, NEW booted \in 0 .. now, NEW clock \in Clocks(now, booted),
           NEW made, NEW k, made[k] \in Nat, made[k] <= now
    PROVE  anchor(clock) \in Ages /\ Truthful(Entry(k, anchor(clock)), booted, made)
  <1>1. /\ clock.wall \in {NoWall, now} /\ clock.uptime = now - booted
        /\ clock.uptime \in Nat /\ NoWall # now
    BY ClockShows
  <1>2. CASE clock.wall = NoWall
    <2>1. anchor(clock) = [kind |-> "Uptime", secs |-> clock.uptime]
      BY <1>2 DEF anchor
    <2> QED
      BY <1>1, <2>1 DEF Ages, AgeKinds, Truthful, Entry
  <1>3. CASE clock.wall = now
    <2>1. anchor(clock) = [kind |-> "Wall", secs |-> now]
      BY <1>1, <1>3 DEF anchor
    <2> QED
      BY <1>1, <2>1 DEF Ages, AgeKinds, Truthful, Entry
  <1> QED
    BY <1>1, <1>2, <1>3

\* A truthful stamp never makes a key older than it is.
LEMMA TruthfulIsConservative ==
    ASSUME NEW now \in Nat, NEW booted \in 0 .. now, NEW clock \in Clocks(now, booted),
           NEW made, NEW e, e.age \in Ages, made[e.key] \in Nat, Truthful(e, booted, made),
           age_comparable(e.age, clock)
    PROVE  Elapsed(e.age, clock) <= now - made[e.key] /\ Elapsed(e.age, clock) \in Int
  <1>1. /\ clock.wall \in {NoWall, now} /\ clock.uptime = now - booted
        /\ clock.uptime \in Nat /\ NoWall # now
    BY ClockShows
  <1>2. e.age.secs \in Nat
    BY DEF Ages
  <1>3. CASE e.age.kind = "Wall"
    <2>1. clock.wall = now /\ Elapsed(e.age, clock) = now - e.age.secs
      BY <1>1, <1>3 DEF age_comparable, Elapsed
    <2> QED
      BY <1>2, <1>3, <2>1 DEF Truthful
  <1>4. CASE e.age.kind # "Wall"
    <2>1. e.age.kind = "Uptime" /\ Elapsed(e.age, clock) = now - booted - e.age.secs
      BY <1>1, <1>4 DEF age_comparable, Elapsed
    <2> QED
      BY <1>2, <2>1 DEF Truthful
  <1> QED
    BY <1>3, <1>4

\* An entry re-anchored where its stamp cannot be compared.
LEMMA EffectiveTruthful ==
    ASSUME NEW now \in Nat, NEW booted \in 0 .. now, NEW clock \in Clocks(now, booted),
           NEW made, NEW e, e.age \in Ages, made[e.key] \in Nat, made[e.key] <= now,
           Truthful(e, booted, made)
    PROVE  /\ effective_age(e.age, clock) \in Ages
           /\ Truthful(Entry(e.key, effective_age(e.age, clock)), booted, made)
  <1>1. CASE effective_age(e.age, clock) = e.age
    BY <1>1 DEF Truthful, Entry
  <1>2. CASE effective_age(e.age, clock) = anchor(clock)
    BY <1>2, AnchorTruthful
  <1> QED
    BY <1>1, <1>2 DEF effective_age

\* The entries of a truthful ring, read one by one.
LEMMA RingEntries ==
    ASSUME NEW made, NEW booted, NEW entries, TruthfulRing(entries, booted, made)
    PROVE  /\ Len(entries) \in Nat /\ DOMAIN entries = 1 .. Len(entries)
           /\ \A i \in 1 .. Len(entries) :
                /\ entries[i].key \in DOMAIN made /\ entries[i].age \in Ages
                /\ Truthful(entries[i], booted, made)
  <1>1. /\ entries \in Seq(Entries(made))
        /\ \A i \in DOMAIN entries : Truthful(entries[i], booted, made)
    BY DEF TruthfulRing
  <1>2. \A i \in 1 .. Len(entries) : entries[i] \in Entries(made)
    BY <1>1
  <1> QED
    BY <1>1, <1>2 DEF Entries

\* A truthful ring, put together from its entries.
LEMMA RingMade ==
    ASSUME NEW made, NEW booted, NEW n \in Nat, n <= RingMax, NEW entries,
           entries = [i \in 1 .. n |-> entries[i]],
           \A i \in 1 .. n : \E k \in DOMAIN made, a \in Ages :
               entries[i] = Entry(k, a) /\ Truthful(Entry(k, a), booted, made)
    PROVE  TruthfulRing(entries, booted, made) /\ Len(entries) = n
  <1>0. \A k \in DOMAIN made, a \in Ages : Entry(k, a) \in Entries(made)
    BY DEF Entries, Entry
  <1>1. \A i \in 1 .. n : entries[i] \in Entries(made) /\ Truthful(entries[i], booted, made)
    BY <1>0
  <1>2. entries \in [1 .. n -> Entries(made)]
    BY <1>1
  <1>3. entries \in Seq(Entries(made)) /\ Len(entries) = n
    BY <1>2, SeqDef
  <1>4. DOMAIN entries = 1 .. n
    BY <1>2
  <1> QED
    BY <1>1, <1>3, <1>4 DEF TruthfulRing

\* What the keys of a ring are.
LEMMA KeysOf ==
    ASSUME NEW entries, NEW n, DOMAIN entries = 1 .. n
    PROVE  \A k : k \in KeySet(entries) <=> \E i \in 1 .. n : entries[i].key = k
  BY DEF KeySet

\* Re-anchoring keeps a ring truthful, and its keys where they are.
LEMMA AnchoredRing ==
    ASSUME RingKept, NEW clock \in Clocks(time, boot)
    PROVE  /\ TruthfulRing(Anchored(clock), boot, created)
           /\ Len(Anchored(clock)) = Len(ring)
           /\ \A i \in 1 .. Len(ring) : Anchored(clock)[i].key = ring[i].key
  <1>1. /\ Len(ring) \in Nat /\ DOMAIN ring = 1 .. Len(ring)
        /\ \A i \in 1 .. Len(ring) :
             /\ ring[i].key \in DOMAIN created /\ ring[i].age \in Ages
             /\ Truthful(ring[i], boot, created)
    BY RingEntries DEF RingKept
  <1>2. time \in Nat /\ boot \in 0 .. time /\ Len(ring) <= RingMax
    BY DEF RingKept, TruthfulRing
  <1>3. \A k \in DOMAIN created : created[k] \in Nat /\ created[k] <= time
    BY DEF RingKept
  <1>4. \A i \in 1 .. Len(ring) :
          /\ effective_age(ring[i].age, clock) \in Ages
          /\ Truthful(Entry(ring[i].key, effective_age(ring[i].age, clock)), boot, created)
    BY <1>1, <1>2, <1>3, EffectiveTruthful
  <1> DEFINE A == Anchored(clock)
  <1>5. /\ A = [i \in 1 .. Len(ring) |-> A[i]]
        /\ \A i \in 1 .. Len(ring) : A[i] = Entry(ring[i].key, effective_age(ring[i].age, clock))
    BY <1>1 DEF Anchored
  <1> HIDE DEF A
  <1>6. \A i \in 1 .. Len(ring) : \E k \in DOMAIN created, a \in Ages :
               A[i] = Entry(k, a) /\ Truthful(Entry(k, a), boot, created)
    BY <1>1, <1>4, <1>5
  <1>7. TruthfulRing(A, boot, created) /\ Len(A) = Len(ring)
    BY Zenon, <1>1, <1>2, <1>5, <1>6, RingMade
  <1>8. \A i \in 1 .. Len(ring) : A[i].key = ring[i].key
    BY <1>5 DEF Entry
  <1> QED
    BY <1>7, <1>8 DEF A

\* More keys leave a truthful ring truthful.
LEMMA RingOutlivesKeys ==
    ASSUME NEW made \in Seq(Nat), NEW at \in Nat, NEW booted, NEW entries,
           TruthfulRing(entries, booted, made)
    PROVE  TruthfulRing(entries, booted, Append(made, at))
  <1>1. /\ DOMAIN made \subseteq DOMAIN Append(made, at)
        /\ \A k \in DOMAIN made : Append(made, at)[k] = made[k]
    BY AppendProperties
  <1>2. Entries(made) \subseteq Entries(Append(made, at))
    BY <1>1 DEF Entries
  <1>3. entries \in Seq(Entries(Append(made, at)))
    BY <1>2, SeqMonotonic DEF TruthfulRing
  <1>4. \A i \in DOMAIN entries : entries[i].key \in DOMAIN made
    BY Zenon, RingEntries
  <1> QED
    BY <1>1, <1>3, <1>4 DEF TruthfulRing, Truthful

\* What the rotated ring is made of: the fresh key, and the live ring as far as it fits.
LEMMA RotatedEntries ==
    ASSUME RingKept, NEW clock \in Clocks(time, boot), NEW fresh
    PROVE  LET R == Rotated(fresh, clock)
               n == Shorter(Len(ring) + 1, RingMax)
           IN  /\ n \in 1 .. Len(ring) + 1 /\ n <= RingMax
               /\ R = [i \in 1 .. n |-> R[i]] /\ Len(R) = n
               /\ R[1] = Entry(fresh, anchor(clock))
               /\ \A i \in 2 .. n : R[i] = Anchored(clock)[i - 1]
  <1> DEFINE A == Anchored(clock)
             n == Shorter(Len(ring) + 1, RingMax)
             e == Entry(fresh, anchor(clock))
             S == Entries(created) \cup {e}
             R == Rotated(fresh, clock)
  <1>1. A \in Seq(Entries(created)) /\ Len(A) = Len(ring)
    BY AnchoredRing DEF TruthfulRing
  <1>2. Len(ring) \in Nat /\ RingMax \in Nat /\ RingMax >= 1
    BY RingEntries, RingAssumption DEF RingKept
  <1>3. n \in 1 .. Len(ring) + 1 /\ n <= RingMax
    BY <1>2 DEF Shorter
  <1>4. R = SubSeq(<<e>> \o A, 1, n)
    BY DEF Rotated
  <1> HIDE DEF A, n, e, R
  <1>5. A \in Seq(S) /\ <<e>> \in Seq(S)
    <2>1. A \in Seq(S)
      BY <1>1, SeqMonotonic
    <2> QED
      BY <2>1
  <1> HIDE DEF S
  <1>6. /\ <<e>> \o A \in Seq(S) /\ Len(<<e>> \o A) = Len(ring) + 1
        /\ (<<e>> \o A)[1] = e
        /\ \A i \in 2 .. Len(ring) + 1 : (<<e>> \o A)[i] = A[i - 1]
    BY <1>1, <1>2, <1>5, ConcatProperties
  <1>7. /\ R \in Seq(S) /\ Len(R) = n
        /\ \A i \in 1 .. n : R[i] = (<<e>> \o A)[i]
    BY <1>2, <1>3, <1>4, <1>6, SubSeqProperties
  <1>8. R = [i \in 1 .. n |-> R[i]]
    BY <1>7
  <1>9. R[1] = e /\ \A i \in 2 .. n : R[i] = A[i - 1]
    <2>1. 1 \in 1 .. n /\ \A i \in 2 .. n : i \in 1 .. n /\ i \in 2 .. Len(ring) + 1
      BY <1>2, <1>3
    <2> QED
      BY <1>6, <1>7, <2>1, Zenon
  <1> QED
    BY Zenon, <1>3, <1>7, <1>8, <1>9 DEF A, n, e, R

\* The rotated ring is truthful of the keys and the fresh one.
LEMMA RotatedRing ==
    ASSUME RingKept, NEW clock \in Clocks(time, boot)
    PROVE  TruthfulRing(Rotated(Len(created) + 1, clock), boot, Append(created, time))
  <1> DEFINE R == Rotated(Len(created) + 1, clock)
             A == Anchored(clock)
             n == Shorter(Len(ring) + 1, RingMax)
             made == Append(created, time)
             fresh == Len(created) + 1
  <1>1. /\ n \in 1 .. Len(ring) + 1 /\ n <= RingMax
        /\ R[1] = Entry(fresh, anchor(clock))
        /\ \A i \in 2 .. n : R[i] = A[i - 1]
    BY RotatedEntries
  <1>0. R = [i \in 1 .. n |-> R[i]]
    BY RotatedEntries
  <1>2. time \in Nat /\ boot \in 0 .. time /\ created \in Seq(Nat)
    BY DEF RingKept
  <1>3. fresh \in DOMAIN made /\ made[fresh] = time
    BY <1>2, AppendProperties
  <1>4. anchor(clock) \in Ages /\ Truthful(Entry(fresh, anchor(clock)), boot, made)
    <2> HIDE DEF made, fresh
    <2>1. made[fresh] \in Nat /\ made[fresh] <= time
      BY <1>2, <1>3
    <2> QED
      BY <1>2, <2>1, AnchorTruthful
  <1>5. TruthfulRing(A, boot, made) /\ Len(A) = Len(ring) /\ Len(ring) \in Nat
    BY Zenon, <1>2, AnchoredRing, RingOutlivesKeys, RingEntries DEF RingKept
  <1>6. \A i \in 1 .. Len(ring) : \E k \in DOMAIN made, a \in Ages :
               A[i] = Entry(k, a) /\ Truthful(Entry(k, a), boot, made)
    <2>1. \A i \in 1 .. Len(ring) : A[i] \in Entries(made) /\ Truthful(A[i], boot, made)
      BY <1>5 DEF TruthfulRing
    <2>2. \A x \in Entries(made) : x = Entry(x.key, x.age) /\ x.key \in DOMAIN made /\ x.age \in Ages
      BY DEF Entries, Entry
    <2> HIDE DEF A, made
    <2> QED
      BY <2>1, <2>2
  <1> HIDE DEF R, A, n, made, fresh
  <1>7. \A i \in 1 .. n : \E k \in DOMAIN made, a \in Ages :
               R[i] = Entry(k, a) /\ Truthful(Entry(k, a), boot, made)
    <2> SUFFICES ASSUME NEW i \in 1 .. n
                 PROVE  \E k \in DOMAIN made, a \in Ages :
                          R[i] = Entry(k, a) /\ Truthful(Entry(k, a), boot, made)
      OBVIOUS
    <2>1. CASE i = 1
      BY <1>1, <1>3, <1>4, <2>1
    <2>2. CASE i # 1
      <3>2. i \in 2 .. n
        BY <2>2
      <3>1. i - 1 \in 1 .. Len(ring) /\ R[i] = A[i - 1]
        BY <1>1, <1>5, <3>2
      <3> QED
        BY <1>6, <3>1
    <2> QED
      BY <2>1, <2>2
  <1>8. n \in Nat
    BY <1>1, <1>5
  <1>9. TruthfulRing(R, boot, made)
    BY <1>0, <1>1, <1>7, <1>8, RingMade
  <1> QED
    BY <1>9 DEF R, made

\* A ring that may rotate drops no key but one that has expired.
LEMMA RotationCovers ==
    ASSUME RingKept, NEW clock \in Clocks(time, boot), NEW fresh,
           ring = <<>> \/ CanRotate(clock)
    PROVE  Covers(KeySet(Rotated(fresh, clock)), ring, time, created)
  <1> DEFINE R == Rotated(fresh, clock)
             A == Anchored(clock)
             n == Shorter(Len(ring) + 1, RingMax)
  <1>1. n \in 1 .. Len(ring) + 1 /\ \A i \in 2 .. n : R[i] = A[i - 1]
    BY RotatedEntries
  <1>0. R = [i \in 1 .. n |-> R[i]]
    BY RotatedEntries
  <1>2. \A i \in 1 .. Len(ring) : A[i].key = ring[i].key
    BY AnchoredRing
  <1>3. /\ Len(ring) \in Nat /\ DOMAIN ring = 1 .. Len(ring) /\ Len(ring) <= RingMax
        /\ RingMax \in Nat
    BY RingEntries, RingAssumption DEF RingKept, TruthfulRing
  <1> SUFFICES ASSUME NEW k \in KeySet(ring), time - created[k] <= ExpirySecs
               PROVE  k \in KeySet(R)
    BY DEF Covers
  <1>4. PICK i \in 1 .. Len(ring) : ring[i].key = k
    BY <1>3 DEF KeySet
  <1>5. i + 1 \in 1 .. n
    <2>1. CASE Len(ring) < RingMax
      BY <1>3, <2>1 DEF Shorter
    <2>2. CASE ~(Len(ring) < RingMax)
      <3>4. Len(ring) = RingMax
        <4>1. Len(ring) \in Nat /\ RingMax \in Nat /\ Len(ring) <= RingMax
          BY <1>3
        <4> QED
          BY <2>2, <4>1
      <3>5. ~(RingMax + 1 <= RingMax)
        BY <1>3
      <3>1. n = Len(ring)
        BY <3>4, <3>5 DEF Shorter
      <3>2. age_expired(ring[Len(ring)].age, clock)
        BY <1>3, <2>2 DEF CanRotate
      <3>3. i # Len(ring)
        <4> SUFFICES ASSUME i = Len(ring) PROVE FALSE
          OBVIOUS
        <4>1. /\ age_comparable(ring[i].age, clock) /\ Elapsed(ring[i].age, clock) > ExpirySecs
          BY <3>2 DEF age_expired
        <4>2. /\ ring[i].age \in Ages /\ Truthful(ring[i], boot, created)
              /\ ring[i].key \in DOMAIN created
          BY Zenon, RingEntries DEF RingKept
        <4>3. created[k] \in Nat
          BY <1>4, <4>2 DEF RingKept
        <4>4. Elapsed(ring[i].age, clock) <= time - created[k] /\ Elapsed(ring[i].age, clock) \in Int
          BY Zenon, <1>4, <4>1, <4>2, <4>3, TruthfulIsConservative DEF RingKept
        <4> QED
          BY <4>1, <4>3, <4>4, ExpiryAssumption DEF RingKept
      <3> QED
        BY <1>3, <3>1, <3>3, <3>4
    <2> QED
      BY <2>1, <2>2
  <1> HIDE DEF R, A, n
  <1>8. DOMAIN R = 1 .. n
    BY <1>0
  <1>6. R[i + 1] = A[i]
    <2>1. i + 1 \in 2 .. n /\ (i + 1) - 1 = i
      BY <1>5
    <2>2. R[i + 1] = A[(i + 1) - 1]
      BY <1>1, <2>1
    <2> QED
      BY <2>1, <2>2
  <1>7. R[i + 1].key = k
    BY <1>2, <1>4, <1>6
  <1> QED
    BY <1>5, <1>7, <1>8 DEF KeySet

\* What is prepared is what validation expects.
LEMMA RotationIsValid ==
    ASSUME RingKept, NEW clock \in Clocks(time, boot), NEW fresh
    PROVE  is_valid_candidate(Blob2(Rotated(fresh, clock)))
  <1> DEFINE R == Rotated(fresh, clock)
             A == Anchored(clock)
             n == Shorter(Len(ring) + 1, RingMax)
  <1>1. n \in 1 .. Len(ring) + 1 /\ \A i \in 2 .. n : R[i] = A[i - 1]
    BY RotatedEntries
  <1>0. R = [i \in 1 .. n |-> R[i]]
    BY RotatedEntries
  <1>2. \A i \in 1 .. Len(ring) : A[i].key = ring[i].key
    BY AnchoredRing
  <1>3. Len(ring) \in Nat
    BY RingEntries DEF RingKept
  <1> DEFINE keys == RingKeys(Blob2(R).entries)
  <1>4. keys = [i \in 1 .. n |-> R[i].key]
    BY <1>0 DEF RingKeys, Blob2
  <1>7. ring = <<>> => n = 1
    BY <1>1, <1>3
  <1> HIDE DEF R, A, n
  <1>5. Len(keys) = n
    BY <1>1, <1>3, <1>4
  <1>6. \A i \in 2 .. n : keys[i] = ring[i - 1].key
    <2> SUFFICES ASSUME NEW i \in 2 .. n PROVE keys[i] = ring[i - 1].key
      OBVIOUS
    <2>1. i \in 1 .. n /\ i - 1 \in 1 .. Len(ring)
      BY <1>1, <1>3
    <2>2. keys[i] = R[i].key /\ R[i] = A[i - 1]
      BY <1>1, <1>4, <2>1
    <2> QED
      BY <1>2, <2>1, <2>2
  <1> HIDE DEF keys
  <1> QED
    BY <1>5, <1>6, <1>7 DEF is_valid_candidate, keys, n, R

----------------------------------------------------------------------------
\* Loading a blob keeps its keys.
LEMMA LoadedKeys ==
    ASSUME NEW blob
    PROVE  KeySet(load_persisted(blob)) = KeySet(blob.entries)
  BY Zenon DEF KeySet, load_persisted, Entry

\* No stamp of an earlier boot's uptime survives being loaded.
LEMMA LoadedKinds ==
    ASSUME NEW blob, NEW i \in DOMAIN blob.entries
    PROVE  load_persisted(blob)[i].age.kind # "Uptime"
  BY DEF load_persisted, restored_age, Unknown, Entry

\* So a loaded ring that is truthful is truthful in any boot.
LEMMA LoadedAnyBoot ==
    ASSUME NEW blob, NEW made, NEW before, NEW after,
           TruthfulRing(load_persisted(blob), before, made)
    PROVE  TruthfulRing(load_persisted(blob), after, made)
  <1>1. DOMAIN load_persisted(blob) = DOMAIN blob.entries
    BY DEF load_persisted
  <1> QED
    BY Zenon, <1>1, LoadedKinds DEF TruthfulRing, Truthful

\* A prepared blob, loaded again, is truthful.
LEMMA LoadedCandidate ==
    ASSUME NEW entries, NEW made, NEW before, NEW after, TruthfulRing(entries, before, made)
    PROVE  TruthfulRing(load_persisted(Blob2(entries)), after, made)
  <1> DEFINE L == load_persisted(Blob2(entries))
             n == Len(entries)
  <1>1. /\ n \in Nat /\ DOMAIN entries = 1 .. n /\ n <= RingMax
        /\ \A i \in 1 .. n : /\ entries[i].key \in DOMAIN made /\ entries[i].age \in Ages
                             /\ Truthful(entries[i], before, made)
    BY Zenon, RingEntries DEF TruthfulRing
  <1>2. Blob2(entries).version = 2 /\ Blob2(entries).entries = entries
    BY Zenon DEF Blob2
  <1>3. /\ L = [i \in 1 .. n |-> L[i]]
        /\ \A i \in 1 .. n : L[i] = Entry(entries[i].key, restored_age(entries[i].age))
    BY <1>1, <1>2 DEF load_persisted
  <1>4. \A i \in 1 .. n : restored_age(entries[i].age) \in Ages
    BY Zenon, <1>1 DEF restored_age, Unknown, Ages, AgeKinds
  <1>5. \A i \in 1 .. n : Truthful(Entry(entries[i].key, restored_age(entries[i].age)), after, made)
    BY <1>1 DEF restored_age, Unknown, Truthful, Entry
  <1> HIDE DEF L, n
  <1>6. \A i \in 1 .. n : \E k \in DOMAIN made, a \in Ages :
               L[i] = Entry(k, a) /\ Truthful(Entry(k, a), after, made)
    BY <1>1, <1>3, <1>4, <1>5
  <1>7. TruthfulRing(L, after, made)
    BY <1>1, <1>3, <1>6, RingMade
  <1> QED
    BY <1>7 DEF L

\* No keys at all.
LEMMA EmptyRingTruthful ==
    ASSUME NEW booted, NEW made
    PROVE  TruthfulRing(<<>>, booted, made) /\ NoBlob.entries = <<>>
  BY RingAssumption DEF TruthfulRing, NoBlob, Blob2

\* Covering outlasts the passing of time and the making of keys.
LEMMA CoversLater ==
    ASSUME NEW keys, NEW entries, NEW at \in Nat, NEW made,
           \A k \in KeySet(entries) : made[k] \in Nat,
           Covers(keys, entries, at, made)
    PROVE  Covers(keys, entries, at + 1, made)
  BY ExpiryAssumption DEF Covers

\* The same when another key is made.
LEMMA CoversMore ==
    ASSUME NEW keys, NEW entries, NEW at, NEW made \in Seq(Nat), NEW t \in Nat,
           KeySet(entries) \subseteq DOMAIN made, Covers(keys, entries, at, made)
    PROVE  Covers(keys, entries, at, Append(made, t))
  <1>1. \A k \in DOMAIN made : Append(made, t)[k] = made[k]
    BY AppendProperties
  <1> QED
    BY Zenon, <1>1 DEF Covers

\* The keys of a truthful ring have been made.
LEMMA KeysAreMade ==
    ASSUME NEW entries, NEW booted, NEW made, TruthfulRing(entries, booted, made)
    PROVE  KeySet(entries) \subseteq DOMAIN made
  BY RingEntries DEF KeySet

\* A rotation is prepared.
LEMMA PrepareKeeps ==
    ASSUME RingKept, prepare_rotation
    PROVE  RingKept'
  <1>0. UNCHANGED <<ring, stored_ring, time, boot, advertised>>
    BY DEF prepare_rotation
  <1>1. /\ time \in Nat /\ boot \in 0 .. time /\ created \in Seq(Nat)
        /\ \A k \in DOMAIN created : created[k] <= time
    BY DEF RingKept
  <1>2. PICK clock \in Clocks(time, boot) :
         \/ /\ rotation_action(clock) = "Rotate"
            /\ candidate' = Blob2(Rotated(Len(created) + 1, clock))
            /\ created' = Append(created, time)
         \/ /\ rotation_action(clock) = "PersistMetadata"
            /\ candidate' = Blob2(Anchored(clock))
            /\ UNCHANGED created
    BY DEF prepare_rotation
  <1>3. KeySet(ring) \subseteq DOMAIN created
    BY Zenon, KeysAreMade DEF RingKept
  <1>4. CASE /\ rotation_action(clock) = "Rotate"
             /\ candidate' = Blob2(Rotated(Len(created) + 1, clock))
             /\ created' = Append(created, time)
    <2> DEFINE R == Rotated(Len(created) + 1, clock)
    <2>1. candidate' = Blob2(candidate'.entries) /\ candidate'.entries = R
      BY <1>4 DEF Blob2
    <2>2. TruthfulRing(R, boot, created')
      BY <1>4, RotatedRing
    <2>3. /\ TruthfulRing(ring, boot, created')
          /\ TruthfulRing(load_persisted(stored_ring), boot, created')
      BY <1>1, <1>4, RingOutlivesKeys DEF RingKept
    <2>4. /\ created' \in Seq(Nat) /\ DOMAIN created \subseteq DOMAIN created'
          /\ \A k \in DOMAIN created : created'[k] = created[k]
          /\ \A k \in DOMAIN created' : created'[k] <= time
      BY <1>1, <1>4, AppendProperties
    <2>5. stored_ring.entries \in Seq(Entries(created'))
      <3>1. Entries(created) \subseteq Entries(created')
        BY <2>4 DEF Entries
      <3> QED
        BY <3>1, SeqMonotonic DEF RingKept
    <2>6. ring = <<>> \/ CanRotate(clock)
      BY Zenon, <1>4 DEF rotation_action
    <2>7. /\ Covers(KeySet(stored_ring.entries), ring, time, created')
          /\ Covers(KeySet(R), ring, time, created')
      BY <1>1, <1>3, <1>4, <2>6, RotationCovers, CoversMore DEF RingKept
    <2>8. is_valid_candidate(Blob2(R))
      BY RotationIsValid
    <2> HIDE DEF R
    <2>9. StoredCandidatesCommit'
      BY Zenon, <1>0, <1>4, <2>8 DEF StoredCandidatesCommit, is_valid_candidate, R
    <2>10. \A k \in advertised : time - created'[k] <= ExpirySecs => k \in KeySet(ring)
      BY <2>4 DEF RingKept
    <2>11. load_persisted(stored_ring)' = load_persisted(stored_ring)
      BY <1>0
    <2>12. advertised \subseteq DOMAIN created'
      BY Zenon, <2>4 DEF RingKept
    <2> QED
      BY <1>0, <1>1, <2>1, <2>2, <2>3, <2>4, <2>5, <2>7, <2>9, <2>10, <2>11, <2>12 DEF RingKept
  <1>5. CASE /\ rotation_action(clock) = "PersistMetadata"
             /\ candidate' = Blob2(Anchored(clock))
             /\ UNCHANGED created
    <2> DEFINE A == Anchored(clock)
    <2>1. candidate' = Blob2(candidate'.entries) /\ candidate'.entries = A
      BY Zenon, <1>5 DEF Blob2
    <2>2. /\ TruthfulRing(A, boot, created) /\ Len(A) = Len(ring)
          /\ \A i \in 1 .. Len(ring) : A[i].key = ring[i].key
      BY AnchoredRing
    <2> HIDE DEF A
    <2>3. DOMAIN A = 1 .. Len(ring) /\ DOMAIN ring = 1 .. Len(ring) /\ ring # <<>>
      BY Zenon, <1>5, <2>2, RingEntries DEF RingKept, rotation_action
    <2>4. KeySet(A) = KeySet(ring)
      BY <2>2, <2>3 DEF KeySet
    <2>5. RingKeys(A) = RingKeys(ring)
      BY <2>2, <2>3 DEF RingKeys
    <2>6. StoredCandidatesCommit'
      BY <1>0, <2>1, <2>3, <2>5 DEF StoredCandidatesCommit, is_valid_candidate
    <2>7. Covers(KeySet(A), ring, time, created)
      BY <2>4 DEF Covers
    <2>8. load_persisted(stored_ring)' = load_persisted(stored_ring)
      BY <1>0
    <2> QED
      BY Zenon, <1>0, <1>5, <2>1, <2>2, <2>6, <2>7, <2>8 DEF RingKept
  <1> QED
    BY <1>2, <1>4, <1>5

\* Every step.
LEMMA RingStep == RingKept /\ [RingNext]_ringVars => RingKept'
  <1> SUFFICES ASSUME RingKept, [RingNext]_ringVars PROVE RingKept'
    BY Zenon
  <1>0. /\ time \in Nat /\ boot \in 0 .. time /\ created \in Seq(Nat)
        /\ \A k \in DOMAIN created : created[k] \in Nat /\ created[k] <= time
        /\ KeySet(ring) \subseteq DOMAIN created
    BY KeysAreMade DEF RingKept
  <1>1. CASE prepare_rotation
    BY Zenon, <1>1, PrepareKeeps
  <1>2. CASE StoreCandidate
    <2>1. /\ UNCHANGED <<ring, candidate, time, boot, created, advertised>>
          /\ stored_ring' = candidate /\ candidate # NoBlob
      BY Zenon, <1>2 DEF StoreCandidate
    <2>2. candidate = Blob2(candidate.entries) /\ TruthfulRing(candidate.entries, boot, created)
      BY DEF RingKept
    <2>3. load_persisted(stored_ring)' = load_persisted(Blob2(candidate.entries))
      BY <2>1, <2>2
    <2>4. TruthfulRing(load_persisted(Blob2(candidate.entries)), boot, created)
      BY Zenon, <2>2, LoadedCandidate
    <2>5. StoredCandidatesCommit'
      BY <2>1 DEF RingKept, StoredCandidatesCommit, is_valid_candidate
    <2>6. stored_ring'.entries \in Seq(Entries(created))
      BY Zenon, <2>1, <2>2 DEF TruthfulRing
    <2> QED
      BY <2>1, <2>3, <2>4, <2>5, <2>6 DEF RingKept
  <1>3. CASE commit_prepared_blob
    <2>1. /\ UNCHANGED <<stored_ring, time, boot, created, advertised>>
          /\ stored_ring = candidate /\ candidate # NoBlob
          /\ ring' = candidate.entries /\ candidate' = NoBlob
      BY Zenon, <1>3 DEF commit_prepared_blob
    <2>2. /\ candidate' = Blob2(candidate'.entries)
          /\ TruthfulRing(candidate'.entries, boot, created)
      BY <2>1, EmptyRingTruthful DEF NoBlob
    <2>3. Covers(KeySet(stored_ring.entries), ring', time, created)
      BY <2>1 DEF Covers
    <2>4. load_persisted(stored_ring)' = load_persisted(stored_ring)
      BY Zenon, <2>1
    <2>5. \A k \in advertised : time - created[k] <= ExpirySecs => k \in KeySet(ring')
      BY Zenon, <2>1 DEF RingKept, Covers
    <2> QED
      BY <2>1, <2>2, <2>3, <2>4, <2>5 DEF RingKept, StoredCandidatesCommit
  <1>4. CASE Advertise
    <2>1. /\ UNCHANGED <<ring, candidate, stored_ring, time, boot, created>>
          /\ ring # <<>> /\ advertised' \subseteq advertised \cup {ring[1].key}
      BY Zenon, <1>4 DEF Advertise
    <2>2. 1 \in DOMAIN ring
      BY <2>1 DEF RingKept, TruthfulRing
    <2>3. ring[1].key \in KeySet(ring)
      BY <2>2 DEF KeySet
    <2>4. load_persisted(stored_ring)' = load_persisted(stored_ring)
      BY Zenon, <2>1
    <2>5. StoredCandidatesCommit'
      BY Zenon, <2>1 DEF RingKept, StoredCandidatesCommit, is_valid_candidate
    <2> QED
      BY Zenon, <1>0, <2>1, <2>3, <2>4, <2>5 DEF RingKept
  <1>5. CASE RingRestart
    <2>1. /\ UNCHANGED <<stored_ring, time, created, advertised>>
          /\ ring' = load_persisted(stored_ring) /\ candidate' = NoBlob /\ boot' = time
      BY Zenon, <1>5 DEF RingRestart
    <2>2. /\ candidate' = Blob2(candidate'.entries)
          /\ TruthfulRing(candidate'.entries, boot', created)
      BY Zenon, <2>1, EmptyRingTruthful DEF NoBlob
    <2>3. TruthfulRing(load_persisted(stored_ring), boot', created)
      BY LoadedAnyBoot DEF RingKept
    <2>4. load_persisted(stored_ring)' = load_persisted(stored_ring)
      BY <2>1
    <2>5. KeySet(ring') = KeySet(stored_ring.entries)
      BY <2>1, LoadedKeys
    <2>6. Covers(KeySet(stored_ring.entries), ring', time, created)
      BY Zenon, <2>5 DEF Covers
    <2>7. \A k \in advertised : time - created[k] <= ExpirySecs => k \in KeySet(ring')
      BY <2>5 DEF RingKept, Covers
    <2>8. boot' \in 0 .. time
      BY <1>0, <2>1
    <2> QED
      BY Zenon, <2>1, <2>2, <2>3, <2>4, <2>6, <2>7, <2>8 DEF RingKept, StoredCandidatesCommit
  <1>6. CASE Pass
    <2>1. /\ UNCHANGED <<ring, candidate, stored_ring, boot, created>>
          /\ time' = time + 1 /\ advertised' \subseteq advertised
      BY <1>6 DEF Pass
    <2>2. load_persisted(stored_ring)' = load_persisted(stored_ring)
      BY Zenon, <2>1
    <2>3. StoredCandidatesCommit'
      BY Zenon, <2>1 DEF RingKept, StoredCandidatesCommit, is_valid_candidate
    <2>4. /\ Covers(KeySet(stored_ring.entries), ring, time + 1, created)
          /\ candidate # NoBlob => Covers(KeySet(candidate.entries), ring, time + 1, created)
      BY <1>0, CoversLater DEF RingKept
    <2>5. /\ time' \in Nat /\ boot \in 0 .. time'
          /\ \A k \in DOMAIN created : created[k] <= time'
      BY <1>0, <2>1
    <2>6. \A k \in advertised' : time' - created[k] <= ExpirySecs => k \in KeySet(ring)
      <3> SUFFICES ASSUME NEW k \in advertised', time' - created[k] <= ExpirySecs
                   PROVE  k \in KeySet(ring)
        BY Zenon
      <3>1. k \in advertised /\ created[k] \in Nat
        BY <1>0, <2>1 DEF RingKept
      <3>2. time - created[k] <= ExpirySecs
        BY <1>0, <2>1, <3>1, ExpiryAssumption
      <3> QED
        BY <3>1, <3>2 DEF RingKept
    <2>7. advertised' \subseteq DOMAIN created
      BY Zenon, <2>1 DEF RingKept
    <2> QED
      BY <2>1, <2>2, <2>3, <2>4, <2>5, <2>6, <2>7 DEF RingKept
  <1>7. CASE UNCHANGED ringVars
    <2>1. load_persisted(stored_ring)' = load_persisted(stored_ring)
      BY Zenon, <1>7 DEF ringVars
    <2> QED
      BY Zenon, <1>7, <2>1 DEF ringVars, RingKept, StoredCandidatesCommit, is_valid_candidate
  <1> QED
    BY <1>1, <1>2, <1>3, <1>4, <1>5, <1>6, <1>7 DEF RingNext

\* A destination begins empty or with a legacy blob.
LEMMA RingBegins == RingInit => RingKept
  <1> SUFFICES ASSUME RingInit PROVE RingKept
    OBVIOUS
  <1>1. PICK n \in 0 .. RingMax, last_rotation \in {0, 1} :
         /\ created = [k \in 1 .. n |-> 1]
         /\ advertised = 1 .. n
         /\ stored_ring = IF n = 0 THEN NoBlob
                     ELSE [version |-> 1, last_rotation |-> last_rotation,
                           entries |-> [i \in 1 .. n |-> Entry(n + 1 - i, Unknown)]]
         /\ ring = load_persisted(stored_ring)
    BY Zenon DEF RingInit
  <1>2. time = 1 /\ boot = 1 /\ candidate = NoBlob
    BY DEF RingInit
  <1>3. RingMax \in Nat /\ n \in Nat /\ n <= RingMax
    BY RingAssumption
  <1>4. /\ created \in Seq(Nat) /\ DOMAIN created = 1 .. n
        /\ \A k \in 1 .. n : created[k] = 1
    BY <1>1, <1>3
  <1>5. Unknown \in Ages
    BY DEF Unknown, Ages, AgeKinds
  <1>6. TruthfulRing(ring, boot, created) /\ stored_ring.entries \in Seq(Entries(created))
        /\ KeySet(stored_ring.entries) = 1 .. n
    <2>1. CASE n = 0
      <3>1. stored_ring = NoBlob /\ stored_ring.entries = <<>>
        BY <1>1, <2>1 DEF NoBlob, Blob2
      <3>2. TruthfulRing(ring, boot, created)
        BY <1>1, <3>1, EmptyRingTruthful, LoadedCandidate DEF NoBlob
      <3>3. KeySet(<<>>) = {}
        BY DEF KeySet
      <3>4. 1 .. n = {}
        BY <2>1
      <3> QED
        <4>1. stored_ring.entries \in Seq(Entries(created))
          BY <3>1
        <4>2. KeySet(stored_ring.entries) = 1 .. n
          BY <3>1, <3>3, <3>4, Zenon
        <4> QED
          BY <3>2, <4>1, <4>2
    <2>2. CASE n # 0
      <3> DEFINE E == [i \in 1 .. n |-> Entry(n + 1 - i, Unknown)]
      <3>1. stored_ring = [version |-> 1, last_rotation |-> last_rotation, entries |-> E]
        BY <1>1, <2>2
      <3>2. /\ stored_ring.version = 1 /\ stored_ring.last_rotation = last_rotation
            /\ stored_ring.entries = E
        BY <3>1
      <3>3. E \in Seq(Entries(created)) /\ Len(E) = n
        <4>1. \A i \in 1 .. n : E[i] \in Entries(created)
          BY <1>3, <1>4, <1>5 DEF Entries, Entry
        <4>2. E \in [1 .. n -> Entries(created)]
          BY <4>1
        <4> QED
          BY <1>3, <4>2, SeqDef
      <3>4. KeySet(E) = 1 .. n
        <4>1. \A i \in 1 .. n : E[i].key = n + 1 - i
          BY DEF Entry
        <4>2. \A k \in 1 .. n : n + 1 - k \in 1 .. n /\ n + 1 - (n + 1 - k) = k
          BY <1>3
        <4>3. DOMAIN E = 1 .. n
          BY Zenon
        <4> HIDE DEF E
        <4> QED
          BY <4>1, <4>2, <4>3 DEF KeySet
      <3> DEFINE stamp(i) == IF i = 1 /\ last_rotation # 0
                               THEN [kind |-> "Wall", secs |-> last_rotation] ELSE Unknown
      <3>5. /\ ring = [i \in 1 .. n |-> ring[i]]
            /\ \A i \in 1 .. n : ring[i] = Entry(n + 1 - i, stamp(i))
        <4>1. \A i \in 1 .. n : E[i].key = n + 1 - i
          BY DEF Entry
        <4>2. DOMAIN E = 1 .. n
          OBVIOUS
        <4> HIDE DEF E
        <4> QED
          BY <1>1, <3>2, <4>1, <4>2 DEF load_persisted
      <3>6. \A i \in 1 .. n : stamp(i) \in Ages
        <4>1. last_rotation \in Nat
          OBVIOUS
        <4>2. [kind |-> "Wall", secs |-> last_rotation] \in Ages
          BY Zenon, <4>1 DEF Ages, AgeKinds
        <4> QED
          BY <1>5, <4>2
      <3>7. \A i \in 1 .. n : Truthful(Entry(n + 1 - i, stamp(i)), boot, created)
        <4> SUFFICES ASSUME NEW i \in 1 .. n
                     PROVE  Truthful(Entry(n + 1 - i, stamp(i)), boot, created)
          OBVIOUS
        <4>1. n + 1 - i \in 1 .. n
          BY <1>3
        <4>2. created[n + 1 - i] = 1
          BY <1>4, <4>1
        <4> QED
          BY <1>2, <4>2 DEF Truthful, Entry, Unknown
      <3> HIDE DEF stamp
      <3>8. \A i \in 1 .. n : n + 1 - i \in DOMAIN created
        BY <1>3, <1>4
      <3>9. TruthfulRing(ring, boot, created)
        BY Zenon, <1>3, <3>5, <3>6, <3>7, <3>8, RingMade
      <3> QED
        BY <3>2, <3>3, <3>4, <3>9
    <2> QED
      BY <2>1, <2>2
  <1>7. KeySet(ring) = 1 .. n
    BY <1>1, <1>6, LoadedKeys
  <1>8. candidate = Blob2(candidate.entries) /\ TruthfulRing(candidate.entries, boot, created)
    BY <1>2, EmptyRingTruthful DEF NoBlob
  <1>9. /\ Covers(KeySet(stored_ring.entries), ring, time, created) /\ StoredCandidatesCommit
        /\ candidate # NoBlob => Covers(KeySet(candidate.entries), ring, time, created)
    BY <1>2, <1>6, <1>7, Zenon DEF Covers, StoredCandidatesCommit
  <1>10. advertised \subseteq DOMAIN created /\ \A k \in advertised : k \in KeySet(ring)
    BY <1>1, <1>2, <1>4, <1>7
  <1> QED
    BY <1>1, <1>2, <1>4, <1>6, <1>8, <1>9, <1>10 DEF RingKept

\* The invariant holds at every state of every run of the ring and its storage (ratchet.rs).
THEOREM RingInvariant == RingSpec => []RingKept
  BY RingBegins, RingStep, PTL DEF RingSpec

\* Whatever the clocks show and whenever the node restarts, a key that was announced and has
\* not expired is in the live ring and in storage (rotation and expiry in ratchet.rs).
THEOREM AnnouncedKeysDecrypt == RingSpec => []AdvertisedKeysAreKept
  <1>1. RingKept => AdvertisedKeysAreKept
    <2> SUFFICES ASSUME RingKept, NEW k \in advertised, ~Expired(k, time)
                 PROVE  k \in KeySet(ring) /\ k \in KeySet(stored_ring.entries)
      BY Zenon DEF AdvertisedKeysAreKept
    <2>1. time - created[k] <= ExpirySecs
      BY ExpiryAssumption DEF RingKept, Expired
    <2> QED
      BY <2>1 DEF RingKept, Covers
  <1> QED
    BY <1>1, RingInvariant, PTL

\* No entry, live or loaded from storage, is ever taken for older than its key is
\* (the age stamps of ratchet.rs).
THEOREM AgesConservative == RingSpec => []AgesAreConservative
  <1>1. RingKept => AgesAreConservative
    <2> SUFFICES ASSUME RingKept, NEW entries \in {ring, load_persisted(stored_ring)},
                        NEW clock \in Clocks(time, boot), NEW i \in DOMAIN entries,
                        age_comparable(entries[i].age, clock)
                 PROVE  Elapsed(entries[i].age, clock) <= time - created[entries[i].key]
      BY Zenon DEF AgesAreConservative
    <2>1. TruthfulRing(entries, boot, created)
      BY Zenon DEF RingKept
    <2>2. /\ entries[i].age \in Ages /\ entries[i].key \in DOMAIN created
          /\ Truthful(entries[i], boot, created)
      BY Zenon, <2>1, RingEntries
    <2>3. created[entries[i].key] \in Nat
      BY <2>2 DEF RingKept
    <2> QED
      BY Zenon, <2>2, <2>3, TruthfulIsConservative DEF RingKept
  <1> QED
    BY <1>1, RingInvariant, PTL

\* A prepared rotation that was stored can be committed (prepare and commit in ratchet.rs).
THEOREM CandidatesCommit == RingSpec => []StoredCandidatesCommit
  <1>1. RingKept => StoredCandidatesCommit
    BY DEF RingKept
  <1> QED
    BY <1>1, RingInvariant, PTL

----------------------------------------------------------------------------
(* Seen messages                                                             *)

\* Slot of the entry i places behind the head, with the remainder of proof.rs resolved.
SeenPlace(h, i) == IF h + i < N THEN h + i ELSE h + i - N

\* These slots hold, from the head on, the l messages of the log up to this one.
Remembers(slots, h, l, log, upto) ==
    /\ l <= upto
    /\ \A i \in 0 .. l - 1 : slots[SeenPlace(h, i)] = log[upto - l + 1 + i]

\* How many of n messages a ring of N has room for.
Room(n) == IF n <= N THEN n ELSE N

\* Why a message is not stored twice: the ring always holds the last messages stored, as
\* many as it has room for, except while one is being inserted or the ring is rebuilt.
SeenKept ==
    /\ head \in 0 .. N - 1 /\ len \in 0 .. N /\ ids \in [0 .. N - 1 -> Ids \cup {None}]
    /\ persisted \in Seq(Ids)
    /\ \A i, j \in 1 .. Len(persisted) : i < j /\ persisted[i] = persisted[j] => j - i > N
    /\ step \in {"ready", "insert", "down", "restore"}
    /\ step = "ready" =>
          len = Room(Len(persisted)) /\ Remembers(ids, head, len, persisted, Len(persisted))
    /\ step = "insert" =>
          /\ Len(persisted) > 0 /\ current = persisted[Len(persisted)]
          /\ len = Room(Len(persisted) - 1)
          /\ Remembers(ids, head, len, persisted, Len(persisted) - 1)
    /\ step = "down" => len = 0
    /\ step = "restore" =>
          /\ restored \in 0 .. Len(persisted)
          /\ len = restored - (Len(persisted) - Room(Len(persisted)))
          /\ Remembers(ids, head, len, persisted, restored)

\* A slot index computed with % wraps at most once.
LEMMA SeenWraps ==
    ASSUME NEW h \in 0 .. N - 1, NEW i \in 0 .. N
    PROVE  (h + i) % N = SeenPlace(h, i) /\ SeenPlace(h, i) \in 0 .. N - 1
  <1>1. N \in Nat /\ N # 0
    BY SeenAssumption
  <1> QED
    BY <1>1 DEF SeenPlace

\* A message is contained if it is among the last ones stored.
LEMMA ContainsLast ==
    ASSUME head \in 0 .. N - 1, len \in 0 .. N, NEW id, NEW log, NEW upto \in Nat,
           Remembers(ids, head, len, log, upto)
    PROVE  contains(id) <=> \E k \in upto - len + 1 .. upto : log[k] = id
  <1>1. N \in Nat /\ N # 0
    BY SeenAssumption
  <1>2. \A i \in 0 .. len - 1 : ids[(head + i) % N] = log[upto - len + 1 + i]
    <2> SUFFICES ASSUME NEW i \in 0 .. len - 1
                 PROVE  ids[(head + i) % N] = log[upto - len + 1 + i]
      OBVIOUS
    <2>1. i \in 0 .. N
      BY <1>1
    <2>2. (head + i) % N = SeenPlace(head, i)
      BY <2>1, SeenWraps
    <2> QED
      BY <2>2 DEF Remembers
  <1>3. contains(id) <=> \E i \in 0 .. len - 1 : log[upto - len + 1 + i] = id
    BY Zenon, <1>2 DEF contains
  <1>4. ASSUME NEW k \in upto - len + 1 .. upto
        PROVE  /\ k - (upto - len + 1) \in 0 .. len - 1
               /\ upto - len + 1 + (k - (upto - len + 1)) = k
    BY <1>1
  <1>5. ASSUME NEW i \in 0 .. len - 1
        PROVE  upto - len + 1 + i \in upto - len + 1 .. upto
    BY <1>1
  <1> QED
    BY <1>3, <1>4, <1>5

\* insert_if_new: a message that is not contained becomes the last one remembered, in
\* place of the oldest where the ring is full.
LEMMA SeenInserted ==
    ASSUME head \in 0 .. N - 1, len \in 0 .. N, ids \in [0 .. N - 1 -> Ids \cup {None}],
           NEW id \in Ids, NEW log, NEW upto \in Nat, Remembers(ids, head, len, log, upto),
           log[upto + 1] = id, ~contains(id), insert_if_new(id)
    PROVE  /\ head' \in 0 .. N - 1 /\ ids' \in [0 .. N - 1 -> Ids \cup {None}]
           /\ len' = IF len = N THEN N ELSE len + 1
           /\ Remembers(ids', head', len', log, upto + 1)
  <1>1. N \in Nat /\ N # 0
    BY Zenon, SeenAssumption
  <1>2. CASE len = N
    <2>1. ids' = [ids EXCEPT ![head] = id] /\ head' = (head + 1) % N /\ len' = N
      BY <1>2 DEF insert_if_new
    <2>2. head' = SeenPlace(head, 1) /\ head' \in 0 .. N - 1
      <3>1. 1 \in 0 .. N
        BY <1>1
      <3> QED
        BY <2>1, <3>1, SeenWraps
    <2>3. ASSUME NEW i \in 0 .. N - 1
          PROVE  ids'[SeenPlace(head', i)] = log[upto + 1 - N + 1 + i]
      <3>1. CASE i = N - 1
        <4>1. SeenPlace(head', i) = head
          BY <1>1, <2>2, <3>1 DEF SeenPlace
        <4>2. upto + 1 - N + 1 + i = upto + 1
          BY <1>1, <3>1
        <4> QED
          BY <2>1, <4>1, <4>2
      <3>2. CASE i # N - 1
        <4>1. i + 1 \in 0 .. N - 1
          BY <1>1, <3>2
        <4>2. SeenPlace(head', i) = SeenPlace(head, i + 1)
          BY <1>1, <2>2, <4>1 DEF SeenPlace
        <4>3. SeenPlace(head, i + 1) # head /\ SeenPlace(head, i + 1) \in 0 .. N - 1
          BY <1>1, <4>1 DEF SeenPlace
        <4>4. ids[SeenPlace(head, i + 1)] = log[upto - N + 1 + (i + 1)]
          BY <1>2, <4>1 DEF Remembers
        <4>5. upto - N + 1 + (i + 1) = upto + 1 - N + 1 + i
          BY <1>1
        <4> QED
          BY <2>1, <4>2, <4>3, <4>4, <4>5
      <3> QED
        BY <3>1, <3>2
    <2>4. ids' \in [0 .. N - 1 -> Ids \cup {None}]
      BY <2>1
    <2>5. N <= upto + 1
      BY <1>1, <1>2 DEF Remembers
    <2> QED
      BY <1>2, <2>1, <2>2, <2>3, <2>4, <2>5 DEF Remembers
  <1>3. CASE len # N
    <2>1. ids' = [ids EXCEPT ![(head + len) % N] = id] /\ head' = head /\ len' = len + 1
      BY <1>3 DEF insert_if_new
    <2>2. (head + len) % N = SeenPlace(head, len) /\ SeenPlace(head, len) \in 0 .. N - 1
      BY Zenon, <1>1, SeenWraps
    <2>3. ASSUME NEW i \in 0 .. len
          PROVE  ids'[SeenPlace(head, i)] = log[upto + 1 - (len + 1) + 1 + i]
      <3>1. CASE i = len
        <4>1. upto + 1 - (len + 1) + 1 + i = upto + 1
          BY <1>1, <3>1
        <4> QED
          BY <2>1, <2>2, <3>1, <4>1
      <3>2. CASE i # len
        <4>1. i \in 0 .. len - 1 /\ i \in 0 .. N - 1 /\ len \in 0 .. N - 1
          BY <1>1, <1>3, <3>2
        <4>2. SeenPlace(head, i) # SeenPlace(head, len) /\ SeenPlace(head, i) \in 0 .. N - 1
          BY <1>1, <3>2, <4>1 DEF SeenPlace
        <4>3. ids[SeenPlace(head, i)] = log[upto - len + 1 + i]
          BY <4>1 DEF Remembers
        <4>4. upto - len + 1 + i = upto + 1 - (len + 1) + 1 + i
          BY <1>1
        <4> QED
          BY <2>1, <2>2, <4>2, <4>3, <4>4
      <3> QED
        BY <3>1, <3>2
    <2>4. ids' \in [0 .. N - 1 -> Ids \cup {None}]
      BY <2>1, <2>2
    <2>5. len + 1 <= upto + 1 /\ 0 .. (len + 1) - 1 = 0 .. len
      BY <1>1 DEF Remembers
    <2> QED
      BY <1>3, <2>1, <2>3, <2>4, <2>5 DEF Remembers
  <1> QED
    BY <1>2, <1>3

\* What is remembered of a log is remembered of a longer one.
LEMMA RemembersLonger ==
    ASSUME NEW slots, NEW h, NEW l \in Nat, NEW log \in Seq(Ids), NEW id \in Ids,
           NEW upto \in 0 .. Len(log), Remembers(slots, h, l, log, upto)
    PROVE  Remembers(slots, h, l, Append(log, id), upto)
  <1>1. \A i \in 0 .. l - 1 : upto - l + 1 + i \in 1 .. Len(log)
    BY DEF Remembers
  <1>2. \A k \in 1 .. Len(log) : Append(log, id)[k] = log[k]
    BY AppendProperties
  <1> QED
    BY <1>1, <1>2 DEF Remembers

\* A write of a message the ring does not contain.
LEMMA PersistKeeps ==
    ASSUME SeenKept, NEW id \in Ids, Persist(id)
    PROVE  SeenKept'
  <1>1. N \in Nat /\ N # 0
    BY SeenAssumption
  <1>2. /\ step = "ready" /\ ~contains(id) /\ UNCHANGED <<ids, head, len, restored>>
        /\ \/ /\ persisted' = Append(persisted, id) /\ step' = "insert" /\ current' = id
           \/ UNCHANGED <<persisted, step, current>>
    BY Zenon DEF Persist
  <1>3. CASE UNCHANGED <<persisted, step, current>>
    BY <1>2, <1>3 DEF SeenKept, Remembers, SeenPlace, Room
  <1>4. CASE persisted' = Append(persisted, id) /\ step' = "insert" /\ current' = id
    <2> DEFINE n == Len(persisted)
    <2>0. persisted \in Seq(Ids)
      BY DEF SeenKept
    <2>1. /\ n \in Nat /\ persisted' \in Seq(Ids) /\ Len(persisted') = n + 1
          /\ persisted'[n + 1] = id /\ \A k \in 1 .. n : persisted'[k] = persisted[k]
      BY <1>4, <2>0, AppendProperties
    <2>2. /\ len = Room(n) /\ Remembers(ids, head, len, persisted, n)
          /\ head \in 0 .. N - 1 /\ len \in 0 .. N
      BY Zenon, <1>2 DEF SeenKept
    <2>3. Remembers(ids, head, len, persisted', n)
      BY <1>1, <1>4, <2>1, <2>2, RemembersLonger DEF SeenKept
    <2>4. \A k \in n - len + 1 .. n : persisted[k] # id
      BY Zenon, <1>2, <2>1, <2>2, ContainsLast
    <2> HIDE DEF n
    <2>5. ASSUME NEW i \in 1 .. n + 1, NEW j \in 1 .. n + 1, i < j, persisted'[i] = persisted'[j]
          PROVE  j - i > N
      <3>1. CASE j = n + 1
        <4>1. i \in 1 .. n /\ persisted[i] = id
          BY <2>1, <2>5, <3>1
        <4>2. ~(i \in n - len + 1 .. n)
          BY Zenon, <2>4, <4>1
        <4>3. i <= n - N
          BY <1>1, <2>1, <2>2, <4>1, <4>2 DEF Room
        <4> QED
          BY <1>1, <2>1, <3>1, <4>3
      <3>2. CASE j # n + 1
        <4>1. i \in 1 .. n /\ j \in 1 .. n /\ persisted[i] = persisted[j]
          BY <2>1, <2>5, <3>2
        <4> QED
          BY Zenon, <2>5, <4>1 DEF SeenKept, n
      <3> QED
        BY Zenon, <3>1, <3>2
    <2>6. Len(persisted') - 1 = n /\ Len(persisted') > 0
      BY <2>1
    <2> QED
      BY ZenonT(30), <1>2, <1>4, <2>1, <2>2, <2>3, <2>5, <2>6 DEF SeenKept, Remembers, SeenPlace, Room
  <1> QED
    BY <1>2, <1>3, <1>4

\* Every step.
LEMMA SeenStep == SeenKept /\ [SeenNext]_seenVars => SeenKept'
  <1> SUFFICES ASSUME SeenKept, [SeenNext]_seenVars PROVE SeenKept'
    OBVIOUS
  <1> DEFINE n == Len(persisted)
  <1>0. /\ N \in Nat /\ N # 0 /\ n \in Nat /\ persisted \in Seq(Ids)
        /\ head \in 0 .. N - 1 /\ len \in 0 .. N /\ ids \in [0 .. N - 1 -> Ids \cup {None}]
        /\ \A i, j \in 1 .. n : i < j /\ persisted[i] = persisted[j] => j - i > N
    BY SeenAssumption DEF SeenKept
  <1>1. ASSUME NEW id \in Ids, Persist(id) PROVE SeenKept'
    BY <1>1, PersistKeeps
  <1>2. CASE Insert
    <2>1. /\ step = "insert" /\ insert_if_new(current) /\ step' = "ready"
          /\ UNCHANGED <<restored, persisted>>
      BY Zenon, <1>2 DEF Insert
    <2>2. /\ n > 0 /\ current = persisted[n] /\ len = Room(n - 1)
          /\ Remembers(ids, head, len, persisted, n - 1)
      BY <2>1 DEF SeenKept
    <2> HIDE DEF n
    <2>3. n - 1 \in Nat /\ (n - 1) + 1 = n /\ n \in 1 .. n
      BY <1>0, <2>2
    <2>4. ~contains(current)
      <3> SUFFICES ASSUME contains(current) PROVE FALSE
        BY Zenon
      <3>1. PICK k \in (n - 1) - len + 1 .. n - 1 : persisted[k] = current
        BY <1>0, <2>2, <2>3, ContainsLast
      <3>2. k \in 1 .. n /\ k < n /\ n - k <= N
        BY <1>0, <2>2, <2>3, <3>1 DEF Room
      <3>3. n - k > N
        BY Zenon, <1>0, <2>2, <2>3, <3>1, <3>2
      <3> QED
        BY <1>0, <3>2, <3>3
    <2>5. current \in Ids
      BY <1>0, <2>2, <2>3 DEF n
    <2>6. /\ head' \in 0 .. N - 1 /\ ids' \in [0 .. N - 1 -> Ids \cup {None}]
          /\ len' = IF len = N THEN N ELSE len + 1
          /\ Remembers(ids', head', len', persisted, n)
      BY Zenon, <1>0, <2>1, <2>2, <2>3, <2>4, <2>5, SeenInserted
    <2>7. len' = Room(n) /\ len' \in 0 .. N
      BY <1>0, <2>2, <2>3, <2>6 DEF Room
    <2> QED
      BY Zenon, <1>0, <2>1, <2>6, <2>7 DEF SeenKept, Remembers, SeenPlace, Room, n
  <1>3. CASE Crash
    <2>1. /\ ids' = [i \in 0 .. N - 1 |-> None] /\ head' = 0 /\ len' = 0 /\ step' = "down"
          /\ persisted' = persisted
      BY <1>3 DEF Crash
    <2>2. head' \in 0 .. N - 1 /\ len' \in 0 .. N /\ ids' \in [0 .. N - 1 -> Ids \cup {None}]
      BY <1>0, <2>1
    <2> QED
      BY <1>0, <2>1, <2>2 DEF SeenKept
  <1>4. CASE SeenRestart
    <2>1. /\ step = "down" /\ step' = "restore" /\ restored' = n - Room(n)
          /\ UNCHANGED <<ids, head, len, current, persisted>>
      <3>1. /\ step = "down" /\ step' = "restore" /\ restored' = IF n > N THEN n - N ELSE 0
            /\ UNCHANGED <<ids, head, len, current, persisted>>
        BY <1>4 DEF SeenRestart
      <3> HIDE DEF n
      <3>2. (IF n > N THEN n - N ELSE 0) = n - Room(n)
        BY <1>0 DEF Room
      <3> QED
        BY <3>1, <3>2
    <2>2. len = 0
      BY Zenon, <2>1 DEF SeenKept
    <2>3. /\ restored' \in 0 .. n /\ len = restored' - (n - Room(n))
          /\ Remembers(ids, head, len, persisted, restored')
      <3> HIDE DEF n
      <3>1. restored' \in 0 .. n /\ 0 = restored' - (n - Room(n))
        BY <1>0, <2>1 DEF Room
      <3>2. len <= restored' /\ 0 .. len - 1 = {}
        BY <1>0, <2>2, <3>1
      <3> QED
        BY Zenon, <2>2, <3>1, <3>2 DEF Remembers
    <2> QED
      BY Zenon, <1>0, <2>1, <2>3 DEF SeenKept, Remembers, SeenPlace, Room
  <1>5. CASE Restore
    <2>1. /\ step = "restore" /\ UNCHANGED <<current, persisted>>
          /\ restored \in 0 .. n /\ len = restored - (n - Room(n))
          /\ Remembers(ids, head, len, persisted, restored)
      BY <1>5 DEF Restore, SeenKept
    <2>2. CASE restored < n
      <3>1. /\ insert_if_new(persisted[restored + 1]) /\ restored' = restored + 1
            /\ step' = "restore"
        BY <1>5, <2>1, <2>2 DEF Restore
      <3> HIDE DEF n
      <3>2. restored + 1 \in 1 .. n /\ restored \in Nat /\ len < N
        BY <1>0, <2>1, <2>2 DEF Room
      <3>3. ~contains(persisted[restored + 1])
        <4> SUFFICES ASSUME contains(persisted[restored + 1]) PROVE FALSE
          OBVIOUS
        <4>1. PICK k \in restored - len + 1 .. restored : persisted[k] = persisted[restored + 1]
          BY Zenon, <1>0, <2>1, <3>2, ContainsLast
        <4>2. k \in 1 .. n /\ k < restored + 1 /\ (restored + 1) - k <= N
          BY <1>0, <2>1, <3>2 DEF Room
        <4>3. (restored + 1) - k > N
          BY <1>0, <3>2, <4>1, <4>2
        <4> QED
          BY <1>0, <3>2, <4>2, <4>3
      <3>4. persisted[restored + 1] \in Ids
        BY <1>0, <3>2 DEF n
      <3>5. /\ head' \in 0 .. N - 1 /\ ids' \in [0 .. N - 1 -> Ids \cup {None}]
            /\ len' = IF len = N THEN N ELSE len + 1
            /\ Remembers(ids', head', len', persisted, restored + 1)
        BY Zenon, <1>0, <2>1, <3>1, <3>2, <3>3, <3>4, SeenInserted
      <3>6. /\ len' \in 0 .. N /\ restored' \in 0 .. n
            /\ len' = restored' - (n - Room(n))
        BY <1>0, <2>1, <3>1, <3>2, <3>5 DEF Room
      <3> QED
        BY Zenon, <1>0, <2>1, <3>1, <3>5, <3>6 DEF SeenKept, Remembers, SeenPlace, Room, n
    <2>3. CASE ~(restored < n)
      <3>1. step' = "ready" /\ UNCHANGED <<ids, head, len, restored>>
        BY <1>5, <2>3 DEF Restore
      <3>2. restored = n /\ len = Room(n)
        BY <1>0, <2>1, <2>3 DEF Room
      <3> QED
        BY Zenon, <1>0, <2>1, <3>1, <3>2 DEF SeenKept, Remembers, SeenPlace, Room
    <2> QED
      BY Zenon, <2>2, <2>3
  <1>6. CASE UNCHANGED seenVars
    BY <1>6 DEF seenVars, SeenKept, Remembers, SeenPlace, Room
  <1> QED
    BY Zenon, <1>1, <1>2, <1>3, <1>4, <1>5, <1>6 DEF SeenNext

\* Through crashes at any point between storing a message and remembering it, no message is
\* stored again while N later ones have not been (the ring of seen messages, proof.rs).
THEOREM StoredOnce == SeenSpec => []RecentMessagesAreStoredOnce
  <1>1. SeenInit => SeenKept
    <2>1. N \in Nat /\ N # 0
      BY Zenon, SeenAssumption
    <2> QED
      BY <2>1 DEF SeenInit, EmptyRing, SeenKept, Remembers, Room
  <1>2. SeenKept => RecentMessagesAreStoredOnce
    <2> SUFFICES ASSUME SeenKept PROVE RecentMessagesAreStoredOnce
      OBVIOUS
    <2>1. N \in Nat /\ N # 0 /\ Len(persisted) \in Nat /\ DOMAIN persisted = 1 .. Len(persisted)
      BY SeenAssumption DEF SeenKept
    <2>2. ASSUME NEW i \in 0 .. len - 1
          PROVE  \E j \in DOMAIN persisted : persisted[j] = ids[(head + i) % N]
      <3>1. PICK upto \in 0 .. Len(persisted) : Remembers(ids, head, len, persisted, upto)
        <4>1. CASE step = "ready"
          BY <2>1, <4>1 DEF SeenKept
        <4>2. CASE step = "insert"
          BY <2>1, <4>2 DEF SeenKept
        <4>3. CASE step = "restore"
          BY <4>3 DEF SeenKept
        <4>4. step # "down"
          BY <2>2 DEF SeenKept
        <4> QED
          BY Zenon, <4>1, <4>2, <4>3, <4>4 DEF SeenKept
      <3>2. contains(ids[(head + i) % N])
        BY Zenon, <2>2 DEF contains
      <3>3. PICK k \in upto - len + 1 .. upto : persisted[k] = ids[(head + i) % N]
        BY <3>1, <3>2, ContainsLast DEF SeenKept
      <3>4. k \in 1 .. Len(persisted)
        BY <2>1, <3>1, <3>3 DEF SeenKept, Remembers
      <3> QED
        BY Zenon, <2>1, <3>3, <3>4
    <2> QED
      BY <2>1, <2>2 DEF SeenKept, RecentMessagesAreStoredOnce
  <1> QED
    BY <1>1, <1>2, SeenStep, PTL DEF SeenSpec

----------------------------------------------------------------------------
(* The link handshake                                                        *)

\* A link ID that names an attempt that was opened, and its destination.
Names(link, a, att) ==
    a \in Attempts /\ att[a].state # "closed" /\ link = <<att[a].dest, a>>

\* A request is one an attempt made, or the relay made of it.
RequestFits(p, att) ==
    /\ p = Request(p.side, p.key, p.dest, p.trailer)
    /\ Names(<<p.dest, p.key>>, p.key, att)
    /\ p.side = "near" /\ p.key \in Native => p.trailer = pack_signalling(default_signalling)

\* A proof is one a responder made when it derived its keys, and one the relay passed on to
\* an initiator of this implementation has signalling that initiator takes.
ProofFits(p, att, der) ==
    /\ p = LinkProof(p.side, p.link[1], p.link, p.x, p.trailer)
    /\ Names(p.link, p.link[2], att)
    /\ p.trailer \in Int
    /\ [link |-> p.link, keys |-> derive(p.link[2], p.x, p.link), trailer |-> p.trailer] \in der
    /\ p.side = "near" /\ p.link[2] \in Native =>
          \E s \in Parsed(p.trailer) : fixed_endpoint(s) # {}

\* Every packet on the way, by its type.
PacketFits(p, att, der) ==
    /\ p.type = "request" => RequestFits(p, att)
    /\ p.type = "proof" => ProofFits(p, att, der)
    /\ p.type = "identify" => Names(p.link, p.public, att)

\* An entry of the relay was made by a request, and validated by a proof.
TransitFits(e, att, der) ==
    /\ e = [link |-> e.link, dest |-> e.dest, mode |-> e.mode, validated |-> e.validated]
    /\ Names(e.link, e.link[2], att) /\ e.link[1] = e.dest
    /\ e.link[2] \in Native => e.mode = MODE_AES256_CBC
    /\ e.validated => \E d \in der : /\ d.link = e.link
                                     /\ \E s \in Parsed(d.trailer) :
                                           s.mode = e.mode /\ s.mtu \in {0, MTU}

\* A responder's session, whose peer, once identified, is the initiator of its link.
SessionFits(z, att) ==
    /\ z = [link |-> z.link, keys |-> z.keys, peer |-> z.peer]
    /\ z.peer # <<>> => Names(z.link, z.peer[1], att)

\* An established link: what its initiator knows, its responder derived.
Agreed(a, att, der) ==
    /\ att[a].mode = MODE_AES256_CBC /\ att[a].mtu = MTU
    /\ \E d \in der : /\ d.link = <<att[a].dest, a>> /\ d.keys = att[a].keys
                      /\ \E s \in Parsed(d.trailer) :
                            s.mode = MODE_AES256_CBC /\ effective_mtu(s) = {MTU}

\* Why the ends agree: all that is on the way, at the relay and at the responders was made
\* for an attempt under the link ID that names it.
HandshakeKept ==
    /\ attempt = [a \in Attempts |-> attempt[a]] /\ answers \in Nat
    /\ \A p \in net : PacketFits(p, attempt, derived)
    /\ \A e \in transit : TransitFits(e, attempt, derived)
    /\ \A z \in serving : SessionFits(z, attempt)
    /\ \A d \in derived : Names(d.link, d.link[2], attempt)
    /\ \A a \in Native : attempt[a].state = "active" => Agreed(a, attempt, derived)

----------------------------------------------------------------------------
\* The request of this implementation signals AES-256 and the fixed MTU, and is read so.
LEMMA NativeSignalling ==
    /\ \A a \in Native : Trailers(a) \subseteq {pack_signalling(default_signalling)}
    /\ \A s \in Parsed(pack_signalling(default_signalling)) : s.mode = MODE_AES256_CBC
  <1>1. \A s : fixed_endpoint(s) \subseteq {default_signalling}
    BY DEF fixed_endpoint
  <1>2. pack_signalling(default_signalling) = 2097652
    BY DEF pack_signalling, default_signalling, MODE_AES256_CBC, MTU
  <1>3. 2097652 # Absent /\ unpack(2097652).mode = 1
    BY DEF unpack, Absent
  <1>4. \A a \in Native : Trailers(a) \subseteq {pack_signalling(default_signalling)}
    BY <1>1 DEF Trailers
  <1> QED
    BY <1>2, <1>3, <1>4 DEF Parsed, MODE_AES256_CBC

\* Every trailer a responder answers with is three bytes or none.
LEMMA AnswersAreTrailers ==
    ASSUME NEW dest, NEW s, NEW trailer \in Answer(dest, s)
    PROVE  trailer \in Int
  <1>1. pack_signalling(default_signalling) \in Int /\ Absent \in Int
    BY DEF pack_signalling, default_signalling, MODE_AES256_CBC, MTU, Absent
  <1>2. ASSUME NEW o \in Signallings PROVE pack_signalling(o) \in Int
    <2>1. o.mode \in Int /\ o.mtu \in Int
      BY HandshakeAssumption
    <2> QED
      BY <2>1 DEF pack_signalling
  <1> QED
    BY <1>1, <1>2 DEF Answer

\* Signalling within the relay's ceiling has the fixed MTU.
LEMMA CeilingIsFixed ==
    ASSUME NEW trailer \in Int, NEW s \in Parsed(trailer), NEW mtu \in effective_mtu(s),
           mtu <= MTU
    PROVE  s.mtu \in {0, MTU} /\ effective_mtu(s) = {MTU}
  <1>1. s = default_signalling \/ s = unpack(trailer)
    BY DEF Parsed
  <1>2. s.mtu \in Int
    BY <1>1 DEF default_signalling, unpack, MTU
  <1> QED
    BY <1>2 DEF effective_mtu, MTU

\* Signalling the fixed endpoint takes is AES-256 and the MTU.
LEMMA FixedMeans ==
    ASSUME NEW s, fixed_endpoint(s) # {}
    PROVE  s.mode = MODE_AES256_CBC /\ effective_mtu(s) = {MTU}
  BY DEF fixed_endpoint

\* The largest plaintext of a link packet fits the MTU once it is encrypted.
LEMMA LargestFits == HEADER_MINSIZE + link_encrypt(link_mdu(MTU)) <= MTU
  <1>1. link_mdu(MTU) = 431
    BY DEF link_mdu, MTU, HEADER_MINSIZE, TOKEN_OVERHEAD
  <1>2. link_encrypt(431) = 480
    BY DEF link_encrypt, TOKEN_OVERHEAD
  <1> QED
    BY <1>1, <1>2 DEF MTU, HEADER_MINSIZE

----------------------------------------------------------------------------
\* An attempt that was opened stays open, for its destination.
Later(before, after) ==
    \A a \in Attempts : before[a].state # "closed" =>
        after[a].state # "closed" /\ after[a].dest = before[a].dest

\* What names an attempt goes on naming it;
LEMMA NamesLater ==
    ASSUME NEW link, NEW a, NEW before, NEW after, Later(before, after), Names(link, a, before)
    PROVE  Names(link, a, after)
  BY DEF Later, Names

\* so packets fit,
LEMMA PacketLater ==
    ASSUME NEW p, NEW before, NEW after, Later(before, after), NEW d1, NEW d2, d1 \subseteq d2,
           PacketFits(p, before, d1)
    PROVE  PacketFits(p, after, d2)
  BY Zenon, NamesLater DEF PacketFits, RequestFits, ProofFits

\* and the relay's entries,
LEMMA TransitLater ==
    ASSUME NEW e, NEW before, NEW after, Later(before, after), NEW d1, NEW d2, d1 \subseteq d2,
           TransitFits(e, before, d1)
    PROVE  TransitFits(e, after, d2)
  <1>1. Names(e.link, e.link[2], after)
    BY NamesLater DEF TransitFits
  <1> QED
    BY <1>1, Zenon DEF TransitFits

\* and the responders' sessions,
LEMMA SessionLater ==
    ASSUME NEW z, NEW before, NEW after, Later(before, after), SessionFits(z, before)
    PROVE  SessionFits(z, after)
  BY NamesLater, Zenon DEF SessionFits

\* and what was agreed, when more is derived.
LEMMA AgreedLater ==
    ASSUME NEW a, NEW before, NEW after, after[a] = before[a], NEW d1, NEW d2, d1 \subseteq d2,
           Agreed(a, before, d1)
    PROVE  Agreed(a, after, d2)
  BY Zenon DEF Agreed

\* A link request, field by field.
LEMMA RequestFields ==
    ASSUME NEW side, NEW a, NEW dest, NEW trailer
    PROVE  /\ Request(side, a, dest, trailer).type = "request"
           /\ Request(side, a, dest, trailer).side = side
           /\ Request(side, a, dest, trailer).key = a
           /\ Request(side, a, dest, trailer).dest = dest
           /\ Request(side, a, dest, trailer).trailer = trailer
  BY Zenon DEF Request

\* A link proof, field by field.
LEMMA ProofFields ==
    ASSUME NEW side, NEW dest, NEW link, NEW x, NEW trailer
    PROVE  /\ LinkProof(side, dest, link, x, trailer).type = "proof"
           /\ LinkProof(side, dest, link, x, trailer).side = side
           /\ LinkProof(side, dest, link, x, trailer).link = link
           /\ LinkProof(side, dest, link, x, trailer).x = x
           /\ LinkProof(side, dest, link, x, trailer).trailer = trailer
           /\ LinkProof(side, dest, link, x, trailer).signature = Signature(dest, link, x, trailer)
  BY Zenon DEF LinkProof

----------------------------------------------------------------------------
\* The initiator opens an attempt, under a link ID no other has.
LEMMA OpenKeeps ==
    ASSUME HandshakeKept,
           NEW a \in Attempts, NEW dest \in Destinations, NEW side, NEW trailer \in Trailers(a),
           Open(a, dest, trailer, side)
    PROVE  HandshakeKept'
  <1> DEFINE link == Link("pending", dest, trailer, <<>>, 0, 0)
             p == Request(side, a, dest, trailer)
  <1>1. link.state = "pending" /\ link.dest = dest
    BY Zenon DEF Link
  <1>2. /\ attempt' = [attempt EXCEPT ![a] = link] /\ net' = net \cup {p}
        /\ attempt[a].state = "closed"
        /\ UNCHANGED <<transit, serving, derived, answers>>
    BY DEF Open
  <1> HIDE DEF link
  <1>3. /\ attempt' = [b \in Attempts |-> attempt'[b]] /\ attempt'[a] = link
        /\ \A b \in Attempts : b # a => attempt'[b] = attempt[b]
    BY <1>2, Zenon DEF HandshakeKept
  <1>4. Later(attempt, attempt')
    BY <1>2, <1>3, Zenon DEF Later
  <1>5. /\ p.type = "request" /\ p.key = a /\ p.dest = dest /\ p.trailer = trailer
        /\ p.side = side
    BY RequestFields
  <1>6. p = Request(p.side, p.key, p.dest, p.trailer)
    BY <1>5, Zenon
  <1> HIDE DEF p
  <1>7. PacketFits(p, attempt', derived')
    <2>1. Names(<<p.dest, p.key>>, p.key, attempt')
      BY Zenon, <1>1, <1>3, <1>5 DEF Names
    <2>2. p.key \in Native => p.trailer = pack_signalling(default_signalling)
      BY <1>5, NativeSignalling
    <2>3. p.type # "proof" /\ p.type # "identify"
      BY Zenon, <1>5
    <2> QED
      BY <1>6, <2>1, <2>2, <2>3, Zenon DEF PacketFits, RequestFits
  <1>8. \A q \in net' : PacketFits(q, attempt', derived')
    BY Zenon, <1>2, <1>4, <1>7, PacketLater DEF HandshakeKept
  <1>9. \A e \in transit' : TransitFits(e, attempt', derived')
    BY Zenon, <1>2, <1>4, TransitLater DEF HandshakeKept
  <1>10. \A z \in serving' : SessionFits(z, attempt')
    BY Zenon, <1>2, <1>4, SessionLater DEF HandshakeKept
  <1>11. \A d \in derived' : Names(d.link, d.link[2], attempt')
    BY <1>2, <1>4, NamesLater DEF HandshakeKept
  <1>12. ASSUME NEW b \in Native, attempt'[b].state = "active"
         PROVE  Agreed(b, attempt', derived')
    <2>1. b # a /\ b \in Attempts
      BY <1>1, <1>3, <1>12, HandshakeAssumption
    <2>2. attempt'[b] = attempt[b]
      BY Zenon, <1>3, <2>1
    <2> QED
      BY Zenon, <1>2, <1>12, <2>2, AgreedLater DEF HandshakeKept
  <1>13. answers' \in Nat
    BY Zenon, <1>2 DEF HandshakeKept
  <1> QED
    BY Zenon, <1>3, <1>8, <1>9, <1>10, <1>11, <1>12, <1>13 DEF HandshakeKept

\* It takes a proof: the responder derived the same keys.
LEMMA EstablishKeeps ==
    ASSUME HandshakeKept, NEW p \in net, p.type = "proof", NEW a \in Native, Establish(p, a)
    PROVE  HandshakeKept'
  <1>0. a \in Attempts
    BY HandshakeAssumption
  <1>1. PICK s, mtu :
           /\ s \in Parsed(p.trailer) /\ mtu \in effective_mtu(s)
           /\ fixed_endpoint(s) # {}
           /\ attempt' = [attempt EXCEPT ![a] = Link("active", attempt[a].dest, attempt[a].asked,
                             derive(a, p.x, p.link), s.mode, mtu)]
    BY Zenon DEF Establish, validate
  <1>2. /\ attempt[a].state = "pending" /\ p.link = <<attempt[a].dest, a>>
        /\ UNCHANGED <<transit, serving, net, derived, answers>>
    BY Zenon DEF Establish, LinkOf, compute_link_id
  <1>3. s.mode = MODE_AES256_CBC /\ effective_mtu(s) = {MTU} /\ mtu = MTU
    BY <1>1, FixedMeans
  <1> DEFINE link == Link("active", attempt[a].dest, attempt[a].asked,
                          derive(a, p.x, p.link), s.mode, mtu)
  <1>4. /\ link.state = "active" /\ link.dest = attempt[a].dest /\ link.mode = s.mode
        /\ link.mtu = mtu /\ link.keys = derive(a, p.x, p.link)
    BY Zenon DEF Link
  <1>5. attempt' = [attempt EXCEPT ![a] = link]
    BY <1>1
  <1> HIDE DEF link
  <1>6. /\ attempt' = [b \in Attempts |-> attempt'[b]] /\ attempt'[a] = link
        /\ \A b \in Attempts : b # a => attempt'[b] = attempt[b]
    BY <1>0, <1>5, Zenon DEF HandshakeKept
  <1>7. Later(attempt, attempt')
    BY Zenon, <1>2, <1>4, <1>6 DEF Later
  <1>8. \A q \in net' : PacketFits(q, attempt', derived')
    BY Zenon, <1>2, <1>7, PacketLater DEF HandshakeKept
  <1>9. \A e \in transit' : TransitFits(e, attempt', derived')
    BY Zenon, <1>2, <1>7, TransitLater DEF HandshakeKept
  <1>10. \A z \in serving' : SessionFits(z, attempt')
    BY Zenon, <1>2, <1>7, SessionLater DEF HandshakeKept
  <1>11. \A d \in derived' : Names(d.link, d.link[2], attempt')
    BY <1>2, <1>7, NamesLater DEF HandshakeKept
  <1>12. Agreed(a, attempt', derived')
    <2> DEFINE d == [link |-> p.link, keys |-> derive(p.link[2], p.x, p.link),
                     trailer |-> p.trailer]
    <2>1. d \in derived'
      BY Zenon, <1>2 DEF HandshakeKept, PacketFits, ProofFits
    <2>2. d.link = <<attempt'[a].dest, a>> /\ d.keys = attempt'[a].keys
      BY <1>2, <1>4, <1>6
    <2>3. d.trailer = p.trailer
      BY Zenon
    <2> HIDE DEF d
    <2> QED
      BY <1>1, <1>3, <1>4, <1>6, <2>1, <2>2, <2>3, ZenonT(30) DEF Agreed
  <1>13. ASSUME NEW b \in Native, attempt'[b].state = "active"
         PROVE  Agreed(b, attempt', derived')
    <2>1. CASE b = a
      BY <1>12, <2>1
    <2>2. CASE b # a
      <3>1. attempt'[b] = attempt[b]
        BY Zenon, <1>6, <2>2, HandshakeAssumption
      <3> QED
        BY ZenonT(30), <1>2, <1>13, <3>1, AgreedLater DEF HandshakeKept
    <2> QED
      BY <2>1, <2>2
  <1>14. answers' \in Nat
    BY Zenon, <1>2 DEF HandshakeKept
  <1> QED
    BY Zenon, <1>6, <1>8, <1>9, <1>10, <1>11, <1>13, <1>14 DEF HandshakeKept

\* It identifies itself on the link it has established.
LEMMA IdentifyKeeps ==
    ASSUME HandshakeKept, NEW a \in Native, Identify(a)
    PROVE  HandshakeKept'
  <1> DEFINE p == [type |-> "identify", link |-> LinkOf(a), keys |-> attempt[a].keys,
                   public |-> a, signature |-> [by |-> a, over |-> <<LinkOf(a), a>>]]
  <1>1. /\ attempt[a].state = "active" /\ net' = net \cup {p}
        /\ UNCHANGED <<attempt, transit, serving, derived, answers>>
    BY Zenon DEF Identify
  <1>2. p.type = "identify" /\ p.link = <<attempt[a].dest, a>> /\ p.public = a
    BY DEF LinkOf, compute_link_id
  <1> HIDE DEF p
  <1>3. PacketFits(p, attempt, derived)
    <2>1. Names(p.link, p.public, attempt)
      BY Zenon, <1>1, <1>2, HandshakeAssumption DEF Names
    <2>2. p.type # "request" /\ p.type # "proof"
      BY Zenon, <1>2
    <2> QED
      BY <2>1, <2>2, Zenon DEF PacketFits
  <1> QED
    BY <1>1, <1>3 DEF HandshakeKept

\* The relay passes a request on, with the signalling it may pass.
LEMMA RelayRequestKeeps ==
    ASSUME HandshakeKept, NEW p \in net, p.type = "request", RelayRequest(p)
    PROVE  HandshakeKept'
  <1>1. PICK s \in Parsed(p.trailer) :
           /\ net' = net \cup {Request("far", p.key, p.dest,
                              IF s.mode = MODE_AES256_CBC THEN Absent ELSE p.trailer)}
           /\ transit' = transit \cup {[link |-> <<p.dest, p.key>>, dest |-> p.dest,
                                        mode |-> s.mode, validated |-> FALSE]}
    BY Zenon DEF RelayRequest, compute_link_id
  <1>2. p.side = "near" /\ UNCHANGED <<attempt, serving, derived, answers>>
    BY DEF RelayRequest
  <1>3. RequestFits(p, attempt)
    BY Zenon DEF HandshakeKept, PacketFits
  <1> DEFINE t == IF s.mode = MODE_AES256_CBC THEN Absent ELSE p.trailer
             q == Request("far", p.key, p.dest, t)
             e == [link |-> <<p.dest, p.key>>, dest |-> p.dest, mode |-> s.mode,
                   validated |-> FALSE]
  <1>4. net' = net \cup {q} /\ transit' = transit \cup {e}
    BY Zenon, <1>1
  <1> HIDE DEF t
  <1>5. /\ q.type = "request" /\ q.side = "far" /\ q.key = p.key /\ q.dest = p.dest
        /\ q.trailer = t
    BY DEF Request
  <1>6. q = Request(q.side, q.key, q.dest, q.trailer)
    BY <1>5, ZenonT(30)
  <1>7. /\ e.link = <<p.dest, p.key>> /\ e.dest = p.dest /\ e.mode = s.mode
        /\ e.validated = FALSE
        /\ e = [link |-> e.link, dest |-> e.dest, mode |-> e.mode, validated |-> e.validated]
    OBVIOUS
  <1> HIDE DEF q, e
  <1>8. PacketFits(q, attempt, derived)
    <2>1. q.type # "proof" /\ q.type # "identify" /\ q.side # "near"
      BY <1>5
    <2>2. Names(<<q.dest, q.key>>, q.key, attempt)
      BY Zenon, <1>3, <1>5 DEF RequestFits
    <2> QED
      BY <1>6, <2>1, <2>2, Zenon DEF PacketFits, RequestFits
  <1>9. TransitFits(e, attempt, derived)
    <2>1. e.link[2] = p.key /\ e.link[1] = e.dest
      BY <1>7
    <2>2. Names(e.link, e.link[2], attempt)
      BY Zenon, <1>3, <1>7, <2>1 DEF RequestFits
    <2>3. e.link[2] \in Native => e.mode = MODE_AES256_CBC
      <3>1. p.key \in Native => p.trailer = pack_signalling(default_signalling)
        BY Zenon, <1>2, <1>3 DEF RequestFits
      <3> QED
        BY Zenon, <1>7, <2>1, <3>1, NativeSignalling
    <2> QED
      BY Zenon, <1>7, <2>1, <2>2, <2>3 DEF TransitFits
  <1> QED
    BY Zenon, <1>2, <1>4, <1>8, <1>9 DEF HandshakeKept

\* It passes a proof back, of a link it has an entry for.
LEMMA RelayProofKeeps ==
    ASSUME HandshakeKept, NEW p \in net, p.type = "proof", RelayProof(p)
    PROVE  HandshakeKept'
  <1>1. PICK e \in transit :
           /\ e.link = p.link
           /\ validate_transit_lrproof(p, e)
           /\ net' = net \cup {[p EXCEPT !.side = "near"]}
           /\ transit' = (transit \ {e}) \cup {[e EXCEPT !.validated = TRUE]}
    BY DEF RelayProof
  <1>2. UNCHANGED <<attempt, serving, derived, answers>>
    BY DEF RelayProof
  <1>3. PICK s \in Parsed(p.trailer) :
           s.mode = e.mode /\ \E mtu \in effective_mtu(s) : mtu <= MTU
    BY <1>1 DEF validate_transit_lrproof
  <1>4. ProofFits(p, attempt, derived) /\ TransitFits(e, attempt, derived)
    BY DEF HandshakeKept, PacketFits
  <1>5. s.mtu \in {0, MTU} /\ effective_mtu(s) = {MTU}
    BY Zenon, <1>3, <1>4, CeilingIsFixed DEF ProofFits
  <1> DEFINE passed == TRUE
             q == [p EXCEPT !.side = "near"]
             f == [e EXCEPT !.validated = passed]
  <1>6. net' = net \cup {q} /\ transit' = (transit \ {e}) \cup {f}
    BY <1>1
  <1> HIDE DEF passed
  <1>7. q = LinkProof("near", p.link[1], p.link, p.x, p.trailer)
    <2>1. p = LinkProof(p.side, p.link[1], p.link, p.x, p.trailer)
      BY Zenon, <1>4 DEF ProofFits
    <2> QED
      BY <2>1 DEF LinkProof
  <1>8. f = [link |-> e.link, dest |-> e.dest, mode |-> e.mode, validated |-> passed]
    BY <1>4 DEF TransitFits
  <1> HIDE DEF q, f
  <1>9. /\ q.type = "proof" /\ q.side = "near" /\ q.link = p.link /\ q.x = p.x
        /\ q.trailer = p.trailer
    BY <1>7, ProofFields
  <1>10. f.link = e.link /\ f.dest = e.dest /\ f.mode = e.mode
    BY <1>8
  <1>11. PacketFits(q, attempt, derived)
    <2>1. q.type # "request" /\ q.type # "identify"
      BY <1>9
    <2>2. q = LinkProof(q.side, q.link[1], q.link, q.x, q.trailer)
      BY <1>7, <1>9, Zenon
    <2>3. q.link[2] \in Native => fixed_endpoint(s) # {}
      BY <1>1, <1>3, <1>4, <1>5, <1>9 DEF fixed_endpoint, TransitFits
    <2>4. /\ Names(q.link, q.link[2], attempt) /\ q.trailer \in Int
          /\ [link |-> q.link, keys |-> derive(q.link[2], q.x, q.link),
              trailer |-> q.trailer] \in derived
      BY <1>4, <1>9, Zenon DEF ProofFits
    <2> QED
      BY <1>3, <1>9, <2>1, <2>2, <2>3, <2>4, Zenon DEF PacketFits, ProofFits
  <1>12. TransitFits(f, attempt, derived)
    <2>1. \E d \in derived : d.link = f.link /\ d.trailer = p.trailer
      BY Zenon, <1>1, <1>4, <1>10 DEF ProofFits
    <2>2. \E d \in derived : /\ d.link = f.link
                             /\ \E z \in Parsed(d.trailer) :
                                   z.mode = f.mode /\ z.mtu \in {0, MTU}
      BY Zenon, <1>3, <1>5, <1>10, <2>1
    <2>3. f = [link |-> f.link, dest |-> f.dest, mode |-> f.mode, validated |-> f.validated]
      BY <1>8
    <2>4. /\ Names(f.link, f.link[2], attempt) /\ f.link[1] = f.dest
          /\ f.link[2] \in Native => f.mode = MODE_AES256_CBC
      BY <1>4, <1>10, Zenon DEF TransitFits
    <2> QED
      BY <2>2, <2>3, <2>4, Zenon DEF TransitFits
  <1> QED
    BY <1>2, <1>6, <1>11, <1>12 DEF HandshakeKept

\* A responder answers a request, and derives the keys of the link.
LEMMA RespondKeeps ==
    ASSUME HandshakeKept, NEW p \in net, p.type = "request",
           NEW side \in {"far", "direct"}, Respond(p, side)
    PROVE  HandshakeKept'
  <1> DEFINE link == <<p.dest, p.key>>
             x == answers + 1
             keys == derive(p.key, x, link)
             z == [link |-> link, keys |-> keys, peer |-> <<>>]
  <1>1. PICK s, trailer :
           /\ s \in Parsed(p.trailer) /\ trailer \in Answer(p.dest, s)
           /\ net' = net \cup {LinkProof(side, p.dest, link, x, trailer)}
           /\ derived' = derived \cup {[link |-> link, keys |-> keys, trailer |-> trailer]}
    BY Zenon DEF Respond, compute_link_id
  <1>2. /\ serving' = serving \cup {z} /\ UNCHANGED <<attempt, transit>>
        /\ answers' = answers + 1
    BY Zenon DEF Respond, compute_link_id
  <1>3. Names(link, p.key, attempt)
    BY DEF HandshakeKept, PacketFits, RequestFits
  <1>4. link[1] = p.dest /\ link[2] = p.key
    BY Zenon
  <1>5. z.link = link /\ z.peer = <<>> /\ z = [link |-> z.link, keys |-> z.keys, peer |-> z.peer]
    BY Zenon
  <1> DEFINE d == [link |-> link, keys |-> keys, trailer |-> trailer]
             q == LinkProof(side, p.dest, link, x, trailer)
  <1>6. /\ q.type = "proof" /\ q.side = side /\ q.link = link /\ q.x = x
        /\ q.trailer = trailer
    BY Zenon DEF LinkProof
  <1>7. d.link = link
    BY Zenon
  <1>8. net' = net \cup {q} /\ derived' = derived \cup {d}
    BY Zenon, <1>1
  <1>9. trailer \in Int
    BY <1>1, AnswersAreTrailers
  <1> HIDE DEF link, x, z
  <1>10. q = LinkProof(q.side, q.link[1], q.link, q.x, q.trailer)
    BY <1>4, <1>6, Zenon
  <1>11. [link |-> q.link, keys |-> derive(q.link[2], q.x, q.link), trailer |-> q.trailer]
           \in derived'
    BY Zenon, <1>4, <1>6, <1>8
  <1> HIDE DEF q, d, keys
  <1>12. PacketFits(q, attempt, derived')
    <2>1. q.type # "request" /\ q.type # "identify" /\ q.side # "near"
      BY <1>6
    <2>2. Names(q.link, q.link[2], attempt) /\ q.trailer \in Int
      BY ZenonT(30), <1>3, <1>4, <1>6, <1>9
    <2> QED
      BY <1>10, <1>11, <2>1, <2>2, Zenon DEF PacketFits, ProofFits
  <1>13. Later(attempt, attempt) /\ derived \subseteq derived'
    BY Zenon, <1>8 DEF Later
  <1>14. \A r \in net' : PacketFits(r, attempt', derived')
    BY Zenon, <1>2, <1>8, <1>12, <1>13, PacketLater DEF HandshakeKept
  <1>15. \A e \in transit' : TransitFits(e, attempt', derived')
    BY <1>2, <1>13, TransitLater DEF HandshakeKept
  <1>16. \A y \in serving' : SessionFits(y, attempt')
    <2>1. SessionFits(z, attempt)
      BY <1>5, Zenon DEF SessionFits
    <2> QED
      BY <1>2, <2>1 DEF HandshakeKept
  <1>17. \A c \in derived' : Names(c.link, c.link[2], attempt')
    BY Zenon, <1>2, <1>3, <1>4, <1>7, <1>8 DEF HandshakeKept
  <1>18. \A a \in Native : attempt'[a].state = "active" => Agreed(a, attempt', derived')
    BY Zenon, <1>2, <1>13, AgreedLater DEF HandshakeKept
  <1>19. answers' \in Nat /\ attempt' = [a \in Attempts |-> attempt'[a]]
    BY <1>2 DEF HandshakeKept
  <1> QED
    BY Zenon, <1>14, <1>15, <1>16, <1>17, <1>18, <1>19 DEF HandshakeKept

\* It takes an identification, of the peer the link was opened by.
LEMMA IdentifiedKeeps ==
    ASSUME HandshakeKept, NEW p \in net, p.type = "identify", Identified(p)
    PROVE  HandshakeKept'
  <1>1. PICK z \in serving :
           /\ z.link = p.link
           /\ serving' = (serving \ {z}) \cup {[z EXCEPT !.peer = <<p.public>>]}
    BY DEF Identified
  <1>2. UNCHANGED <<attempt, transit, net, derived, answers>>
    BY DEF Identified
  <1> DEFINE y == [z EXCEPT !.peer = <<p.public>>]
  <1>3. y = [link |-> z.link, keys |-> z.keys, peer |-> <<p.public>>]
    BY DEF HandshakeKept, SessionFits
  <1>4. serving' = (serving \ {z}) \cup {y}
    BY <1>1
  <1> HIDE DEF y
  <1>5. /\ y = [link |-> y.link, keys |-> y.keys, peer |-> y.peer]
        /\ y.peer[1] = p.public /\ y.link = p.link
    BY <1>1, <1>3
  <1>6. Names(p.link, p.public, attempt)
    BY DEF HandshakeKept, PacketFits
  <1>7. SessionFits(y, attempt)
    BY <1>5, <1>6, Zenon DEF SessionFits
  <1> QED
    BY <1>2, <1>4, <1>7 DEF HandshakeKept

\* Every step keeps the invariant.
LEMMA HandshakeStep == HandshakeKept /\ [HandshakeNext]_handshakeVars => HandshakeKept'
  <1> SUFFICES ASSUME HandshakeKept, [HandshakeNext]_handshakeVars PROVE HandshakeKept'
    OBVIOUS
  <1>1. ASSUME NEW a \in Attempts, NEW dest \in Destinations, NEW side \in {"near", "direct"},
               NEW trailer \in Trailers(a), Open(a, dest, trailer, side)
        PROVE  HandshakeKept'
    BY <1>1, OpenKeeps
  <1>2. ASSUME NEW a \in Native, Identify(a) PROVE HandshakeKept'
    BY <1>2, IdentifyKeeps
  <1>3. ASSUME NEW p \in net, p.type = "request", RelayRequest(p) PROVE HandshakeKept'
    BY <1>3, RelayRequestKeeps
  <1>4. ASSUME NEW p \in net, p.type = "request", NEW side \in {"far", "direct"}, Respond(p, side)
        PROVE  HandshakeKept'
    BY <1>4, RespondKeeps
  <1>5. ASSUME NEW p \in net, p.type = "proof", RelayProof(p) PROVE HandshakeKept'
    BY <1>5, RelayProofKeeps
  <1>6. ASSUME NEW p \in net, p.type = "proof", NEW a \in Native, Establish(p, a)
        PROVE  HandshakeKept'
    BY <1>6, EstablishKeeps
  <1>7. ASSUME NEW p \in net, p.type = "identify", Identified(p) PROVE HandshakeKept'
    BY <1>7, IdentifiedKeeps
  <1>8. ASSUME NEW e \in transit, Forget(e) PROVE HandshakeKept'
    BY <1>8 DEF HandshakeKept, Forget
  <1>9. ASSUME HandshakeRestart PROVE HandshakeKept'
    BY Zenon, <1>9 DEF HandshakeKept, HandshakeRestart
  <1>10. ASSUME UNCHANGED handshakeVars PROVE HandshakeKept'
    BY <1>10 DEF HandshakeKept, handshakeVars
  <1> QED
    BY <1>1, <1>2, <1>3, <1>4, <1>5, <1>6, <1>7, <1>8, <1>9, <1>10, Zenon DEF HandshakeNext

\* It holds before the first attempt.
LEMMA HandshakeBegins == HandshakeInit => HandshakeKept
  <1> SUFFICES ASSUME HandshakeInit PROVE HandshakeKept
    OBVIOUS
  <1>1. attempt = [a \in Attempts |-> attempt[a]]
    BY Zenon DEF HandshakeInit
  <1>2. \A a \in Native : attempt[a].state # "active"
    BY HandshakeAssumption DEF HandshakeInit, Closed, Link
  <1> QED
    BY Zenon, <1>1, <1>2 DEF HandshakeInit, HandshakeKept

\* Ends agree: the responder derived what the initiator uses.
LEMMA KeptEndsAgree == HandshakeKept => EndsAgree
  <1> SUFFICES ASSUME HandshakeKept PROVE EndsAgree
    OBVIOUS
  <1>1. \A a : LinkOf(a) = <<attempt[a].dest, a>>
    BY DEF LinkOf, compute_link_id
  <1>2. ASSUME NEW a \in Native, attempt[a].state = "active"
        PROVE  /\ attempt[a].mode = MODE_AES256_CBC /\ attempt[a].mtu = MTU
               /\ HEADER_MINSIZE + link_encrypt(link_mdu(attempt[a].mtu)) <= attempt[a].mtu
               /\ \E d \in derived :
                     /\ d.link = LinkOf(a) /\ d.keys = attempt[a].keys
                     /\ \E s \in Parsed(d.trailer) :
                           s.mode = attempt[a].mode /\ effective_mtu(s) = {attempt[a].mtu}
    <2>1. Agreed(a, attempt, derived)
      BY Zenon, <1>2 DEF HandshakeKept
    <2>2. attempt[a].mode = MODE_AES256_CBC /\ attempt[a].mtu = MTU
      BY Zenon, <2>1 DEF Agreed
    <2>3. HEADER_MINSIZE + link_encrypt(link_mdu(attempt[a].mtu)) <= attempt[a].mtu
      BY <2>2, LargestFits
    <2> QED
      BY Zenon, <1>1, <2>1, <2>2, <2>3 DEF Agreed
  <1>3. \A d \in derived : \E a \in Attempts : d.link = LinkOf(a)
    BY <1>1 DEF HandshakeKept, Names
  <1>4. \A z \in serving : z.peer # <<>> => z.link = LinkOf(z.peer[1])
    BY Zenon, <1>1 DEF HandshakeKept, SessionFits, Names
  <1> QED
    BY Zenon, <1>2, <1>3, <1>4 DEF EndsAgree

\* What the relay let pass is what an initiator of this implementation takes.
LEMMA KeptProofsAccepted == HandshakeKept => RelayedProofsAreAccepted
  <1> SUFFICES ASSUME HandshakeKept PROVE RelayedProofsAreAccepted
    OBVIOUS
  <1>1. ASSUME NEW p \in net, p.type = "proof", p.side = "near", NEW a \in Native,
               p.link = LinkOf(a)
        PROVE  \E s \in Parsed(p.trailer) : validate(p, s, attempt[a].dest, p.link)
    <2>1. ProofFits(p, attempt, derived)
      BY Zenon, <1>1 DEF HandshakeKept, PacketFits
    <2>2. p.link[2] = a /\ p.link[1] = attempt[a].dest
      <3>1. p.link = <<attempt[a].dest, a>>
        BY Zenon, <1>1 DEF LinkOf, compute_link_id
      <3> QED
        BY <3>1
    <2>3. PICK s \in Parsed(p.trailer) : fixed_endpoint(s) # {}
      BY Zenon, <1>1, <2>1, <2>2 DEF ProofFits
    <2>4. p.signature = Signature(p.link[1], p.link, p.x, p.trailer)
      <3>1. p = LinkProof(p.side, p.link[1], p.link, p.x, p.trailer)
        BY Zenon, <2>1 DEF ProofFits
      <3> QED
        BY <3>1, ProofFields
    <2> QED
      BY Zenon, <2>2, <2>3, <2>4 DEF validate
  <1>2. \A e \in transit : e.validated =>
          \E d \in derived : /\ d.link = e.link
                              /\ \E s \in Parsed(d.trailer) :
                                    s.mode = e.mode /\ s.mtu \in {0, MTU}
    BY DEF HandshakeKept, TransitFits
  <1> QED
    BY Zenon, <1>1, <1>2 DEF RelayedProofsAreAccepted

\* For any attempts, responders and relay, an established link has one mode, one MTU, one set
\* of keys and one peer at both ends (the handshake of link.rs through transport.rs).
THEOREM LinkEndsAgree == HandshakeSpec => []EndsAgree
  <1>1. HandshakeSpec => []HandshakeKept
    BY HandshakeBegins, HandshakeStep, PTL DEF HandshakeSpec
  <1> QED
    BY <1>1, KeptEndsAgree, PTL

\* A proof a relay has passed on is never refused for its signalling by an initiator of this
\* implementation (validate_transit_lrproof in transport.rs, LinkProofView in link.rs).
THEOREM RelayedProofsAccepted == HandshakeSpec => []RelayedProofsAreAccepted
  <1>1. HandshakeSpec => []HandshakeKept
    BY HandshakeBegins, HandshakeStep, PTL DEF HandshakeSpec
  <1> QED
    BY <1>1, KeptProofsAccepted, PTL
============================================================================
