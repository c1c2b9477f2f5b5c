----------------------------- MODULE NodeProofs -----------------------------
(***************************************************************************)
(* What a node keeps and the limits it works within: its table of known    *)
(* destinations, whose order of recency is their order of use, and that of *)
(* its peers' ratchets; the budgets of its announces; and the slots and    *)
(* sizes its set-up installs.  KnownKept, PeerKept, PacingKept and         *)
(* SetupKept are the inductive invariants; every action keeps them.        *)
(*                                                                         *)
(* First the facts about numbers and sequences they use: least and         *)
(* greatest members, induction for a property given as a set, and what     *)
(* Subsequences!Only keeps of a sequence (Vec::retain).                    *)
(***************************************************************************)
EXTENDS KnownDestinations, PeerRatchets, AnnouncePacing, NodeSetup, SequenceTheorems,
        FiniteSetTheorems, WellFoundedInduction, TLAPS

\* The time every leaf may take that names no prover of its own.
USE SMTT(60)

\* Every inhabited set of naturals has a least member.
LEMMA LeastNumber ==
    ASSUME NEW S, S \subseteq Nat, S # {}
    PROVE  \E n \in S : \A m \in S : n <= m
  <1> DEFINE R == OpToRel(<, Nat)
  <1>1. \E n \in S : \A m \in S : <<m, n>> \notin R
    BY NatLessThanWellFounded, WFMin, Zenon
  <1>2. \A n, m : <<m, n>> \in R <=> m \in Nat /\ n \in Nat /\ m < n
    BY DEF OpToRel
  <1> HIDE DEF R
  <1>3. PICK n \in S : \A m \in S : <<m, n>> \notin R
    BY <1>1
  <1>4. \A m \in S : ~(m < n)
    BY <1>2, <1>3, Zenon
  <1>5. \A m \in S : n <= m
    BY <1>4
  <1> QED
    BY <1>5

\* Induction, for a property given by the set of numbers that have it.
LEMMA Induction ==
    ASSUME NEW S, 0 \in S, \A n \in Nat : n \in S => n + 1 \in S
    PROVE  \A n \in Nat : n \in S
  <1> SUFFICES ASSUME Nat \ S # {} PROVE FALSE
    OBVIOUS
  <1>1. PICK n \in Nat \ S : \A m \in Nat \ S : n <= m
    BY Zenon, LeastNumber
  <1>2. n \in Nat /\ n # 0
    BY <1>1
  <1>3. n - 1 \in Nat /\ n - 1 \in S
    BY <1>1, <1>2
  <1> QED
    BY <1>1, <1>2, <1>3

----------------------------------------------------------------------------
\* The rank grows by one at every kept index, from none to all of them.
LEMMA RankSteps ==
    ASSUME NEW n \in Nat, NEW kept, kept \subseteq 1 .. n
    PROVE  /\ IsFiniteSet(kept) /\ Cardinality(kept) \in Nat
           /\ \A i \in Nat : Rank(kept, i) \in Nat
           /\ Rank(kept, 0) = 0 /\ Rank(kept, n) = Cardinality(kept)
           /\ \A i \in Nat : Rank(kept, i + 1) = Rank(kept, i) + IF i + 1 \in kept THEN 1 ELSE 0
  <1>0. \A j \in kept : j \in Nat /\ j >= 1 /\ j <= n
    OBVIOUS
  <1>1. IsFiniteSet(kept) /\ Cardinality(kept) \in Nat
    <2>1. IsFiniteSet(1 .. n)
      BY FS_Interval
    <2>2. IsFiniteSet(kept)
      BY Zenon, <2>1, FS_Subset
    <2> QED
      BY <2>2, FS_CardinalityType
  <1> DEFINE upto(i) == {j \in kept : j <= i}
  <1>2. ASSUME NEW i \in Nat PROVE IsFiniteSet(upto(i)) /\ Cardinality(upto(i)) \in Nat
    <2>1. upto(i) \subseteq kept
      OBVIOUS
    <2> HIDE DEF upto
    <2> QED
      BY <1>1, <2>1, FS_Subset, FS_CardinalityType
  <1>3. upto(0) = {} /\ upto(n) = kept
    <2>1. \A j \in kept : ~(j <= 0) /\ j <= n
      BY <1>0
    <2> QED
      BY <2>1, Zenon
  <1>4. ASSUME NEW i \in Nat
        PROVE  Cardinality(upto(i + 1)) = Cardinality(upto(i)) + IF i + 1 \in kept THEN 1 ELSE 0
    <2>1. CASE i + 1 \in kept
      <3>1. upto(i + 1) = upto(i) \cup {i + 1} /\ i + 1 \notin upto(i)
        <4>1. ~(i + 1 <= i) /\ \A j \in kept : j <= i + 1 <=> j <= i \/ j = i + 1
          BY <1>0
        <4> QED
          BY Zenon, <2>1, <4>1
      <3> HIDE DEF upto
      <3>2. Cardinality(upto(i) \cup {i + 1}) = Cardinality(upto(i)) + 1
        BY Zenon, <1>2, <3>1, FS_AddElement
      <3> QED
        BY <2>1, <3>1, <3>2
    <2>2. CASE i + 1 \notin kept
      <3>1. upto(i + 1) = upto(i)
        <4>1. \A j \in kept : j <= i + 1 <=> j <= i \/ j = i + 1
          BY <1>0
        <4> QED
          BY Zenon, <2>2, <4>1
      <3> HIDE DEF upto
      <3> QED
        BY <1>2, <2>2, <3>1
    <2> QED
      BY <2>1, <2>2
  <1>5. Cardinality({}) = 0
    BY FS_EmptySet, Zenon
  <1>6. \A i : Rank(kept, i) = Cardinality(upto(i))
    BY DEF Rank
  <1> HIDE DEF upto
  <1>7. /\ Rank(kept, 0) = 0 /\ Rank(kept, n) = Cardinality(kept)
    BY <1>3, <1>5, <1>6, Zenon
  <1> QED
    BY <1>1, <1>2, <1>4, <1>6, <1>7

\* A member's rank is one more than that of its predecessor.
LEMMA RankBefore ==
    ASSUME NEW n \in Nat, NEW kept, kept \subseteq 1 .. n, NEW i \in kept
    PROVE  /\ i \in Nat /\ i - 1 \in Nat
           /\ Rank(kept, i) = Rank(kept, i - 1) + 1
           /\ Rank(kept, i) \in Nat /\ Rank(kept, i - 1) \in Nat
  <1> DEFINE k == i - 1
  <1>1. i \in Nat /\ k \in Nat /\ k + 1 = i
    OBVIOUS
  <1> HIDE DEF k
  <1>2. /\ \A j \in Nat : Rank(kept, j) \in Nat
        /\ \A j \in Nat : Rank(kept, j + 1) = Rank(kept, j) + IF j + 1 \in kept THEN 1 ELSE 0
    BY ZenonT(30), RankSteps
  <1>3. Rank(kept, i) = Rank(kept, k) + 1
    BY <1>1, <1>2
  <1>4. Rank(kept, i) \in Nat /\ Rank(kept, k) \in Nat
    BY <1>1, <1>2
  <1> QED
    BY <1>1, <1>3, <1>4 DEF k

\* Ranks keep the order of the indices.
LEMMA RankOrders ==
    ASSUME NEW n \in Nat, NEW kept, kept \subseteq 1 .. n, NEW i \in kept, NEW j \in kept, i < j
    PROVE  Rank(kept, i) < Rank(kept, j)
  <1>1. i \in Nat /\ j \in Nat /\ j - 1 \in Nat /\ i <= j - 1
    OBVIOUS
  <1>2. Rank(kept, j) = Rank(kept, j - 1) + 1
    BY Zenon, RankBefore
  <1>3. Rank(kept, i) <= Rank(kept, j - 1)
    <2> DEFINE A == {k \in kept : k <= i}
               B == {k \in kept : k <= j - 1}
    <2>1. A \subseteq B /\ B \subseteq kept
      <3>1. \A k \in kept : k <= i => k <= j - 1
        <4>1. \A k \in kept : k \in Nat
          OBVIOUS
        <4> QED
          BY <1>1, <4>1
      <3> QED
        BY <3>1, Zenon
    <2>2. Rank(kept, i) = Cardinality(A) /\ Rank(kept, j - 1) = Cardinality(B)
      BY DEF Rank
    <2> HIDE DEF A, B
    <2>3. IsFiniteSet(B)
      <3>1. IsFiniteSet(kept)
        BY Zenon, RankSteps
      <3> QED
        BY Zenon, <2>1, <3>1, FS_Subset
    <2> QED
      BY Zenon, <2>1, <2>2, <2>3, FS_Subset
  <1>4. Rank(kept, i) \in Nat /\ Rank(kept, j - 1) \in Nat
    BY Zenon, <1>1, RankSteps
  <1> QED
    BY <1>2, <1>3, <1>4

\* Every rank up to the number of kept indices is the rank of one of them.
LEMMA RankReached ==
    ASSUME NEW n \in Nat, NEW kept, kept \subseteq 1 .. n, NEW m \in 1 .. Cardinality(kept)
    PROVE  \E i \in kept : Rank(kept, i) = m
  <1> DEFINE S == {k \in Nat : \A r \in 1 .. Rank(kept, k) : \E i \in kept : Rank(kept, i) = r}
  <1>1. 0 \in S
    <2>1. Rank(kept, 0) = 0
      BY Zenon, RankSteps
    <2> QED
      BY <2>1
  <1>2. ASSUME NEW k \in Nat, k \in S PROVE k + 1 \in S
    <2>1. Rank(kept, k + 1) = Rank(kept, k) + IF k + 1 \in kept THEN 1 ELSE 0
      BY ZenonT(30), RankSteps
    <2>2. Rank(kept, k) \in Nat
      BY Zenon, RankSteps
    <2>3. ASSUME NEW r \in 1 .. Rank(kept, k + 1) PROVE \E i \in kept : Rank(kept, i) = r
      <3>1. CASE r \in 1 .. Rank(kept, k)
        BY <1>2, <3>1
      <3>2. CASE r \notin 1 .. Rank(kept, k)
        <4>1. k + 1 \in kept /\ r = Rank(kept, k + 1)
          BY <2>1, <2>2, <3>2
        <4> QED
          BY <4>1
      <3> QED
        BY <3>1, <3>2
    <2> QED
      BY <2>3
  <1>3. n \in S
    <2> HIDE DEF S
    <2> QED
      BY <1>1, <1>2, Induction
  <1>4. Rank(kept, n) = Cardinality(kept)
    BY Zenon, RankSteps
  <1> QED
    BY <1>3, <1>4

\* The kept indices, each once and in ascending order.
Lists(at, kept) ==
    /\ at \in [1 .. Cardinality(kept) -> kept]
    /\ \A i \in kept : \E m \in 1 .. Cardinality(kept) : at[m] = i
    /\ \A m, k \in 1 .. Cardinality(kept) : m < k <=> at[m] < at[k]

\* What Only returns: as many elements as there are kept indices, in their order.
LEMMA OnlyKept ==
    ASSUME NEW S, NEW q \in Seq(S), NEW kept, kept \subseteq DOMAIN q
    PROVE  /\ Only(q, kept) \in Seq(S) /\ Len(Only(q, kept)) = Cardinality(kept)
           /\ Cardinality(kept) \in Nat
           /\ \E at : /\ Lists(at, kept)
                      /\ \A m \in 1 .. Cardinality(kept) : Only(q, kept)[m] = q[at[m]]
  <1> DEFINE n == Len(q)
             c == Cardinality(kept)
             at == [m \in 1 .. c |-> CHOOSE i \in kept : Rank(kept, i) = m]
  <1>1. n \in Nat /\ kept \subseteq 1 .. n /\ DOMAIN q = 1 .. n
    OBVIOUS
  <1>2. c \in Nat
    BY <1>1, RankSteps
  <1>3. \A m \in 1 .. c : at[m] \in kept /\ Rank(kept, at[m]) = m
    BY <1>1, RankReached
  <1>4. \A i \in kept : Rank(kept, i) \in 1 .. c
    <2> SUFFICES ASSUME NEW i \in kept PROVE Rank(kept, i) \in 1 .. c
      OBVIOUS
    <2>2. /\ Rank(kept, i) = Rank(kept, i - 1) + 1
          /\ Rank(kept, i) \in Nat /\ Rank(kept, i - 1) \in Nat
      BY <1>1, RankBefore
    <2>3. Rank(kept, i) <= c
      <3>1. {j \in kept : j <= i} \subseteq kept /\ IsFiniteSet(kept)
        BY <1>1, RankSteps
      <3> QED
        BY <3>1, FS_Subset DEF Rank
    <2> QED
      BY <1>2, <2>2, <2>3
  <1>5. \A i \in kept, j \in kept : i # j => Rank(kept, i) # Rank(kept, j)
    <2> SUFFICES ASSUME NEW i \in kept, NEW j \in kept, i # j
                 PROVE  Rank(kept, i) # Rank(kept, j)
      OBVIOUS
    <2>1. Rank(kept, i) \in Nat /\ Rank(kept, j) \in Nat
      BY <1>2, <1>4
    <2>2. i < j \/ j < i
      BY <1>1
    <2>3. Rank(kept, i) < Rank(kept, j) \/ Rank(kept, j) < Rank(kept, i)
      BY <1>1, <2>2, RankOrders
    <2> QED
      BY <2>1, <2>3
  <1>6. \A i \in kept : \E m \in 1 .. c : at[m] = i
    BY <1>3, <1>4, <1>5
  <1>7. \A m, k \in 1 .. c : m < k <=> at[m] < at[k]
    <2> SUFFICES ASSUME NEW m \in 1 .. c, NEW k \in 1 .. c PROVE m < k <=> at[m] < at[k]
      OBVIOUS
    <2>1. /\ at[m] \in kept /\ at[k] \in kept /\ Rank(kept, at[m]) = m /\ Rank(kept, at[k]) = k
      BY <1>3
    <2> HIDE DEF at
    <2>2. at[m] < at[k] => m < k
      BY <1>1, <2>1, RankOrders
    <2>3. at[k] < at[m] => k < m
      BY <1>1, <2>1, RankOrders
    <2>4. at[m] \in Nat /\ at[k] \in Nat /\ m \in Nat /\ k \in Nat
      BY <1>1, <1>2, <2>1
    <2>5. at[m] = at[k] => m = k
      BY <2>1
    <2> QED
      BY <2>2, <2>3, <2>4, <2>5
  <1>8. Only(q, kept) = [m \in 1 .. c |-> q[at[m]]]
    <2>1. CASE kept # DOMAIN q
      BY <2>1 DEF Only
    <2>2. CASE kept = DOMAIN q
      <3>1. c = n
        BY <1>1, <2>2, FS_Interval
      <3>2. \A m \in 1 .. n : at[m] = m
        <4>1. \A m \in 1 .. n : Rank(kept, m) = m
          <5> SUFFICES ASSUME NEW m \in 1 .. n PROVE Rank(kept, m) = m
            OBVIOUS
          <5>1. {j \in kept : j <= m} = 1 .. m
            BY <1>1, <2>2
          <5>2. m \in Nat /\ 1 <= m /\ m - 1 + 1 = m
            BY <1>1
          <5>3. Cardinality(1 .. m) = m
            BY <5>2, FS_Interval
          <5> QED
            BY <5>1, <5>3, Zenon DEF Rank
        <4> QED
          BY <1>1, <1>3, <1>5, <2>2, <3>1, <4>1
      <3>3. q = [m \in 1 .. n |-> q[m]]
        BY <1>1
      <3> QED
        BY Zenon, <2>2, <3>1, <3>2, <3>3 DEF Only
    <2> QED
      BY <2>1, <2>2
  <1>9. at \in [1 .. c -> kept]
    BY <1>3
  <1> HIDE DEF at
  <1>10. \A m \in 1 .. c : q[at[m]] \in S
    BY <1>1, <1>9
  <1>11. Only(q, kept) \in Seq(S) /\ Len(Only(q, kept)) = c
    <2>1. Only(q, kept) \in [1 .. c -> S]
      BY <1>8, <1>10
    <2> QED
      BY <1>2, <2>1
  <1>12. \A m \in 1 .. c : Only(q, kept)[m] = q[at[m]]
    BY <1>8
  <1> QED
    BY Zenon, <1>2, <1>6, <1>7, <1>9, <1>11, <1>12 DEF Lists

----------------------------------------------------------------------------
\* A bounded set of naturals has a greatest member.
LEMMA GreatestNumber ==
    ASSUME NEW S, S \subseteq Nat, S # {}, NEW b \in Nat, \A m \in S : m <= b
    PROVE  \E n \in S : \A m \in S : m <= n
  <1> DEFINE U == {n \in Nat : \A m \in S : m <= n}
  <1>1. PICK u \in U : \A n \in U : u <= n
    BY Zenon, LeastNumber
  <1>2. ASSUME u \notin S PROVE FALSE
    <2>1. \A m \in S : m <= u /\ m # u /\ m \in Nat /\ u \in Nat
      BY <1>1, <1>2
    <2>2. \A m \in S : m <= u - 1
      BY <2>1
    <2>3. u - 1 \in Nat
      <3>1. PICK m \in S : TRUE
        BY Zenon
      <3> QED
        BY <2>1, <3>1
    <2>4. u - 1 \in U
      BY <2>2, <2>3
    <2> QED
      BY <1>1, <2>3, <2>4
  <1> QED
    BY <1>1, <1>2

\* The values of a finite sequence are bounded.
LEMMA SequenceBounded ==
    ASSUME NEW n \in Nat, NEW f, \A i \in 1 .. n : f[i] \in Nat
    PROVE  \E b \in Nat : \A i \in 1 .. n : f[i] <= b
  <1> DEFINE S == {k \in Nat : k <= n => \E b \in Nat : \A i \in 1 .. k : f[i] <= b}
  <1>1. 0 \in S
    OBVIOUS
  <1>2. ASSUME NEW k \in Nat, k \in S PROVE k + 1 \in S
    <2> SUFFICES ASSUME k + 1 <= n PROVE \E b \in Nat : \A i \in 1 .. k + 1 : f[i] <= b
      OBVIOUS
    <2>1. PICK b \in Nat : \A i \in 1 .. k : f[i] <= b
      BY <1>2
    <2>2. f[k + 1] \in Nat
      OBVIOUS
    <2>3. CASE f[k + 1] <= b
      <3>1. \A i \in 1 .. k + 1 : f[i] <= b
        BY <2>1, <2>2, <2>3
      <3> QED
        BY <3>1
    <2>4. CASE ~(f[k + 1] <= b)
      <3>1. \A i \in 1 .. k + 1 : f[i] <= f[k + 1]
        BY <2>1, <2>2, <2>4
      <3> QED
        BY <2>2, <3>1
    <2> QED
      BY <2>3, <2>4
  <1>3. n \in S
    <2> HIDE DEF S
    <2> QED
      BY <1>1, <1>2, Induction
  <1> QED
    BY <1>3

----------------------------------------------------------------------------
(* Known destinations                                                        *)

\* Entries of the table.
Known == [dest : Destinations, last_seen : Nat]

\* Of two retained destinations the one used later has the higher recency.
Ordered(table, use) ==
    \A i, j \in DOMAIN table :
        use[table[i].dest] < use[table[j].dest] => table[i].last_seen < table[j].last_seen

\* No destination twice.
Distinct(table) == \A i, j \in DOMAIN table : table[i].dest = table[j].dest => i = j

\* The table is bounded and without duplicates, and recencies, live and saved, order the uses.
KnownKept ==
    /\ entries \in Seq(Known) /\ Len(entries) <= N /\ Distinct(entries)
    /\ saved.entries \in Seq(Known)
    /\ now \in Nat /\ uses \in Nat
    /\ used \in [Destinations -> 0 .. uses] /\ saved.used \in [Destinations -> 0 .. uses]
    /\ Ordered(entries, used) /\ Ordered(saved.entries, saved.used)

\* The entries of a table, by their fields.
LEMMA KnownEntries ==
    ASSUME NEW table \in Seq(Known)
    PROVE  /\ Len(table) \in Nat /\ DOMAIN table = 1 .. Len(table)
           /\ \A i \in DOMAIN table :
                 table[i].dest \in Destinations /\ table[i].last_seen \in Nat
  <1>1. /\ Len(table) \in Nat /\ DOMAIN table = 1 .. Len(table)
        /\ \A i \in DOMAIN table : table[i] \in Known
    OBVIOUS
  <1>2. \A e \in Known : e.dest \in Destinations /\ e.last_seen \in Nat
    BY DEF Known
  <1> QED
    BY <1>1, <1>2

\* next_recency is above every retained recency.
LEMMA NextRecency ==
    ASSUME entries \in Seq(Known)
    PROVE  next_recency \in Nat /\ \A i \in DOMAIN entries : entries[i].last_seen < next_recency
  <1> DEFINE S == {entries[i].last_seen : i \in DOMAIN entries} \cup {0}
             n == Len(entries)
             f == [i \in 1 .. n |-> entries[i].last_seen]
  <1>1. n \in Nat /\ DOMAIN entries = 1 .. n /\ \A i \in 1 .. n : entries[i].last_seen \in Nat
    BY KnownEntries
  <1>2. \A i \in 1 .. n : f[i] \in Nat
    BY <1>1
  <1>3. PICK b \in Nat : \A i \in 1 .. n : f[i] <= b
    <2> HIDE DEF f, n
    <2> QED
      BY Zenon, <1>1, <1>2, SequenceBounded
  <1>4. S \subseteq Nat /\ S # {} /\ \A m \in S : m <= b
    BY <1>1, <1>3
  <1>5. \A i \in DOMAIN entries : entries[i].last_seen \in S
    OBVIOUS
  <1> HIDE DEF S
  <1>6. \E m \in S : \A k \in S : k <= m
    BY Zenon, <1>3, <1>4, GreatestNumber
  <1>7. Max(S) \in S /\ \A k \in S : k <= Max(S)
    <2>1. \E m \in S : \A k \in S : m >= k
      BY <1>4, <1>6
    <2> QED
      BY Zenon, <1>4, <2>1 DEF Max
  <1>8. next_recency = Max(S) + 1
    BY DEF next_recency, S
  <1>9. Max(S) \in Nat
    BY Zenon, <1>4, <1>7
  <1>10. \A k \in S : k < Max(S) + 1
    BY <1>4, <1>7, <1>9
  <1>11. \A i \in DOMAIN entries : entries[i].last_seen < next_recency
    BY <1>5, <1>8, <1>10
  <1> QED
    BY <1>8, <1>9, <1>11

\* A table with an entry has a first one of least recency, which a full table gives up.
LEMMA OldestIsThere ==
    ASSUME entries \in Seq(Known), Len(entries) > 0
    PROVE  /\ Oldest \in DOMAIN entries
           /\ \A j \in DOMAIN entries : entries[Oldest].last_seen <= entries[j].last_seen
  <1> DEFINE S == {entries[i].last_seen : i \in DOMAIN entries}
  <1>1. /\ DOMAIN entries = 1 .. Len(entries) /\ Len(entries) \in Nat
        /\ \A i \in DOMAIN entries : entries[i].last_seen \in Nat
    BY KnownEntries
  <1>2. S \subseteq Nat /\ S # {}
    BY <1>1
  <1>3. PICK n \in S : \A m \in S : n <= m
    BY Zenon, <1>2, LeastNumber
  <1> DEFINE F == {i \in DOMAIN entries : entries[i].last_seen = n}
  <1>4. F \subseteq Nat /\ F # {}
    BY <1>1, <1>3
  <1>5. PICK i \in F : \A j \in F : i <= j
    BY Zenon, <1>4, LeastNumber
  <1>6. i \in DOMAIN entries /\ entries[i].last_seen = n /\ n \in Nat
    BY <1>2, <1>3, <1>5
  <1>7. ASSUME NEW j \in DOMAIN entries
        PROVE  \/ entries[i].last_seen < entries[j].last_seen
               \/ entries[i].last_seen = entries[j].last_seen /\ i <= j
    <2>1. n <= entries[j].last_seen /\ entries[j].last_seen \in Nat
      BY <1>1, <1>3
    <2>2. entries[j].last_seen = n => i <= j
      BY <1>5
    <2> QED
      BY <1>6, <2>1, <2>2
  <1>8. /\ Oldest \in DOMAIN entries
        /\ \A j \in DOMAIN entries :
              \/ entries[Oldest].last_seen < entries[j].last_seen
              \/ entries[Oldest].last_seen = entries[j].last_seen /\ Oldest <= j
    <2>1. \E k \in DOMAIN entries : \A j \in DOMAIN entries :
              \/ entries[k].last_seen < entries[j].last_seen
              \/ entries[k].last_seen = entries[j].last_seen /\ k <= j
      BY <1>6, <1>7, Zenon
    <2> QED
      BY <2>1, Zenon DEF Oldest
  <1> QED
    BY <1>1, <1>8

\* A table in which destination d, which no other place of it has, was given place k and a
\* recency above all others.
Placed(after, table, k, d, r) ==
    /\ k \in DOMAIN after /\ after[k] = [dest |-> d, last_seen |-> r]
    /\ \A i \in DOMAIN after : i # k =>
          i \in DOMAIN table /\ after[i] = table[i] /\ table[i].dest # d

\* The destination used last has the highest recency, so the order is still the order of use.
LEMMA PlacedKeeps ==
    ASSUME NEW table \in Seq(Known), Distinct(table), NEW u \in Nat,
           NEW use \in [Destinations -> 0 .. u], Ordered(table, use),
           NEW d \in Destinations, NEW r \in Nat,
           \A i \in DOMAIN table : table[i].last_seen < r,
           NEW k, NEW after, Placed(after, table, k, d, r)
    PROVE  /\ Distinct(after) /\ Ordered(after, [use EXCEPT ![d] = u + 1])
           /\ [use EXCEPT ![d] = u + 1] \in [Destinations -> 0 .. u + 1]
  <1> DEFINE new == [use EXCEPT ![d] = u + 1]
  <1>1. after[k].dest = d /\ after[k].last_seen = r
    BY DEF Placed
  <1>2. \A i \in DOMAIN table : table[i].dest \in Destinations
    BY KnownEntries
  <1>3. /\ new[d] = u + 1
        /\ \A e \in Destinations : e # d => new[e] = use[e] /\ new[e] \in Nat /\ new[e] < u + 1
    <2>1. \A e \in Destinations : use[e] \in 0 .. u
      OBVIOUS
    <2>2. new[d] = u + 1 /\ \A e \in Destinations : e # d => new[e] = use[e]
      OBVIOUS
    <2> QED
      BY <2>1, <2>2
  <1>4. new \in [Destinations -> 0 .. u + 1]
    OBVIOUS
  <1> HIDE DEF new
  <1>5. Distinct(after)
    BY Zenon, <1>1 DEF Distinct, Placed
  <1>6. ASSUME NEW i \in DOMAIN after, NEW j \in DOMAIN after,
               new[after[i].dest] < new[after[j].dest]
        PROVE  after[i].last_seen < after[j].last_seen
    <2>1. CASE i # k /\ j # k
      <3>1. /\ i \in DOMAIN table /\ j \in DOMAIN table /\ after[i] = table[i]
            /\ after[j] = table[j] /\ table[i].dest # d /\ table[j].dest # d
        BY <2>1 DEF Placed
      <3>2. use[table[i].dest] < use[table[j].dest]
        BY <1>2, <1>3, <1>6, <3>1
      <3> QED
        BY <3>1, <3>2 DEF Ordered
    <2>2. CASE i # k /\ j = k
      <3>1. i \in DOMAIN table /\ after[i] = table[i]
        BY <2>2 DEF Placed
      <3> QED
        BY <1>1, <2>2, <3>1
    <2>3. CASE i = k
      <3>1. CASE j = k
        BY <1>1, <1>3, <1>6, <2>3, <3>1
      <3>2. CASE j # k
        <4>1. j \in DOMAIN table /\ after[j] = table[j] /\ table[j].dest # d
          BY <3>2 DEF Placed
        <4>2. new[after[j].dest] \in Nat /\ new[after[j].dest] < u + 1
          BY <1>2, <1>3, <4>1
        <4>3. u + 1 < new[after[j].dest]
          BY <1>1, <1>3, <1>6, <2>3
        <4> QED
          BY <4>2, <4>3
      <3> QED
        BY <3>1, <3>2
    <2> QED
      BY <2>1, <2>2, <2>3
  <1>7. Ordered(after, new)
    BY <1>6 DEF Ordered
  <1> QED
    BY <1>4, <1>5, <1>7 DEF new

\* recall makes the destination the most recent.
LEMMA RecallKeeps ==
    ASSUME KnownKept, NEW d \in Destinations, recall(d)
    PROVE  KnownKept'
  <1> DEFINE r == next_recency
  <1>1. PICK k \in DOMAIN entries :
           entries[k].dest = d /\ entries' = [entries EXCEPT ![k].last_seen = r]
    BY Zenon DEF recall
  <1>2. /\ uses' = uses + 1 /\ used' = [used EXCEPT ![d] = uses + 1]
        /\ UNCHANGED <<now, saved>>
    BY DEF recall, Use
  <1>3. r \in Nat /\ \A i \in DOMAIN entries : entries[i].last_seen < r
    BY NextRecency DEF KnownKept
  <1> HIDE DEF r
  <1>4. entries[k] \in Known
    BY <1>1 DEF KnownKept
  <1>5. [entries[k] EXCEPT !.last_seen = r] = [dest |-> d, last_seen |-> r]
    BY <1>1, <1>4 DEF Known
  <1>6. entries' = [entries EXCEPT ![k] = [dest |-> d, last_seen |-> r]]
    BY Zenon, <1>1, <1>5
  <1>7. [dest |-> d, last_seen |-> r] \in Known
    BY <1>3 DEF Known
  <1>8. entries' \in Seq(Known) /\ Len(entries') = Len(entries)
    <2>1. entries \in Seq(Known)
      BY DEF KnownKept
    <2>2. k \in 1 .. Len(entries)
      BY <1>1, <2>1
    <2> QED
      BY <1>6, <1>7, <2>1, <2>2
  <1>9. Placed(entries', entries, k, d, r)
    <2>1. \A i \in DOMAIN entries : i # k => entries[i].dest # d
      BY <1>1 DEF KnownKept, Distinct
    <2>2. /\ DOMAIN entries' = DOMAIN entries
          /\ \A i \in DOMAIN entries : i # k => entries'[i] = entries[i]
      BY <1>6
    <2>3. entries'[k] = [dest |-> d, last_seen |-> r]
      BY Zenon, <1>1, <1>6
    <2> QED
      BY <1>1, <2>1, <2>2, <2>3 DEF Placed
  <1>10. Distinct(entries') /\ Ordered(entries', used') /\ used' \in [Destinations -> 0 .. uses + 1]
    BY Zenon, <1>2, <1>3, <1>9, PlacedKeeps DEF KnownKept
  <1>11. saved.used \in [Destinations -> 0 .. uses + 1] /\ uses + 1 \in Nat
    BY DEF KnownKept
  <1> QED
    BY <1>2, <1>8, <1>10, <1>11 DEF KnownKept

\* So does learning it, in its own place, a free one or that of the oldest.
LEMMA LearnKeeps ==
    ASSUME KnownKept, NEW d \in Destinations, learn(d)
    PROVE  KnownKept'
  <1> DEFINE r == Max({now, next_recency})
             e == [dest |-> d, last_seen |-> r]
  <1>1. /\ d \notin Retained
        /\ entries' = IF Len(entries) < N THEN Append(entries, e)
                      ELSE [entries EXCEPT ![Oldest] = e]
        /\ uses' = uses + 1 /\ used' = [used EXCEPT ![d] = uses + 1]
        /\ UNCHANGED <<now, saved>>
    BY DEF learn, Use
  <1>2. next_recency \in Nat /\ \A i \in DOMAIN entries : entries[i].last_seen < next_recency
    BY NextRecency DEF KnownKept
  <1>3. r \in Nat /\ r >= next_recency
    <2>1. now \in Nat
      BY DEF KnownKept
    <2> QED
      BY <1>2, <2>1 DEF Max
  <1> HIDE DEF r
  <1>4. \A i \in DOMAIN entries : entries[i].last_seen \in Nat /\ entries[i].last_seen < r
    <2>1. \A i \in DOMAIN entries : entries[i].last_seen \in Nat
      BY KnownEntries DEF KnownKept
    <2> QED
      BY <1>2, <1>3, <2>1
  <1>5. e \in Known
    BY <1>3 DEF Known
  <1>6. \A i \in DOMAIN entries : entries[i].dest # d
    BY <1>1 DEF Retained
  <1>7. /\ entries \in Seq(Known) /\ Len(entries) \in Nat /\ N \in Nat /\ Len(entries) <= N
        /\ DOMAIN entries = 1 .. Len(entries)
    BY KnownAssumption DEF KnownKept
  <1>8. /\ entries' \in Seq(Known) /\ Len(entries') <= N
        /\ Distinct(entries') /\ Ordered(entries', used')
        /\ used' \in [Destinations -> 0 .. uses + 1]
    <2>1. CASE Len(entries) < N
      <3>1. entries' = Append(entries, e)
        BY <1>1, <2>1
      <3>2. entries' \in Seq(Known) /\ Len(entries') = Len(entries) + 1
        BY <1>5, <1>7, <3>1
      <3>3. Placed(entries', entries, Len(entries) + 1, d, r)
        BY <1>6, <1>7, <3>1, <3>2 DEF Placed
      <3>4. Distinct(entries') /\ Ordered(entries', used') /\ used' \in [Destinations -> 0 .. uses + 1]
        BY Zenon, <1>1, <1>3, <1>4, <3>3, PlacedKeeps DEF KnownKept
      <3>5. Len(entries') <= N
        BY <1>7, <2>1, <3>2
      <3> QED
        BY <3>2, <3>4, <3>5
    <2>2. CASE ~(Len(entries) < N) /\ Oldest \in DOMAIN entries
      <3>1. entries' = [entries EXCEPT ![Oldest] = e]
        BY <1>1, <2>2
      <3>2. entries' \in Seq(Known) /\ Len(entries') = Len(entries)
        BY <1>5, <1>7, <2>2, <3>1
      <3>3. Placed(entries', entries, Oldest, d, r)
        BY <1>6, <1>7, <2>2, <3>1, <3>2 DEF Placed
      <3>4. Distinct(entries') /\ Ordered(entries', used') /\ used' \in [Destinations -> 0 .. uses + 1]
        BY Zenon, <1>1, <1>3, <1>4, <3>3, PlacedKeeps DEF KnownKept
      <3> QED
        BY <1>7, <3>2, <3>4
    <2>3. Len(entries) < N \/ Oldest \in DOMAIN entries
      BY <1>1, <1>7, OldestIsThere DEF learn
    <2> QED
      BY <2>1, <2>2, <2>3
  <1>9. saved.used \in [Destinations -> 0 .. uses + 1] /\ uses + 1 \in Nat
    BY DEF KnownKept
  <1> QED
    BY <1>1, <1>8, <1>9 DEF KnownKept

\* import: unclamped, the table and the order of use of the blob come back together.
LEMMA ImportKeeps ==
    ASSUME KnownKept, import
    PROVE  KnownKept'
  <1> DEFINE blob == saved.entries
  <1>1. /\ Acceptable(blob) /\ entries' = [i \in DOMAIN blob |-> decode_entry(blob[i])]
        /\ used' = IF \A i \in DOMAIN blob : blob[i].last_seen <= now
                   THEN saved.used ELSE [d \in Destinations |-> 0]
        /\ UNCHANGED <<now, saved, uses>>
    BY DEF import
  <1>2. blob \in Seq(Known) /\ now \in Nat /\ uses \in Nat
    BY DEF KnownKept
  <1>3. /\ Len(blob) \in Nat /\ DOMAIN blob = 1 .. Len(blob)
        /\ \A i \in DOMAIN blob : blob[i] \in Known
        /\ \A i \in DOMAIN blob :
              blob[i].dest \in Destinations /\ blob[i].last_seen \in Nat
    BY <1>2, KnownEntries
  <1> HIDE DEF blob
  <1>4. ASSUME NEW e \in Known
        PROVE  /\ decode_entry(e) \in Known /\ decode_entry(e).dest = e.dest
               /\ e.last_seen <= now => decode_entry(e) = e
    <2>1. e.last_seen \in Nat /\ e.dest \in Destinations
          /\ e = [dest |-> e.dest, last_seen |-> e.last_seen]
      BY DEF Known
    <2> DEFINE r == Min({e.last_seen, now})
    <2>2. r \in Nat /\ (e.last_seen <= now => r = e.last_seen)
      <3>1. \A x \in Nat, y \in Nat : Min({x, y}) = IF x <= y THEN x ELSE y
        BY DEF Min
      <3> QED
        BY <1>2, <2>1, <3>1
    <2>3. decode_entry(e) = [e EXCEPT !.last_seen = r]
      BY DEF decode_entry
    <2> HIDE DEF r
    <2>4. decode_entry(e) = [dest |-> e.dest, last_seen |-> r]
      BY <2>1, <2>3
    <2>5. decode_entry(e) \in Known /\ decode_entry(e).dest = e.dest
      <3>1. decode_entry(e) \in Known
        <4>1. \A d \in Destinations, n \in Nat : [dest |-> d, last_seen |-> n] \in Known
          BY DEF Known
        <4> QED
          BY <2>1, <2>2, <2>4, <4>1, Zenon
      <3>2. decode_entry(e).dest = e.dest
        BY <2>4
      <3> QED
        BY <3>1, <3>2
    <2>6. e.last_seen <= now => decode_entry(e) = e
      BY <2>1, <2>2, <2>4, Zenon
    <2> QED
      BY <2>5, <2>6
  <1>5. /\ entries' \in Seq(Known) /\ Len(entries') = Len(blob) /\ DOMAIN entries' = DOMAIN blob
    <2>1. entries' \in [1 .. Len(blob) -> Known]
      BY <1>1, <1>3, <1>4
    <2> QED
      BY <1>3, <2>1
  <1>6. \A i \in DOMAIN blob : entries'[i].dest = blob[i].dest
    BY <1>1, <1>3, <1>4
  <1>7. Len(blob) <= N /\ Distinct(blob)
    BY <1>1 DEF Acceptable, IsInjective, Distinct
  <1>8. Distinct(entries')
    BY <1>5, <1>6, <1>7 DEF Distinct
  <1>9. Ordered(entries', used') /\ used' \in [Destinations -> 0 .. uses]
    <2>1. CASE \A i \in DOMAIN blob : blob[i].last_seen <= now
      <3>1. used' = saved.used /\ \A i \in DOMAIN blob : entries'[i] = blob[i]
        BY <1>1, <1>3, <1>4, <2>1
      <3>2. Ordered(blob, saved.used) /\ saved.used \in [Destinations -> 0 .. uses]
        BY DEF KnownKept, blob
      <3> QED
        BY <1>5, <3>1, <3>2 DEF Ordered
    <2>2. CASE ~\A i \in DOMAIN blob : blob[i].last_seen <= now
      <3>1. used' = [d \in Destinations |-> 0]
        BY <1>1, <2>2
      <3>2. \A i \in DOMAIN entries' : used'[entries'[i].dest] = 0
        BY <1>3, <1>5, <1>6, <3>1
      <3>3. \A i, j \in DOMAIN entries' : ~(used'[entries'[i].dest] < used'[entries'[j].dest])
        BY <3>2
      <3> QED
        BY <1>2, <3>1, <3>3 DEF Ordered
    <2> QED
      BY <2>1, <2>2
  <1> QED
    BY <1>1, <1>5, <1>7, <1>8, <1>9 DEF KnownKept

\* Every step keeps the invariant.
LEMMA KnownStep == KnownKept /\ [KnownNext]_knownVars => KnownKept'
  <1> SUFFICES ASSUME KnownKept, [KnownNext]_knownVars PROVE KnownKept'
    OBVIOUS
  <1>1. ASSUME NEW d \in Destinations, recall(d) PROVE KnownKept'
    BY <1>1, RecallKeeps
  <1>2. ASSUME NEW d \in Destinations, learn(d) PROVE KnownKept'
    BY <1>2, LearnKeeps
  <1>3. CASE export_into
    <2>1. /\ saved'.entries = entries /\ saved'.used = used
          /\ UNCHANGED <<entries, now, used, uses>>
      BY <1>3 DEF export_into
    <2> QED
      BY <2>1 DEF KnownKept
  <1>4. CASE import
    BY <1>4, ImportKeeps
  <1>5. CASE Restart
    <2>1. /\ entries' = <<>> /\ now' \in 0 .. MaxClock /\ UNCHANGED <<saved, uses>>
          /\ used' = [d \in Destinations |-> 0]
      BY <1>5 DEF Restart
    <2>2. entries' \in Seq(Known) /\ Len(entries') = 0 /\ DOMAIN entries' = {}
      BY <2>1
    <2>3. Distinct(entries') /\ Ordered(entries', used')
      BY <2>2 DEF Distinct, Ordered
    <2>4. now' \in Nat /\ uses \in Nat /\ N \in Nat
      BY <2>1, KnownAssumption DEF KnownKept
    <2>5. used' \in [Destinations -> 0 .. uses]
      BY <2>1, <2>4
    <2> QED
      BY <2>1, <2>2, <2>3, <2>4, <2>5 DEF KnownKept
  <1>6. CASE ClockAdvances
    BY <1>6 DEF ClockAdvances, KnownKept
  <1>7. CASE UNCHANGED knownVars
    BY <1>7 DEF knownVars, KnownKept
  <1> QED
    BY <1>1, <1>2, <1>3, <1>4, <1>5, <1>6, <1>7 DEF KnownNext

\* It holds of the empty table.
LEMMA KnownBegins == KnownInit => KnownKept
  <1> SUFFICES ASSUME KnownInit PROVE KnownKept
    OBVIOUS
  <1>1. /\ entries = <<>> /\ now \in Nat /\ uses = 0
        /\ saved.entries = <<>> /\ saved.used = used /\ used = [d \in Destinations |-> 0]
    BY KnownAssumption DEF KnownInit
  <1>2. <<>> \in Seq(Known) /\ Len(<<>>) = 0 /\ DOMAIN <<>> = {}
    OBVIOUS
  <1>3. used \in [Destinations -> 0 .. 0] /\ N \in Nat
    BY <1>1, KnownAssumption
  <1> QED
    BY <1>1, <1>2, <1>3 DEF KnownKept, Distinct, Ordered

\* Through imports, restarts and evictions the recencies of known destinations order them as
\* they were used, so that the one evicted is the one unused for longest (the table of
\* known destinations, known_destinations.rs).
THEOREM RecencyOrdersUse == KnownSpec => []RecencyIsUse
  <1>1. KnownSpec => []KnownKept
    BY KnownBegins, KnownStep, PTL DEF KnownSpec
  <1>2. KnownKept => RecencyIsUse
    BY DEF KnownKept, RecencyIsUse, Distinct, Ordered
  <1> QED
    BY <1>1, <1>2, PTL

----------------------------------------------------------------------------
(* Peers' ratchets                                                           *)

\* The rows of the table, and what is known of each peer.
Rows == [dest : Peers, ratchet : PeerKeys, age : Ages]

Learned == [dest : Peers, ratchet : PeerKeys, at : Nat]

\* A stamp that dates no key before it was learned, in a boot that began then.
Dates(age, at, booted) ==
    /\ age.kind = "Wall" => at <= age.secs
    /\ age.kind = "Uptime" => at <= booted + age.secs

\* A row is what is known of its peer.
Recalls(row, learned, booted) ==
    /\ row.dest = learned.dest /\ row.ratchet = learned.ratchet
    /\ Dates(row.age, learned.at, booted)

\* The list of all peers: each once.
Listed(list) ==
    /\ list \in Seq(Learned)
    /\ \A i, j \in DOMAIN list : list[i].dest = list[j].dest => i = j

\* A table whose rows recall entries of the list, in the list's order.
Follows(table, list, booted) ==
    /\ table \in Seq(Rows)
    /\ \A i \in DOMAIN table : \E j \in DOMAIN list : Recalls(table[i], list[j], booted)
    /\ \A i, k \in DOMAIN table, j, m \in DOMAIN list :
         i < k /\ table[i].dest = list[j].dest /\ table[k].dest = list[m].dest => j < m

\* A table with a row like this one.
HasRow(table, row) == \E k \in DOMAIN table : table[k] = row

\* The peers learned last whose keys have not expired are in the table.
Reaches(table, list, at) ==
    \A j \in DOMAIN list : j <= PeersMax /\ at - list[j].at <= ExpirySecs =>
       \E i \in DOMAIN table : table[i].dest = list[j].dest

\* What every step keeps of a table and the list it is measured by.
Tracks(table, list, booted, at) ==
    /\ Listed(list) /\ \A j \in DOMAIN list : list[j].at <= at
    /\ Follows(table, list, booted) /\ Len(table) <= PeersMax
    /\ Reaches(table, list, at)

\* The same of the table in storage, once it is loaded: in any boot.
PeerKept ==
    /\ time \in Nat /\ boot \in 0 .. time
    /\ Tracks(peers, known, boot, time)
    /\ Tracks(load_persisted(stored), stored_known, boot, time)
    /\ \A i \in DOMAIN load_persisted(stored) : load_persisted(stored)[i].age.kind # "Uptime"

----------------------------------------------------------------------------
\* A sequence of the elements of another at these places, in their order.
Part(r, q, kept) ==
    /\ \A n \in DOMAIN r : \E i \in kept : r[n] = q[i]
    /\ \A i \in kept : \E n \in DOMAIN r : r[n] = q[i]
    /\ \A n, m \in DOMAIN r : n < m =>
         \E i, j \in kept : i < j /\ r[n] = q[i] /\ r[m] = q[j]

\* A sequence with a new element in front of another one's.
Fronted(r, e, q) ==
    /\ Len(r) = Len(q) + 1 /\ Len(q) \in Nat /\ Len(q) + 1 \in Nat
    /\ DOMAIN r = 1 .. Len(q) + 1 /\ DOMAIN q = 1 .. Len(q) /\ 1 \in DOMAIN r /\ r[1] = e
    /\ \A k \in DOMAIN q : k + 1 \in DOMAIN r /\ r[k + 1] = q[k]
    /\ \A k \in DOMAIN r : k = 1 \/ (k - 1 \in DOMAIN q /\ r[k] = q[k - 1])

\* A table with the rows of another but one peer's.
Others(r, q, dest) ==
    /\ \A n \in DOMAIN r : \E i \in DOMAIN q : r[n] = q[i] /\ q[i].dest # dest
    /\ \A i \in DOMAIN q : q[i].dest # dest => \E n \in DOMAIN r : r[n] = q[i]
    /\ Len(r) <= Len(q) /\ Len(r) \in Nat

\* Places of a sequence are ordered as the ones before them.
LEMMA Places ==
    ASSUME NEW d \in Nat, NEW i \in 1 .. d, NEW k \in 1 .. d
    PROVE  /\ i < k => k # 1 /\ i - 1 < k - 1
           /\ i - 1 < k - 1 => i < k
  OBVIOUS

\* Behind the same place there is one place.
LEMMA SamePlace ==
    ASSUME NEW d \in Nat, NEW i \in 1 .. d, NEW k \in 1 .. d, i - 1 = k - 1
    PROVE  i = k
  OBVIOUS

\* Every place but the first is behind it.
LEMMA SecondPlace ==
    ASSUME NEW d \in Nat, NEW k \in 1 .. d, k # 1
    PROVE  1 < k
  OBVIOUS

\* What is kept of a sequence: its elements at the kept places, in their order.
LEMMA OnlyOrdered ==
    ASSUME NEW S, NEW q \in Seq(S), NEW kept, kept \subseteq DOMAIN q
    PROVE  Only(q, kept) \in Seq(S) /\ Part(Only(q, kept), q, kept)
  <1> DEFINE c == Cardinality(kept)
             r == Only(q, kept)
  <1>0. r \in Seq(S) /\ Len(r) = c /\ c \in Nat
    BY OnlyKept
  <1>1. \E at : Lists(at, kept) /\ \A m \in 1 .. c : r[m] = q[at[m]]
    BY OnlyKept
  <1> HIDE DEF r
  <1>2. DOMAIN r = 1 .. c
    BY <1>0
  <1>3. PICK at : Lists(at, kept) /\ \A m \in 1 .. c : r[m] = q[at[m]]
    BY Zenon, <1>1
  <1>4. /\ \A m \in 1 .. c : at[m] \in kept
        /\ \A i \in kept : \E m \in 1 .. c : at[m] = i
        /\ \A m, k \in 1 .. c : m < k => at[m] < at[k]
    BY <1>3 DEF Lists
  <1> HIDE DEF c
  <1>5. \A n \in DOMAIN r : \E i \in kept : r[n] = q[i]
    BY Zenon, <1>2, <1>3, <1>4
  <1>6. \A i \in kept : \E n \in DOMAIN r : r[n] = q[i]
    BY <1>2, <1>3, <1>4
  <1>7. ASSUME NEW n \in DOMAIN r, NEW m \in DOMAIN r, n < m
        PROVE  \E i, j \in kept : i < j /\ r[n] = q[i] /\ r[m] = q[j]
    <2>1. /\ at[n] \in kept /\ at[m] \in kept /\ at[n] < at[m]
          /\ r[n] = q[at[n]] /\ r[m] = q[at[m]]
      BY Zenon, <1>2, <1>3, <1>4, <1>7
    <2> QED
      BY Zenon, <2>1
  <1> QED
    BY Zenon, <1>0, <1>5, <1>6, <1>7 DEF r, Part

\* No more is kept than there was.
LEMMA OnlyShorter ==
    ASSUME NEW S, NEW q \in Seq(S), NEW kept, kept \subseteq DOMAIN q
    PROVE  Len(Only(q, kept)) <= Len(q) /\ Len(Only(q, kept)) \in Nat
  <1>1. Len(q) \in Nat /\ DOMAIN q = 1 .. Len(q)
    OBVIOUS
  <1>2. IsFiniteSet(1 .. Len(q)) /\ Cardinality(1 .. Len(q)) = Len(q)
    <2> DEFINE n == Len(q)
    <2>1. n \in Nat
      BY <1>1
    <2> HIDE DEF n
    <2>2. IsFiniteSet(1 .. n) /\ Cardinality(1 .. n) = n
      BY <2>1, FS_Interval
    <2> QED
      BY Zenon, <2>2 DEF n
  <1>3. Cardinality(kept) <= Len(q)
    BY <1>1, <1>2, FS_Subset
  <1> QED
    BY <1>3, OnlyKept

\* The rows that are kept follow the list as the table did.
LEMMA OnlyFollows ==
    ASSUME NEW table, NEW list, NEW booted, Follows(table, list, booted),
           NEW kept, kept \subseteq DOMAIN table
    PROVE  Follows(Only(table, kept), list, booted)
  <1> DEFINE r == Only(table, kept)
  <1>0. table \in Seq(Rows)
    BY Zenon DEF Follows
  <1>1. /\ r \in Seq(Rows)
        /\ \A n \in DOMAIN r : \E i \in kept : r[n] = table[i]
        /\ \A n, m \in DOMAIN r : n < m =>
             \E i, j \in kept : i < j /\ r[n] = table[i] /\ r[m] = table[j]
    <2>1. r \in Seq(Rows) /\ Part(r, table, kept)
      BY Zenon, <1>0, OnlyOrdered
    <2> HIDE DEF r
    <2> QED
      BY Zenon, <2>1 DEF Part
  <1> HIDE DEF r
  <1>2. \A n \in DOMAIN r : \E j \in DOMAIN list : Recalls(r[n], list[j], booted)
    BY Zenon, <1>1 DEF Follows
  <1>3. ASSUME NEW i \in DOMAIN r, NEW k \in DOMAIN r, NEW j \in DOMAIN list,
               NEW m \in DOMAIN list, i < k, r[i].dest = list[j].dest, r[k].dest = list[m].dest
        PROVE  j < m
    <2>1. PICK x \in kept, y \in kept : x < y /\ r[i] = table[x] /\ r[k] = table[y]
      BY Zenon, <1>1, <1>3
    <2> QED
      BY Zenon, <1>3, <2>1 DEF Follows
  <1> QED
    BY Zenon, <1>1, <1>2, <1>3 DEF Follows, r

\* A row is never ahead of its peer's place in the list.
LEMMA RowsBehind ==
    ASSUME NEW table, NEW list, NEW booted, Follows(table, list, booted), Listed(list)
    PROVE  \A i \in DOMAIN table, j \in DOMAIN list : table[i].dest = list[j].dest => i <= j
  <1> DEFINE n == Len(table)
             P == {k \in Nat : k \in DOMAIN table =>
                     \A j \in DOMAIN list : table[k].dest = list[j].dest => k <= j}
  <1>1. /\ n \in Nat /\ DOMAIN table = 1 .. n
        /\ Len(list) \in Nat /\ DOMAIN list = 1 .. Len(list)
    BY DEF Follows, Listed
  <1>2. 0 \in P
    BY <1>1
  <1>3. ASSUME NEW k \in Nat, k \in P PROVE k + 1 \in P
    <2> SUFFICES ASSUME k + 1 \in DOMAIN table, NEW j \in DOMAIN list,
                        table[k + 1].dest = list[j].dest
                 PROVE  k + 1 <= j
      OBVIOUS
    <2>1. CASE k = 0
      BY <1>1, <2>1
    <2>2. CASE k # 0
      <3>1. k \in DOMAIN table /\ k < k + 1
        BY <1>1, <2>2
      <3>2. PICK m \in DOMAIN list : table[k].dest = list[m].dest
        BY Zenon, <3>1 DEF Follows, Recalls
      <3>3. k <= m
        BY Zenon, <1>3, <3>1, <3>2
      <3>4. m < j
        BY Zenon, <3>1, <3>2 DEF Follows
      <3> QED
        BY <1>1, <3>3, <3>4
    <2> QED
      BY <2>1, <2>2
  <1> HIDE DEF P
  <1>4. \A k \in Nat : k \in P
    BY Zenon, <1>2, <1>3, Induction
  <1> QED
    BY <1>1, <1>4 DEF P

----------------------------------------------------------------------------
\* A key stamped now is not dated before it was learned (anchor).
LEMMA StampDates ==
    ASSUME NEW moment \in Nat, NEW booted \in 0 .. moment, NEW clock \in Clocks(moment, booted),
           NEW at \in Nat, at <= moment
    PROVE  anchor(clock) \in Ages /\ Dates(anchor(clock), at, booted)
  BY DEF Clocks, NoWall, anchor, Ages, AgeKinds, Dates

\* An age that may not be compared is stamped anew; the key it dates is no older for it.
LEMMA EffectiveDates ==
    ASSUME NEW moment \in Nat, NEW booted \in 0 .. moment, NEW clock \in Clocks(moment, booted),
           NEW age \in Ages
    PROVE  /\ effective_age(age, clock) \in Ages
           /\ \A at \in Nat : at <= moment /\ Dates(age, at, booted) =>
                Dates(effective_age(age, clock), at, booted)
  <1>1. CASE age_comparable(age, clock)
    BY Zenon, <1>1 DEF effective_age
  <1>2. CASE ~age_comparable(age, clock)
    <2>1. effective_age(age, clock) = anchor(clock)
      BY Zenon, <1>2 DEF effective_age
    <2>2. anchor(clock) \in Ages
      BY DEF Clocks, NoWall, anchor, Ages, AgeKinds
    <2> QED
      BY Zenon, <2>1, <2>2, StampDates
  <1> QED
    BY Zenon, <1>1, <1>2

\* What is restored dates its key in any boot.
LEMMA RestoredDates ==
    ASSUME NEW age \in Ages, NEW booted, NEW next
    PROVE  /\ restored_age(age) \in Ages /\ restored_age(age).kind # "Uptime"
           /\ \A at \in Nat : Dates(age, at, booted) => Dates(restored_age(age), at, next)
  BY Zenon DEF restored_age, Unknown, Ages, AgeKinds, Dates

\* A key that has not really expired is not taken for expired (age_expired).
LEMMA KeyNotExpired ==
    ASSUME NEW moment \in Nat, NEW booted \in 0 .. moment, NEW clock \in Clocks(moment, booted),
           NEW age \in Ages, NEW at \in Nat, Dates(age, at, booted), moment - at <= ExpirySecs
    PROVE  ~age_expired(age, clock)
  BY ExpiryAssumption DEF Clocks, NoWall, Ages, AgeKinds, Dates, age_expired, age_comparable, Elapsed

----------------------------------------------------------------------------
\* Where one element at most is dropped, the others move up by one place at most.
LEMMA OneDropped ==
    ASSUME NEW S, NEW q \in Seq(S), NEW kept, kept \subseteq DOMAIN q,
           \A i, j \in DOMAIN q \ kept : i = j
    PROVE  \A n \in DOMAIN Only(q, kept) : \E i \in kept : Only(q, kept)[n] = q[i] /\ i <= n + 1
  <1> DEFINE c == Cardinality(kept)
  <1>1. Len(q) \in Nat /\ DOMAIN q = 1 .. Len(q)
    OBVIOUS
  <1>2. Only(q, kept) \in Seq(S) /\ Len(Only(q, kept)) = c /\ c \in Nat
    BY OnlyKept
  <1>3. DOMAIN Only(q, kept) = 1 .. c
    BY <1>2
  <1> SUFFICES ASSUME NEW n \in 1 .. c
               PROVE  \E i \in kept : Only(q, kept)[n] = q[i] /\ i <= n + 1
    BY Zenon, <1>3
  <1>4. CASE kept = DOMAIN q
    <2>1. Only(q, kept) = q
      BY Zenon, <1>4 DEF Only
    <2>2. n \in kept /\ n <= n + 1
      BY <1>2, <1>3, <1>4, <2>1
    <2> QED
      BY Zenon, <2>1, <2>2
  <1>5. CASE kept # DOMAIN q
    <2> DEFINE i == CHOOSE k \in kept : Rank(kept, k) = n
               X == {j \in kept : j <= i}
    <2>1. \E k \in kept : Rank(kept, k) = n
      BY <1>1, RankReached
    <2>2. i \in kept /\ Rank(kept, i) = n
      BY Zenon, <2>1
    <2>3. Only(q, kept)[n] = q[i]
      BY Zenon, <1>5 DEF Only
    <2>4. Cardinality(X) = n
      BY Zenon, <2>2 DEF Rank
    <2> HIDE DEF i
    <2>5. i \in Nat /\ i >= 1 /\ X \subseteq 1 .. i /\ 1 .. i \subseteq DOMAIN q
      BY <1>1, <2>2
    <2> HIDE DEF X
    <2>6. IsFiniteSet(1 .. i) /\ Cardinality(1 .. i) = i
      BY <2>5, FS_Interval
    <2>7. IsFiniteSet(X)
      BY Zenon, <2>5, <2>6, FS_Subset
    <2>8. CASE 1 .. i = X
      <3>1. i = n
        BY Zenon, <2>4, <2>6, <2>8
      <3>2. i <= n + 1
        BY <3>1
      <3> QED
        BY Zenon, <2>2, <2>3, <3>2
    <2>9. CASE 1 .. i # X
      <3>1. PICK k \in 1 .. i : k \notin X
        BY Zenon, <2>5, <2>9
      <3>2. \A j \in 1 .. i : j \notin X => j \in DOMAIN q \ kept
        BY <2>5 DEF X
      <3>3. 1 .. i = X \cup {k}
        BY Zenon, <2>5, <3>1, <3>2
      <3>4. Cardinality(X \cup {k}) = n + 1
        BY Zenon, <2>4, <2>7, <3>1, FS_AddElement
      <3>5. i = n + 1
        BY Zenon, <2>6, <3>3, <3>4
      <3> QED
        BY <2>2, <2>3, <2>5, <3>5
    <2> QED
      BY Zenon, <2>8, <2>9
  <1> QED
    BY Zenon, <1>4, <1>5

----------------------------------------------------------------------------
\* Part of a list is a list.
LEMMA OnlyListed ==
    ASSUME NEW list, Listed(list), NEW kept, kept \subseteq DOMAIN list
    PROVE  Listed(Only(list, kept))
  <1> DEFINE r == Only(list, kept)
  <1>1. /\ r \in Seq(Learned)
        /\ \A n, m \in DOMAIN r : n < m =>
             \E i, j \in kept : i < j /\ r[n] = list[i] /\ r[m] = list[j]
    <2>1. r \in Seq(Learned) /\ Part(r, list, kept)
      BY Zenon, OnlyOrdered DEF Listed
    <2> HIDE DEF r
    <2> QED
      BY Zenon, <2>1 DEF Part
  <1> HIDE DEF r
  <1>2. ASSUME NEW n \in DOMAIN r, NEW m \in DOMAIN r, n < m PROVE r[n].dest # r[m].dest
    <2>1. PICK i \in kept, j \in kept : i < j /\ r[n] = list[i] /\ r[m] = list[j]
      BY Zenon, <1>1, <1>2
    <2>2. i # j
      BY <2>1 DEF Listed
    <2> QED
      BY Zenon, <2>1, <2>2 DEF Listed
  <1>3. \A n, m \in DOMAIN r : n < m \/ m < n \/ n = m
    BY <1>1
  <1> QED
    BY Zenon, <1>1, <1>2, <1>3 DEF Listed, r

\* A table follows the part of a list that has its peers.
LEMMA FollowsPart ==
    ASSUME NEW table, NEW list, NEW booted, Listed(list), Follows(table, list, booted),
           NEW kept, kept \subseteq DOMAIN list,
           \A i \in DOMAIN table, j \in DOMAIN list : table[i].dest = list[j].dest => j \in kept
    PROVE  Follows(table, Only(list, kept), booted)
  <1> DEFINE r == Only(list, kept)
  <1>1. /\ r \in Seq(Learned)
        /\ \A n \in DOMAIN r : \E i \in kept : r[n] = list[i]
        /\ \A i \in kept : \E n \in DOMAIN r : r[n] = list[i]
        /\ \A n, m \in DOMAIN r : n < m =>
             \E i, j \in kept : i < j /\ r[n] = list[i] /\ r[m] = list[j]
    <2>1. r \in Seq(Learned) /\ Part(r, list, kept)
      BY Zenon, OnlyOrdered DEF Listed
    <2> HIDE DEF r
    <2> QED
      BY Zenon, <2>1 DEF Part
  <1> HIDE DEF r
  <1>2. ASSUME NEW i \in DOMAIN table PROVE \E n \in DOMAIN r : Recalls(table[i], r[n], booted)
    <2>1. PICK j \in DOMAIN list : Recalls(table[i], list[j], booted)
      BY Zenon DEF Follows
    <2>2. j \in kept
      BY Zenon, <2>1 DEF Recalls
    <2> QED
      BY Zenon, <1>1, <2>1, <2>2
  <1>3. ASSUME NEW i \in DOMAIN table, NEW k \in DOMAIN table, NEW n \in DOMAIN r,
               NEW m \in DOMAIN r, i < k, table[i].dest = r[n].dest, table[k].dest = r[m].dest
        PROVE  n < m
    <2>1. PICK x \in kept, y \in kept : r[n] = list[x] /\ r[m] = list[y]
      BY Zenon, <1>1
    <2>2. x < y
      BY Zenon, <1>3, <2>1 DEF Follows
    <2>3. n # m
      <3>1. ASSUME n = m PROVE FALSE
        <4>1. x = y
          BY Zenon, <2>1, <3>1 DEF Listed
        <4> QED
          BY <2>2, <4>1 DEF Listed
      <3> QED
        BY Zenon, <3>1
    <2>4. ~(m < n)
      <3>1. ASSUME m < n PROVE FALSE
        <4>1. PICK v \in kept, w \in kept : v < w /\ r[m] = list[v] /\ r[n] = list[w]
          BY Zenon, <1>1, <3>1
        <4>2. v = y /\ w = x
          BY Zenon, <2>1, <4>1 DEF Listed
        <4> QED
          BY <2>2, <4>1, <4>2 DEF Listed
      <3> QED
        BY Zenon, <3>1
    <2> QED
      BY <1>1, <2>3, <2>4
  <1> QED
    BY Zenon, <1>2, <1>3 DEF Follows, r

\* What is put first: of a sequence with one element in front.
LEMMA InFront ==
    ASSUME NEW S, NEW q \in Seq(S), NEW e \in S
    PROVE  <<e>> \o q \in Seq(S) /\ Fronted(<<e>> \o q, e, q)
  BY DEF Fronted

\* A list with a new peer in front.
LEMMA ListedInFront ==
    ASSUME NEW list, Listed(list), NEW e \in Learned, \A j \in DOMAIN list : list[j].dest # e.dest
    PROVE  Listed(<<e>> \o list)
  <1> DEFINE r == <<e>> \o list
  <1>0. list \in Seq(Learned)
    BY Zenon DEF Listed
  <1>1. r \in Seq(Learned) /\ Fronted(r, e, list)
    BY Zenon, <1>0, InFront
  <1> HIDE DEF r
  <1>2. /\ Len(list) + 1 \in Nat /\ DOMAIN r = 1 .. Len(list) + 1 /\ r[1] = e
        /\ \A k \in DOMAIN r : k = 1 \/ (k - 1 \in DOMAIN list /\ r[k] = list[k - 1])
    BY Zenon, <1>1 DEF Fronted
  <1>3. ASSUME NEW i \in DOMAIN r, NEW j \in DOMAIN r, r[i].dest = r[j].dest PROVE i = j
    <2>1. CASE i = 1 \/ j = 1
      BY Zenon, <1>3, <1>2, <2>1
    <2>2. CASE i # 1 /\ j # 1
      <3>1. i - 1 = j - 1
        <4>1. /\ i - 1 \in DOMAIN list /\ r[i] = list[i - 1]
              /\ j - 1 \in DOMAIN list /\ r[j] = list[j - 1]
          BY Zenon, <1>2, <2>2
        <4>2. list[i - 1].dest = list[j - 1].dest
          BY Zenon, <1>3, <4>1
        <4> QED
          BY Zenon, <4>1, <4>2 DEF Listed
      <3> QED
        <4>1. i \in 1 .. Len(list) + 1 /\ j \in 1 .. Len(list) + 1 /\ Len(list) + 1 \in Nat
          BY Zenon, <1>2
        <4> QED
          BY Zenon, <3>1, <4>1, SamePlace
    <2> QED
      BY Zenon, <2>1, <2>2
  <1> QED
    BY Zenon, <1>1, <1>3 DEF Listed, r

\* A table that follows a list still does with the same peer in front of both.
LEMMA FollowsInFront ==
    ASSUME NEW table, NEW list, NEW booted, Listed(list), Follows(table, list, booted),
           NEW row \in Rows, NEW e \in Learned, Recalls(row, e, booted),
           \A j \in DOMAIN list : list[j].dest # e.dest
    PROVE  Follows(<<row>> \o table, <<e>> \o list, booted)
  <1> DEFINE t == <<row>> \o table
             r == <<e>> \o list
  <1>0. list \in Seq(Learned) /\ table \in Seq(Rows)
    BY Zenon DEF Listed, Follows
  <1>1. r \in Seq(Learned) /\ Fronted(r, e, list)
    BY Zenon, <1>0, InFront
  <1>2. t \in Seq(Rows) /\ Fronted(t, row, table)
    BY Zenon, <1>0, InFront
  <1> HIDE DEF r, t
  <1>3. row.dest = e.dest
    BY Zenon DEF Recalls
  <1>4. \A i \in DOMAIN table : table[i].dest # e.dest
    BY Zenon DEF Follows, Recalls
  <1>5. ASSUME NEW i \in DOMAIN t PROVE \E j \in DOMAIN r : Recalls(t[i], r[j], booted)
    <2>1. CASE i = 1
      BY Zenon, <1>1, <1>2, <2>1 DEF Fronted
    <2>2. CASE i # 1
      <3>1. i - 1 \in DOMAIN table /\ t[i] = table[i - 1]
        BY Zenon, <1>2, <2>2 DEF Fronted
      <3>2. PICK j \in DOMAIN list : Recalls(t[i], list[j], booted)
        BY Zenon, <3>1 DEF Follows
      <3> QED
        BY Zenon, <1>1, <3>2 DEF Fronted
    <2> QED
      BY Zenon, <2>1, <2>2
  <1>6. ASSUME NEW i \in DOMAIN t, NEW k \in DOMAIN t, NEW n \in DOMAIN r, NEW m \in DOMAIN r,
               i < k, t[i].dest = r[n].dest, t[k].dest = r[m].dest
        PROVE  n < m
    <2>1. k # 1 /\ i - 1 < k - 1
      <3>1. Len(table) + 1 \in Nat /\ i \in 1 .. Len(table) + 1 /\ k \in 1 .. Len(table) + 1
        BY Zenon, <1>2 DEF Fronted
      <3> QED
        BY Zenon, <1>6, <3>1, Places
    <2>2. k - 1 \in DOMAIN table /\ t[k] = table[k - 1]
      BY Zenon, <1>2, <2>1 DEF Fronted
    <2>3. m # 1
      BY Zenon, <1>1, <1>4, <1>6, <2>2 DEF Fronted
    <2>4. Len(list) + 1 \in Nat /\ n \in 1 .. Len(list) + 1 /\ m \in 1 .. Len(list) + 1
      BY Zenon, <1>1 DEF Fronted
    <2>5. CASE i = 1
      <3>1. r[n].dest = e.dest
        BY Zenon, <1>2, <1>3, <1>6, <2>5 DEF Fronted
      <3>2. n = 1
        <4>1. n = 1 \/ (n - 1 \in DOMAIN list /\ r[n] = list[n - 1])
          BY Zenon, <1>1 DEF Fronted
        <4> QED
          BY Zenon, <3>1, <4>1
      <3>3. 1 < m
        BY Zenon, <2>3, <2>4, SecondPlace
      <3> QED
        BY Zenon, <3>2, <3>3
    <2>6. CASE i # 1
      <3>1. i - 1 \in DOMAIN table /\ t[i] = table[i - 1]
        BY Zenon, <1>2, <2>6 DEF Fronted
      <3>2. n # 1
        BY Zenon, <1>1, <1>4, <1>6, <3>1 DEF Fronted
      <3>3. /\ n - 1 \in DOMAIN list /\ r[n] = list[n - 1]
            /\ m - 1 \in DOMAIN list /\ r[m] = list[m - 1]
        BY Zenon, <1>1, <2>3, <3>2 DEF Fronted
      <3>4. n - 1 < m - 1
        <4>1. table[i - 1].dest = list[n - 1].dest /\ table[k - 1].dest = list[m - 1].dest
          BY Zenon, <1>6, <2>2, <3>1, <3>3
        <4> QED
          BY Zenon, <2>1, <2>2, <3>1, <3>3, <4>1 DEF Follows
      <3> QED
        BY Zenon, <2>4, <3>4, Places
    <2> QED
      BY Zenon, <2>5, <2>6
  <1> QED
    BY Zenon, <1>2, <1>5, <1>6 DEF Follows, r, t

----------------------------------------------------------------------------
\* Room leaves a place free; the row it drops is one the list has behind PeersMax others.
LEMMA RoomFollows ==
    ASSUME NEW table, NEW list, NEW booted, Listed(list), Follows(table, list, booted),
           Len(table) <= PeersMax
    PROVE  /\ Follows(Room(table), list, booted) /\ Len(Room(table)) <= PeersMax - 1
           /\ Len(Room(table)) \in Nat
           /\ \A i \in DOMAIN table, j \in DOMAIN list :
                table[i].dest = list[j].dest /\ j < PeersMax =>
                  \E k \in DOMAIN Room(table) : Room(table)[k] = table[i]
  <1> DEFINE first == 1 .. PeersMax - 1
  <1>0. /\ table \in Seq(Rows) /\ Len(table) \in Nat /\ DOMAIN table = 1 .. Len(table)
        /\ list \in Seq(Learned) /\ DOMAIN list = 1 .. Len(list) /\ Len(list) \in Nat
        /\ PeersMax \in Nat \ {0} /\ PeersMax - 1 \in Nat
    BY PeersAssumption DEF Follows, Listed
  <1>1. CASE Len(table) = PeersMax
    <2>1. Room(table) = Only(table, first) /\ first \subseteq DOMAIN table
      BY <1>0, <1>1 DEF Room
    <2>2. Cardinality(first) = PeersMax - 1
      BY <1>0, FS_Interval
    <2> HIDE DEF first
    <2>3. Follows(Only(table, first), list, booted)
      BY Zenon, <2>1, OnlyFollows
    <2>4. Len(Only(table, first)) = PeersMax - 1
      BY Zenon, <1>0, <2>1, <2>2, OnlyKept
    <2>5. ASSUME NEW i \in DOMAIN table, NEW j \in DOMAIN list, table[i].dest = list[j].dest,
                 j < PeersMax
          PROVE  \E k \in DOMAIN Only(table, first) : Only(table, first)[k] = table[i]
      <3>1. i <= j
        BY Zenon, <2>5, RowsBehind
      <3>2. i \in first
        BY <1>0, <2>5, <3>1 DEF first
      <3> QED
        <4>1. Part(Only(table, first), table, first)
          BY Zenon, <1>0, <2>1, OnlyOrdered
        <4> QED
          BY Zenon, <3>2, <4>1 DEF Part
    <2>6. PeersMax - 1 <= PeersMax - 1
      BY <1>0
    <2> QED
      BY Zenon, <1>0, <2>1, <2>3, <2>4, <2>5, <2>6
  <1>2. CASE Len(table) # PeersMax
    <2>1. Room(table) = table
      BY Zenon, <1>2 DEF Room
    <2>2. Len(table) <= PeersMax - 1
      <3>1. \A n \in Nat, m \in Nat : n <= m /\ n # m => n <= m - 1
        OBVIOUS
      <3> QED
        BY Zenon, <1>0, <1>2, <3>1
    <2> QED
      BY Zenon, <1>0, <2>1, <2>2
  <1> QED
    BY Zenon, <1>1, <1>2

\* Without takes the rows of one peer.
LEMMA WithoutPart ==
    ASSUME NEW S, NEW q \in Seq(S), NEW dest
    PROVE  Without(q, dest) \in Seq(S) /\ Others(Without(q, dest), q, dest)
  <1> DEFINE kept == {i \in DOMAIN q : q[i].dest # dest}
  <1>1. kept \subseteq DOMAIN q /\ \A i \in DOMAIN q : i \in kept <=> q[i].dest # dest
    BY Zenon
  <1>2. Without(q, dest) = Only(q, kept)
    BY Zenon DEF Without
  <1> HIDE DEF kept
  <1>3. Only(q, kept) \in Seq(S) /\ Part(Only(q, kept), q, kept)
    BY Zenon, <1>1, OnlyOrdered
  <1>4. Len(Only(q, kept)) <= Len(q) /\ Len(Only(q, kept)) \in Nat
    BY Zenon, <1>1, OnlyShorter
  <1> QED
    <2> DEFINE r == Only(q, kept)
    <2>1. Part(r, q, kept) /\ Len(r) <= Len(q) /\ Len(r) \in Nat
      BY Zenon, <1>3, <1>4
    <2> HIDE DEF r
    <2>2. \A n \in DOMAIN r : \E i \in DOMAIN q : r[n] = q[i] /\ q[i].dest # dest
      BY Zenon, <1>1, <2>1 DEF Part
    <2>3. \A i \in DOMAIN q : q[i].dest # dest => \E n \in DOMAIN r : r[n] = q[i]
      BY Zenon, <1>1, <2>1 DEF Part
    <2>4. Others(r, q, dest)
      BY Zenon, <2>1, <2>2, <2>3 DEF Others
    <2> QED
      BY Zenon, <1>2, <1>3, <2>4 DEF r

\* The table `remember` purges follows what the list has of the other peers.
LEMMA PurgedFollows ==
    ASSUME NEW clock, NEW booted, NEW dest, NEW table, NEW list, Listed(list),
           Follows(table, list, booted), Len(table) <= PeersMax
    PROVE  /\ Follows(purge_expired(Without(table, dest), clock), Without(list, dest), booted)
           /\ Len(purge_expired(Without(table, dest), clock)) <= PeersMax
  <1> DEFINE others == {i \in DOMAIN table : table[i].dest # dest}
             kept == {j \in DOMAIN list : list[j].dest # dest}
             t == Without(table, dest)
             fresh == {i \in DOMAIN t : ~age_expired(t[i].age, clock)}
             p == purge_expired(t, clock)
  <1>0. /\ table \in Seq(Rows) /\ Len(table) \in Nat /\ list \in Seq(Learned)
        /\ PeersMax \in Nat
    BY PeersAssumption DEF Follows, Listed
  <1>1. /\ t = Only(table, others) /\ p = Only(t, fresh) /\ Without(list, dest) = Only(list, kept)
        /\ others \subseteq DOMAIN table /\ fresh \subseteq DOMAIN t /\ kept \subseteq DOMAIN list
    BY Zenon DEF Without, purge_expired
  <1>2. /\ t \in Seq(Rows) /\ Len(t) <= Len(table) /\ Len(t) \in Nat
        /\ \A n \in DOMAIN t : \E i \in DOMAIN table : t[n] = table[i] /\ table[i].dest # dest
    <2>1. t \in Seq(Rows) /\ Others(t, table, dest)
      BY Zenon, <1>0, WithoutPart
    <2> HIDE DEF t
    <2> QED
      BY Zenon, <2>1 DEF Others
  <1>3. \A j \in DOMAIN list : list[j].dest # dest => j \in kept
    BY Zenon
  <1> HIDE DEF others, kept, t, fresh, p
  <1>4. Follows(t, list, booted)
    BY Zenon, <1>1, OnlyFollows
  <1>5. Follows(p, list, booted)
    BY Zenon, <1>1, <1>4, OnlyFollows
  <1>6. /\ Len(p) <= Len(t) /\ Len(p) \in Nat
        /\ \A n \in DOMAIN p : \E i \in fresh : p[n] = t[i]
    <2>1. Len(p) <= Len(t) /\ Len(p) \in Nat
      BY Zenon, <1>1, <1>2, OnlyShorter
    <2>2. Part(p, t, fresh)
      BY Zenon, <1>1, <1>2, OnlyOrdered
    <2> QED
      BY Zenon, <2>1, <2>2 DEF Part
  <1>7. Len(p) <= PeersMax
    BY <1>0, <1>2, <1>6
  <1>8. \A i \in DOMAIN p, j \in DOMAIN list : p[i].dest = list[j].dest => j \in kept
    <2> TAKE i \in DOMAIN p, j \in DOMAIN list
    <2>1. PICK x \in DOMAIN t : p[i] = t[x]
      BY Zenon, <1>1, <1>6
    <2>2. t[x].dest # dest
      BY Zenon, <1>2
    <2> QED
      BY Zenon, <1>3, <2>1, <2>2
  <1>9. Follows(p, Only(list, kept), booted)
    BY Zenon, <1>1, <1>5, <1>8, FollowsPart
  <1> QED
    BY Zenon, <1>1, <1>7, <1>9 DEF t, p

\* It has every other row that the clock does not call expired.
LEMMA PurgedHas ==
    ASSUME NEW table \in Seq(Rows), NEW dest, NEW clock, NEW i \in DOMAIN table,
           table[i].dest # dest, ~age_expired(table[i].age, clock)
    PROVE  HasRow(purge_expired(Without(table, dest), clock), table[i])
  <1> DEFINE t == Without(table, dest)
             fresh == {n \in DOMAIN t : ~age_expired(t[n].age, clock)}
  <1>1. /\ purge_expired(t, clock) = Only(t, fresh) /\ fresh \subseteq DOMAIN t
        /\ \A n \in DOMAIN t : ~age_expired(t[n].age, clock) => n \in fresh
    BY Zenon DEF purge_expired
  <1>2. t \in Seq(Rows) /\ Others(t, table, dest)
    BY Zenon, WithoutPart
  <1> HIDE DEF t, fresh
  <1>3. \E n \in DOMAIN t : t[n] = table[i]
    BY Zenon, <1>2 DEF Others
  <1>4. \A n \in fresh : \E k \in DOMAIN Only(t, fresh) : Only(t, fresh)[k] = t[n]
    <2>1. Part(Only(t, fresh), t, fresh)
      BY Zenon, <1>1, <1>2, OnlyOrdered
    <2> QED
      BY Zenon, <2>1 DEF Part
  <1> QED
    BY Zenon, <1>1, <1>3, <1>4 DEF t, HasRow

\* The row of a peer has the key the list has of it, and no clock calls it expired before
\* the key really is.
LEMMA RowUsable ==
    ASSUME NEW moment \in Nat, NEW booted \in 0 .. moment, NEW clock \in Clocks(moment, booted),
           NEW table, NEW list, Listed(list), Follows(table, list, booted),
           NEW i \in DOMAIN table, NEW j \in DOMAIN list, table[i].dest = list[j].dest,
           moment - list[j].at <= ExpirySecs
    PROVE  table[i].ratchet = list[j].ratchet /\ ~age_expired(table[i].age, clock)
  <1>1. table \in Seq(Rows) /\ list \in Seq(Learned)
    BY Zenon DEF Follows, Listed
  <1>2. PICK m \in DOMAIN list : Recalls(table[i], list[m], booted)
    BY Zenon DEF Follows
  <1>3. m = j
    BY Zenon, <1>2 DEF Listed, Recalls
  <1>4. list[j].at \in Nat /\ table[i].age \in Ages
    <2>1. list[j] \in Learned /\ table[i] \in Rows
      BY <1>1
    <2> QED
      BY Zenon, <2>1 DEF Learned, Rows
  <1>5. ~age_expired(table[i].age, clock)
    BY Zenon, <1>2, <1>3, <1>4, KeyNotExpired DEF Recalls
  <1> QED
    BY Zenon, <1>2, <1>3, <1>5 DEF Recalls

\* So `remember` keeps every other peer whose key has not really expired.
LEMMA PurgedKeeps ==
    ASSUME NEW moment \in Nat, NEW booted \in 0 .. moment, NEW clock \in Clocks(moment, booted),
           NEW dest, NEW table, NEW list, Listed(list), Follows(table, list, booted),
           NEW i \in DOMAIN table, NEW j \in DOMAIN list, table[i].dest = list[j].dest,
           list[j].dest # dest, moment - list[j].at <= ExpirySecs
    PROVE  HasRow(purge_expired(Without(table, dest), clock), table[i])
  <1>1. table \in Seq(Rows) /\ table[i].dest # dest
    BY Zenon DEF Follows
  <1>2. ~age_expired(table[i].age, clock)
    BY Zenon, RowUsable
  <1> QED
    BY Zenon, <1>1, <1>2, PurgedHas

\* `remember` puts the peer first in the table as it is in the list, and what it drops to
\* make room the list has further back.
LEMMA RememberTracks ==
    ASSUME NEW moment \in Nat, NEW booted \in 0 .. moment, NEW clock \in Clocks(moment, booted),
           NEW dest \in Peers, NEW ratchet \in PeerKeys, NEW table, NEW list,
           Tracks(table, list, booted, moment)
    PROVE  Tracks(remembered(table, dest, ratchet, clock),
                  <<[dest |-> dest, ratchet |-> ratchet, at |-> moment]>> \o Without(list, dest),
                  booted, moment)
  <1> DEFINE row == PeerRatchet(dest, ratchet, anchor(clock))
             e == [dest |-> dest, ratchet |-> ratchet, at |-> moment]
             kept == {j \in DOMAIN list : list[j].dest # dest}
             l == Without(list, dest)
             p == purge_expired(Without(table, dest), clock)
             t == Room(p)
  <1>0. /\ Listed(list) /\ \A j \in DOMAIN list : list[j].at <= moment
        /\ Follows(table, list, booted) /\ Len(table) <= PeersMax /\ Reaches(table, list, moment)
        /\ list \in Seq(Learned)
    BY Zenon DEF Tracks, Listed
  <1>1. row \in Rows /\ e \in Learned /\ e.dest = dest /\ e.at = moment /\ row.dest = dest
    <2>1. anchor(clock) \in Ages
      BY DEF Clocks, NoWall, anchor, Ages, AgeKinds
    <2> QED
      BY Zenon, <2>1 DEF Rows, Learned, PeerRatchet
  <1>2. Recalls(row, e, booted)
    <2>1. moment <= moment
      OBVIOUS
    <2>2. Dates(anchor(clock), moment, booted)
      BY Zenon, <2>1, StampDates
    <2> QED
      BY Zenon, <2>2 DEF Recalls, PeerRatchet
  <1>3. remembered(table, dest, ratchet, clock) = <<row>> \o t
    BY Zenon DEF remembered
  <1>4. /\ l = Only(list, kept) /\ kept \subseteq DOMAIN list
        /\ \A i, j \in DOMAIN list \ kept : list[i].dest = list[j].dest
        /\ \A j \in kept : list[j].dest # dest
    BY Zenon DEF Without
  <1>5. /\ l \in Seq(Learned)
        /\ \A n \in DOMAIN l : \E i \in DOMAIN list : l[n] = list[i] /\ list[i].dest # dest
    <2>1. l \in Seq(Learned) /\ Others(l, list, dest)
      BY Zenon, <1>0, WithoutPart
    <2> HIDE DEF l
    <2> QED
      BY Zenon, <2>1 DEF Others
  <1>6. /\ Follows(p, l, booted) /\ Len(p) <= PeersMax
        /\ \A i \in DOMAIN table, j \in DOMAIN list :
             table[i].dest = list[j].dest /\ list[j].dest # dest /\ moment - list[j].at <= ExpirySecs =>
               HasRow(p, table[i])
    <2>1. Follows(p, l, booted) /\ Len(p) <= PeersMax
      BY Zenon, <1>0, PurgedFollows
    <2>2. ASSUME NEW i \in DOMAIN table, NEW j \in DOMAIN list, table[i].dest = list[j].dest,
                 list[j].dest # dest, moment - list[j].at <= ExpirySecs
          PROVE  HasRow(p, table[i])
      <3>1. Listed(list) /\ Follows(table, list, booted)
        BY Zenon, <1>0
      <3> QED
        BY Zenon, <2>2, <3>1, PurgedKeeps
    <2> QED
      BY Zenon, <2>1, <2>2
  <1> HIDE DEF row, e, kept, l, p
  <1>7. Listed(l)
    BY Zenon, <1>0, <1>4, OnlyListed
  <1>8. /\ Follows(t, l, booted) /\ Len(t) <= PeersMax - 1 /\ Len(t) \in Nat
        /\ \A i \in DOMAIN p, j \in DOMAIN l : p[i].dest = l[j].dest /\ j < PeersMax =>
             \E k \in DOMAIN t : t[k] = p[i]
    BY Zenon, <1>6, <1>7, RoomFollows
  <1> HIDE DEF t
  <1>9. \A j \in DOMAIN l : l[j].dest # e.dest
    BY Zenon, <1>1, <1>5
  <1>10. Listed(<<e>> \o l) /\ Follows(<<row>> \o t, <<e>> \o l, booted)
    BY Zenon, <1>1, <1>2, <1>7, <1>8, <1>9, ListedInFront, FollowsInFront
  <1>11. Fronted(<<e>> \o l, e, l)
    BY Zenon, <1>1, <1>5, InFront
  <1>12. Fronted(<<row>> \o t, row, t)
    <2>1. t \in Seq(Rows)
      BY Zenon, <1>8 DEF Follows
    <2> QED
      BY Zenon, <1>1, <2>1, InFront
  <1> DEFINE tt == <<row>> \o t
             ll == <<e>> \o l
  <1> HIDE DEF tt, ll
  <1>13. \A j \in DOMAIN ll : ll[j].at <= moment
    <2>1. moment <= moment
      OBVIOUS
    <2> QED
      <3> TAKE j \in DOMAIN ll
      <3>1. ll[j] = e \/ (j - 1 \in DOMAIN l /\ ll[j] = l[j - 1])
        BY Zenon, <1>11 DEF ll, Fronted
      <3> QED
        BY Zenon, <1>0, <1>1, <1>5, <2>1, <3>1
  <1>14. Len(tt) <= PeersMax
    BY <1>8, <1>12, PeersAssumption DEF tt, Fronted
  <1>15. ASSUME NEW j \in DOMAIN ll, j <= PeersMax, moment - ll[j].at <= ExpirySecs
         PROVE  \E i \in DOMAIN tt : tt[i].dest = ll[j].dest
    <2>1. CASE j = 1
      BY Zenon, <1>1, <1>11, <1>12, <2>1 DEF tt, ll, Fronted
    <2>2. CASE j # 1
      <3>1. j - 1 \in DOMAIN l /\ ll[j] = l[j - 1]
        BY Zenon, <1>11, <2>2 DEF ll, Fronted
      <3>2. j \in Nat /\ j - 1 < PeersMax /\ (j - 1) + 1 = j
        BY <1>11, <1>15, PeersAssumption DEF ll, Fronted
      <3>3. PICK x \in kept : l[j - 1] = list[x] /\ x <= (j - 1) + 1
        <4>1. \A i, k \in DOMAIN list \ kept : i = k
          BY Zenon, <1>0, <1>4 DEF Listed
        <4> QED
          BY Zenon, <1>0, <1>4, <3>1, <4>1, OneDropped
      <3>4. x \in DOMAIN list /\ x <= PeersMax
        <4>1. x \in DOMAIN list /\ x <= j
          BY Zenon, <1>4, <3>2, <3>3
        <4>2. x \in Nat /\ PeersMax \in Nat
          BY <1>0, <4>1, PeersAssumption
        <4>3. \A a, b, c \in Nat : a <= b /\ b <= c => a <= c
          OBVIOUS
        <4> QED
          BY Zenon, <1>15, <3>2, <4>1, <4>2, <4>3
      <3>5. PICK i \in DOMAIN table : table[i].dest = list[x].dest
        BY Zenon, <1>0, <1>15, <3>1, <3>3, <3>4 DEF Reaches
      <3>6. PICK k \in DOMAIN p : p[k] = table[i]
        BY Zenon, <1>4, <1>6, <1>15, <3>1, <3>3, <3>4, <3>5 DEF HasRow
      <3>7. PICK m \in DOMAIN t : t[m] = p[k]
        BY Zenon, <1>8, <3>1, <3>2, <3>3, <3>5, <3>6
      <3> QED
        <4>1. m + 1 \in DOMAIN tt /\ tt[m + 1] = t[m]
          BY Zenon, <1>12 DEF tt, Fronted
        <4> QED
          BY Zenon, <3>1, <3>3, <3>5, <3>6, <3>7, <4>1
    <2> QED
      BY Zenon, <2>1, <2>2
  <1>16. Tracks(tt, ll, booted, moment)
    BY Zenon, <1>10, <1>13, <1>14, <1>15 DEF Tracks, Reaches, tt, ll
  <1> QED
    BY Zenon, <1>3, <1>16 DEF tt, ll, l, e

----------------------------------------------------------------------------
\* A table whose ages alone are new tracks the list as before, in any boot its ages date
\* the keys in.
LEMMA TracksReaged ==
    ASSUME NEW at, NEW booted, NEW next, NEW table, NEW list, Tracks(table, list, booted, at),
           NEW aged, aged \in Seq(Rows), Len(aged) = Len(table),
           \A i \in DOMAIN table :
              /\ aged[i].dest = table[i].dest /\ aged[i].ratchet = table[i].ratchet
              /\ \A s \in Nat : s <= at /\ Dates(table[i].age, s, booted) => Dates(aged[i].age, s, next)
    PROVE  Tracks(aged, list, next, at)
  <1>1. /\ Listed(list) /\ \A j \in DOMAIN list : list[j].at <= at
        /\ Follows(table, list, booted) /\ Len(table) <= PeersMax /\ Reaches(table, list, at)
        /\ list \in Seq(Learned) /\ table \in Seq(Rows)
    BY Zenon DEF Tracks, Listed, Follows
  <1>2. DOMAIN aged = DOMAIN table
    BY <1>1
  <1>3. \A j \in DOMAIN list : list[j].at \in Nat
    <2>1. \A j \in DOMAIN list : list[j] \in Learned
      BY <1>1
    <2> QED
      BY Zenon, <2>1 DEF Learned
  <1>4. ASSUME NEW i \in DOMAIN table
        PROVE  \E j \in DOMAIN list : Recalls(aged[i], list[j], next)
    <2>1. PICK j \in DOMAIN list : Recalls(table[i], list[j], booted)
      BY Zenon, <1>1 DEF Follows
    <2> QED
      BY Zenon, <1>1, <1>3, <2>1 DEF Recalls
  <1>5. ASSUME NEW i \in DOMAIN aged, NEW k \in DOMAIN aged, NEW j \in DOMAIN list,
               NEW m \in DOMAIN list, i < k, aged[i].dest = list[j].dest,
               aged[k].dest = list[m].dest
        PROVE  j < m
    BY Zenon, <1>1, <1>2, <1>5 DEF Follows
  <1>6. Follows(aged, list, next)
    BY Zenon, <1>2, <1>4, <1>5 DEF Follows
  <1>7. Reaches(aged, list, at)
    BY Zenon, <1>1, <1>2 DEF Reaches
  <1> QED
    BY Zenon, <1>1, <1>6, <1>7 DEF Tracks

\* Time that passes expires keys and nothing else.
LEMMA TracksLater ==
    ASSUME NEW at \in Nat, NEW booted, NEW table, NEW list, Tracks(table, list, booted, at)
    PROVE  Tracks(table, list, booted, at + 1)
  <1>1. /\ \A j \in DOMAIN list : list[j].at <= at
        /\ list \in Seq(Learned)
    BY Zenon DEF Tracks, Listed
  <1>2. \A j \in DOMAIN list : list[j].at \in Nat
    <2>1. \A j \in DOMAIN list : list[j] \in Learned
      BY <1>1
    <2> QED
      BY Zenon, <2>1 DEF Learned
  <1>3. \A j \in DOMAIN list :
          list[j].at <= at + 1 /\ ((at + 1) - list[j].at <= ExpirySecs => at - list[j].at <= ExpirySecs)
    BY <1>1, <1>2, ExpiryAssumption
  <1>4. ASSUME NEW j \in DOMAIN list, j <= PeersMax, (at + 1) - list[j].at <= ExpirySecs
        PROVE  \E i \in DOMAIN table : table[i].dest = list[j].dest
    <2>1. at - list[j].at <= ExpirySecs
      BY Zenon, <1>3, <1>4
    <2> QED
      BY Zenon, <1>4, <2>1 DEF Tracks, Reaches
  <1>5. Reaches(table, list, at + 1)
    BY Zenon, <1>4 DEF Reaches
  <1> QED
    BY Zenon, <1>3, <1>5 DEF Tracks

----------------------------------------------------------------------------
\* A row given another age.
LEMMA RowAged ==
    ASSUME NEW row \in Rows, NEW age \in Ages
    PROVE  /\ [row EXCEPT !.age = age] \in Rows /\ [row EXCEPT !.age = age].age = age
           /\ [row EXCEPT !.age = age].dest = row.dest
           /\ [row EXCEPT !.age = age].ratchet = row.ratchet
  BY DEF Rows

\* anchor_unknown_ages: ages are stamped anew.
LEMMA AnchorTracks ==
    ASSUME NEW moment \in Nat, NEW booted \in 0 .. moment, NEW clock \in Clocks(moment, booted),
           NEW table, NEW list, Tracks(table, list, booted, moment)
    PROVE  Tracks([i \in DOMAIN table |-> [table[i] EXCEPT !.age = effective_age(@, clock)]],
                  list, booted, moment)
  <1> DEFINE aged == [i \in DOMAIN table |->
                        [table[i] EXCEPT !.age = effective_age(table[i].age, clock)]]
  <1>1. table \in Seq(Rows)
    BY Zenon DEF Tracks, Follows
  <1>2. Len(table) \in Nat /\ DOMAIN table = 1 .. Len(table) /\ \A i \in DOMAIN table : table[i] \in Rows
    BY <1>1
  <1>3. ASSUME NEW i \in DOMAIN table
        PROVE  /\ aged[i] \in Rows
               /\ aged[i].dest = table[i].dest /\ aged[i].ratchet = table[i].ratchet
               /\ \A s \in Nat : s <= moment /\ Dates(table[i].age, s, booted) => Dates(aged[i].age, s, booted)
    <2>1. table[i].age \in Ages
      BY Zenon, <1>2 DEF Rows
    <2>2. /\ effective_age(table[i].age, clock) \in Ages
          /\ \A s \in Nat : s <= moment /\ Dates(table[i].age, s, booted) =>
               Dates(effective_age(table[i].age, clock), s, booted)
      BY Zenon, <2>1, EffectiveDates
    <2>3. aged[i] = [table[i] EXCEPT !.age = effective_age(table[i].age, clock)]
      BY Zenon
    <2> HIDE DEF aged
    <2>4. /\ aged[i] \in Rows /\ aged[i].age = effective_age(table[i].age, clock)
          /\ aged[i].dest = table[i].dest /\ aged[i].ratchet = table[i].ratchet
      <3> DEFINE age == effective_age(table[i].age, clock)
      <3>1. table[i] \in Rows /\ age \in Ages
        BY Zenon, <1>2, <2>2
      <3> HIDE DEF age
      <3>2. aged[i] = [table[i] EXCEPT !.age = age]
        BY Zenon, <2>3 DEF age
      <3>3. aged[i] \in Rows /\ aged[i].age = age
        BY <3>1, <3>2, RowAged
      <3>4. aged[i].dest = table[i].dest /\ aged[i].ratchet = table[i].ratchet
        BY <3>1, <3>2, RowAged
      <3> QED
        BY Zenon, <3>3, <3>4 DEF age
    <2> QED
      BY Zenon, <2>2, <2>4
  <1>4. aged \in Seq(Rows) /\ Len(aged) = Len(table)
    <2>1. DOMAIN aged = 1 .. Len(table) /\ aged = [i \in 1 .. Len(table) |-> aged[i]]
      BY Zenon, <1>2
    <2> HIDE DEF aged
    <2> QED
      BY <1>2, <1>3, <2>1
  <1> HIDE DEF aged
  <1>5. Tracks(aged, list, booted, moment)
    BY Zenon, <1>3, <1>4, TracksReaged
  <1> QED
    BY Zenon, <1>5 DEF aged

\* A table saved and loaded again: no age is an uptime then, and so it stands in any boot.
LEMMA SavedTracks ==
    ASSUME NEW at, NEW booted, NEW table, NEW list, Tracks(table, list, booted, at)
    PROVE  /\ Tracks(load_persisted(Blob(2, table)), list, booted, at)
           /\ \A i \in DOMAIN load_persisted(Blob(2, table)) :
                load_persisted(Blob(2, table))[i].age.kind # "Uptime"
  <1> DEFINE aged == load_persisted(Blob(2, table))
  <1>1. table \in Seq(Rows)
    BY Zenon DEF Tracks, Follows
  <1>2. Len(table) \in Nat /\ DOMAIN table = 1 .. Len(table) /\ \A i \in DOMAIN table : table[i] \in Rows
    BY <1>1
  <1>3. /\ DOMAIN aged = DOMAIN table
        /\ \A i \in DOMAIN table : aged[i] = [table[i] EXCEPT !.age = restored_age(table[i].age)]
        /\ aged = [i \in 1 .. Len(table) |-> aged[i]]
    BY <1>2 DEF load_persisted, Blob
  <1> HIDE DEF aged
  <1>4. ASSUME NEW i \in DOMAIN table
        PROVE  /\ aged[i] \in Rows /\ aged[i].age.kind # "Uptime"
               /\ aged[i].dest = table[i].dest /\ aged[i].ratchet = table[i].ratchet
               /\ \A s \in Nat : s <= at /\ Dates(table[i].age, s, booted) => Dates(aged[i].age, s, booted)
    <2>1. table[i].age \in Ages
      BY Zenon, <1>2 DEF Rows
    <2>2. /\ restored_age(table[i].age) \in Ages /\ restored_age(table[i].age).kind # "Uptime"
          /\ \A s \in Nat : Dates(table[i].age, s, booted) => Dates(restored_age(table[i].age), s, booted)
      BY Zenon, <2>1, RestoredDates
    <2>3. /\ aged[i] \in Rows /\ aged[i].age = restored_age(table[i].age)
          /\ aged[i].dest = table[i].dest /\ aged[i].ratchet = table[i].ratchet
      <3> DEFINE age == restored_age(table[i].age)
      <3>1. table[i] \in Rows /\ age \in Ages
        BY Zenon, <1>2, <2>2
      <3> HIDE DEF age
      <3>2. aged[i] = [table[i] EXCEPT !.age = age]
        BY Zenon, <1>3 DEF age
      <3>3. aged[i] \in Rows /\ aged[i].age = age
        BY <3>1, <3>2, RowAged
      <3>4. aged[i].dest = table[i].dest /\ aged[i].ratchet = table[i].ratchet
        BY <3>1, <3>2, RowAged
      <3> QED
        BY Zenon, <3>3, <3>4 DEF age
    <2> QED
      BY Zenon, <2>2, <2>3
  <1>5. aged \in Seq(Rows) /\ Len(aged) = Len(table)
    BY <1>2, <1>3, <1>4
  <1>6. Tracks(aged, list, booted, at)
    BY Zenon, <1>4, <1>5, TracksReaged
  <1> QED
    BY Zenon, <1>3, <1>4, <1>6 DEF aged

\* Without an uptime among its ages a table stands in any boot.
LEMMA OtherBoot ==
    ASSUME NEW at, NEW booted, NEW next, NEW table, NEW list, Tracks(table, list, booted, at),
           \A i \in DOMAIN table : table[i].age.kind # "Uptime"
    PROVE  Tracks(table, list, next, at)
  <1>1. table \in Seq(Rows)
    BY Zenon DEF Tracks, Follows
  <1>2. \A i \in DOMAIN table, s \in Nat : Dates(table[i].age, s, booted) => Dates(table[i].age, s, next)
    BY Zenon DEF Dates
  <1> QED
    BY Zenon, <1>1, <1>2, TracksReaged

----------------------------------------------------------------------------
\* The table begins as the legacy one in storage is loaded, or empty.
LEMMA LegacyTracks ==
    ASSUME NEW d \in Peers, NEW r \in PeerKeys, NEW s \in {0, 1},
           NEW legacy, legacy = <<PeerRatchet(d, r, [kind |-> "Wall", secs |-> s])>>,
           NEW list, list = [i \in DOMAIN legacy |->
                               [dest |-> legacy[i].dest, ratchet |-> legacy[i].ratchet, at |-> 1]]
    PROVE  /\ Tracks(load_persisted(Blob(1, legacy)), list, 1, 1)
           /\ \A i \in DOMAIN load_persisted(Blob(1, legacy)) :
                load_persisted(Blob(1, legacy))[i].age.kind # "Uptime"
  <1> DEFINE aged == load_persisted(Blob(1, legacy))
             age == IF s = 0 THEN Unknown ELSE [kind |-> "Wall", secs |-> s]
             row == PeerRatchet(d, r, age)
             e == [dest |-> d, ratchet |-> r, at |-> 1]
  <1>1. DOMAIN legacy = {1} /\ legacy[1] = PeerRatchet(d, r, [kind |-> "Wall", secs |-> s])
    OBVIOUS
  <1>2. age \in Ages /\ age.kind # "Uptime" /\ Dates(age, 1, 1)
    BY DEF Unknown, Ages, AgeKinds, Dates
  <1>3. /\ DOMAIN aged = {1} /\ aged[1] = row /\ aged = [i \in {1} |-> row]
        /\ list = [i \in {1} |-> e]
    BY <1>1 DEF load_persisted, Blob, PeerRatchet
  <1> HIDE DEF aged, age
  <1>4. row \in Rows /\ e \in Learned /\ Recalls(row, e, 1) /\ row.age = age /\ row.dest = d
    BY Zenon, <1>2 DEF Rows, Learned, Recalls, PeerRatchet
  <1>5. e.dest = d /\ e.at = 1
    BY Zenon
  <1> HIDE DEF row, e
  <1>6. aged \in Seq(Rows) /\ Len(aged) = 1 /\ list \in Seq(Learned)
    <2>1. aged = <<row>> /\ list = <<e>>
      BY <1>3
    <2>2. \A S : \A x \in S : <<x>> \in Seq(S) /\ Len(<<x>>) = 1
      OBVIOUS
    <2> QED
      BY Zenon, <1>4, <2>1, <2>2
  <1>7. DOMAIN list = {1} /\ list[1] = e /\ \A i \in {1} : i = 1
    BY Zenon, <1>3
  <1>8. 1 <= 1 /\ ~(1 < 1) /\ 1 <= PeersMax
    BY PeersAssumption
  <1>9. Listed(list) /\ \A j \in DOMAIN list : list[j].at <= 1
    BY Zenon, <1>5, <1>6, <1>7, <1>8 DEF Listed
  <1>10. Follows(aged, list, 1)
    BY Zenon, <1>3, <1>4, <1>6, <1>7, <1>8 DEF Follows
  <1>11. Reaches(aged, list, 1)
    BY Zenon, <1>3, <1>4, <1>5, <1>7 DEF Reaches
  <1>12. Tracks(aged, list, 1, 1)
    BY Zenon, <1>6, <1>8, <1>9, <1>10, <1>11 DEF Tracks
  <1>13. \A i \in DOMAIN aged : aged[i].age.kind # "Uptime"
    BY Zenon, <1>2, <1>3, <1>4, <1>7
  <1> QED
    BY Zenon, <1>12, <1>13 DEF aged

\* An empty table tracks an empty list.
LEMMA NothingTracks ==
    ASSUME NEW list, list = [i \in DOMAIN <<>> |->
                               [dest |-> <<>>[i].dest, ratchet |-> <<>>[i].ratchet, at |-> 1]]
    PROVE  /\ Tracks(load_persisted(Blob(1, <<>>)), list, 1, 1)
           /\ \A i \in DOMAIN load_persisted(Blob(1, <<>>)) :
                load_persisted(Blob(1, <<>>))[i].age.kind # "Uptime"
  <1>1. list = <<>> /\ load_persisted(Blob(1, <<>>)) = <<>>
    BY DEF load_persisted, Blob
  <1>2. /\ <<>> \in Seq(Rows) /\ <<>> \in Seq(Learned) /\ Len(<<>>) <= PeersMax
        /\ \A i \in DOMAIN <<>> : FALSE
    BY PeersAssumption
  <1> QED
    BY Zenon, <1>1, <1>2 DEF Tracks, Listed, Follows, Reaches

\* What is kept holds at the start.
LEMMA PeersBegin == PeerInit => PeerKept
  <1> SUFFICES ASSUME PeerInit PROVE PeerKept
    OBVIOUS
  <1>1. time = 1 /\ boot = 1 /\ peers = load_persisted(stored) /\ stored_known = known
    BY Zenon DEF PeerInit
  <1>2. PICK legacy :
          /\ \/ legacy = <<>>
             \/ \E d \in Peers, r \in PeerKeys, s \in {0, 1} :
                  legacy = <<PeerRatchet(d, r, [kind |-> "Wall", secs |-> s])>>
          /\ stored = Blob(1, legacy)
          /\ known = [i \in DOMAIN legacy |->
                       [dest |-> legacy[i].dest, ratchet |-> legacy[i].ratchet, at |-> 1]]
    BY DEF PeerInit
  <1>3. /\ Tracks(load_persisted(stored), known, 1, 1)
        /\ \A i \in DOMAIN load_persisted(stored) : load_persisted(stored)[i].age.kind # "Uptime"
    <2>1. CASE legacy = <<>>
      BY Zenon, <1>2, <2>1, NothingTracks
    <2>2. CASE legacy # <<>>
      <3>1. PICK d \in Peers, r \in PeerKeys, s \in {0, 1} :
              legacy = <<PeerRatchet(d, r, [kind |-> "Wall", secs |-> s])>>
        BY Zenon, <1>2, <2>2
      <3> QED
        BY Zenon, <1>2, <3>1, LegacyTracks
    <2> QED
      BY Zenon, <2>1, <2>2
  <1>4. time \in Nat /\ boot \in 0 .. time
    BY <1>1
  <1> QED
    BY Zenon, <1>1, <1>3, <1>4 DEF PeerKept

----------------------------------------------------------------------------
\* One lemma per action: remember,
LEMMA RememberKeeps ==
    ASSUME PeerKept, NEW dest \in Peers, NEW ratchet \in PeerKeys, remember(dest, ratchet)
    PROVE  PeerKept'
  <1>1. PICK clock \in Clocks(time, boot) : peers' = remembered(peers, dest, ratchet, clock)
    BY Zenon DEF remember
  <1>2. /\ known' = <<[dest |-> dest, ratchet |-> ratchet, at |-> time]>> \o Without(known, dest)
        /\ stored' = stored /\ time' = time /\ boot' = boot /\ stored_known' = stored_known
    BY Zenon DEF remember
  <1>3. time \in Nat /\ boot \in 0 .. time /\ Tracks(peers, known, boot, time)
    BY Zenon DEF PeerKept
  <1>4. Tracks(peers', known', boot, time)
    BY Zenon, <1>1, <1>2, <1>3, RememberTracks
  <1> QED
    BY Zenon, <1>2, <1>3, <1>4 DEF PeerKept

\* anchor_unknown_ages,
LEMMA AnchorKeeps == PeerKept /\ anchor_unknown_ages => PeerKept'
  <1> SUFFICES ASSUME PeerKept, anchor_unknown_ages PROVE PeerKept'
    OBVIOUS
  <1>1. PICK clock \in Clocks(time, boot) :
          peers' = [i \in DOMAIN peers |-> [peers[i] EXCEPT !.age = effective_age(@, clock)]]
    BY Zenon DEF anchor_unknown_ages
  <1>2. /\ known' = known /\ stored' = stored /\ time' = time /\ boot' = boot
        /\ stored_known' = stored_known
    BY Zenon DEF anchor_unknown_ages
  <1>3. time \in Nat /\ boot \in 0 .. time /\ Tracks(peers, known, boot, time)
    BY Zenon DEF PeerKept
  <1>4. Tracks(peers', known, boot, time)
    BY Zenon, <1>1, <1>3, AnchorTracks
  <1> QED
    BY Zenon, <1>2, <1>3, <1>4 DEF PeerKept

\* serialize_into and the write,
LEMMA SaveKeeps == PeerKept /\ Save => PeerKept'
  <1> SUFFICES ASSUME PeerKept, Save PROVE PeerKept'
    OBVIOUS
  <1>1. Tracks(peers, known, boot, time)
    BY Zenon DEF PeerKept
  <1>2. /\ Tracks(load_persisted(Blob(2, peers)), known, boot, time)
        /\ \A i \in DOMAIN load_persisted(Blob(2, peers)) :
             load_persisted(Blob(2, peers))[i].age.kind # "Uptime"
    BY Zenon, <1>1, SavedTracks
  <1> QED
    BY Zenon, <1>2 DEF PeerKept, Save

\* a restart,
LEMMA RestartKeeps == PeerKept /\ PeerRestart => PeerKept'
  <1> SUFFICES ASSUME PeerKept, PeerRestart PROVE PeerKept'
    OBVIOUS
  <1>1. time \in Nat /\ time \in 0 .. time
    BY DEF PeerKept
  <1>2. Tracks(load_persisted(stored), stored_known, time, time)
    BY Zenon, OtherBoot DEF PeerKept
  <1> QED
    BY Zenon, <1>1, <1>2 DEF PeerKept, PeerRestart

\* and time that passes.
LEMMA PassKeeps == PeerKept /\ Pass => PeerKept'
  <1> SUFFICES ASSUME PeerKept, Pass PROVE PeerKept'
    OBVIOUS
  <1>1. time \in Nat /\ time + 1 \in Nat /\ boot \in 0 .. time + 1
    BY DEF PeerKept
  <1>2. /\ Tracks(peers, known, boot, time + 1)
        /\ Tracks(load_persisted(stored), stored_known, boot, time + 1)
    BY Zenon, <1>1, TracksLater DEF PeerKept
  <1> QED
    BY Zenon, <1>1, <1>2 DEF PeerKept, Pass

\* Every step keeps it.
LEMMA PeerStep == PeerKept /\ [PeerNext]_peerVars => PeerKept'
  <1> SUFFICES ASSUME PeerKept, [PeerNext]_peerVars PROVE PeerKept'
    OBVIOUS
  <1>1. ASSUME NEW dest \in Peers, NEW ratchet \in PeerKeys, remember(dest, ratchet)
        PROVE  PeerKept'
    BY Zenon, <1>1, RememberKeeps
  <1>2. CASE anchor_unknown_ages
    BY Zenon, <1>2, AnchorKeeps
  <1>3. CASE Save
    BY Zenon, <1>3, SaveKeeps
  <1>4. CASE PeerRestart
    BY Zenon, <1>4, RestartKeeps
  <1>5. CASE Pass
    BY Zenon, <1>5, PassKeeps
  <1>6. CASE UNCHANGED peerVars
    BY Zenon, <1>6 DEF PeerKept, peerVars
  <1> QED
    BY Zenon, <1>1, <1>2, <1>3, <1>4, <1>5, <1>6 DEF PeerNext

\* What is kept says that the peers are reachable: a lookup takes the one row of a peer.
LEMMA KeptReachable == PeerKept => PeersStayReachable
  <1> SUFFICES ASSUME PeerKept, NEW clock \in Clocks(time, boot)
               PROVE  /\ \A d \in Peers : \A r \in get(d, clock) : Holds(known, d, r)
                      /\ \A i \in DOMAIN known \cap 1 .. PeersMax :
                            time - known[i].at <= ExpirySecs =>
                              get(known[i].dest, clock) = {known[i].ratchet}
    BY Zenon DEF PeersStayReachable
  <1>1. /\ time \in Nat /\ boot \in 0 .. time /\ Listed(known)
        /\ Follows(peers, known, boot) /\ Reaches(peers, known, time)
    BY Zenon DEF PeerKept, Tracks
  <1>2. peers \in Seq(Rows)
    BY Zenon, <1>1 DEF Follows
  <1>3. ASSUME NEW d \in Peers, NEW r \in get(d, clock) PROVE Holds(known, d, r)
    <2>1. PICK i \in DOMAIN peers : peers[i].dest = d /\ r = peers[i].ratchet
      BY Zenon DEF get
    <2>2. PICK j \in DOMAIN known : Recalls(peers[i], known[j], boot)
      BY Zenon, <1>1 DEF Follows
    <2> QED
      BY Zenon, <2>1, <2>2 DEF Holds, Recalls
  <1>4. ASSUME NEW i \in DOMAIN known \cap 1 .. PeersMax, time - known[i].at <= ExpirySecs
        PROVE  get(known[i].dest, clock) = {known[i].ratchet}
    <2> DEFINE usable == {n \in DOMAIN peers :
                            peers[n].dest = known[i].dest /\ ~age_expired(peers[n].age, clock)}
    <2>1. i \in DOMAIN known /\ i <= PeersMax /\ i \in Nat
      BY PeersAssumption
    <2>2. PICK k \in DOMAIN peers : peers[k].dest = known[i].dest
      BY Zenon, <1>1, <1>4, <2>1 DEF Reaches
    <2>3. peers[k].ratchet = known[i].ratchet /\ ~age_expired(peers[k].age, clock)
      BY Zenon, <1>1, <1>4, <2>1, <2>2, RowUsable
    <2>4. \A n \in usable : n = k /\ k <= n
      <3> TAKE n \in usable
      <3>1. n \in DOMAIN peers /\ peers[n].dest = known[i].dest
        BY Zenon
      <3>2. n \in Nat /\ k \in Nat
        BY <2>2, <3>1, <1>2
      <3>3. (n < k => i < i) /\ (k < n => i < i)
        BY Zenon, <1>1, <2>1, <2>2, <3>1 DEF Follows
      <3>4. \A x, y, z \in Nat : (x < y => z < z) /\ (y < x => z < z) => x = y /\ y <= x
        OBVIOUS
      <3> QED
        BY Zenon, <2>1, <3>2, <3>3, <3>4
    <2>5. k \in usable
      BY Zenon, <2>2, <2>3
    <2>6. {m \in usable : \A n \in usable : m <= n} = {k}
      BY Zenon, <2>4, <2>5
    <2>7. get(known[i].dest, clock) = {peers[m].ratchet : m \in {k}}
      BY Zenon, <2>6 DEF get
    <2> HIDE DEF usable
    <2> QED
      BY Zenon, <2>3, <2>7
  <1> QED
    BY Zenon, <1>3, <1>4

\* For any table size and expiry, whatever is learned, saved, restored and stamped in any
\* order, and whichever clocks the host has: a lookup (get) never yields a key the peer has
\* replaced, and the peers learned last are looked up with success until their keys expire.
THEOREM PeersReachable == PeerSpec => []PeersStayReachable
  <1>1. PeerInit => PeerKept
    BY PeersBegin
  <1>2. PeerKept /\ [PeerNext]_peerVars => PeerKept'
    BY PeerStep
  <1>3. PeerKept => PeersStayReachable
    BY KeptReachable
  <1> QED
    BY <1>1, <1>2, <1>3, PTL DEF PeerSpec

----------------------------------------------------------------------------
(* Announces within their budget                                             *)

\* What the bucket has left and what has flowed through it never exceed one second's
\* announces; until a bucket is first used nothing has.
BucketKept ==
    /\ rates.steady \in Nat /\ rates.grace \in Nat
    /\ bucket \in [initialized : BOOLEAN, credit : Nat, age : 0 .. Milli]
    /\ flow \in Nat /\ flow <= MaxRate * Milli
    /\ IF bucket.initialized
         THEN flow = 0 \/ flow + bucket.credit + bucket.age * MaxRate <= MaxRate * Milli
         ELSE flow = 0

\* The bucket knows how long it was left alone.
RefusalKept ==
    /\ quiet \in 0 .. Milli
    /\ bucket.initialized => quiet = bucket.age
    /\ refusal.is => /\ refusal.after \in Nat
                     /\ refusal.after * Min({rates.steady, rates.grace} \ {0}) < Milli

\* The time since an announce, and what is left until the gate opens, pay for it.
GateKept ==
    /\ \A a \in queue : a.tx \in TxTimes
    /\ closed \in Nat /\ last_sent \in [tx : Nat, since : Nat]
    /\ last_sent.tx = 0 \/ last_sent.tx \in TxTimes
    /\ last_sent.tx * Permille <= (last_sent.since + closed) * cap_floor(cap_permille)

\* Products of naturals.
LEMMA Products ==
    /\ \A a, b \in Nat : a * b \in Nat /\ a * b = b * a
    /\ \A a, b \in Nat : (a + 1) * b = a * b + b
    /\ \A a, b, c \in Nat : a <= b => a * c <= b * c
    /\ \A a \in Nat : 0 * a = 0 /\ 1 * a = a
  OBVIOUS

\* The rates: the present one is one of two, and no higher than the higher one.
LEMMA RatesCompare ==
    ASSUME rates.steady \in Nat, rates.grace \in Nat
    PROVE  /\ MaxRate \in Nat /\ Rate \in {rates.steady, rates.grace} /\ Rate \in Nat
           /\ Rate <= MaxRate
  <1>1. \A x, y \in Int : Max({x, y}) = IF x >= y THEN x ELSE y
    BY DEF Max
  <1>2. rates.steady \in Int /\ rates.grace \in Int
    OBVIOUS
  <1>3. MaxRate = IF rates.steady >= rates.grace THEN rates.steady ELSE rates.grace
    BY <1>1, <1>2, Zenon DEF MaxRate
  <1> QED
    BY <1>3 DEF Rate

\* The refilled bucket: never more than a second's worth, and no more than time allows.
LEMMA RefillBounds ==
    ASSUME BucketKept
    PROVE  LET credit == Refilled(Rate)
           IN  /\ credit \in Nat /\ credit <= Rate * Milli
               /\ credit = Rate * Milli
                    \/ (bucket.initialized /\ credit = bucket.credit + bucket.age * Rate)
  <1>1. /\ Rate \in Nat /\ Milli \in Nat /\ bucket.age \in Nat /\ bucket.credit \in Nat
    BY RatesCompare, PacingAssumption DEF BucketKept
  <1> DEFINE full == Rate * Milli
             more == bucket.age * Rate
             sum == bucket.credit + more
  <1>2. full \in Nat /\ more \in Nat /\ sum \in Nat
    BY <1>1, Products
  <1>3. Refilled(Rate) = IF ~bucket.initialized THEN full ELSE Min({sum, full})
    BY DEF Refilled
  <1> HIDE DEF full, sum
  <1>4. \A x, y \in Int : Min({x, y}) = IF x <= y THEN x ELSE y
    BY DEF Min
  <1>5. sum \in Int /\ full \in Int
    BY <1>2
  <1>6. Min({sum, full}) = IF sum <= full THEN sum ELSE full
    BY <1>4, <1>5, Zenon
  <1>7. /\ Refilled(Rate) \in Nat /\ Refilled(Rate) <= full
        /\ Refilled(Rate) = full \/ (bucket.initialized /\ Refilled(Rate) = sum)
    BY <1>2, <1>3, <1>6
  <1> QED
    BY <1>7 DEF full, sum

\* admit and the bucket.
LEMMA AdmitBucket ==
    ASSUME BucketKept, NEW hops, NEW tx, Admit(hops, tx)
    PROVE  BucketKept'
  <1> DEFINE credit == Refilled(Rate)
             max == MaxRate * Milli
             admitted == Rate = 0 \/ credit >= Milli
             rest == IF Rate = 0 THEN 0 ELSE IF admitted THEN credit - Milli ELSE credit
  <1>1. /\ bucket' = [initialized |-> TRUE, age |-> 0, credit |-> rest]
        /\ flow' = IF admitted /\ Rate # 0 THEN flow + Milli ELSE flow
        /\ rates' = rates
    BY Zenon DEF Admit
  <1>2. MaxRate' = MaxRate
    BY <1>1 DEF MaxRate
  <1>3. /\ Milli \in Nat /\ MaxRate \in Nat /\ Rate \in Nat /\ Rate <= MaxRate /\ max \in Nat
        /\ bucket.age \in Nat /\ bucket.credit \in Nat /\ flow \in Nat
    BY RatesCompare, PacingAssumption, Products DEF BucketKept
  <1>4. /\ credit \in Nat /\ credit <= Rate * Milli
        /\ credit = Rate * Milli
             \/ (bucket.initialized /\ credit = bucket.credit + bucket.age * Rate)
    BY RefillBounds
  <1>5. Rate * Milli <= max /\ bucket.age * Rate <= bucket.age * MaxRate
    BY <1>3, Products
  <1>6. /\ bucket.age * Rate \in Nat /\ bucket.age * MaxRate \in Nat /\ Rate * Milli \in Nat
    BY <1>3, Products
  <1>7. flow = 0 \/ flow + credit <= max
    <2>1. CASE ~bucket.initialized
      BY <2>1 DEF BucketKept
    <2>2. CASE bucket.initialized /\ flow # 0
      <3>1. flow + bucket.credit + bucket.age * MaxRate <= max
        BY <2>2 DEF BucketKept
      <3> DEFINE p == bucket.age * Rate
                 q == bucket.age * MaxRate
                 f == Rate * Milli
      <3>2. /\ credit <= f /\ (credit = f \/ credit = bucket.credit + p) /\ p <= q
            /\ p \in Nat /\ q \in Nat /\ f \in Nat /\ flow + bucket.credit + q <= max
        BY <1>4, <1>5, <1>6, <3>1
      <3>3. credit <= bucket.credit + p
        <4>1. Refilled(Rate) = Min({bucket.credit + p, f})
          BY <2>2 DEF Refilled
        <4>2. \A x, y \in Int : Min({x, y}) = IF x <= y THEN x ELSE y
          BY DEF Min
        <4>3. bucket.credit + p \in Int /\ f \in Int
          BY <1>3, <3>2
        <4>4. credit = IF bucket.credit + p <= f THEN bucket.credit + p ELSE f
          BY <4>1, <4>2, <4>3, Zenon
        <4> HIDE DEF credit, p, f
        <4> QED
          BY <4>4, <3>2, <1>3
      <3> HIDE DEF credit, p, q, f, max
      <3> QED
        BY <1>3, <1>4, <3>2, <3>3
    <2> QED
      BY <2>1, <2>2
  <1>8. credit <= max
    <2> HIDE DEF credit, max
    <2> QED
      BY <1>3, <1>4, <1>5, <1>6
  <1> HIDE DEF credit, max
  <1>9. /\ rest \in Nat /\ flow' \in Nat /\ flow' + rest <= max
    <2>0. flow <= max
      BY DEF BucketKept, max
    <2>1. CASE Rate = 0
      BY <1>1, <1>3, <2>0, <2>1
    <2>2. CASE Rate # 0
      BY <1>1, <1>3, <1>4, <1>7, <1>8, <2>2
    <2> QED
      BY <2>1, <2>2
  <1> HIDE DEF rest, admitted
  <1>10. bucket' \in [initialized : BOOLEAN, credit : Nat, age : 0 .. Milli]
    <2> DEFINE b == TRUE
    <2>1. b \in BOOLEAN /\ 0 \in 0 .. Milli
      BY <1>3
    <2>2. bucket' = [initialized |-> b, age |-> 0, credit |-> rest]
      BY <1>1
    <2> HIDE DEF b
    <2> QED
      BY <1>9, <2>1, <2>2
  <1>11. bucket'.credit = rest /\ bucket'.age = 0
    BY <1>1
  <1>12. flow' + rest + 0 * MaxRate <= max /\ flow' <= max
    <2>1. \A a, b, c, d \in Nat : a + b <= d => a + b + 0 * c <= d /\ a <= d
      OBVIOUS
    <2> QED
      BY <1>3, <1>9, <2>1, Zenon
  <1>13. flow' <= max /\ flow' + bucket'.credit + bucket'.age * MaxRate <= max
    BY <1>11, <1>12, Zenon
  <1>14. /\ flow' <= MaxRate' * Milli
         /\ flow' + bucket'.credit + bucket'.age * MaxRate' <= MaxRate' * Milli
    BY <1>2, <1>13 DEF max
  <1>15. bucket'.initialized
    BY <1>1
  <1> QED
    BY Zenon, <1>1, <1>9, <1>10, <1>14, <1>15 DEF BucketKept

\* admit and the last refusal.
LEMMA AdmitRefusal ==
    ASSUME BucketKept, RefusalKept, NEW hops, NEW tx, Admit(hops, tx)
    PROVE  RefusalKept'
  <1> DEFINE credit == Refilled(Rate)
             smaller == {rates.steady, rates.grace} \ {0}
             m == Min(smaller)
  <1>1. /\ bucket'.age = 0 /\ quiet' = 0 /\ rates' = rates
        /\ refusal'.is = ~(Rate = 0 \/ credit >= Milli) /\ refusal'.after = quiet
    BY DEF Admit
  <1>2. /\ Milli \in Nat /\ Rate \in Nat /\ bucket.age \in Nat /\ bucket.credit \in Nat
        /\ quiet \in Nat /\ Rate \in {rates.steady, rates.grace}
        /\ rates.steady \in Nat /\ rates.grace \in Nat
    <2>1. rates.steady \in Nat /\ rates.grace \in Nat
      BY DEF BucketKept
    <2>2. Rate \in {rates.steady, rates.grace} /\ Rate \in Nat
      BY <2>1, RatesCompare, Zenon
    <2>3. Milli \in Nat
      BY PacingAssumption
    <2>4. bucket.age \in 0 .. Milli /\ bucket.credit \in Nat /\ quiet \in 0 .. Milli
      BY DEF BucketKept, RefusalKept
    <2> QED
      BY <2>1, <2>2, <2>3, <2>4
  <1>3. quiet' \in 0 .. Milli
    BY <1>1, <1>2
  <1>4. ASSUME refusal'.is
        PROVE  refusal'.after \in Nat /\ refusal'.after * m < Milli
    <2>1. Rate # 0 /\ ~(credit >= Milli)
      BY Zenon, <1>1, <1>4
    <2>2. /\ credit \in Nat
          /\ credit = Rate * Milli
               \/ (bucket.initialized /\ credit = bucket.credit + bucket.age * Rate)
      BY RefillBounds
    <2>3. Rate * Milli >= Milli
      <3>1. 1 <= Rate
        BY <1>2, <2>1
      <3>2. 1 * Milli <= Rate * Milli /\ 1 * Milli = Milli /\ Rate * Milli \in Nat
        BY <1>2, <3>1, Products
      <3> QED
        BY <1>2, <3>2
    <2>4. bucket.initialized /\ bucket.credit + bucket.age * Rate < Milli
      <3>1. credit # Rate * Milli
        BY <2>1, <2>3, Zenon
      <3>2. bucket.initialized /\ credit = bucket.credit + bucket.age * Rate
        BY <2>2, <3>1, Zenon
      <3> HIDE DEF credit
      <3>3. credit < Milli
        BY <1>2, <2>1, <2>2
      <3> QED
        BY <3>2, <3>3
    <2>5. quiet = bucket.age
      BY <2>4 DEF RefusalKept
    <2>6. m \in Nat /\ m <= Rate
      <3>1. smaller \subseteq Nat /\ Rate \in smaller
        BY <1>2, <2>1
      <3>2. PICK n \in smaller : \A k \in smaller : n <= k
        <4> DEFINE s == rates.steady
                   g == rates.grace
        <4>1. s \in Nat /\ g \in Nat /\ \A k : k \in smaller <=> k # 0 /\ (k = s \/ k = g)
          BY <1>2
        <4>2. s # 0 \/ g # 0
          BY <3>1
        <4> HIDE DEF s, g, smaller
        <4>3. CASE s # 0 /\ (g = 0 \/ s <= g)
          <5>1. s \in smaller /\ \A k \in smaller : s <= k
            BY <4>1, <4>3
          <5> QED
            BY <5>1
        <4>4. CASE g # 0 /\ (s = 0 \/ g <= s)
          <5>1. g \in smaller /\ \A k \in smaller : g <= k
            BY <4>1, <4>4
          <5> QED
            BY <5>1
        <4> QED
          BY <4>1, <4>2, <4>3, <4>4
      <3> HIDE DEF smaller
      <3>3. m \in smaller /\ \A k \in smaller : m <= k
        BY <3>2 DEF Min
      <3> QED
        BY Zenon, <3>1, <3>3
    <2>7. quiet * m <= quiet * Rate /\ quiet * m \in Nat /\ quiet * Rate \in Nat
      <3> HIDE DEF m
      <3>1. m * quiet <= Rate * quiet /\ m * quiet = quiet * m /\ Rate * quiet = quiet * Rate
        BY <1>2, <2>6, Products
      <3> QED
        BY <1>2, <2>6, <3>1, Products
    <2> HIDE DEF m
    <2>8. quiet * m < Milli
      <3> DEFINE p == quiet * Rate
                 r == quiet * m
      <3>1. bucket.credit + p < Milli /\ r <= p /\ r \in Nat /\ p \in Nat
        BY <2>4, <2>5, <2>7
      <3> HIDE DEF p, r
      <3>2. r < Milli
        BY <1>2, <3>1
      <3> QED
        BY <3>2 DEF r
    <2> QED
      BY <1>1, <1>2, <2>8, Zenon
  <1>5. Min({rates'.steady, rates'.grace} \ {0}) = m
    BY <1>1
  <1> HIDE DEF m
  <1> QED
    BY Zenon, <1>1, <1>3, <1>4, <1>5 DEF RefusalKept

\* One millisecond, capped.
LEMMA Counted ==
    ASSUME NEW x \in Nat, NEW cap \in Nat
    PROVE  Min({x + 1, cap}) = IF x + 1 <= cap THEN x + 1 ELSE cap
  <1>1. \A a, b \in Int : Min({a, b}) = IF a <= b THEN a ELSE b
    BY DEF Min
  <1>2. x + 1 \in Int /\ cap \in Int
    OBVIOUS
  <1> QED
    BY <1>1, <1>2, Zenon

\* Time passing and the bucket.
LEMMA ElapseBucket ==
    ASSUME BucketKept, RefusalKept, PacingElapse
    PROVE  BucketKept' /\ RefusalKept'
  <1> DEFINE age == IF bucket.age + 1 <= Milli THEN bucket.age + 1 ELSE Milli
             max == MaxRate * Milli
  <1>1. /\ Milli \in Nat /\ bucket.age \in Nat /\ bucket.age <= Milli /\ bucket.credit \in Nat
        /\ flow \in Nat /\ MaxRate \in Nat /\ max \in Nat /\ quiet \in Nat /\ quiet <= Milli
    BY RatesCompare, PacingAssumption, Products DEF BucketKept, RefusalKept
  <1>2. Min({bucket.age + 1, Milli}) = age
    BY <1>1, Counted
  <1>3. /\ bucket' = [bucket EXCEPT !.age = age] /\ rates' = rates /\ refusal' = refusal
        /\ flow' = IF flow > MaxRate THEN flow - MaxRate ELSE 0
        /\ quiet' = Min({quiet + 1, Milli})
    BY <1>2, Zenon DEF PacingElapse
  <1>4. age \in 0 .. Milli /\ age \in Nat /\ age <= bucket.age + 1
    BY <1>1
  <1>5. quiet' = IF quiet + 1 <= Milli THEN quiet + 1 ELSE Milli
    BY <1>1, <1>3, Counted
  <1>6. quiet' \in 0 .. Milli /\ (quiet = bucket.age => quiet' = age)
    BY <1>1, <1>5
  <1> HIDE DEF age
  <1>7. /\ bucket' \in [initialized : BOOLEAN, credit : Nat, age : 0 .. Milli]
        /\ bucket'.initialized = bucket.initialized /\ bucket'.credit = bucket.credit
        /\ bucket'.age = age
    BY <1>3, <1>4 DEF BucketKept
  <1>8. MaxRate' = MaxRate
    BY <1>3 DEF MaxRate
  <1>9. flow' \in Nat /\ flow' <= max
    <2>1. flow <= max
      BY DEF BucketKept
    <2> HIDE DEF max
    <2> QED
      BY <1>1, <1>3, <2>1
  <1>10. ASSUME bucket.initialized, flow' # 0
         PROVE  flow' + bucket'.credit + bucket'.age * MaxRate <= max
    <2>1. flow > MaxRate /\ flow' = flow - MaxRate /\ flow # 0
      BY <1>1, <1>3, <1>10
    <2>2. flow + bucket.credit + bucket.age * MaxRate <= max
      BY <1>10, <2>1 DEF BucketKept
    <2>3. /\ age * MaxRate <= (bucket.age + 1) * MaxRate /\ age * MaxRate \in Nat
          /\ (bucket.age + 1) * MaxRate = bucket.age * MaxRate + MaxRate
          /\ bucket.age * MaxRate \in Nat
      <3>1. bucket.age + 1 \in Nat
        BY <1>1
      <3> QED
        BY Zenon, <1>1, <1>4, <3>1, Products
    <2> DEFINE p == age * MaxRate
               q == bucket.age * MaxRate
    <2>4. p <= q + MaxRate /\ p \in Nat /\ q \in Nat /\ flow + bucket.credit + q <= max
      BY <2>2, <2>3, Zenon
    <2> HIDE DEF p, q, max
    <2>5. flow' + bucket.credit + p <= max
      BY <1>1, <2>1, <2>4
    <2> QED
      BY <1>7, <2>5, Zenon DEF p
  <1>11. ~bucket.initialized => flow' = 0
    <2>1. ~bucket.initialized => flow = 0
      BY DEF BucketKept
    <2> QED
      BY <1>1, <1>3, <2>1
  <1>12. BucketKept'
    BY <1>3, <1>7, <1>8, <1>9, <1>10, <1>11 DEF BucketKept
  <1>13. RefusalKept'
    BY <1>3, <1>6, <1>7 DEF RefusalKept
  <1> QED
    BY <1>12, <1>13

\* A gate charged for an announce pays for it.
LEMMA SpacingPays ==
    ASSUME NEW tx \in Nat
    PROVE  /\ cap_floor(cap_permille) \in Nat /\ cap_floor(cap_permille) >= 1
           /\ spacing_ms(tx) \in Nat
           /\ tx * Permille <= spacing_ms(tx) * cap_floor(cap_permille)
  <1> DEFINE c == cap_floor(cap_permille)
             p == tx * Permille
  <1>1. c \in Nat /\ c >= 1
    BY PacingAssumption DEF cap_floor
  <1>2. p \in Nat
    BY PacingAssumption, Products
  <1>3. spacing_ms(tx) = (p + c - 1) \div c
    BY DEF spacing_ms
  <1> HIDE DEF c, p
  <1>4. \A n, d \in Nat : d >= 1 => /\ (n + d - 1) \div d \in Nat
                                    /\ n <= ((n + d - 1) \div d) * d
    <2> SUFFICES ASSUME NEW n \in Nat, NEW d \in Nat, d >= 1
                 PROVE  /\ (n + d - 1) \div d \in Nat
                        /\ n <= ((n + d - 1) \div d) * d
      OBVIOUS
    <2>1. PICK a \in Nat : a = n + d - 1
      OBVIOUS
    <2>2. (a \div d) \in Nat /\ (a % d) \in 0 .. d - 1 /\ a = d * (a \div d) + (a % d)
      BY SMT
    <2>3. d * (a \div d) = (a \div d) * d /\ d * (a \div d) \in Nat
      BY <2>2, Products
    <2> QED
      BY <2>1, <2>2, <2>3
  <1>5. spacing_ms(tx) \in Nat /\ p <= spacing_ms(tx) * c
    BY <1>1, <1>2, <1>3, <1>4
  <1> QED
    BY <1>1, <1>5 DEF c, p

\* The longest airtime bounds every other.
LEMMA LongestAirtime ==
    /\ Max(TxTimes) \in Nat /\ \A tx \in TxTimes : tx <= Max(TxTimes)
  <1>1. PICK most \in TxTimes : \A tx \in TxTimes : tx <= most
    BY Zenon, PacingAssumption
  <1>2. \A x, y \in TxTimes : y <= x <=> x >= y
    BY PacingAssumption
  <1>3. Max(TxTimes) \in TxTimes /\ \A tx \in TxTimes : Max(TxTimes) >= tx
    BY Zenon, <1>1, <1>2 DEF Max
  <1> QED
    BY Zenon, <1>2, <1>3, PacingAssumption

\* Sending an announce charges the gate.
LEMMA ReleaseGate ==
    ASSUME GateKept, NEW a \in queue, Release(a)
    PROVE  GateKept'
  <1>1. /\ queue' = queue \ {a} /\ closed' = spacing_ms(a.tx)
        /\ last_sent' = [tx |-> a.tx, since |-> 0]
    BY DEF Release
  <1>2. a.tx \in TxTimes /\ a.tx \in Nat
    BY Zenon, PacingAssumption DEF GateKept
  <1>3. /\ spacing_ms(a.tx) \in Nat
        /\ a.tx * Permille <= spacing_ms(a.tx) * cap_floor(cap_permille)
    BY <1>2, SpacingPays
  <1>4. last_sent'.tx = a.tx /\ last_sent'.since + closed' = spacing_ms(a.tx)
    BY <1>1, <1>3
  <1>5. last_sent' \in [tx : Nat, since : Nat]
    BY <1>1, <1>2
  <1>6. last_sent'.tx * Permille <= (last_sent'.since + closed') * cap_floor(cap_permille)
    BY <1>3, <1>4, Zenon
  <1> QED
    BY Zenon, <1>1, <1>2, <1>3, <1>4, <1>5, <1>6 DEF GateKept

\* Time passing opens the gate no faster than it pays.
LEMMA ElapseGate ==
    ASSUME GateKept, PacingElapse
    PROVE  GateKept'
  <1> DEFINE c == cap_floor(cap_permille)
             cap == Max(TxTimes) * Permille
             since == IF last_sent.since + 1 <= cap THEN last_sent.since + 1 ELSE cap
             rest == IF closed > 0 THEN closed - 1 ELSE 0
             due == last_sent.tx * Permille
  <1>1. /\ c \in Nat /\ c >= 1 /\ cap \in Nat /\ due \in Nat
        /\ last_sent.since \in Nat /\ last_sent.tx \in Nat /\ closed \in Nat
    BY SpacingPays, LongestAirtime, PacingAssumption, Products DEF GateKept
  <1>2. Min({last_sent.since + 1, cap}) = since
    <2> HIDE DEF cap
    <2> QED
      BY <1>1, Counted
  <1>3. last_sent' = [last_sent EXCEPT !.since = since]
    BY <1>2, Zenon DEF PacingElapse
  <1>4. closed' = rest /\ rest \in Nat
    BY <1>1 DEF PacingElapse
  <1>5. due <= cap
    <2>1. last_sent.tx <= Max(TxTimes)
      BY <1>1, LongestAirtime DEF GateKept
    <2> QED
      BY <1>1, <2>1, LongestAirtime, Products, PacingAssumption
  <1>6. due <= (last_sent.since + closed) * c
    BY DEF GateKept
  <1> HIDE DEF cap, c, due
  <1>7. since \in Nat /\ (since + rest >= last_sent.since + closed \/ since = cap)
    BY <1>1
  <1> HIDE DEF since, rest
  <1>8. due <= (since + rest) * c
    <2>1. CASE since + rest >= last_sent.since + closed
      <3> DEFINE x == last_sent.since + closed
                 y == since + rest
      <3>1. x \in Nat /\ y \in Nat /\ x <= y /\ due <= x * c
        BY <1>1, <1>4, <1>6, <1>7, <2>1
      <3> HIDE DEF x, y
      <3>2. x * c <= y * c /\ x * c \in Nat /\ y * c \in Nat
        BY <1>1, <3>1, Products
      <3>3. due <= y * c
        BY <1>1, <3>1, <3>2
      <3> QED
        BY <3>3 DEF y
    <2>2. CASE since = cap
      <3> DEFINE y == since + rest
      <3>1. y \in Nat /\ due <= y
        BY <1>1, <1>4, <1>5, <1>7, <2>2
      <3> HIDE DEF y
      <3>2. 1 * y <= c * y /\ 1 * y = y /\ c * y = y * c /\ y * c \in Nat
        BY <1>1, <3>1, Products
      <3>3. due <= y * c
        BY <1>1, <3>1, <3>2
      <3> QED
        BY <3>3 DEF y
    <2> QED
      BY <1>7, <2>1, <2>2
  <1>9. /\ last_sent' \in [tx : Nat, since : Nat] /\ last_sent'.tx = last_sent.tx
        /\ last_sent'.since = since
    BY <1>3, <1>7 DEF GateKept
  <1>10. last_sent'.tx * Permille <= (last_sent'.since + closed') * c
    BY <1>4, <1>8, <1>9, Zenon DEF due
  <1>11. \A a \in queue' : a.tx \in TxTimes
    <2> SUFFICES ASSUME NEW a \in queue PROVE [a EXCEPT !.waited = Min({@ + 1, 1})].tx = a.tx
      BY Zenon DEF GateKept, PacingElapse
    <2> QED
      OBVIOUS
  <1> QED
    BY Zenon, <1>4, <1>9, <1>10, <1>11 DEF GateKept, c

\* An announce taken into the queue changes nothing at the gate.
LEMMA QueuedGate ==
    ASSUME GateKept, NEW hops, NEW tx \in TxTimes, UNCHANGED <<closed, last_sent>>,
           queue' \subseteq queue \cup {[hops |-> hops, tx |-> tx, waited |-> 0]}
    PROVE  GateKept'
  <1>1. \A a \in queue' : a.tx \in TxTimes
    BY DEF GateKept
  <1> QED
    BY <1>1 DEF GateKept

\* Everything the announce limits rest on, kept by every step.
PacingKept == BucketKept /\ RefusalKept /\ GateKept

\* A new budget empties the history of the old one.
LEMMA BudgetKeeps ==
    ASSUME PacingKept, NEW r \in OtherRates, set_announce_budget(r)
    PROVE  PacingKept'
  <1>1. /\ rates' = r /\ bucket' = NewBucket /\ flow' = 0 /\ quiet' = Milli
        /\ refusal' = [is |-> FALSE, after |-> 0]
        /\ UNCHANGED <<queue, closed, last_sent>>
    BY DEF set_announce_budget
  <1>2. rates'.steady \in Nat /\ rates'.grace \in Nat /\ Milli \in Nat
    BY <1>1, PacingAssumption
  <1>3. /\ bucket' \in [initialized : BOOLEAN, credit : Nat, age : 0 .. Milli]
        /\ ~bucket'.initialized
    BY <1>1, <1>2 DEF NewBucket
  <1>4. MaxRate' * Milli \in Nat
    <2>1. \A x, y \in Int : Max({x, y}) = IF x >= y THEN x ELSE y
      BY DEF Max
    <2>2. rates'.steady \in Int /\ rates'.grace \in Int
      BY <1>2
    <2>3. MaxRate' \in {rates'.steady, rates'.grace}
      BY <2>1, <2>2, Zenon DEF MaxRate
    <2>4. MaxRate' \in Nat
      BY <1>2, <2>3, Zenon
    <2> QED
      BY Zenon, <1>2, <2>4, Products
  <1>5. BucketKept'
    BY <1>1, <1>2, <1>3, <1>4 DEF BucketKept
  <1>6. RefusalKept'
    BY <1>1, <1>2, <1>3 DEF RefusalKept
  <1>7. GateKept'
    BY <1>1 DEF GateKept, PacingKept
  <1> QED
    BY <1>5, <1>6, <1>7 DEF PacingKept

\* The invariant of the announce limits.
LEMMA PacingInvariant == PacingSpec => []PacingKept
  <1>1. PacingInit => PacingKept
    <2> SUFFICES ASSUME PacingInit PROVE PacingKept
      BY Zenon
    <2> USE PacingAssumption
    <2>1. rates.steady \in Nat /\ rates.grace \in Nat
      BY DEF PacingInit
    <2>2. MaxRate * Milli \in Nat
      BY ZenonT(30), <2>1, RatesCompare, Products
    <2>3. BucketKept
      BY <2>1, <2>2 DEF PacingInit, BucketKept, NewBucket
    <2>4. RefusalKept
      <3>1. quiet = Milli /\ ~bucket.initialized /\ ~refusal.is
        BY DEF PacingInit, NewBucket
      <3>2. Milli \in 0 .. Milli
        OBVIOUS
      <3> QED
        BY <3>1, <3>2, Zenon DEF RefusalKept
    <2>5. cap_floor(cap_permille) \in Nat
      BY Zenon, SpacingPays
    <2>6. GateKept
      BY <2>5 DEF PacingInit, GateKept
    <2> QED
      BY <2>3, <2>4, <2>6 DEF PacingKept
  <1>2. PacingKept /\ [PacingNext]_pacingVars => PacingKept'
    <2> SUFFICES ASSUME PacingKept, [PacingNext]_pacingVars PROVE PacingKept'
      OBVIOUS
    <2>1. ASSUME NEW hops \in 0 .. 1, NEW tx \in TxTimes, Admit(hops, tx) PROVE PacingKept'
      <3>1. queue' \subseteq queue \cup {[hops |-> hops, tx |-> tx, waited |-> 0]}
        <4>1. queue' \in {queue, queue \cup {[hops |-> hops, tx |-> tx, waited |-> 0]}}
          BY Zenon, <2>1 DEF Admit
        <4> QED
          BY Zenon, <4>1
      <3>2. UNCHANGED <<closed, last_sent>>
        BY <2>1 DEF Admit
      <3> QED
        BY <2>1, <3>1, <3>2, AdmitBucket, AdmitRefusal, QueuedGate DEF PacingKept
    <2>2. ASSUME NEW hops \in 0 .. 1, NEW tx \in TxTimes, AdmitPathResponse(hops, tx)
          PROVE  PacingKept'
      <3>1. /\ queue' \subseteq queue \cup {[hops |-> hops, tx |-> tx, waited |-> 0]}
            /\ UNCHANGED <<closed, last_sent, rates, bucket, flow, quiet, refusal>>
        BY Zenon, <2>2 DEF AdmitPathResponse
      <3>2. GateKept'
        BY ZenonT(30), <3>1, QueuedGate DEF PacingKept
      <3>3. BucketKept' /\ RefusalKept'
        BY <3>1 DEF PacingKept, BucketKept, RefusalKept, MaxRate
      <3> QED
        BY <3>2, <3>3 DEF PacingKept
    <2>3. ASSUME NEW r \in OtherRates, set_announce_budget(r) PROVE PacingKept'
      BY <2>3, BudgetKeeps
    <2>4. ASSUME NEW a \in queue, Release(a) PROVE PacingKept'
      <3>1. UNCHANGED <<rates, bucket, flow, quiet, refusal>>
        BY Zenon, <2>4 DEF Release
      <3>2. BucketKept' /\ RefusalKept'
        BY <3>1 DEF PacingKept, BucketKept, RefusalKept, MaxRate
      <3> QED
        BY <2>4, <3>2, ReleaseGate DEF PacingKept
    <2>5. CASE PacingElapse
      BY ZenonT(30), <2>5, ElapseBucket, ElapseGate DEF PacingKept
    <2>6. CASE UNCHANGED pacingVars
      BY <2>6 DEF pacingVars, PacingKept, BucketKept, RefusalKept, GateKept, MaxRate
    <2> QED
      BY ZenonT(30), <2>1, <2>2, <2>3, <2>4, <2>5, <2>6 DEF PacingNext
  <1> QED
    BY <1>1, <1>2, PTL DEF PacingSpec

\* Announces stay within their budget: for every pair of rates, every grace
\* interval, every cap and all airtimes, the token bucket of announce_admission.rs
\* admits no more than one second's burst beyond the rate and refuses nobody who
\* waited long enough, and the gate of announce_cap.rs opens no earlier than the
\* cap's share allows.
THEOREM BudgetHeld == PacingSpec => []AnnouncesWithinBudget
  <1>1. PacingKept => AnnouncesWithinBudget
    <2> SUFFICES ASSUME PacingKept PROVE AnnouncesWithinBudget
      OBVIOUS
    <2>1. closed = 0 => last_sent.since + closed = last_sent.since
      BY DEF PacingKept, GateKept
    <2> QED
      BY <2>1 DEF PacingKept, BucketKept, RefusalKept, GateKept, AnnouncesWithinBudget
  <1> QED
    BY <1>1, PacingInvariant, PTL

----------------------------------------------------------------------------
(* Set-up                                                                    *)

\* The first free place of a table is one of its free places.
LEMMA MinIsThere ==
    ASSUME NEW S, S \subseteq Nat, S # {}
    PROVE  Min(S) \in S
  <1> DEFINE R == OpToRel(<, Nat)
  <1>1. \E n \in S : \A m \in S : <<m, n>> \notin R
    BY NatLessThanWellFounded, WFMin, Zenon
  <1>2. \A n, m : <<m, n>> \in R <=> m \in Nat /\ n \in Nat /\ m < n
    BY DEF OpToRel
  <1> HIDE DEF R
  <1>3. PICK n \in S : \A m \in S : <<m, n>> \notin R
    BY <1>1
  <1>4. \A m \in S : ~(m < n)
    BY <1>2, <1>3, Zenon
  <1>5. \A m \in S : n <= m
    BY <1>4
  <1> QED
    BY Zenon, <1>5 DEF Min

----------------------------------------------------------------------------
\* The pool: its values are destinations and links, none twice, and not too many links.
PoolKept(pool) ==
    /\ DOMAIN pool = 1 .. ROUTER_LOCAL_SLOTS /\ pool = [s \in DOMAIN pool |-> pool[s]]
    /\ \A s \in DOMAIN pool : pool[s] # None => pool[s][1] \in {"destination", "link"}
    /\ \A s, t \in DOMAIN pool : pool[s] # None /\ pool[s] = pool[t] => s = t
    /\ Cardinality(HoldersOf(pool, "link")) <= LOCAL_LINKS_MAX

\* What every call leaves: a valid registry for the configured depth, and a pool of
\* local slots with no more than the links it may hold.
SetupKept ==
    /\ DOMAIN registry = 1 .. MAX_INTERFACES /\ registry = [s \in DOMAIN registry |-> registry[s]]
    /\ ValidRegistry(registry, config.table_caps.tx_queue_depth)
    /\ config.table_caps.tx_queue_depth <= Capacities.tx_queue_depth
    /\ PoolKept(local)

\* Links hold finitely many slots.
LEMMA LinksFinite ==
    ASSUME NEW pool, DOMAIN pool = 1 .. ROUTER_LOCAL_SLOTS
    PROVE  /\ IsFiniteSet(HoldersOf(pool, "link"))
           /\ Cardinality(HoldersOf(pool, "link")) \in Nat
  <1>1. IsFiniteSet(1 .. ROUTER_LOCAL_SLOTS)
    BY FS_Interval, SetupAssumption
  <1>2. HoldersOf(pool, "link") \subseteq 1 .. ROUTER_LOCAL_SLOTS
    BY Zenon DEF HoldersOf
  <1> QED
    BY Zenon, <1>1, <1>2, FS_Subset, FS_CardinalityType

\* A pool with values taken out.
LEMMA FewerInPool ==
    ASSUME NEW pool, PoolKept(pool), NEW after, DOMAIN after = DOMAIN pool,
           after = [s \in DOMAIN after |-> after[s]],
           \A s \in DOMAIN pool : after[s] \in {None, pool[s]}
    PROVE  PoolKept(after)
  <1>1. HoldersOf(after, "link") \subseteq HoldersOf(pool, "link")
    BY DEF HoldersOf
  <1>2. /\ Cardinality(HoldersOf(after, "link")) <= Cardinality(HoldersOf(pool, "link"))
        /\ Cardinality(HoldersOf(after, "link")) \in Nat
        /\ Cardinality(HoldersOf(pool, "link")) \in Nat
    BY Zenon, <1>1, LinksFinite, FS_Subset DEF PoolKept
  <1>3. Cardinality(HoldersOf(after, "link")) <= LOCAL_LINKS_MAX
    BY <1>2, SetupAssumption DEF PoolKept
  <1>4. /\ \A s \in DOMAIN after : after[s] # None => after[s] = pool[s]
    OBVIOUS
  <1>5. /\ \A s \in DOMAIN after : after[s] # None => after[s][1] \in {"destination", "link"}
        /\ \A s, t \in DOMAIN after : after[s] # None /\ after[s] = after[t] => s = t
    BY <1>4, Zenon DEF PoolKept
  <1> QED
    BY <1>3, <1>5 DEF PoolKept

\* register_local_slot puts a value in at most one free slot.
LEMMA RegisteredSlot ==
    ASSUME NEW pool, PoolKept(pool), NEW value
    PROVE  \/ register_local_slot(pool, value) = pool
           \/ \E k \in DOMAIN pool :
                /\ pool[k] = None /\ ~Has(pool, value)
                /\ register_local_slot(pool, value) = [pool EXCEPT ![k] = value]
  <1> DEFINE free == {s \in DOMAIN pool : pool[s] = None}
  <1>1. free \subseteq Nat
    BY DEF PoolKept
  <1>2. free # {} => Min(free) \in free
    BY <1>1, MinIsThere
  <1> QED
    BY Zenon, <1>2 DEF register_local_slot

\* A slot given to a value that has none yet.
LEMMA RegisterKeepsPool ==
    ASSUME NEW pool, PoolKept(pool), NEW kind \in {"destination", "link"}, NEW hash,
           \/ kind = "destination"
           \/ Has(pool, <<kind, hash>>)
           \/ Cardinality(HoldersOf(pool, "link")) < LOCAL_LINKS_MAX
    PROVE  PoolKept(register_local_slot(pool, <<kind, hash>>))
  <1> DEFINE value == <<kind, hash>>
             after == register_local_slot(pool, value)
  <1>1. CASE after = pool
    BY <1>1
  <1>2. ASSUME NEW k \in DOMAIN pool, pool[k] = None, ~Has(pool, value),
               after = [pool EXCEPT ![k] = value]
        PROVE  PoolKept(after)
    <2>1. value[1] = kind
      OBVIOUS
    <2> HIDE DEF after, value
    <2>2. /\ DOMAIN after = DOMAIN pool /\ after = [s \in DOMAIN after |-> after[s]]
          /\ after[k] = value /\ \A s \in DOMAIN pool : s # k => after[s] = pool[s]
      BY <1>2, Zenon DEF PoolKept
    <2>3. \A s \in DOMAIN after : after[s] # None => after[s][1] \in {"destination", "link"}
      BY <2>1, <2>2 DEF PoolKept
    <2>4. \A s, t \in DOMAIN after : after[s] # None /\ after[s] = after[t] => s = t
      BY <1>2, <2>2, ZenonT(30) DEF PoolKept, Has
    <2>5. /\ IsFiniteSet(HoldersOf(pool, "link")) /\ Cardinality(HoldersOf(pool, "link")) \in Nat
          /\ IsFiniteSet(HoldersOf(after, "link")) /\ Cardinality(HoldersOf(after, "link")) \in Nat
      BY <2>2, LinksFinite DEF PoolKept
    <2>6. Cardinality(HoldersOf(after, "link")) <= LOCAL_LINKS_MAX
      <3>1. CASE kind = "destination"
        <4>1. HoldersOf(after, "link") \subseteq HoldersOf(pool, "link")
          BY <2>1, <2>2, <3>1 DEF HoldersOf
        <4>2. Cardinality(HoldersOf(after, "link")) <= Cardinality(HoldersOf(pool, "link"))
          BY <2>5, <4>1, FS_Subset
        <4> QED
          BY <2>5, <4>2, SetupAssumption DEF PoolKept
      <3>2. CASE kind # "destination"
        <4>1. Cardinality(HoldersOf(pool, "link")) < LOCAL_LINKS_MAX
          BY <1>2, <3>2 DEF value
        <4>2. HoldersOf(after, "link") \subseteq HoldersOf(pool, "link") \cup {k}
          BY ZenonT(30), <2>2 DEF HoldersOf
        <4> DEFINE H == HoldersOf(pool, "link")
                   A == HoldersOf(after, "link")
        <4>3. /\ IsFiniteSet(H \cup {k})
              /\ Cardinality(H \cup {k}) \in {Cardinality(H), Cardinality(H) + 1}
          BY <2>5, FS_AddElement
        <4>4. Cardinality(A) <= Cardinality(H \cup {k})
          BY ZenonT(30), <4>2, <4>3, FS_Subset
        <4> HIDE DEF H, A
        <4>5. Cardinality(H) \in Nat /\ Cardinality(A) \in Nat /\ LOCAL_LINKS_MAX \in Nat
              /\ Cardinality(H) < LOCAL_LINKS_MAX
          BY <2>5, <4>1, SetupAssumption DEF H, A
        <4>6. Cardinality(A) <= LOCAL_LINKS_MAX
          BY <4>3, <4>4, <4>5
        <4> QED
          BY <4>6 DEF A
      <3> QED
        BY <3>1, <3>2
    <2> QED
      BY <2>2, <2>3, <2>4, <2>6 DEF PoolKept
  <1> QED
    BY <1>1, <1>2, RegisteredSlot

\* set_own_destination always finds a slot.
LEMMA OwnDestinationFits ==
    ASSUME PoolKept(local), NEW hash
    PROVE  Has(register_local_slot(WithoutDestinations, <<"destination", hash>>),
               <<"destination", hash>>)
  <1> DEFINE pool == WithoutDestinations
             value == <<"destination", hash>>
             free == {s \in DOMAIN pool : pool[s] = None}
  <1>1. DOMAIN pool = 1 .. ROUTER_LOCAL_SLOTS
    BY DEF WithoutDestinations, PoolKept
  <1>2. free # {}
    <2> SUFFICES ASSUME free = {} PROVE FALSE
      OBVIOUS
    <2>1. \A s \in DOMAIN local : s \in HoldersOf(local, "link")
      BY Zenon DEF WithoutDestinations, HoldersOf, PoolKept
    <2>2. HoldersOf(local, "link") = 1 .. ROUTER_LOCAL_SLOTS
      BY <2>1 DEF HoldersOf, PoolKept
    <2>3. Cardinality(1 .. ROUTER_LOCAL_SLOTS) = ROUTER_LOCAL_SLOTS
      BY FS_Interval, SetupAssumption
    <2> QED
      BY <2>2, <2>3, SetupAssumption DEF PoolKept
  <1>3. Min(free) \in free
    BY <1>1, <1>2, MinIsThere
  <1> HIDE DEF pool, value
  <1>4. Has(register_local_slot(pool, value), value)
    <2>1. CASE Has(pool, value)
      BY <2>1 DEF register_local_slot
    <2>2. CASE ~Has(pool, value)
      <3>1. register_local_slot(pool, value) = [pool EXCEPT ![Min(free)] = value]
        BY Zenon, <1>2, <2>2 DEF register_local_slot
      <3> QED
        BY Zenon, <1>3, <3>1 DEF Has
    <2> QED
      BY <2>1, <2>2
  <1> QED
    BY <1>4 DEF pool, value

----------------------------------------------------------------------------
\* Whoever is valid carries a packet.
LEMMA ValidCarries ==
    ASSUME NEW i, NEW depth, ValidInterface(i, depth)
    PROVE  /\ clear_mtu(i) \in HEADER_MINSIZE .. MTU
           /\ i.role = "LoRa" => wire_mtu(i) <= LORA_SPLIT_FRAME_PAYLOAD_MAX
  <1>1. IfacSize(i.ifac) \in 0 .. 64
    BY DEF ValidInterface, ValidIfac, IfacSize
  <1>2. i.mtu \in 19 .. 500
    BY DEF ValidInterface, HEADER_MINSIZE, MTU
  <1>3. /\ \A x, y \in Int : Min({x, y}) = IF x <= y THEN x ELSE y
        /\ \A x, y \in Int : Max({x, y}) = IF x >= y THEN x ELSE y
    BY DEF Min, Max
  <1> DEFINE size == IfacSize(i.ifac)
  <1>4. CASE i.role = "LoRa"
    <2> DEFINE p == 508 - size
    <2>1. clear_mtu(i) = Min({i.mtu, Max({p, 0})})
      BY <1>4 DEF clear_mtu, LORA_SPLIT_FRAME_PAYLOAD_MAX
    <2>2. p \in 444 .. 508 /\ p + size = 508 /\ size \in 0 .. 64
      BY <1>1
    <2> HIDE DEF size, p
    <2>3. Max({p, 0}) = p
      <3>1. p \in Int /\ 0 \in Int /\ p >= 0
        BY <2>2
      <3> QED
        BY <1>3, <3>1, Zenon
    <2>4. Min({i.mtu, p}) = IF i.mtu <= p THEN i.mtu ELSE p
      <3>1. p \in Int /\ i.mtu \in Int
        BY <1>2, <2>2
      <3> QED
        BY <1>3, <3>1, Zenon
    <2>5. clear_mtu(i) \in 19 .. 500 /\ clear_mtu(i) + size <= 508
      <3>1. clear_mtu(i) = IF i.mtu <= p THEN i.mtu ELSE p
        BY <2>1, <2>3, <2>4, Zenon
      <3>2. CASE i.mtu <= p
        BY <1>2, <2>2, <3>1, <3>2
      <3>3. CASE ~(i.mtu <= p)
        BY <1>2, <2>2, <3>1, <3>3
      <3> QED
        BY <3>2, <3>3
    <2> QED
      BY <2>5 DEF wire_mtu, HEADER_MINSIZE, MTU, LORA_SPLIT_FRAME_PAYLOAD_MAX, size
  <1>5. CASE i.role # "LoRa"
    <2>1. clear_mtu(i) = Min({i.mtu, Max({i.mtu, 0})})
      BY <1>5 DEF clear_mtu
    <2>2. i.mtu \in Int /\ 0 \in Int /\ i.mtu >= 0 /\ i.mtu <= i.mtu
      BY <1>2
    <2>3. Max({i.mtu, 0}) = i.mtu /\ Min({i.mtu, i.mtu}) = i.mtu
      BY <1>3, <2>2, Zenon
    <2> QED
      BY Zenon, <1>2, <1>5, <2>1, <2>3 DEF HEADER_MINSIZE, MTU
  <1> QED
    BY <1>4, <1>5

\* Such a set-up is usable.
LEMMA SetupKeptUsable == SetupKept => SetupsStayUsable
  <1> SUFFICES ASSUME SetupKept PROVE SetupsStayUsable
    OBVIOUS
  <1> DEFINE depth == config.table_caps.tx_queue_depth
  <1>1. \A s \in Entries(registry) :
          /\ ValidInterface(registry[s], depth)
          /\ \A t \in Entries(registry) : registry[s].id = registry[t].id => s = t
    BY Zenon DEF SetupKept, ValidRegistry
  <1>2. \A s \in Entries(registry) :
          /\ clear_mtu(registry[s]) \in HEADER_MINSIZE .. MTU
          /\ registry[s].role = "LoRa" => wire_mtu(registry[s]) <= LORA_SPLIT_FRAME_PAYLOAD_MAX
    BY Zenon, <1>1, ValidCarries
  <1>3. \A s \in Entries(registry) : registry[s].tx_queue_depth \in 1 .. depth
    BY <1>1 DEF ValidInterface
  <1>4. \A s, t \in DOMAIN local : local[s] # None /\ local[s] = local[t] => s = t
    BY DEF SetupKept, PoolKept
  <1>5. \A hash \in Hashes :
          Has(register_local_slot(WithoutDestinations, <<"destination", hash>>),
              <<"destination", hash>>)
    BY Zenon, OwnDestinationFits DEF SetupKept
  <1>6. depth <= Capacities.tx_queue_depth
    BY Zenon DEF SetupKept
  <1> QED
    BY <1>1, <1>2, <1>3, <1>4, <1>5, <1>6, Zenon DEF SetupsStayUsable

\* A registry that passed validation, installed.
LEMMA InstalledKept ==
    ASSUME NEW cr \in Installable
    PROVE  /\ DOMAIN cr[2] = 1 .. MAX_INTERFACES /\ cr[2] = [s \in DOMAIN cr[2] |-> cr[2][s]]
           /\ ValidRegistry(cr[2], cr[1].table_caps.tx_queue_depth)
           /\ cr[1].table_caps.tx_queue_depth <= Capacities.tx_queue_depth
  <1>1. cr[2] \in [1 .. MAX_INTERFACES -> Descriptors \cup {None}]
    BY DEF Installable, Registries
  <1>2. Installed(cr[1], cr[2])
    BY DEF Installable
  <1>3. cr[1].table_caps.tx_queue_depth <= Capacities.tx_queue_depth
    <2>1. \A f \in DOMAIN Capacities : cr[1].table_caps[f] <= Capacities[f]
      BY <1>2 DEF Installed, validate_config
    <2> QED
      BY <2>1, SetupAssumption
  <1> QED
    BY <1>1, <1>2, <1>3 DEF Installed

\* A pool of no slots in use.
LEMMA EmptyPool ==
    ASSUME NEW pool, pool = [s \in 1 .. ROUTER_LOCAL_SLOTS |-> None]
    PROVE  PoolKept(pool)
  <1>1. DOMAIN pool = 1 .. ROUTER_LOCAL_SLOTS /\ \A s \in DOMAIN pool : pool[s] = None
    OBVIOUS
  <1>2. pool = [s \in DOMAIN pool |-> pool[s]]
    OBVIOUS
  <1>3. HoldersOf(pool, "link") = {}
    BY <1>1 DEF HoldersOf
  <1>4. Cardinality(HoldersOf(pool, "link")) <= LOCAL_LINKS_MAX
    <2>1. Cardinality({}) = 0
      BY FS_EmptySet, Zenon
    <2>2. LOCAL_LINKS_MAX \in Nat
      BY SetupAssumption
    <2>3. Cardinality(HoldersOf(pool, "link")) = 0
      BY <1>3, <2>1, Zenon
    <2> QED
      BY <2>2, <2>3
  <1> QED
    BY <1>1, <1>2, <1>4 DEF PoolKept

\* A reset clears the pool.
LEMMA ResetKeeps ==
    ASSUME SetupKept, reset_router_in_place
    PROVE  SetupKept'
  <1>1. PICK cr \in Installable : config' = cr[1] /\ registry' = cr[2]
    BY DEF reset_router_in_place
  <1>2. local' = [s \in 1 .. ROUTER_LOCAL_SLOTS |-> None]
    BY DEF reset_router_in_place, SetupKept, PoolKept
  <1>3. PoolKept(local')
    BY <1>2, EmptyPool
  <1>4. /\ DOMAIN registry' = 1 .. MAX_INTERFACES
        /\ registry' = [s \in DOMAIN registry' |-> registry'[s]]
        /\ ValidRegistry(registry', config'.table_caps.tx_queue_depth)
        /\ config'.table_caps.tx_queue_depth <= Capacities.tx_queue_depth
    BY <1>1, InstalledKept, Zenon
  <1> QED
    BY <1>3, <1>4 DEF SetupKept

\* Registering an interface validates the registry it results in.
LEMMA RegisterKeeps ==
    ASSUME SetupKept, NEW i \in Descriptors, register_interface(i)
    PROVE  SetupKept'
  <1> DEFINE depth == config.table_caps.tx_queue_depth
             k == Min(DOMAIN registry \ Entries(registry))
  <1>1. /\ ValidInterface(i, depth) /\ \A s \in Entries(registry) : registry[s].id # i.id
        /\ registry' = [registry EXCEPT ![k] = i]
        /\ UNCHANGED <<config, local>>
    BY DEF register_interface, RegisterDescriptor
  <1>2. k \in DOMAIN registry
    <2>1. DOMAIN registry \ Entries(registry) # {}
      BY Zenon DEF register_interface, RegisterDescriptor, Entries
    <2>2. DOMAIN registry \ Entries(registry) \subseteq Nat
      BY DEF SetupKept
    <2> QED
      BY <2>1, <2>2, MinIsThere
  <1> HIDE DEF k
  <1>3. /\ DOMAIN registry' = DOMAIN registry /\ registry' = [s \in DOMAIN registry' |-> registry'[s]]
        /\ registry'[k] = i /\ \A s \in DOMAIN registry : s # k => registry'[s] = registry[s]
    BY <1>1, <1>2, Zenon DEF SetupKept
  <1>4. ValidRegistry(registry, depth)
    BY DEF SetupKept
  <1> HIDE DEF depth
  <1>5. \A s \in Entries(registry') : s = k \/ (s \in Entries(registry) /\ registry'[s] = registry[s])
    BY <1>3 DEF Entries
  <1>6. ValidRegistry(registry', depth)
    <2>1. \A s \in Entries(registry') : ValidInterface(registry'[s], depth)
      BY <1>1, <1>3, <1>4, <1>5, Zenon DEF ValidRegistry
    <2>2. ASSUME NEW s \in Entries(registry'), NEW t \in Entries(registry'), s # t
          PROVE  registry'[s].id # registry'[t].id
      <3>1. CASE s = k
        BY Zenon, <1>1, <1>3, <1>5, <2>2, <3>1
      <3>2. CASE t = k
        BY Zenon, <1>1, <1>3, <1>5, <2>2, <3>2
      <3>3. CASE s # k /\ t # k
        BY <1>4, <1>5, <2>2, <3>3 DEF ValidRegistry
      <3> QED
        BY <3>1, <3>2, <3>3
    <2> QED
      BY <2>1, <2>2 DEF ValidRegistry
  <1> QED
    BY Zenon, <1>1, <1>3, <1>6 DEF SetupKept, depth

\* Taking one out leaves a valid registry.
LEMMA UnregisterKeeps ==
    ASSUME SetupKept, NEW k \in DOMAIN registry, unregister_interface(k)
    PROVE  SetupKept'
  <1>1. registry' = [registry EXCEPT ![k] = None] /\ UNCHANGED <<config, local>>
    BY DEF unregister_interface
  <1>2. /\ DOMAIN registry' = DOMAIN registry /\ registry' = [s \in DOMAIN registry' |-> registry'[s]]
        /\ registry'[k] = None /\ \A s \in DOMAIN registry : s # k => registry'[s] = registry[s]
    BY <1>1, Zenon DEF SetupKept
  <1>3. \A s \in Entries(registry') : s \in Entries(registry) /\ registry'[s] = registry[s]
    BY <1>2 DEF Entries
  <1>4. ValidRegistry(registry', config.table_caps.tx_queue_depth)
    BY <1>3, Zenon DEF SetupKept, ValidRegistry
  <1> QED
    BY <1>1, <1>2, <1>4 DEF SetupKept

\* Its state on the line is no part of that.
LEMMA OnlineKeeps ==
    ASSUME SetupKept, NEW k \in DOMAIN registry, NEW online \in BOOLEAN,
           set_interface_online(k, online)
    PROVE  SetupKept'
  <1> DEFINE i == [registry[k] EXCEPT !.online = online]
  <1>1. registry' = [registry EXCEPT ![k] = i] /\ UNCHANGED <<config, local>>
        /\ k \in Entries(registry)
    BY DEF set_interface_online
  <1>2. /\ i.id = registry[k].id /\ i.ifac = registry[k].ifac /\ i.mtu = registry[k].mtu
        /\ i.tx_queue_depth = registry[k].tx_queue_depth /\ i.direction = registry[k].direction
    OBVIOUS
  <1> HIDE DEF i
  <1>3. /\ DOMAIN registry' = DOMAIN registry /\ registry' = [s \in DOMAIN registry' |-> registry'[s]]
        /\ registry'[k] = i /\ \A s \in DOMAIN registry : s # k => registry'[s] = registry[s]
    BY <1>1, Zenon DEF SetupKept
  <1>4. \A s \in Entries(registry') : /\ s \in Entries(registry)
                                       /\ registry'[s].id = registry[s].id
    BY Zenon, <1>1, <1>2, <1>3 DEF Entries
  <1>5. \A depth : ValidInterface(registry[k], depth) => ValidInterface(i, depth)
    BY Zenon, <1>2 DEF ValidInterface
  <1>6. ValidRegistry(registry', config.table_caps.tx_queue_depth)
    <2>1. \A s \in Entries(registry') : ValidInterface(registry'[s], config.table_caps.tx_queue_depth)
      BY <1>1, <1>3, <1>4, <1>5 DEF SetupKept, ValidRegistry, Entries
    <2>2. \A s, t \in Entries(registry') : s # t => registry'[s].id # registry'[t].id
      BY <1>4, Zenon DEF SetupKept, ValidRegistry
    <2> QED
      BY Zenon, <2>1, <2>2 DEF ValidRegistry
  <1> QED
    BY <1>1, <1>3, <1>6 DEF SetupKept

\* Destinations leave the pool together.
LEMMA DestinationsOutKeeps == PoolKept(local) => PoolKept(WithoutDestinations)
  <1> SUFFICES ASSUME PoolKept(local) PROVE PoolKept(WithoutDestinations)
    OBVIOUS
  <1>1. /\ DOMAIN WithoutDestinations = DOMAIN local
        /\ WithoutDestinations = [s \in DOMAIN WithoutDestinations |-> WithoutDestinations[s]]
        /\ \A s \in DOMAIN local : WithoutDestinations[s] \in {None, local[s]}
    BY DEF WithoutDestinations
  <1> QED
    BY <1>1, FewerInPool

\* Every call keeps the invariant.
LEMMA SetupStep == SetupKept /\ [SetupNext]_setupVars => SetupKept'
  <1> SUFFICES ASSUME SetupKept, [SetupNext]_setupVars PROVE SetupKept'
    OBVIOUS
  <1>0. PoolKept(local)
    BY DEF SetupKept
  <1>1. CASE reset_router_in_place
    BY <1>1, ResetKeeps
  <1>2. ASSUME NEW i \in Descriptors, register_interface(i) PROVE SetupKept'
    BY <1>2, RegisterKeeps
  <1>3. ASSUME NEW s \in DOMAIN registry, unregister_interface(s) PROVE SetupKept'
    BY <1>3, UnregisterKeeps
  <1>4. ASSUME NEW s \in DOMAIN registry, NEW online \in BOOLEAN, set_interface_online(s, online)
        PROVE  SetupKept'
    BY <1>4, OnlineKeeps
  <1>5. ASSUME UNCHANGED <<config, registry>>, PoolKept(local') PROVE SetupKept'
    BY <1>5 DEF SetupKept
  <1>6. ASSUME NEW hash \in Hashes, register_local_destination(hash) PROVE SetupKept'
    <2>1. PoolKept(local') /\ UNCHANGED <<config, registry>>
      BY ZenonT(30), <1>0, <1>6, RegisterKeepsPool DEF register_local_destination
    <2> QED
      BY <1>5, <2>1
  <1>7. ASSUME NEW hash \in Hashes, register_local_link(hash) PROVE SetupKept'
    <2>1. PoolKept(local') /\ UNCHANGED <<config, registry>>
      BY <1>0, <1>7, RegisterKeepsPool DEF register_local_link, local_link_count
    <2> QED
      BY <1>5, <2>1
  <1>8. ASSUME NEW value, unregister_local(value) PROVE SetupKept'
    <2>1. /\ DOMAIN local' = DOMAIN local /\ local' = [s \in DOMAIN local' |-> local'[s]]
          /\ \A s \in DOMAIN local : local'[s] \in {None, local[s]}
          /\ UNCHANGED <<config, registry>>
      BY <1>8 DEF unregister_local
    <2>2. PoolKept(local')
      BY <1>0, <2>1, FewerInPool
    <2> QED
      BY <1>5, <2>1, <2>2
  <1>9. ASSUME NEW hash \in Hashes, set_own_destination(hash) PROVE SetupKept'
    <2>1. PoolKept(WithoutDestinations)
      BY <1>0, DestinationsOutKeeps
    <2>2. PoolKept(local') /\ UNCHANGED <<config, registry>>
      BY Zenon, <1>9, <2>1, RegisterKeepsPool DEF set_own_destination
    <2> QED
      BY <1>5, <2>2
  <1>10. CASE clear_local
    <2>1. /\ DOMAIN local' = DOMAIN local /\ local' = [s \in DOMAIN local' |-> local'[s]]
          /\ \A s \in DOMAIN local : local'[s] \in {None, local[s]}
          /\ UNCHANGED <<config, registry>>
      BY <1>10 DEF clear_local
    <2>2. PoolKept(local')
      BY <1>0, <2>1, FewerInPool
    <2> QED
      BY <1>5, <2>1, <2>2
  <1>11. CASE clear_own_destinations
    BY <1>0, <1>5, <1>11, DestinationsOutKeeps DEF clear_own_destinations
  <1>12. ASSUME NEW destinations, set_watched_destinations(destinations) PROVE SetupKept'
    BY <1>0, <1>5, <1>12 DEF set_watched_destinations
  <1>13. ASSUME NEW sink, set_local_plain_sink(sink) PROVE SetupKept'
    BY <1>0, <1>5, <1>13 DEF set_local_plain_sink
  <1>14. CASE UNCHANGED setupVars
    BY ZenonT(30), <1>0, <1>5, <1>14 DEF setupVars
  <1> QED
    BY <1>1, <1>2, <1>3, <1>4, <1>6, <1>7, <1>8, <1>9, <1>10, <1>11, <1>12, <1>13, <1>14, Zenon
    DEF SetupNext

\* It holds of a new node.
LEMMA SetupBegins == SetupInit => SetupKept
  <1> SUFFICES ASSUME SetupInit PROVE SetupKept
    OBVIOUS
  <1>1. PICK cr \in Installable : config = cr[1] /\ registry = cr[2]
    BY DEF SetupInit
  <1>2. PoolKept(local)
    BY EmptyPool DEF SetupInit
  <1> QED
    BY <1>1, <1>2, InstalledKept DEF SetupKept

\* Whatever set-up calls succeed and fail, in any order, the node can carry what its
\* interfaces admit and register its own destinations and links (transport.rs, config.rs).
THEOREM SetupsUsable == SetupSpec => []SetupsStayUsable
  <1>1. SetupSpec => []SetupKept
    BY SetupBegins, SetupStep, PTL DEF SetupSpec
  <1> QED
    BY <1>1, SetupKeptUsable, PTL
=============================================================================
