--------------------------- MODULE InterfaceProofs --------------------------
(***************************************************************************)
(* What is sent on interfaces: the outbound rows a node retains for them,  *)
(* and split LoRa packets under their airtime budget.  RetainedKept is the *)
(* inductive invariant of the rows; WaitCovers and HalvesAge are those of  *)
(* the LoRa limiter and of reassembly.                                     *)
(*                                                                         *)
(* First what the rows need of Subsequences!Only: that it picks elements   *)
(* of the sequence, as many as it is told to keep.                         *)
(***************************************************************************)
EXTENDS RetainedOutbound, LoraLink, SequenceTheorems, FiniteSetTheorems,
        WellFoundedInduction, TLAPS

\* The time every leaf may take that names no prover of its own.
USE SMTT(60)

\* Every inhabited set of naturals has a least member.
LEMMA LeastNumber ==
    ASSUME NEW S, S \subseteq Nat, S # {}
    PROVE  \E n \in S : \A m \in S : n <= m
  <1> DEFINE R == OpToRel(<, Nat)
  <1>1. \E n \in S : \A m \in S : <<m, n>> \notin R
    BY NatLessThanWellFounded, WFMin, Zenon
  <1>2. \A n, m : <<m, n>> \in R <=> m \in Nat /\ n \in Nat /\ m < n
    BY DEF OpToRel
  <1> HIDE DEF R
  <1>3. PICK n \in S : \A m \in S : <<m, n>> \notin R
    BY <1>1
  <1>4. \A m \in S : ~(m < n)
    BY <1>2, <1>3, Zenon
  <1>5. \A m \in S : n <= m
    BY <1>4
  <1> QED
    BY <1>5

\* Induction, for a property given by the set of numbers that have it.
LEMMA Induction ==
    ASSUME NEW S, 0 \in S, \A n \in Nat : n \in S => n + 1 \in S
    PROVE  \A n \in Nat : n \in S
  <1> SUFFICES ASSUME Nat \ S # {} PROVE FALSE
    OBVIOUS
  <1>1. PICK n \in Nat \ S : \A m \in Nat \ S : n <= m
    BY Zenon, LeastNumber
  <1>2. n \in Nat /\ n # 0
    BY <1>1
  <1>3. n - 1 \in Nat /\ n - 1 \in S
    BY <1>1, <1>2
  <1> QED
    BY <1>1, <1>2, <1>3

\* The rank grows by one at every kept index, from none to all of them.
LEMMA RankSteps ==
    ASSUME NEW n \in Nat, NEW kept, kept \subseteq 1 .. n
    PROVE  /\ IsFiniteSet(kept) /\ Cardinality(kept) \in Nat
           /\ \A i \in Nat : Rank(kept, i) \in Nat
           /\ Rank(kept, 0) = 0 /\ Rank(kept, n) = Cardinality(kept)
           /\ \A i \in Nat : Rank(kept, i + 1) = Rank(kept, i) + IF i + 1 \in kept THEN 1 ELSE 0
  <1>0. \A j \in kept : j \in Nat /\ j >= 1 /\ j <= n
    OBVIOUS
  <1>1. IsFiniteSet(kept) /\ Cardinality(kept) \in Nat
    <2>1. IsFiniteSet(1 .. n)
      BY FS_Interval
    <2>2. IsFiniteSet(kept)
      BY Zenon, <2>1, FS_Subset
    <2> QED
      BY <2>2, FS_CardinalityType
  <1> DEFINE upto(i) == {j \in kept : j <= i}
  <1>2. ASSUME NEW i \in Nat PROVE IsFiniteSet(upto(i)) /\ Cardinality(upto(i)) \in Nat
    <2>1. upto(i) \subseteq kept
      OBVIOUS
    <2> HIDE DEF upto
    <2> QED
      BY <1>1, <2>1, FS_Subset, FS_CardinalityType
  <1>3. upto(0) = {} /\ upto(n) = kept
    <2>1. \A j \in kept : ~(j <= 0) /\ j <= n
      BY <1>0
    <2> QED
      BY <2>1, Zenon
  <1>4. ASSUME NEW i \in Nat
        PROVE  Cardinality(upto(i + 1)) = Cardinality(upto(i)) + IF i + 1 \in kept THEN 1 ELSE 0
    <2>1. CASE i + 1 \in kept
      <3>1. upto(i + 1) = upto(i) \cup {i + 1} /\ i + 1 \notin upto(i)
        <4>1. ~(i + 1 <= i) /\ \A j \in kept : j <= i + 1 <=> j <= i \/ j = i + 1
          BY <1>0
        <4> QED
          BY Zenon, <2>1, <4>1
      <3> HIDE DEF upto
      <3>2. Cardinality(upto(i) \cup {i + 1}) = Cardinality(upto(i)) + 1
        BY Zenon, <1>2, <3>1, FS_AddElement
      <3> QED
        BY <2>1, <3>1, <3>2
    <2>2. CASE i + 1 \notin kept
      <3>1. upto(i + 1) = upto(i)
        <4>1. \A j \in kept : j <= i + 1 <=> j <= i \/ j = i + 1
          BY <1>0
        <4> QED
          BY Zenon, <2>2, <4>1
      <3> HIDE DEF upto
      <3> QED
        BY <1>2, <2>2, <3>1
    <2> QED
      BY <2>1, <2>2
  <1>5. Cardinality({}) = 0
    BY FS_EmptySet, Zenon
  <1>6. \A i : Rank(kept, i) = Cardinality(upto(i))
    BY DEF Rank
  <1> HIDE DEF upto
  <1>7. /\ Rank(kept, 0) = 0 /\ Rank(kept, n) = Cardinality(kept)
    BY <1>3, <1>5, <1>6, Zenon
  <1> QED
    BY <1>1, <1>2, <1>4, <1>6, <1>7

\* Every rank up to the number of kept indices is the rank of one of them.
LEMMA RankReached ==
    ASSUME NEW n \in Nat, NEW kept, kept \subseteq 1 .. n, NEW m \in 1 .. Cardinality(kept)
    PROVE  \E i \in kept : Rank(kept, i) = m
  <1> DEFINE S == {k \in Nat : \A r \in 1 .. Rank(kept, k) : \E i \in kept : Rank(kept, i) = r}
  <1>1. 0 \in S
    <2>1. Rank(kept, 0) = 0
      BY Zenon, RankSteps
    <2> QED
      BY <2>1
  <1>2. ASSUME NEW k \in Nat, k \in S PROVE k + 1 \in S
    <2>1. Rank(kept, k + 1) = Rank(kept, k) + IF k + 1 \in kept THEN 1 ELSE 0
      BY ZenonT(30), RankSteps
    <2>2. Rank(kept, k) \in Nat
      BY Zenon, RankSteps
    <2>3. ASSUME NEW r \in 1 .. Rank(kept, k + 1) PROVE \E i \in kept : Rank(kept, i) = r
      <3>1. CASE r \in 1 .. Rank(kept, k)
        BY <1>2, <3>1
      <3>2. CASE r \notin 1 .. Rank(kept, k)
        <4>1. k + 1 \in kept /\ r = Rank(kept, k + 1)
          BY <2>1, <2>2, <3>2
        <4> QED
          BY <4>1
      <3> QED
        BY <3>1, <3>2
    <2> QED
      BY <2>3
  <1>3. n \in S
    <2> HIDE DEF S
    <2> QED
      BY <1>1, <1>2, Induction
  <1>4. Rank(kept, n) = Cardinality(kept)
    BY Zenon, RankSteps
  <1> QED
    BY <1>3, <1>4

----------------------------------------------------------------------------
(* Sequences of anything.                                                    *)

\* A sequence, of whatever it holds.
IsSequence(q) == q \in Seq({q[k] : k \in DOMAIN q})

\* A sequence whose elements are all elements of another one.
From(after, q) ==
    IsSequence(after) /\ \A k \in DOMAIN after : \E j \in DOMAIN q : after[k] = q[j]

\* A sequence is a function on its places.
LEMMA SequenceForm ==
    ASSUME NEW q, IsSequence(q)
    PROVE  Len(q) \in Nat /\ DOMAIN q = 1 .. Len(q) /\ q = [k \in 1 .. Len(q) |-> q[k]]
  BY DEF IsSequence

\* Such a function is a sequence.
LEMMA SequenceMade ==
    ASSUME NEW n \in Nat, NEW q, DOMAIN q = 1 .. n, q = [k \in 1 .. n |-> q[k]]
    PROVE  IsSequence(q) /\ Len(q) = n
  <1>1. q \in [1 .. n -> {q[k] : k \in DOMAIN q}]
    OBVIOUS
  <1> QED
    BY <1>1 DEF IsSequence

\* What is kept of a sequence was in it, at the kept places, and is as long as they are many.
LEMMA OnlyFrom ==
    ASSUME NEW q, IsSequence(q), NEW kept, kept \subseteq DOMAIN q
    PROVE  /\ From(Only(q, kept), q) /\ Len(Only(q, kept)) = Cardinality(kept)
           /\ \A k \in DOMAIN Only(q, kept) : \E j \in kept : Only(q, kept)[k] = q[j]
  <1> DEFINE n == Len(q)
             c == Cardinality(kept)
  <1>1. n \in Nat /\ DOMAIN q = 1 .. n /\ kept \subseteq 1 .. n
    BY SequenceForm
  <1>2. c \in Nat
    BY <1>1, RankSteps, Zenon
  <1>3. CASE kept = DOMAIN q
    <2>1. Only(q, kept) = q
      BY <1>3, Zenon DEF Only
    <2>2. Cardinality(1 .. n) = n
      <3> HIDE DEF n
      <3> QED
        BY <1>1, FS_Interval
    <2> QED
      BY <1>1, <1>3, <2>1, <2>2, Zenon DEF From
  <1>4. CASE kept # DOMAIN q
    <2> DEFINE place(m) == CHOOSE i \in kept : Rank(kept, i) = m
               after == [m \in 1 .. c |-> q[place(m)]]
    <2>1. Only(q, kept) = after
      BY <1>4 DEF Only
    <2>2. ASSUME NEW m \in 1 .. c PROVE place(m) \in kept
      <3>1. \E i \in kept : Rank(kept, i) = m
        BY <1>1, RankReached, Zenon
      <3> QED
        BY <3>1, Zenon
    <2> HIDE DEF place
    <2>3. \A m \in DOMAIN after : \E j \in kept : after[m] = q[j]
      BY <2>2, Zenon
    <2>4. DOMAIN after = 1 .. c /\ after = [m \in 1 .. c |-> after[m]]
      OBVIOUS
    <2> HIDE DEF after, c, n
    <2>5. IsSequence(after) /\ Len(after) = c
      BY <1>2, <2>4, SequenceMade, Zenon
    <2>6. \A m \in DOMAIN after : \E j \in DOMAIN q : after[m] = q[j]
      BY <2>3, Zenon
    <2> QED
      BY <2>1, <2>3, <2>5, <2>6, Zenon DEF From, c
  <1> QED
    BY <1>3, <1>4, Zenon

\* So was all but its first element,
LEMMA TailFrom ==
    ASSUME NEW q, IsSequence(q), Len(q) > 0
    PROVE  From(Tail(q), q) /\ Len(Tail(q)) = Len(q) - 1
  <1> DEFINE n == Len(q)
             after == Tail(q)
  <1>1. n \in Nat /\ DOMAIN q = 1 .. n /\ n - 1 \in Nat
    BY SequenceForm
  <1>a. q # <<>>
    OBVIOUS
  <1>2. /\ after \in Seq({q[k] : k \in DOMAIN q}) /\ Len(after) = n - 1
        /\ \A k \in 1 .. n - 1 : after[k] = q[k + 1]
    BY <1>a, HeadTailProperties DEF IsSequence
  <1> HIDE DEF after
  <1>3. DOMAIN after = 1 .. n - 1 /\ after = [k \in 1 .. n - 1 |-> after[k]]
    BY <1>2
  <1>4. IsSequence(after) /\ Len(after) = n - 1
    BY <1>1, <1>3, SequenceMade
  <1>5. \A k \in 1 .. n - 1 : k + 1 \in 1 .. n /\ after[k] = q[k + 1]
    BY <1>1, <1>2
  <1>6. \A k \in DOMAIN after : \E j \in DOMAIN q : after[k] = q[j]
    BY <1>1, <1>3, <1>5
  <1> QED
    BY <1>4, <1>6 DEF From, after

\* and all but one of them.
LEMMA RemoveFrom ==
    ASSUME NEW q, IsSequence(q), NEW i \in DOMAIN q
    PROVE  /\ From(Only(q, DOMAIN q \ {i}), q)
           /\ Len(Only(q, DOMAIN q \ {i})) = Len(q) - 1
  <1> DEFINE kept == DOMAIN q \ {i}
             n == Len(q)
  <1>1. n \in Nat /\ DOMAIN q = 1 .. n /\ kept \subseteq DOMAIN q
    BY SequenceForm
  <1>2. IsFiniteSet(1 .. n) /\ Cardinality(1 .. n) = n
    <2> HIDE DEF n
    <2>1. n \in Int /\ 1 \in Int
      BY <1>1
    <2>2. IsFiniteSet(1 .. n) /\ Cardinality(1 .. n) = IF 1 > n THEN 0 ELSE n - 1 + 1
      BY <2>1, FS_Interval, Zenon
    <2> QED
      BY <1>1, <2>2
  <1>3. Cardinality(kept) = Len(q) - 1
    <2>1. Cardinality(kept) = IF i \in DOMAIN q THEN Cardinality(DOMAIN q) - 1 ELSE Cardinality(DOMAIN q)
      BY <1>1, <1>2, FS_RemoveElement, Zenon
    <2> QED
      BY <1>1, <1>2, <2>1, Zenon
  <1> HIDE DEF kept
  <1>4. Len(Only(q, kept)) = Cardinality(kept) /\ From(Only(q, kept), q)
    BY <1>1, OnlyFrom, Zenon
  <1> QED
    BY <1>3, <1>4, Zenon DEF kept

\* Only the last element of a longer one was not.
LEMMA AppendedSequence ==
    ASSUME NEW q, IsSequence(q), NEW e
    PROVE  /\ IsSequence(Append(q, e)) /\ Len(Append(q, e)) = Len(q) + 1
           /\ \A k \in DOMAIN Append(q, e) :
                 Append(q, e)[k] = e \/ (k \in DOMAIN q /\ Append(q, e)[k] = q[k])
  <1> DEFINE n == Len(q)
             S == {q[k] : k \in DOMAIN q} \cup {e}
             after == Append(q, e)
  <1>1. n \in Nat /\ DOMAIN q = 1 .. n /\ q = [k \in 1 .. n |-> q[k]]
    BY SequenceForm
  <1>2. q \in Seq(S)
    BY <1>1
  <1>3. after \in Seq(S) /\ Len(after) = n + 1
    BY <1>2
  <1>4. \A k \in 1 .. n + 1 : after[k] = IF k = n + 1 THEN e ELSE q[k]
    BY <1>2
  <1> HIDE DEF S, after
  <1>5. DOMAIN after = 1 .. n + 1 /\ after = [k \in 1 .. n + 1 |-> after[k]]
    BY <1>1, <1>3
  <1>6. IsSequence(after)
    BY <1>1, <1>5, SequenceMade
  <1> QED
    BY <1>1, <1>3, <1>4, <1>5, <1>6 DEF after

\* A sequence changed in its places is as long.
LEMMA SameLength ==
    ASSUME NEW q, IsSequence(q), NEW after, DOMAIN after = DOMAIN q,
           after = [k \in DOMAIN after |-> after[k]]
    PROVE  IsSequence(after) /\ Len(after) = Len(q)
  BY SequenceForm, SequenceMade

----------------------------------------------------------------------------
(* Retained outbound rows                                                    *)

\* Fields of a queued row.
Fields == {"id", "interface", "reason", "needs", "live", "targets", "generations", "initialized"}

\* A row may go out on an interface only as the row was queued for it: a row that was
\* selected carries the generation the interface had or first got; one that was not will get
\* it, because the interface has no other yet.
RowFits(row, b, gens, fs) ==
    /\ Fields \subseteq DOMAIN row
    /\ row.id \in DOMAIN b /\ row.targets \subseteq Interfaces
    /\ \A i \in row.targets :
          /\ fs[i] = None => b[row.id][i] = 0
          /\ row.initialized => row.generations[i] # 0 /\ row.generations[i] = b[row.id][i]
          /\ ~row.initialized => gens[i] = 0 \/ gens[i] = b[row.id][i]

\* Every row of the queue does.
RowsFit(q, b, gens, fs) ==
    IsSequence(q) /\ \A k \in DOMAIN q : RowFits(q[k], b, gens, fs)

\* So does the copy a host holds.
HeldFits(copy, b) ==
    /\ copy.id \in DOMAIN b /\ copy.targets \subseteq Interfaces
    /\ \A i \in copy.targets :
          copy.generations[i] # 0 /\ copy.generations[i] = b[copy.id][i]

\* So did what was handed to a driver.
SentFits(s, b) ==
    s[1] \in DOMAIN b /\ s[2] \in Interfaces /\ s[3] # 0 /\ s[3] = b[s[1]][s[2]]

\* Generations are issued in order, and the host registers no interface the node has not
\* been told of.
RegistryKept ==
    /\ issued \in Nat /\ issued <= MaxGeneration
    /\ generations \in [Interfaces -> 0 .. issued]
    /\ facts = [i \in Interfaces |-> facts[i]]
    /\ \A i \in Interfaces :
          IF facts[i] = None THEN generations[i] = 0
          ELSE /\ facts[i].generation = 1 \/ facts[i].generation \in 1 .. issued
               /\ facts[i].mode \in Modes

\* One history per identity.
BornKept ==
    /\ identity \in Nat /\ Len(born) = identity
    /\ born \in Seq([Interfaces -> 0 .. issued])

\* The counters, and that they add up.
CountsKept ==
    /\ stats \in [queued : Int, dropped : Int] /\ refused \in Int /\ finished \in Int
    /\ NoFrameVanishes

\* Why a replacement gets nothing old: every permission names the generation of the row's
\* own interface, in the queue, in the host's hands and in what was sent.
RetainedKept ==
    /\ RegistryKept /\ BornKept /\ CountsKept
    /\ RowsFit(outbound, born, generations, facts)
    /\ held # None => HeldFits(held, born)
    /\ \A s \in sent : SentFits(s, born)

-----------------------------------------------------------------------------
\* Rows kept fit as they did.
LEMMA FromFits ==
    ASSUME NEW q, NEW after, NEW b, NEW gens, NEW fs, RowsFit(q, b, gens, fs), From(after, q)
    PROVE  RowsFit(after, b, gens, fs)
  BY Zenon DEF RowsFit, From

\* Rows that lost targets fit.
LEMMA LessFits ==
    ASSUME NEW q, NEW after, NEW b, NEW gens, NEW fs, RowsFit(q, b, gens, fs),
           DOMAIN after = DOMAIN q, after = [k \in DOMAIN after |-> after[k]],
           \A k \in DOMAIN q :
              /\ DOMAIN after[k] = DOMAIN q[k]
              /\ after[k].id = q[k].id /\ after[k].generations = q[k].generations
              /\ after[k].initialized = q[k].initialized
              /\ after[k].targets \subseteq q[k].targets
    PROVE  RowsFit(after, b, gens, fs) /\ Len(after) = Len(q)
  <1>1. IsSequence(q)
    BY DEF RowsFit
  <1>2. IsSequence(after) /\ Len(after) = Len(q)
    BY <1>1, SameLength
  <1>3. ASSUME NEW k \in DOMAIN q PROVE RowFits(after[k], b, gens, fs)
    <2>1. RowFits(q[k], b, gens, fs)
      BY DEF RowsFit
    <2> QED
      BY <2>1, Zenon DEF RowFits
  <1> QED
    BY <1>2, <1>3 DEF RowsFit

\* Rows fit when identities are added.
LEMMA GrownFits ==
    ASSUME NEW q, NEW b, NEW after, NEW gens, NEW fs, RowsFit(q, b, gens, fs),
           DOMAIN b \subseteq DOMAIN after, \A id \in DOMAIN b : after[id] = b[id]
    PROVE  RowsFit(q, after, gens, fs)
  <1>1. ASSUME NEW k \in DOMAIN q PROVE RowFits(q[k], after, gens, fs)
    <2>1. RowFits(q[k], b, gens, fs)
      BY DEF RowsFit
    <2> QED
      BY <2>1, Zenon DEF RowFits
  <1> QED
    BY <1>1 DEF RowsFit

\* Changes at an interface no row may use.
LEMMA ElsewhereFits ==
    ASSUME NEW q, NEW b, NEW gens, NEW fs, RowsFit(q, b, gens, fs),
           NEW i, \A k \in DOMAIN q : i \notin q[k].targets,
           NEW c, NEW newer, NEW told, DOMAIN c = DOMAIN b,
           \A j \in Interfaces \ {i} :
              newer[j] = gens[j] /\ told[j] = fs[j] /\ \A id \in DOMAIN b : c[id][j] = b[id][j]
    PROVE  RowsFit(q, c, newer, told)
  <1>1. ASSUME NEW k \in DOMAIN q PROVE RowFits(q[k], c, newer, told)
    <2>1. RowFits(q[k], b, gens, fs) /\ i \notin q[k].targets
      BY DEF RowsFit
    <2>2. /\ q[k].id \in DOMAIN b
          /\ \A j \in q[k].targets : j \in Interfaces \ {i}
      BY <2>1 DEF RowFits
    <2>3. \A j \in q[k].targets :
             newer[j] = gens[j] /\ told[j] = fs[j] /\ c[q[k].id][j] = b[q[k].id][j]
      BY <2>2, Zenon
    <2> QED
      BY <2>1, <2>3, Zenon DEF RowFits
  <1> QED
    BY <1>1 DEF RowsFit

\* Rows that were queued before an interface had a generation, if they may use it at all.
AwaitedBy(q, b, i) == \A k \in DOMAIN q : i \in q[k].targets => b[q[k].id][i] = 0

\* An interface gets its first generation; nothing changes at the others.
FirstOf(i, b, gens, fs, c, newer, told) ==
    /\ DOMAIN c = DOMAIN b /\ told[i] # None
    /\ \A j \in Interfaces \ {i} :
          newer[j] = gens[j] /\ told[j] = fs[j] /\ \A id \in DOMAIN b : c[id][j] = b[id][j]
    /\ \A id \in DOMAIN b : b[id][i] = 0 => c[id][i] = newer[i]

\* The first generation of an interface the rows were waiting for.
LEMMA FirstFits ==
    ASSUME NEW q, NEW b, NEW gens, NEW fs, RowsFit(q, b, gens, fs),
           NEW i, AwaitedBy(q, b, i), NEW c, NEW newer, NEW told,
           FirstOf(i, b, gens, fs, c, newer, told)
    PROVE  RowsFit(q, c, newer, told)
  <1>1. /\ DOMAIN c = DOMAIN b /\ told[i] # None
        /\ \A k \in DOMAIN q : i \in q[k].targets => b[q[k].id][i] = 0
        /\ \A j \in Interfaces \ {i} :
              newer[j] = gens[j] /\ told[j] = fs[j] /\ \A id \in DOMAIN b : c[id][j] = b[id][j]
        /\ \A id \in DOMAIN b : b[id][i] = 0 => c[id][i] = newer[i]
    BY Zenon DEF AwaitedBy, FirstOf
  <1>2. ASSUME NEW k \in DOMAIN q PROVE RowFits(q[k], c, newer, told)
    <2>1. RowFits(q[k], b, gens, fs)
      BY DEF RowsFit
    <2>2. q[k].id \in DOMAIN b /\ q[k].targets \subseteq Interfaces
      BY Zenon, <2>1 DEF RowFits
    <2>3. ASSUME NEW j \in q[k].targets
          PROVE  /\ told[j] = None => c[q[k].id][j] = 0
                 /\ q[k].initialized => q[k].generations[j] # 0 /\ q[k].generations[j] = c[q[k].id][j]
                 /\ ~q[k].initialized => newer[j] = 0 \/ newer[j] = c[q[k].id][j]
      <3>1. CASE j = i
        <4>1. b[q[k].id][i] = 0 /\ c[q[k].id][i] = newer[i]
          BY Zenon, <1>1, <2>2, <3>1
        <4>2. ~q[k].initialized
          BY <2>1, <3>1, <4>1, Zenon DEF RowFits
        <4> QED
          BY Zenon, <1>1, <3>1, <4>1, <4>2
      <3>2. CASE j # i
        <4>1. newer[j] = gens[j] /\ told[j] = fs[j] /\ c[q[k].id][j] = b[q[k].id][j]
          BY ZenonT(30), <1>1, <2>2, <3>2
        <4> QED
          BY <2>1, <4>1, Zenon DEF RowFits
      <3> QED
        BY <3>1, <3>2
    <2> QED
      BY Zenon, <1>1, <2>1, <2>3 DEF RowFits
  <1> QED
    BY <1>2 DEF RowsFit

-----------------------------------------------------------------------------
\* An interface's permission is taken from every row.
LEMMA RetireFits ==
    ASSUME NEW q, NEW b, NEW gens, NEW fs, RowsFit(q, b, gens, fs), NEW i
    PROVE  /\ RowsFit(Retire(q, i), b, gens, fs) /\ Len(Retire(q, i)) = Len(q)
           /\ \A k \in DOMAIN Retire(q, i) : i \notin Retire(q, i)[k].targets
  <1> DEFINE after == Retire(q, i)
  <1>1. DOMAIN after = DOMAIN q /\ after = [k \in DOMAIN after |-> after[k]]
    BY DEF Retire
  <1>2. ASSUME NEW k \in DOMAIN q
        PROVE  /\ DOMAIN after[k] = DOMAIN q[k]
               /\ after[k].id = q[k].id /\ after[k].generations = q[k].generations
               /\ after[k].initialized = q[k].initialized
               /\ after[k].targets = q[k].targets \ {i}
    <2>1. "targets" \in DOMAIN q[k]
      BY DEF RowsFit, RowFits, Fields
    <2>2. after[k] = [q[k] EXCEPT !.targets = @ \ {i}]
      BY DEF Retire
    <2> HIDE DEF after
    <2> QED
      BY <2>1, <2>2
  <1> HIDE DEF after
  <1>3. RowsFit(after, b, gens, fs) /\ Len(after) = Len(q)
    BY <1>1, <1>2, LessFits
  <1>4. \A k \in DOMAIN after : i \notin after[k].targets
    BY <1>1, <1>2
  <1> QED
    BY <1>3, <1>4 DEF after

\* Rows without a route are stale, and otherwise as before.
LEMMA UnroutedFits ==
    ASSUME NEW q, NEW b, NEW gens, NEW fs, RowsFit(q, b, gens, fs), NEW i, NEW needs
    PROVE  /\ RowsFit(Unrouted(q, i, needs), b, gens, fs)
           /\ Len(Unrouted(q, i, needs)) = Len(q) /\ DOMAIN Unrouted(q, i, needs) = DOMAIN q
           /\ \A k \in DOMAIN q : Unrouted(q, i, needs)[k].targets = q[k].targets
  <1> DEFINE after == Unrouted(q, i, needs)
  <1>1. DOMAIN after = DOMAIN q /\ after = [k \in DOMAIN after |-> after[k]]
    BY DEF Unrouted
  <1>2. ASSUME NEW k \in DOMAIN q
        PROVE  /\ DOMAIN after[k] = DOMAIN q[k]
               /\ after[k].id = q[k].id /\ after[k].generations = q[k].generations
               /\ after[k].initialized = q[k].initialized
               /\ after[k].targets = q[k].targets
    <2> DEFINE off == FALSE
               row == q[k]
               new == after[k]
    <2>1. new = row \/ new = [row EXCEPT !.live = off]
      BY DEF Unrouted
    <2> HIDE DEF after, off, row, new
    <2>2. CASE new = row
      BY <2>2 DEF row, new
    <2>3. CASE new = [row EXCEPT !.live = off]
      <3>1. /\ DOMAIN new = DOMAIN row /\ new.id = row.id /\ new.generations = row.generations
            /\ new.initialized = row.initialized /\ new.targets = row.targets
        BY <2>3
      <3> QED
        BY <3>1 DEF row, new
    <2> QED
      BY <2>1, <2>2, <2>3
  <1> HIDE DEF after
  <1>3. RowsFit(after, b, gens, fs) /\ Len(after) = Len(q)
    BY <1>1, <1>2, LessFits
  <1> QED
    BY <1>1, <1>2, <1>3 DEF after

\* What has not expired was queued.
LEMMA ExpiredFits ==
    ASSUME NEW q, NEW b, NEW gens, NEW fs, RowsFit(q, b, gens, fs)
    PROVE  /\ RowsFit(Expired(q), b, gens, fs)
           /\ \A k \in DOMAIN Expired(q) : \E j \in DOMAIN q : Expired(q)[k] = q[j]
  <1> DEFINE kept == {k \in DOMAIN q : q[k].live}
  <1>1. From(Only(q, kept), q)
    BY OnlyFrom DEF RowsFit
  <1>2. RowsFit(Only(q, kept), b, gens, fs)
    BY <1>1, FromFits, Zenon
  <1> QED
    BY Zenon, <1>1, <1>2 DEF Expired, From

\* A replaced interface has no permission left.
LEMMA ReplacedFits ==
    ASSUME NEW q, NEW b, NEW gens, NEW fs, RowsFit(q, b, gens, fs), NEW i
    PROVE  /\ RowsFit(Replaced(q, i), b, gens, fs)
           /\ \A k \in DOMAIN Replaced(q, i) : i \notin Replaced(q, i)[k].targets
  <1> DEFINE retired == Retire(q, i)
             lost == {"path", "link"}
             unrouted == Unrouted(retired, i, lost)
             after == Expired(unrouted)
  <1>1. RowsFit(retired, b, gens, fs) /\ \A k \in DOMAIN retired : i \notin retired[k].targets
    BY RetireFits, Zenon
  <1> HIDE DEF retired, lost
  <1>2. /\ RowsFit(unrouted, b, gens, fs) /\ DOMAIN unrouted = DOMAIN retired
        /\ \A k \in DOMAIN retired : unrouted[k].targets = retired[k].targets
    <2>1. RowsFit(retired, b, gens, fs)
      BY <1>1
    <2> QED
      BY <2>1, UnroutedFits
  <1>3. \A k \in DOMAIN unrouted : i \notin unrouted[k].targets
    BY <1>1, <1>2
  <1> HIDE DEF unrouted
  <1>4. /\ RowsFit(after, b, gens, fs)
        /\ \A k \in DOMAIN after : \E j \in DOMAIN unrouted : after[k] = unrouted[j]
    BY <1>2, ExpiredFits, Zenon
  <1>5. \A k \in DOMAIN after : i \notin after[k].targets
    BY <1>3, <1>4, Zenon
  <1>6. Replaced(q, i) = after
    BY DEF Replaced, retired, unrouted, lost
  <1> HIDE DEF after
  <1> QED
    BY <1>4, <1>5, <1>6

-----------------------------------------------------------------------------
\* Rows that leave the queue uncounted otherwise are counted as dropped.
LEMMA QueueCounts ==
    ASSUME CountsKept, IsSequence(outbound), IsSequence(outbound'),
           stats' = Counted(outbound, outbound'), UNCHANGED <<refused, finished>>
    PROVE  CountsKept'
  <1> DEFINE n == Len(outbound)
             m == Len(outbound')
  <1>1. n \in Nat
    BY SequenceForm
  <1>2. m \in Nat
    BY SequenceForm
  <1>3. stats' = [stats EXCEPT !.dropped = @ + n - m]
    BY DEF Counted
  <1> HIDE DEF n, m
  <1>4. stats' \in [queued : Int, dropped : Int]
    BY <1>1, <1>2, <1>3 DEF CountsKept
  <1>5. stats'.queued = stats.queued /\ stats'.dropped = stats.dropped + n - m
    BY <1>1, <1>2, <1>3 DEF CountsKept
  <1>6. stats.queued + refused = n + finished + stats.dropped
    BY DEF CountsKept, NoFrameVanishes, n
  <1>7. stats'.queued + refused' = m + finished' + stats'.dropped
    <2>1. stats.queued \in Int /\ stats.dropped \in Int /\ refused \in Int /\ finished \in Int
      BY DEF CountsKept
    <2> QED
      BY <2>1, <1>1, <1>2, <1>5, <1>6
  <1> QED
    BY <1>4, <1>7 DEF CountsKept, NoFrameVanishes, m

\* A step that only drops rows.
LEMMA ExpiresKeeps ==
    ASSUME RetainedKept, RowsFit(outbound', born, generations, facts),
           stats' = Counted(outbound, outbound'),
           UNCHANGED <<facts, identity, hostVars, ghostVars>>
    PROVE  RetainedKept'
  <1> USE DEF hostVars, ghostVars
  <1>1. IsSequence(outbound) /\ IsSequence(outbound')
    BY DEF RetainedKept, RowsFit
  <1>2. CountsKept'
    BY <1>1, QueueCounts DEF RetainedKept
  <1>3. RegistryKept' /\ BornKept'
    BY DEF RetainedKept, RegistryKept, BornKept
  <1>4. RowsFit(outbound', born', generations', facts')
    OBVIOUS
  <1> QED
    BY <1>2, <1>3, <1>4 DEF RetainedKept

\* The timer drops stale rows.
LEMMA TickKeeps ==
    ASSUME RetainedKept, Tick
    PROVE  RetainedKept'
  <1>1. RowsFit(outbound', born, generations, facts)
    BY ExpiredFits DEF RetainedKept, Tick
  <1> QED
    BY <1>1, ExpiresKeeps DEF Tick

\* Another packet budget drops the rows of transit links.
LEMMA CapacityKeeps ==
    ASSUME RetainedKept, NEW i, NEW g, update_interface_packet_capacity(i, g)
    PROVE  RetainedKept'
  <1> DEFINE lost == {"link"}
             q == Unrouted(outbound, i, lost)
  <1>0. outbound' = Expired(q)
    BY DEF update_interface_packet_capacity
  <1>1. RowsFit(outbound, born, generations, facts)
    BY DEF RetainedKept
  <1> HIDE DEF lost
  <1>2. RowsFit(q, born, generations, facts)
    BY <1>1, UnroutedFits
  <1> HIDE DEF q
  <1>3. RowsFit(outbound', born, generations, facts)
    BY <1>0, <1>2, ExpiredFits
  <1> QED
    BY <1>3, ExpiresKeeps DEF update_interface_packet_capacity

\* A row going stale is still queued.
LEMMA StaleKeeps ==
    ASSUME RetainedKept, NEW k \in DOMAIN outbound, GoesStale(k)
    PROVE  RetainedKept'
  <1> USE DEF hostVars, ghostVars
  <1> DEFINE off == FALSE
             q == outbound
             after == outbound'
  <1>1. RowsFit(q, born, generations, facts)
    BY DEF RetainedKept
  <1>2. after = [q EXCEPT ![k] = [q[k] EXCEPT !.live = off]]
    BY DEF GoesStale
  <1> HIDE DEF off
  <1>3. DOMAIN after = DOMAIN q
    BY <1>2
  <1>4. after = [j \in DOMAIN after |-> after[j]]
    BY Zenon, <1>1, <1>2, SequenceForm DEF RowsFit
  <1>5. ASSUME NEW j \in DOMAIN q
        PROVE  /\ DOMAIN after[j] = DOMAIN q[j]
               /\ after[j].id = q[j].id /\ after[j].generations = q[j].generations
               /\ after[j].initialized = q[j].initialized
               /\ after[j].targets = q[j].targets
    <2>1. CASE j = k
      <3>1. after[j] = [q[j] EXCEPT !.live = off]
        BY <1>2, <2>1
      <3> DEFINE row == q[j]
                 new == after[j]
      <3> HIDE DEF row, new
      <3>2. new = [row EXCEPT !.live = off]
        BY <3>1 DEF row, new
      <3>3. /\ DOMAIN new = DOMAIN row /\ new.id = row.id /\ new.generations = row.generations
            /\ new.initialized = row.initialized /\ new.targets = row.targets
        BY <3>2
      <3> QED
        BY <3>3 DEF row, new
    <2>2. CASE j # k
      BY <1>2, <2>2
    <2> QED
      BY <2>1, <2>2
  <1>6. RowsFit(after, born, generations, facts) /\ Len(after) = Len(q)
    <2> HIDE DEF q, after
    <2> QED
      BY <1>1, <1>3, <1>4, <1>5, LessFits
  <1>7. CountsKept'
    BY <1>6 DEF RetainedKept, CountsKept, NoFrameVanishes, GoesStale
  <1>8. RegistryKept' /\ BornKept'
    BY DEF RetainedKept, RegistryKept, BornKept, GoesStale
  <1>9. RowsFit(outbound', born', generations', facts')
    BY <1>6 DEF GoesStale
  <1> QED
    BY <1>7, <1>8, <1>9 DEF RetainedKept, GoesStale

\* An interface the host never registered has no generation in any row.
LEMMA ObserveKeeps ==
    ASSUME RetainedKept, NEW i \in Interfaces, NEW mode \in Modes, Observe(i, mode)
    PROVE  RetainedKept'
  <1> USE DEF hostVars, ghostVars
  <1>1. generations[i] = 0
    BY DEF RetainedKept, RegistryKept, Observe
  <1>2. /\ facts' = [j \in Interfaces |-> facts'[j]]
        /\ facts'[i] = [generation |-> 1, mode |-> mode]
        /\ \A j \in Interfaces : j # i => facts'[j] = facts[j]
    BY DEF RetainedKept, RegistryKept, Observe
  <1>3. RegistryKept'
    <2>1. ASSUME NEW j \in Interfaces
          PROVE  IF facts'[j] = None THEN generations[j] = 0
                 ELSE /\ facts'[j].generation = 1 \/ facts'[j].generation \in 1 .. issued
                      /\ facts'[j].mode \in Modes
      <3>1. CASE j = i
        BY <1>1, <1>2, <3>1
      <3>2. CASE j # i
        BY <1>2, <3>2 DEF RetainedKept, RegistryKept
      <3> QED
        BY <3>1, <3>2
    <2> QED
      BY Zenon, <1>2, <2>1 DEF RetainedKept, RegistryKept, Observe
  <1>4. RowsFit(outbound, born, generations, facts')
    <2>1. ASSUME NEW k \in DOMAIN outbound PROVE RowFits(outbound[k], born, generations, facts')
      <3>1. RowFits(outbound[k], born, generations, facts)
        BY DEF RetainedKept, RowsFit
      <3>2. facts[i] = None
        BY DEF Observe
      <3>3. \A j \in outbound[k].targets : facts'[j] = None => facts[j] = None
        BY <1>2, <3>1, <3>2, Zenon DEF RowFits
      <3> QED
        BY <3>1, <3>3, Zenon DEF RowFits
    <2> QED
      BY <2>1 DEF RetainedKept, RowsFit
  <1>5. CountsKept' /\ BornKept'
    BY DEF RetainedKept, CountsKept, BornKept, NoFrameVanishes, Observe
  <1>6. RowsFit(outbound', born', generations', facts')
    BY <1>4 DEF Observe
  <1> QED
    BY <1>3, <1>5, <1>6 DEF RetainedKept, Observe

\* What is queued, copied and sent holds as well when identities are added.
LEMMA CopiesGrow ==
    ASSUME NEW after, DOMAIN born \subseteq DOMAIN after, \A id \in DOMAIN born : after[id] = born[id],
           RetainedKept
    PROVE  /\ held # None => HeldFits(held, after)
           /\ \A s \in sent : SentFits(s, after)
  BY Zenon DEF RetainedKept, HeldFits, SentFits

\* A frame beyond the budget is counted as dropped.
LEMMA RefuseKeeps ==
    ASSUME RetainedKept, NEW interface, NEW reason, NEW needs,
           Enqueue(interface, reason, needs, FALSE)
    PROVE  RetainedKept'
  <1> USE DEF hostVars
  <1>1. /\ stats' = [stats EXCEPT !.dropped = @ + 1] /\ refused' = refused + 1
        /\ UNCHANGED <<outbound, identity, born, facts, hostVars, sent, finished>>
    BY DEF Enqueue
  <1>2. CountsKept'
    <2>1. stats' \in [queued : Int, dropped : Int]
      BY <1>1 DEF RetainedKept, CountsKept
    <2>2. stats'.queued = stats.queued /\ stats'.dropped = stats.dropped + 1
      BY <1>1 DEF RetainedKept, CountsKept
    <2>3. stats.queued + refused = Len(outbound) + finished + stats.dropped
      BY DEF RetainedKept, CountsKept, NoFrameVanishes
    <2>4. stats.queued \in Int /\ stats.dropped \in Int /\ refused \in Int /\ finished \in Int
      BY DEF RetainedKept, CountsKept
    <2>5. Len(outbound) \in Nat
      BY SequenceForm DEF RetainedKept, RowsFit
    <2>6. stats'.queued + refused' = Len(outbound) + finished + stats'.dropped
      BY <1>1, <2>2, <2>3, <2>4, <2>5
    <2> QED
      BY <1>1, <2>1, <2>4, <2>6 DEF CountsKept, NoFrameVanishes
  <1>3. RegistryKept' /\ BornKept'
    BY <1>1 DEF RetainedKept, RegistryKept, BornKept
  <1>4. RowsFit(outbound', born', generations', facts')
    BY <1>1 DEF RetainedKept
  <1> QED
    BY <1>1, <1>2, <1>3, <1>4 DEF RetainedKept

\* The row of a new identity.
LEMMA NewRowFits ==
    ASSUME NEW id, NEW interface, NEW reason, NEW needs, NEW b, id \in DOMAIN b,
           NEW gens, b[id] = gens, NEW fs, \A i \in Interfaces : fs[i] = None => gens[i] = 0
    PROVE  RowFits(NewRow(id, interface, reason, needs), b, gens, fs)
  <1> DEFINE row == NewRow(id, interface, reason, needs)
  <1>1. Fields \subseteq DOMAIN row
    BY DEF NewRow, Fields
  <1>2. row.id = id /\ row.targets = Interfaces /\ ~row.initialized
    BY DEF NewRow
  <1> HIDE DEF row
  <1>3. RowFits(row, b, gens, fs)
    BY <1>1, <1>2, Zenon DEF RowFits
  <1> QED
    BY <1>3 DEF row

\* A queued frame takes the place of the oldest when the queue is full.
LEMMA QueueKeeps ==
    ASSUME RetainedKept, NEW interface, NEW reason, NEW needs,
           Enqueue(interface, reason, needs, TRUE)
    PROVE  RetainedKept'
  <1> USE DEF hostVars
  <1> DEFINE full == Len(outbound) = OUTBOUND
             rest == IF full THEN Tail(outbound) ELSE outbound
             row == NewRow(identity + 1, interface, reason, needs)
             n == Len(outbound)
             m == Len(rest)
             gone == IF full THEN 1 ELSE 0
  <1>1. /\ identity' = identity + 1 /\ outbound' = Append(rest, row)
        /\ stats' = [queued |-> stats.queued + 1, dropped |-> stats.dropped + gone]
        /\ born' = Append(born, generations)
        /\ UNCHANGED <<facts, hostVars, sent, finished, refused>>
    BY DEF Enqueue
  <1>2. IsSequence(outbound) /\ n \in Nat
    BY SequenceForm DEF RetainedKept, RowsFit
  <1>3. From(rest, outbound) /\ m = n - gone
    <2>1. CASE full
      <3>1. n > 0
        BY <2>1, RetainedAssumption
      <3> QED
        BY <1>2, <2>1, <3>1, TailFrom
    <2>2. CASE ~full
      BY <1>2, <2>2 DEF From
    <2> QED
      BY <2>1, <2>2
  <1>4. /\ born' \in Seq([Interfaces -> 0 .. issued]) /\ Len(born') = identity + 1
        /\ DOMAIN born' = 1 .. identity + 1 /\ born'[identity + 1] = generations
        /\ DOMAIN born = 1 .. identity /\ \A id \in 1 .. identity : born'[id] = born[id]
    <2>1. /\ born \in Seq([Interfaces -> 0 .. issued]) /\ Len(born) = identity /\ identity \in Nat
          /\ generations \in [Interfaces -> 0 .. issued]
      BY Zenon DEF RetainedKept, BornKept, RegistryKept
    <2> QED
      BY <1>1, <2>1
  <1>5. identity \in Nat /\ DOMAIN born \subseteq DOMAIN born'
    BY <1>4 DEF RetainedKept, BornKept
  <1>6. RowsFit(rest, born, generations, facts)
    BY <1>3, FromFits DEF RetainedKept
  <1>7. RowsFit(rest, born', generations, facts)
    BY ZenonT(30), <1>4, <1>5, <1>6, GrownFits
  <1>8. RowFits(row, born', generations, facts)
    <2>1. identity + 1 \in DOMAIN born'
      BY <1>4, <1>5
    <2>2. \A i \in Interfaces : facts[i] = None => generations[i] = 0
      BY Zenon DEF RetainedKept, RegistryKept
    <2> QED
      BY Zenon, <1>4, <2>1, <2>2, NewRowFits
  <1> HIDE DEF rest, row, gone
  <1>9. /\ IsSequence(outbound') /\ Len(outbound') = m + 1
        /\ \A k \in DOMAIN outbound' :
              outbound'[k] = row \/ (k \in DOMAIN rest /\ outbound'[k] = rest[k])
    BY <1>1, <1>7, AppendedSequence DEF RowsFit
  <1>10. RowsFit(outbound', born', generations, facts)
    BY <1>7, <1>8, <1>9, Zenon DEF RowsFit
  <1>11. CountsKept'
    <2>1. stats.queued \in Int /\ stats.dropped \in Int /\ refused \in Int /\ finished \in Int
      BY DEF RetainedKept, CountsKept
    <2>2. gone \in Int
      BY DEF gone
    <2>3. stats'.queued = stats.queued + 1 /\ stats'.dropped = stats.dropped + gone
      BY <1>1
    <2>4. stats' \in [queued : Int, dropped : Int]
      BY <1>1, <2>1, <2>2
    <2>5. stats.queued + refused = n + finished + stats.dropped
      BY DEF RetainedKept, CountsKept, NoFrameVanishes
    <2>6. stats'.queued + refused = (m + 1) + finished + stats'.dropped
      <3> HIDE DEF m, n
      <3> QED
        BY <1>2, <1>3, <2>1, <2>2, <2>3, <2>5
    <2> QED
      BY Zenon, <1>1, <1>9, <2>1, <2>4, <2>6 DEF CountsKept, NoFrameVanishes
  <1>12. RegistryKept'
    BY <1>1 DEF RetainedKept, RegistryKept
  <1>13. BornKept'
    BY <1>1, <1>4, <1>5 DEF BornKept
  <1>14. /\ held # None => HeldFits(held, born')
         /\ \A s \in sent : SentFits(s, born')
    BY Zenon, <1>4, <1>5, CopiesGrow
  <1> QED
    BY <1>1, <1>10, <1>11, <1>12, <1>13, <1>14 DEF RetainedKept

\* What an interface's new facts leave of the registry.
LEMMA FactsKept ==
    ASSUME RegistryKept, NEW i \in Interfaces, NEW g \in Nat, NEW mode \in Modes,
           facts' = [facts EXCEPT ![i] = [generation |-> g, mode |-> mode]],
           issued' \in Nat, issued <= issued', issued' <= MaxGeneration, g \in 1 .. issued',
           generations' \in [Interfaces -> 0 .. issued'],
           \A j \in Interfaces \ {i} : generations'[j] = generations[j]
    PROVE  /\ RegistryKept' /\ facts'[i] # None
           /\ \A j \in Interfaces \ {i} : facts'[j] = facts[j]
  <1>1. /\ facts' = [j \in Interfaces |-> facts'[j]]
        /\ facts'[i] = [generation |-> g, mode |-> mode]
        /\ \A j \in Interfaces \ {i} : facts'[j] = facts[j]
    BY DEF RegistryKept
  <1>2. facts'[i] # None
    <2>1. g \in 0 .. MaxGeneration
      BY RetainedAssumption
    <2> QED
      BY <1>1, <2>1, RetainedAssumption, Zenon
  <1>3. ASSUME NEW j \in Interfaces
        PROVE  IF facts'[j] = None THEN generations'[j] = 0
               ELSE /\ facts'[j].generation = 1 \/ facts'[j].generation \in 1 .. issued'
                    /\ facts'[j].mode \in Modes
    <2>1. CASE j = i
      BY <1>1, <1>2, <2>1
    <2>2. CASE j # i
      <3>1. facts'[j] = facts[j] /\ generations'[j] = generations[j]
        BY <1>1, <2>2
      <3>2. issued \in Nat
        BY DEF RegistryKept
      <3>3. \A n \in 1 .. issued : n \in 1 .. issued'
        BY <3>2
      <3> QED
        BY <3>1, <3>3 DEF RegistryKept
    <2> QED
      BY <2>1, <2>2
  <1> QED
    BY <1>1, <1>2, <1>3 DEF RegistryKept

\* A suspended interface loses its permissions and keeps its generation.
LEMMA SuspendKeeps ==
    ASSUME RetainedKept, NEW i \in Interfaces, Suspend(i)
    PROVE  RetainedKept'
  <1> USE DEF hostVars, ghostVars
  <1> DEFINE g == generations[i]
             mode == facts[i].mode
  <1>1. /\ outbound' = Retire(outbound, i) /\ stats' = Counted(outbound, outbound')
        /\ facts' = [facts EXCEPT ![i] = [generation |-> g, mode |-> mode]]
        /\ UNCHANGED <<identity, hostVars, ghostVars>>
    BY DEF Suspend, update_interface
  <1>2. /\ issued \in Nat /\ issued <= MaxGeneration /\ g \in 0 .. issued /\ g # 0
        /\ mode \in Modes /\ generations \in [Interfaces -> 0 .. issued]
    BY DEF RetainedKept, RegistryKept, Suspend
  <1>3. g \in 1 .. issued' /\ g \in Nat /\ issued <= issued'
    BY <1>1, <1>2
  <1>4. RegistryKept' /\ \A j \in Interfaces \ {i} : facts'[j] = facts[j]
    <2> HIDE DEF g, mode
    <2>1. /\ issued' \in Nat /\ issued' <= MaxGeneration
          /\ generations' \in [Interfaces -> 0 .. issued']
          /\ \A j \in Interfaces \ {i} : generations'[j] = generations[j]
      BY <1>1, <1>2
    <2> QED
      BY Zenon, <1>1, <1>2, <1>3, <2>1, FactsKept DEF RetainedKept
  <1>5. /\ RowsFit(outbound', born, generations, facts)
        /\ \A k \in DOMAIN outbound' : i \notin outbound'[k].targets
    BY ZenonT(30), <1>1, RetireFits DEF RetainedKept
  <1>6. RowsFit(outbound', born, generations, facts')
    <2> HIDE DEF g, mode
    <2> QED
      BY <1>4, <1>5, ElsewhereFits
  <1>7. CountsKept'
    BY <1>1, <1>5, QueueCounts DEF RetainedKept, RowsFit
  <1>8. BornKept'
    BY <1>1 DEF RetainedKept, BornKept
  <1>9. RowsFit(outbound', born', generations', facts')
    BY <1>1, <1>6
  <1> QED
    BY Zenon, <1>1, <1>4, <1>7, <1>8, <1>9 DEF RetainedKept

\* A driver that is gone has no generation, so nothing is selected for it.
LEMMA GoneKeeps ==
    ASSUME RetainedKept, NEW i \in Interfaces, DriverGone(i)
    PROVE  RetainedKept'
  <1> USE DEF nodeVars, ghostVars
  <1>1. /\ generations' = [generations EXCEPT ![i] = 0]
        /\ UNCHANGED <<nodeVars, issued, held, ghostVars>>
    BY DEF DriverGone
  <1>2. /\ generations' \in [Interfaces -> 0 .. issued] /\ generations'[i] = 0
        /\ \A j \in Interfaces : j # i => generations'[j] = generations[j]
    BY <1>1 DEF RetainedKept, RegistryKept
  <1>3. RegistryKept'
    BY <1>1, <1>2 DEF RetainedKept, RegistryKept
  <1>4. RowsFit(outbound, born, generations', facts)
    <2>1. ASSUME NEW k \in DOMAIN outbound PROVE RowFits(outbound[k], born, generations', facts)
      <3>1. RowFits(outbound[k], born, generations, facts)
        BY DEF RetainedKept, RowsFit
      <3>2. \A j \in outbound[k].targets : generations'[j] = 0 \/ generations'[j] = generations[j]
        BY <1>2, <3>1, Zenon DEF RowFits
      <3> QED
        BY <3>1, <3>2, Zenon DEF RowFits
    <2> QED
      BY <2>1 DEF RetainedKept, RowsFit
  <1>5. CountsKept' /\ BornKept'
    BY <1>1 DEF RetainedKept, CountsKept, BornKept, NoFrameVanishes
  <1>6. RowsFit(outbound', born', generations', facts')
    BY <1>1, <1>4
  <1> QED
    BY <1>1, <1>3, <1>5, <1>6 DEF RetainedKept

\* An interface removed for good loses its permissions and routes.
LEMMA UnregisterRetains ==
    ASSUME RetainedKept, NEW i \in Interfaces, Unregister(i)
    PROVE  RetainedKept'
  <1> USE DEF ghostVars
  <1>1. /\ generations' = [generations EXCEPT ![i] = 0] /\ facts' = [facts EXCEPT ![i] = None]
        /\ outbound' = Replaced(outbound, i) /\ stats' = Counted(outbound, outbound')
        /\ UNCHANGED <<identity, issued, held, ghostVars>>
    BY DEF Unregister
  <1>2. /\ generations' \in [Interfaces -> 0 .. issued] /\ generations'[i] = 0
        /\ \A j \in Interfaces \ {i} : generations'[j] = generations[j]
    BY <1>1 DEF RetainedKept, RegistryKept
  <1>3. /\ facts' = [j \in Interfaces |-> facts'[j]] /\ facts'[i] = None
        /\ \A j \in Interfaces \ {i} : facts'[j] = facts[j]
    BY <1>1 DEF RetainedKept, RegistryKept
  <1>4. RegistryKept'
    BY <1>1, <1>2, <1>3 DEF RetainedKept, RegistryKept
  <1>5. /\ RowsFit(outbound', born, generations, facts)
        /\ \A k \in DOMAIN outbound' : i \notin outbound'[k].targets
    BY Zenon, <1>1, ReplacedFits DEF RetainedKept
  <1>6. RowsFit(outbound', born, generations', facts')
    BY <1>2, <1>3, <1>5, ElsewhereFits
  <1>7. CountsKept'
    <2>1. CountsKept /\ IsSequence(outbound) /\ IsSequence(outbound')
      BY Zenon, <1>5 DEF RetainedKept, RowsFit
    <2>2. UNCHANGED <<refused, finished>>
      BY Zenon, <1>1
    <2> QED
      BY Zenon, <1>1, <2>1, <2>2, QueueCounts
  <1>8. BornKept'
    BY <1>1 DEF RetainedKept, BornKept
  <1>9. RowsFit(outbound', born', generations', facts')
    BY Zenon, <1>1, <1>6
  <1> QED
    BY <1>1, <1>4, <1>7, <1>8, <1>9 DEF RetainedKept

\* The histories of an interface's generations after a new one.
Issue(b, i, g) ==
    [id \in DOMAIN b |-> IF b[id][i] = 0 THEN [b[id] EXCEPT ![i] = g] ELSE b[id]]

\* A new generation is the first one only of identities that waited for it.
LEMMA IssueForm ==
    ASSUME NEW n \in Nat, NEW b \in Seq([Interfaces -> 0 .. n]), NEW i \in Interfaces
    PROVE  /\ Issue(b, i, n + 1) \in Seq([Interfaces -> 0 .. n + 1])
           /\ Len(Issue(b, i, n + 1)) = Len(b) /\ DOMAIN Issue(b, i, n + 1) = DOMAIN b
           /\ \A id \in DOMAIN b :
                 /\ b[id][i] = 0 => Issue(b, i, n + 1)[id][i] = n + 1
                 /\ b[id][i] # 0 => Issue(b, i, n + 1)[id][i] = b[id][i]
                 /\ \A j \in Interfaces \ {i} : Issue(b, i, n + 1)[id][j] = b[id][j]
  <1> DEFINE after == Issue(b, i, n + 1)
             len == Len(b)
  <1>1. len \in Nat /\ DOMAIN b = 1 .. len /\ \A id \in DOMAIN b : b[id] \in [Interfaces -> 0 .. n]
    OBVIOUS
  <1>2. DOMAIN after = DOMAIN b
    BY DEF Issue
  <1>3. ASSUME NEW id \in DOMAIN b
        PROVE  /\ after[id] \in [Interfaces -> 0 .. n + 1]
               /\ b[id][i] = 0 => after[id][i] = n + 1
               /\ b[id][i] # 0 => after[id][i] = b[id][i]
               /\ \A j \in Interfaces \ {i} : after[id][j] = b[id][j]
    <2> DEFINE x == b[id]
    <2>1. after[id] = IF x[i] = 0 THEN [x EXCEPT ![i] = n + 1] ELSE x
      BY DEF Issue
    <2>2. x \in [Interfaces -> 0 .. n]
      BY <1>1
    <2> HIDE DEF after, x
    <2>3. after[id] \in [Interfaces -> 0 .. n + 1]
      <3>1. \A m \in 0 .. n : m \in 0 .. n + 1
        OBVIOUS
      <3>2. x \in [Interfaces -> 0 .. n + 1]
        BY <2>2, <3>1
      <3> QED
        BY <2>1, <3>2
    <2>4. /\ x[i] = 0 => after[id][i] = n + 1
          /\ x[i] # 0 => after[id][i] = x[i]
          /\ \A j \in Interfaces \ {i} : after[id][j] = x[j]
      BY <2>1, <2>2
    <2> QED
      BY <2>3, <2>4 DEF x
  <1>4. after \in [1 .. len -> [Interfaces -> 0 .. n + 1]]
    <2>1. after = [id \in DOMAIN b |-> after[id]]
      BY DEF Issue
    <2> HIDE DEF after, len
    <2> QED
      BY <1>1, <1>3, <2>1
  <1> HIDE DEF after
  <1>5. after \in Seq([Interfaces -> 0 .. n + 1]) /\ Len(after) = len
    BY <1>1, <1>4
  <1> QED
    BY <1>2, <1>3, <1>5 DEF after

\* A registration: the first one fits the rows that waited for it, every other one is a
\* replacement or a reconnect and takes the old permissions away.
LEMMA RegisterRetains ==
    ASSUME RetainedKept, NEW i \in Interfaces, NEW mode \in Modes, Register(i, mode)
    PROVE  RetainedKept'
  <1> DEFINE g == issued + 1
  <1>1. /\ issued < MaxGeneration /\ issued' = g /\ generations' = [generations EXCEPT ![i] = g]
        /\ stats' = Counted(outbound, outbound')
        /\ facts' = [facts EXCEPT ![i] = [generation |-> g, mode |-> mode]]
        /\ born' = Issue(born, i, g)
        /\ UNCHANGED <<identity, held, sent, finished, refused>>
    BY DEF Register, update_interface, Issue
  <1>2. /\ issued \in Nat /\ generations \in [Interfaces -> 0 .. issued]
        /\ born \in Seq([Interfaces -> 0 .. issued])
    BY DEF RetainedKept, RegistryKept, BornKept
  <1>3. /\ generations' \in [Interfaces -> 0 .. issued'] /\ generations'[i] = g
        /\ \A j \in Interfaces \ {i} : generations'[j] = generations[j]
    <2>1. \A m \in 0 .. issued : m \in 0 .. issued + 1
      BY <1>2
    <2>2. generations \in [Interfaces -> 0 .. g] /\ g \in 0 .. g
      BY <1>2, <2>1
    <2> HIDE DEF g
    <2> QED
      BY <1>1, <2>2
  <1>4. /\ RegistryKept' /\ facts'[i] # None
        /\ \A j \in Interfaces \ {i} : facts'[j] = facts[j]
    <2>1. /\ issued' \in Nat /\ issued <= issued' /\ issued' <= MaxGeneration
          /\ g \in 1 .. issued' /\ g \in Nat
      BY <1>1, <1>2, RetainedAssumption
    <2> HIDE DEF g
    <2> QED
      BY Zenon, <1>1, <1>3, <2>1, FactsKept DEF RetainedKept
  <1>5. /\ born' \in Seq([Interfaces -> 0 .. issued']) /\ Len(born') = Len(born)
        /\ DOMAIN born' = DOMAIN born
        /\ \A id \in DOMAIN born :
              /\ born[id][i] = 0 => born'[id][i] = g
              /\ born[id][i] # 0 => born'[id][i] = born[id][i]
              /\ \A j \in Interfaces \ {i} : born'[id][j] = born[id][j]
    <2> DEFINE after == Issue(born, i, issued + 1)
    <2>1. /\ after \in Seq([Interfaces -> 0 .. issued + 1]) /\ Len(after) = Len(born)
          /\ DOMAIN after = DOMAIN born
          /\ \A id \in DOMAIN born :
                /\ born[id][i] = 0 => after[id][i] = issued + 1
                /\ born[id][i] # 0 => after[id][i] = born[id][i]
                /\ \A j \in Interfaces \ {i} : after[id][j] = born[id][j]
      BY ZenonT(30), <1>2, IssueForm
    <2> HIDE DEF after
    <2>2. born' = after /\ issued' = issued + 1
      BY <1>1 DEF after
    <2> QED
      BY <2>1, <2>2, Zenon
  <1>6. /\ IsSequence(outbound) /\ RowsFit(outbound, born, generations, facts)
    BY DEF RetainedKept, RowsFit
  <1>7. RowsFit(outbound', born', generations', facts')
    <2> DEFINE q == outbound'
    <2>1. ASSUME RowsFit(q, born, generations, facts), \A k \in DOMAIN q : i \notin q[k].targets
          PROVE  RowsFit(q, born', generations', facts')
      <3> HIDE DEF q, g
      <3>1. \A j \in Interfaces \ {i} :
              /\ generations'[j] = generations[j] /\ facts'[j] = facts[j]
              /\ \A id \in DOMAIN born : born'[id][j] = born[id][j]
        BY <1>3, <1>4, <1>5, Zenon
      <3>2. DOMAIN born' = DOMAIN born
        BY ZenonT(30), <1>5
      <3> QED
        BY <2>1, <3>1, <3>2, ElsewhereFits
    <2>2. ASSUME RowsFit(q, born, generations, facts),
                 \A k \in DOMAIN q : i \in q[k].targets => born[q[k].id][i] = 0
          PROVE  RowsFit(q, born', generations', facts')
      <3> HIDE DEF q, g
      <3>1. \A j \in Interfaces \ {i} :
              /\ generations'[j] = generations[j] /\ facts'[j] = facts[j]
              /\ \A id \in DOMAIN born : born'[id][j] = born[id][j]
        BY <1>3, <1>4, <1>5, Zenon
      <3>2. \A id \in DOMAIN born : born[id][i] = 0 => born'[id][i] = generations'[i]
        BY <1>3, <1>5, Zenon
      <3>3. DOMAIN born' = DOMAIN born /\ facts'[i] # None
        BY <1>4, <1>5
      <3>4. AwaitedBy(q, born, i) /\ FirstOf(i, born, generations, facts, born', generations', facts')
        BY Zenon, <2>2, <3>1, <3>2, <3>3 DEF AwaitedBy, FirstOf
      <3> QED
        BY Zenon, <2>2, <3>4, FirstFits
    <2>3. CASE facts[i] = None
      <3>1. q = outbound
        BY Zenon, <2>3 DEF Register, update_interface
      <3>2. \A k \in DOMAIN q : i \in q[k].targets => born[q[k].id][i] = 0
        BY <1>6, <2>3, <3>1, ZenonT(30) DEF RowsFit, RowFits
      <3> QED
        BY ZenonT(30), <1>6, <2>2, <3>1, <3>2
    <2>4. CASE facts[i] # None /\ facts[i].mode # mode
      <3>1. q = Replaced(outbound, i)
        BY <2>4 DEF Register, update_interface
      <3> QED
        BY ZenonT(30), <1>6, <2>1, <3>1, ReplacedFits
    <2>5. CASE facts[i] # None /\ facts[i].mode = mode /\ facts[i].generation # g
      <3>1. q = Retire(outbound, i)
        BY <2>5 DEF Register, update_interface
      <3> QED
        BY ZenonT(30), <1>6, <2>1, <3>1, RetireFits
    <2>6. CASE facts[i] # None /\ facts[i].mode = mode /\ facts[i].generation = g
      <3>1. q = outbound
        BY <2>6 DEF Register, update_interface
      <3>2. facts[i].generation = 1 \/ facts[i].generation \in 1 .. issued
        BY Zenon, <2>6 DEF RetainedKept, RegistryKept
      <3>3. issued = 0
        BY <1>2, <2>6, <3>2
      <3>4. \A id \in DOMAIN born : born[id][i] \in 0 .. issued
        BY <1>2
      <3>5. \A id \in DOMAIN born : born[id][i] = 0
        BY <3>3, <3>4
      <3>6. \A k \in DOMAIN q : q[k].id \in DOMAIN born
        BY Zenon, <1>6, <3>1 DEF RowsFit, RowFits
      <3> QED
        BY ZenonT(30), <1>6, <2>2, <3>1, <3>5, <3>6
    <2> QED
      BY ZenonT(30), <2>3, <2>4, <2>5, <2>6
  <1>8. CountsKept'
    BY <1>1, <1>6, <1>7, QueueCounts DEF RetainedKept, RowsFit
  <1>9. BornKept'
    BY Zenon, <1>1, <1>5 DEF RetainedKept, BornKept
  <1>10. \A id \in DOMAIN born, j \in Interfaces : born[id][j] # 0 => born'[id][j] = born[id][j]
    <2> HIDE DEF g
    <2> QED
      BY <1>5, Zenon
  <1>11. held # None => HeldFits(held, born')
    BY <1>5, <1>10, Zenon DEF RetainedKept, HeldFits
  <1>12. \A s \in sent : SentFits(s, born')
    BY <1>5, <1>10, Zenon DEF RetainedKept, SentFits
  <1> QED
    BY ZenonT(30), <1>1, <1>4, <1>7, <1>8, <1>9, <1>11, <1>12 DEF RetainedKept

-----------------------------------------------------------------------------
\* A row that may be sent to each of its targets.
Ready(row, b) ==
    \A i \in row.targets : row.generations[i] # 0 /\ row.generations[i] = b[row.id][i]

\* A selection fixes or checks the generations of its row.
LEMMA PermittedFits ==
    ASSUME NEW row, NEW b, NEW fs, RowFits(row, b, generations, fs)
    PROVE  RowFits(Permitted(row), b, generations, fs) /\ Ready(Permitted(row), b)
  <1> DEFINE chosen == IF row.initialized THEN row.targets ELSE row.targets \cap Selected(row)
             gens == IF row.initialized THEN row.generations ELSE generations
             remaining == {i \in chosen : generations[i] # 0 /\ generations[i] = gens[i]}
             passed == TRUE
             after == Permitted(row)
  <1>1. after = [row EXCEPT !.targets = remaining, !.generations = gens, !.initialized = passed]
    BY DEF Permitted
  <1>2. /\ Fields \subseteq DOMAIN row /\ "targets" \in DOMAIN row /\ "generations" \in DOMAIN row
    BY DEF RowFits, Fields
  <1>3. \A i \in remaining :
           i \in row.targets /\ generations[i] # 0 /\ gens[i] = generations[i]
    OBVIOUS
  <1>4. \A i \in remaining : gens[i] = b[row.id][i] /\ (fs[i] = None => b[row.id][i] = 0)
    BY <1>3, Zenon DEF RowFits
  <1> HIDE DEF remaining, gens, passed, after
  <1>5. /\ DOMAIN after = DOMAIN row /\ after.id = row.id
        /\ after.targets = remaining /\ after.generations = gens
    BY <1>1, <1>2
  <1>6. remaining \subseteq Interfaces /\ row.id \in DOMAIN b
    BY <1>3 DEF RowFits
  <1>7. RowFits(after, b, generations, fs) /\ Ready(after, b)
    <2>1. ASSUME NEW i \in remaining
          PROVE  /\ fs[i] = None => b[after.id][i] = 0
                 /\ after.generations[i] # 0 /\ after.generations[i] = b[after.id][i]
                 /\ generations[i] = b[after.id][i]
      BY <1>3, <1>4, <1>5, Zenon
    <2> QED
      BY <1>2, <1>5, <1>6, <2>1, Zenon DEF RowFits, Ready
  <1> QED
    BY <1>7 DEF after

\* The copy handed out is of such a row.
LEMMA CopyFits ==
    ASSUME NEW rows, NEW b, NEW gens, NEW fs, RowsFit(rows, b, gens, fs),
           \A k \in DOMAIN rows : Ready(rows[k], b),
           NEW after, NEW blocked, Copy(rows, after, blocked) # None
    PROVE  HeldFits(Copy(rows, after, blocked), b)
  <1> DEFINE found == {k \in DOMAIN rows : rows[k].id > after /\ rows[k].targets \ blocked # {}}
             at == CHOOSE k \in found : \A j \in found : k <= j
             row == rows[at]
             copy == Copy(rows, after, blocked)
  <1>1. found # {}
    BY ZenonT(30) DEF Copy
  <1>2. copy = [id |-> row.id, targets |-> row.targets \ blocked,
                generations |-> row.generations, completed |-> {}]
    BY Zenon, <1>1 DEF Copy
  <1>3. found \subseteq DOMAIN rows
    OBVIOUS
  <1>4. found \subseteq Nat
    <2>1. DOMAIN rows = 1 .. Len(rows) /\ Len(rows) \in Nat
      BY SequenceForm DEF RowsFit
    <2> HIDE DEF found
    <2> QED
      BY <1>3, <2>1
  <1> HIDE DEF found
  <1>5. at \in found
    BY Zenon, <1>1, <1>4, LeastNumber
  <1> HIDE DEF at
  <1>6. RowFits(row, b, gens, fs) /\ Ready(row, b)
    BY <1>3, <1>5 DEF RowsFit
  <1> HIDE DEF row, copy
  <1>7. copy.id = row.id /\ copy.targets \subseteq row.targets /\ copy.generations = row.generations
    BY Zenon, <1>2
  <1>8. HeldFits(copy, b)
    BY <1>6, <1>7, Zenon DEF RowFits, Ready, HeldFits
  <1> QED
    BY <1>8 DEF copy

\* A selection: rows without a target left are counted as dropped.
LEMMA SelectKeeps ==
    ASSUME RetainedKept, Select
    PROVE  RetainedKept'
  <1> USE DEF ghostVars
  <1> DEFINE fresh == Expired(outbound)
             permitted == [k \in DOMAIN fresh |-> Permitted(fresh[k])]
             kept == {k \in DOMAIN permitted : permitted[k].targets # {}}
             rows == Only(permitted, kept)
             n == Len(outbound)
             f == Len(fresh)
             r == Len(rows)
  <1>1. /\ outbound' = rows
        /\ stats' = [SelectCounted(fresh, rows) EXCEPT !.dropped = @ + n - f]
        /\ \E after \in 0 .. identity, blocked \in SUBSET Interfaces :
              held' = Copy(outbound', after, blocked)
        /\ UNCHANGED <<facts, identity, generations, issued, ghostVars>>
    BY Zenon DEF Select
  <1>2. RowsFit(fresh, born, generations, facts)
    BY ExpiredFits DEF RetainedKept
  <1> HIDE DEF fresh
  <1>3. ASSUME NEW k \in DOMAIN fresh
        PROVE  RowFits(permitted[k], born, generations, facts) /\ Ready(permitted[k], born)
    <2>1. RowFits(fresh[k], born, generations, facts)
      BY <1>2 DEF RowsFit
    <2> QED
      BY <2>1, PermittedFits
  <1>4. DOMAIN permitted = DOMAIN fresh /\ permitted = [k \in DOMAIN permitted |-> permitted[k]]
    OBVIOUS
  <1> HIDE DEF permitted
  <1>5. IsSequence(permitted)
    BY <1>2, <1>4, SameLength DEF RowsFit
  <1>6. RowsFit(permitted, born, generations, facts)
    BY Zenon, <1>3, <1>4, <1>5 DEF RowsFit
  <1>7. From(rows, permitted)
    BY <1>5, OnlyFrom
  <1> HIDE DEF rows
  <1>8. RowsFit(rows, born, generations, facts)
    BY <1>6, <1>7, FromFits
  <1>9. \A k \in DOMAIN rows : Ready(rows[k], born)
    BY <1>3, <1>4, <1>7, ZenonT(30) DEF From
  <1>10. held' # None => HeldFits(held', born)
    <2>1. PICK after, blocked : held' = Copy(rows, after, blocked)
      BY <1>1
    <2> QED
      BY <1>8, <1>9, <2>1, CopyFits
  <1>11. n \in Nat /\ f \in Nat /\ r \in Nat
    <2>1. IsSequence(outbound) /\ IsSequence(fresh) /\ IsSequence(rows)
      BY <1>2, <1>8 DEF RetainedKept, RowsFit
    <2> QED
      BY <2>1, SequenceForm
  <1>12. CountsKept'
    <2>1. stats' = [[stats EXCEPT !.dropped = @ + f - r] EXCEPT !.dropped = @ + n - f]
      BY <1>1 DEF SelectCounted, Counted
    <2> HIDE DEF n, f, r
    <2> DEFINE mid == [stats EXCEPT !.dropped = @ + f - r]
    <2>2. /\ mid \in [queued : Int, dropped : Int] /\ mid.queued = stats.queued
          /\ mid.dropped = stats.dropped + f - r
      BY <1>11 DEF RetainedKept, CountsKept
    <2>3. stats' = [mid EXCEPT !.dropped = @ + n - f]
      BY <2>1
    <2> HIDE DEF mid
    <2>4. /\ stats' \in [queued : Int, dropped : Int] /\ stats'.queued = mid.queued
          /\ stats'.dropped = mid.dropped + n - f
      BY <1>11, <2>2, <2>3
    <2>5. stats.queued \in Int /\ stats.dropped \in Int /\ refused \in Int /\ finished \in Int
      BY DEF RetainedKept, CountsKept
    <2>6. stats.queued + refused = n + finished + stats.dropped
      BY DEF RetainedKept, CountsKept, NoFrameVanishes, n
    <2>7. stats'.queued + refused = r + finished + stats'.dropped
      BY <1>11, <2>2, <2>4, <2>5, <2>6
    <2> QED
      BY <1>1, <2>4, <2>5, <2>7 DEF CountsKept, NoFrameVanishes, r
  <1>13. RegistryKept' /\ BornKept'
    BY <1>1 DEF RetainedKept, RegistryKept, BornKept
  <1>14. RowsFit(outbound', born', generations', facts')
    BY <1>1, <1>8
  <1> QED
    BY <1>1, <1>10, <1>12, <1>13, <1>14 DEF RetainedKept

\* A driver takes the copy under the generation it was selected for.
LEMMA SendKeeps ==
    ASSUME RetainedKept, NEW i \in Interfaces, Send(i)
    PROVE  RetainedKept'
  <1> USE DEF nodeVars
  <1>1. /\ held # None /\ i \in held.targets /\ generations[i] = held.generations[i]
        /\ held' = [held EXCEPT !.targets = @ \ {i}, !.completed = @ \cup {i}]
        /\ sent' = sent \cup {<<held.id, i, generations[i]>>}
        /\ UNCHANGED <<nodeVars, generations, issued, finished, refused, born>>
    BY DEF Send
  <1>2. HeldFits(held, born)
    BY <1>1 DEF RetainedKept
  <1>3. \A s \in sent' : SentFits(s, born)
    <2>1. SentFits(<<held.id, i, generations[i]>>, born)
      BY <1>1, <1>2 DEF HeldFits, SentFits
    <2> QED
      BY <1>1, <2>1 DEF RetainedKept
  <1>4. HeldFits(held', born)
    <2> DEFINE new == held'
               old == held
    <2>1. new = [old EXCEPT !.targets = old.targets \ {i}, !.completed = old.completed \cup {i}]
      BY <1>1
    <2> HIDE DEF new, old
    <2>2. new.id = old.id /\ new.generations = old.generations
      BY <2>1
    <2>3. new.targets \subseteq old.targets
      BY <2>1
    <2> QED
      BY <1>2, <2>2, <2>3, Zenon DEF HeldFits, new, old
  <1>5. RegistryKept' /\ BornKept' /\ CountsKept'
    BY Zenon, <1>1 DEF RetainedKept, RegistryKept, BornKept, CountsKept, NoFrameVanishes
  <1>6. RowsFit(outbound', born', generations', facts')
    BY <1>1 DEF RetainedKept
  <1> QED
    BY <1>1, <1>3, <1>4, <1>5, <1>6 DEF RetainedKept

\* A row leaves the queue for good.
LEMMA FinishKeeps ==
    ASSUME RetainedKept, NEW k \in DOMAIN outbound, outbound' = Only(outbound, DOMAIN outbound \ {k}),
           finished' = finished + 1, held' = None,
           UNCHANGED <<facts, identity, stats, generations, issued, sent, refused, born>>
    PROVE  RetainedKept'
  <1> DEFINE n == Len(outbound)
             m == Len(outbound')
  <1>1. From(outbound', outbound) /\ m = n - 1 /\ n \in Nat
    BY RemoveFrom, SequenceForm DEF RetainedKept, RowsFit
  <1>2. RowsFit(outbound', born, generations, facts)
    BY <1>1, FromFits DEF RetainedKept
  <1>3. CountsKept'
    <2>1. stats.queued \in Int /\ stats.dropped \in Int /\ refused \in Int /\ finished \in Int
      BY DEF RetainedKept, CountsKept
    <2>2. stats.queued + refused = n + finished + stats.dropped
      BY DEF RetainedKept, CountsKept, NoFrameVanishes
    <2> HIDE DEF n, m
    <2>3. stats.queued + refused = m + finished' + stats.dropped
      BY <1>1, <2>1, <2>2
    <2> QED
      BY <2>1, <2>3 DEF RetainedKept, CountsKept, NoFrameVanishes, m
  <1>4. RegistryKept' /\ BornKept'
    BY DEF RetainedKept, RegistryKept, BornKept
  <1>5. RowsFit(outbound', born', generations', facts')
    BY <1>2
  <1> QED
    BY Zenon, <1>3, <1>4, <1>5 DEF RetainedKept

\* An acknowledged row loses the targets that are done.
LEMMA AckKeeps ==
    ASSUME RetainedKept, Ack
    PROVE  RetainedKept'
  <1> DEFINE at == {k \in DOMAIN outbound : outbound[k].id = held.id /\ outbound[k].initialized}
             k == CHOOSE k \in at : TRUE
             remaining == outbound[k].targets \ held.completed
  <1>1. /\ held' = None
        /\ UNCHANGED <<facts, retained, identity, stats, generations, issued, sent, refused, born>>
    BY DEF Ack
  <1>2. RowsFit(outbound, born, generations, facts)
    BY DEF RetainedKept
  <1>3. CASE at = {}
    <2>1. UNCHANGED <<outbound, finished>>
      BY <1>3 DEF Ack
    <2>2. RegistryKept' /\ BornKept' /\ CountsKept'
      BY <1>1, <2>1 DEF RetainedKept, RegistryKept, BornKept, CountsKept, NoFrameVanishes
    <2> QED
      BY <1>1, <2>1, <2>2 DEF RetainedKept
  <1>4. ASSUME at # {} PROVE k \in DOMAIN outbound
    BY <1>4
  <1>5. CASE at # {} /\ remaining = {}
    <2>1. outbound' = Only(outbound, DOMAIN outbound \ {k}) /\ finished' = finished + 1
      BY <1>5 DEF Ack
    <2> QED
      BY Zenon, <1>1, <1>4, <1>5, <2>1, FinishKeeps
  <1>6. CASE at # {} /\ remaining # {}
    <2> DEFINE q == outbound
               after == outbound'
    <2>1. /\ after = [q EXCEPT ![k] = [q[k] EXCEPT !.targets = remaining]] /\ UNCHANGED finished
      BY ZenonT(30), <1>6 DEF Ack
    <2>2. remaining \subseteq q[k].targets /\ k \in DOMAIN q /\ "targets" \in DOMAIN q[k]
      BY <1>2, <1>4, <1>6 DEF RowsFit, RowFits, Fields
    <2> HIDE DEF at, k, remaining
    <2>3. DOMAIN after = DOMAIN q
      BY <2>1
    <2>4. after = [j \in DOMAIN after |-> after[j]]
      BY Zenon, <1>2, <2>1, SequenceForm DEF RowsFit
    <2>5. ASSUME NEW j \in DOMAIN q
          PROVE  /\ DOMAIN after[j] = DOMAIN q[j]
                 /\ after[j].id = q[j].id /\ after[j].generations = q[j].generations
                 /\ after[j].initialized = q[j].initialized
                 /\ after[j].targets \subseteq q[j].targets
      <3>1. CASE j = k
        <4>1. after[j] = [q[j] EXCEPT !.targets = remaining] /\ "targets" \in DOMAIN q[j]
          BY <2>1, <2>2, <3>1
        <4> DEFINE row == q[j]
                   new == after[j]
        <4> HIDE DEF row, new
        <4>2. new = [row EXCEPT !.targets = remaining] /\ "targets" \in DOMAIN row
          BY <4>1 DEF row, new
        <4>3. /\ DOMAIN new = DOMAIN row /\ new.id = row.id /\ new.generations = row.generations
              /\ new.initialized = row.initialized /\ new.targets = remaining
          BY <4>2
        <4> QED
          BY <2>2, <3>1, <4>3 DEF row, new
      <3>2. CASE j # k
        BY <2>1, <3>2
      <3> QED
        BY Zenon, <3>1, <3>2
    <2>6. RowsFit(after, born, generations, facts) /\ Len(after) = Len(q)
      <3> HIDE DEF q, after
      <3>1. RowsFit(q, born, generations, facts)
        BY <1>2 DEF q
      <3> QED
        BY <2>3, <2>4, <2>5, <3>1, LessFits
    <2>7. CountsKept'
      BY <1>1, <2>1, <2>6 DEF RetainedKept, CountsKept, NoFrameVanishes
    <2>8. RegistryKept' /\ BornKept'
      BY <1>1 DEF RetainedKept, RegistryKept, BornKept
    <2>9. RowsFit(outbound', born', generations', facts')
      BY <1>1, <2>6
    <2> QED
      BY Zenon, <1>1, <2>7, <2>8, <2>9 DEF RetainedKept
  <1> QED
    BY Zenon, <1>3, <1>5, <1>6

\* A row the host takes.
LEMMA TakeKeeps ==
    ASSUME RetainedKept, Take
    PROVE  RetainedKept'
  <1>1. PICK k \in DOMAIN outbound : outbound' = Only(outbound, DOMAIN outbound \ {k})
    BY Zenon DEF Take
  <1> QED
    BY ZenonT(30), <1>1, FinishKeeps DEF Take

\* A row polled by a host that never selects.
LEMMA PollKeeps ==
    ASSUME RetainedKept, poll_tx
    PROVE  RetainedKept'
  <1> USE DEF hostVars
  <1> DEFINE fresh == Expired(outbound)
             n == Len(outbound)
             f == Len(fresh)
             m == Len(outbound')
             taken == IF fresh = <<>> THEN 0 ELSE 1
  <1>1. /\ outbound' = IF fresh = <<>> THEN fresh ELSE Tail(fresh)
        /\ stats' = Counted(outbound, fresh)
        /\ finished' = IF fresh = <<>> THEN finished ELSE finished + 1
        /\ UNCHANGED <<facts, identity, hostVars, sent, refused, born>>
    BY DEF poll_tx
  <1>2. RowsFit(fresh, born, generations, facts)
    BY ExpiredFits DEF RetainedKept
  <1>3. stats' = [stats EXCEPT !.dropped = @ + n - f]
    BY <1>1 DEF Counted
  <1> HIDE DEF fresh
  <1>4. IsSequence(fresh) /\ f \in Nat /\ n \in Nat
    BY <1>2, SequenceForm DEF RetainedKept, RowsFit
  <1>5. From(outbound', fresh) /\ m = f - taken
    <2>1. CASE fresh = <<>>
      BY <1>1, <1>4, <2>1 DEF From
    <2>2. CASE fresh # <<>>
      <3>1. f > 0
        <4>1. fresh \in Seq({fresh[k] : k \in DOMAIN fresh})
          BY <1>4 DEF IsSequence
        <4>2. f \in Nat \ {0}
          BY <2>2, <4>1, EmptySeq
        <4> QED
          BY <4>2
      <3> QED
        BY <1>1, <1>4, <2>2, <3>1, TailFrom
    <2> QED
      BY <2>1, <2>2
  <1>6. RowsFit(outbound', born, generations, facts)
    BY <1>2, <1>5, FromFits
  <1>7. CountsKept'
    <2>1. stats.queued \in Int /\ stats.dropped \in Int /\ refused \in Int /\ finished \in Int
      BY DEF RetainedKept, CountsKept
    <2>2. stats.queued + refused = n + finished + stats.dropped
      BY DEF RetainedKept, CountsKept, NoFrameVanishes
    <2>3. taken \in Int /\ finished' = finished + taken
      BY <1>1, <2>1
    <2> HIDE DEF n, f, m, taken
    <2>4. /\ stats' \in [queued : Int, dropped : Int] /\ stats'.queued = stats.queued
          /\ stats'.dropped = stats.dropped + n - f
      BY <1>3, <1>4 DEF RetainedKept, CountsKept
    <2>5. stats'.queued + refused = m + finished' + stats'.dropped
      BY <1>4, <1>5, <2>1, <2>2, <2>3, <2>4
    <2>6. finished' \in Int
      BY <2>1, <2>3
    <2> QED
      BY Zenon, <1>1, <2>1, <2>4, <2>5, <2>6 DEF CountsKept, NoFrameVanishes, m
  <1>8. RegistryKept' /\ BornKept'
    BY <1>1 DEF RetainedKept, RegistryKept, BornKept
  <1>9. RowsFit(outbound', born', generations', facts')
    BY <1>1, <1>6
  <1> QED
    BY Zenon, <1>1, <1>7, <1>8, <1>9 DEF RetainedKept

-----------------------------------------------------------------------------
\* Every step keeps the invariant.
LEMMA RetainedStep ==
    RetainedKept /\ [RetainedNext]_retainedVars => RetainedKept'
  <1> SUFFICES ASSUME RetainedKept, [RetainedNext]_retainedVars PROVE RetainedKept'
    OBVIOUS
  <1>1. CASE UNCHANGED retainedVars
    <2>1. RegistryKept' /\ BornKept' /\ CountsKept'
      BY <1>1 DEF RetainedKept, RegistryKept, BornKept, CountsKept, NoFrameVanishes,
                  retainedVars, nodeVars, hostVars, ghostVars
    <2> QED
      BY Zenon, <1>1, <2>1 DEF RetainedKept, retainedVars, nodeVars, hostVars, ghostVars
  <1>2. ASSUME NEW interface, NEW reason, NEW needs, NEW fits \in BOOLEAN,
               Enqueue(interface, reason, needs, fits)
        PROVE  RetainedKept'
    <2>1. CASE fits = TRUE
      BY Zenon, <1>2, <2>1, QueueKeeps
    <2>2. CASE fits = FALSE
      BY Zenon, <1>2, <2>2, RefuseKeeps
    <2> QED
      BY Zenon, <2>1, <2>2
  <1>3. ASSUME NEW i \in Interfaces,
               \/ \E mode \in Modes : Observe(i, mode) \/ Register(i, mode)
               \/ Suspend(i)
               \/ DriverGone(i)
               \/ Unregister(i)
               \/ update_interface_packet_capacity(i, generations[i])
               \/ Send(i)
        PROVE  RetainedKept'
    BY Zenon, <1>3, ObserveKeeps, RegisterRetains, SuspendKeeps, GoneKeeps, UnregisterRetains,
       CapacityKeeps, SendKeeps
  <1> QED
    BY Zenon, <1>1, <1>2, <1>3, StaleKeeps, TickKeeps, SelectKeeps, AckKeeps, TakeKeeps, PollKeeps
    DEF RetainedNext

\* It holds of the empty queue.
LEMMA RetainedBegins ==
    RetainedInit => RetainedKept
  <1> SUFFICES ASSUME RetainedInit PROVE RetainedKept
    OBVIOUS
  <1> USE DEF RetainedInit
  <1>1. RegistryKept
    BY RetainedAssumption DEF RegistryKept
  <1>2. BornKept
    BY DEF BornKept
  <1>3. CountsKept
    BY DEF CountsKept, NoFrameVanishes
  <1>4. RowsFit(outbound, born, generations, facts)
    BY DEF RowsFit, IsSequence
  <1> QED
    BY Zenon, <1>1, <1>2, <1>3, <1>4 DEF RetainedKept

\* For any interfaces, queue length and interleaving of reconnects, replacements and sends,
\* bytes queued for one incarnation of an interface never go out on a later one (retained
\* rows of transport.rs).
THEOREM ReplacementsClean == RetainedSpec => []ReplacementsGetNothingOld
  <1>1. RetainedKept => ReplacementsGetNothingOld
    BY DEF RetainedKept, ReplacementsGetNothingOld, SentFits
  <1> QED
    BY <1>1, RetainedStep, RetainedBegins, PTL DEF RetainedSpec

\* Every frame is queued, handed over or counted as dropped, once (the counters of the
\* outbound queue in transport.rs).
THEOREM FramesAccounted == RetainedSpec => []NoFrameVanishes
  <1>1. RetainedKept => NoFrameVanishes
    BY DEF RetainedKept, CountsKept
  <1> QED
    BY <1>1, RetainedStep, RetainedBegins, PTL DEF RetainedSpec

----------------------------------------------------------------------------
(* LoRa frames                                                               *)

\* The airtimes, the window and the number of sequence values, one by one.
LEMMA LoraNumbers ==
    /\ FrameAir \in Nat /\ FrameAir > 0 /\ window_ms \in Nat /\ window_ms > 0
    /\ split_timeout_ms \in Nat /\ split_timeout_ms > 0
    /\ Sequences4 \in Nat /\ Sequences4 > 0
    /\ max_utilization_bps \in Nat
  BY LoraAssumption

\* What keeps a host from a second refusal: it still sleeps until the airtime window it was
\* refused in is over.
WaitCovers ==
    /\ want = None \/ want \in Kinds
    /\ limiter \in [age : 0 .. window_ms, used : Nat]
    /\ sleep \in Nat
    /\ refusals \in 0 .. 1
    /\ refusals = 1 /\ want # None => sleep + limiter.age >= window_ms

\* The airtime of a packet is that of its one or two frames (encode).
LEMMA AirtimeIsNat == ASSUME NEW kind \in Kinds PROVE Airtime(kind) \in Nat
  <1>1. FrameAir \in Nat
    BY LoraNumbers
  <1>2. Len(encode(kind, 0, 0)) \in Nat
    BY DEF encode
  <1> QED
    BY <1>1, <1>2 DEF Airtime

\* A window that has run out admits any packet: alone in it, a packet may exceed the budget
\* (refresh, can_reserve).
LEMMA FreshWindowAdmits ==
    ASSUME NEW airtime \in Nat, NEW lim, lim.age >= window_ms
    PROVE  can_reserve(refresh(lim), airtime)
  <1>1. refresh(lim) = [age |-> 0, used |-> 0]
    BY DEF refresh
  <1>2. budget_ms \in Int
    BY LoraNumbers DEF budget_ms
  <1> QED
    BY <1>1, <1>2 DEF can_reserve

\* Refreshing the window keeps its type.
LEMMA RefreshTyped ==
    ASSUME WaitCovers
    PROVE  refresh(limiter) \in [age : 0 .. window_ms, used : Nat]
  <1>1. window_ms \in Nat
    BY LoraNumbers
  <1> QED
    BY <1>1 DEF WaitCovers, refresh

\* Every step of sender, receiver and clock keeps the wait long enough.
LEMMA WaitStep == WaitCovers /\ [LoraNext]_loraVars => WaitCovers'
  <1> SUFFICES ASSUME WaitCovers, [LoraNext]_loraVars PROVE WaitCovers'
    OBVIOUS
  <1>0. window_ms \in Nat
    BY LoraNumbers
  <1>1. ASSUME NEW kind \in Kinds, Offer(kind) PROVE WaitCovers'
    BY <1>1 DEF Offer, WaitCovers
  <1>2. CASE Reserve
    <2> DEFINE lim == refresh(limiter)
    <2>1. lim \in [age : 0 .. window_ms, used : Nat]
      BY RefreshTyped
    <2>2. want \in Kinds /\ sleep = 0
      BY <1>2 DEF Reserve, WaitCovers
    <2>3. Airtime(want) \in Nat
      BY <2>2, AirtimeIsNat
    <2>4. CASE can_reserve(lim, Airtime(want))
      <3>1. /\ limiter' = [lim EXCEPT !.used = @ + Airtime(want)]
            /\ want' = None /\ sleep' = sleep /\ refusals' = refusals
        BY <1>2, <2>4 DEF Reserve
      <3> DEFINE sum == lim.used + Airtime(want)
      <3>2. sum \in Nat
        BY <2>1, <2>3
      <3>3. limiter' = [lim EXCEPT !.used = sum]
        BY <3>1
      <3> HIDE DEF lim, sum
      <3>4. limiter' \in [age : 0 .. window_ms, used : Nat]
        BY <2>1, <3>2, <3>3
      <3> QED
        BY <3>1, <3>4 DEF WaitCovers
    <2>5. CASE ~can_reserve(lim, Airtime(want))
      <3>1. /\ limiter' = lim /\ sleep' = window_ms - lim.age
            /\ refusals' = refusals + 1 /\ want' = want
        BY <1>2, <2>5 DEF Reserve, wait_ms
      <3>2. ~(limiter.age >= window_ms)
        BY <2>3, <2>5, FreshWindowAdmits
      <3>3. refusals = 0
        BY <1>0, <2>2, <3>2, <1>2 DEF WaitCovers, Reserve
      <3> HIDE DEF lim
      <3> QED
        BY <1>0, <2>1, <2>2, <3>1, <3>3 DEF WaitCovers
    <2> QED
      BY <2>4, <2>5
  <1>3. CASE Elapse
    <2> DEFINE age == IF limiter.age < window_ms THEN limiter.age + 1 ELSE limiter.age
    <2>1. /\ limiter' = [limiter EXCEPT !.age = age]
          /\ sleep' = IF sleep > 0 THEN sleep - 1 ELSE 0
          /\ want' = want /\ refusals' = refusals
      BY <1>3 DEF Elapse
    <2>2. age \in 0 .. window_ms
      BY <1>0 DEF WaitCovers
    <2>3. limiter' \in [age : 0 .. window_ms, used : Nat] /\ limiter'.age = age
      BY <2>1, <2>2 DEF WaitCovers
    <2>4. sleep' \in Nat
      BY <2>1 DEF WaitCovers
    <2>5. refusals = 1 /\ want # None => sleep' + age >= window_ms
      BY <1>0, <2>1 DEF WaitCovers
    <2> QED
      BY <2>1, <2>3, <2>4, <2>5 DEF WaitCovers
  <1>4. CASE Hear \/ Miss
    BY <1>4 DEF Hear, Miss, FrameEnds, WaitCovers
  <1>5. CASE UNCHANGED loraVars
    BY <1>5 DEF loraVars, WaitCovers
  <1> QED
    BY <1>1, <1>2, <1>3, <1>4, <1>5 DEF LoraNext

\* For any airtime, duty window and packets, a driver that was told to wait and has waited
\* is not refused again (the airtime budget of lora.rs).
THEOREM WaitIsEnough == LoraSpec => []OneWaitSuffices
  <1>1. LoraInit => WaitCovers
    BY LoraNumbers DEF LoraInit, WaitCovers
  <1>2. WaitCovers => OneWaitSuffices
    BY DEF WaitCovers, OneWaitSuffices
  <1> QED
    BY <1>1, <1>2, WaitStep, PTL DEF LoraSpec

\* Sequence values of split packets.
Values4 == 0 .. Sequences4 - 1
\* Packets sent so far; the last stands for all later ones.
PacketIds == 0 .. Sequences4

\* From sequence value b on to sequence value a, once round when they are equal.
Gap(a, b) == IF a > b THEN a - b ELSE (a - b) + Sequences4

\* The airtime of n split packets.
Spent(n) == (2 * FrameAir) * n

\* The second frame of a split packet, when the first is off the air.
SecondHalf(id, q) == <<[sequence |-> q, split |-> TRUE, payload |-> <<<<id, "second">>>>]>>

\* What may be on the air when `next` is the next sequence value.
AirOK(frames, next) ==
    \/ frames = <<>>
    \/ \E id \in PacketIds, q \in Values4 : frames = encode("short", id, q)
    \/ \E id \in PacketIds, q \in Values4 :
          /\ frames = encode("long", id, q) \/ frames = SecondHalf(id, q)
          /\ next = (q + 1) % Sequences4

\* The time the split packets after the one of sequence value q have taken so far.
Since(frames, next, remaining, q) ==
    IF frames = <<>> \/ ~Head(frames).split THEN Spent(Gap(next, q) - 1)
    ELSE (Spent(Gap(Head(frames).sequence, q) - 1)
            + (IF Len(frames) = 2 THEN FrameAir ELSE 2 * FrameAir)) - remaining

\* Payloads of one frame of a split packet.
HalfPayloads == {<<<<id, part>>>> : id \in PacketIds, part \in {"first", "second"}}

\* What the receiver keeps of a split packet it has heard one frame of.
PendingHalf ==
    [sequence : Values4, first : HalfPayloads, left : 0 .. split_timeout_ms]

\* A pending half is the first one of the packet on the air, or has aged by the time the
\* packets after its own have taken.
PendingOK(half, frames, next, remaining) ==
    /\ half \in PendingHalf
    /\ \/ \E id \in PacketIds : /\ frames = SecondHalf(id, half.sequence)
                                /\ half.first = <<<<id, "first">>>>
       \/ half.left = 0
       \/ half.left + Since(frames, next, remaining, half.sequence) <= split_timeout_ms

\* Why halves of two packets never join: by the time a sequence value comes round again,
\* the half that is pending under it has expired.
HalvesAge ==
    /\ packet \in PacketIds
    /\ sequence \in Values4
    /\ left \in 0 .. FrameAir
    /\ want = None \/ want \in Kinds
    /\ AirOK(air, sequence)
    /\ pending = None \/ PendingOK(pending, air, sequence, left)
    /\ ReassembledWasSent

---------------------------------------------------------------------------
\* Airtime of split packets adds up, and all sequence values take the split timeout.
LEMMA SpentSums ==
    /\ Spent(0) = 0
    /\ \A n \in Nat : Spent(n) \in Nat /\ Spent(n + 1) = Spent(n) + 2 * FrameAir
    /\ Spent(Sequences4 - 1) + FrameAir >= split_timeout_ms
  <1>1. FrameAir \in Nat /\ Sequences4 \in Nat /\ Sequences4 > 0 /\ split_timeout_ms \in Nat
    BY LoraNumbers
  <1>2. ASSUME NEW f \in Nat, NEW n \in Nat
        PROVE  /\ (2 * f) * n \in Nat
               /\ (2 * f) * (n + 1) = (2 * f) * n + 2 * f
               /\ (2 * f) * 0 = 0
    OBVIOUS
  <1>3. ASSUME NEW f \in Nat, NEW n \in Nat
        PROVE  (2 * f) * (n - 1) + f = (2 * n - 1) * f
    OBVIOUS
  <1> QED
    BY <1>1, <1>2, <1>3, RoundAssumption DEF Spent

\* A sequence value comes round after all the others.
LEMMA GapRange ==
    ASSUME NEW a \in Values4, NEW b \in Values4
    PROVE  Gap(a, b) \in 1 .. Sequences4 /\ (Gap(a, b) = Sequences4 <=> a = b)
  BY LoraNumbers DEF Gap, Values4

\* The sequence counter wraps at its width.
LEMMA NextValue ==
    ASSUME NEW a \in Values4
    PROVE  /\ (a + 1) % Sequences4 = IF a + 1 = Sequences4 THEN 0 ELSE a + 1
           /\ (a + 1) % Sequences4 \in Values4
  <1>1. Sequences4 \in Nat /\ Sequences4 > 0 /\ a \in Nat /\ a < Sequences4
    BY LoraNumbers DEF Values4
  <1>2. ASSUME NEW m \in Nat, m > 0, NEW i \in Nat, i < m PROVE i % m = i
    BY <1>2
  <1>3. ASSUME NEW m \in Nat, m > 0 PROVE m % m = 0
    BY <1>3
  <1> QED
    BY <1>1, <1>2, <1>3 DEF Values4

\* One packet more is one value further on.
LEMMA GapNext ==
    ASSUME NEW a \in Values4, NEW b \in Values4
    PROVE  Gap((a + 1) % Sequences4, b) - 1 = IF a = b THEN 0 ELSE Gap(a, b)
  <1>1. /\ Sequences4 \in Nat /\ Sequences4 > 0
        /\ a \in Nat /\ a < Sequences4 /\ b \in Nat /\ b < Sequences4
    BY LoraNumbers DEF Values4
  <1> QED
  BY <1>1, NextValue DEF Gap

\* The rest of two frames.
LEMMA TailOfPair == ASSUME NEW a, NEW b PROVE Tail(<<a, b>>) = <<b>>
  <1> DEFINE S == {a, b}
  <1>1. <<a, b>> \in Seq(S) /\ <<b>> \in Seq(S) /\ Len(<<a, b>>) = 2 /\ Len(<<b>>) = 1
    OBVIOUS
  <1>2. Tail(<<a, b>>) \in Seq(S) /\ Len(Tail(<<a, b>>)) = 1 /\ Tail(<<a, b>>)[1] = b
    BY <1>1
  <1> QED
    BY <1>1, <1>2, SeqEqual

\* Two payloads, joined.
LEMMA PairConcat == ASSUME NEW a, NEW b PROVE <<a>> \o <<b>> = <<a, b>>
  <1> DEFINE S == {a, b}
  <1>1. /\ <<a, b>> \in Seq(S) /\ <<a>> \in Seq(S) /\ <<b>> \in Seq(S)
        /\ Len(<<a, b>>) = 2 /\ Len(<<a>>) = 1 /\ Len(<<b>>) = 1
    OBVIOUS
  <1> DEFINE both == <<a>> \o <<b>>
             pair == <<a, b>>
  <1>2. both \in Seq(S) /\ Len(both) = 2 /\ both[1] = a /\ both[2] = b
    BY <1>1
  <1>3. pair \in Seq(S) /\ Len(pair) = 2 /\ pair[1] = a /\ pair[2] = b
    BY <1>1
  <1> HIDE DEF both, pair, S
  <1>4. both = pair
    BY <1>2, <1>3, SeqEqual
  <1> QED
    BY <1>4 DEF both, pair

\* A short packet is one frame that is not split.
LEMMA ShortFrames ==
    ASSUME NEW id, NEW q
    PROVE  /\ encode("short", id, q) # <<>> /\ Len(encode("short", id, q)) = 1
           /\ Tail(encode("short", id, q)) = <<>>
           /\ ~Head(encode("short", id, q)).split
           /\ Head(encode("short", id, q)).payload = <<<<id, "all">>>>
  BY DEF encode

\* A long one is two frames of its sequence value.
LEMMA LongFrames ==
    ASSUME NEW id, NEW q
    PROVE  /\ encode("long", id, q) # <<>> /\ Len(encode("long", id, q)) = 2
           /\ Tail(encode("long", id, q)) = SecondHalf(id, q)
           /\ Head(encode("long", id, q)).split
           /\ Head(encode("long", id, q)).sequence = q
           /\ Head(encode("long", id, q)).payload = <<<<id, "first">>>>
  <1> DEFINE one == [sequence |-> q, split |-> TRUE, payload |-> <<<<id, "first">>>>]
             two == [sequence |-> q, split |-> TRUE, payload |-> <<<<id, "second">>>>]
  <1>1. encode("long", id, q) = <<one, two>> /\ SecondHalf(id, q) = <<two>>
    BY DEF encode, SecondHalf
  <1>2. one.split /\ one.sequence = q /\ one.payload = <<<<id, "first">>>>
    OBVIOUS
  <1> HIDE DEF one, two
  <1>3. <<one, two>> # <<>> /\ Len(<<one, two>>) = 2 /\ Head(<<one, two>>) = one
    OBVIOUS
  <1> QED
    BY Zenon, <1>1, <1>2, <1>3, TailOfPair

\* Its second frame alone.
LEMMA SecondFrame ==
    ASSUME NEW id, NEW q
    PROVE  /\ SecondHalf(id, q) # <<>> /\ Len(SecondHalf(id, q)) = 1
           /\ Tail(SecondHalf(id, q)) = <<>>
           /\ Head(SecondHalf(id, q)).split
           /\ Head(SecondHalf(id, q)).sequence = q
           /\ Head(SecondHalf(id, q)).payload = <<<<id, "second">>>>
  BY DEF SecondHalf

\* Halves of one packet are that packet.
LEMMA HalvesJoin ==
    ASSUME NEW id
    PROVE  <<<<id, "first">>>> \o <<<<id, "second">>>> = <<<<id, "first">>, <<id, "second">>>>
  BY PairConcat

\* What has passed since a half of sequence value b was heard, by what is on the air.
LEMMA SinceIdle ==
    ASSUME NEW next, NEW remaining, NEW b
    PROVE  Since(<<>>, next, remaining, b) = Spent(Gap(next, b) - 1)
  BY DEF Since

\* The same while a short packet is on the air,
LEMMA SinceShort ==
    ASSUME NEW next, NEW remaining, NEW b, NEW id, NEW a
    PROVE  Since(encode("short", id, a), next, remaining, b) = Spent(Gap(next, b) - 1)
  BY ShortFrames DEF Since

\* while the first frame of a split packet is,
LEMMA SinceLong ==
    ASSUME NEW next, NEW remaining, NEW b, NEW id, NEW a
    PROVE  Since(encode("long", id, a), next, remaining, b)
             = (Spent(Gap(a, b) - 1) + FrameAir) - remaining
  BY LongFrames DEF Since

\* and while its second one is.
LEMMA SinceSecond ==
    ASSUME NEW next, NEW remaining, NEW b, NEW id, NEW a
    PROVE  Since(SecondHalf(id, a), next, remaining, b)
             = (Spent(Gap(a, b) - 1) + 2 * FrameAir) - remaining
  <1>1. /\ SecondHalf(id, a) # <<>> /\ Head(SecondHalf(id, a)).split
        /\ Head(SecondHalf(id, a)).sequence = a /\ Len(SecondHalf(id, a)) # 2
    BY SecondFrame
  <1> QED
    BY <1>1 DEF Since

\* Reserve, and waiting, do not make a pending half any younger.
LEMMA PendingReserved ==
    ASSUME NEW half, NEW next \in Values4, NEW remaining, PendingOK(half, <<>>, next, remaining),
           NEW id \in PacketIds
    PROVE  /\ PendingOK(half, encode("short", id, next), next, FrameAir)
           /\ PendingOK(half, encode("long", id, next), (next + 1) % Sequences4, FrameAir)
  <1>1. /\ half \in PendingHalf
        /\ \/ half.left = 0
           \/ half.left + Since(<<>>, next, remaining, half.sequence) <= split_timeout_ms
    BY SecondFrame DEF PendingOK
  <1>2. half.sequence \in Values4
    BY <1>1 DEF PendingHalf
  <1>3. Gap(next, half.sequence) - 1 \in Nat
    BY <1>2, GapRange
  <1>4. Spent(Gap(next, half.sequence) - 1) \in Nat
    BY <1>3, SpentSums
  <1>5. Since(<<>>, next, remaining, half.sequence) = Spent(Gap(next, half.sequence) - 1)
    BY SinceIdle
  <1>6. Since(encode("short", id, next), next, FrameAir, half.sequence)
          = Spent(Gap(next, half.sequence) - 1)
    BY SinceShort
  <1>7. Since(encode("long", id, next), (next + 1) % Sequences4, FrameAir, half.sequence)
          = (Spent(Gap(next, half.sequence) - 1) + FrameAir) - FrameAir
    BY SinceLong
  <1>8. FrameAir \in Nat
    BY LoraNumbers
  <1>9. Since(encode("long", id, next), (next + 1) % Sequences4, FrameAir, half.sequence)
          = Spent(Gap(next, half.sequence) - 1)
    BY <1>4, <1>7, <1>8
  <1> QED
    BY <1>1, <1>5, <1>6, <1>9 DEF PendingOK

\* The age of a half and the frame on the air move together: what has passed grows by one
\* while a split packet is sent, and not at all otherwise.
LEMMA SinceElapsed ==
    ASSUME NEW b \in Values4, NEW next \in Values4, NEW frames, AirOK(frames, next),
           NEW remaining \in 0 .. FrameAir, frames # <<>> => remaining > 0,
           NEW r, r = IF remaining > 0 THEN remaining - 1 ELSE 0
    PROVE  /\ Since(frames, next, r, b) \in Int
           /\ Since(frames, next, remaining, b) \in Int
           /\ Since(frames, next, r, b) <= Since(frames, next, remaining, b) + 1
  <1>0. FrameAir \in Nat /\ remaining \in Int /\ r \in Int
    BY LoraNumbers
  <1>1. \A a \in Values4 : Spent(Gap(a, b) - 1) \in Nat
    <2>1. \A a \in Values4 : Gap(a, b) - 1 \in Nat
      BY GapRange
    <2> QED
      BY <2>1, SpentSums
  <1>2. CASE frames = <<>>
    BY <1>1, <1>2, SinceIdle
  <1>3. ASSUME NEW id \in PacketIds, NEW q \in Values4, frames = encode("short", id, q)
        PROVE  /\ Since(frames, next, r, b) = Spent(Gap(next, b) - 1)
               /\ Since(frames, next, remaining, b) = Spent(Gap(next, b) - 1)
    BY <1>3, SinceShort
  <1>4. ASSUME NEW id \in PacketIds, NEW q \in Values4, frames = encode("long", id, q)
        PROVE  /\ Since(frames, next, r, b) = (Spent(Gap(q, b) - 1) + FrameAir) - r
               /\ Since(frames, next, remaining, b) = (Spent(Gap(q, b) - 1) + FrameAir) - remaining
               /\ r = remaining - 1
    <2>1. frames # <<>>
      BY <1>4, LongFrames
    <2> QED
      BY <1>4, <2>1, SinceLong
  <1>5. ASSUME NEW id \in PacketIds, NEW q \in Values4, frames = SecondHalf(id, q)
        PROVE  /\ Since(frames, next, r, b) = (Spent(Gap(q, b) - 1) + 2 * FrameAir) - r
               /\ Since(frames, next, remaining, b)
                    = (Spent(Gap(q, b) - 1) + 2 * FrameAir) - remaining
               /\ r = remaining - 1
    <2>1. frames # <<>>
      BY <1>5, SecondFrame
    <2> QED
      BY <1>5, <2>1, SinceSecond
  <1>6. CASE \E id \in PacketIds, q \in Values4 : frames = encode("short", id, q)
    BY <1>1, <1>3, <1>6
  <1>7. CASE \E id \in PacketIds, q \in Values4 : frames = encode("long", id, q)
    <2>1. PICK id \in PacketIds, q \in Values4 : frames = encode("long", id, q)
      BY <1>7
    <2> QED
      BY <1>0, <1>1, <1>4, <2>1
  <1>8. CASE \E id \in PacketIds, q \in Values4 : frames = SecondHalf(id, q)
    <2>1. PICK id \in PacketIds, q \in Values4 : frames = SecondHalf(id, q)
      BY <1>8
    <2> QED
      BY <1>0, <1>1, <1>5, <2>1
  <1> QED
    BY <1>2, <1>6, <1>7, <1>8 DEF AirOK

\* A pending half ages with the clock until it expires.
LEMMA PendingElapsed ==
    ASSUME NEW half, NEW next \in Values4, NEW frames, AirOK(frames, next),
           NEW remaining \in 0 .. FrameAir,
           PendingOK(half, frames, next, remaining), frames # <<>> => remaining > 0,
           NEW later, later = IF half.left = 0 THEN half ELSE [half EXCEPT !.left = @ - 1],
           NEW r, r = IF remaining > 0 THEN remaining - 1 ELSE 0
    PROVE  PendingOK(later, frames, next, r)
  <1>1. half \in PendingHalf /\ half.sequence \in Values4 /\ half.left \in 0 .. split_timeout_ms
    BY DEF PendingOK, PendingHalf
  <1>2. CASE half.left = 0
    BY <1>1, <1>2 DEF PendingOK
  <1>3. CASE half.left # 0
    <2> DEFINE l == half.left - 1
    <2>1. later = [half EXCEPT !.left = l]
      BY <1>3
    <2>2. l \in 0 .. split_timeout_ms
      BY <1>1, <1>3, LoraNumbers
    <2> HIDE DEF l
    <2>3. /\ later \in PendingHalf /\ later.sequence = half.sequence /\ later.first = half.first
          /\ later.left = l
      BY <1>1, <2>1, <2>2 DEF PendingHalf
    <2>4. CASE \E id \in PacketIds : /\ frames = SecondHalf(id, half.sequence)
                                     /\ half.first = <<<<id, "first">>>>
      BY <2>3, <2>4 DEF PendingOK
    <2>5. CASE half.left + Since(frames, next, remaining, half.sequence) <= split_timeout_ms
      <3>1. /\ Since(frames, next, r, half.sequence) \in Int
            /\ Since(frames, next, remaining, half.sequence) \in Int
            /\ Since(frames, next, r, half.sequence)
                 <= Since(frames, next, remaining, half.sequence) + 1
        BY <1>1, SinceElapsed
      <3>2. split_timeout_ms \in Int
        BY LoraNumbers
      <3>3. l + Since(frames, next, r, half.sequence) <= split_timeout_ms
        BY <1>1, <2>5, <3>1, <3>2 DEF l
      <3> QED
        BY <2>3, <3>3 DEF PendingOK
    <2> QED
      BY <1>3, <2>4, <2>5 DEF PendingOK
  <1> QED
    BY <1>2, <1>3

\* A frame that ends on the air, and was not heard, leaves the pending half as old as the
\* packets after its own were long.
LEMMA PendingMissed ==
    ASSUME NEW half, NEW next \in Values4, NEW frames, AirOK(frames, next), frames # <<>>,
           PendingOK(half, frames, next, 0),
           NEW r, r = IF Len(frames) > 1 THEN FrameAir ELSE 0
    PROVE  PendingOK(half, Tail(frames), next, r)
  <1> DEFINE b == half.sequence
  <1>0. FrameAir \in Nat /\ split_timeout_ms \in Nat
    BY LoraNumbers
  <1>1. half \in PendingHalf /\ b \in Values4 /\ half.left \in 0 .. split_timeout_ms
    BY DEF PendingOK, PendingHalf
  <1>2. CASE half.left = 0
    BY <1>1, <1>2 DEF PendingOK
  <1>3. ASSUME half.left # 0, NEW id \in PacketIds, NEW q \in Values4,
               frames = encode("short", id, q)
        PROVE  PendingOK(half, Tail(frames), next, r)
    <2>1. half.left + Since(frames, next, 0, b) <= split_timeout_ms
      <3>1. \A i \in PacketIds : frames # SecondHalf(i, b)
        BY <1>3, ShortFrames, SecondFrame
      <3> QED
        BY <1>3, <3>1 DEF PendingOK
    <2>2. Since(frames, next, 0, b) = Since(Tail(frames), next, r, b)
      <3>1. Since(frames, next, 0, b) = Spent(Gap(next, b) - 1) /\ Tail(frames) = <<>>
        BY <1>3, ShortFrames, SinceShort, Zenon
      <3>2. Since(<<>>, next, r, b) = Spent(Gap(next, b) - 1)
        BY SinceIdle, Zenon
      <3> QED
        BY <3>1, <3>2, Zenon
    <2> QED
      BY <1>1, <2>1, <2>2 DEF PendingOK
  <1>4. ASSUME half.left # 0, NEW id \in PacketIds, NEW q \in Values4,
               frames = encode("long", id, q)
        PROVE  PendingOK(half, Tail(frames), next, r)
    <2>1. half.left + Since(frames, next, 0, b) <= split_timeout_ms
      <3>1. \A i \in PacketIds : frames # SecondHalf(i, b)
        BY <1>4, LongFrames, SecondFrame
      <3> QED
        BY <1>4, <3>1 DEF PendingOK
    <2>2. Tail(frames) = SecondHalf(id, q) /\ r = FrameAir
      BY <1>4, LongFrames
    <2>3. Since(frames, next, 0, b) = (Spent(Gap(q, b) - 1) + FrameAir) - 0
      BY <1>4, SinceLong
    <2>4. Since(Tail(frames), next, r, b) = (Spent(Gap(q, b) - 1) + 2 * FrameAir) - FrameAir
      <3>1. Since(SecondHalf(id, q), next, r, b) = (Spent(Gap(q, b) - 1) + 2 * FrameAir) - r
        BY SinceSecond
      <3> QED
        BY Zenon, <2>2, <3>1
    <2>5. Gap(q, b) - 1 \in Nat
      BY <1>1, GapRange
    <2>6. Spent(Gap(q, b) - 1) \in Nat
      BY <2>5, SpentSums
    <2>7. Since(frames, next, 0, b) = Since(Tail(frames), next, r, b)
      BY <1>0, <2>3, <2>4, <2>6
    <2> QED
      BY <1>1, <2>1, <2>7 DEF PendingOK
  <1>5. ASSUME half.left # 0, NEW id \in PacketIds, NEW q \in Values4,
               frames = SecondHalf(id, q), next = (q + 1) % Sequences4
        PROVE  PendingOK(half, Tail(frames), next, r)
    <2>1. Tail(frames) = <<>> /\ r = 0
      <3>1. Tail(frames) = <<>> /\ Len(frames) = 1
        BY <1>5, SecondFrame
      <3> QED
        BY <3>1
    <2>2. Since(Tail(frames), next, r, b) = Spent(Gap(next, b) - 1)
      BY Zenon, <2>1, SinceIdle
    <2>3. CASE q = b
      <3>1. Gap(next, b) - 1 = 0
        BY Zenon, <1>1, <1>5, <2>3, GapNext
      <3>2. Since(Tail(frames), next, r, b) = 0
        BY <2>2, <3>1, SpentSums
      <3>3. half.left + Since(Tail(frames), next, r, b) <= split_timeout_ms
        BY <1>0, <1>1, <3>2
      <3> QED
        BY <1>1, <3>3 DEF PendingOK
    <2>4. CASE q # b
      <3>1. half.left + Since(frames, next, 0, b) <= split_timeout_ms
        <4>1. \A i \in PacketIds : frames # SecondHalf(i, b)
          BY <1>5, <2>4, SecondFrame
        <4> QED
          BY <1>5, <4>1 DEF PendingOK
      <3>2. Since(frames, next, 0, b) = (Spent(Gap(q, b) - 1) + 2 * FrameAir) - 0
        BY <1>5, SinceSecond
      <3> DEFINE n == Gap(q, b) - 1
      <3>3. Gap(next, b) - 1 = Gap(q, b)
        BY Zenon, <1>1, <1>5, <2>4, GapNext
      <3>4. n \in Nat /\ Gap(next, b) - 1 = n + 1
        BY <1>1, <3>3, GapRange
      <3>5. Spent(n) \in Nat /\ Spent(Gap(next, b) - 1) = Spent(n) + 2 * FrameAir
        BY <3>4, SpentSums
      <3> HIDE DEF n
      <3>6. Since(frames, next, 0, b) = Since(Tail(frames), next, r, b)
        BY <1>0, <2>2, <3>2, <3>5 DEF n
      <3> QED
        BY <1>1, <3>1, <3>6 DEF PendingOK
    <2> QED
      BY <2>3, <2>4
  <1> QED
    BY <1>2, <1>3, <1>4, <1>5 DEF AirOK

\* A half of an earlier packet has expired when a frame of its sequence value is heard.
LEMMA SameValueExpired ==
    ASSUME NEW half, NEW next \in Values4, NEW frames, NEW id \in PacketIds,
           PendingOK(half, frames, next, 0),
           \/ frames = encode("long", id, half.sequence)
           \/ frames = SecondHalf(id, half.sequence) /\ half.first # <<<<id, "first">>>>
    PROVE  half.left = 0
  <1> DEFINE b == half.sequence
  <1>0. FrameAir \in Nat /\ split_timeout_ms \in Nat
    BY LoraNumbers
  <1>1. half \in PendingHalf /\ b \in Values4 /\ half.left \in 0 .. split_timeout_ms
    BY DEF PendingOK, PendingHalf
  <1>2. \A i \in PacketIds : ~(frames = SecondHalf(i, b) /\ half.first = <<<<i, "first">>>>)
    <2>1. ASSUME NEW i, SecondHalf(i, b) = SecondHalf(id, b) PROVE i = id
      BY <2>1 DEF SecondHalf
    <2>2. \A i : SecondHalf(i, b) # encode("long", id, b)
      BY LongFrames, SecondFrame
    <2> QED
      BY <2>1, <2>2
  <1>3. Gap(b, b) = Sequences4
    BY <1>1, GapRange
  <1>4. /\ Since(encode("long", id, b), next, 0, b) = (Spent(Sequences4 - 1) + FrameAir) - 0
        /\ Since(SecondHalf(id, b), next, 0, b) = (Spent(Sequences4 - 1) + 2 * FrameAir) - 0
    BY <1>3, SinceLong, SinceSecond
  <1>5. Spent(Sequences4 - 1) \in Nat /\ Spent(Sequences4 - 1) + FrameAir >= split_timeout_ms
    <2>1. Sequences4 - 1 \in Nat
      BY LoraNumbers
    <2> QED
      BY <2>1, SpentSums
  <1>6. Since(frames, next, 0, b) \in Int /\ Since(frames, next, 0, b) >= split_timeout_ms
    BY <1>0, <1>4, <1>5
  <1> QED
    BY <1>0, <1>1, <1>2, <1>6 DEF PendingOK

\* What is left on the air when a frame ends.
LEMMA AirAfterFrame ==
    ASSUME NEW next \in Values4, NEW frames, AirOK(frames, next), frames # <<>>
    PROVE  AirOK(Tail(frames), next)
  BY ShortFrames, LongFrames, SecondFrame DEF AirOK

\* Sender's side of a frame that ends.
LEMMA FrameEnded ==
    ASSUME HalvesAge, FrameEnds
    PROVE  /\ packet' \in PacketIds /\ sequence' \in Values4 /\ left' \in 0 .. FrameAir
           /\ want' = None \/ want' \in Kinds
           /\ AirOK(air', sequence')
           /\ pending # None => PendingOK(pending, air', sequence', left')
  <1>1. /\ air' = Tail(air) /\ sequence' = sequence /\ packet' = packet /\ want' = want
        /\ left = 0 /\ air # <<>>
        /\ left' = IF Len(air) > 1 THEN FrameAir ELSE 0
    BY DEF FrameEnds
  <1>2. FrameAir \in Nat
    BY LoraNumbers
  <1>3. sequence \in Values4 /\ AirOK(air, sequence) /\ packet \in PacketIds
        /\ (want = None \/ want \in Kinds)
    BY DEF HalvesAge
  <1>4. AirOK(air', sequence')
    BY <1>1, <1>3, AirAfterFrame
  <1>5. pending # None => PendingOK(pending, air', sequence', left')
    BY <1>1, <1>3, PendingMissed DEF HalvesAge
  <1>6. left' \in 0 .. FrameAir
    BY <1>1, <1>2
  <1> QED
    BY <1>1, <1>3, <1>4, <1>5, <1>6

\* A half heard becomes pending with its whole time, whether it is a first or a second one.
LEMMA HalfHeard ==
    ASSUME NEW id \in PacketIds, NEW q \in Values4, NEW next, next = (q + 1) % Sequences4,
           NEW half
    PROVE  /\ half = [sequence |-> q, first |-> <<<<id, "first">>>>, left |-> split_timeout_ms]
                => PendingOK(half, SecondHalf(id, q), next, FrameAir)
           /\ half = [sequence |-> q, first |-> <<<<id, "second">>>>, left |-> split_timeout_ms]
                => PendingOK(half, <<>>, next, 0)
  <1>0. split_timeout_ms \in Nat
    BY LoraNumbers
  <1>1. ASSUME NEW part \in {"first", "second"},
               half = [sequence |-> q, first |-> <<<<id, part>>>>, left |-> split_timeout_ms]
        PROVE  /\ half \in PendingHalf /\ half.sequence = q /\ half.left = split_timeout_ms
               /\ half.first = <<<<id, part>>>>
    <2>1. <<<<id, part>>>> \in HalfPayloads
      BY DEF HalfPayloads
    <2>2. split_timeout_ms \in 0 .. split_timeout_ms
      BY <1>0
    <2> QED
      BY <1>1, <2>1, <2>2 DEF PendingHalf
  <1>2. ASSUME half = [sequence |-> q, first |-> <<<<id, "first">>>>, left |-> split_timeout_ms]
        PROVE  PendingOK(half, SecondHalf(id, q), next, FrameAir)
    <2>1. half \in PendingHalf /\ half.sequence = q /\ half.first = <<<<id, "first">>>>
      BY <1>1, <1>2
    <2> QED
      BY <2>1 DEF PendingOK
  <1>3. ASSUME half = [sequence |-> q, first |-> <<<<id, "second">>>>, left |-> split_timeout_ms]
        PROVE  PendingOK(half, <<>>, next, 0)
    <2>1. half \in PendingHalf /\ half.sequence = q /\ half.left = split_timeout_ms
      BY <1>1, <1>3
    <2>2. Gap(next, q) - 1 = 0
      BY Zenon, GapNext
    <2>3. Since(<<>>, next, 0, q) = 0
      BY <2>2, SinceIdle, SpentSums
    <2>4. half.left + Since(<<>>, next, 0, half.sequence) <= split_timeout_ms
      BY <1>0, <2>1, <2>3
    <2> QED
      BY <2>1, <2>4 DEF PendingOK
  <1> QED
    BY <1>2, <1>3

\* A frame that is heard.
LEMMA HearKeeps ==
    ASSUME HalvesAge, Hear
    PROVE  HalvesAge'
  <1> DEFINE frame == Head(air)
  <1>0. FrameEnds /\ ingest_frame(frame) /\ left = 0 /\ air # <<>> /\ air' = Tail(air)
        /\ sequence' = sequence /\ sequence \in Values4 /\ AirOK(air, sequence)
        /\ left' = IF Len(air) > 1 THEN FrameAir ELSE 0
    BY DEF Hear, FrameEnds, HalvesAge
  <1>1. SUFFICES /\ pending' = None \/ PendingOK(pending', air', sequence', left')
                 /\ ReassembledWasSent'
    BY <1>0, FrameEnded DEF HalvesAge
  <1>2. ASSUME NEW id \in PacketIds, NEW q \in Values4, air = encode("short", id, q)
        PROVE  pending' = None /\ ReassembledWasSent'
    <2>1. ~frame.split /\ frame.payload = <<<<id, "all">>>>
      BY Zenon, <1>2, ShortFrames
    <2>2. output' = <<<<id, "all">>>> /\ pending' = None
      BY Zenon, <1>0, <2>1 DEF ingest_frame
    <2> QED
      BY <2>2 DEF ReassembledWasSent, PacketIds
  <1>3. ASSUME NEW id \in PacketIds, NEW q \in Values4, air = encode("long", id, q),
               sequence = (q + 1) % Sequences4
        PROVE  PendingOK(pending', air', sequence', left') /\ output' = output
    <2>1. /\ frame.split /\ frame.payload = <<<<id, "first">>>> /\ frame.sequence = q
          /\ air' = SecondHalf(id, q) /\ Len(air) = 2
      BY <1>0, <1>3, LongFrames
    <2>2. ~Completes(expire, frame)
      <3>1. pending # None /\ pending.sequence = q => pending.left = 0
        BY Zenon, <1>0, <1>3, SameValueExpired DEF HalvesAge
      <3> QED
        BY <2>1, <3>1 DEF Completes, expire
    <2>3. /\ pending' = [sequence |-> q, first |-> <<<<id, "first">>>>, left |-> split_timeout_ms]
          /\ output' = output
      BY Zenon, <1>0, <2>1, <2>2 DEF ingest_frame
    <2>4. left' = FrameAir
      BY <1>0, <2>1
    <2> QED
      BY Zenon, <1>0, <1>3, <2>1, <2>3, <2>4, HalfHeard
  <1>4. ASSUME NEW id \in PacketIds, NEW q \in Values4, air = SecondHalf(id, q),
               sequence = (q + 1) % Sequences4
        PROVE  /\ pending' = None \/ PendingOK(pending', air', sequence', left')
               /\ ReassembledWasSent'
    <2>1. /\ frame.split /\ frame.payload = <<<<id, "second">>>> /\ frame.sequence = q
          /\ air' = <<>> /\ Len(air) = 1
      BY <1>0, <1>4, SecondFrame
    <2>2. CASE Completes(expire, frame)
      <3>1. expire = pending /\ pending # None /\ pending.sequence = q /\ pending.left # 0
        BY <2>1, <2>2 DEF Completes, expire
      <3>2. pending.first = <<<<id, "first">>>>
        BY Zenon, <1>0, <1>4, <3>1, SameValueExpired DEF HalvesAge
      <3>3. output' = <<<<id, "first">>, <<id, "second">>>> /\ pending' = None
        BY Zenon, <1>0, <2>1, <2>2, <3>1, <3>2, HalvesJoin DEF ingest_frame
      <3> QED
        BY <3>3 DEF ReassembledWasSent, PacketIds
    <2>3. CASE ~Completes(expire, frame)
      <3>1. /\ pending' = [sequence |-> q, first |-> <<<<id, "second">>>>, left |-> split_timeout_ms]
            /\ output' = output
        BY Zenon, <1>0, <2>1, <2>3 DEF ingest_frame
      <3>2. left' = 0
        BY <1>0, <2>1
      <3>3. PendingOK(pending', air', sequence', left')
        BY Zenon, <1>0, <1>4, <2>1, <3>1, <3>2, HalfHeard
      <3> QED
        BY <3>1, <3>3 DEF ReassembledWasSent, HalvesAge
    <2> QED
      BY <2>2, <2>3
  <1> QED
    BY <1>0, <1>2, <1>3, <1>4 DEF AirOK, HalvesAge, ReassembledWasSent

\* A packet reserved.
LEMMA ReserveKeeps ==
    ASSUME HalvesAge, Reserve
    PROVE  HalvesAge'
  <1>0. /\ want \in Kinds /\ air = <<>> /\ packet \in PacketIds /\ sequence \in Values4
        /\ pending' = pending /\ output' = output /\ ReassembledWasSent
        /\ FrameAir \in Nat /\ FrameAir \in 0 .. FrameAir
        /\ pending = None \/ PendingOK(pending, <<>>, sequence, left)
    BY LoraNumbers DEF Reserve, HalvesAge
  <1>1. CASE UNCHANGED <<want, packet, sequence, air, left>>
    BY <1>0, <1>1 DEF HalvesAge, ReassembledWasSent
  <1>2. ASSUME /\ air' = encode(want, packet, sequence)
               /\ left' = FrameAir
               /\ packet' = (packet + 1) % (Sequences4 + 1)
               /\ sequence' = IF want = "long" THEN (sequence + 1) % Sequences4 ELSE sequence
               /\ want' = None
        PROVE  HalvesAge'
    <2>1. packet' \in PacketIds
      BY <1>0, <1>2, LoraNumbers DEF PacketIds
    <2>2. sequence' \in Values4
      BY <1>0, <1>2, NextValue
    <2>3. want = "short" \/ want = "long"
      BY <1>0 DEF Kinds
    <2>4. AirOK(air', sequence')
      BY <1>0, <1>2, <2>3 DEF AirOK
    <2>5. pending' = None \/ PendingOK(pending', air', sequence', left')
      <3>1. pending = None \/ PendingOK(pending, air', sequence', left')
        BY Zenon, <1>0, <1>2, <2>3, PendingReserved
      <3> QED
        BY <1>0, <3>1
    <2> QED
      BY <1>0, <1>2, <2>1, <2>2, <2>4, <2>5 DEF HalvesAge, ReassembledWasSent
  <1> QED
    BY <1>1, <1>2 DEF Reserve

\* Every step.
LEMMA HalvesStep == HalvesAge /\ [LoraNext]_loraVars => HalvesAge'
  <1> SUFFICES ASSUME HalvesAge, [LoraNext]_loraVars PROVE HalvesAge'
    OBVIOUS
  <1>1. ASSUME NEW kind \in Kinds, Offer(kind) PROVE HalvesAge'
    BY <1>1 DEF Offer, HalvesAge, ReassembledWasSent
  <1>2. CASE Reserve
    BY <1>2, ReserveKeeps
  <1>3. CASE Elapse
    <2>1. /\ air # <<>> => left > 0
          /\ left' = IF left > 0 THEN left - 1 ELSE 0
          /\ pending' = IF pending = None \/ pending.left = 0 THEN pending
                        ELSE [pending EXCEPT !.left = @ - 1]
          /\ UNCHANGED <<want, packet, sequence, air, output>>
      BY <1>3 DEF Elapse
    <2>2. sequence \in Values4 /\ AirOK(air, sequence) /\ left \in 0 .. FrameAir
      BY DEF HalvesAge
    <2>3. left' \in 0 .. FrameAir
      BY <2>1, <2>2, LoraNumbers
    <2>4. pending' = None \/ PendingOK(pending', air', sequence', left')
      <3>1. CASE pending = None
        BY <2>1, <3>1
      <3>2. CASE pending # None
        <4>1. PendingOK(pending, air, sequence, left)
          BY <3>2 DEF HalvesAge
        <4>2. pending' = IF pending.left = 0 THEN pending ELSE [pending EXCEPT !.left = @ - 1]
          BY <2>1, <3>2
        <4>3. PendingOK(pending', air, sequence, left')
          BY Zenon, <2>1, <2>2, <4>1, <4>2, PendingElapsed
        <4> QED
          BY <2>1, <4>3
      <3> QED
        BY <3>1, <3>2
    <2> QED
      BY <2>1, <2>3, <2>4 DEF HalvesAge, ReassembledWasSent
  <1>4. CASE Hear
    BY <1>4, HearKeeps
  <1>5. CASE Miss
    BY <1>5, FrameEnded DEF Miss, HalvesAge, ReassembledWasSent
  <1>6. CASE UNCHANGED loraVars
    BY <1>6 DEF loraVars, HalvesAge, ReassembledWasSent
  <1> QED
    BY Zenon, <1>1, <1>2, <1>3, <1>4, <1>5, <1>6 DEF LoraNext

\* For any airtime, timeout and losses under LoraNumbers, what a receiver reassembles is a
\* packet that was sent (the split frames of lora.rs).
THEOREM HalvesBelong == LoraSpec => []ReassembledWasSent
  <1>1. LoraInit => HalvesAge
    BY LoraNumbers DEF LoraInit, HalvesAge, AirOK, PacketIds, Values4, ReassembledWasSent
  <1>2. HalvesAge => ReassembledWasSent
    BY DEF HalvesAge
  <1> QED
    BY <1>1, <1>2, HalvesStep, PTL DEF LoraSpec
=============================================================================
