----------------------------- MODULE RingQueue ----------------------------
(***************************************************************************)
(* The Queue of tables.rs: a ring of Capacity slots with the index of the  *)
(* oldest entry and a length.  Router and endpoint keep their outbound     *)
(* frames in one.  Callers rely on three views of the same slots: by       *)
(* offset from the head, in FIFO order, and, in iter_mut, every occupied   *)
(* slot in physical order, which is right only if no slot outside the live *)
(* range is occupied.                                                      *)
(***************************************************************************)
EXTENDS Options, Naturals, Sequences

CONSTANTS Items, Capacity

ASSUME RingAssumption == Capacity \in Nat /\ None \notin Items

VARIABLES
    entries,    \* slot -> item or None
    head,       \* slot of the oldest entry
    len,        \* number of entries
    answer      \* what the last call returned

ringVars == <<entries, head, len, answer>>

Slots == 0 .. Capacity - 1

\* The slot of the entry at an offset from the head.
At(offset) == (head + offset) % Capacity

\* The entries in FIFO order, as iter() yields them.
Contents == [i \in 1 .. len |-> entries[At(i - 1)]]

RingInit ==
    /\ entries = [s \in Slots |-> None]
    /\ head = 0
    /\ len = 0
    /\ answer = <<>>

\* Mutant: a full ring overwrites the newest entry's successor and keeps its head.
PushKeepsHead(v) ==
    /\ IF Capacity = 0
         THEN UNCHANGED <<entries, head, len>>
         ELSE /\ entries' = [entries EXCEPT ![IF len = Capacity THEN head ELSE At(len)] = v]
              /\ len' = IF len = Capacity THEN len ELSE len + 1
              /\ UNCHANGED head
    /\ answer' = <<Capacity # 0 /\ len = Capacity>>

push_drop_oldest(v) ==
    /\ IF Capacity = 0
         THEN UNCHANGED <<entries, head, len>>
         ELSE IF len = Capacity
         THEN /\ entries' = [entries EXCEPT ![head] = v]
              /\ head' = At(1)
              /\ UNCHANGED len
         ELSE /\ entries' = [entries EXCEPT ![At(len)] = v]
              /\ len' = len + 1
              /\ UNCHANGED head
    /\ answer' = <<Capacity # 0 /\ len = Capacity>>

peek ==
    /\ answer' = IF len = 0 \/ Capacity = 0 THEN <<>> ELSE <<entries[head]>>
    /\ UNCHANGED <<entries, head, len>>

pop ==
    IF len = 0 \/ Capacity = 0
      THEN answer' = <<>> /\ UNCHANGED <<entries, head, len>>
      ELSE /\ answer' = <<entries[head]>>
           /\ entries' = [entries EXCEPT ![head] = None]
           /\ head' = At(1)
           /\ len' = len - 1

\* The entries behind the removed one move one slot towards the head, and the
\* last live slot is left empty.
Shifted(offset) ==
    [s \in Slots |->
        IF \E i \in offset .. len - 2 : s = At(i)
          THEN entries[(s + 1) % Capacity]
          ELSE IF s = At(len - 1) THEN None ELSE entries[s]]

remove(offset) ==
    IF offset >= len \/ Capacity = 0
      THEN answer' = <<>> /\ UNCHANGED <<entries, head, len>>
      ELSE /\ answer' = <<entries[At(offset)]>>
           /\ entries' = Shifted(offset)
           /\ len' = len - 1
           /\ UNCHANGED head

\* get_mut lends the entry at an offset; the caller stores v in it.
get_mut(offset, v) ==
    IF offset >= len \/ Capacity = 0
      THEN answer' = <<>> /\ UNCHANGED <<entries, head, len>>
      ELSE /\ answer' = <<v>>
           /\ entries' = [entries EXCEPT ![At(offset)] = v]
           /\ UNCHANGED <<head, len>>

\* iter yields the live range in order and would skip an empty slot in it.
iter ==
    /\ answer' = IF \A i \in 1 .. len : Contents[i] # None
                   THEN Contents
                   ELSE SelectSeq(Contents, LAMBDA e : e # None)
    /\ UNCHANGED <<entries, head, len>>

\* iter_mut lends every occupied slot; the caller applies f to each.
iter_mut(f) ==
    /\ entries' = [s \in Slots |-> IF entries[s] = None THEN None ELSE f[entries[s]]]
    /\ answer' = <<>>
    /\ UNCHANGED <<head, len>>

clear ==
    /\ entries' = [s \in Slots |-> None]
    /\ head' = 0
    /\ len' = 0
    /\ answer' = <<>>

RingNext ==
    \/ \E v \in Items : push_drop_oldest(v)
    \/ peek
    \/ pop
    \/ \E offset \in 0 .. Capacity : remove(offset)
    \/ \E offset \in 0 .. Capacity, v \in Items : get_mut(offset, v)
    \/ iter
    \/ \E f \in [Items -> Items] : iter_mut(f)
    \/ clear

RingSpec == RingInit /\ [][RingNext]_ringVars

---------------------------------------------------------------------------
\* The ring read from its head is the queue callers are promised.
Promise == INSTANCE Fifo WITH queue <- Contents

\* Every call on the ring of tables.rs leaves the contents, and gives the
\* caller the answer, that a bounded first-in first-out sequence would.
RingImplementsFifo == Promise!FifoSpec

\* The live slots, counted from the head and wrapping, are the occupied ones:
\* what iter_mut, which walks the slots physically, depends on.
RingInv ==
    /\ entries \in [Slots -> Items \cup {None}]
    /\ head \in Nat /\ len \in Nat
    /\ len <= Capacity
    /\ Capacity # 0 => head < Capacity
    /\ \A s \in Slots :
          (entries[s] # None) <=>
              \/ head <= s /\ s < head + len
              \/ s + Capacity < head + len
===========================================================================
