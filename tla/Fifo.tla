------------------------------- MODULE Fifo -------------------------------
(***************************************************************************)
(* What tables.rs promises of its Queue: a first-in first-out sequence of  *)
(* at most Capacity items that makes room by dropping its oldest item.     *)
(* `answer` is what the last call returned to its caller, as a sequence.   *)
(* RingQueue shows that the ring of slots in the code keeps this promise.  *)
(***************************************************************************)
EXTENDS Naturals, Sequences

CONSTANTS Items, Capacity

VARIABLES queue, answer

fifoVars == <<queue, answer>>

\* The sequence without its element at the (zero-based) offset.
Without(q, offset) ==
    [i \in 1 .. Len(q) - 1 |-> IF i <= offset THEN q[i] ELSE q[i + 1]]

\* Every element of the sequence passed through f.
Each(f, q) == [i \in 1 .. Len(q) |-> f[q[i]]]

FifoInit == queue = <<>> /\ answer = <<>>

FifoPush(v) ==
    /\ queue' = CASE Capacity = 0         -> <<>>
                  [] Len(queue) < Capacity -> Append(queue, v)
                  [] OTHER                 -> Append(Tail(queue), v)
    /\ answer' = <<Capacity # 0 /\ Len(queue) = Capacity>>

FifoPop ==
    /\ queue' = IF queue = <<>> THEN <<>> ELSE Tail(queue)
    /\ answer' = IF queue = <<>> THEN <<>> ELSE <<Head(queue)>>

FifoPeek ==
    /\ answer' = IF queue = <<>> THEN <<>> ELSE <<Head(queue)>>
    /\ UNCHANGED queue

FifoRemove(offset) ==
    IF offset < Len(queue)
      THEN queue' = Without(queue, offset) /\ answer' = <<queue[offset + 1]>>
      ELSE answer' = <<>> /\ UNCHANGED queue

FifoSet(offset, v) ==
    IF offset < Len(queue)
      THEN queue' = [queue EXCEPT ![offset + 1] = v] /\ answer' = <<v>>
      ELSE answer' = <<>> /\ UNCHANGED queue

FifoIterate == answer' = queue /\ UNCHANGED queue

FifoUpdate(f) == queue' = Each(f, queue) /\ answer' = <<>>

FifoClear == queue' = <<>> /\ answer' = <<>>

FifoNext ==
    \/ \E v \in Items : FifoPush(v)
    \/ FifoPop
    \/ FifoPeek
    \/ \E offset \in 0 .. Capacity : FifoRemove(offset)
    \/ \E offset \in 0 .. Capacity, v \in Items : FifoSet(offset, v)
    \/ FifoIterate
    \/ \E f \in [Items -> Items] : FifoUpdate(f)
    \/ FifoClear

FifoSpec == FifoInit /\ [][FifoNext]_fifoVars
===========================================================================
