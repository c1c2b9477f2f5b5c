---------------------------- MODULE SeenMessages --------------------------
(***************************************************************************)
(* SeenMessages of proof.rs, the ring of message IDs that suppresses       *)
(* duplicates, with the storage owner it is written for: the owner checks  *)
(* the ring, persists a new message, then inserts its ID, and rebuilds the *)
(* ring from what it stored after a restart.  Writes fail and the node     *)
(* crashes between any two steps.                                          *)
(***************************************************************************)
EXTENDS Options, Integers, Sequences, FiniteSets

CONSTANTS
    Ids,        \* message IDs
    N,          \* capacity of the ring
    MaxStored   \* bound: messages persisted

ASSUME SeenAssumption == N \in Nat \ {0} /\ None \notin Ids /\ MaxStored \in Nat

VARIABLES
    ids,        \* slot (from 0) -> ID
    head, len,
    step,       \* the owner: "ready", "insert" after a successful write, "down",
                \*   "restore" while it rebuilds the ring
    current,    \* the message being accepted
    restored,   \* stored messages already put back by the restart
    persisted   \* durable: messages persisted, in order

seenVars == <<ids, head, len, step, current, restored, persisted>>

EmptyRing ==
    /\ ids = [i \in 0 .. N - 1 |-> None]
    /\ head = 0
    /\ len = 0

SeenInit ==
    /\ EmptyRing
    /\ step = "ready"
    /\ current = None
    /\ restored = 0
    /\ persisted = <<>>

contains(id) == \E i \in 0 .. len - 1 : ids[(head + i) % N] = id

\* Mutant: a full ring overwrites its oldest slot and keeps its head there.
InsertKeepingHead(id) ==
    IF contains(id) THEN UNCHANGED <<ids, head, len>>
    ELSE IF len = N
      THEN /\ ids' = [ids EXCEPT ![head] = id]
           /\ UNCHANGED <<head, len>>
      ELSE /\ ids' = [ids EXCEPT ![(head + len) % N] = id]
           /\ len' = len + 1
           /\ UNCHANGED head

insert_if_new(id) ==
    IF contains(id) THEN UNCHANGED <<ids, head, len>>
    ELSE IF len = N
      THEN /\ ids' = [ids EXCEPT ![head] = id]
           /\ head' = (head + 1) % N
           /\ UNCHANGED len
      ELSE /\ ids' = [ids EXCEPT ![(head + len) % N] = id]
           /\ len' = len + 1
           /\ UNCHANGED head

\* A message that is not retained is written; the write may fail, and then the
\* message is not acknowledged and its sender may try again.
Persist(id) ==
    /\ step = "ready" /\ ~contains(id)
    /\ Len(persisted) < MaxStored
    /\ \/ /\ persisted' = Append(persisted, id)
          /\ step' = "insert"
          /\ current' = id
       \/ UNCHANGED <<persisted, step, current>>
    /\ UNCHANGED <<ids, head, len, restored>>

Insert ==
    /\ step = "insert"
    /\ insert_if_new(current)
    /\ step' = "ready"
    /\ current' = None
    /\ UNCHANGED <<restored, persisted>>

\* Power loss: the ring and the step in progress are gone.
Crash ==
    /\ step # "down"
    /\ ids' = [i \in 0 .. N - 1 |-> None]
    /\ head' = 0 /\ len' = 0
    /\ step' = "down"
    /\ current' = None
    /\ restored' = 0
    /\ UNCHANGED persisted

\* Restart: the last N stored messages go back in, oldest first.
SeenRestart ==
    /\ step = "down"
    /\ step' = "restore"
    /\ restored' = IF Len(persisted) > N THEN Len(persisted) - N ELSE 0
    /\ UNCHANGED <<ids, head, len, current, persisted>>

Restore ==
    /\ step = "restore"
    /\ IF restored < Len(persisted)
         THEN /\ insert_if_new(persisted[restored + 1])
              /\ restored' = restored + 1
              /\ UNCHANGED step
         ELSE /\ step' = "ready"
              /\ UNCHANGED <<ids, head, len, restored>>
    /\ UNCHANGED <<current, persisted>>

SeenNext ==
    \/ \E id \in Ids : Persist(id)
    \/ Insert
    \/ Crash
    \/ SeenRestart
    \/ Restore

SeenSpec == SeenInit /\ [][SeenNext]_seenVars

---------------------------------------------------------------------------
\* A message is stored again only when at least N other messages were stored in
\* between, whatever writes failed and wherever the node crashed; and the ring
\* remembers nothing that was not stored, so a failed write can be retried.
RecentMessagesAreStoredOnce ==
    /\ \A i, j \in DOMAIN persisted : i < j /\ persisted[i] = persisted[j] => j - i > N
    /\ \A i \in 0 .. len - 1 : \E j \in DOMAIN persisted : persisted[j] = ids[(head + i) % N]
===========================================================================
