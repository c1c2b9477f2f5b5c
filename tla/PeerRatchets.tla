---------------------------- MODULE PeerRatchets ----------------------------
(***************************************************************************)
(* The ratchet keys remembered of peers (ratchet.rs): a bounded table,     *)
(* newest first, that the host saves when it likes and restores when it    *)
(* starts. Its reference is the unbounded list of all peers, in the order  *)
(* their keys were learned.                                                *)
(***************************************************************************)
EXTENDS RatchetAges, Subsequences

CONSTANTS
    Peers,      \* destinations
    PeerKeys,   \* ratchets they may announce
    PeersMax,   \* PEER_RATCHETS_MAX
    MaxTime     \* bound: the last real time

ASSUME PeersAssumption ==
    /\ PeersMax \in Nat \ {0}
    /\ MaxTime \in Nat

VARIABLES
    peers,          \* the table
    stored,         \* the blob in durable storage
    time, boot,     \* real time, and when the present boot began
    known,          \* history: every peer's latest key and when it was learned
    stored_known    \* history: known when the table was stored

peerVars == <<peers, stored, time, boot, known, stored_known>>

PeerRatchet(dest, ratchet, age) == [dest |-> dest, ratchet |-> ratchet, age |-> age]

Blob(version, table) == [version |-> version, entries |-> table]

----------------------------------------------------------------------------
Without(table, dest) == Only(table, {i \in DOMAIN table : table[i].dest # dest})

purge_expired(table, clock) ==
    Only(table, {i \in DOMAIN table : ~age_expired(table[i].age, clock)})

\* A full table loses its last entry.
Room(table) == IF Len(table) = PeersMax THEN Only(table, 1 .. PeersMax - 1) ELSE table

Holds(table, dest, ratchet) ==
    \E i \in DOMAIN table : table[i].dest = dest /\ table[i].ratchet = ratchet

\* Mutant: the old key stays.
remembered_beside(table, dest, ratchet, clock) ==
    <<PeerRatchet(dest, ratchet, anchor(clock))>> \o Room(purge_expired(table, clock))

\* The table after a changed key: the peer's old one goes, the new one comes first.
remembered(table, dest, ratchet, clock) ==
    <<PeerRatchet(dest, ratchet, anchor(clock))>>
        \o Room(purge_expired(Without(table, dest), clock))

\* What load_persisted makes of a blob; in a legacy one zero seconds are an unknown age.
load_persisted(blob) ==
    [i \in DOMAIN blob.entries |->
        [blob.entries[i] EXCEPT !.age =
            IF blob.version = 2 THEN restored_age(@)
            ELSE IF @.secs = 0 THEN Unknown
            ELSE [kind |-> "Wall", secs |-> @.secs]]]

----------------------------------------------------------------------------
\* A new table, or a legacy one in storage: its ages are seconds without a kind.
PeerInit ==
    /\ time = 1
    /\ boot = 1
    /\ \E legacy \in {<<>>} \cup {<<PeerRatchet(d, r, [kind |-> "Wall", secs |-> s])>> :
                                      d \in Peers, r \in PeerKeys, s \in {0, 1}} :
         /\ stored = Blob(1, legacy)
         /\ known = [i \in DOMAIN legacy |->
                       [dest |-> legacy[i].dest, ratchet |-> legacy[i].ratchet, at |-> 1]]
    /\ peers = load_persisted(stored)
    /\ stored_known = known

\* A key seen again changes nothing.
remember(dest, ratchet) ==
    /\ ~Holds(peers, dest, ratchet)
    /\ \E clock \in Clocks(time, boot) :
         peers' = remembered(peers, dest, ratchet, clock)
    /\ known' = <<[dest |-> dest, ratchet |-> ratchet, at |-> time]>> \o Without(known, dest)
    /\ UNCHANGED <<stored, time, boot, stored_known>>

anchor_unknown_ages ==
    /\ \E clock \in Clocks(time, boot) :
         peers' = [i \in DOMAIN peers |->
                        [peers[i] EXCEPT !.age = effective_age(@, clock)]]
    /\ UNCHANGED <<stored, time, boot, known, stored_known>>

\* serialize_into and the host's write.
Save ==
    /\ stored' = Blob(2, peers)
    /\ stored_known' = known
    /\ UNCHANGED <<peers, time, boot, known>>

PeerRestart ==
    /\ peers' = load_persisted(stored)
    /\ known' = stored_known
    /\ boot' = time
    /\ UNCHANGED <<stored, time, stored_known>>

Pass ==
    /\ time < MaxTime
    /\ time' = time + 1
    /\ UNCHANGED <<peers, stored, boot, known, stored_known>>

PeerNext ==
    \/ \E dest \in Peers, ratchet \in PeerKeys : remember(dest, ratchet)
    \/ anchor_unknown_ages
    \/ Save
    \/ PeerRestart
    \/ Pass

PeerSpec == PeerInit /\ [][PeerNext]_peerVars

----------------------------------------------------------------------------
\* The key get returns for a peer, as a set of at most one: the first that is not expired.
get(dest, clock) ==
    LET usable == {i \in DOMAIN peers :
                      peers[i].dest = dest /\ ~age_expired(peers[i].age, clock)}
    IN  {peers[i].ratchet : i \in {k \in usable : \A j \in usable : k <= j}}

\* Packets for a peer are encrypted with a key it still has: a lookup never yields a key
\* the peer has replaced (as of the table that was last restored), under every clock, and
\* one of the PeersMax peers whose keys were learned last is looked up with success until
\* its key has really expired, through restarts and clocks that come and go.
PeersStayReachable ==
    \A clock \in Clocks(time, boot) :
        /\ \A d \in Peers : \A r \in get(d, clock) : Holds(known, d, r)
        /\ \A i \in DOMAIN known \cap 1 .. PeersMax :
              time - known[i].at <= ExpirySecs => get(known[i].dest, clock) = {known[i].ratchet}
=============================================================================
