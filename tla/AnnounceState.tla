--------------------------- MODULE AnnounceState ---------------------------
(***************************************************************************)
(* The ordering value of locally created announces (announce_state.rs) and *)
(* the host that owns its durable copy: a value is prepared, stored,       *)
(* committed and emitted, and the host may restart between any two steps.  *)
(***************************************************************************)
EXTENDS Integers

CONSTANTS
    AnnounceTimeMax,    \* ANNOUNCE_TIME_MAX, the last value of the wire field
    WallTimes           \* the wall seconds a host may supply

ASSUME AnnounceAssumption ==
    /\ AnnounceTimeMax \in Nat
    /\ WallTimes \subseteq Nat

VARIABLES
    live,       \* AnnounceWireState::last_value
    prepared,   \* the candidate the host holds
    stored,     \* the serialized state in durable storage
    outgoing,   \* the value committed and not yet emitted
    emitted     \* history: the last value an announce was emitted with

announceVars == <<live, prepared, stored, outgoing, emitted>>

\* None of Option<u64>: below every value, as `is_some_and(|last| now <= last)` treats it.
NoValue == -1

Values == 0 .. AnnounceTimeMax

----------------------------------------------------------------------------
\* The blob keeps the presence flag apart from the value.
serialize_into(value) ==
    [has_last_value |-> value # NoValue,
     last_value |-> IF value = NoValue THEN 0 ELSE value]

\* Mutant: zero read as no value.
deserialize_zero_is_none(blob) ==
    IF blob.last_value # 0 THEN blob.last_value ELSE NoValue

deserialize(blob) ==
    IF blob.has_last_value THEN blob.last_value ELSE NoValue

\* The candidates prepare_next can return: none when it coalesces or is exhausted.
WallCandidates(last) == {now \in WallTimes : now <= AnnounceTimeMax /\ now > last}

LogicalCandidates(last) == {last + 1} \cap Values

----------------------------------------------------------------------------
AnnounceInit ==
    /\ live = NoValue
    /\ prepared = NoValue
    /\ stored = serialize_into(NoValue)
    /\ outgoing = NoValue
    /\ emitted = NoValue

\* The host plans a value, in place of any candidate it has not committed.
prepare_next ==
    /\ prepared' \in WallCandidates(live) \cup LogicalCandidates(live)
    /\ UNCHANGED <<live, stored, outgoing, emitted>>

\* The host's durable write of the candidate, which happens entirely or not at all.
Store ==
    /\ prepared # NoValue
    /\ stored' = serialize_into(prepared)
    /\ UNCHANGED <<live, prepared, outgoing, emitted>>

\* The host commits what it has stored; a candidate that does not advance is refused.
commit_prepared ==
    /\ prepared # NoValue
    /\ stored = serialize_into(prepared)
    /\ prepared > live
    /\ live' = prepared
    /\ outgoing' = prepared
    /\ prepared' = NoValue
    /\ UNCHANGED <<stored, emitted>>

Emit ==
    /\ outgoing # NoValue
    /\ emitted' = outgoing
    /\ outgoing' = NoValue
    /\ UNCHANGED <<live, prepared, stored>>

\* The host loses power and restores the state from its storage.
Restart ==
    /\ live' = deserialize(stored)
    /\ prepared' = NoValue
    /\ outgoing' = NoValue
    /\ UNCHANGED <<stored, emitted>>

AnnounceNext ==
    \/ prepare_next
    \/ Store
    \/ commit_prepared
    \/ Emit
    \/ Restart

AnnounceSpec == AnnounceInit /\ [][AnnounceNext]_announceVars

----------------------------------------------------------------------------
\* Every value is absent or fits the 40-bit wire field, and the blob is one that
\* deserialize accepts: a blob without the flag holds zero.
AnnounceTypeOK ==
    /\ {live, prepared, outgoing, emitted} \subseteq Values \cup {NoValue}
    /\ stored \in [has_last_value : BOOLEAN, last_value : Values]
    /\ ~stored.has_last_value => stored.last_value = 0

\* Every announce carries a larger value than all announces before it, whatever the wall
\* clock says and wherever between prepare, store, commit and emit the host restarts.
AnnouncesAdvance ==
    [][Emit => outgoing > emitted]_announceVars

\* Why restarts are harmless: what was emitted is never ahead of the live state, and the
\* live state is never ahead of the stored one.
StoredBeforeUse ==
    /\ emitted <= live
    /\ outgoing <= live
    /\ outgoing # NoValue => emitted < outgoing
    /\ prepared # NoValue => live < prepared
    /\ live <= deserialize(stored)
=============================================================================
