------------------------- MODULE KnownDestinations ------------------------
(***************************************************************************)
(* known_destinations.rs: the bounded table of delivery keys, its least    *)
(* recently used eviction, and its export and import across restarts.      *)
(* Recency is last_seen, a clock value or, when the clock lags behind the  *)
(* table, the next number above every retained one.  The host's clock may  *)
(* start again from zero after a restart.  A key stands for the            *)
(* destination hash it derives; a call that names another hash is refused. *)
(***************************************************************************)
EXTENDS Integers, Sequences, FiniteSets, FiniteSetsExt

CONSTANTS
    Destinations,
    N,              \* capacity of the table
    MaxClock,       \* bound: the host's clock
    MaxUses         \* bound: lookups and new destinations

ASSUME KnownAssumption == {N, MaxClock, MaxUses} \subseteq Nat

VARIABLES
    entries,    \* sequence of [dest, last_seen], in table order
    now,        \* the host's clock
    saved,      \* the blob last exported, with the history below
    used,       \* history: destination -> number of its last use, 0 for none known
    uses        \* history: uses so far

knownVars == <<entries, now, saved, used, uses>>

Retained == {entries[i].dest : i \in DOMAIN entries}

KnownInit ==
    /\ entries = <<>>
    /\ now \in {0, MaxClock}
    /\ saved = [entries |-> <<>>, used |-> [d \in Destinations |-> 0]]
    /\ used = [d \in Destinations |-> 0]
    /\ uses = 0

next_recency == Max({entries[i].last_seen : i \in DOMAIN entries} \cup {0}) + 1

\* The first entry of least recency.
Oldest == CHOOSE i \in DOMAIN entries : \A j \in DOMAIN entries :
              \/ entries[i].last_seen < entries[j].last_seen
              \/ entries[i].last_seen = entries[j].last_seen /\ i <= j

Use(d) ==
    /\ uses < MaxUses
    /\ uses' = uses + 1
    /\ used' = [used EXCEPT ![d] = uses + 1]

\* Mutant: a lookup stamps the clock, which may lag behind the table.
RecallAtClock(d) ==
    /\ Use(d)
    /\ \E i \in DOMAIN entries :
          entries[i].dest = d /\ entries' = [entries EXCEPT ![i].last_seen = now]
    /\ UNCHANGED <<now, saved>>

recall(d) ==
    /\ Use(d)
    /\ \E i \in DOMAIN entries :
          entries[i].dest = d /\ entries' = [entries EXCEPT ![i].last_seen = next_recency]
    /\ UNCHANGED <<now, saved>>

\* A key already retained changes nothing, nor does any key in a table of no
\* capacity or a key of another destination.
learn(d) ==
    /\ N > 0 /\ d \notin Retained
    /\ Use(d)
    /\ LET entry == [dest |-> d, last_seen |-> Max({now, next_recency})]
       IN  entries' = IF Len(entries) < N THEN Append(entries, entry)
                      ELSE [entries EXCEPT ![Oldest] = entry]
    /\ UNCHANGED <<now, saved>>

export_into ==
    /\ saved' = [entries |-> entries, used |-> used]
    /\ UNCHANGED <<entries, now, used, uses>>

\* Header, version, count, length, binding and distinctness hold of every blob
\* this table exported.
Acceptable(blob) == Len(blob) <= N /\ IsInjective([i \in DOMAIN blob |-> blob[i].dest])

decode_entry(e) == [e EXCEPT !.last_seen = Min({@, now})]

\* A whole blob replaces the table, recency clamped to the clock.  Clamping ends
\* what was known of the order of use.
import ==
    /\ Acceptable(saved.entries)
    /\ entries' = [i \in DOMAIN saved.entries |-> decode_entry(saved.entries[i])]
    /\ used' = IF \A i \in DOMAIN saved.entries : saved.entries[i].last_seen <= now
                 THEN saved.used ELSE [d \in Destinations |-> 0]
    /\ UNCHANGED <<now, saved, uses>>

Restart ==
    /\ entries' = <<>>
    /\ now' \in 0 .. MaxClock
    /\ used' = [d \in Destinations |-> 0]
    /\ UNCHANGED <<saved, uses>>

ClockAdvances ==
    /\ now < MaxClock
    /\ now' = now + 1
    /\ UNCHANGED <<entries, saved, used, uses>>

KnownNext ==
    \/ \E d \in Destinations : recall(d) \/ learn(d)
    \/ export_into
    \/ import
    \/ Restart
    \/ ClockAdvances

KnownSpec == KnownInit /\ [][KnownNext]_knownVars

---------------------------------------------------------------------------
\* The table is ordered by use: of two retained destinations the one used later
\* has the higher recency, through lagging clocks, restarts and imports, so a
\* full table always gives up the least recently used one.
RecencyIsUse ==
    /\ Len(entries) <= N
    /\ \A i, j \in DOMAIN entries :
          /\ entries[i].dest = entries[j].dest => i = j
          /\ used[entries[i].dest] < used[entries[j].dest]
                => entries[i].last_seen < entries[j].last_seen
===========================================================================
