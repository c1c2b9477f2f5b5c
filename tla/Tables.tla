------------------------------- MODULE Tables -------------------------------
(***************************************************************************)
(* The fixed-capacity tables of src/tables.rs as values.                   *)
(*                                                                         *)
(* A table `[Option<Entry>; N]` is the finite set of its entries: the      *)
(* position of an entry in the array decides nothing but which of several  *)
(* equally old entries is evicted, and that choice is left open here (an   *)
(* operator that may evict returns the SET of tables it may leave behind). *)
(* Every entry has a deadline `expires`; an entry of an incarnation table  *)
(* carries its generation in `gen` (the `generations` array beside the     *)
(* entries).                                                               *)
(***************************************************************************)
EXTENDS Naturals, FiniteSets

\* The entries an `expire(now_ms)` keeps; the same test is every `is_live`.
expire(T, now) == {e \in T : now < e.expires}

\* `oldest_index`: the entries with the earliest deadline.
oldest_index(T) == {e \in T : \A o \in T : e.expires <= o.expires}

\* Mutant: any newcomer may displace the oldest entry.
class_victim_any(T, newcomer_bulk) == oldest_index(T)

\* `class_victim`: the oldest bulk entry, else the oldest entry unless the
\* newcomer is itself bulk.
class_victim(T, newcomer_bulk) ==
    LET B == {e \in T : e.bulk}
    IN  IF B # {} THEN oldest_index(B)
        ELSE IF newcomer_bulk THEN {} ELSE oldest_index(T)

\* The common tail of every insert: a free slot, else one of the victims.
\* No table at all when there is neither.
Place(T, e, cap, victims) ==
    IF Cardinality(T) < cap
    THEN {T \cup {e}}
    ELSE {(T \ {v}) \cup {e} : v \in victims}

-----------------------------------------------------------------------------
(* PacketHashTable and RequestTagTable share one discipline: a retained    *)
(* duplicate is neither refreshed nor inserted again.                      *)

contains(T, k, now) == \E e \in expire(T, now) : e.key = k

insert_if_new(T, k, expires, now, cap) ==
    IF contains(T, k, now)
    THEN {expire(T, now)}
    ELSE LET L == expire(T, now)
         IN  Place(L, [key |-> k, expires |-> expires], cap, oldest_index(L))

-----------------------------------------------------------------------------
(* PathTable                                                               *)

get_live(T, d, now) == {p \in T : p.dest = d /\ now < p.expires}

\* Mutant: a changed next hop or distance keeps the generation.
same_route_interface_only(p, q) == p.dest = q.dest /\ p.interface = q.interface

\* Two entries describe the same route: `replace_entry` keeps the
\* incarnation of queued bytes exactly in this case.
same_route(p, q) ==
    /\ p.dest = q.dest
    /\ p.interface = q.interface
    /\ p.next_hop = q.next_hop
    /\ p.hops = q.hops

\* `touch`: a used live route keeps its lifetime span from now on.
touch(T, d, now) ==
    {IF p.dest = d /\ now < p.expires
     THEN [p EXCEPT !.last_seen = now, !.expires = now + (p.expires - p.last_seen)]
     ELSE p : p \in T}

\* `replace_entry`: the same route keeps its generation, any other entry gets
\* the next one, and an exhausted counter refuses.
replace_entry(T, old, e, last, limit) ==
    IF same_route(old, e)
    THEN {(T \ {old}) \cup {[e EXCEPT !.gen = old.gen]}}
    ELSE IF last < limit
         THEN {(T \ {old}) \cup {[e EXCEPT !.gen = last + 1]}}
         ELSE {}

\* Mutant: a stored path is replaced whatever the emission.
insert_or_update_any(T, e, now, last, limit, cap) ==
    LET L == expire(T, now)
        stored == {p \in L : p.dest = e.dest}
    IN  IF stored # {}
        THEN UNION {replace_entry(L, old, e, last, limit) : old \in stored}
        ELSE IF last < limit
             THEN Place(L, [e EXCEPT !.gen = last + 1], cap, class_victim(L, e.bulk))
             ELSE {}

\* `insert_or_update`: the tables it may leave when it returns true; none when
\* it returns false. Both hop branches of the source come to "newer emission"
\* because expire() has already removed a stored path that is not live.
insert_or_update(T, e, now, last, limit, cap) ==
    LET L == expire(T, now)
        stored == {p \in L : p.dest = e.dest}
    IN  IF stored # {}
        THEN UNION {replace_entry(L, old, e, last, limit) :
                      old \in {p \in stored : e.emitted > p.emitted}}
        ELSE IF last < limit
             THEN Place(L, [e EXCEPT !.gen = last + 1], cap, class_victim(L, e.bulk))
             ELSE {}

-----------------------------------------------------------------------------
(* AnnounceCache                                                           *)

\* `retain_paths`: forget announces whose destination has no live route.
retain_paths(C, P, now) == {c \in C : get_live(P, c.dest, now) # {}}

\* Mutant: the cached announce of a destination is kept.
cache_insert_keeps(C, c, now, cap) ==
    LET L == expire(C, now)
        placed == Place(L, c, cap, class_victim(L, c.bulk))
    IN  IF placed = {} \/ \E x \in L : x.dest = c.dest THEN {L} ELSE placed

\* `AnnounceCache::insert`: replaces by destination without a freshness test;
\* silently does nothing when no slot is eligible.
cache_insert(C, c, now, cap) ==
    LET L == expire(C, now)
        same == {x \in L : x.dest = c.dest}
        placed == Place(L, c, cap, class_victim(L, c.bulk))
    IN  IF same # {} THEN {(L \ same) \cup {c}}
        ELSE IF placed = {} THEN {L} ELSE placed

-----------------------------------------------------------------------------
(* AnnounceSchedule                                                        *)

\* announce_cap.rs `release_precedes`: fewest hops first, then oldest.
release_precedes(a, b) ==
    \/ a.hops < b.hops
    \/ a.hops = b.hops /\ a.expires < b.expires

\* `last_released_pending`: the entries kept only for their pending targets
\* that would be released last.
last_released_pending(S) ==
    LET P == {e \in S : e.pending_only}
    IN  {e \in P : ~\E o \in P : release_precedes(e, o)}

\* `AnnounceSchedule::insert`
schedule_insert(S, e, now, cap) ==
    LET L == expire(S, now)
        same == {x \in L : x.dest = e.dest}
        last == last_released_pending(L)
    IN  IF same # {} THEN {(L \ same) \cup {e}}
        ELSE Place(L, e, cap, IF last # {} THEN last ELSE oldest_index(L))

\* Mutant: what is owed to a slot survives its interface.
clear_target_nothing(S, slot) == S

\* `clear_target`: forget what is still owed to one registry slot.
clear_target(S, slot) ==
    {e \in {[x EXCEPT !.pending = @ \ {slot}] : x \in S} :
        ~(e.pending_only /\ e.pending = {})}

-----------------------------------------------------------------------------
(* ReverseTable and LinkTable                                              *)

\* `insert`: replaces the entry with the same key, else a free slot, else the
\* earliest deadline. The caller has reserved the generation in `e`.
keyed_insert(T, e, now, cap) ==
    LET L == expire(T, now)
        same == {x \in L : x.key = e.key}
    IN  IF same # {} THEN {(L \ same) \cup {e}}
        ELSE Place(L, e, cap, oldest_index(L))

\* `LinkTable::touch` and `mark_validated`
link_touch(T, k, expires, now) ==
    {IF l.key = k THEN [l EXCEPT !.expires = expires] ELSE l : l \in expire(T, now)}

mark_validated(T, k, expires, now) ==
    {IF l.key = k THEN [l EXCEPT !.expires = expires, !.validated = TRUE] ELSE l :
        l \in expire(T, now)}

\* `remove_interface` of the tables that name one interface, and of the
\* tables that name two.
remove_interface(T, id) == {e \in T : e.interface # id}

\* Mutant: only the outbound side is looked at.
remove_interface2_outbound(T, id) == {e \in T : e.outbound # id}

remove_interface2(T, id) == {e \in T : e.receiving # id /\ e.outbound # id}

-----------------------------------------------------------------------------
(* Discoveries (src/discovery.rs): `requesters` is the set of registry     *)
(* slots waiting for the answer; an entry with none is EMPTY.              *)

discoveries_expire(D, now) == {d \in D : d.requesters # {} /\ now < d.expires}

retire_requester(D, slot) ==
    {d \in {[x EXCEPT !.requesters = @ \ {slot}] : x \in D} : d.requesters # {}}
=============================================================================
