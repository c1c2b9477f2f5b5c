---------------------------- MODULE RouterEvolve ----------------------------
(***************************************************************************)
(* What any step of the router may do to each part of its state, what that *)
(* preserves, and the lemmas the step proofs share.                        *)
(*                                                                         *)
(* Evolve: a table entry of the next state carries a generation issued by  *)
(* the step, or is an entry of this state that was not revived; a slot     *)
(* keeps its registration, loses it or gets one issued by the step; a frame *)
(* is old, or carries issued tokens that name the entries it was built for. *)
(* One lemma per action shows Evolve: those of announces, path requests and *)
(* the timer are in RouterLearnProofs, those of packets passed on in       *)
(* RouterForwardProofs, the others and the theorems in RouterProofs.       *)
(***************************************************************************)
EXTENDS RouterProperties, FiniteSetTheorems, TLAPS

\* The time every leaf may take that names no prover of its own.
USE SMTT(60)

Counters == [interface : Nat, path : Nat, reverse : Nat, link : Nat, discovery : Nat,
             delivery : Nat]

ClockEvolves ==
    /\ time' \in Nat /\ time <= time' /\ clock_ms' \in Nat /\ clock_ms' <= time'

LastEvolves ==
    /\ last' \in Counters
    /\ last.interface <= last'.interface /\ last.path <= last'.path
    /\ last.reverse <= last'.reverse /\ last.link <= last'.link
    /\ last.discovery <= last'.discovery

InterfacesEvolve ==
    /\ registry' \in [Slots -> Ids \cup {NoId}]
    /\ online' \subseteq Registered'
    /\ generations' \in [Slots -> Nat] /\ announce_gates' \in [Slots -> Nat]
    /\ RegistrationOK'
    /\ \A s \in Slots :
         /\ generations'[s] <= last'.interface
         /\ \/ /\ generations'[s] = generations[s] /\ registry'[s] = registry[s]
               /\ registry[s] \in online' => registry[s] \in online
               /\ announce_gates[s] <= announce_gates'[s]
            \/ generations'[s] = 0
            \/ generations'[s] > last.interface

\* The entry q of the next state continues p: the same route, taught by the same
\* or a later announce, and not revived.
Continues(p, q) ==
    /\ p.gen = q.gen /\ same_route(p, q) /\ p.emitted <= q.emitted
    /\ time < q.expires => time < p.expires

PathsEvolve ==
    /\ paths' \subseteq PathEntry
    /\ RoutesUnique'
    /\ \A q \in paths' :
         /\ q.last_seen <= q.expires /\ q.interface \in online' /\ q.gen <= last'.path
         /\ q.gen > last.path \/ \E p \in paths : Continues(p, q)
    /\ RollsNoPathBack /\ DisplacesBulkFirst

ReverseEvolves ==
    /\ reverse' \subseteq ReverseEntry
    /\ \A r \in reverse' :
         /\ r.receiving \in online' /\ r.outbound \in online' /\ r.gen <= last'.reverse
         /\ r \in reverse \/ r.gen > last.reverse
    /\ ReverseUnique' /\ ProofReturnedOnce'

\* The same of links and of discoveries.
SameLink(m, k) ==
    /\ m.gen = k.gen /\ m.key = k.key /\ m.receiving = k.receiving /\ m.outbound = k.outbound
    /\ time < k.expires => time < m.expires

LinksEvolve ==
    /\ links' \subseteq LinkEntry
    /\ LinksUnique'
    /\ \A k \in links' :
         /\ k.receiving \in online' /\ k.outbound \in online' /\ k.gen <= last'.link
         /\ k.gen > last.link \/ \E m \in links : SameLink(m, k)
    /\ KeepsLiveLinks

SameDiscovery(c, d) ==
    /\ c.gen = d.gen /\ c.dest = d.dest /\ c.expires = d.expires
    /\ d.requesters # {} => c.requesters # {}

DiscoveriesEvolve ==
    /\ discoveries' \subseteq DiscoveryEntry
    /\ \A d \in discoveries' :
         /\ d.gen <= last'.discovery
         /\ d.gen > last.discovery \/ \E c \in discoveries : SameDiscovery(c, d)
    /\ RequestersAreCurrent'

AnnouncesEvolve ==
    /\ announce_cache' \subseteq CachedAnnounce
    /\ announce_schedule' \subseteq ScheduledAnnounce
    /\ \A e \in announce_schedule' : e.interface \in online'
    /\ CacheMatchesPath' /\ ScheduleMatchesPath' /\ PendingTargetsAreAllowed'

\* A lifetime whose tokens have been issued by the end of the step.
LifetimeIssued(l) == l \in LifetimeType /\ l.enqueued <= time' /\ OwnerIssued(l, last')

\* An announce released when the gate of its slot had opened, which it shuts.
ShutsItsGate(f) ==
    \E s \in Slots :
      /\ registry[s] = f.interface /\ generations[s] = f.delivery
      /\ registry'[s] = f.interface
      /\ announce_gates[s] <= f.lifetime.enqueued
      /\ f.lifetime.enqueued + Config[f.interface].spacing <= announce_gates'[s]

NewFrames == (outbound' \cup held') \ Frames

FramesEvolve ==
    /\ \A f \in NewFrames :
         /\ f.interface \in Ids /\ f.identity \in Nat
         /\ f.delivery \in Nat \ {0} /\ f.delivery <= last'.interface
         /\ LifetimeIssued(f.lifetime)
         /\ NamesItsOwner(f)'
         /\ gated(f.reason) => ShutsItsGate(f)
    /\ \A f, g \in NewFrames : f.interface = g.interface => f = g

Evolve == /\ ClockEvolves /\ LastEvolves /\ InterfacesEvolve /\ PathsEvolve /\ ReverseEvolves
          /\ LinksEvolve /\ DiscoveriesEvolve /\ AnnouncesEvolve /\ FramesEvolve

-----------------------------------------------------------------------------
(* Components a step leaves alone, or only takes entries from.             *)

\* The clocks and the counters are numbers.
LEMMA NumbersOK ==
    ASSUME IInv
    PROVE  /\ time \in Nat /\ clock_ms \in Nat /\ clock_ms <= time
           /\ last \in Counters
  BY Zenon DEF IInv, TypeOK, Counters

\* What the invariant says of a link.
LEMMA LinkOK ==
    ASSUME IInv, NEW k \in links
    PROVE  /\ k \in LinkEntry /\ k.gen <= last.link
           /\ k.receiving \in online /\ k.outbound \in online
  BY Zenon DEF IInv, TypeOK, GenerationsIssued, RoutesNameLiveInterfaces

\* A call that copies the host's clock to the node, or leaves both clocks.
LEMMA ClockTicks ==
    ASSUME IInv, time' = time, clock_ms' \in {clock_ms, time}
    PROVE  ClockEvolves
  BY DEF IInv, TypeOK, ClockEvolves

\* A step that leaves every registration alone.
SameRegistry == registry' = registry /\ online' = online /\ generations' = generations

\* A step that leaves the registry alone; an announce gate may move forward.
LEMMA InterfacesQuiet ==
    ASSUME IInv, LastEvolves, SameRegistry, announce_gates' \in [Slots -> Nat],
           \A s \in Slots : announce_gates[s] <= announce_gates'[s]
    PROVE  InterfacesEvolve
<1>1. generations' \in [Slots -> Nat] /\ last.interface \in Nat /\ last'.interface \in Nat
  BY DEF IInv, TypeOK, LastEvolves, Counters, SameRegistry
<1>2. \A s \in Slots : generations'[s] <= last'.interface
  BY <1>1 DEF IInv, GenerationsIssued, LastEvolves, SameRegistry
<1>3. RegistrationOK' /\ online' \subseteq Registered'
  BY DEF IInv, TypeOK, RegistrationOK, Registered, SameRegistry
<1>. QED
  BY <1>1, <1>2, <1>3 DEF IInv, TypeOK, InterfacesEvolve, SameRegistry

\* The gates themselves may stay.
LEMMA GatesQuiet ==
    ASSUME IInv, LastEvolves, SameRegistry, announce_gates' = announce_gates
    PROVE  InterfacesEvolve
<1>1. announce_gates' \in [Slots -> Nat] /\ \A s \in Slots : announce_gates[s] <= announce_gates'[s]
  BY DEF IInv, TypeOK
<1>. QED
  BY <1>1, InterfacesQuiet

\* Taking paths away (`expire`, `drop_path`, `remove_interface`) is an evolution.
LEMMA PathsShrink ==
    ASSUME IInv, LastEvolves, paths' \subseteq paths, \A q \in paths' : q.interface \in online'
    PROVE  PathsEvolve
<1>1. \A q \in paths : /\ q.gen \in Nat /\ q.gen <= last.path /\ q.last_seen <= q.expires
                       /\ q.emitted \in Nat
  BY DEF IInv, TypeOK, GenerationsIssued, PathEntry
<1>2. last.path \in Nat /\ last'.path \in Nat /\ last.path <= last'.path
  BY DEF IInv, TypeOK, LastEvolves, Counters
<1>3. \A q \in paths : q.gen <= last'.path /\ ~(q.gen > last.path) /\ Continues(q, q)
  BY <1>1, <1>2 DEF Continues, same_route
<1>4. paths' \subseteq PathEntry /\ RoutesUnique'
  BY DEF IInv, TypeOK, RoutesUnique
<1>5. RollsNoPathBack
  BY DEF IInv, RoutesUnique, RollsNoPathBack, same_route
<1>6. DisplacesBulkFirst
  BY <1>3 DEF DisplacesBulkFirst
<1>. QED
  BY <1>1, <1>3, <1>4, <1>5, <1>6 DEF PathsEvolve

\* Taking reverse entries away without answering one is an evolution.
LEMMA ReverseShrinks ==
    ASSUME IInv, LastEvolves, reverse' \subseteq reverse, answered' = answered,
           \A r \in reverse' : r.receiving \in online' /\ r.outbound \in online'
    PROVE  ReverseEvolves
<1>1. last.reverse \in Nat /\ last'.reverse \in Nat /\ last.reverse <= last'.reverse
  BY DEF IInv, TypeOK, LastEvolves, Counters
<1>2. \A r \in reverse : r.gen \in Nat /\ r.gen <= last.reverse
  BY DEF IInv, TypeOK, GenerationsIssued, ReverseEntry
<1>3. \A r \in reverse : r.gen <= last'.reverse
  BY <1>1, <1>2
<1>4. ReverseUnique'
  BY <1>1 DEF IInv, ReverseUnique
<1>5. ProofReturnedOnce'
  BY DEF IInv, ProofReturnedOnce
<1>. QED
  BY <1>3, <1>4, <1>5 DEF IInv, TypeOK, ReverseEvolves

\* Taking links away is an evolution, if the step may do that to live ones.
LEMMA LinksShrink ==
    ASSUME IInv, LastEvolves, links' \subseteq links, KeepsLiveLinks,
           \A k \in links' : k.receiving \in online' /\ k.outbound \in online'
    PROVE  LinksEvolve
<1>1. last.link \in Nat /\ last'.link \in Nat /\ last.link <= last'.link
  BY DEF IInv, TypeOK, LastEvolves, Counters
<1>2. \A k \in links : k.gen \in Nat /\ k.gen <= last.link
  BY DEF IInv, TypeOK, GenerationsIssued, LinkEntry
<1>3. \A k \in links : k.gen <= last'.link
  BY <1>1, <1>2
<1>4. links' \subseteq LinkEntry /\ LinksUnique' /\ \A k \in links : SameLink(k, k)
  BY DEF IInv, TypeOK, LinksUnique, SameLink
<1>. QED
  BY <1>3, <1>4 DEF LinksEvolve

\* Taking discoveries away is an evolution, if their requesters stay registered.
LEMMA DiscoveriesShrink ==
    ASSUME IInv, LastEvolves, discoveries' \subseteq discoveries,
           \A d \in discoveries' : \A s \in d.requesters :
             registry'[s] \in online' /\ generations'[s] = generations[s]
    PROVE  DiscoveriesEvolve
<1>1. last.discovery \in Nat /\ last'.discovery \in Nat /\ last.discovery <= last'.discovery
  BY DEF IInv, TypeOK, LastEvolves, Counters
<1>2. \A d \in discoveries : d.gen \in Nat /\ d.gen <= last.discovery
  BY DEF IInv, TypeOK, GenerationsIssued, DiscoveryEntry
<1>3. \A d \in discoveries : d.gen <= last'.discovery /\ SameDiscovery(d, d)
  BY <1>1, <1>2 DEF SameDiscovery
<1>4. RequestersAreCurrent'
  BY DEF IInv, RequestersAreCurrent
<1>. QED
  BY <1>3, <1>4 DEF IInv, TypeOK, DiscoveriesEvolve

\* The same announce taught both paths; both scheduled entries are for the same
\* announce.
SameLesson(p, q) ==
    p.dest = q.dest /\ p.emitted = q.emitted /\ p.hops = q.hops /\ p.response = q.response
SameAnnounce(x, e) ==
    x.dest = e.dest /\ x.emitted = e.emitted /\ x.size = e.size /\ x.hops = e.hops

\* Nothing new is taught: cached and scheduled announces stay those of the paths.
LEMMA AnnouncesKept ==
    ASSUME IInv, announce_cache' \subseteq announce_cache,
           \A q \in paths' : \E p \in paths : SameLesson(p, q),
           \A e \in announce_schedule' :
             /\ e \in ScheduledAnnounce /\ e.interface \in online'
             /\ \E x \in announce_schedule : SameAnnounce(x, e),
           PendingTargetsAreAllowed'
    PROVE  AnnouncesEvolve
<1>1. CacheMatchesPath'
  BY DEF IInv, CacheMatchesPath, SameLesson
<1>2. ScheduleMatchesPath'
  <2> SUFFICES ASSUME NEW e \in announce_schedule'
               PROVE  /\ TransportEnabled /\ e.size <= NodeMtu
                      /\ \E p \in PacketsOf("announce") :
                           ~p.response /\ p.dest = e.dest /\ p.emitted = e.emitted /\ p.size = e.size
                      /\ \A q \in paths' :
                           q.dest = e.dest /\ q.emitted = e.emitted /\ ~q.response => q.hops = e.hops
    BY Zenon DEF ScheduleMatchesPath
  <2>1. PICK x \in announce_schedule : SameAnnounce(x, e)
    OBVIOUS
  <2>2. /\ TransportEnabled /\ x.size <= NodeMtu
        /\ \E p \in PacketsOf("announce") :
             ~p.response /\ p.dest = x.dest /\ p.emitted = x.emitted /\ p.size = x.size
        /\ \A q \in paths : q.dest = x.dest /\ q.emitted = x.emitted /\ ~q.response => q.hops = x.hops
    BY Zenon DEF IInv, ScheduleMatchesPath
  <2>3. x.dest = e.dest /\ x.emitted = e.emitted /\ x.size = e.size /\ x.hops = e.hops
    BY <2>1 DEF SameAnnounce
  <2>4. ASSUME NEW q \in paths', q.dest = e.dest, q.emitted = e.emitted, ~q.response
        PROVE  q.hops = e.hops
    <3>1. PICK p \in paths : SameLesson(p, q)
      OBVIOUS
    <3>. QED
      BY <2>2, <2>3, <2>4, <3>1 DEF SameLesson
  <2>. QED
    BY <2>2, <2>3, <2>4
<1>. QED
  BY <1>1, <1>2 DEF IInv, TypeOK, AnnouncesEvolve

\* What may be sent to a slot may still be, while the slot keeps its interface
\* and that stays online.
LEMMA EgressKept ==
    ASSUME NEW source, NEW s, registry[s] # NoId, announce_egress_allowed(source, registry[s]),
           registry'[s] = registry[s], registry[s] \in online => registry[s] \in online'
    PROVE  registry'[s] # NoId /\ announce_egress_allowed(source, registry[s])'
  BY Zenon DEF announce_egress_allowed, outbound_interface_online, is_local_client_interface

\* Taking scheduled announces away, or time away from what is owed.
LEMMA PendingShrinks ==
    ASSUME IInv, \A e \in announce_schedule' : \E x \in announce_schedule :
                   e.interface = x.interface /\ e.pending \subseteq x.pending,
           \A e \in announce_schedule' : \A s \in e.pending :
             registry'[s] = registry[s] /\ (registry[s] \in online => registry[s] \in online')
    PROVE  PendingTargetsAreAllowed'
<1> SUFFICES ASSUME NEW e \in announce_schedule', NEW s \in e.pending
             PROVE  registry'[s] # NoId /\ announce_egress_allowed(e.interface, registry[s])'
  BY DEF PendingTargetsAreAllowed
<1>1. PICK x \in announce_schedule : e.interface = x.interface /\ e.pending \subseteq x.pending
  OBVIOUS
<1>2. registry[s] # NoId /\ announce_egress_allowed(e.interface, registry[s])
  BY Zenon, <1>1 DEF IInv, PendingTargetsAreAllowed
<1>. QED
  BY <1>2, EgressKept

\* So is moving frames between the queue and the drivers, or dropping some.
LEMMA FramesShrink ==
    ASSUME outbound' \cup held' \subseteq Frames
    PROVE  FramesEvolve
  BY DEF FramesEvolve, NewFrames

\* A step that leaves every link, or drops the expired ones, keeps the live ones.
LEMMA LiveLinksKept ==
    ASSUME IInv, links' \in {links, expire(links, time)}
    PROVE  links' \subseteq links /\ KeepsLiveLinks
  BY NumbersOK DEF expire, KeepsLiveLinks, IInv, TypeOK, LinkEntry

\* The same for a step that leaves the registrations alone.
LEMMA QuietTables ==
    ASSUME IInv, LastEvolves, SameRegistry
    PROVE  /\ paths' \subseteq paths => PathsEvolve
           /\ reverse' \subseteq reverse /\ answered' = answered => ReverseEvolves
           /\ links' \in {links, expire(links, time)} => LinksEvolve
           /\ discoveries' \subseteq discoveries => DiscoveriesEvolve
           /\ (\A q \in paths' : \E p \in paths : SameLesson(p, q))
                /\ announce_cache' \subseteq announce_cache
                /\ announce_schedule' \subseteq announce_schedule => AnnouncesEvolve
           /\ paths' \subseteq paths => \A q \in paths' : \E p \in paths : SameLesson(p, q)
<1>1. /\ \A q \in paths : q.interface \in online'
      /\ \A r \in reverse : r.receiving \in online' /\ r.outbound \in online'
      /\ \A k \in links : k.receiving \in online' /\ k.outbound \in online'
      /\ \A e \in announce_schedule : e.interface \in online'
      /\ \A d \in discoveries : \A s \in d.requesters :
           registry'[s] \in online' /\ generations'[s] = generations[s]
  BY Zenon DEF IInv, RoutesNameLiveInterfaces, RequestersAreCurrent, SameRegistry
<1>2. ASSUME announce_schedule' \subseteq announce_schedule
      PROVE  /\ PendingTargetsAreAllowed'
             /\ \A e \in announce_schedule' : \E x \in announce_schedule : SameAnnounce(x, e)
  BY <1>2, PendingShrinks DEF SameAnnounce, SameRegistry
<1>3. ASSUME paths' \subseteq paths
      PROVE  \A q \in paths' : \E p \in paths : SameLesson(p, q)
  BY <1>3 DEF SameLesson
<1>4. /\ paths' \subseteq paths => PathsEvolve
      /\ reverse' \subseteq reverse /\ answered' = answered => ReverseEvolves
      /\ discoveries' \subseteq discoveries => DiscoveriesEvolve
  BY <1>1, PathsShrink, ReverseShrinks, DiscoveriesShrink
<1>5. links' \in {links, expire(links, time)} => LinksEvolve
  BY <1>1, LiveLinksKept, LinksShrink
<1>6. ASSUME \A q \in paths' : \E p \in paths : SameLesson(p, q),
             announce_cache' \subseteq announce_cache, announce_schedule' \subseteq announce_schedule
      PROVE  AnnouncesEvolve
  <2>1. \A e \in announce_schedule' : e \in ScheduledAnnounce /\ e.interface \in online'
    BY Zenon, <1>1, <1>6 DEF IInv, TypeOK
  <2>. QED
    BY Zenon, <1>2, <1>6, <2>1, AnnouncesKept
<1>. QED
  BY Zenon, <1>3, <1>4, <1>5, <1>6

-----------------------------------------------------------------------------
(* What the table operators return.                                        *)

\* `expire` and the sweeps built on it only take entries away.
LEMMA ExpireShrinks ==
    ASSUME NEW T, NEW now
    PROVE  /\ expire(T, now) \subseteq T
           /\ \A e \in expire(T, now) : now < e.expires
           /\ LiveDiscoveries \subseteq discoveries
           /\ LiveOutbound \subseteq outbound
           /\ expire_outbound(now) \subseteq outbound
  BY DEF expire, LiveDiscoveries, discoveries_expire, LiveOutbound, expire_outbound

\* An insert adds its entry and nothing else, whichever victim it evicts.
LEMMA PlaceAdds ==
    ASSUME NEW T, NEW e, NEW cap, NEW victims, NEW N \in Place(T, e, cap, victims)
    PROVE  N \subseteq T \cup {e}
  BY DEF Place

\* So do ReverseTable::insert and LinkTable::insert,
LEMMA KeyedInsertAdds ==
    ASSUME NEW T, NEW e, NEW now, NEW cap, NEW N \in keyed_insert(T, e, now, cap)
    PROVE  N \subseteq T \cup {e}
<1>1. expire(T, now) \subseteq T
  BY ExpireShrinks
<1>. QED
  BY <1>1, PlaceAdds DEF keyed_insert

\* AnnounceCache::insert, which leaves no other entry for its destination,
LEMMA CacheInsertAdds ==
    ASSUME NEW T, NEW e, NEW now, NEW cap, NEW N \in cache_insert(T, e, now, cap)
    PROVE  \A x \in N : x = e \/ (x \in T /\ x.dest # e.dest)
<1> DEFINE L == expire(T, now)
           same == {x \in L : x.dest = e.dest}
           placed == Place(L, e, cap, class_victim(L, e.bulk))
<1>1. L \subseteq T
  BY ExpireShrinks
<1>2. \/ N = (L \ same) \cup {e}
      \/ same = {} /\ N = L
      \/ same = {} /\ N \in placed
  BY Zenon DEF cache_insert
<1>3. N \in placed => N \subseteq L \cup {e}
  BY PlaceAdds
<1> HIDE DEF placed, L
<1>. QED
  BY <1>1, <1>2, <1>3

\* and AnnounceSchedule::insert.
LEMMA ScheduleInsertAdds ==
    ASSUME NEW T, NEW e, NEW now, NEW cap, NEW N \in schedule_insert(T, e, now, cap)
    PROVE  \A x \in N : x = e \/ (x \in T /\ x.dest # e.dest)
<1> DEFINE L == expire(T, now)
           same == {x \in L : x.dest = e.dest}
           victims == LET tail == last_released_pending(L)
                      IN  IF tail # {} THEN tail ELSE oldest_index(L)
<1>1. L \subseteq T
  BY ExpireShrinks
<1>2. \/ N = (L \ same) \cup {e}
      \/ same = {} /\ N \in Place(L, e, cap, victims)
  BY Zenon DEF schedule_insert
<1>3. N \in Place(L, e, cap, victims) => N \subseteq L \cup {e}
  BY PlaceAdds
<1> HIDE DEF victims, L
<1>. QED
  BY <1>1, <1>2, <1>3

\* `insert_or_update` leaves one entry for the announced destination, newer than
\* the live one it replaces, which has the next generation or, for the same
\* route, that of the live entry. The others are old entries. An ordinary one
\* makes room only for an ordinary one, when there is no bulk entry.
LEMMA InsertedPaths ==
    ASSUME NEW T, NEW e, NEW now, NEW lst, NEW limit, NEW cap,
           NEW N \in insert_or_update(T, e, now, lst, limit, cap),
           DOMAIN e = {"dest", "next_hop", "hops", "interface", "expires", "last_seen",
                       "emitted", "response", "bulk", "gen"},
           \A p, q \in T : p.dest = q.dest => p = q
    PROVE  \E g :
             /\ \A q \in N : q = [e EXCEPT !.gen = g] \/ (q \in T /\ q.dest # e.dest)
             /\ \/ g = lst + 1
                \/ \E old \in T : now < old.expires /\ same_route(old, e) /\ g = old.gen
             /\ \A old \in T : old.dest = e.dest /\ now < old.expires => e.emitted > old.emitted
             /\ \A p \in T :
                  now < p.expires /\ ~p.bulk /\ ~(\E x \in N : x.dest = p.dest) =>
                    ~e.bulk /\ \A x \in T : now < x.expires => ~x.bulk
<1> DEFINE L == expire(T, now)
           stored == {p \in L : p.dest = e.dest}
<1>0. L \subseteq T /\ \A x \in T : x \in L <=> now < x.expires
  BY DEF expire
<1> HIDE DEF L
<1>1. CASE stored # {}
  <2>1. PICK old \in stored : e.emitted > old.emitted /\ N \in replace_entry(L, old, e, lst, limit)
    BY <1>1 DEF insert_or_update, L
  <2>2. PICK g : /\ N = (L \ {old}) \cup {[e EXCEPT !.gen = g]}
                 /\ g = lst + 1 \/ (g = old.gen /\ same_route(old, e))
    BY <2>1 DEF replace_entry
  <2>3. [e EXCEPT !.gen = g].dest = e.dest
    OBVIOUS
  <2>4. \A p \in T : p.dest = e.dest => p = old
    BY <1>0
  <2>5. \A p \in T : now < p.expires => \E x \in N : x.dest = p.dest
    BY Zenon, <1>0, <2>2, <2>3
  <2>. QED
    BY <1>0, <2>1, <2>2, <2>3, <2>4, <2>5
<1>2. CASE stored = {}
  <2> DEFINE new == [e EXCEPT !.gen = lst + 1]
  <2>1. N \in Place(L, new, cap, class_victim(L, e.bulk))
    BY <1>2 DEF insert_or_update, L
  <2>2. new.dest = e.dest
    OBVIOUS
  <2> HIDE DEF new
  <2>3. N \subseteq L \cup {new}
    BY <2>1, PlaceAdds
  <2>4. ASSUME NEW p \in T, now < p.expires, ~p.bulk, ~\E x \in N : x.dest = p.dest
        PROVE  ~e.bulk /\ \A x \in T : now < x.expires => ~x.bulk
    <3>1. p \in L /\ p \notin N
      BY <1>0, <2>4
    <3>2. p \in class_victim(L, e.bulk)
      BY <2>1, <3>1 DEF Place
    <3>. QED
      BY <1>0, <2>4, <3>2 DEF class_victim, oldest_index
  <2>5. \A q \in N : q = new \/ (q \in T /\ q.dest # e.dest)
    BY <1>0, <1>2, <2>3
  <2>6. \A old \in T : old.dest = e.dest /\ now < old.expires => e.emitted > old.emitted
    BY <1>0, <1>2
  <2>. QED
    BY Zenon, <2>4, <2>5, <2>6 DEF new
<1>. QED
  BY <1>1, <1>2

-----------------------------------------------------------------------------
(* What queueing a packet does.                                            *)

\* The delivery identities one call issues are finitely many.
LEMMA CardinalityOfSlots ==
    ASSUME IInv, NEW A, A \subseteq Slots
    PROVE  Cardinality(A) \in Nat
<1>1. IsFiniteSet(Slots)
  BY IdsAssumption, FS_Interval DEF Slots
<1>2. IsFiniteSet(A)
  BY <1>1, FS_Subset
<1>. QED
  BY <1>2, FS_CardinalityType

\* `enqueue_with_lifetime` admits only slots whose interface is online.
LEMMA AdmittedSlots ==
    ASSUME NEW Q, NEW T, NEW reason, NEW size
    PROVE  Admitted(Q, T, reason, size) \subseteq {s \in T : registry[s] \in online}
  BY DEF Admitted, outbound_interface_online

\* A frame with the packet and the lifetime that B gives a slot of A.
Carries(f, A, B) ==
    \E s \in A : /\ f.interface = registry[s]
                 /\ f.packet = B[s].packet /\ f.lifetime = B[s].lifetime

\* A gated packet is queued when the gate of its slot is open, and shuts it.
ShutsGates(A, B) ==
    \A s \in A : /\ announce_gates[s] <= B[s].lifetime.enqueued
                 /\ B[s].lifetime.enqueued + Config[registry[s]].spacing <= announce_gates'[s]

\* The frames an admission adds carry the registration of the slot they are for
\* and the tokens of the packet.
LEMMA EnqueuedFrames ==
    ASSUME IInv, LastEvolves, SameRegistry, held' = held,
           NEW Q, Q \subseteq outbound, NEW A, A \subseteq {s \in Slots : registry[s] \in online},
           NEW reason, NEW B, outbound' = Enqueue(Q, A, reason, B),
           \A s \in A : LifetimeIssued(B[s].lifetime),
           \A f : Carries(f, A, B) => NamesItsOwner(f)',
           gated(reason) => ShutsGates(A, B)
    PROVE  FramesEvolve
<1> DEFINE place(s) == last.delivery + Cardinality({r \in A : r <= s})
           frame(s) == [interface |-> registry[s], reason |-> reason, delivery |-> generations[s],
                        identity |-> place(s), packet |-> B[s].packet, lifetime |-> B[s].lifetime]
<1>0. \A f \in NewFrames : \E s \in A : f = frame(s)
  <2>1. \A f \in outbound' : f \in Q \/ f \in {frame(s) : s \in A}
    BY Zenon DEF Enqueue
  <2> HIDE DEF frame
  <2>. QED
    BY <2>1 DEF Frames, NewFrames
<1> HIDE DEF place
<1>1. \A s \in A : /\ frame(s).interface = registry[s] /\ frame(s).delivery = generations[s]
                  /\ frame(s).identity = place(s) /\ frame(s).lifetime = B[s].lifetime
                  /\ frame(s).packet = B[s].packet /\ frame(s).reason = reason
  OBVIOUS
<1> HIDE DEF frame
<1>2. \A s \in A : registry[s] \in Ids /\ registry[s] # NoId
  BY DEF IInv, TypeOK, Registered
<1>3. ASSUME NEW f \in NewFrames
      PROVE  /\ f.interface \in Ids /\ f.identity \in Nat
             /\ f.delivery \in Nat \ {0} /\ f.delivery <= last'.interface
             /\ LifetimeIssued(f.lifetime) /\ NamesItsOwner(f)'
             /\ gated(f.reason) => ShutsItsGate(f)
  <2>1. PICK s \in A : f = frame(s)
    BY <1>0
  <2>2. /\ f.interface = registry[s] /\ f.delivery = generations[s] /\ f.identity = place(s)
        /\ f.lifetime = B[s].lifetime /\ f.packet = B[s].packet /\ f.reason = reason
    BY <1>1, <2>1
  <2>3. generations[s] \in Nat \ {0} /\ generations[s] <= last.interface
    BY DEF IInv, TypeOK, RegistrationOK, GenerationsIssued
  <2>4. generations[s] <= last'.interface
    BY <2>3 DEF IInv, TypeOK, LastEvolves, Counters
  <2>5. f.identity \in Nat
    <3>1. Cardinality({r \in A : r <= s}) \in Nat
      BY CardinalityOfSlots
    <3>. QED
      BY <2>2, <3>1 DEF IInv, TypeOK, place
  <2>6. NamesItsOwner(f)'
    BY <2>2 DEF Carries
  <2>7. gated(f.reason) => ShutsItsGate(f)
    BY <2>2 DEF ShutsGates, ShutsItsGate, SameRegistry
  <2>. QED
    BY <1>2, <2>2, <2>3, <2>4, <2>5, <2>6, <2>7
<1>4. ASSUME NEW f \in NewFrames, NEW g \in NewFrames, f.interface = g.interface
      PROVE  f = g
  <2>1. PICK s \in A : f = frame(s)
    BY <1>0
  <2>2. PICK r \in A : g = frame(r)
    BY <1>0
  <2>3. s = r
    BY <1>1, <1>2, <1>4, <2>1, <2>2 DEF IInv, RegistrationOK
  <2>. QED
    BY <2>1, <2>2, <2>3
<1>. QED
  BY <1>3, <1>4 DEF FramesEvolve

\* A frame without tokens names nothing.
LEMMA NamesNothing ==
    ASSUME PathsEvolve, NEW f, f.lifetime.path = 0, f.lifetime.state = "Independent"
    PROVE  NamesItsOwner(f)'
<1>1. \A q \in paths' : q.gen # 0
  BY DEF PathsEvolve, PathEntry
<1>. QED
  BY <1>1 DEF NamesItsOwner

\* Nor do the frames that carry a lifetime without them.
LEMMA CarriesNothing ==
    ASSUME PathsEvolve, NEW A, NEW B, NEW n, NEW e,
           \A s \in A : B[s].lifetime = Lifetime(n, e, 0, "Independent", 0)
    PROVE  \A f : Carries(f, A, B) => NamesItsOwner(f)'
  BY NamesNothing DEF Carries, Lifetime

\* An announce that advertises a path, no newer than it, names it.
LEMMA NamesPath ==
    ASSUME PathsEvolve, NEW q \in paths', NEW f,
           f.lifetime.path = q.gen, f.lifetime.state = "Independent",
           f.packet.kind = "announce", f.packet.dest = q.dest, f.packet.hops = q.hops,
           f.packet.id \in 0 .. q.emitted
    PROVE  NamesItsOwner(f)'
<1>1. \A x \in paths' : x.gen = q.gen => x = q
  BY DEF PathsEvolve, RoutesUnique
<1>. QED
  BY <1>1 DEF NamesItsOwner

\* Counters that do not move evolve.
LEMMA LastQuiet ==
    ASSUME IInv, UNCHANGED last
    PROVE  LastEvolves
  BY DEF IInv, TypeOK, LastEvolves, Counters

\* Queueing for the slots A issues that many delivery identities and nothing else.
LEMMA LastDelivers ==
    ASSUME IInv, NEW A, A \subseteq Slots,
           last' = [last EXCEPT !.delivery = @ + Cardinality(A)]
    PROVE  /\ LastEvolves /\ last'.interface = last.interface /\ last'.path = last.path
           /\ last'.reverse = last.reverse /\ last'.link = last.link
           /\ last'.discovery = last.discovery
<1>1. Cardinality(A) \in Nat
  BY CardinalityOfSlots
<1>2. last \in Counters
  BY DEF IInv, TypeOK, Counters
<1>. QED
  BY <1>1, <1>2 DEF LastEvolves, Counters

\* When the lifetime that a handler builds has its tokens issued.
LEMMA LifetimeIsIssued ==
    ASSUME LastEvolves, NEW n \in Nat, NEW e \in Nat, NEW g \in Nat, NEW o \in Nat,
           NEW s \in {"Independent", "Discovery", "Reverse", "Link"},
           n <= time', g <= last'.path,
           s = "Reverse" => o <= last'.reverse,
           s = "Link" => o <= last'.link,
           s = "Discovery" => o <= last'.discovery
    PROVE  LifetimeIssued(Lifetime(n, e, g, s, o))
  BY DEF Lifetime, LifetimeType, LifetimeIssued, OwnerIssued

\* The bytes of a path response or rebroadcast are tied to an issued path.
LEMMA PathTokenIssued ==
    ASSUME IInv, LastEvolves, time' = time, NEW p \in PathEntry, p.gen <= last'.path
    PROVE  LifetimeIssued(PathToken(p))
<1>1. Least(time + Param.outbound, p.expires) \in Nat /\ p.gen \in Nat
  BY ParamAssumption DEF IInv, TypeOK, PathEntry, Least
<1>2. time \in Nat /\ time <= time'
  BY DEF IInv, TypeOK
<1>. QED
  BY <1>1, <1>2, LifetimeIsIssued DEF PathToken

\* A lifetime without tokens.
LEMMA IndependentIssued ==
    ASSUME IInv, LastEvolves, time' = time, NEW n \in Nat, n <= time, NEW e \in Nat
    PROVE  LifetimeIssued(Lifetime(n, e, 0, "Independent", 0))
<1>1. last'.path \in Nat
  BY DEF LastEvolves, Counters
<1>. QED
  BY <1>1, LifetimeIsIssued DEF IInv, TypeOK

-----------------------------------------------------------------------------
(* Receiving                                                               *)

\* What every ingest leaves alone.
Received == clock_ms' = time /\ UNCHANGED <<time, interfaceVars, held>>

\* Receiving a packet leaves the clock in order and the registry alone.
LEMMA ReceivedQuiet ==
    ASSUME IInv, LastEvolves, Received
    PROVE  ClockEvolves /\ InterfacesEvolve /\ SameRegistry
<1>1. ClockEvolves
  BY ClockTicks DEF Received
<1>2. SameRegistry /\ announce_gates' = announce_gates
  BY DEF Received, interfaceVars, SameRegistry
<1>. QED
  BY <1>1, <1>2, GatesQuiet

\* A handler that gives up before it queues anything.
LEMMA IdleQuiet ==
    ASSUME IInv, Received, Idle
    PROVE  /\ LastEvolves /\ ClockEvolves /\ InterfacesEvolve /\ SameRegistry
           /\ DiscoveriesEvolve /\ FramesEvolve /\ answered' = answered
<1>1. LastEvolves
  BY LastQuiet DEF Idle
<1>2. discoveries' \subseteq discoveries /\ outbound' \subseteq outbound /\ held' = held
  BY ExpireShrinks DEF Idle, Received
<1>3. ClockEvolves /\ InterfacesEvolve /\ SameRegistry
  BY <1>1, ReceivedQuiet
<1>4. DiscoveriesEvolve
  BY <1>1, <1>2, <1>3, QuietTables
<1>5. FramesEvolve
  BY <1>2, FramesShrink DEF Frames
<1>. QED
  BY <1>1, <1>3, <1>4, <1>5 DEF Idle

\* The hop count after the transport increment is a natural number.
LEMMA HopsType ==
    ASSUME NEW p \in Packets, p.kind # "path_request"
    PROVE  Hops(p) \in Nat
  BY PacketsAssumption DEF Hops

\* Queueing for online slots under issued lifetimes.
LEMMA QueuedQuiet ==
    ASSUME IInv, Received, NEW A, A \subseteq {s \in Slots : registry[s] \in online},
           NEW reason, ~gated(reason), NEW B, outbound' = Enqueue(LiveOutbound, A, reason, B),
           LastEvolves, \A s \in A : LifetimeIssued(B[s].lifetime),
           \A f : Carries(f, A, B) => NamesItsOwner(f)'
    PROVE  ClockEvolves /\ InterfacesEvolve /\ FramesEvolve /\ SameRegistry
<1>1. ClockEvolves /\ InterfacesEvolve /\ SameRegistry
  BY ReceivedQuiet
<1>2. LiveOutbound \subseteq outbound /\ held' = held
  BY ExpireShrinks DEF Received
<1>3. FramesEvolve
  BY <1>1, <1>2, EnqueuedFrames
<1>. QED
  BY <1>1, <1>3

\* The slot sets the handlers build hold registry slots.
LEMMA SlotsOf ==
    /\ \A id : slot(id) \subseteq Slots
    /\ \A source, T : T \subseteq Slots => Forwardable(source, T) \subseteq Slots
    /\ \A source, local_only : BroadcastSlots(source, local_only) \subseteq Slots
  BY DEF slot, Forwardable, BroadcastSlots

-----------------------------------------------------------------------------
(* What evolutions preserve                                                  *)

\* Tokens once issued stay issued: the counters only grow.
LEMMA IssuedStays ==
    ASSUME IInv, LastEvolves, NEW l \in LifetimeType, OwnerIssued(l, last)
    PROVE  OwnerIssued(l, last')
<1>1. last \in Counters /\ last' \in Counters
  BY DEF IInv, TypeOK, LastEvolves, Counters
<1>. QED
  BY <1>1 DEF LastEvolves, OwnerIssued, LifetimeType, Counters

\* A frame that was there keeps naming its owner: what its tokens resolve to after
\* an evolution continues what they resolved to before.
LEMMA OldFrameNamesItsOwner ==
    ASSUME IInv, Evolve, NEW f \in Frames
    PROVE  NamesItsOwner(f)'
<1> DEFINE l == f.lifetime
<1>0. PathsEvolve /\ ReverseEvolves /\ LinksEvolve /\ DiscoveriesEvolve
  BY DEF Evolve
<1>1. l \in LifetimeType /\ OwnerIssued(l, last) /\ NamesItsOwner(f)
  BY Zenon DEF IInv, TypeOK, GenerationsIssued, TokensNameTheirOwner
<1>2. last \in Counters
  BY NumbersOK
<1>3. ASSUME NEW q \in paths', q.gen = l.path
      PROVE  \E p \in paths : Continues(p, q) /\ p.gen = l.path
  <2>1. q.gen <= last.path /\ q.gen \in Nat /\ last.path \in Nat
    BY <1>1, <1>2, <1>3 DEF OwnerIssued, Counters, LifetimeType
  <2>2. ~(q.gen > last.path)
    BY <2>1
  <2>3. PICK p \in paths : Continues(p, q)
    BY Zenon, <1>0, <2>2 DEF PathsEvolve
  <2>. QED
    BY Zenon, <1>3, <2>3 DEF Continues
<1>4. ASSUME l.state = "Reverse", NEW r \in reverse', r.gen = l.owner
      PROVE  r \in reverse
  <2>1. r.gen <= last.reverse /\ r.gen \in Nat /\ last.reverse \in Nat
    BY <1>1, <1>2, <1>4 DEF OwnerIssued, Counters, LifetimeType
  <2>2. ~(r.gen > last.reverse)
    BY <2>1
  <2>. QED
    BY Zenon, <1>0, <2>2 DEF ReverseEvolves
<1>5. ASSUME l.state = "Link", NEW k \in links', k.gen = l.owner
      PROVE  \E m \in links : SameLink(m, k)
  <2>1. k.gen <= last.link /\ k.gen \in Nat /\ last.link \in Nat
    BY <1>1, <1>2, <1>5 DEF OwnerIssued, Counters, LifetimeType
  <2>2. ~(k.gen > last.link)
    BY <2>1
  <2>. QED
    BY Zenon, <1>0, <2>2 DEF LinksEvolve
<1>6. ASSUME l.state = "Discovery", NEW d \in discoveries', d.gen = l.owner
      PROVE  \E c \in discoveries : SameDiscovery(c, d)
  <2>1. d.gen <= last.discovery /\ d.gen \in Nat /\ last.discovery \in Nat
    BY <1>1, <1>2, <1>6 DEF OwnerIssued, Counters, LifetimeType
  <2>2. ~(d.gen > last.discovery)
    BY <2>1
  <2>. QED
    BY Zenon, <1>0, <2>2 DEF DiscoveriesEvolve
<1>7. ASSUME NEW q \in paths', q.gen = l.path
      PROVE  /\ q.dest = f.packet.dest
             /\ f.packet.kind = "announce" =>
                  f.packet.hops = q.hops /\ f.packet.id \in 0 .. q.emitted
             /\ f.packet.kind \in {"data", "link_request"} =>
                  f.interface = q.interface /\ f.packet.next_hop = NextHeader(q)
  <2>1. PICK p \in paths : Continues(p, q) /\ p.gen = l.path
    BY <1>3, <1>7
  <2>2. /\ p.dest = q.dest /\ p.hops = q.hops /\ p.interface = q.interface
        /\ p.next_hop = q.next_hop /\ p.emitted <= q.emitted
    BY <2>1 DEF Continues, same_route
  <2>3. /\ p.dest = f.packet.dest
        /\ f.packet.kind = "announce" =>
             f.packet.hops = p.hops /\ f.packet.id \in 0 .. p.emitted
        /\ f.packet.kind \in {"data", "link_request"} =>
             f.interface = p.interface /\ f.packet.next_hop = NextHeader(p)
    BY Zenon, <1>1, <2>1 DEF NamesItsOwner
  <2>4. NextHeader(p) = NextHeader(q)
    BY <2>2 DEF NextHeader
  <2>5. f.packet.kind = "announce" => f.packet.id \in 0 .. q.emitted
    <3>1. p.emitted \in Nat /\ q.emitted \in Nat
      BY <1>0 DEF IInv, TypeOK, PathsEvolve, PathEntry
    <3>. QED
      BY <2>2, <2>3, <3>1
  <2>. QED
    BY <2>2, <2>3, <2>4, <2>5
<1>8. ASSUME l.state = "Reverse", NEW r \in reverse', r.gen = l.owner
      PROVE  r.key = f.packet.id /\ r.outbound = f.interface
  BY ZenonT(30), <1>1, <1>4, <1>8 DEF NamesItsOwner
<1>9. ASSUME l.state = "Link", NEW k \in links', k.gen = l.owner
      PROVE  k.key = f.packet.id /\ f.interface \in {k.outbound, k.receiving}
  <2>1. PICK m \in links : SameLink(m, k)
    BY ZenonT(30), <1>5, <1>9
  <2>. QED
    BY ZenonT(30), <1>1, <1>9, <2>1 DEF NamesItsOwner, SameLink
<1>10. ASSUME l.state = "Discovery", NEW d \in discoveries', d.gen = l.owner
       PROVE  d.dest = f.packet.dest
  <2>1. PICK c \in discoveries : SameDiscovery(c, d)
    BY Zenon, <1>6, <1>10
  <2>. QED
    BY ZenonT(30), <1>1, <1>10, <2>1 DEF NamesItsOwner, SameDiscovery
<1>. QED
  BY Zenon, <1>7, <1>8, <1>9, <1>10 DEF NamesItsOwner

\* A registration that a frame still names was there before the step, and its gate
\* has only moved forward.
LEMMA OldRegistration ==
    ASSUME IInv, Evolve, NEW f \in Frames, NEW s \in Slots,
           registry'[s] = f.interface, generations'[s] = f.delivery
    PROVE  /\ registry[s] = f.interface /\ generations[s] = f.delivery
           /\ f.interface \in online' => f.interface \in online
           /\ announce_gates[s] <= announce_gates'[s]
<1>1. f.delivery \in Nat \ {0} /\ f.delivery <= last.interface /\ last.interface \in Nat
  BY Zenon, NumbersOK DEF IInv, TypeOK, GenerationsIssued, Counters
<1>2. \/ /\ generations'[s] = generations[s] /\ registry'[s] = registry[s]
         /\ registry[s] \in online' => registry[s] \in online
         /\ announce_gates[s] <= announce_gates'[s]
      \/ generations'[s] = 0
      \/ generations'[s] > last.interface
  BY Zenon DEF Evolve, InterfacesEvolve
<1>3. f.delivery # 0 /\ ~(f.delivery > last.interface)
  BY <1>1
<1>. QED
  BY Zenon, <1>2, <1>3

\* The gates cover the announces released after an evolution, old ones and new.
LEMMA GatesStayShut ==
    ASSUME IInv, Evolve
    PROVE  GatesCover'
<1>0. InterfacesEvolve /\ FramesEvolve
  BY DEF Evolve
<1> SUFFICES ASSUME NEW f \in Frames', NEW s \in Slots, gated(f.reason),
                    registry'[s] = f.interface, generations'[s] = f.delivery
             PROVE  f.lifetime.enqueued + Config[f.interface].spacing <= announce_gates'[s]
  BY Zenon DEF GatesCover
<1>1. CASE f \in Frames
  <2>1. /\ registry[s] = f.interface /\ generations[s] = f.delivery
        /\ announce_gates[s] <= announce_gates'[s]
    BY <1>1, OldRegistration
  <2>2. f.lifetime.enqueued + Config[f.interface].spacing <= announce_gates[s]
    BY ZenonT(30), <1>1, <2>1 DEF IInv, GatesCover
  <2>3. f.lifetime.enqueued \in Nat /\ f.interface \in Ids
    BY <1>1 DEF IInv, TypeOK, LifetimeType
  <2>4. announce_gates[s] \in Nat /\ announce_gates'[s] \in Nat /\ Config[f.interface].spacing \in Nat
    BY <1>0, <2>3, ConfigAssumption DEF IInv, TypeOK, InterfacesEvolve
  <2>. QED
    BY <2>1, <2>2, <2>3, <2>4
<1>2. CASE f \notin Frames
  <2>1. f \in NewFrames
    BY <1>2 DEF NewFrames, Frames
  <2>2. PICK r \in Slots :
          /\ registry'[r] = f.interface
          /\ f.lifetime.enqueued + Config[f.interface].spacing <= announce_gates'[r]
    BY ZenonT(30), <1>0, <2>1 DEF FramesEvolve, ShutsItsGate
  <2>3. r = s
    <3>1. f.interface # NoId
      BY <1>0, <2>1, IdsAssumption DEF FramesEvolve
    <3>. QED
      BY Zenon, <1>0, <2>2, <3>1 DEF InterfacesEvolve, RegistrationOK
  <2>. QED
    BY <2>2, <2>3
<1>. QED
  BY <1>1, <1>2

\* A new announce is spaced from the old ones of its registration, whose gate had
\* opened; a step releases one announce to an interface at most.
LEMMA AnnouncesStaySpaced ==
    ASSUME IInv, Evolve
    PROVE  AnnouncesAreSpaced'
<1>0. FramesEvolve
  BY DEF Evolve
<1>1. ASSUME NEW f \in Frames, NEW g \in NewFrames, gated(f.reason), gated(g.reason),
             f.interface = g.interface, f.delivery = g.delivery
      PROVE  f.lifetime.enqueued + Config[f.interface].spacing <= g.lifetime.enqueued
  <2>1. PICK s \in Slots : /\ registry[s] = g.interface /\ generations[s] = g.delivery
                           /\ announce_gates[s] <= g.lifetime.enqueued
    BY Zenon, <1>0, <1>1 DEF FramesEvolve, ShutsItsGate
  <2>2. f.lifetime.enqueued + Config[f.interface].spacing <= announce_gates[s]
    BY ZenonT(30), <1>1, <2>1 DEF IInv, GatesCover
  <2>3. f.lifetime.enqueued \in Nat /\ f.interface \in Ids /\ g.lifetime.enqueued \in Nat
    BY <1>0 DEF IInv, TypeOK, LifetimeType, FramesEvolve, LifetimeIssued
  <2>4. announce_gates[s] \in Nat /\ Config[f.interface].spacing \in Nat
    BY <2>3, ConfigAssumption DEF IInv, TypeOK
  <2>. QED
    BY <2>1, <2>2, <2>3, <2>4
<1>2. \A f \in Frames' : f \in Frames \/ f \in NewFrames
  BY DEF NewFrames, Frames
<1> SUFFICES ASSUME NEW f \in Frames', NEW g \in Frames', gated(f.reason), gated(g.reason),
                    f # g, f.interface = g.interface, f.delivery = g.delivery
             PROVE  \/ f.lifetime.enqueued + Config[f.interface].spacing <= g.lifetime.enqueued
                    \/ g.lifetime.enqueued + Config[f.interface].spacing <= f.lifetime.enqueued
  BY Zenon DEF AnnouncesAreSpaced
<1>3. CASE f \in Frames /\ g \in Frames
  BY Zenon, <1>3 DEF IInv, AnnouncesAreSpaced
<1>4. CASE f \in Frames /\ g \in NewFrames
  BY Zenon, <1>1, <1>4
<1>5. CASE f \in NewFrames /\ g \in Frames
  <2>1. g.lifetime.enqueued + Config[g.interface].spacing <= f.lifetime.enqueued
    BY <1>1, <1>5
  <2>. QED
    BY <2>1
<1>6. CASE f \in NewFrames /\ g \in NewFrames
  BY <1>0, <1>6 DEF FramesEvolve
<1>. QED
  BY <1>2, <1>3, <1>4, <1>5, <1>6

\* An evolution preserves the inductive invariant.
LEMMA EvolveInvariant ==
    ASSUME IInv, Evolve
    PROVE  IInv'
<1>0. /\ ClockEvolves /\ LastEvolves /\ InterfacesEvolve /\ PathsEvolve /\ ReverseEvolves
      /\ LinksEvolve /\ DiscoveriesEvolve /\ AnnouncesEvolve /\ FramesEvolve
  BY DEF Evolve
<1>1. last.interface \in Nat /\ last'.interface \in Nat /\ last.interface <= last'.interface
  BY <1>0 DEF IInv, TypeOK, LastEvolves, Counters
<1>2. ASSUME NEW f \in Frames'
      PROVE  /\ f.interface \in Ids /\ f.delivery \in Nat \ {0} /\ f.identity \in Nat
             /\ f.lifetime \in LifetimeType
             /\ f.delivery <= last'.interface /\ f.lifetime.enqueued <= time'
             /\ OwnerIssued(f.lifetime, last')
  <2>1. CASE f \in Frames
    <3>1. /\ f.interface \in Ids /\ f.delivery \in Nat \ {0} /\ f.identity \in Nat
          /\ f.lifetime \in LifetimeType
      BY <2>1 DEF IInv, TypeOK
    <3>2. /\ f.delivery <= last.interface /\ f.lifetime.enqueued <= time
          /\ OwnerIssued(f.lifetime, last)
      BY <2>1 DEF IInv, GenerationsIssued
    <3>3. OwnerIssued(f.lifetime, last')
      BY <1>0, <3>1, <3>2, IssuedStays
    <3>4. f.lifetime.enqueued \in Nat /\ time \in Nat /\ time' \in Nat /\ time <= time'
      BY <1>0, <3>1 DEF IInv, TypeOK, ClockEvolves, LifetimeType
    <3>. QED
      BY <1>1, <3>1, <3>2, <3>3, <3>4
  <2>2. CASE f \notin Frames
    BY <1>0, <2>2 DEF FramesEvolve, NewFrames, Frames, LifetimeIssued
  <2>. QED
    BY <2>1, <2>2
<1>3. TypeOK'
  BY Zenon, <1>0, <1>2 DEF TypeOK, ClockEvolves, LastEvolves, Counters, InterfacesEvolve, PathsEvolve,
     ReverseEvolves, LinksEvolve, DiscoveriesEvolve, AnnouncesEvolve
<1>4. RegistrationOK' /\ RoutesUnique' /\ ReverseUnique' /\ LinksUnique' /\ ProofReturnedOnce'
  BY Zenon, <1>0 DEF InterfacesEvolve, PathsEvolve, ReverseEvolves, LinksEvolve
<1>5. GenerationsIssued'
  BY Zenon, <1>0, <1>2 DEF GenerationsIssued, InterfacesEvolve, PathsEvolve, ReverseEvolves, LinksEvolve,
     DiscoveriesEvolve
<1>6. RoutesNameLiveInterfaces'
  BY Zenon, <1>0 DEF RoutesNameLiveInterfaces, PathsEvolve, ReverseEvolves, LinksEvolve, AnnouncesEvolve
<1>7. /\ CacheMatchesPath' /\ ScheduleMatchesPath'
      /\ RequestersAreCurrent' /\ PendingTargetsAreAllowed'
  BY Zenon, <1>0 DEF DiscoveriesEvolve, AnnouncesEvolve
<1>8. TokensNameTheirOwner'
  <2>1. \A f \in Frames' \ Frames : NamesItsOwner(f)'
    BY <1>0 DEF FramesEvolve, NewFrames, Frames
  <2>. QED
    BY Zenon, <2>1, OldFrameNamesItsOwner DEF TokensNameTheirOwner
<1>. QED
  BY <1>3, <1>4, <1>5, <1>6, <1>7, <1>8, GatesStayShut, AnnouncesStaySpaced DEF IInv

\* What the tokens of a frame resolve to after an evolution, they resolved to
\* before it: a frame that is live then was live already.
LEMMA LiveWasLive ==
    ASSUME IInv, Evolve, NEW f \in Frames, router_outbound_is_live(f, time)'
    PROVE  router_outbound_is_live(f, time)
<1> DEFINE l == f.lifetime
<1>0. /\ ClockEvolves /\ LastEvolves /\ InterfacesEvolve /\ PathsEvolve /\ ReverseEvolves
      /\ LinksEvolve /\ DiscoveriesEvolve
  BY DEF Evolve
<1>1. /\ f.delivery \in Nat \ {0} /\ f.delivery <= last.interface
      /\ l \in LifetimeType /\ l.enqueued <= time /\ OwnerIssued(l, last)
  BY ZenonT(30) DEF IInv, TypeOK, GenerationsIssued
<1>2. time \in Nat /\ time' \in Nat /\ time <= time'
  BY <1>0 DEF IInv, TypeOK, ClockEvolves
<1>3. last \in Counters
  BY DEF IInv, TypeOK, Counters
<1>4. delivery_is_current(f.interface, f.delivery)' /\ outbound_lifetime_is_live(f.interface, l, time)'
  BY DEF router_outbound_is_live
<1>5. PICK s \in Slots : registry'[s] = f.interface /\ generations'[s] = f.delivery
  BY <1>4 DEF delivery_is_current, slot
<1>6. /\ generations[s] = f.delivery /\ registry[s] = f.interface
      /\ f.interface \in online' => f.interface \in online
  BY Zenon, <1>5, OldRegistration
<1>7. delivery_is_current(f.interface, f.delivery)
  BY Zenon, <1>1, <1>6 DEF delivery_is_current, slot
<1>8. outbound_interface_online(f.interface)
  BY Zenon, <1>4, <1>6 DEF outbound_lifetime_is_live, outbound_interface_online
<1>9. l.enqueued <= time /\ time < l.expires
  <2>1. l.enqueued <= time /\ time' < l.expires /\ l.expires \in Nat
    BY ZenonT(30), <1>1, <1>4 DEF outbound_lifetime_is_live, LifetimeType
  <2>. QED
    BY <1>2, <2>1
<1>10. ASSUME l.path # 0
       PROVE  \E p \in paths : /\ p.gen = l.path /\ time < p.expires
                               /\ outbound_interface_online(p.interface)
  <2>1. PICK q \in paths' : /\ q.gen = l.path /\ time' < q.expires
                            /\ q.interface \in online' /\ Config[q.interface].outbound
    BY Zenon, <1>4, <1>10 DEF outbound_lifetime_is_live, outbound_interface_online
  <2>2. q.gen \in Nat /\ q.expires \in Nat
    BY Zenon, <1>0 DEF PathsEvolve, PathEntry
  <2>3. ~(q.gen > last.path)
    <3>1. q.gen <= last.path /\ last.path \in Nat
      BY Zenon, <1>1, <1>3, <2>1 DEF OwnerIssued, Counters
    <3>. QED
      BY <2>2, <3>1
  <2>4. PICK p \in paths : /\ p.gen = q.gen /\ p.interface = q.interface
                           /\ time < q.expires => time < p.expires
    BY Zenon, <1>0, <2>3 DEF PathsEvolve, Continues, same_route
  <2>5. time < q.expires
    BY <1>2, <2>1, <2>2
  <2>6. p.interface \in online
    BY Zenon DEF IInv, RoutesNameLiveInterfaces
  <2>. QED
    BY <2>1, <2>4, <2>5, <2>6 DEF outbound_interface_online
<1>11. ASSUME l.state = "Discovery"
       PROVE  /\ TransportEnabled
              /\ \E d \in discoveries : d.gen = l.owner /\ d.requesters # {} /\ time < d.expires
  <2>1. TransportEnabled
    BY Zenon, <1>4, <1>11 DEF outbound_lifetime_is_live
  <2>2. PICK d \in discoveries' : d.gen = l.owner /\ d.requesters # {} /\ time' < d.expires
    BY Zenon, <1>4, <1>11 DEF outbound_lifetime_is_live
  <2>3. d.gen \in Nat /\ d.expires \in Nat
    BY Zenon, <1>0 DEF DiscoveriesEvolve, DiscoveryEntry
  <2>4. ~(d.gen > last.discovery)
    <3>1. d.gen <= last.discovery /\ last.discovery \in Nat
      BY Zenon, <1>1, <1>3, <1>11, <2>2 DEF OwnerIssued, Counters
    <3>. QED
      BY <2>3, <3>1
  <2>5. PICK c \in discoveries : /\ c.gen = d.gen /\ c.expires = d.expires
                                 /\ d.requesters # {} => c.requesters # {}
    BY Zenon, <1>0, <2>4 DEF DiscoveriesEvolve, SameDiscovery
  <2>6. time < d.expires
    BY <1>2, <2>2, <2>3
  <2>. QED
    BY <2>1, <2>2, <2>5, <2>6
<1>12. ASSUME l.state = "Reverse"
       PROVE  \E r \in reverse : /\ r.gen = l.owner /\ time < r.expires
                                 /\ r.outbound = f.interface
                                 /\ outbound_interface_online(r.receiving)
  <2>1. PICK r \in reverse' : /\ r.gen = l.owner /\ time' < r.expires
                              /\ r.outbound = f.interface
                              /\ r.receiving \in online' /\ Config[r.receiving].outbound
    BY ZenonT(30), <1>4, <1>12 DEF outbound_lifetime_is_live, outbound_interface_online
  <2>2. r.gen \in Nat /\ r.expires \in Nat
    BY <1>0 DEF ReverseEvolves, ReverseEntry
  <2>3. ~(r.gen > last.reverse)
    <3>1. r.gen <= last.reverse /\ last.reverse \in Nat
      BY Zenon, <1>1, <1>3, <1>12, <2>1 DEF OwnerIssued, Counters
    <3>. QED
      BY <2>2, <3>1
  <2>4. r \in reverse
    BY Zenon, <1>0, <2>3 DEF ReverseEvolves
  <2>5. r.receiving \in online
    BY Zenon, <2>4 DEF IInv, RoutesNameLiveInterfaces
  <2>6. time < r.expires
    BY <1>2, <2>1, <2>2
  <2>. QED
    BY <2>1, <2>4, <2>5, <2>6 DEF outbound_interface_online
<1>13. ASSUME l.state = "Link"
       PROVE  \E k \in links : /\ k.gen = l.owner /\ time < k.expires
                               /\ f.interface \in {k.outbound, k.receiving}
                               /\ outbound_interface_online(k.outbound)
                               /\ outbound_interface_online(k.receiving)
  <2>1. PICK k \in links' : /\ k.gen = l.owner /\ time' < k.expires
                            /\ f.interface \in {k.outbound, k.receiving}
                            /\ Config[k.outbound].outbound /\ Config[k.receiving].outbound
    BY Zenon, <1>4, <1>13 DEF outbound_lifetime_is_live, outbound_interface_online
  <2>2. k.gen \in Nat /\ k.expires \in Nat
    BY Zenon, <1>0 DEF LinksEvolve, LinkEntry
  <2>3. ~(k.gen > last.link)
    <3>1. k.gen <= last.link /\ last.link \in Nat
      BY Zenon, <1>1, <1>3, <1>13, <2>1 DEF OwnerIssued, Counters
    <3>. QED
      BY <2>2, <3>1
  <2>4. PICK m \in links : /\ m.gen = k.gen
                           /\ m.receiving = k.receiving /\ m.outbound = k.outbound
                           /\ time < k.expires => time < m.expires
    BY Zenon, <1>0, <2>3 DEF LinksEvolve, SameLink
  <2>5. m.receiving \in online /\ m.outbound \in online
    BY Zenon DEF IInv, RoutesNameLiveInterfaces
  <2>6. time < k.expires
    BY <1>2, <2>1, <2>2
  <2>. QED
    BY <2>1, <2>4, <2>5, <2>6 DEF outbound_interface_online
<1>14. outbound_lifetime_is_live(f.interface, l, time)
  <2> HIDE DEF l
  <2>. QED
    BY Zenon, <1>8, <1>9, <1>10, <1>11, <1>12, <1>13 DEF outbound_lifetime_is_live
<1>. QED
  BY <1>7, <1>14 DEF router_outbound_is_live
=============================================================================
