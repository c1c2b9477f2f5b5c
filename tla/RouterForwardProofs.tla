------------------------ MODULE RouterForwardProofs -------------------------
(***************************************************************************)
(* Packets that are passed on are evolutions: data, proofs, links and plain *)
(* broadcasts.                                                             *)
(***************************************************************************)
EXTENDS RouterEvolve

\* The time every leaf may take that names no prover of its own.
USE SMTT(60)

----------------------------------------------------------------------------
(* Forwarding                                                              *)

\* The generation a new link takes is in no entry yet.
LEMMA FreshLink ==
    ASSUME IInv
    PROVE  \A k \in links : k.gen # last.link + 1
  BY DEF IInv, TypeOK, GenerationsIssued, LinkEntry

\* `touch` extends only a live route and keeps all but its deadline.
LEMMA PathsTouched ==
    ASSUME IInv, LastEvolves, SameRegistry, NEW d, paths' = touch(paths, d, time)
    PROVE  PathsEvolve /\ \A q \in paths' : \E p \in paths : SameLesson(p, q)
<1> DEFINE touched(p) == [p EXCEPT !.last_seen = time,
                                   !.expires = time + (p.expires - p.last_seen)]
<1>1. last.path \in Nat /\ last'.path \in Nat /\ last.path <= last'.path /\ time \in Nat
  BY DEF IInv, TypeOK, LastEvolves, Counters
<1>2. \A p \in paths : /\ p \in PathEntry /\ p.gen \in Nat /\ p.gen <= last.path
                       /\ p.last_seen <= p.expires /\ p.interface \in online
                       /\ p.last_seen \in Nat /\ p.expires \in Nat /\ p.emitted \in Nat
  BY DEF IInv, TypeOK, GenerationsIssued, RoutesNameLiveInterfaces, PathEntry
<1>3. ASSUME NEW p \in paths
      PROVE  /\ touched(p) \in PathEntry /\ touched(p).gen = p.gen
             /\ touched(p).interface = p.interface /\ touched(p).dest = p.dest
             /\ touched(p).next_hop = p.next_hop /\ touched(p).hops = p.hops
             /\ touched(p).emitted = p.emitted /\ touched(p).response = p.response
             /\ touched(p).last_seen <= touched(p).expires
  <2> DEFINE e == time + (p.expires - p.last_seen)
  <2>1. e \in Nat /\ time <= e
    BY <1>1, <1>2
  <2> HIDE DEF e
  <2>2. touched(p) = [p EXCEPT !.last_seen = time, !.expires = e]
    BY DEF e
  <2>. QED
    BY Zenon, <1>1, <1>2, <2>1, <2>2 DEF PathEntry
<1> DEFINE image(p) == IF p.dest = d /\ time < p.expires THEN touched(p) ELSE p
<1>4. \A q \in paths' : \E p \in paths : q = image(p)
  BY Zenon DEF touch
<1> HIDE DEF touched
<1>5. \A p \in paths : \/ image(p) = p
                       \/ image(p) = touched(p) /\ time < p.expires
  OBVIOUS
<1> HIDE DEF image
<1>6. ASSUME NEW p \in paths, NEW q, q = image(p)
      PROVE  /\ q \in PathEntry /\ q.last_seen <= q.expires /\ q.gen = p.gen
             /\ same_route(p, q) /\ SameLesson(p, q)
             /\ time < q.expires => time < p.expires
  BY <1>2, <1>3, <1>5, <1>6 DEF same_route, SameLesson
<1>7. ASSUME NEW q \in paths'
      PROVE  /\ q \in PathEntry /\ q.last_seen <= q.expires /\ q.interface \in online'
             /\ q.gen <= last'.path /\ ~(q.gen > last.path)
             /\ \E p \in paths : Continues(p, q) /\ SameLesson(p, q)
  <2>1. PICK p \in paths : q = image(p)
    BY <1>4
  <2>2. /\ q \in PathEntry /\ q.last_seen <= q.expires /\ q.gen = p.gen
        /\ same_route(p, q) /\ SameLesson(p, q)
        /\ time < q.expires => time < p.expires
    BY <1>6, <2>1
  <2>3. q.interface \in online' /\ q.gen <= last'.path /\ ~(q.gen > last.path)
    BY <1>1, <1>2, <2>2 DEF same_route, SameRegistry
  <2>4. Continues(p, q)
    BY <1>2, <2>2 DEF Continues, SameLesson
  <2>. QED
    BY <2>2, <2>3, <2>4
<1>8. RoutesUnique'
  <2> SUFFICES ASSUME NEW q \in paths', NEW r \in paths', q.dest = r.dest \/ q.gen = r.gen
               PROVE  q = r
    BY DEF RoutesUnique
  <2>1. PICK p \in paths : q = image(p)
    BY <1>4
  <2>2. PICK x \in paths : r = image(x)
    BY <1>4
  <2>3. p.dest = x.dest \/ p.gen = x.gen
    BY <1>6, <2>1, <2>2 DEF same_route
  <2>. QED
    BY <2>1, <2>2, <2>3 DEF IInv, RoutesUnique
<1>9. RollsNoPathBack
  <2> SUFFICES ASSUME NEW p \in paths, NEW q \in paths', p.dest = q.dest
               PROVE  q.emitted = p.emitted /\ same_route(p, q) /\ p.gen = q.gen
    BY DEF RollsNoPathBack
  <2>1. PICK x \in paths : q = image(x)
    BY <1>4
  <2>2. q.gen = x.gen /\ same_route(x, q) /\ SameLesson(x, q)
    BY <1>6, <2>1
  <2>3. x = p
    BY <2>2 DEF IInv, RoutesUnique, same_route
  <2>. QED
    BY <2>2, <2>3 DEF SameLesson
<1>10. DisplacesBulkFirst
  BY <1>7 DEF DisplacesBulkFirst
<1>. QED
  BY <1>7, <1>8, <1>9, <1>10 DEF PathsEvolve

\* A route is admitted only on its own interface, when that is online.
LEMMA RouteAdmitsSlots ==
    ASSUME NEW q, NEW source, NEW size
    PROVE  RouteAdmits(q, source, size) \subseteq
             {s \in Slots : registry[s] \in online /\ registry[s] = q.interface}
<1>1. Forwardable(source, slot(q.interface)) \subseteq {s \in Slots : registry[s] = q.interface}
  BY DEF Forwardable, slot
<1>. QED
  BY <1>1, AdmittedSlots DEF RouteAdmits

\* A path that keeps its generation keeps its route.
LEMMA SameGenSameRoute ==
    ASSUME IInv, PathsEvolve, NEW q \in paths, NEW x \in paths', x.gen = q.gen
    PROVE  same_route(q, x)
<1>1. q.gen <= last.path /\ q.gen \in Nat /\ last.path \in Nat
  BY DEF IInv, TypeOK, GenerationsIssued, PathEntry
<1>2. PICK p \in paths : Continues(p, x)
  BY <1>1 DEF PathsEvolve
<1>3. p = q
  BY <1>2 DEF Continues, IInv, RoutesUnique
<1>. QED
  BY Zenon, <1>2, <1>3 DEF Continues

\* A forwarded packet has its path and owner tokens issued, and names the route
\* its header was rewritten for and the entry recorded for it.
LEMMA ForwardedFrames ==
    ASSUME IInv, Received, LastEvolves, PathsEvolve, NEW q \in paths,
           NEW p \in Packets, p.kind # "announce", q.dest = p.dest, NEW key,
           NEW A, A \subseteq {s \in Slots : registry[s] \in online /\ registry[s] = q.interface},
           NEW e \in Nat, NEW st \in {"Reverse", "Link"}, NEW o \in Nat,
           st = "Reverse" => o <= last'.reverse, st = "Link" => o <= last'.link,
           st = "Reverse" =>
             \A r \in reverse' : r.gen = o => r.key = key /\ r.outbound = q.interface,
           st = "Link" => \A k \in links' : k.gen = o => k.key = key /\ k.outbound = q.interface,
           ForwardOn(q, p, key, A, e, st, o)
    PROVE  FramesEvolve
<1> DEFINE n == Least(Least(time + Param.outbound, q.expires), e)
           l == Lifetime(time, n, q.gen, st, o)
           pkt == [kind |-> p.kind, dest |-> p.dest, id |-> key,
                   next_hop |-> NextHeader(q), hops |-> Hops(p)]
           body == [s \in Slots |-> [packet |-> pkt, lifetime |-> l]]
<1>1. outbound' = Enqueue(LiveOutbound, A, "TransportForward", body)
  BY Zenon DEF ForwardOn
<1>2. n \in Nat /\ q.gen \in Nat /\ q.gen <= last'.path /\ time \in Nat /\ time' = time
  <2>1. q.expires \in Nat /\ q.gen \in Nat /\ q.gen <= last.path /\ time \in Nat
    BY DEF IInv, TypeOK, GenerationsIssued, PathEntry
  <2>2. last.path \in Nat /\ last'.path \in Nat /\ last.path <= last'.path
    BY DEF IInv, TypeOK, LastEvolves, Counters
  <2>. QED
    BY <2>1, <2>2, ParamAssumption DEF Least, Received
<1> HIDE DEF n
<1>3. LifetimeIssued(l)
  BY <1>2, LifetimeIsIssued
<1>4. \A s \in A : LifetimeIssued(body[s].lifetime)
  BY <1>3
<1>5. ASSUME NEW f, Carries(f, A, body)
      PROVE  NamesItsOwner(f)'
  <2>1. f.interface = q.interface /\ f.packet = pkt /\ f.lifetime = l
    <3> HIDE DEF pkt, l
    <3>. QED
      BY <1>5 DEF Carries
  <2>2. /\ f.packet.kind # "announce" /\ f.packet.dest = q.dest /\ f.packet.id = key
        /\ f.packet.next_hop = NextHeader(q)
    BY <2>1
  <2>3. f.lifetime.path = q.gen /\ f.lifetime.state = st /\ f.lifetime.owner = o
    BY <2>1 DEF Lifetime
  <2>4. \A x \in paths' : x.gen = q.gen =>
          /\ x.dest = q.dest /\ x.interface = q.interface /\ NextHeader(x) = NextHeader(q)
    BY SameGenSameRoute DEF same_route, NextHeader
  <2>. QED
    BY Zenon, <2>1, <2>2, <2>3, <2>4 DEF NamesItsOwner
<1> HIDE DEF body
<1>. QED
  BY <1>1, <1>4, <1>5, QueuedQuiet DEF gated

\* The reverse entry of a forwarded packet has the next generation.
LEMMA ReverseInserted ==
    ASSUME IInv, LastEvolves, SameRegistry, NEW e \in ReverseEntry,
           e.gen = last.reverse + 1, last'.reverse = last.reverse + 1,
           e.receiving \in online, e.outbound \in online,
           reverse' \subseteq reverse \cup {e}, answered' = answered
    PROVE  ReverseEvolves
<1>1. last.reverse \in Nat
  BY DEF IInv, TypeOK
<1>2. \A r \in reverse : /\ r \in ReverseEntry /\ r.gen \in Nat /\ r.gen <= last.reverse
                         /\ r.receiving \in online /\ r.outbound \in online
  BY DEF IInv, TypeOK, GenerationsIssued, RoutesNameLiveInterfaces, ReverseEntry
<1>3. \A g \in answered : g \in Nat /\ g <= last.reverse
  BY DEF IInv, ReverseUnique
<1>4. ReverseUnique'
  BY <1>1, <1>2, <1>3 DEF IInv, ReverseUnique
<1>5. ProofReturnedOnce'
  BY <1>1, <1>3 DEF IInv, ProofReturnedOnce
<1>. QED
  BY <1>1, <1>2, <1>4, <1>5 DEF ReverseEvolves, SameRegistry

\* Forwarding data: the route is touched, the reverse entry recorded.
LEMMA DataForwarded ==
    ASSUME IInv, Received, NEW p \in PacketsOf("data"), p.interface \in online,
           NEW q \in paths, q.dest = p.dest,
           NEW A, A \subseteq {s \in Slots : registry[s] \in online /\ registry[s] = q.interface},
           ForwardData(p, q, A), UNCHANGED <<links, announce_cache, announce_schedule>>
    PROVE  Evolve
<1> DEFINE n == last.delivery + Cardinality(A)
           new == [key |-> p.id, receiving |-> p.interface, outbound |-> q.interface,
                   expires |-> time + Param.reverse, gen |-> last.reverse + 1]
<1>1. /\ ForwardOn(q, p, p.id, A, time + Param.reverse, "Reverse", last.reverse + 1)
      /\ paths' = touch(paths, p.dest, time)
      /\ reverse' \in keyed_insert(reverse, new, time, Cap.reverse)
      /\ last' = [last EXCEPT !.reverse = last.reverse + 1, !.delivery = n]
      /\ discoveries' = LiveDiscoveries /\ answered' = answered
  BY Zenon DEF ForwardData
<1>2. last \in Counters /\ n \in Nat /\ last.reverse \in Nat
  BY CardinalityOfSlots DEF IInv, TypeOK, Counters
<1> HIDE DEF n
<1>3. /\ last' \in Counters /\ last'.reverse = last.reverse + 1
      /\ last'.interface = last.interface /\ last'.path = last.path
      /\ last'.link = last.link /\ last'.discovery = last.discovery
  <2> DEFINE g == last.reverse + 1
  <2>1. last' = [last EXCEPT !.reverse = g, !.delivery = n] /\ g \in Nat
    BY <1>1, <1>2
  <2> HIDE DEF g
  <2>2. /\ last' \in Counters /\ last'.reverse = g
        /\ last'.interface = last.interface /\ last'.path = last.path
        /\ last'.link = last.link /\ last'.discovery = last.discovery
    BY Zenon, <1>2, <2>1 DEF Counters
  <2>. QED
    BY <2>2 DEF g
<1>4. LastEvolves
  BY <1>2, <1>3 DEF LastEvolves, Counters
<1>5. ClockEvolves /\ InterfacesEvolve /\ SameRegistry
  BY Zenon, <1>4, ReceivedQuiet
<1>6. time + Param.reverse \in Nat
  BY ParamAssumption DEF IInv, TypeOK
<1>7. PathsEvolve /\ \A x \in paths' : \E y \in paths : SameLesson(y, x)
  BY Zenon, <1>1, <1>4, <1>5, PathsTouched
<1>8. p.interface \in Ids /\ q.interface \in Ids /\ q.interface \in online
  BY Zenon, PacketsAssumption DEF PacketsOf, IInv, TypeOK, RoutesNameLiveInterfaces, PathEntry
<1>9. /\ new \in ReverseEntry /\ new.gen = last.reverse + 1 /\ new.key = p.id
      /\ new.receiving = p.interface /\ new.outbound = q.interface
  BY <1>2, <1>6, <1>8 DEF ReverseEntry
<1> HIDE DEF new
<1>10. reverse' \subseteq reverse \cup {new}
  BY <1>1, KeyedInsertAdds
<1>11. ReverseEvolves
  BY Zenon, <1>1, <1>3, <1>4, <1>5, <1>8, <1>9, <1>10, ReverseInserted
<1>12. FramesEvolve
  <2> DEFINE e == time + Param.reverse
             g == last.reverse + 1
  <2>1. ForwardOn(q, p, p.id, A, e, "Reverse", g) /\ e \in Nat /\ g \in Nat /\ g <= last'.reverse
    BY <1>1, <1>2, <1>3, <1>6
  <2>2. \A r \in reverse' : r.gen = g => r.key = p.id /\ r.outbound = q.interface
    <3>1. \A r \in reverse : r.gen # g
      BY <1>2 DEF IInv, TypeOK, GenerationsIssued, ReverseEntry
    <3>. QED
      BY Zenon, <1>9, <1>10, <3>1
  <2>3. p \in Packets /\ p.kind # "announce"
    BY DEF PacketsOf
  <2> HIDE DEF e, g
  <2>. QED
    BY Zenon, <1>4, <1>7, <2>1, <2>2, <2>3, ForwardedFrames
<1>13. LinksEvolve /\ DiscoveriesEvolve /\ AnnouncesEvolve
  BY Zenon, <1>1, <1>4, <1>5, <1>7, ExpireShrinks, QuietTables
<1>. QED
  BY Zenon, <1>4, <1>5, <1>7, <1>11, <1>12, <1>13 DEF Evolve

\* `handle_transport_forward` is an evolution.
LEMMA DataStep ==
    ASSUME IInv, NEW p \in Packets, IngestData(p)
    PROVE  Evolve
<1>1. /\ Received /\ p \in PacketsOf("data") /\ p.interface \in online
      /\ UNCHANGED <<links, announce_cache, announce_schedule>>
  BY DEF IngestData, Arrives, Received, PacketsOf, router_ingress, announceVars
<1>2. CASE Idle /\ UNCHANGED <<paths, reverse>>
  BY Zenon, <1>1, <1>2, IdleQuiet, QuietTables DEF Evolve
<1>3. CASE \E q \in paths :
             q.dest = p.dest /\ ForwardData(p, q, RouteAdmits(q, p.interface, p.size))
  BY Zenon, <1>1, <1>3, RouteAdmitsSlots, DataForwarded
<1>. QED
  <2>1. Rewritable(p.dest) \subseteq {q \in paths : q.dest = p.dest}
    BY DEF Rewritable, get_live
  <2>. QED
    BY <1>2, <1>3, <2>1, Zenon DEF IngestData, handle_transport_forward

\* A returned proof: the entry leaves the table with its generation.
LEMMA ProofReturned ==
    ASSUME IInv, Received, NEW p, NEW r \in reverse,
           NEW A, A \subseteq {s \in Slots : registry[s] \in online}, ReturnProof(p, r, A),
           UNCHANGED <<paths, links, announce_cache, announce_schedule>>
    PROVE  Evolve
<1> DEFINE e == Least(r.expires, time + Param.outbound)
           body == [s \in Slots |->
                     [packet |-> [kind |-> "proof", dest |-> None, id |-> p.key,
                                  next_hop |-> None, hops |-> Hops(p)],
                      lifetime |-> Lifetime(time, e, 0, "Independent", 0)]]
<1>1. /\ reverse' = expire(reverse, time) \ {r}
      /\ outbound' = Enqueue(LiveOutbound, A, "ProofReturn", body)
      /\ last' = [last EXCEPT !.delivery = @ + Cardinality(A)]
      /\ answered' = answered \cup {r.gen}
      /\ discoveries' = LiveDiscoveries
  BY Zenon DEF ReturnProof
<1>2. LastEvolves /\ last'.reverse = last.reverse
  BY Zenon, <1>1, LastDelivers
<1>3. e \in Nat /\ time \in Nat /\ time <= time
  BY ParamAssumption DEF IInv, TypeOK, ReverseEntry, Least
<1>4. LifetimeIssued(Lifetime(time, e, 0, "Independent", 0))
  BY Zenon, <1>2, <1>3, IndependentIssued DEF Received
<1>5. \A s \in A : LifetimeIssued(body[s].lifetime)
  BY <1>4
<1>6. ClockEvolves /\ InterfacesEvolve /\ FramesEvolve /\ SameRegistry
  <2>1. PathsEvolve
    BY <1>2, ReceivedQuiet, QuietTables
  <2>2. \A s \in A : body[s].lifetime = Lifetime(time, e, 0, "Independent", 0)
    BY Zenon
  <2> HIDE DEF body, e
  <2>3. \A f : Carries(f, A, body) => NamesItsOwner(f)'
    BY Zenon, <2>1, <2>2, CarriesNothing
  <2>. QED
    BY Zenon, <1>1, <1>2, <1>5, <2>3, QueuedQuiet DEF gated
<1> HIDE DEF body, e
<1>7. ReverseEvolves
  <2>1. reverse' \subseteq reverse \ {r}
    BY <1>1, ExpireShrinks
  <2>2. \A x \in reverse : /\ x \in ReverseEntry /\ x.gen \in Nat /\ x.gen <= last.reverse
                           /\ x.receiving \in online /\ x.outbound \in online
    BY Zenon DEF IInv, TypeOK, GenerationsIssued, RoutesNameLiveInterfaces, ReverseEntry
  <2>3. \A x \in reverse' : x.gen # r.gen
    BY <2>1 DEF IInv, ReverseUnique
  <2>4. ProofReturnedOnce'
    BY Zenon, <1>1, <2>1, <2>3 DEF IInv, ProofReturnedOnce
  <2>5. ReverseUnique'
    BY Zenon, <1>1, <1>2, <2>1, <2>2 DEF IInv, ReverseUnique
  <2>. QED
    BY Zenon, <1>2, <1>6, <2>1, <2>2, <2>4, <2>5 DEF ReverseEvolves, SameRegistry
<1>8. PathsEvolve /\ LinksEvolve /\ DiscoveriesEvolve /\ AnnouncesEvolve
  BY Zenon, <1>1, <1>2, <1>6, ExpireShrinks, QuietTables
<1>. QED
  BY Zenon, <1>2, <1>6, <1>7, <1>8 DEF Evolve

\* `handle_proof` on a reverse route is an evolution.
LEMMA ProofStep ==
    ASSUME IInv, NEW p \in Packets, IngestProof(p)
    PROVE  Evolve
<1>1. Received /\ UNCHANGED <<paths, links, announce_cache, announce_schedule>>
  BY Zenon DEF IngestProof, Arrives, Received, announceVars
<1> DEFINE A(r) == Admitted(LiveOutbound, Forwardable(p.interface, slot(r.receiving)),
                            "ProofReturn", p.size)
<1>2. \A r : A(r) \subseteq {s \in Slots : registry[s] \in online}
  BY Zenon, SlotsOf, AdmittedSlots
<1>3. CASE Idle /\ reverse' \subseteq reverse
  BY Zenon, <1>1, <1>3, IdleQuiet, QuietTables DEF Evolve
<1>4. CASE \E r \in reverse : ReturnProof(p, r, A(r))
  <2> HIDE DEF A
  <2>. QED
    BY Zenon, <1>1, <1>2, <1>4, ProofReturned
<1>5. expire(reverse, time) \subseteq reverse
  BY ExpireShrinks
<1>. QED
  BY <1>3, <1>4, <1>5, Zenon DEF IngestProof

-----------------------------------------------------------------------------
(* Links                                                                   *)

\* The establishment deadline of a link is a natural number.
LEMMA LinkDeadlineType ==
    ASSUME IInv, NEW hops \in Nat
    PROVE  link_deadline(hops) \in Nat
<1> DEFINE h == IF hops = 0 THEN 1 ELSE hops
<1>1. h \in Nat /\ Param.link_proof \in Nat /\ time \in Nat
  BY Zenon, ParamAssumption DEF IInv, TypeOK
<1> HIDE DEF h
<1>2. Param.link_proof * h \in Nat
  BY <1>1
<1>. QED
  BY <1>1, <1>2 DEF link_deadline, h

\* A link whose id no live link owns takes a free place, when there is one.
LEMMA LinkTakesFreePlace ==
    ASSUME NEW e, ~contains_live(e.key), Cardinality(expire(links, time)) < Cap.links,
           links' \in keyed_insert(links, e, time, Cap.links)
    PROVE  links' = expire(links, time) \cup {e}
<1>1. {x \in expire(links, time) : x.key = e.key} = {}
  BY DEF contains_live, expire
<1>. QED
  BY <1>1 DEF keyed_insert, Place

\* The entry of a forwarded link request has the next generation, and evicts none.
LEMMA LinkInserted ==
    ASSUME IInv, LastEvolves, SameRegistry, NEW e \in LinkEntry,
           e.gen = last.link + 1, last'.link = last.link + 1,
           e.receiving \in online, e.outbound \in online, links' = expire(links, time) \cup {e}
    PROVE  LinksEvolve
<1>1. last.link \in Nat /\ time \in Nat
  BY DEF IInv, TypeOK
<1>2. \A k \in links : /\ k \in LinkEntry /\ k.gen \in Nat /\ k.gen <= last.link
                       /\ k.receiving \in online /\ k.outbound \in online
                       /\ k.expires \in Nat /\ SameLink(k, k)
  BY Zenon DEF IInv, TypeOK, GenerationsIssued, RoutesNameLiveInterfaces, LinkEntry, SameLink
<1>3. \A k \in links : k \in links' \/ time >= k.expires
  BY <1>1, <1>2 DEF expire
<1>4. links' \subseteq links \cup {e}
  BY Zenon, ExpireShrinks
<1>5. LinksUnique'
  BY <1>1, <1>2, <1>4 DEF LinksUnique, IInv
<1>6. KeepsLiveLinks
  BY Zenon, <1>3 DEF KeepsLiveLinks
<1>. QED
  BY <1>1, <1>2, <1>4, <1>5, <1>6 DEF LinksEvolve, SameRegistry

\* `touch` and `mark_validated` extend only live links and keep all else of them.
LEMMA LinksExtended ==
    ASSUME IInv, LastEvolves, SameRegistry, NEW key, NEW e \in Nat,
           \/ links' = link_touch(links, key, e, time)
           \/ links' = mark_validated(links, key, e, time)
    PROVE  LinksEvolve
<1>1. \A k \in expire(links, time) :
        /\ k \in links /\ k \in LinkEntry /\ k.gen \in Nat /\ k.gen <= last.link
        /\ k.receiving \in online /\ k.outbound \in online /\ time < k.expires
  BY Zenon, LinkOK DEF expire, LinkEntry
<1>2. last.link \in Nat /\ last'.link \in Nat /\ last.link <= last'.link
  BY DEF IInv, TypeOK, LastEvolves, Counters
<1> DEFINE touched(k) == [k EXCEPT !.expires = e]
           validated(k) == [k EXCEPT !.expires = e, !.validated = TRUE]
           extended(k) == IF links' = link_touch(links, key, e, time) THEN touched(k)
                                                                      ELSE validated(k)
           image(k) == IF k.key = key THEN extended(k) ELSE k
<1>3. \A k \in LinkEntry :
        /\ touched(k) \in LinkEntry /\ validated(k) \in LinkEntry
        /\ touched(k).gen = k.gen /\ validated(k).gen = k.gen
        /\ touched(k).key = k.key /\ validated(k).key = k.key
        /\ touched(k).receiving = k.receiving /\ validated(k).receiving = k.receiving
        /\ touched(k).outbound = k.outbound /\ validated(k).outbound = k.outbound
  BY Zenon DEF LinkEntry
<1>4. links' = {image(k) : k \in expire(links, time)}
  <2>1. CASE links' = link_touch(links, key, e, time)
    <3>1. \A k : image(k) = IF k.key = key THEN touched(k) ELSE k
      BY Zenon, <2>1
    <3> HIDE DEF image
    <3>. QED
      BY Zenon, <2>1, <3>1 DEF link_touch
  <2>2. CASE links' # link_touch(links, key, e, time)
    <3>1. \A k : image(k) = IF k.key = key THEN validated(k) ELSE k
      BY Zenon, <2>2
    <3>2. links' = mark_validated(links, key, e, time)
      BY <2>2
    <3> HIDE DEF image
    <3>. QED
      BY Zenon, <3>1, <3>2 DEF mark_validated
  <2>. QED
    BY Zenon, <2>1, <2>2
<1> HIDE DEF touched, validated
<1>5. \A k : image(k) \in {k, touched(k), validated(k)}
  OBVIOUS
<1> HIDE DEF image, extended
<1>6. \A k \in expire(links, time) :
        /\ image(k) \in LinkEntry /\ image(k).gen = k.gen /\ image(k).key = k.key
        /\ image(k).receiving = k.receiving /\ image(k).outbound = k.outbound
  BY <1>1, <1>3, <1>5
<1>7. ASSUME NEW m \in links'
      PROVE  /\ m \in LinkEntry /\ m.receiving \in online /\ m.outbound \in online
             /\ m.gen <= last'.link
             /\ \E k \in links : SameLink(k, m)
  <2>1. PICK k \in expire(links, time) : m = image(k)
    BY Zenon, <1>4
  <2>2. /\ m \in LinkEntry /\ m.gen = k.gen /\ m.key = k.key
        /\ m.receiving = k.receiving /\ m.outbound = k.outbound
    BY <1>6, <2>1
  <2>3. SameLink(k, m)
    BY Zenon, <1>1, <2>2 DEF SameLink
  <2>. QED
    BY <1>1, <1>2, <2>2, <2>3
<1>8. LinksUnique'
  BY <1>1, <1>4, <1>6 DEF IInv, LinksUnique
<1>9. KeepsLiveLinks
  <2>1. \A k \in links : k \in expire(links, time) \/ time >= k.expires
    BY NumbersOK, LinkOK DEF expire, LinkEntry
  <2>. QED
    BY Zenon, <1>4, <1>6, <2>1 DEF KeepsLiveLinks
<1>. QED
  BY Zenon, <1>7, <1>8, <1>9 DEF LinksEvolve, SameRegistry

\* Forwarding a link request: the route is touched, the link recorded.
LEMMA LinkForwarded ==
    ASSUME IInv, Received, NEW p \in PacketsOf("link_request"), p.interface \in online,
           ~contains_live(p.link), Cardinality(expire(links, time)) < Cap.links,
           NEW q \in paths, q.dest = p.dest,
           NEW A, A \subseteq {s \in Slots : registry[s] \in online /\ registry[s] = q.interface},
           ForwardLinkRequest(p, q, A), UNCHANGED <<reverse, announce_cache, announce_schedule>>
    PROVE  Evolve
<1> DEFINE n == last.delivery + Cardinality(A)
           g == last.link + 1
           e == link_deadline(q.hops)
           new == [key |-> p.link, receiving |-> p.interface, outbound |-> q.interface,
                   remaining_hops |-> q.hops, taken_hops |-> Hops(p), validated |-> FALSE,
                   expires |-> e, gen |-> g]
<1>1. /\ ForwardOn(q, p, p.link, A, e, "Link", g)
      /\ paths' = touch(paths, p.dest, time)
      /\ links' \in keyed_insert(links, new, time, Cap.links)
      /\ last' = [last EXCEPT !.link = g, !.delivery = n]
      /\ discoveries' = LiveDiscoveries /\ answered' = answered
  BY Zenon DEF ForwardLinkRequest
<1>2. last \in Counters /\ n \in Nat /\ last.link \in Nat /\ g \in Nat \ {0} /\ last.link <= g
  BY CardinalityOfSlots DEF IInv, TypeOK, Counters
<1>3. q.hops \in Nat /\ q.interface \in Ids /\ q.interface \in online
  BY ZenonT(30) DEF IInv, TypeOK, RoutesNameLiveInterfaces, PathEntry
<1>4. e \in Nat
  BY Zenon, <1>3, LinkDeadlineType
<1>5. g = last.link + 1
  OBVIOUS
<1> HIDE DEF n, g, e
<1>6. /\ last' \in Counters /\ last'.link = g
      /\ last'.interface = last.interface /\ last'.path = last.path
      /\ last'.reverse = last.reverse /\ last'.discovery = last.discovery
  <2>1. last' = [last EXCEPT !.link = g, !.delivery = n]
    BY <1>1
  <2>. QED
    BY Zenon, <1>2, <2>1 DEF Counters
<1>7. LastEvolves
  BY <1>2, <1>6 DEF LastEvolves, Counters
<1>8. ClockEvolves /\ InterfacesEvolve /\ SameRegistry
  BY <1>7, ReceivedQuiet
<1>9. PathsEvolve /\ \A x \in paths' : \E y \in paths : SameLesson(y, x)
  BY Zenon, <1>1, <1>7, <1>8, PathsTouched
<1>10. p.interface \in Ids /\ Hops(p) \in Nat
  BY PacketsAssumption, HopsType DEF PacketsOf
<1>11. /\ new \in LinkEntry /\ new.gen = g /\ new.key = p.link
       /\ new.receiving = p.interface /\ new.outbound = q.interface
  BY Zenon, <1>2, <1>3, <1>4, <1>10 DEF LinkEntry
<1> HIDE DEF new
<1>12. links' = expire(links, time) \cup {new}
  BY Zenon, <1>1, <1>11, LinkTakesFreePlace
<1>13. LinksEvolve
  BY Zenon, <1>3, <1>5, <1>6, <1>7, <1>8, <1>11, <1>12, LinkInserted
<1>14. FramesEvolve
  <2>1. ForwardOn(q, p, p.link, A, e, "Link", g) /\ g \in Nat /\ g <= last'.link
    BY <1>1, <1>2, <1>6
  <2>2. \A k \in links' : k.gen = g => k.key = p.link /\ k.outbound = q.interface
    <3>1. \A k \in links : k.gen # g
      BY Zenon, <1>5, FreshLink
    <3>. QED
      BY Zenon, <1>11, <1>12, <3>1, ExpireShrinks
  <2>3. p \in Packets /\ p.kind # "announce"
    BY DEF PacketsOf
  <2>. QED
    BY Zenon, <1>4, <1>7, <1>9, <2>1, <2>2, <2>3, ForwardedFrames
<1>15. ReverseEvolves /\ DiscoveriesEvolve /\ AnnouncesEvolve
  BY Zenon, <1>1, <1>7, <1>8, <1>9, ExpireShrinks, QuietTables
<1>. QED
  BY Zenon, <1>7, <1>8, <1>9, <1>13, <1>14, <1>15 DEF Evolve

\* `handle_link_request` is an evolution.
LEMMA LinkRequestStep ==
    ASSUME IInv, NEW p \in Packets, IngestLinkRequest(p)
    PROVE  Evolve
<1>1. /\ Received /\ p \in PacketsOf("link_request") /\ p.interface \in online
      /\ UNCHANGED <<reverse, announce_cache, announce_schedule>>
  BY DEF IngestLinkRequest, Arrives, Received, PacketsOf, router_ingress, announceVars
<1>2. CASE Idle /\ paths' = paths /\ links' \in {links, expire(links, time)}
  BY Zenon, <1>1, <1>2, IdleQuiet, QuietTables DEF Evolve
<1>3. CASE /\ ~contains_live(p.link) /\ Cardinality(expire(links, time)) < Cap.links
           /\ \E q \in paths :
                q.dest = p.dest /\ ForwardLinkRequest(p, q, RouteAdmits(q, p.interface, p.size))
  BY Zenon, <1>1, <1>3, RouteAdmitsSlots, LinkForwarded
<1>4. Rewritable(p.dest) \subseteq {q \in paths : q.dest = p.dest}
  BY DEF Rewritable, get_live
<1>. QED
  BY <1>2, <1>3, <1>4, Zenon DEF IngestLinkRequest, handle_link_request

\* A link that keeps its generation keeps its id and its interfaces.
LEMMA SameGenSameLink ==
    ASSUME IInv, LinksEvolve, NEW k \in links, NEW m \in links', m.gen = k.gen
    PROVE  m.key = k.key /\ m.receiving = k.receiving /\ m.outbound = k.outbound
<1>1. k.gen <= last.link /\ k.gen \in Nat /\ last.link \in Nat
  BY Zenon, LinkOK, NumbersOK DEF LinkEntry, Counters
<1>2. PICK x \in links : SameLink(x, m)
  BY <1>1 DEF LinksEvolve
<1>3. x = k
  BY Zenon, <1>2 DEF SameLink, IInv, LinksUnique
<1>. QED
  BY Zenon, <1>2, <1>3 DEF SameLink

\* Traffic sent on a link.
LEMMA SentOnLink ==
    ASSUME IInv, Received, NEW p, NEW k \in links, NEW reason, ~gated(reason), NEW e \in Nat,
           NEW A, A \subseteq {s \in Slots : /\ registry[s] \in online
                                          /\ registry[s] \in {k.outbound, k.receiving}},
           SendOnLink(p, k, A, reason, e),
           UNCHANGED <<paths, reverse, announce_cache, announce_schedule>>,
           \/ UNCHANGED links
           \/ \E key : links' = link_touch(links, key, time + Param.link, time)
           \/ \E key : links' = mark_validated(links, key, time + Param.link, time)
    PROVE  Evolve
<1> DEFINE n == Least(time + Param.outbound, e)
           l == Lifetime(time, n, 0, "Link", k.gen)
           pkt == [kind |-> p.kind, dest |-> None, id |-> k.key, next_hop |-> None,
                   hops |-> Hops(p)]
           body == [s \in Slots |-> [packet |-> pkt, lifetime |-> l]]
<1>1. /\ outbound' = Enqueue(LiveOutbound, A, reason, body)
      /\ last' = [last EXCEPT !.delivery = @ + Cardinality(A)]
      /\ discoveries' = LiveDiscoveries /\ answered' = answered
  BY Zenon DEF SendOnLink
<1>2. LastEvolves /\ last'.link = last.link /\ last'.path = last.path
  BY Zenon, <1>1, LastDelivers
<1>3. /\ time \in Nat /\ n \in Nat /\ time + Param.link \in Nat /\ k.gen \in Nat
      /\ k.gen <= last.link /\ 0 <= last.path /\ time <= time /\ 0 \in Nat
  BY ParamAssumption, NumbersOK, LinkOK DEF LinkEntry, Least, Counters
<1> HIDE DEF n
<1>4. LifetimeIssued(l)
  BY Zenon, <1>2, <1>3, LifetimeIsIssued DEF Received
<1>5. \A s \in A : LifetimeIssued(body[s].lifetime)
  BY Zenon, <1>4
<1>6. ClockEvolves /\ InterfacesEvolve /\ SameRegistry
  BY <1>2, ReceivedQuiet
<1>7. LinksEvolve
  BY Zenon, <1>2, <1>3, <1>6, LinksExtended, QuietTables
<1>8. PathsEvolve /\ ReverseEvolves /\ DiscoveriesEvolve /\ AnnouncesEvolve
  BY Zenon, <1>1, <1>2, <1>6, ExpireShrinks, QuietTables
<1>9. ASSUME NEW f, Carries(f, A, body)
      PROVE  NamesItsOwner(f)'
  <2>1. f.interface \in {k.outbound, k.receiving} /\ f.packet = pkt /\ f.lifetime = l
    <3> HIDE DEF pkt, l
    <3>. QED
      BY Zenon, <1>9 DEF Carries
  <2>2. /\ f.packet.id = k.key /\ f.lifetime.path = 0 /\ f.lifetime.state = "Link"
        /\ f.lifetime.owner = k.gen
    BY <2>1 DEF Lifetime
  <2>3. \A q \in paths' : q.gen # 0
    BY <1>8 DEF PathsEvolve, PathEntry
  <2>. QED
    BY ZenonT(30), <1>7, <2>1, <2>2, <2>3, SameGenSameLink DEF NamesItsOwner
<1> HIDE DEF body
<1>10. FramesEvolve
  BY Zenon, <1>1, <1>2, <1>5, <1>9, QueuedQuiet
<1>. QED
  BY Zenon, <1>2, <1>6, <1>7, <1>8, <1>10 DEF Evolve

\* `handle_proof` on a link proof is an evolution.
LEMMA LrproofStep ==
    ASSUME IInv, NEW p \in Packets, IngestLrproof(p)
    PROVE  Evolve
<1>1. Received /\ UNCHANGED <<paths, reverse, announce_cache, announce_schedule>>
  BY Zenon DEF IngestLrproof, Arrives, Received, announceVars
<1> DEFINE A(k) == Admitted(LiveOutbound, Forwardable(p.interface, slot(k.receiving)),
                            "ProofReturn", p.size)
<1>2. \A k : A(k) \subseteq {s \in Slots : /\ registry[s] \in online
                                          /\ registry[s] \in {k.outbound, k.receiving}}
  <2>1. \A k : Forwardable(p.interface, slot(k.receiving)) \subseteq
                {s \in Slots : registry[s] \in {k.outbound, k.receiving}}
    BY DEF Forwardable, slot
  <2>. QED
    BY Zenon, <2>1, AdmittedSlots
<1>3. CASE Idle /\ UNCHANGED links
  BY Zenon, <1>1, <1>3, IdleQuiet, QuietTables DEF Evolve
<1>4. CASE \E k \in links : /\ SendOnLink(p, k, A(k), "ProofReturn", time + Param.link)
                            /\ links' = mark_validated(links, p.link, time + Param.link, time)
  <2>1. time + Param.link \in Nat /\ ~gated("ProofReturn")
    BY ParamAssumption DEF IInv, TypeOK, gated
  <2> HIDE DEF A
  <2>. QED
    BY Zenon, <1>1, <1>2, <1>4, <2>1, SentOnLink
<1>. QED
  BY <1>3, <1>4, Zenon DEF IngestLrproof

\* `route_link_packet` is an evolution.
LEMMA LinkPacketStep ==
    ASSUME IInv, NEW p \in Packets, IngestLinkPacket(p)
    PROVE  Evolve
<1>1. Received /\ UNCHANGED <<paths, reverse, announce_cache, announce_schedule>>
  BY Zenon DEF IngestLinkPacket, Arrives, Received, announceVars
<1> DEFINE T(k) == Forwardable(p.interface, UNION {slot(t) : t \in LinkTarget(p, k)})
           A(k) == Admitted(LiveOutbound, T(k), p.reason, p.size)
           e(k) == IF k.validated THEN time + Param.link ELSE k.expires
<1>2. \A k : A(k) \subseteq {s \in Slots : /\ registry[s] \in online
                                          /\ registry[s] \in {k.outbound, k.receiving}}
  <2>1. \A k : T(k) \subseteq {s \in Slots : registry[s] \in {k.outbound, k.receiving}}
    BY Zenon DEF slot, Forwardable, LinkTarget
  <2> HIDE DEF T
  <2>. QED
    BY Zenon, <2>1, AdmittedSlots
<1>3. CASE Idle /\ UNCHANGED links
  BY <1>1, <1>3, IdleQuiet, QuietTables DEF Evolve
<1>4. CASE \E k \in links :
             /\ SendOnLink(p, k, A(k), p.reason, e(k))
             /\ links' = IF k.validated THEN link_touch(links, k.key, time + Param.link, time)
                                        ELSE links
  <2>1. PICK k \in links :
             /\ SendOnLink(p, k, A(k), p.reason, e(k))
             /\ links' = IF k.validated THEN link_touch(links, k.key, time + Param.link, time)
                                        ELSE links
    BY Zenon, <1>4
  <2>2. e(k) \in Nat
    BY ParamAssumption, NumbersOK, LinkOK DEF LinkEntry
  <2>3. \/ UNCHANGED links
        \/ \E key : links' = link_touch(links, key, time + Param.link, time)
    BY <2>1
  <2>4. SendOnLink(p, k, A(k), p.reason, e(k)) /\ ~gated(p.reason)
    BY Zenon, <2>1, PacketsAssumption DEF IngestLinkPacket, Arrives, PacketsOf, gated
  <2> HIDE DEF A, e
  <2>. QED
    BY Zenon, <1>1, <1>2, <2>2, <2>3, <2>4, SentOnLink
<1>. QED
  BY <1>3, <1>4, Zenon DEF IngestLinkPacket

-----------------------------------------------------------------------------
(* Plain broadcasts                                                        *)

\* `bridge_plain_broadcast` is an evolution.
LEMMA PlainStep ==
    ASSUME IInv, NEW p \in Packets, IngestPlain(p)
    PROVE  Evolve
<1>1. Received /\ UNCHANGED <<paths, reverse, links, announce_cache, announce_schedule>>
  BY DEF IngestPlain, Arrives, Received, announceVars
<1> DEFINE A == Admitted(LiveOutbound,
                  BroadcastSlots(p.interface, ~is_local_client_interface(p.interface)),
                  "TransportForward", p.size)
           l == Lifetime(time, time + Param.outbound, 0, "Independent", 0)
           body == [s \in Slots |->
                     [packet |-> [kind |-> "plain", dest |-> None, id |-> p.id,
                                  next_hop |-> None, hops |-> Hops(p)], lifetime |-> l]]
<1>2. CASE Idle
  BY Zenon, <1>1, <1>2, IdleQuiet, QuietTables DEF Evolve
<1>3. CASE /\ outbound' = Enqueue(LiveOutbound, A, "TransportForward", body)
           /\ last' = [last EXCEPT !.delivery = @ + Cardinality(A)]
           /\ discoveries' = LiveDiscoveries /\ answered' = answered
  <2>1. A \subseteq {s \in Slots : registry[s] \in online}
    BY SlotsOf, AdmittedSlots
  <2> HIDE DEF A
  <2>2. LastEvolves
    BY Zenon, <1>3, <2>1, LastDelivers
  <2>3. time \in Nat /\ time <= time /\ time + Param.outbound \in Nat
    BY ParamAssumption, NumbersOK
  <2>4. LifetimeIssued(l)
    BY Zenon, <1>1, <2>2, <2>3, IndependentIssued DEF Received
  <2>5. \A s \in A : LifetimeIssued(body[s].lifetime)
    BY <2>1, <2>4
  <2>6. ClockEvolves /\ InterfacesEvolve /\ FramesEvolve /\ SameRegistry
    <3>1. PathsEvolve
      BY Zenon, <1>1, <2>2, ReceivedQuiet, QuietTables
    <3>2. \A s \in A : body[s].lifetime = Lifetime(time, time + Param.outbound, 0, "Independent", 0)
      BY Zenon, <2>1
    <3> HIDE DEF body
    <3>3. \A f : Carries(f, A, body) => NamesItsOwner(f)'
      BY Zenon, <3>1, <3>2, CarriesNothing
    <3>. QED
      BY Zenon, <1>1, <1>3, <2>1, <2>2, <2>5, <3>3, QueuedQuiet DEF gated
  <2> HIDE DEF body
  <2>7. PathsEvolve /\ ReverseEvolves /\ LinksEvolve /\ DiscoveriesEvolve /\ AnnouncesEvolve
    BY Zenon, <1>1, <1>3, <2>2, <2>6, ExpireShrinks, QuietTables
  <2>. QED
    BY Zenon, <2>2, <2>6, <2>7 DEF Evolve
<1>. QED
  BY <1>2, <1>3, Zenon DEF IngestPlain
=============================================================================
