-------------------------- MODULE RouterProperties --------------------------
(***************************************************************************)
(* What the router promises. The state predicates are invariants of Spec;  *)
(* the formulas of the form [][A]_vars say what no step may do.            *)
(***************************************************************************)
EXTENDS Router

Frames == outbound \cup held

PathEntry ==
    [dest : Dests, next_hop : {p.next_hop : p \in PacketsOf("announce")}, hops : Nat,
     interface : Ids, expires : Nat, last_seen : Nat, emitted : Nat, response : BOOLEAN,
     bulk : BOOLEAN, gen : Nat \ {0}]

CachedAnnounce ==
    [dest : Dests, emitted : Nat, hops : Nat, size : Nat, expires : Nat, bulk : BOOLEAN]

ScheduledAnnounce ==
    [dest : Dests, emitted : Nat, size : Nat, interface : Ids, due : Nat, pending_only : BOOLEAN,
     expires : Nat, hops : Nat, retries : Nat, local_rebroadcasts : Nat, pending : SUBSET Slots]

ReverseEntry ==
    [key : {p.id : p \in PacketsOf("data")}, receiving : Ids, outbound : Ids, expires : Nat,
     gen : Nat \ {0}]

LinkEntry ==
    [key : {p.link : p \in PacketsOf("link_request")}, receiving : Ids, outbound : Ids,
     remaining_hops : Nat, taken_hops : Nat, validated : BOOLEAN, expires : Nat, gen : Nat \ {0}]

DiscoveryEntry ==
    [dest : Dests, expires : Nat, gen : Nat \ {0}, requesters : SUBSET Slots,
     asked : [Slots -> Nat]]

LifetimeType ==
    [enqueued : Nat, expires : Nat, path : Nat,
     state : {"Independent", "Discovery", "Reverse", "Link"}, owner : Nat]

\* The state the handlers rely on: registry slots hold interfaces, only
\* registered interfaces are online, the node's clock never leads the host's,
\* every table holds well-formed entries with a generation other than 0, and
\* every queued frame carries a registration generation other than 0.
TypeOK ==
    /\ time \in Nat /\ clock_ms \in Nat /\ clock_ms <= time
    /\ registry \in [Slots -> Ids \cup {NoId}]
    /\ online \subseteq Registered
    /\ generations \in [Slots -> Nat] /\ announce_gates \in [Slots -> Nat]
    /\ last \in [interface : Nat, path : Nat, reverse : Nat, link : Nat,
                 discovery : Nat, delivery : Nat]
    /\ paths \subseteq PathEntry
    /\ announce_cache \subseteq CachedAnnounce
    /\ announce_schedule \subseteq ScheduledAnnounce
    /\ reverse \subseteq ReverseEntry
    /\ links \subseteq LinkEntry
    /\ discoveries \subseteq DiscoveryEntry
    /\ \A f \in Frames :
         /\ f.interface \in Ids /\ f.delivery \in Nat \ {0} /\ f.identity \in Nat
         /\ f.lifetime \in LifetimeType

-----------------------------------------------------------------------------
(* Tokens                                                                  *)

\* Whatever table entry the tokens of a queued or driver-held frame resolve to
\* is the one the frame was built for: the route its header was rewritten for
\* (interface, next hop) or advertises (destination, hops, no newer than the
\* path), the reverse entry of its own packet, its own link, its own discovery.
NamesItsOwner(f) ==
    /\ \A p \in paths : p.gen = f.lifetime.path =>
         /\ p.dest = f.packet.dest
         /\ f.packet.kind = "announce" =>
              f.packet.hops = p.hops /\ f.packet.id \in 0 .. p.emitted
         /\ f.packet.kind \in {"data", "link_request"} =>
              f.interface = p.interface /\ f.packet.next_hop = NextHeader(p)
    /\ f.lifetime.state = "Reverse" =>
         \A r \in reverse : r.gen = f.lifetime.owner =>
           r.key = f.packet.id /\ r.outbound = f.interface
    /\ f.lifetime.state = "Link" =>
         \A k \in links : k.gen = f.lifetime.owner =>
           k.key = f.packet.id /\ f.interface \in {k.outbound, k.receiving}
    /\ f.lifetime.state = "Discovery" =>
         \A d \in discoveries : d.gen = f.lifetime.owner => d.dest = f.packet.dest

TokensNameTheirOwner == \A f \in Frames : NamesItsOwner(f)

\* A frame that a driver or the queue holds and that has once stopped being
\* live (expired, its path replaced, its interface retired, the node reset) is
\* never live again: no later state can adopt its tokens.
DeadFramesStayDead ==
    [][\A f \in Frames :
         f \in Frames' /\ ~router_outbound_is_live(f, time)
           => ~router_outbound_is_live(f, time)']_vars

\* No routing state outlives its interface: every path, reverse entry, link and
\* scheduled announce names only interfaces that are registered and online.
RoutesNameLiveInterfaces ==
    /\ \A p \in paths : p.interface \in online
    /\ \A r \in reverse : {r.receiving, r.outbound} \subseteq online
    /\ \A k \in links : {k.receiving, k.outbound} \subseteq online
    /\ \A e \in announce_schedule : e.interface \in online

-----------------------------------------------------------------------------
(* Send before record                                                      *)

\* A step that queues nothing records nothing that only a sent packet may
\* record: no reverse or link entry or generation, no route kept alive, no link
\* validated or extended, no proof answered, no hash of a link proof or of a
\* live link's packet, no tag of a request of this node's own.
NothingRecordedUnsent ==
    [][last'.delivery = last.delivery =>
         /\ last'.reverse = last.reverse /\ last'.link = last.link
         /\ reverse' \subseteq reverse /\ links' \subseteq links
         /\ answered' = answered
         /\ \A p \in paths, q \in paths' :
              p.gen = q.gen /\ p.emitted = q.emitted => p.expires = q.expires
         /\ \A h \in packet_hashes' \ packet_hashes :
              /\ h.key[1] # "lrproof"
              /\ h.key[1] = "link" => ~contains_live(h.key[2])
         /\ \A t \in request_tags' \ request_tags :
              \E p \in Packets : p.kind = "path_request" /\ t.key = <<p.dest, p.tag>>]_vars

\* Each forwarded packet has at most one proof returned for it: a reverse
\* generation whose proof was queued never is in the table again.
ProofReturnedOnce == \A r \in reverse : r.gen \notin answered

RegistrationOf(id) == {generations[s] : s \in slot(id)}

KeepsLiveLinks ==
    \A k \in links :
      \/ time >= k.expires
      \/ \E m \in links' : m.gen = k.gen
      \/ RegistrationOf(k.receiving)' # RegistrationOf(k.receiving)
      \/ RegistrationOf(k.outbound)' # RegistrationOf(k.outbound)

\* A live link leaves the table only when one of its interfaces is registered
\* anew, goes offline or the node is reset; a link request never evicts one.
LinksAreNotEvicted == [][KeepsLiveLinks]_vars

-----------------------------------------------------------------------------
(* Slot masks                                                              *)

\* A discovery answers only the registrations that asked: a requester slot still
\* holds the interface, online in the same registration, whose request set its bit.
RequestersAreCurrent ==
    \A d \in discoveries : \A s \in d.requesters :
      registry[s] \in online /\ d.asked[s] = generations[s]

\* An announce is owed only to interfaces it may be sent to: each pending slot
\* holds an online interface the announce's source may egress to.
PendingTargetsAreAllowed ==
    \A e \in announce_schedule : \A s \in e.pending :
      registry[s] # NoId /\ announce_egress_allowed(e.interface, registry[s])

-----------------------------------------------------------------------------
(* The outbound queue                                                      *)

\* A live frame leaves the queue only into a driver's hands or for newer traffic
\* of the same full interface; and a gated announce displaces only its like.
LiveFramesAreNotLost ==
    [][\A f \in outbound \ (outbound' \cup held') :
         router_outbound_is_live(f, clock_ms)' =>
           \E g \in outbound' :
             /\ g.interface = f.interface /\ g.identity > last.delivery
             /\ gated(g.reason) => gated(f.reason)
             /\ Cardinality({x \in outbound' : x.interface = f.interface})
                  >= Config[f.interface].depth]_vars

\* Two announces released to one registration of an interface are at least its
\* announce-cap spacing apart, whatever the driver has done with the first.
AnnouncesAreSpaced ==
    \A f, g \in Frames :
      gated(f.reason) /\ gated(g.reason) /\ f # g
        /\ f.interface = g.interface /\ f.delivery = g.delivery =>
          \/ f.lifetime.enqueued + Config[f.interface].spacing <= g.lifetime.enqueued
          \/ g.lifetime.enqueued + Config[f.interface].spacing <= f.lifetime.enqueued

-----------------------------------------------------------------------------
(* Learned routes                                                          *)

RollsNoPathBack ==
    \A p \in paths, q \in paths' :
      p.dest = q.dest /\ time < p.expires =>
        \/ q.emitted > p.emitted
        \/ q.emitted = p.emitted /\ same_route(p, q) /\ p.gen = q.gen

\* While a path is live no announce rolls it back: its emission only grows, and
\* a repeat of the same emission changes neither the route nor its generation.
PathsAreNotRolledBack == [][RollsNoPathBack]_vars

DisplacesBulkFirst ==
    \A p \in paths, q \in paths' :
      /\ time < p.expires /\ ~p.bulk
      /\ ~\E x \in paths' : x.dest = p.dest
      /\ q.gen > last.path
      => ~q.bulk /\ \A x \in paths : time < x.expires => ~x.bulk

\* A bulk newcomer never displaces a live ordinary path, and an ordinary one only
\* when no bulk path is left to displace.
BulkPathsYield == [][DisplacesBulkFirst]_vars

\* The cached announce a path request is answered from is the one that taught the
\* current path, at the same distance.
CacheMatchesPath ==
    \A c \in announce_cache, p \in paths :
      c.dest = p.dest => c.emitted = p.emitted /\ c.hops = p.hops

-----------------------------------------------------------------------------
(* The inductive invariant behind the token properties                     *)

\* No interface holds two slots, and an online one has a registration.
RegistrationOK ==
    /\ \A s, r \in Slots : registry[s] = registry[r] => s = r \/ registry[s] = NoId
    /\ \A s \in Slots : registry[s] \in online => generations[s] # 0

\* Every generation in use, in a table or in the hands of a frame, has been
\* issued by its counter: the next one issued is in use nowhere.
OwnerIssued(l, counters) ==
    /\ l.path <= counters.path
    /\ l.state = "Reverse" => l.owner <= counters.reverse
    /\ l.state = "Link" => l.owner <= counters.link
    /\ l.state = "Discovery" => l.owner <= counters.discovery

GenerationsIssued ==
    /\ \A s \in Slots : generations[s] <= last.interface
    /\ \A p \in paths : p.gen <= last.path /\ p.last_seen <= p.expires
    /\ \A r \in reverse : r.gen <= last.reverse
    /\ \A k \in links : k.gen <= last.link
    /\ \A d \in discoveries : d.gen <= last.discovery
    /\ \A f \in Frames : /\ f.delivery <= last.interface /\ f.lifetime.enqueued <= time
                         /\ OwnerIssued(f.lifetime, last)

\* A destination has one route, and a generation belongs to one entry.
RoutesUnique == \A p, q \in paths : p.dest = q.dest \/ p.gen = q.gen => p = q

ReverseUnique ==
    /\ \A r, q \in reverse : r.gen = q.gen => r = q
    /\ \A g \in answered : g \in Nat /\ g <= last.reverse

LinksUnique == \A k, m \in links : k.gen = m.gen => k = m

\* A scheduled announce was received as one by a transport node, fits the node, and
\* has the distance of the path it taught for as long as that path is there.
ScheduleMatchesPath ==
    \A e \in announce_schedule :
      /\ TransportEnabled /\ e.size <= NodeMtu
      /\ \E p \in PacketsOf("announce") :
           ~p.response /\ p.dest = e.dest /\ p.emitted = e.emitted /\ p.size = e.size
      /\ \A q \in paths :
           q.dest = e.dest /\ q.emitted = e.emitted /\ ~q.response => q.hops = e.hops

\* The gate of a slot stays shut until the spacing after each announce released
\* to its registration has passed.
GatesCover ==
    \A f \in Frames, s \in Slots :
      gated(f.reason) /\ registry[s] = f.interface /\ generations[s] = f.delivery =>
        f.lifetime.enqueued + Config[f.interface].spacing <= announce_gates[s]

IInv == /\ TypeOK /\ RegistrationOK /\ GenerationsIssued
        /\ RoutesUnique /\ ReverseUnique /\ LinksUnique
        /\ RoutesNameLiveInterfaces /\ ProofReturnedOnce
        /\ CacheMatchesPath /\ ScheduleMatchesPath
        /\ RequestersAreCurrent /\ PendingTargetsAreAllowed
        /\ TokensNameTheirOwner /\ GatesCover /\ AnnouncesAreSpaced
=============================================================================
