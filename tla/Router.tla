------------------------------- MODULE Router -------------------------------
(***************************************************************************)
(* The router node: what it does with each kind of received packet, its    *)
(* timer, the calls of its host and the drivers that drain its queue.      *)
(* One action per entry point of src/transport.rs and                      *)
(* src/transport/router.rs; an action is the whole call.                   *)
(*                                                                         *)
(* A received packet is a record: `kind`, the `interface` it arrived on    *)
(* and the header and payload facts its handler looks at. Parsing, IFAC,   *)
(* signatures and hashes are outside: a packet that fails any of them is   *)
(* IngestDropped or carries valid = FALSE.                                 *)
(***************************************************************************)
EXTENDS RouterState

CONSTANTS
    Packets,        \* the packets that may arrive
    HostOps,        \* the host calls that may be made
    HostIds,        \* the interfaces they may be made for
    RequestTags     \* tags the host draws for its own path requests

PacketsOf(kind) == {p \in Packets : p.kind = kind}

ASSUME PacketsAssumption ==
    /\ \A p \in Packets : p.interface \in Ids
    /\ \A p \in Packets : p.kind # "path_request" => p.hops \in Nat
    /\ \A p \in PacketsOf("announce") :
         p.dest \in Dests /\ p.emitted \in Nat /\ p.response \in BOOLEAN /\ p.size \in Nat
    /\ \A p \in PacketsOf("path_request") : p.dest \in Dests
    /\ \A p \in PacketsOf("link_packet") : p.reason \in {"TransportForward", "ProofReturn"}
\* `dest`, `emitted` and `response` stand for what `packet_hash` covers of an
\* announce, its signed payload included: copies differ in hops, next hop and
\* interface, not in size.
ASSUME CopiesAssumption ==
    \A p, q \in PacketsOf("announce") :
      p.dest = q.dest /\ p.emitted = q.emitted /\ p.response = q.response => p.size = q.size
ASSUME HostAssumption == HostIds \subseteq Ids

-----------------------------------------------------------------------------
(* The beginning of every ingest                                           *)

\* `ingest_inner` first advances the clock, expires discoveries and the queue.
LiveDiscoveries ==
    IF TransportEnabled THEN discoveries_expire(discoveries, time) ELSE {}
LiveOutbound == expire_outbound(time)

\* `router_ingress`: an interface that is registered, online and inbound.
router_ingress(id) == id \in online /\ Config[id].inbound

Arrives(p, kind) == p.kind = kind /\ router_ingress(p.interface) /\ clock_ms' = time

\* The hop count after the transport increment, which a local client's link
\* does not count.
Hops(p) == IF is_local_client_interface(p.interface) THEN p.hops ELSE p.hops + 1

HashSeen(h) == contains(packet_hashes, h, time)
NoteHash(h) == insert_if_new(packet_hashes, h, time + Param.hashlist, time, Cap.hashes)

\* Nothing is routed, queued or minted.
Idle == /\ discoveries' = LiveDiscoveries
        /\ outbound' = LiveOutbound
        /\ UNCHANGED <<last, answered>>

\* A frame is refused before the duplicate check: unknown, offline or outbound
\* interface, MTU, IFAC, malformed bytes, hop limit, another relay's address.
IngestDropped ==
    /\ clock_ms' = time
    /\ Idle
    /\ UNCHANGED <<time, interfaceVars, packet_hashes, paths, announceVars,
                   reverse, links, request_tags, held>>

-----------------------------------------------------------------------------
(* Announces                                                               *)

\* A neighbour's copy of an announce this node has rebroadcast cancels the
\* retry: the second same-hop copy, or a copy one hop on before the retry is due.
HeardRebroadcast(p) ==
    LET mine == {e \in announce_schedule : e.dest = p.dest /\ e.retries > 0}
        same == {e \in mine : p.hops = e.hops}
        onward == {e \in mine : p.hops = e.hops + 1 /\ (e.pending_only \/ time < e.due)}
        counted == {[e EXCEPT !.local_rebroadcasts = @ + 1] : e \in same}
    IN  IF TransportEnabled
        THEN (announce_schedule \ (same \cup onward))
               \cup {e \in counted : e.local_rebroadcasts < Param.local_rebroadcasts_max}
        ELSE announce_schedule

PathFrom(p) ==
    [dest |-> p.dest, next_hop |-> p.next_hop, hops |-> Hops(p),
     interface |-> p.interface, expires |-> time + Param.path[Config[p.interface].mode],
     last_seen |-> time, emitted |-> p.emitted, response |-> p.response,
     bulk |-> /\ Config[p.interface].bulk
              /\ ~\E d \in LiveDiscoveries : d.dest = p.dest,
     gen |-> 0]

\* An announce for one of our destinations, rate limited, with a bad signature
\* or key, or too far away.
AnnounceRefused(p) ==
    /\ \/ p.dest \in OwnDests
       \/ ~p.response
       \/ ~p.valid
       \/ Hops(p) >= Param.pathfinder_m
    /\ Idle
    /\ UNCHANGED <<paths, announceVars>>

AnnouncePacket(d, hops, emitted) ==
    [kind |-> "announce", dest |-> d, id |-> emitted, next_hop |-> Us, hops |-> hops]

\* A path response or a rebroadcast is tied to the path it advertises.
PathToken(p) ==
    Lifetime(time, Least(time + Param.outbound, p.expires), p.gen, "Independent", 0)

\* `finish_discovery`: the requesters an answer learned from p is sent to.
AnswerSlots(p) ==
    LET asked == UNION {d.requesters : d \in {x \in LiveDiscoveries : x.dest = p.dest}}
    IN  {s \in asked :
           /\ registry[s] # NoId
           /\ registry[s] = p.interface =>
                ~Config[p.interface].local /\ Config[p.interface].mode # "Roaming"}

\* The announce did not update the path table.
AnnounceIgnored(p) ==
    /\ paths' = expire(paths, time)
    /\ announce_schedule' = HeardRebroadcast(p)
    /\ Idle
    /\ UNCHANGED announce_cache

\* The announce updated its path to `path` in the new table T: cache it,
\* answer the discovery waiting for it and schedule its rebroadcast.
AnnounceLearned(p, T, path) ==
    LET fits == p.size <= NodeMtu
        answers == IF fits THEN Admitted(LiveOutbound, AnswerSlots(p), "PathResponse", p.size)
                           ELSE {}
        body == [s \in Slots |-> [packet |-> AnnouncePacket(p.dest, Hops(p), p.emitted),
                                  lifetime |-> PathToken(path)]]
        cached == [dest |-> p.dest, emitted |-> p.emitted, hops |-> Hops(p), size |-> p.size,
                   expires |-> path.expires, bulk |-> path.bulk]
        scheduled(jitter) ==
            [dest |-> p.dest, emitted |-> p.emitted, size |-> p.size, interface |-> p.interface,
             due |-> time + jitter, pending_only |-> FALSE, expires |-> time + Param.announce,
             hops |-> Hops(p), retries |-> 0, local_rebroadcasts |-> 0, pending |-> {}]
    IN  /\ paths' = T
        /\ announce_cache' \in cache_insert(retain_paths(announce_cache, T, time),
                                            cached, time, Cap.announces)
        /\ discoveries' = {d \in LiveDiscoveries : d.dest # p.dest}
        /\ outbound' = Enqueue(LiveOutbound, answers, "PathResponse", body)
        /\ IF TransportEnabled /\ fits /\ ~p.response
           THEN \E jitter \in 0 .. Param.jitter :
                  announce_schedule' \in schedule_insert(HeardRebroadcast(p),
                                            scheduled(jitter), time, Cap.schedule)
           ELSE announce_schedule' = HeardRebroadcast(p)
        /\ last' = [last EXCEPT !.path = IF path.gen > @ THEN path.gen ELSE @,
                                !.delivery = @ + Cardinality(answers)]
        /\ UNCHANGED answered

\* `handle_announce`
handle_announce(p) ==
    LET tables == insert_or_update(paths, PathFrom(p), time, last.path, Limit.path, Cap.paths)
    IN  /\ p.dest \notin OwnDests /\ p.valid /\ Hops(p) < Param.pathfinder_m
        /\ \/ tables = {} /\ AnnounceIgnored(p)
           \/ \E T \in tables : \E path \in T :
                path.dest = p.dest /\ AnnounceLearned(p, T, path)

IngestAnnounce(p) ==
    /\ Arrives(p, "announce")
    /\ packet_hashes' \in NoteHash(<<"announce", p.dest, p.emitted, p.response>>)
    /\ AnnounceRefused(p) \/ handle_announce(p)
    /\ UNCHANGED <<time, interfaceVars, reverse, links, request_tags, held>>

-----------------------------------------------------------------------------
(* Path requests and discovery                                             *)

PathRequestPacket(d) ==
    [kind |-> "path_request", dest |-> d, id |-> None, next_hop |-> None, hops |-> 0]

\* The request leaves for the slots T, on the lifetime l.
SendPathRequest(d, T, l) ==
    LET A == Admitted(LiveOutbound, T, "PathRequestForward", 1)
        body == [s \in Slots |-> [packet |-> PathRequestPacket(d), lifetime |-> l]]
    IN  /\ outbound' = Enqueue(LiveOutbound, A, "PathRequestForward", body)
        /\ last' = [last EXCEPT !.delivery = @ + Cardinality(A),
                                !.discovery = IF l.state = "Discovery" THEN l.owner ELSE @]

\* A request that is passed on without being remembered.
RelayPathRequest(p, local_only) ==
    /\ SendPathRequest(p.dest, BroadcastSlots(p.interface, local_only),
                       Lifetime(time, time + Least(Param.outbound, Param.request), 0, "Independent", 0))
    /\ discoveries' = LiveDiscoveries

\* The signed announce behind a live path answers the request.
AnswerFromCache(p, path, c) ==
    LET A == IF c.size <= NodeMtu
             THEN Admitted(LiveOutbound, slot(p.interface), "PathResponse", c.size) ELSE {}
        body == [s \in Slots |-> [packet |-> AnnouncePacket(p.dest, c.hops, c.emitted),
                                  lifetime |-> PathToken(path)]]
    IN  /\ outbound' = Enqueue(LiveOutbound, A, "PathResponse", body)
        /\ last' = [last EXCEPT !.delivery = @ + Cardinality(A)]
        /\ discoveries' = LiveDiscoveries

\* `Discoveries::begin`: join the discovery under way, or start one if there is
\* room for it, recording which registration asked (a history field).
JoinDiscovery(p, s) ==
    /\ discoveries' = {IF d.dest = p.dest
                       THEN [d EXCEPT !.requesters = @ \cup {s}, !.asked[s] = generations[s]]
                       ELSE d : d \in LiveDiscoveries}
    /\ outbound' = LiveOutbound
    /\ UNCHANGED last

BeginDiscovery(p, s) ==
    /\ discoveries' = LiveDiscoveries \cup
         {[dest |-> p.dest, expires |-> time + Param.discovery, gen |-> last.discovery + 1,
           requesters |-> {s}, asked |-> [r \in Slots |-> IF r = s THEN generations[s] ELSE 0]]}
    /\ SendPathRequest(p.dest, BroadcastSlots(p.interface, FALSE),
                       Lifetime(time, time + Least(Param.request, Param.discovery), 0,
                                "Discovery", last.discovery + 1))

\* No path, or no cached announce for it: ask around.
Discover(p) ==
    IF is_local_client_interface(p.interface) THEN RelayPathRequest(p, FALSE)
    ELSE IF TransportEnabled /\ mode_discovers_unknown_paths(Config[p.interface].mode)
    THEN IF ~Config[p.interface].outbound THEN Idle
         ELSE \E s \in slot(p.interface) :
                IF \E d \in LiveDiscoveries : d.dest = p.dest
                THEN JoinDiscovery(p, s)
                ELSE IF /\ Cardinality(LiveDiscoveries) < Cap.discoveries
                        /\ last.discovery < Limit.discovery
                     THEN BeginDiscovery(p, s)
                     ELSE Idle
    ELSE RelayPathRequest(p, TRUE)

\* `handle_path_request`
handle_path_request(p) ==
    LET path == get_live(paths, p.dest, time)
        cached == {c \in announce_cache : c.dest = p.dest /\ time < c.expires}
    IN  IF p.dest \in OwnDests THEN Idle
        ELSE IF \E q \in path : \/ p.requestor # None /\ q.next_hop = p.requestor
                                \/ /\ Config[p.interface].mode = "Roaming"
                                   /\ q.interface = p.interface
        THEN Idle
        ELSE IF TransportEnabled /\ path # {} /\ cached # {}
        THEN \E q \in path, c \in cached : AnswerFromCache(p, q, c)
        ELSE Discover(p)

IngestPathRequest(p) ==
    LET hash == <<"path_request", p.dest, p.requestor, p.tag>>
        tag == <<p.dest, p.tag>>
    IN  /\ Arrives(p, "path_request")
        /\ packet_hashes' \in NoteHash(hash)
        /\ IF HashSeen(hash)
           THEN Idle /\ UNCHANGED request_tags
           ELSE /\ request_tags' \in insert_if_new(request_tags, tag, time + Param.tag,
                                                   time, Cap.tags)
                /\ IF contains(request_tags, tag, time) THEN Idle ELSE handle_path_request(p)
        /\ UNCHANGED <<time, interfaceVars, paths, announceVars, reverse, links, held, answered>>

-----------------------------------------------------------------------------
(* Forwarding to a destination                                             *)

\* `rewrite_forwarded_transport_packet`: a route of more than one hop needs a
\* next hop; the last hop drops the transport header; a local client's
\* destination gets the bytes as they came.
Rewritable(d) == {q \in get_live(paths, d, time) : q.hops > 1 => q.next_hop # None}
NextHeader(q) == IF q.hops > 1 THEN q.next_hop ELSE IF q.hops = 1 THEN None ELSE Us

\* The slots that admit a packet for route q received on `source`.
RouteAdmits(q, source, size) ==
    Admitted(LiveOutbound, Forwardable(source, slot(q.interface)), "TransportForward", size)

\* Queue one forwarded packet on route q, owned by a reserved generation.
ForwardOn(q, p, key, A, expires, state, owner) ==
    outbound' = Enqueue(LiveOutbound, A, "TransportForward",
        [s \in Slots |->
           [packet |-> [kind |-> p.kind, dest |-> p.dest, id |-> key,
                        next_hop |-> NextHeader(q), hops |-> Hops(p)],
            lifetime |-> Lifetime(time, Least(Least(time + Param.outbound, q.expires), expires),
                                  q.gen, state, owner)]])

\* `handle_transport_forward` once the queue has admitted the packet: the route
\* is touched and the reverse entry recorded.
ForwardData(p, q, A) ==
    /\ ForwardOn(q, p, p.id, A, time + Param.reverse, "Reverse", last.reverse + 1)
    /\ paths' = touch(paths, p.dest, time)
    /\ reverse' \in keyed_insert(reverse,
                      [key |-> p.id, receiving |-> p.interface, outbound |-> q.interface,
                       expires |-> time + Param.reverse, gen |-> last.reverse + 1],
                      time, Cap.reverse)
    /\ last' = [last EXCEPT !.reverse = @ + 1, !.delivery = @ + Cardinality(A)]
    /\ discoveries' = LiveDiscoveries
    /\ UNCHANGED answered

\* Mutant: the reverse entry is recorded whether or not the packet was queued.
handle_transport_forward_unsent(p) ==
    LET usable == {q \in Rewritable(p.dest) : last.reverse < Limit.reverse}
    IN  IF TransportEnabled /\ p.transport_id = Us /\ usable # {}
        THEN \E q \in usable : ForwardData(p, q, RouteAdmits(q, p.interface, p.size))
        ELSE Idle /\ UNCHANGED <<paths, reverse>>

\* `handle_transport_forward`
handle_transport_forward(p) ==
    LET usable == {q \in Rewritable(p.dest) :
                     last.reverse < Limit.reverse /\ RouteAdmits(q, p.interface, p.size) # {}}
    IN  IF TransportEnabled /\ p.transport_id = Us /\ usable # {}
        THEN \E q \in usable : ForwardData(p, q, RouteAdmits(q, p.interface, p.size))
        ELSE Idle /\ UNCHANGED <<paths, reverse>>

IngestData(p) ==
    LET hash == <<"data", p.id>>
    IN  /\ Arrives(p, "data")
        /\ packet_hashes' \in NoteHash(hash)
        /\ IF HashSeen(hash) \/ p.dest \in OwnDests
           THEN Idle /\ UNCHANGED <<paths, reverse>>
           ELSE handle_transport_forward(p)
        /\ UNCHANGED <<time, interfaceVars, announceVars, links, request_tags, held>>

\* Mutant: the reverse entry is looked up and not taken.
ReturnProof_kept(p, r, A) ==
    /\ reverse' = expire(reverse, time)
    /\ outbound' = Enqueue(LiveOutbound, A, "ProofReturn",
         [s \in Slots |->
            [packet |-> [kind |-> "proof", dest |-> None, id |-> p.key,
                         next_hop |-> None, hops |-> Hops(p)],
             lifetime |-> Lifetime(time, Least(r.expires, time + Param.outbound), 0,
                                   "Independent", 0)]])
    /\ last' = [last EXCEPT !.delivery = @ + Cardinality(A)]
    /\ answered' = answered \cup {r.gen}
    /\ discoveries' = LiveDiscoveries

\* `handle_proof`, the reverse-route part: the entry is consumed, and put back
\* with its generation if the queue refuses the proof.
ReturnProof(p, r, A) ==
    /\ reverse' = expire(reverse, time) \ {r}
    /\ outbound' = Enqueue(LiveOutbound, A, "ProofReturn",
         [s \in Slots |->
            [packet |-> [kind |-> "proof", dest |-> None, id |-> p.key,
                         next_hop |-> None, hops |-> Hops(p)],
             lifetime |-> Lifetime(time, Least(r.expires, time + Param.outbound), 0,
                                   "Independent", 0)]])
    /\ last' = [last EXCEPT !.delivery = @ + Cardinality(A)]
    /\ answered' = answered \cup {r.gen}
    /\ discoveries' = LiveDiscoveries

IngestProof(p) ==
    LET hash == <<"proof", p.key, p.signature>>
        owed == {r \in reverse : /\ r.key = p.key /\ time < r.expires
                                 /\ r.outbound = p.interface}
        A(r) == Admitted(LiveOutbound, Forwardable(p.interface, slot(r.receiving)),
                         "ProofReturn", p.size)
    IN  /\ Arrives(p, "proof")
        /\ packet_hashes' \in NoteHash(hash)
        /\ IF HashSeen(hash) \/ owed = {}
           THEN Idle /\ UNCHANGED reverse
           ELSE \E r \in owed :
                  IF A(r) # {} THEN ReturnProof(p, r, A(r))
                  ELSE Idle /\ reverse' = expire(reverse, time)
        /\ UNCHANGED <<time, interfaceVars, paths, announceVars, links, request_tags, held>>

-----------------------------------------------------------------------------
(* Links                                                                   *)

\* `require_link_capacity`
HasLinkCapacity(id) == id \in Registered /\ Config[id].mtu >= LinkMtu

contains_live(k) == \E e \in links : e.key = k /\ time < e.expires

\* `link_deadline`: six seconds a hop, at least one hop.
link_deadline(hops) == time + Param.link_proof * (IF hops = 0 THEN 1 ELSE hops)

\* Mutant: the reserved generation is not committed.
ForwardLinkRequest_uncommitted(p, q, A) ==
    /\ ForwardOn(q, p, p.link, A, link_deadline(q.hops), "Link", last.link + 1)
    /\ paths' = touch(paths, p.dest, time)
    /\ links' \in keyed_insert(links,
                    [key |-> p.link, receiving |-> p.interface, outbound |-> q.interface,
                     remaining_hops |-> q.hops, taken_hops |-> Hops(p), validated |-> FALSE,
                     expires |-> link_deadline(q.hops), gen |-> last.link + 1],
                    time, Cap.links)
    /\ last' = [last EXCEPT !.delivery = @ + Cardinality(A)]
    /\ discoveries' = LiveDiscoveries
    /\ UNCHANGED answered

\* `handle_link_request` once the queue has admitted the request.
ForwardLinkRequest(p, q, A) ==
    /\ ForwardOn(q, p, p.link, A, link_deadline(q.hops), "Link", last.link + 1)
    /\ paths' = touch(paths, p.dest, time)
    /\ links' \in keyed_insert(links,
                    [key |-> p.link, receiving |-> p.interface, outbound |-> q.interface,
                     remaining_hops |-> q.hops, taken_hops |-> Hops(p), validated |-> FALSE,
                     expires |-> link_deadline(q.hops), gen |-> last.link + 1],
                    time, Cap.links)
    /\ last' = [last EXCEPT !.link = @ + 1, !.delivery = @ + Cardinality(A)]
    /\ discoveries' = LiveDiscoveries
    /\ UNCHANGED answered

\* Mutants: a full table evicts; the link is recorded unsent.
handle_link_request_evicts(p) ==
    LET usable == {q \in Rewritable(p.dest) :
                     /\ HasLinkCapacity(q.interface)
                     /\ last.link < Limit.link
                     /\ RouteAdmits(q, p.interface, p.size) # {}}
    IN  IF ~contains_live(p.link) /\ usable # {} /\ p.valid
        THEN \E q \in usable : ForwardLinkRequest(p, q, RouteAdmits(q, p.interface, p.size))
        ELSE Idle /\ UNCHANGED <<paths, links>>

handle_link_request_unsent(p) ==
    LET usable == {q \in Rewritable(p.dest) :
                     HasLinkCapacity(q.interface) /\ last.link < Limit.link}
    IN  IF /\ ~contains_live(p.link) /\ usable # {} /\ p.valid
           /\ Cardinality(expire(links, time)) < Cap.links
        THEN \E q \in usable : ForwardLinkRequest(p, q, RouteAdmits(q, p.interface, p.size))
        ELSE Idle /\ UNCHANGED <<paths, links>>

\* `handle_link_request`: a live owner of the link id is never replaced, and a
\* full table refuses rather than evict.
handle_link_request(p) ==
    LET usable == {q \in Rewritable(p.dest) :
                     /\ HasLinkCapacity(q.interface)
                     /\ last.link < Limit.link
                     /\ RouteAdmits(q, p.interface, p.size) # {}}
    IN  IF contains_live(p.link)
        THEN Idle /\ UNCHANGED <<paths, links>>
        ELSE IF Cardinality(expire(links, time)) < Cap.links /\ usable # {} /\ p.valid
        THEN \E q \in usable : ForwardLinkRequest(p, q, RouteAdmits(q, p.interface, p.size))
        ELSE Idle /\ links' = expire(links, time) /\ UNCHANGED paths

IngestLinkRequest(p) ==
    /\ Arrives(p, "link_request")
    /\ IF /\ HasLinkCapacity(p.interface) /\ p.dest \notin OwnDests
          /\ TransportEnabled /\ p.transport_id = Us
       THEN handle_link_request(p)
       ELSE Idle /\ UNCHANGED <<paths, links>>
    /\ UNCHANGED <<time, interfaceVars, packet_hashes, announceVars, reverse, request_tags, held>>

\* A packet of link k leaves through slots A: the deadline it carries is the one
\* the link has after it (a pending link keeps its establishment deadline).
SendOnLink(p, k, A, reason, deadline) ==
    /\ outbound' = Enqueue(LiveOutbound, A, reason,
         [s \in Slots |->
            [packet |-> [kind |-> p.kind, dest |-> None, id |-> k.key,
                         next_hop |-> None, hops |-> Hops(p)],
             lifetime |-> Lifetime(time, Least(time + Param.outbound, deadline), 0,
                                   "Link", k.gen)]])
    /\ last' = [last EXCEPT !.delivery = @ + Cardinality(A)]
    /\ discoveries' = LiveDiscoveries
    /\ UNCHANGED answered

\* `handle_proof`, the LRPROOF part: it must come back on the outbound interface
\* with the hops the request had left, and verify. Only a queued proof consumes
\* its hash and validates the link.
IngestLrproof(p) ==
    LET hash == <<"lrproof", p.link, p.id>>
        match == {k \in links : /\ k.key = p.link /\ time < k.expires
                                /\ k.outbound = p.interface /\ k.remaining_hops = Hops(p)
                                /\ p.valid
                                /\ HasLinkCapacity(k.receiving) /\ HasLinkCapacity(k.outbound)}
        A(k) == Admitted(LiveOutbound, Forwardable(p.interface, slot(k.receiving)),
                         "ProofReturn", p.size)
        sendable == {k \in match : ~HashSeen(hash) /\ A(k) # {}}
    IN  /\ Arrives(p, "lrproof")
        /\ IF sendable # {}
           THEN \E k \in sendable :
                  /\ SendOnLink(p, k, A(k), "ProofReturn", time + Param.link)
                  /\ packet_hashes' \in NoteHash(hash)
                  /\ links' = mark_validated(links, p.link, time + Param.link, time)
           ELSE Idle /\ UNCHANGED <<packet_hashes, links>>
        /\ UNCHANGED <<time, interfaceVars, paths, announceVars, reverse, request_tags, held>>

\* `route_link_packet`: the interface on the other side of the link, when the hop
\* count is the one that side was established with.
LinkTarget(p, k) ==
    IF k.outbound = k.receiving
    THEN IF Hops(p) \in {k.remaining_hops, k.taken_hops} THEN {k.outbound} ELSE {}
    ELSE IF p.interface = k.receiving /\ Hops(p) = k.taken_hops THEN {k.outbound}
    ELSE IF p.interface = k.outbound /\ Hops(p) = k.remaining_hops THEN {k.receiving}
    ELSE {}

\* Traffic of a link: `tracked` packets are remembered by hash, the repeating
\* contexts are not. A live link defers the duplicate check to itself.
IngestLinkPacket(p) ==
    LET hash == <<"link", p.link, p.id>>
        A(k) == Admitted(LiveOutbound,
                  Forwardable(p.interface, UNION {slot(t) : t \in LinkTarget(p, k)}),
                  p.reason, p.size)
        sendable == {k \in links :
                       /\ k.key = p.link /\ time < k.expires
                       /\ TransportEnabled /\ p.size <= LinkMtu
                       /\ HasLinkCapacity(k.receiving) /\ HasLinkCapacity(k.outbound)
                       /\ ~(p.tracked /\ HashSeen(hash))
                       /\ A(k) # {}}
    IN  /\ Arrives(p, "link_packet")
        /\ \/ /\ ~contains_live(p.link)
              /\ IF p.tracked THEN packet_hashes' \in NoteHash(hash) ELSE UNCHANGED packet_hashes
              /\ Idle /\ UNCHANGED links
           \/ /\ contains_live(p.link) /\ sendable = {}
              /\ Idle /\ UNCHANGED <<packet_hashes, links>>
           \/ \E k \in sendable :
                /\ SendOnLink(p, k, A(k), p.reason,
                              IF k.validated THEN time + Param.link ELSE k.expires)
                /\ IF p.tracked THEN packet_hashes' \in NoteHash(hash)
                                ELSE UNCHANGED packet_hashes
                /\ links' = IF k.validated
                            THEN link_touch(links, k.key, time + Param.link, time) ELSE links
        /\ UNCHANGED <<time, interfaceVars, paths, announceVars, reverse, request_tags, held>>

-----------------------------------------------------------------------------
(* Plain broadcasts                                                        *)

\* `bridge_plain_broadcast`: to the local clients, or from one to everybody.
IngestPlain(p) ==
    LET hash == <<"plain", p.id>>
        A == Admitted(LiveOutbound,
               BroadcastSlots(p.interface, ~is_local_client_interface(p.interface)),
               "TransportForward", p.size)
    IN  /\ Arrives(p, "plain")
        /\ packet_hashes' \in NoteHash(hash)
        /\ IF HashSeen(hash) THEN Idle
           ELSE /\ outbound' = Enqueue(LiveOutbound, A, "TransportForward",
                     [s \in Slots |->
                        [packet |-> [kind |-> "plain", dest |-> None, id |-> p.id,
                                     next_hop |-> None, hops |-> Hops(p)],
                         lifetime |-> Lifetime(time, time + Param.outbound, 0, "Independent", 0)]])
                /\ last' = [last EXCEPT !.delivery = @ + Cardinality(A)]
                /\ discoveries' = LiveDiscoveries
                /\ UNCHANGED answered
        /\ UNCHANGED <<time, interfaceVars, paths, announceVars, reverse, links,
                       request_tags, held>>

-----------------------------------------------------------------------------
(* The timer                                                               *)

\* `announce_current`: the path still is the one this announce taught.
announce_current(e, P) ==
    \E q \in get_live(P, e.dest, time) : q.emitted = e.emitted /\ ~q.response

\* One turn of the `pop_due` loop for a current announce: the targets become
\* owed, and one retry follows; after it the entry stays only for what is owed.
Reschedule(e, jitter) ==
    LET targets == announce_targets(e.interface)
        owed == [e EXCEPT !.pending = @ \cup targets,
                          !.expires = IF e.pending \cap targets = {}
                                      THEN time + Param.announce ELSE @,
                          !.retries = @ + 1]
    IN  IF owed.retries <= Param.pathfinder_r
        THEN {[owed EXCEPT !.due = time + Param.pathfinder_g + jitter]}
        ELSE {x \in {[owed EXCEPT !.due = 0, !.pending_only = TRUE]} : x.pending # {}}

\* The schedule after the `pop_due` loop, where P is the path table.
AfterDue(S, P, jitter) ==
    LET due == {e \in S : ~e.pending_only /\ time >= e.due}
    IN  (S \ due) \cup
        UNION {Reschedule(e, jitter[e.dest]) : e \in {x \in due : announce_current(x, P)}}

\* Mutant: the gate is not asked.
GateReady_ungated(Q) == {s \in Slots : registry[s] # NoId /\ GatedFor(Q, registry[s]) = {}}

\* `release_gated_announces`. A slot is ready when its gate is open and no
\* gated frame waits for its interface. `pick[s]` is the announce it releases:
\* the first current one of those owed to it (None when there is none).
GateReady(Q) ==
    {s \in Slots : /\ registry[s] # NoId /\ announce_gates[s] <= time
                   /\ GatedFor(Q, registry[s]) = {}}

OwedTo(S, s) == {e \in S : s \in e.pending}

FirstReleases(S, P, s) ==
    LET current == {e \in OwedTo(S, s) : announce_current(e, P)}
    IN  IF current = {} THEN {None}
        ELSE {e \in current : ~\E o \in current : release_precedes(o, e)}

\* The stale announces passed over on the way to the pick are removed; one that
\* ties with the pick may have come first (`ties`).
PassedOver(S, P, pick, ties) ==
    {e \in S : /\ ~announce_current(e, P)
               /\ \E s \in (DOMAIN pick) \cap e.pending :
                    \/ pick[s] = None
                    \/ release_precedes(e, pick[s])
                    \/ ~release_precedes(pick[s], e) /\ e \in ties}

Released(S, P, pick, ties) ==
    {e \in {[x EXCEPT !.pending = @ \ {s \in DOMAIN pick : pick[s] = x}] :
              x \in S \ PassedOver(S, P, pick, ties)} :
       ~(e.pending_only /\ e.pending = {})}

ReleaseGated(S, P, pick, ties) ==
    LET owing == {s \in DOMAIN pick : pick[s] # None}
        sendable == {s \in owing : /\ s \in Forwardable(pick[s].interface, Slots)
                                   /\ pick[s].size <= Config[registry[s]].mtu}
        A == Admitted(LiveOutbound, sendable, "AnnounceRebroadcast", 0)
        route(e) == CHOOSE q \in P : q.dest = e.dest
        body == [s \in sendable |->
                   [packet |-> AnnouncePacket(pick[s].dest, pick[s].hops, pick[s].emitted),
                    lifetime |-> PathToken(route(pick[s]))]]
    IN  /\ announce_schedule' = Released(S, P, pick, ties)
        /\ outbound' = Enqueue(LiveOutbound, A, "AnnounceRebroadcast", body)
        /\ announce_gates' = [s \in Slots |-> IF s \in A THEN time + Config[registry[s]].spacing
                                                         ELSE announce_gates[s]]
        /\ last' = [last EXCEPT !.delivery = @ + Cardinality(A)]

\* `tick`
Tick ==
    LET P == expire(paths, time)
    IN  /\ clock_ms' = time
        /\ discoveries' = LiveDiscoveries
        /\ packet_hashes' = expire(packet_hashes, time)
        /\ paths' = P
        /\ announce_cache' = retain_paths(expire(announce_cache, time), P, time)
        /\ reverse' = expire(reverse, time)
        /\ links' = expire(links, time)
        /\ request_tags' = expire(request_tags, time)
        /\ \E jitter \in [{e.dest : e \in announce_schedule} -> 0 .. Param.jitter] :
             LET S == AfterDue(expire(announce_schedule, time), P, jitter)
                 ready == GateReady(LiveOutbound)
                 stale == {e \in S : ~announce_current(e, P)}
             IN  \E pick \in [ready -> S \cup {None}], ties \in SUBSET stale :
                   /\ \A s \in ready : pick[s] \in FirstReleases(S, P, s)
                   /\ ReleaseGated(S, P, pick, ties)
        /\ UNCHANGED <<time, registry, online, generations, held, answered>>

-----------------------------------------------------------------------------
(* The host                                                                *)

\* The clock of the host. Capped by MaxTime.
Advance == /\ time < MaxTime
           /\ time' = time + 1
           /\ UNCHANGED <<clock_ms, interfaceVars, last, packet_hashes, paths, announceVars,
                          reverse, links, request_tags, discoveries, outbound, held, answered>>

\* Mutant: the discovery bits of the slot are forgotten.
retire_router_interface_requester(id, s) ==
    /\ generations' = [generations EXCEPT ![s] = 0]
    /\ announce_gates' = [announce_gates EXCEPT ![s] = 0]
    /\ discoveries' = discoveries
    /\ paths' = remove_interface(paths, id)
    /\ reverse' = remove_interface2(reverse, id)
    /\ links' = remove_interface2(links, id)
    /\ announce_schedule' = remove_interface(clear_target(announce_schedule, s), id)
    /\ announce_cache' = retain_paths(announce_cache, paths', clock_ms)
    /\ UNCHANGED <<time, clock_ms, last, packet_hashes, request_tags, held, answered>>
    /\ outbound' = {f \in outbound : router_outbound_is_live(f, clock_ms)'}

\* `retire_router_interface`: everything that names the interface or its slot
\* goes, and the queue is swept at the node's own clock.
retire_router_interface(id, s) ==
    /\ generations' = [generations EXCEPT ![s] = 0]
    /\ announce_gates' = [announce_gates EXCEPT ![s] = 0]
    /\ discoveries' = retire_requester(discoveries, s)
    /\ paths' = remove_interface(paths, id)
    /\ reverse' = remove_interface2(reverse, id)
    /\ links' = remove_interface2(links, id)
    /\ announce_schedule' = remove_interface(clear_target(announce_schedule, s), id)
    /\ announce_cache' = retain_paths(announce_cache, paths', clock_ms)
    /\ UNCHANGED <<time, clock_ms, last, packet_hashes, request_tags, held, answered>>
    /\ outbound' = {f \in outbound : router_outbound_is_live(f, clock_ms)'}

\* `register_interface`: the first free slot, a new generation.
register_interface(id, up) ==
    /\ "register" \in HostOps
    /\ id \notin Registered /\ last.interface < Limit.interface
    /\ \E s \in slot(NoId) :
         /\ \A r \in slot(NoId) : s <= r
         /\ registry' = [registry EXCEPT ![s] = id]
         /\ generations' = [generations EXCEPT ![s] = last.interface + 1]
         /\ announce_gates' = [announce_gates EXCEPT ![s] = 0]
         /\ announce_schedule' = clear_target(announce_schedule, s)
         /\ discoveries' = retire_requester(discoveries, s)
    /\ online' = IF up THEN online \cup {id} ELSE online
    /\ last' = [last EXCEPT !.interface = @ + 1]
    /\ UNCHANGED <<time, clock_ms, packet_hashes, paths, announce_cache, reverse, links,
                   request_tags, outbound, held, answered>>

\* `unregister_interface`: never the last one.
unregister_interface(id) ==
    /\ "register" \in HostOps
    /\ Registered # {id}
    /\ \E s \in slot(id) :
         /\ registry' = [registry EXCEPT ![s] = NoId]
         /\ online' = online \ {id}
         /\ retire_router_interface(id, s)

\* `set_interface_online(id, false)`: also when it is offline already.
SetOffline(id) ==
    /\ "online" \in HostOps
    /\ \E s \in slot(id) :
         /\ online' = online \ {id}
         /\ UNCHANGED registry
         /\ retire_router_interface(id, s)

\* Mutant: the last generation is handed out again.
SetOnline_again(id) ==
    /\ "online" \in HostOps
    /\ id \notin online /\ last.interface < Limit.interface
    /\ \E s \in slot(id) : generations' = [generations EXCEPT ![s] = last.interface]
    /\ online' = online \cup {id}
    /\ UNCHANGED last
    /\ UNCHANGED <<time, clock_ms, registry, announce_gates, packet_hashes, paths, announceVars,
                   reverse, links, request_tags, discoveries, outbound, held, answered>>

\* `set_interface_online(id, true)` on an offline interface.
SetOnline(id) ==
    /\ "online" \in HostOps
    /\ id \notin online /\ last.interface < Limit.interface
    /\ \E s \in slot(id) : generations' = [generations EXCEPT ![s] = last.interface + 1]
    /\ online' = online \cup {id}
    /\ last' = [last EXCEPT !.interface = @ + 1]
    /\ UNCHANGED <<time, clock_ms, registry, announce_gates, packet_hashes, paths, announceVars,
                   reverse, links, request_tags, discoveries, outbound, held, answered>>

\* `reset_router_in_place`: a new registration epoch; traffic state goes, the
\* counters stay.
reset_router_in_place ==
    /\ "reset" \in HostOps
    /\ last.interface < Limit.interface
    /\ registry' = InitRegistry
    /\ online' = InitOnline
    /\ generations' = [s \in Slots |-> last.interface + 1]
    /\ announce_gates' = [s \in Slots |-> 0]
    /\ last' = [last EXCEPT !.interface = @ + 1]
    /\ packet_hashes' = {} /\ paths' = {} /\ announce_cache' = {} /\ announce_schedule' = {}
    /\ reverse' = {} /\ links' = {} /\ request_tags' = {} /\ discoveries' = {}
    /\ outbound' = {}
    /\ UNCHANGED <<time, clock_ms, held, answered>>

\* `drop_path`
drop_path(d) ==
    /\ "drop_path" \in HostOps
    /\ paths' = {q \in paths : q.dest # d}
    /\ UNCHANGED <<time, clock_ms, interfaceVars, last, packet_hashes, announceVars,
                   reverse, links, request_tags, discoveries, outbound, held, answered>>

\* Mutant: the tag is recorded before the request is queued.
request_path_first(d, tag, id) ==
    LET Q == expire_outbound(time)
        A == Admitted(Q, slot(id), "PathRequest", 1)
        body == [s \in Slots |->
                   [packet |-> PathRequestPacket(d),
                    lifetime |-> Lifetime(time, time + Param.outbound, 0, "Independent", 0)]]
    IN  /\ "request_path" \in HostOps
        /\ clock_ms' = time
        /\ outbound' = Enqueue(Q, A, "PathRequest", body)
        /\ last' = [last EXCEPT !.delivery = @ + Cardinality(A)]
        /\ request_tags' \in insert_if_new(request_tags, <<d, tag>>, time + Param.tag,
                                             time, Cap.tags)
        /\ UNCHANGED <<time, interfaceVars, packet_hashes, paths, announceVars, reverse, links,
                       discoveries, held, answered>>

\* `request_path`: only a queued request records its tag.
request_path(d, tag, id) ==
    LET Q == expire_outbound(time)
        A == Admitted(Q, slot(id), "PathRequest", 1)
        body == [s \in Slots |->
                   [packet |-> PathRequestPacket(d),
                    lifetime |-> Lifetime(time, time + Param.outbound, 0, "Independent", 0)]]
    IN  /\ "request_path" \in HostOps
        /\ clock_ms' = time
        /\ outbound' = Enqueue(Q, A, "PathRequest", body)
        /\ last' = [last EXCEPT !.delivery = @ + Cardinality(A)]
        /\ IF A = {} THEN UNCHANGED request_tags
           ELSE request_tags' \in insert_if_new(request_tags, <<d, tag>>, time + Param.tag,
                                                time, Cap.tags)
        /\ UNCHANGED <<time, interfaceVars, packet_hashes, paths, announceVars, reverse, links,
                       discoveries, held, answered>>

\* `send_local`: at the node's clock, without sweeping the queue.
send_local(id) ==
    LET A == Admitted(outbound, slot(id), "Local", 1)
        body == [s \in Slots |->
                   [packet |-> [kind |-> "local", dest |-> None, id |-> None,
                                next_hop |-> None, hops |-> 0],
                    lifetime |-> Lifetime(clock_ms, clock_ms + Param.outbound, 0,
                                          "Independent", 0)]]
    IN  /\ "send_local" \in HostOps
        /\ outbound' = Enqueue(outbound, A, "Local", body)
        /\ last' = [last EXCEPT !.delivery = @ + Cardinality(A)]
        /\ UNCHANGED <<time, clock_ms, interfaceVars, packet_hashes, paths, announceVars, reverse,
                       links, request_tags, discoveries, held, answered>>

-----------------------------------------------------------------------------
(* The drivers                                                             *)

\* `interface_frame_offset`: a gated announce waits behind everything else.
FrameToPoll(Q, id) ==
    LET ungated == QueuedFor(Q, id) \ GatedFor(Q, id)
    IN  IF ungated # {} THEN Foremost(ungated) ELSE Foremost(QueuedFor(Q, id))

\* `poll_tx_for_interface`: sweeps at the node's clock, which may lag the host's.
poll_tx_for_interface(id) ==
    LET Q == expire_outbound(clock_ms)
    IN  /\ Cardinality(held) < HeldMax
        /\ \/ \E f \in FrameToPoll(Q, id) : held' = held \cup {f} /\ outbound' = Q \ {f}
           \/ FrameToPoll(Q, id) = {} /\ outbound' = Q /\ UNCHANGED held
        /\ UNCHANGED <<time, clock_ms, interfaceVars, last, packet_hashes, paths, announceVars,
                       reverse, links, request_tags, discoveries, answered>>

\* The driver asks router_outbound_is_live(f, time) and transmits f or discards
\* it; either way it lets go of the frame.
DriverDone(f) ==
    /\ held' = held \ {f}
    /\ UNCHANGED <<time, clock_ms, interfaceVars, last, packet_hashes, paths, announceVars,
                   reverse, links, request_tags, discoveries, outbound, answered>>

-----------------------------------------------------------------------------
Init ==
    /\ time = 0 /\ clock_ms = 0
    /\ registry = InitRegistry
    /\ online = InitOnline
    /\ generations = [s \in Slots |-> 1]
    /\ announce_gates = [s \in Slots |-> 0]
    /\ last = [interface |-> 1, path |-> 0, reverse |-> 0, link |-> 0, discovery |-> 0,
               delivery |-> 0]
    /\ packet_hashes = {} /\ paths = {} /\ announce_cache = {} /\ announce_schedule = {}
    /\ reverse = {} /\ links = {} /\ request_tags = {} /\ discoveries = {}
    /\ outbound = {} /\ held = {} /\ answered = {}

Ingest ==
    \/ IngestDropped
    \/ \E p \in Packets :
         \/ IngestAnnounce(p) \/ IngestPathRequest(p) \/ IngestData(p) \/ IngestProof(p)
         \/ IngestLinkRequest(p) \/ IngestLrproof(p) \/ IngestLinkPacket(p) \/ IngestPlain(p)

Host ==
    \/ Advance
    \/ \E id \in HostIds : \/ register_interface(id, TRUE) \/ register_interface(id, FALSE)
                           \/ unregister_interface(id) \/ SetOffline(id) \/ SetOnline(id)
                           \/ send_local(id)
    \/ reset_router_in_place
    \/ \E d \in Dests : drop_path(d)
    \/ \E d \in Dests, tag \in RequestTags, id \in HostIds : request_path(d, tag, id)

Driver ==
    \/ \E id \in Ids : poll_tx_for_interface(id)
    \/ \E f \in held : DriverDone(f)

Next == Ingest \/ Tick \/ Host \/ Driver

Spec == Init /\ [][Next]_vars
=============================================================================
