---------------------------- MODULE RouterState ----------------------------
(***************************************************************************)
(* The state of a router node (LiteNode with the Router model) and the     *)
(* parts every handler shares: interface facts, the lifetime of queued     *)
(* bytes, and admission to the outbound queue.                             *)
(*                                                                         *)
(* A queued frame does not own the routing state it depends on. It carries *)
(* tokens: the generation of its path, the generation of its reverse, link *)
(* or discovery entry, and the registration generation of its interface.   *)
(* Whoever is about to transmit it asks whether those tokens are live.     *)
(***************************************************************************)
EXTENDS Tables

CONSTANTS
    Ids,            \* interface ids the host may register
    NoId,           \* an empty registry slot
    NSlots,         \* number of registry slots (REQUESTERS)
    Config,         \* [Ids -> InterfaceConfig]: direction, role, mode, depth...
    Dests,          \* destination hashes
    OwnDests,       \* destinations of this node, among them
    None,           \* an absent optional value
    Us,             \* this node's transport id
    TransportEnabled,
    Param,          \* the protocol constants of constants.rs, as a record
    Cap,            \* table capacities, as a record
    Limit,          \* the last value of each checked counter, as a record
    NodeMtu,        \* clear MTU of the node (a reframed announce must fit it)
    LinkMtu,        \* clear MTU a link needs on both interfaces
    MaxTime,        \* bound: the host clock stops there
    HeldMax,        \* bound: frames the drivers hold at once
    InitRegistry,   \* the registry given to new_router and to a reset
    InitOnline      \* the interfaces online in it

VARIABLES
    time,               \* the host's monotonic millisecond clock
    clock_ms,           \* the node's copy: the time of its last timed call
    registry,           \* slot -> interface id, or NoId
    online,             \* ids of the registered interfaces that are online
    generations,        \* slot -> registration generation, 0 when retired
    announce_gates,     \* slot -> allowed_at_ms
    last,               \* the last value handed out by each counter
    packet_hashes, paths, announce_cache, announce_schedule,
    reverse, links, request_tags, discoveries,
    outbound,           \* queued frames; `identity` is their queue order
    held,               \* frames polled by a driver and not yet transmitted
    answered            \* history: reverse generations whose proof was queued

interfaceVars == <<registry, online, generations, announce_gates>>
announceVars == <<announce_cache, announce_schedule>>
vars == <<time, clock_ms, interfaceVars, last, packet_hashes, paths, announceVars,
          reverse, links, request_tags, discoveries, outbound, held, answered>>

Slots == 1 .. NSlots
InterfaceMode == {"Full", "PointToPoint", "Gateway", "AccessPoint", "Roaming", "Boundary",
                  "Internal"}

ASSUME IdsAssumption == NoId \notin Ids /\ NSlots \in Nat
ASSUME ConfigAssumption ==
    \A id \in Ids : /\ Config[id].mode \in InterfaceMode
                    /\ Config[id].bulk \in BOOLEAN
                    /\ Config[id].spacing \in Nat
ASSUME ParamAssumption ==
    /\ \A m \in InterfaceMode : Param.path[m] \in Nat
    /\ \A n \in {Param.hashlist, Param.outbound, Param.request, Param.reverse, Param.link,
                 Param.link_proof, Param.tag, Param.announce, Param.discovery, Param.jitter,
                 Param.pathfinder_g} : n \in Nat
\* `validate`: no interface is registered twice.
ASSUME RegistryAssumption ==
    /\ InitRegistry \in [Slots -> Ids \cup {NoId}]
    /\ \A s, r \in Slots : InitRegistry[s] = InitRegistry[r] => s = r \/ InitRegistry[s] = NoId
    /\ InitOnline \subseteq {InitRegistry[s] : s \in Slots} \ {NoId}

Least(a, b) == IF a <= b THEN a ELSE b

-----------------------------------------------------------------------------
(* Interface facts (src/model.rs, src/config.rs)                           *)

slot(id) == {s \in Slots : registry[s] = id}
Registered == {registry[s] : s \in Slots} \ {NoId}

\* `Router::online`: online and allowed to transmit.
outbound_interface_online(id) == id \in online /\ Config[id].outbound

\* `Router::generation` never answers for an unregistered interface.
delivery_is_current(id, g) == g # 0 /\ \E s \in slot(id) : generations[s] = g

is_local_client_interface(id) == Config[id].local

\* `mode_discovers_unknown_paths`
mode_discovers_unknown_paths(mode) ==
    mode \in {"AccessPoint", "Gateway", "Roaming", "Internal"}

\* `announce_egress_allowed`
announce_egress_allowed(source, target) ==
    /\ outbound_interface_online(target)
    /\ IF source = target THEN Config[target].repeat ELSE Config[target].forward
    /\ \/ is_local_client_interface(target)
       \/ Config[target].mode \in {"Full", "PointToPoint", "Gateway"}
       \/ Config[target].mode = "Internal" /\ Config[source].mode # "Boundary"
       \/ Config[target].mode = "Roaming" /\ Config[source].mode \notin {"Roaming", "Boundary"}
       \/ Config[target].mode = "Boundary" /\ Config[source].mode # "Roaming"

announce_targets(source) ==
    {s \in Slots : registry[s] # NoId /\ source \in Registered
                     /\ announce_egress_allowed(source, registry[s])}

-----------------------------------------------------------------------------
(* Lifetimes (src/transport.rs)                                            *)

Lifetime(now, expires, path, state, owner) ==
    [enqueued |-> now, expires |-> expires, path |-> path,
     state |-> state, owner |-> owner]

\* `outbound_lifetime_is_live`
outbound_lifetime_is_live(id, l, now) ==
    /\ l.enqueued <= now /\ now < l.expires
    /\ outbound_interface_online(id)
    /\ l.path # 0 =>
         \E p \in paths : /\ p.gen = l.path /\ now < p.expires
                          /\ outbound_interface_online(p.interface)
    /\ l.state = "Discovery" =>
         /\ TransportEnabled
         /\ \E d \in discoveries : d.gen = l.owner /\ d.requesters # {} /\ now < d.expires
    /\ l.state = "Reverse" =>
         \E r \in reverse : /\ r.gen = l.owner /\ now < r.expires
                            /\ r.outbound = id
                            /\ outbound_interface_online(r.receiving)
    /\ l.state = "Link" =>
         \E k \in links : /\ k.gen = l.owner /\ now < k.expires
                          /\ id \in {k.outbound, k.receiving}
                          /\ outbound_interface_online(k.outbound)
                          /\ outbound_interface_online(k.receiving)

\* `router_outbound_is_live`: what a driver asks before it transmits, and the
\* test `expire_outbound` keeps a queued frame by.
router_outbound_is_live(f, now) ==
    /\ delivery_is_current(f.interface, f.delivery)
    /\ outbound_lifetime_is_live(f.interface, f.lifetime, now)

expire_outbound(now) == {f \in outbound : router_outbound_is_live(f, now)}

-----------------------------------------------------------------------------
(* Admission to the outbound queue                                         *)

gated(reason) == reason = "AnnounceRebroadcast"

QueuedFor(Q, id) == {f \in Q : f.interface = id}
GatedFor(Q, id) == {f \in QueuedFor(Q, id) : gated(f.reason)}
Foremost(Q) == {f \in Q : \A g \in Q : f.identity <= g.identity}

\* `reserve_router_queue`: which frame makes room on a full interface.
QueueVictim(Q, id, reason) ==
    IF GatedFor(Q, id) # {} THEN Foremost(GatedFor(Q, id))
    ELSE IF gated(reason) THEN {} ELSE Foremost(QueuedFor(Q, id))

\* Mutant: full one frame early.
QueueFull_early(Q, id) == Cardinality(QueuedFor(Q, id)) + 1 >= Config[id].depth

QueueFull(Q, id) == Cardinality(QueuedFor(Q, id)) >= Config[id].depth

\* The slots of T that `enqueue_with_lifetime`, called for each in slot order,
\* admits to queue Q. A full interface trades a frame for a frame, so the slots
\* before s have lengthened the queue by the interfaces among them that were
\* not full.
Admitted(Q, T, reason, size) ==
    LET open == {s \in T : /\ registry[s] # NoId
                           /\ outbound_interface_online(registry[s])
                           /\ size <= Config[registry[s]].mtu}
        longer(s) == {r \in open : r < s /\ ~QueueFull(Q, registry[r])}
        room == {s \in open :
                   IF QueueFull(Q, registry[s])
                   THEN QueueVictim(Q, registry[s], reason) # {}
                   ELSE Cardinality(Q) + Cardinality(longer(s)) < Cap.outbound}
    IN  {s \in room : last.delivery + Cardinality({r \in room : r <= s}) <= Limit.delivery}

\* The queue after admitting slots A, where B[s] is the packet and lifetime
\* queued for slot s.
Enqueue(Q, A, reason, B) ==
    LET victims == UNION {QueueVictim(Q, registry[s], reason) :
                            s \in {r \in A : QueueFull(Q, registry[r])}}
    IN  (Q \ victims) \cup
        {[interface |-> registry[s], reason |-> reason, delivery |-> generations[s],
          identity |-> last.delivery + Cardinality({r \in A : r <= s}),
          packet |-> B[s].packet, lifetime |-> B[s].lifetime] : s \in A}

\* `enqueue_forwarded`: the registered slots of T that may carry traffic
\* received on `source`.
Forwardable(source, T) ==
    {s \in T : /\ registry[s] # NoId
               /\ IF registry[s] = source THEN Config[source].repeat
                                          ELSE Config[registry[s]].forward}

\* `enqueue_packet_broadcast`: every slot, or only the local clients.
BroadcastSlots(source, local_only) ==
    Forwardable(source, {s \in Slots : registry[s] # NoId
                           /\ (local_only => is_local_client_interface(registry[s]))})
=============================================================================
