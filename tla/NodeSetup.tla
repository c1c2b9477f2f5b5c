---------------------------- MODULE NodeSetup -----------------------------
(***************************************************************************)
(* What a host may configure on a running router (config.rs, the setup     *)
(* calls of transport.rs and transport/router.rs): its configuration, its  *)
(* interfaces, and the pool of slots that its own destinations share with  *)
(* the links it terminates.  What these calls do to traffic and to the     *)
(* registration generations is modelled in Router.                         *)
(***************************************************************************)
EXTENDS Options, PacketSizes, Integers, FiniteSets, FiniteSetsExt

CONSTANTS
    Hashes,                     \* destinations and link IDs
    Configs,                    \* configurations a host tries
    Descriptors,                \* interface descriptors a host tries
    Capacities,                 \* const-generic capacities by the name of the cap
    MAX_INTERFACES,
    ROUTER_LOCAL_SLOTS,
    LOCAL_LINKS_MAX,
    WATCHED_DESTINATIONS_MAX

ASSUME SetupAssumption ==
    /\ MAX_INTERFACES \in Nat \ {0}
    /\ {LOCAL_LINKS_MAX, ROUTER_LOCAL_SLOTS} \subseteq Nat
    /\ ROUTER_LOCAL_SLOTS >= LOCAL_LINKS_MAX + 2
    /\ \A c \in Configs : DOMAIN c.table_caps = DOMAIN Capacities
    /\ "tx_queue_depth" \in DOMAIN Capacities

VARIABLES
    config,
    registry,   \* slot -> descriptor or None
    local,      \* slot -> <<"destination" or "link", hash>> or None
    watched,    \* watched destinations
    plain_sink

setupVars == <<config, registry, local, watched, plain_sink>>

---------------------------------------------------------------------------
(* Interface descriptors.                                                  *)

LORA_SPLIT_FRAME_PAYLOAD_MAX == 508

BIDIRECTIONAL == [inbound |-> TRUE, outbound |-> TRUE, forward |-> TRUE, repeat |-> FALSE]
REPEATER == [BIDIRECTIONAL EXCEPT !.repeat = TRUE]

access_point(id, depth) ==
    [id |-> id, role |-> "Normal", mode |-> "AccessPoint", direction |-> BIDIRECTIONAL,
     mtu |-> MTU, ifac |-> None, online |-> TRUE, tx_queue_depth |-> depth, bulk_paths |-> FALSE]

network_peer(id, depth) == [access_point(id, depth) EXCEPT !.mode = "Gateway"]

lora(id, depth) == [network_peer(id, depth) EXCEPT !.role = "LoRa"]

lora_repeater(id, depth) == [lora(id, depth) EXCEPT !.direction = REPEATER]

local_client(id, depth) ==
    [access_point(id, depth) EXCEPT !.role = "LocalClient", !.mode = "Internal"]

backbone(id, depth) ==
    [access_point(id, depth) EXCEPT !.role = "Backbone", !.mode = "Boundary", !.bulk_paths = TRUE]

IfacSize(ifac) == IF ifac = None THEN 0 ELSE ifac

\* The packet that fits, without its access code: a LoRa frame carries the code too.
clear_mtu(i) ==
    LET physical == IF i.role = "LoRa" THEN LORA_SPLIT_FRAME_PAYLOAD_MAX - IfacSize(i.ifac)
                    ELSE i.mtu
    IN  Min({i.mtu, Max({physical, 0})})

wire_mtu(i) == clear_mtu(i) + IfacSize(i.ifac)

ValidIfac(ifac) == ifac = None \/ ifac \in 1 .. 64

ValidDirection(d) ==
    /\ d.inbound \/ d.outbound
    /\ d.forward \/ d.repeat => d.outbound

\* InterfaceConfig::validate.
ValidInterface(i, total_queue_depth) ==
    /\ ValidIfac(i.ifac)
    /\ i.mtu \in HEADER_MINSIZE .. MTU
    /\ i.tx_queue_depth \in 1 .. total_queue_depth
    /\ ValidDirection(i.direction)

---------------------------------------------------------------------------
(* Configuration and registry.                                             *)

Entries(r) == {s \in DOMAIN r : r[s] # None}

\* InterfaceRegistry::validate.
ValidRegistry(r, total_queue_depth) ==
    /\ \A s \in Entries(r) : ValidInterface(r[s], total_queue_depth)
    /\ \A s, t \in Entries(r) : s # t => r[s].id # r[t].id

\* TableCaps::validate.
ValidCaps(caps) == \A f \in {"path_entries", "packet_hashes", "tx_queue_depth"} : caps[f] # 0

\* LiteConfig::validate.
ValidConfig(c) ==
    /\ ValidIfac(c.ifac)
    /\ c.mtu = MTU
    /\ c.mdu <= c.mtu
    /\ ValidCaps(c.table_caps)

\* LiteNode::validate_config: the tables of this build hold what is configured.
validate_config(c) ==
    /\ ValidConfig(c)
    /\ \A f \in DOMAIN Capacities : c.table_caps[f] <= Capacities[f]

Registries == [1 .. MAX_INTERFACES -> Descriptors \cup {None}]

\* new_router and reset_router_in_place: what they install.
Installed(c, r) ==
    /\ validate_config(c)
    /\ ValidRegistry(r, c.table_caps.tx_queue_depth)

\* What new_router and reset_router_in_place accept.
Installable == {cr \in Configs \X Registries : Installed(cr[1], cr[2])}

\* new_router.
SetupInit ==
    /\ \E cr \in Installable : config = cr[1] /\ registry = cr[2]
    /\ local = [s \in 1 .. ROUTER_LOCAL_SLOTS |-> None]
    /\ watched = {}
    /\ plain_sink = None

reset_router_in_place ==
    /\ \E cr \in Installable : config' = cr[1] /\ registry' = cr[2]
    /\ local' = [s \in DOMAIN local |-> None]
    /\ watched' = {}
    /\ plain_sink' = None

\* InterfaceRegistry::register: the first free slot; a duplicate ID and a full
\* registry are refused.
RegisterDescriptor(i) ==
    /\ \A s \in Entries(registry) : registry[s].id # i.id
    /\ Entries(registry) # DOMAIN registry
    /\ registry' = [registry EXCEPT ![Min(DOMAIN registry \ Entries(registry))] = i]

register_interface(i) ==
    /\ ValidInterface(i, config.table_caps.tx_queue_depth)
    /\ RegisterDescriptor(i)
    /\ UNCHANGED <<config, local, watched, plain_sink>>

\* The last interface stays.
unregister_interface(s) ==
    /\ s \in Entries(registry)
    /\ Cardinality(Entries(registry)) # 1
    /\ registry' = [registry EXCEPT ![s] = None]
    /\ UNCHANGED <<config, local, watched, plain_sink>>

set_interface_online(s, online) ==
    /\ s \in Entries(registry)
    /\ registry' = [registry EXCEPT ![s].online = online]
    /\ UNCHANGED <<config, local, watched, plain_sink>>

---------------------------------------------------------------------------
(* The local pool.                                                         *)

HoldersOf(pool, kind) == {s \in DOMAIN pool : pool[s] # None /\ pool[s][1] = kind}

Has(pool, value) == \E s \in DOMAIN pool : pool[s] = value

\* register_local_slot: the pool afterwards, itself when the value is there or no
\* slot is free.
register_local_slot(pool, value) ==
    LET free == {s \in DOMAIN pool : pool[s] = None}
    IN  IF Has(pool, value) \/ free = {} THEN pool ELSE [pool EXCEPT ![Min(free)] = value]

local_link_count == Cardinality(HoldersOf(local, "link"))

\* Mutant: a link takes any free slot.
RegisterAnyLink(link) ==
    /\ local' = register_local_slot(local, <<"link", link>>)
    /\ UNCHANGED <<config, registry, watched, plain_sink>>

register_local_link(link) ==
    /\ Has(local, <<"link", link>>) \/ local_link_count < LOCAL_LINKS_MAX
    /\ local' = register_local_slot(local, <<"link", link>>)
    /\ UNCHANGED <<config, registry, watched, plain_sink>>

register_local_destination(hash) ==
    /\ local' = register_local_slot(local, <<"destination", hash>>)
    /\ UNCHANGED <<config, registry, watched, plain_sink>>

\* unregister_local_destination and unregister_local_link.
unregister_local(value) ==
    /\ local' = [s \in DOMAIN local |-> IF local[s] = value THEN None ELSE local[s]]
    /\ UNCHANGED <<config, registry, watched, plain_sink>>

clear_local ==
    /\ local' = [s \in DOMAIN local |-> None]
    /\ UNCHANGED <<config, registry, watched, plain_sink>>

WithoutDestinations ==
    [s \in DOMAIN local |-> IF s \in HoldersOf(local, "destination") THEN None ELSE local[s]]

clear_own_destinations ==
    /\ local' = WithoutDestinations
    /\ UNCHANGED <<config, registry, watched, plain_sink>>

\* The result of the registration is not looked at.
set_own_destination(hash) ==
    /\ local' = register_local_slot(WithoutDestinations, <<"destination", hash>>)
    /\ UNCHANGED <<config, registry, watched, plain_sink>>

set_watched_destinations(destinations) ==
    /\ Cardinality(destinations) <= WATCHED_DESTINATIONS_MAX
    /\ watched' = destinations
    /\ UNCHANGED <<config, registry, local, plain_sink>>

set_local_plain_sink(sink) ==
    /\ plain_sink' = sink
    /\ UNCHANGED <<config, registry, local, watched>>

SetupNext ==
    \/ reset_router_in_place
    \/ \E i \in Descriptors : register_interface(i)
    \/ \E s \in DOMAIN registry :
          unregister_interface(s) \/ \E online \in BOOLEAN : set_interface_online(s, online)
    \/ \E hash \in Hashes :
          \/ register_local_destination(hash) \/ register_local_link(hash)
          \/ \E kind \in {"destination", "link"} : unregister_local(<<kind, hash>>)
          \/ set_own_destination(hash)
    \/ clear_local \/ clear_own_destinations
    \/ \E destinations \in SUBSET Hashes : set_watched_destinations(destinations)
    \/ \E sink \in Hashes \cup {None} : set_local_plain_sink(sink)

SetupSpec == SetupInit /\ [][SetupNext]_setupVars

---------------------------------------------------------------------------
\* Whatever sequence of setup calls a host makes, the node stays usable: every
\* interface carries at least a packet header and at most the protocol MTU
\* (clear_mtu), a LoRa interface with its access code no more than a split frame
\* holds (wire_mtu); its queue share fits the queue of the configuration now in
\* force and that fits the memory; IDs are unique.  In the pool no value is twice
\* and links leave two slots to destinations (LOCAL_LINKS_MAX), so that
\* set_own_destination, which ignores a refusal, is never refused.
SetupsStayUsable ==
    /\ \A s \in Entries(registry) :
          /\ clear_mtu(registry[s]) \in HEADER_MINSIZE .. MTU
          /\ registry[s].role = "LoRa" => wire_mtu(registry[s]) <= LORA_SPLIT_FRAME_PAYLOAD_MAX
          /\ registry[s].tx_queue_depth \in 1 .. config.table_caps.tx_queue_depth
          /\ \A t \in Entries(registry) : registry[s].id = registry[t].id => s = t
    /\ config.table_caps.tx_queue_depth <= Capacities.tx_queue_depth
    /\ \A s, t \in DOMAIN local : local[s] # None /\ local[s] = local[t] => s = t
    /\ \A hash \in Hashes :
          Has(register_local_slot(WithoutDestinations, <<"destination", hash>>),
              <<"destination", hash>>)
===========================================================================
