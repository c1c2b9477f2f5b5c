---------------------------- MODULE MCInterfaces --------------------------
(* The interfaces of a node: the calls that set them up, and the outbound   *)
(* frames retained for them while they reconnect and are replaced.  The     *)
(* models share no state, so each behaviour runs one of them and the other  *)
(* stays where it began.                                                    *)
EXTENDS NodeSetup, RetainedOutbound, TLC

VARIABLE part

vars == <<setupVars, retainedVars, part>>

---------------------------------------------------------------------------
\* Set-up: descriptors on both sides of every limit, for a node of two
\* interfaces, three local slots and one link.
MCCapacities ==
    [path_entries |-> 2, packet_hashes |-> 2, announce_entries |-> 1, reverse_entries |-> 1,
     link_entries |-> 1, path_request_tags |-> 1, queued_announces_per_interface |-> 2,
     tx_queue_depth |-> 2]

Usual == [ifac |-> None, mtu |-> MTU, mdu |-> 464, table_caps |-> MCCapacities]

MCConfigs ==
    {Usual, [Usual EXCEPT !.table_caps.tx_queue_depth = 1],
     [Usual EXCEPT !.table_caps.tx_queue_depth = 3],
     [Usual EXCEPT !.table_caps.path_entries = 0], [Usual EXCEPT !.mdu = 501]}

MCDescriptors ==
    {[lora(1, 2) EXCEPT !.ifac = 64], [lora_repeater(2, 1) EXCEPT !.ifac = 8],
     [access_point(1, 1) EXCEPT !.mtu = 19], [backbone(2, 3) EXCEPT !.mtu = 18],
     [network_peer(2, 1) EXCEPT !.ifac = 0],
     [local_client(1, 1) EXCEPT !.direction.outbound = FALSE]}

\* Retained frames: interfaces are interchangeable, and so are modes.
Symmetry == Permutations(Interfaces) \cup Permutations(Modes)

---------------------------------------------------------------------------
\* Set-up begins with an empty registry where it does not run.
Init ==
    /\ part \in {"setup", "retained"}
    /\ SetupInit
    /\ part # "setup" => config = Usual /\ Entries(registry) = {}
    /\ RetainedInit

\* Every frame may be sent and every generation used; set-up always goes on.
Over == part = "retained" /\ UNCHANGED vars

Next ==
    \/ part = "setup" /\ SetupNext /\ UNCHANGED <<retainedVars, part>>
    \/ part = "retained" /\ RetainedNext /\ UNCHANGED <<setupVars, part>>
    \/ Over

Spec == Init /\ [][Next]_vars
===========================================================================
