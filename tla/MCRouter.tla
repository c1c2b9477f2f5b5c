------------------------------ MODULE MCRouter ------------------------------
(***************************************************************************)
(* Small instances of the router. Each gives the node a few interfaces, a  *)
(* few packets that may arrive at any time and in any order, and the host  *)
(* calls it studies; times are in units, not milliseconds.                 *)
(***************************************************************************)
EXTENDS RouterProperties

Iface(mode, depth) ==
    [inbound |-> TRUE, outbound |-> TRUE, forward |-> TRUE, repeat |-> FALSE, local |-> FALSE,
     mode |-> mode, bulk |-> FALSE, depth |-> depth, spacing |-> 1, mtu |-> 2]

Announce(d, id, hops, via, emitted) ==
    [kind |-> "announce", interface |-> id, dest |-> d, hops |-> hops, next_hop |-> via,
     emitted |-> emitted, response |-> FALSE, valid |-> TRUE, size |-> 1]

\* Learned and cached but too large to be reframed, so never scheduled.
Quiet(announce) == [announce EXCEPT !.size = 3]

Data(d, id, n) ==
    [kind |-> "data", interface |-> id, dest |-> d, id |-> n, hops |-> 0,
     transport_id |-> Us, size |-> 1]

Proof(n, id, sig) ==
    [kind |-> "proof", interface |-> id, key |-> n, signature |-> sig, hops |-> 0, size |-> 1]

Times == [hashlist |-> 1, outbound |-> 2, request |-> 1, reverse |-> 2, link |-> 2,
          link_proof |-> 1, tag |-> 2, announce |-> 3, discovery |-> 1, jitter |-> 0,
          pathfinder_m |-> 4, pathfinder_r |-> 1, pathfinder_g |-> 1,
          local_rebroadcasts_max |-> 2,
          path |-> [m \in {"Full", "PointToPoint", "Gateway", "AccessPoint", "Roaming",
                           "Boundary", "Internal"} |-> 2]]

-----------------------------------------------------------------------------
(* Forwarding: two routes to one destination, two packets for it, proofs.  *)

FwdIds == {"a", "b"}
FwdRegistry == <<"a", "b">>
FwdConfig == [a |-> Iface("AccessPoint", 1), b |-> Iface("AccessPoint", 2)]
FwdPackets ==
    {Quiet(Announce("d", "a", 0, None, 1)), Quiet(Announce("d", "a", 1, "r", 2)),
     Data("d", "b", "x"),
     Proof("x", "a", 1), Proof("x", "a", 2)}
FwdCap == [paths |-> 1, hashes |-> 2, announces |-> 1, schedule |-> 1, reverse |-> 1,
           links |-> 1, tags |-> 1, outbound |-> 1, discoveries |-> 1]
FwdLimit == [interface |-> 2, path |-> 2, reverse |-> 2, link |-> 1, discovery |-> 1,
             delivery |-> 3]

-----------------------------------------------------------------------------
(* Links: two requests for a table of one, their proofs and their traffic, *)
(* from both sides, over a destination one hop away.                       *)

LinkRequest(d, id, link) ==
    [kind |-> "link_request", interface |-> id, dest |-> d, link |-> link, hops |-> 0,
     transport_id |-> Us, valid |-> TRUE, size |-> 1]

Lrproof(link, id, hops) ==
    [kind |-> "lrproof", interface |-> id, link |-> link, id |-> 1, hops |-> hops,
     valid |-> TRUE, size |-> 1]

LinkPacket(link, id, n, tracked) ==
    [kind |-> "link_packet", interface |-> id, link |-> link, id |-> n, hops |-> 0,
     tracked |-> tracked, reason |-> "TransportForward", size |-> 1]

LinkPackets ==
    {Quiet(Announce("d", "a", 0, None, 1)),
     LinkRequest("d", "b", "l"), LinkRequest("d", "b", "m"),
     Lrproof("l", "a", 0), Lrproof("m", "a", 0), [Lrproof("l", "a", 0) EXCEPT !.valid = FALSE],
     LinkPacket("l", "a", 1, FALSE), LinkPacket("l", "b", 2, TRUE)}
LinkConfig == [a |-> Iface("Full", 1), b |-> Iface("Full", 1)]
PairCap == [FwdCap EXCEPT !.outbound = 2]
LinkCap == [PairCap EXCEPT !.hashes = 3]
LinkLimit == [interface |-> 2, path |-> 2, reverse |-> 1, link |-> 2, discovery |-> 1,
              delivery |-> 4]

-----------------------------------------------------------------------------
(* Discovery: requests from two interfaces that take turns in one slot, a  *)
(* third that has the answer, and a reset.                                 *)

PathRequest(d, id, requestor, tag) ==
    [kind |-> "path_request", interface |-> id, dest |-> d, requestor |-> requestor, tag |-> tag]

Response(announce) == [announce EXCEPT !.response = TRUE]

DiscIds == {"a", "b", "c"}
DiscOnline == {"a", "b"}
DiscConfig == [a |-> Iface("Full", 2), b |-> Iface("Gateway", 2),
               c |-> Iface("Roaming", 1)]
DiscPackets ==
    {Response(Announce("d", "a", 0, None, 1)), Response(Announce("d", "a", 1, "r", 2)),
     PathRequest("d", "b", None, 1), PathRequest("d", "c", "r", 2)}
DiscCap == [FwdCap EXCEPT !.outbound = 3, !.tags = 2]
DiscLimit == [interface |-> 3, path |-> 2, reverse |-> 1, link |-> 1, discovery |-> 2,
              delivery |-> 3]

-----------------------------------------------------------------------------
(* Announces: two destinations heard on one interface, owed to another of  *)
(* depth one that goes down and also carries local traffic.                *)

AnnConfig == [a |-> Iface("Full", 1), b |-> [Iface("Boundary", 1) EXCEPT !.spacing = 2]]
AnnPackets ==
    {Announce("d", "a", 0, None, 1), Announce("e", "a", 0, None, 1),
     Response(Announce("d", "a", 0, None, 2))}
AnnTimes == [Times EXCEPT !.hashlist = 9, !.path = [m \in DOMAIN Times.path |-> 9],
                          !.outbound = 2]
AnnCap == [PairCap EXCEPT !.paths = 2, !.schedule = 2, !.hashes = 1]
AnnLimit == [interface |-> 1, path |-> 2, reverse |-> 1, link |-> 1, discovery |-> 1,
             delivery |-> 3]

-----------------------------------------------------------------------------
(* Learning: a path table of two shared by bulk and ordinary announces.    *)

LearnConfig == [a |-> [Iface("Gateway", 1) EXCEPT !.bulk = TRUE], b |-> Iface("Full", 1)]
LearnPackets ==
    {Quiet(Announce("d", "a", 0, None, 1)), Quiet(Announce("d", "b", 2, "r", 1)),
     Quiet(Announce("e", "b", 0, None, 1)), Quiet(Announce("e", "a", 0, None, 2)),
     Quiet(Announce("g", "a", 0, None, 1)), Quiet(Announce("g", "b", 3, None, 2)),
     Quiet(Announce("own", "b", 0, None, 1)),
     PathRequest("g", "a", None, 1)}
LearnCap == [PairCap EXCEPT !.paths = 2, !.hashes = 1]
LearnLimit == [interface |-> 1, path |-> 3, reverse |-> 1, link |-> 1, discovery |-> 1,
               delivery |-> 1]

-----------------------------------------------------------------------------
(* Retries: one announce, its rebroadcasts, and the copies neighbours send. *)

RetryPackets ==
    {Announce("d", "a", 0, None, 1), Announce("d", "b", 1, "r", 1), Announce("d", "b", 2, "r", 1),
     Announce("d", "a", 2, "r", 2)}
RetryConfig == [a |-> [Iface("Full", 1) EXCEPT !.repeat = TRUE], b |-> Iface("Full", 1)]
RetryTimes == [Times EXCEPT !.jitter = 1, !.announce = 2,
                            !.path = [m \in DOMAIN Times.path |-> 3]]

-----------------------------------------------------------------------------
(* Bridging: plain broadcasts and path requests between a local client and *)
(* two networks that share a queue of two, and the node's own requests.    *)

BridgeIds == {"a", "b", "c"}
BridgeRegistry == <<"a", "b", "c">>
BridgeConfig == [a |-> Iface("Full", 1), b |-> [Iface("Full", 2) EXCEPT !.repeat = TRUE],
                 c |-> [Iface("Full", 1) EXCEPT !.local = TRUE]]
Plain(id, n) == [kind |-> "plain", interface |-> id, id |-> n, hops |-> 0, size |-> 1]
BridgePackets ==
    {Plain("c", "n"), Plain("b", "o"), PathRequest("d", "c", None, 2), PathRequest("d", "b", None, 3)}
BridgeTimes == [Times EXCEPT !.outbound = 1]
BridgeLimit == [interface |-> 2, path |-> 1, reverse |-> 1, link |-> 1, discovery |-> 1,
                delivery |-> 5]
=============================================================================
