------------------------------ MODULE MCPeers -----------------------------
(* The two tables of what a node remembers of its peers: ratchets and       *)
(* delivery keys.  They share no state, so each behaviour runs one of them  *)
(* and the other stays where it began.                                      *)
EXTENDS PeerRatchets, KnownDestinations, TLC

VARIABLE part

vars == <<peerVars, knownVars, part>>

\* Peers and keys are alike in the initial states and in every action.
Symmetry == Permutations(Peers) \cup Permutations(PeerKeys)

\* A table that does not run has the first of its initial states.
Init ==
    /\ part \in {"ratchets", "destinations"}
    /\ PeerInit /\ (part # "ratchets" => known = <<>>)
    /\ KnownInit /\ (part # "destinations" => now = 0)

Next ==
    \/ part = "ratchets" /\ PeerNext /\ UNCHANGED <<knownVars, part>>
    \/ part = "destinations" /\ KnownNext /\ UNCHANGED <<peerVars, part>>

Spec == Init /\ [][Next]_vars
===========================================================================
