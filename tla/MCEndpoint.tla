---------------------------- MODULE MCEndpoint ----------------------------
(* The parts of an endpoint that share no state: what it keeps across       *)
(* restarts (announce order, its own ratchets, messages seen) and what it   *)
(* agrees on with the other end of a link (handshake, advertisements,       *)
(* request windows).  Steps of one part neither enable nor disturb those of *)
(* another, so each behaviour runs one part and the others stay where they  *)
(* began.                                                                   *)
EXTENDS AnnounceState, RatchetRing, SeenMessages, LinkHandshake, AdvExchange, WindowRounds, TLC

CONSTANTS a1, a2, f1

VARIABLE part

vars == <<announceVars, ringVars, seenVars, handshakeVars, advVars, win, part>>

\* Two attempts of this implementation and one of another, each at either a
\* destination of this implementation or one of another.
MCAttempts == {a1, a2, f1}
MCNative == {a1, a2}
MCSignallings == {[mode |-> 1, mtu |-> 0], [mode |-> 1, mtu |-> 1064],
                  [mode |-> 2, mtu |-> 500], [mode |-> 1, mtu |-> 499]}
Symmetry == Permutations(MCNative)

\* A part that does not run has the first of its initial states.
Init ==
    /\ part \in {"announce", "ring", "seen", "handshake", "adv", "window"}
    /\ AnnounceInit
    /\ RingInit /\ (part # "ring" => created = <<>>)
    /\ SeenInit
    /\ HandshakeInit
    /\ AdvInit /\ (part # "adv" => size = 0)
    /\ WindowInit

\* A handshake or an exchange may be over; the other parts always go on.
Over == part \in {"handshake", "adv"} /\ UNCHANGED vars

Next ==
    \/ /\ part = "announce" /\ AnnounceNext
       /\ UNCHANGED <<ringVars, seenVars, handshakeVars, advVars, win, part>>
    \/ /\ part = "ring" /\ RingNext
       /\ UNCHANGED <<announceVars, seenVars, handshakeVars, advVars, win, part>>
    \/ /\ part = "seen" /\ SeenNext
       /\ UNCHANGED <<announceVars, ringVars, handshakeVars, advVars, win, part>>
    \/ /\ part = "handshake" /\ HandshakeNext
       /\ UNCHANGED <<announceVars, ringVars, seenVars, advVars, win, part>>
    \/ /\ part = "adv" /\ AdvNext
       /\ UNCHANGED <<announceVars, ringVars, seenVars, handshakeVars, win, part>>
    \/ /\ part = "window" /\ WindowNext
       /\ UNCHANGED <<announceVars, ringVars, seenVars, handshakeVars, advVars, part>>
    \/ Over

Spec == Init /\ [][Next]_vars
===========================================================================
