--------------------------- MODULE LinkHandshake --------------------------
(***************************************************************************)
(* Establishing links, from link.rs, ResponderSession::accept and the      *)
(* transit side of transport.rs: initiators open links to destinations,    *)
(* directly or through one relay.  Either end may be another               *)
(* implementation, which puts any signalling in its packets.  Packets      *)
(* arrive in any order, more than once or never; the relay forgets links   *)
(* and the responder restarts.                                             *)
(* Keys are symbolic: a key is named by its owner, a Diffie-Hellman secret *)
(* is the set of its two keys, a signature names its signer and what it    *)
(* covers.  An initiator's X25519 and Ed25519 keys are one fresh key.      *)
(***************************************************************************)
EXTENDS PacketSizes, Integers, FiniteSets

CONSTANTS
    Attempts,       \* links to open; each stands for its fresh initiator keys
    Native,         \* attempts made by this implementation
    Destinations,   \* destinations
    Ours,           \* destinations served by this implementation
    Signallings,    \* signalling of the other implementations
    MaxAnswers      \* bound: proofs the responders build

ASSUME HandshakeAssumption ==
    /\ Attempts # {} /\ Native \subseteq Attempts /\ Ours \subseteq Destinations
    /\ MaxAnswers \in Nat
    /\ \A s \in Signallings : s.mode \in 0 .. 7 /\ s.mtu \in 0 .. 2 ^ 21 - 1

VARIABLES
    attempt,    \* attempt -> [state, dest, asked, keys, mode, mtu]
    transit,    \* the relay's link table: [link, dest, mode, validated]
    serving,    \* sessions of the responders: [link, keys, peer]
    net,        \* packets: near (initiator to relay), far, or direct
    derived,    \* history: [link, keys, trailer] of the responders' sessions
    answers     \* number of proofs built; names the responder's ephemeral key

handshakeVars == <<attempt, transit, serving, net, derived, answers>>

---------------------------------------------------------------------------
(* Signalling.                                                             *)

MODE_AES256_CBC == 1

\* Three bytes: three bits of mode above 21 bits of MTU.
pack_signalling(s) == (s.mode % 8) * 2 ^ 21 + (s.mtu % 2 ^ 21)

unpack(bytes) == [mode |-> bytes \div 2 ^ 21, mtu |-> bytes % 2 ^ 21]

\* The trailer of the legacy forms, which have none.
Absent == -1

default_signalling == [mode |-> MODE_AES256_CBC, mtu |-> MTU]

\* The MTU signalled, or none when it is outside the wire domain.
effective_mtu(s) ==
    IF s.mtu = 0 THEN {MTU} ELSE IF s.mtu >= MTU THEN {s.mtu} ELSE {}

\* What this implementation's endpoints admit, normalised, or nothing.
fixed_endpoint(s) ==
    IF s.mode = MODE_AES256_CBC /\ effective_mtu(s) = {MTU} THEN {default_signalling} ELSE {}

\* The signalling of a parsed payload, or none when it is refused.
Parsed(trailer) ==
    LET s == IF trailer = Absent THEN default_signalling ELSE unpack(trailer)
    IN  IF effective_mtu(s) = {} THEN {} ELSE {s}

\* The plaintext that fits a link packet, and the length it encrypts to.
link_mdu(mtu) ==
    LET overhead == 1 + HEADER_MINSIZE + TOKEN_OVERHEAD
        blocks == (mtu - overhead) \div 16
    IN  IF mtu <= overhead \/ blocks = 0 THEN 0 ELSE blocks * 16 - 1

link_encrypt(len) == len + (16 - (len % 16)) + TOKEN_OVERHEAD

---------------------------------------------------------------------------
(* Packets and keys.                                                       *)

\* Mutant: the trailer is hashed into the link ID.
LinkIdWithTrailer(dest, key, trailer) == <<dest, key, trailer>>

\* The trailer is not part of the link ID.
compute_link_id(dest, key, trailer) == <<dest, key>>

Request(side, a, dest, trailer) ==
    [type |-> "request", side |-> side, dest |-> dest, key |-> a, trailer |-> trailer]

Signature(dest, link, x, trailer) ==
    [by |-> dest, over |-> <<link, x, dest, trailer>>]

LinkProof(side, dest, link, x, trailer) ==
    [type |-> "proof", side |-> side, link |-> link, x |-> x, trailer |-> trailer,
     signature |-> Signature(dest, link, x, trailer)]

derive(key, x, link) == <<{key, x}, link>>

\* The link ID as the initiator of attempt a computes it.
LinkOf(a) == compute_link_id(attempt[a].dest, a, attempt[a].asked)

Link(state, dest, asked, keys, mode, mtu) ==
    [state |-> state, dest |-> dest, asked |-> asked, keys |-> keys, mode |-> mode, mtu |-> mtu]

Closed == Link("closed", <<>>, Absent, <<>>, 0, 0)

HandshakeInit ==
    /\ attempt = [a \in Attempts |-> Closed]
    /\ transit = {}
    /\ serving = {}
    /\ net = {}
    /\ derived = {}
    /\ answers = 0

---------------------------------------------------------------------------
(* The initiator.                                                          *)

\* build_link_request, or another implementation's request.
Trailers(a) ==
    IF a \in Native THEN {pack_signalling(c) : c \in UNION {fixed_endpoint(s) : s \in Signallings}}
    ELSE {pack_signalling(s) : s \in Signallings} \cup {Absent}

\* The request goes towards the relay or straight to the destination.
Open(a, dest, trailer, side) ==
    /\ attempt[a].state = "closed"
    /\ net' = net \cup {Request(side, a, dest, trailer)}
    /\ attempt' = [attempt EXCEPT ![a] = Link("pending", dest, trailer, <<>>, 0, 0)]
    /\ UNCHANGED <<transit, serving, derived, answers>>

\* LinkProofView::validate: the signature covers the trailer as it was received.
validate(proof, s, dest, link) ==
    /\ fixed_endpoint(s) # {}
    /\ proof.signature = Signature(dest, link, proof.x, proof.trailer)

\* The initiator's host, for a proof that names its pending link.
Establish(proof, a) ==
    /\ proof.side \in {"near", "direct"}
    /\ attempt[a].state = "pending" /\ proof.link = LinkOf(a)
    /\ \E s \in Parsed(proof.trailer) :
          /\ validate(proof, s, attempt[a].dest, proof.link)
          /\ \E mtu \in effective_mtu(s) :
                attempt' = [attempt EXCEPT ![a] =
                    Link("active", @.dest, @.asked, derive(a, proof.x, proof.link), s.mode, mtu)]
    /\ UNCHANGED <<transit, serving, net, derived, answers>>

\* build_identification on the active link, encrypted with its session key.
Identify(a) ==
    /\ attempt[a].state = "active"
    /\ LET link == LinkOf(a)
       IN  net' = net \cup {[type |-> "identify", link |-> link, keys |-> attempt[a].keys,
                             public |-> a, signature |-> [by |-> a, over |-> <<link, a>>]]}
    /\ UNCHANGED <<attempt, transit, serving, derived, answers>>

---------------------------------------------------------------------------
(* The relay.                                                              *)

\* handle_link_request: a live link is not replaced; the trailer of a default
\* mode request is cut off, another mode is carried only with the fixed MTU.
RelayRequest(p) ==
    /\ p.side = "near"
    /\ LET link == compute_link_id(p.dest, p.key, p.trailer)
       IN  /\ \A e \in transit : e.link # link
           /\ \E s \in Parsed(p.trailer) :
                 /\ s.mode = MODE_AES256_CBC \/ s.mtu = MTU
                 /\ net' = net \cup {Request("far", p.key, p.dest,
                              IF s.mode = MODE_AES256_CBC THEN Absent ELSE p.trailer)}
                 /\ transit' = transit \cup {[link |-> link, dest |-> p.dest, mode |-> s.mode,
                                              validated |-> FALSE]}
    /\ UNCHANGED <<attempt, serving, derived, answers>>

\* Mutant: the MTU of the proof is not held against the link's ceiling.
ValidateTransitMode(p, e) ==
    \E s \in Parsed(p.trailer) :
        /\ s.mode = e.mode
        /\ p.signature = Signature(e.dest, p.link, p.x, p.trailer)

\* Mode as requested, MTU within the ceiling, signature of the path's key.
validate_transit_lrproof(p, e) ==
    \E s \in Parsed(p.trailer) :
        /\ s.mode = e.mode
        /\ \E mtu \in effective_mtu(s) : mtu <= MTU
        /\ p.signature = Signature(e.dest, p.link, p.x, p.trailer)

RelayProof(p) ==
    /\ p.side = "far"
    /\ \E e \in transit :
          /\ e.link = p.link
          /\ validate_transit_lrproof(p, e)
          /\ net' = net \cup {[p EXCEPT !.side = "near"]}
          /\ transit' = (transit \ {e}) \cup {[e EXCEPT !.validated = TRUE]}
    /\ UNCHANGED <<attempt, serving, derived, answers>>

\* A link times out at the relay.
Forget(e) ==
    /\ e \in transit
    /\ transit' = transit \ {e}
    /\ UNCHANGED <<attempt, serving, net, derived, answers>>

---------------------------------------------------------------------------
(* The responder.                                                          *)

\* The trailers a responder answers with: this implementation AES-256 and the
\* fixed MTU whatever MTU was asked, another one anything.
Answer(dest, s) ==
    IF dest \in Ours
    THEN IF s.mode = MODE_AES256_CBC THEN {pack_signalling(default_signalling)} ELSE {}
    ELSE {pack_signalling(o) : o \in Signallings} \cup {Absent}

\* ResponderSession::accept for a link not served yet: a fresh key, session keys
\* and the proof, which goes to where the request came from.
Respond(p, side) ==
    /\ p.side = side
    /\ answers < MaxAnswers
    /\ LET link == compute_link_id(p.dest, p.key, p.trailer)
           keys == derive(p.key, answers + 1, link)
       IN  /\ \A session \in serving : session.link # link
           /\ \E s \in Parsed(p.trailer) : \E trailer \in Answer(p.dest, s) :
                 /\ net' = net \cup {LinkProof(side, p.dest, link, answers + 1, trailer)}
                 /\ derived' = derived \cup
                      {[link |-> link, keys |-> keys, trailer |-> trailer]}
           /\ serving' = serving \cup {[link |-> link, keys |-> keys, peer |-> <<>>]}
    /\ answers' = answers + 1
    /\ UNCHANGED <<attempt, transit>>

\* verify_identification, after decryption with the session's keys; the first
\* identity stays.
Identified(p) ==
    /\ \E session \in serving :
          /\ session.link = p.link /\ session.keys = p.keys /\ session.peer = <<>>
          /\ p.signature = [by |-> p.public, over |-> <<session.link, p.public>>]
          /\ serving' = (serving \ {session}) \cup {[session EXCEPT !.peer = <<p.public>>]}
    /\ UNCHANGED <<attempt, transit, net, derived, answers>>

\* The responder restarts without its sessions.
HandshakeRestart ==
    /\ serving # {}
    /\ serving' = {}
    /\ UNCHANGED <<attempt, transit, net, derived, answers>>

HandshakeNext ==
    \/ \E a \in Attempts, dest \in Destinations, side \in {"near", "direct"} :
          \E trailer \in Trailers(a) : Open(a, dest, trailer, side)
    \/ \E a \in Native : Identify(a)
    \/ \E p \in net :
          \/ p.type = "request" /\ (RelayRequest(p) \/ Respond(p, "far") \/ Respond(p, "direct"))
          \/ p.type = "proof" /\ (RelayProof(p) \/ \E a \in Native : Establish(p, a))
          \/ p.type = "identify" /\ Identified(p)
    \/ \E e \in transit : Forget(e)
    \/ HandshakeRestart

HandshakeSpec == HandshakeInit /\ [][HandshakeNext]_handshakeVars

---------------------------------------------------------------------------
(* Properties.                                                             *)

\* The two ends of a link agree: a link an initiator of this implementation has
\* established (LinkProofView::validate, LinkKeys::derive) is one its responder
\* derived the same keys for, with the mode and MTU signalled back, AES-256 and
\* 500, in which the largest plaintext of link_mdu fits; responders name every
\* link as its initiator does (compute_link_id), whatever the relay did to the
\* request; and an identified peer is the one that opened the link.
EndsAgree ==
    /\ \A a \in Native : attempt[a].state = "active" =>
          /\ attempt[a].mode = MODE_AES256_CBC /\ attempt[a].mtu = MTU
          /\ HEADER_MINSIZE + link_encrypt(link_mdu(attempt[a].mtu)) <= attempt[a].mtu
          /\ \E d \in derived :
                /\ d.link = LinkOf(a) /\ d.keys = attempt[a].keys
                /\ \E s \in Parsed(d.trailer) :
                      s.mode = attempt[a].mode /\ effective_mtu(s) = {attempt[a].mtu}
    /\ \A d \in derived : \E a \in Attempts : d.link = LinkOf(a)
    /\ \A session \in serving : session.peer # <<>> =>
          session.link = LinkOf(session.peer[1])

\* What the relay lets through is of use: a proof that passed
\* validate_transit_lrproof for the link of an initiator of this implementation
\* is one that initiator accepts, although the relay rewrote its request; and a
\* link the relay has validated was answered in the mode requested and within
\* the MTU the relay can carry.
RelayedProofsAreAccepted ==
    /\ \A p \in net : p.type = "proof" /\ p.side = "near" =>
          \A a \in Native : p.link = LinkOf(a) =>
             \E s \in Parsed(p.trailer) : validate(p, s, attempt[a].dest, p.link)
    /\ \A e \in transit : e.validated =>
          \E d \in derived : /\ d.link = e.link
                              /\ \E s \in Parsed(d.trailer) :
                                    s.mode = e.mode /\ s.mtu \in {0, MTU}
===========================================================================
