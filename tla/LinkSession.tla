---------------------------- MODULE LinkSession ----------------------------
(***************************************************************************)
(* The responder's side of a link (link_session.rs): the session's timers, *)
(* the packets that reach it and the host that ticks it. Decryption and    *)
(* signature checks that fail leave the session unchanged, so a packet     *)
(* here is one that passed them. The peer's packets arrive at any time, in *)
(* any order and number, or not at all. Time counts from the link request. *)
(***************************************************************************)
EXTENDS Integers

CONSTANTS
    EstablishmentPerHop,            \* ESTABLISHMENT_PER_HOP_MS
    KeepaliveMin, KeepaliveDefault, \* KEEPALIVE_MIN_MS, KEEPALIVE_DEFAULT_MS
    StaleTimeDefault,               \* STALE_TIME_DEFAULT_MS
    StaleFactor,                    \* STALE_FACTOR
    StaleGrace,                     \* STALE_GRACE_MS
    KeepaliveTimeoutFactor,         \* KEEPALIVE_TIMEOUT_FACTOR
    KeepalivePerRtt,                \* 1440 / 7 in the code
    UnknownRtt,                     \* the RTT assumed where none was measured
    Hops,                           \* hop counts a request may arrive with
    PeerRtts,                       \* what an RTT packet may report; Unset: invalid
    Identities,                     \* identities an initiator may prove
    SilentFrom,                     \* bound: the peer says nothing from here on
    MaxTime, Patience               \* bounds: the clock stops at MaxTime, for a stale
                                    \* session only Patience after it turned stale

\* Option::None: of a time or a duration, and of an identity.
Unset == -1

ASSUME SessionAssumption ==
    /\ {EstablishmentPerHop, KeepaliveMin, KeepaliveDefault, StaleTimeDefault, StaleFactor,
        StaleGrace, KeepaliveTimeoutFactor, UnknownRtt, SilentFrom, MaxTime, Patience} \subseteq Nat
    /\ KeepaliveMin <= KeepaliveDefault
    /\ KeepalivePerRtt \in Nat \X (Nat \ {0})
    /\ Hops \subseteq Nat
    /\ PeerRtts \subseteq Nat \cup {Unset}
    /\ Identities \subseteq Nat

VARIABLES
    session,    \* the ResponderSession
    action,     \* the TickAction the last tick returned
    respond,    \* a keepalive asked for an answer the host has not given yet
    time,       \* the host's monotonic clock
    heard       \* history: when the peer was last heard

sessionVars == <<session, action, respond, time, heard>>

Larger(a, b) == IF a >= b THEN a ELSE b

Smaller(a, b) == IF a <= b THEN a ELSE b

----------------------------------------------------------------------------
(***************************************************************************)
(* The session's operations.                                               *)
(***************************************************************************)
\* accept: a session in Handshake, for a request that arrived with this hop count.
accept(hops) ==
    [state |-> "Handshake",
     establishment_timeout_ms |->
        EstablishmentPerHop * Larger(hops, 1) + KeepaliveDefault,
     rtt_ms |-> Unset,
     keepalive_ms |-> KeepaliveDefault,
     stale_ms |-> StaleTimeDefault,
     last_inbound_ms |-> 0,
     last_outbound_ms |-> Unset,
     activated_ms |-> Unset,
     stale_since_ms |-> Unset,
     remote_identity |-> Unset]

\* Any valid packet refreshes the session, and revives a stale one.
record_inbound(s, now) ==
    IF s.state = "Stale"
      THEN [s EXCEPT !.last_inbound_ms = now, !.state = "Active", !.stale_since_ms = Unset]
      ELSE [s EXCEPT !.last_inbound_ms = now]

\* The initiator's RTT saturates; one that is no valid float does not count.
peer_rtt_ms(reported) ==
    IF reported = Unset THEN Unset ELSE Smaller(reported, StaleTimeDefault)

keepalive_of(rtt) ==
    Larger(KeepaliveMin,
           Smaller((rtt * KeepalivePerRtt[1]) \div KeepalivePerRtt[2], KeepaliveDefault))

\* The RTT packet: the larger of both measurements sets the timers.
activate(s, reported, now) ==
    LET rtt == Larger(peer_rtt_ms(reported), now)
        keepalive == keepalive_of(rtt)
    IN  [s EXCEPT !.rtt_ms = rtt,
                  !.keepalive_ms = keepalive,
                  !.stale_ms = keepalive * StaleFactor,
                  !.state = "Active",
                  !.activated_ms = now,
                  !.last_inbound_ms = now]

\* Mutant: the last identity wins.
identify_latest(s, who) == [s EXCEPT !.remote_identity = who]

\* The first identity wins.
identify(s, who) ==
    IF s.remote_identity # Unset THEN s ELSE [s EXCEPT !.remote_identity = who]

must_respond(s, now) ==
    s.last_outbound_ms = Unset \/ now - s.last_outbound_ms >= s.keepalive_ms

grace(s) ==
    (IF s.rtt_ms = Unset THEN UnknownRtt ELSE s.rtt_ms) * KeepaliveTimeoutFactor + StaleGrace

\* Mutant: one unit late.
stale_due_late(s, now) ==
    now - Larger(s.activated_ms, s.last_inbound_ms) > s.stale_ms

stale_due(s, now) ==
    now - Larger(s.activated_ms, s.last_inbound_ms) >= s.stale_ms

\* What tick returns at this time.
tick_action(s, now) ==
    CASE s.state = "Handshake" /\ now > s.establishment_timeout_ms -> "Expired"
      [] s.state = "Active" /\ stale_due(s, now) -> "Stale"
      [] s.state = "Stale" /\ s.stale_since_ms # Unset
         /\ now - s.stale_since_ms >= grace(s) -> "Teardown"
      [] OTHER -> "None"

\* Mutant: the start of the grace is not recorded.
ticked_timeless(s, now) ==
    CASE tick_action(s, now) = "Expired" -> [s EXCEPT !.state = "Closed"]
      [] tick_action(s, now) = "Stale" -> [s EXCEPT !.state = "Stale"]
      [] OTHER -> s

\* The session after tick: a Teardown is left to the host.
ticked(s, now) ==
    CASE tick_action(s, now) = "Expired" -> [s EXCEPT !.state = "Closed"]
      [] tick_action(s, now) = "Stale" ->
            [s EXCEPT !.state = "Stale", !.stale_since_ms = now]
      [] OTHER -> s
----------------------------------------------------------------------------
(***************************************************************************)
(* Packets from the peer: one action per context that changes the session. *)
(***************************************************************************)
SessionInit ==
    /\ session \in {accept(hops) : hops \in Hops}
    /\ action = "None"
    /\ respond = FALSE
    /\ time = 0
    /\ heard = 0

\* A packet of the peer reaches a session that is not closed.
Heard ==
    /\ session.state # "Closed"
    /\ time < SilentFrom
    /\ heard' = time
    /\ UNCHANGED <<action, time>>

ReceiveKeepalive ==
    /\ Heard
    /\ session.state # "Handshake"
    /\ session' = record_inbound(session, time)
    /\ respond' = must_respond(session, time)

ReceiveRtt ==
    /\ Heard
    /\ session.state = "Handshake"
    /\ \E reported \in PeerRtts : session' = activate(session, reported, time)
    /\ UNCHANGED respond

ReceiveIdentify ==
    /\ Heard
    /\ \E who \in Identities : session' = identify(record_inbound(session, time), who)
    /\ UNCHANGED respond

ReceiveClose ==
    /\ Heard
    /\ session' = [session EXCEPT !.state = "Closed"]
    /\ UNCHANGED respond

ReceiveData ==
    /\ Heard
    /\ session.state # "Handshake"
    /\ session' = record_inbound(session, time)
    /\ UNCHANGED respond

----------------------------------------------------------------------------
(***************************************************************************)
(* The host.                                                               *)
(***************************************************************************)
seal ==
    /\ session.state \in {"Active", "Stale"}
    /\ session' = [session EXCEPT !.last_outbound_ms = time]
    /\ UNCHANGED <<action, respond, time, heard>>

\* The answer to a keepalive; the state is not looked at.
keepalive_response ==
    /\ respond
    /\ session' = [session EXCEPT !.last_outbound_ms = time]
    /\ respond' = FALSE
    /\ UNCHANGED <<action, time, heard>>

\* The host may close a session whenever it likes.
teardown ==
    /\ session.state # "Closed"
    /\ session' = [session EXCEPT !.state = "Closed"]
    /\ UNCHANGED <<action, respond, time, heard>>

tick ==
    /\ session' = ticked(session, time)
    /\ action' = tick_action(session, time)
    /\ UNCHANGED <<respond, time, heard>>

Pass ==
    /\ \/ time < MaxTime
       \/ session.state = "Stale" /\ time < session.stale_since_ms + Patience
    /\ time' = time + 1
    /\ UNCHANGED <<session, action, respond, heard>>

SessionNext ==
    \/ ReceiveKeepalive
    \/ ReceiveRtt
    \/ ReceiveIdentify
    \/ ReceiveClose
    \/ ReceiveData
    \/ seal
    \/ keepalive_response
    \/ teardown
    \/ tick
    \/ Pass

SessionSpec == SessionInit /\ [][SessionNext]_sessionVars

\* The host follows the module's contract: it keeps ticking, and tears the session down
\* when a tick says so. Nothing is assumed of the peer.
SessionFairness ==
    /\ WF_sessionVars(Pass)
    /\ WF_sessionVars(tick)
    /\ WF_sessionVars(action = "Teardown" /\ teardown)

FairSession == SessionSpec /\ SessionFairness

----------------------------------------------------------------------------
(***************************************************************************)
(* Properties.                                                             *)
(***************************************************************************)
\* The sessions whose recorded times are not ahead of now.
SessionType(now) ==
    [state : {"Handshake", "Active", "Stale", "Closed"},
     establishment_timeout_ms : Nat,
     rtt_ms : Nat \cup {Unset},
     keepalive_ms : KeepaliveMin .. KeepaliveDefault,
     stale_ms : Nat,
     last_inbound_ms : 0 .. now,
     last_outbound_ms : Unset .. now,
     activated_ms : Unset .. now,
     stale_since_ms : Unset .. now,
     remote_identity : Identities \cup {Unset}]

\* The session is well formed: the keepalive stays within its clamp whatever RTT the peer
\* reports, and no recorded time is ahead of the clock.
SessionTypeOK ==
    /\ session \in SessionType(time)
    /\ action \in {"None", "Expired", "Stale", "Teardown"}
    /\ respond \in BOOLEAN
    /\ time \in Nat
    /\ heard \in 0 .. time

\* A tick judges the peer's silence exactly: an active session turns stale if and only if
\* the peer has been silent for the stale time, and a teardown is asked for only after a
\* silence of the stale time and the grace together, however often the session was stale
\* and revived before.
TicksJudgeSilence ==
    [][tick =>
        /\ session.state = "Active" =>
             (action' = "Stale" <=> time - heard >= session.stale_ms)
        /\ action' = "Teardown" =>
             time - heard >= session.stale_ms + grace(session)]_sessionVars

\* The first identity the initiator proves stays, in every state and after any revival,
\* and a closed session is never opened again by a late packet.
IdentityAndCloseAreFinal ==
    [][/\ session.remote_identity # Unset =>
            session'.remote_identity = session.remote_identity
       /\ session.state = "Closed" => session'.state = "Closed"]_sessionVars

\* A session whose peer has fallen silent is closed in the end, in whatever state the
\* silence began: by the handshake's expiry, or by stale time, grace and teardown.
SilentPeerIsClosed == (time >= SilentFrom) ~> (session.state = "Closed")

\* Why the ticks are exact: while a session is open, the time it compares with is the time
\* the peer was last heard, and a stale session was silent for the stale time when it
\* turned stale.
TimersFollowPeer ==
    /\ session.state # "Closed" => session.last_inbound_ms = heard
    /\ session.activated_ms <= session.last_inbound_ms
    /\ session.state = "Stale" =>
         /\ session.stale_since_ms # Unset
         /\ session.stale_since_ms - heard >= session.stale_ms
=============================================================================
