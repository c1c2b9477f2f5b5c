----------------------------- MODULE HostProofs -----------------------------
(***************************************************************************)
(* What a host drives: link sessions, whose timers follow the peer; resource *)
(* transfers, by the hashes they are proved with and the rounds they are   *)
(* advertised for, and their request window; and the ring of slots in      *)
(* tables.rs, which implements the bounded FIFO sequence of Fifo.tla.      *)
(* RingInv ties the occupied slots to the head and the length; Place is the *)
(* slot index with its remainder resolved, so that calls are linear        *)
(* arithmetic.                                                             *)
(***************************************************************************)
EXTENDS LinkSession, RingQueue, ResourceTransfer, WindowRounds, TLAPS

\* The time every leaf may take that names no prover of its own.
USE SMTT(60)

----------------------------------------------------------------------------
(* Link sessions                                                             *)

\* The clamp of the keepalive holds for every RTT, and a timer derived from it is a time.
LEMMA KeepaliveClamped ==
    ASSUME NEW rtt \in Nat
    PROVE  keepalive_of(rtt) \in KeepaliveMin .. KeepaliveDefault
  <1>1. /\ KeepalivePerRtt[1] \in Nat
        /\ KeepalivePerRtt[2] \in Nat /\ KeepalivePerRtt[2] > 0
    BY SessionAssumption
  <1>2. rtt * KeepalivePerRtt[1] \in Int
    BY <1>1
  <1>3. (rtt * KeepalivePerRtt[1]) \div KeepalivePerRtt[2] \in Int
    BY <1>1, <1>2
  <1> QED
    BY <1>3, SessionAssumption DEF keepalive_of, Larger, Smaller

\* What record_inbound does to a session: it is refreshed, and not stale any more.
LEMMA InboundRecorded ==
    ASSUME SessionTypeOK, session.state # "Closed",
           NEW s, s = record_inbound(session, time)
    PROVE  /\ s \in SessionType(time)
           /\ s.last_inbound_ms = time
           /\ s.state \notin {"Closed", "Stale"}
           /\ s.activated_ms = session.activated_ms
           /\ s.remote_identity = session.remote_identity
  <1> USE DEF SessionTypeOK, SessionType
  <1>1. time \in 0 .. time /\ Unset \in Unset .. time
    BY DEF Unset
  <1>2. CASE session.state = "Stale"
    <2>1. s = [session EXCEPT !.last_inbound_ms = time, !.state = "Active",
                              !.stale_since_ms = Unset]
      BY <1>2 DEF record_inbound
    <2>2. s \in SessionType(time)
      BY Zenon, <1>1, <2>1
    <2> QED
      BY <2>1, <2>2
  <1>3. CASE session.state # "Stale"
    <2>1. s = [session EXCEPT !.last_inbound_ms = time]
      BY <1>3 DEF record_inbound
    <2>2. s \in SessionType(time)
      BY <1>1, <2>1
    <2> QED
      BY <1>3, <2>1, <2>2
  <1> QED
    BY <1>2, <1>3

\* What the RTT packet does to a session: it is active, with timers from a clamped RTT.
LEMMA SessionActivated ==
    ASSUME SessionTypeOK, NEW reported \in PeerRtts,
           NEW s, s = activate(session, reported, time)
    PROVE  /\ s \in SessionType(time)
           /\ s.state = "Active"
           /\ s.last_inbound_ms = time
           /\ s.activated_ms = time
           /\ s.remote_identity = session.remote_identity
  <1> DEFINE rtt == Larger(peer_rtt_ms(reported), time)
             keepalive == keepalive_of(rtt)
  <1>1. rtt \in Nat
    BY SessionAssumption DEF SessionTypeOK, Larger, Smaller, peer_rtt_ms, Unset
  <1>2. keepalive \in KeepaliveMin .. KeepaliveDefault
    BY <1>1, KeepaliveClamped
  <1>3. keepalive \in Nat /\ StaleFactor \in Nat
    BY <1>2, SessionAssumption
  <1> HIDE DEF keepalive
  <1>4. keepalive * StaleFactor \in Nat
    BY <1>3
  <1>5. s = [session EXCEPT !.rtt_ms = rtt,
                            !.keepalive_ms = keepalive,
                            !.stale_ms = keepalive * StaleFactor,
                            !.state = "Active",
                            !.activated_ms = time,
                            !.last_inbound_ms = time]
    BY DEF activate, keepalive
  <1> HIDE DEF rtt
  <1> DEFINE stale == keepalive * StaleFactor
  <1>6. stale \in Nat
    BY <1>4
  <1>7. s = [session EXCEPT !.rtt_ms = rtt,
                            !.keepalive_ms = keepalive,
                            !.stale_ms = stale,
                            !.state = "Active",
                            !.activated_ms = time,
                            !.last_inbound_ms = time]
    BY <1>5
  <1> HIDE DEF stale
  <1>8. time \in 0 .. time /\ time \in Unset .. time
    BY DEF SessionTypeOK, Unset
  <1>9. s \in SessionType(time)
    BY Zenon, <1>1, <1>2, <1>6, <1>7, <1>8 DEF SessionTypeOK, SessionType
  <1>10. s.state = "Active" /\ s.last_inbound_ms = time /\ s.activated_ms = time
    BY <1>7 DEF SessionTypeOK, SessionType
  <1>11. s.remote_identity = session.remote_identity
    BY <1>7 DEF SessionTypeOK, SessionType
  <1> QED
    BY <1>9, <1>10, <1>11

\* What a tick does to a session.
LEMMA SessionTicked ==
    ASSUME SessionTypeOK, TimersFollowPeer, tick
    PROVE  /\ session' \in SessionType(time)
           /\ action' \in {"None", "Expired", "Stale", "Teardown"}
           /\ \/ session' = session
              \/ session' = [session EXCEPT !.state = "Closed"]
              \/ /\ session' = [session EXCEPT !.state = "Stale", !.stale_since_ms = time]
                 /\ session.state = "Active"
                 /\ time - heard >= session.stale_ms
  <1>1. CASE tick_action(session, time) = "Expired"
    <2>1. session' = [session EXCEPT !.state = "Closed"]
      BY <1>1 DEF tick, ticked
    <2> QED
      BY <1>1, <2>1 DEF SessionTypeOK, SessionType, tick
  <1>2. CASE tick_action(session, time) = "Stale"
    <2>1. session' = [session EXCEPT !.state = "Stale", !.stale_since_ms = time]
      BY <1>2 DEF tick, ticked
    <2>2. session.state = "Active" /\ stale_due(session, time)
      BY <1>2 DEF tick_action
    <2>3. time - heard >= session.stale_ms
      BY <2>2 DEF stale_due, Larger, TimersFollowPeer, SessionTypeOK, SessionType
    <2>4. time \in Unset .. time
      BY DEF SessionTypeOK, Unset
    <2>5. session' \in SessionType(time)
      BY Zenon, <2>1, <2>4 DEF SessionTypeOK, SessionType
    <2> QED
      BY <1>2, <2>1, <2>2, <2>3, <2>5 DEF tick
  <1>3. CASE tick_action(session, time) \notin {"Expired", "Stale"}
    <2>1. session' = session
      BY <1>3 DEF tick, ticked
    <2>2. tick_action(session, time) \in {"None", "Expired", "Stale", "Teardown"}
      BY DEF tick_action
    <2> QED
      BY <1>3, <2>1, <2>2 DEF SessionTypeOK, tick
  <1> QED
    BY <1>1, <1>2, <1>3

\* The types and the timers together are inductive: every packet, host call and tick keeps
\* the session's timers in step with the time the peer was last heard.
LEMMA SessionStep ==
    ASSUME SessionTypeOK, TimersFollowPeer, [SessionNext]_sessionVars
    PROVE  SessionTypeOK' /\ TimersFollowPeer'
  <1>1. CASE ReceiveKeepalive \/ ReceiveData
    <2>1. /\ session.state # "Closed"
          /\ session' = record_inbound(session, time)
          /\ heard' = time /\ time' = time /\ action' = action
          /\ respond' \in BOOLEAN
      BY Zenon, <1>1 DEF ReceiveKeepalive, ReceiveData, Heard, must_respond, SessionTypeOK
    <2> QED
      BY <2>1, InboundRecorded DEF SessionTypeOK, SessionType, TimersFollowPeer
  <1>2. CASE ReceiveRtt
    <2>1. PICK reported \in PeerRtts : session' = activate(session, reported, time)
      BY <1>2 DEF ReceiveRtt
    <2>2. heard' = time /\ time' = time /\ action' = action /\ respond' = respond
      BY <1>2 DEF ReceiveRtt, Heard
    <2> QED
      BY <2>1, <2>2, SessionActivated DEF SessionTypeOK, TimersFollowPeer
  <1>3. CASE ReceiveIdentify
    <2>1. PICK who \in Identities : session' = identify(record_inbound(session, time), who)
      BY <1>3 DEF ReceiveIdentify
    <2>2. /\ session.state # "Closed"
          /\ heard' = time /\ time' = time /\ action' = action /\ respond' = respond
      BY <1>3 DEF ReceiveIdentify, Heard
    <2> DEFINE s == record_inbound(session, time)
    <2>3. /\ s \in SessionType(time)
          /\ s.last_inbound_ms = time
          /\ s.state \notin {"Closed", "Stale"}
          /\ s.activated_ms = session.activated_ms
      BY <2>2, InboundRecorded
    <2> HIDE DEF s
    <2>4. session' = s \/ session' = [s EXCEPT !.remote_identity = who]
      BY <2>1 DEF identify, s
    <2>5. /\ session' \in SessionType(time)
          /\ session'.last_inbound_ms = time
          /\ session'.state \notin {"Closed", "Stale"}
          /\ session'.activated_ms = session.activated_ms
      BY <2>3, <2>4 DEF SessionType
    <2> QED
      BY <2>2, <2>5 DEF SessionTypeOK, SessionType, TimersFollowPeer
  <1>4. CASE ReceiveClose \/ teardown
    <2>1. /\ session' = [session EXCEPT !.state = "Closed"]
          /\ heard' \in {heard, time}
          /\ time' = time /\ action' = action /\ respond' = respond
      BY <1>4 DEF ReceiveClose, Heard, teardown
    <2> QED
      BY <2>1 DEF SessionTypeOK, SessionType, TimersFollowPeer
  <1>5. CASE seal \/ keepalive_response
    <2>1. /\ session' = [session EXCEPT !.last_outbound_ms = time]
          /\ heard' = heard /\ time' = time /\ action' = action
          /\ respond' \in BOOLEAN
      BY Zenon, <1>5 DEF seal, keepalive_response, SessionTypeOK
    <2>2. time \in Unset .. time
      BY DEF SessionTypeOK, Unset
    <2>3. session' \in SessionType(time)
      BY <2>1, <2>2 DEF SessionTypeOK, SessionType
    <2> QED
      BY <2>1, <2>3 DEF SessionTypeOK, SessionType, TimersFollowPeer
  <1>6. CASE tick
    <2>1. heard' = heard /\ time' = time /\ respond' = respond
      BY <1>6 DEF tick
    <2>2. SessionTypeOK'
      BY <1>6, <2>1, SessionTicked DEF SessionTypeOK
    <2>3. TimersFollowPeer'
      <3>1. CASE session' = session
        BY <2>1, <3>1 DEF TimersFollowPeer
      <3>2. CASE session' = [session EXCEPT !.state = "Closed"]
        BY <2>1, <3>2 DEF SessionTypeOK, SessionType, TimersFollowPeer
      <3>3. CASE /\ session' = [session EXCEPT !.state = "Stale", !.stale_since_ms = time]
                 /\ session.state = "Active"
                 /\ time - heard >= session.stale_ms
        <4>1. /\ session'.stale_since_ms = time
              /\ session'.stale_ms = session.stale_ms
              /\ session'.last_inbound_ms = session.last_inbound_ms
              /\ session'.activated_ms = session.activated_ms
          BY <3>3 DEF SessionTypeOK, SessionType
        <4>2. time # Unset
          BY DEF SessionTypeOK, Unset
        <4> QED
          BY <2>1, <3>3, <4>1, <4>2 DEF TimersFollowPeer
      <3> QED
        BY <1>6, <3>1, <3>2, <3>3, SessionTicked
    <2> QED
      BY <2>2, <2>3
  <1>7. CASE Pass
    <2>1. /\ session' = session /\ heard' = heard /\ action' = action
          /\ respond' = respond /\ time' = time + 1
      BY <1>7 DEF Pass
    <2>2. 0 .. time \subseteq 0 .. time + 1 /\ Unset .. time \subseteq Unset .. time + 1
      BY DEF SessionTypeOK, Unset
    <2>3. session \in SessionType(time + 1)
      BY <2>2 DEF SessionTypeOK, SessionType
    <2> QED
      BY <2>1, <2>2, <2>3 DEF SessionTypeOK, TimersFollowPeer
  <1>8. CASE UNCHANGED sessionVars
    BY <1>8 DEF sessionVars, SessionTypeOK, TimersFollowPeer
  <1> QED
    BY <1>1, <1>2, <1>3, <1>4, <1>5, <1>6, <1>7, <1>8 DEF SessionNext

\* In every reachable state the session is well formed and its timers follow the peer.
THEOREM SessionInvariant == SessionSpec => [](SessionTypeOK /\ TimersFollowPeer)
  <1>1. ASSUME SessionInit
        PROVE  SessionTypeOK /\ TimersFollowPeer
    <2>1. PICK hops \in Hops : session = accept(hops)
      BY <1>1 DEF SessionInit
    <2> DEFINE establishment == EstablishmentPerHop * Larger(hops, 1) + KeepaliveDefault
    <2>2. establishment \in Nat
      <3>1. Larger(hops, 1) \in Nat /\ EstablishmentPerHop \in Nat
        BY SessionAssumption DEF Larger
      <3>2. EstablishmentPerHop * Larger(hops, 1) \in Nat
        BY <3>1
      <3> QED
        BY <3>2, SessionAssumption
    <2>3. time = 0 /\ heard = 0 /\ action = "None" /\ respond = FALSE
      BY <1>1 DEF SessionInit
    <2>4. session.establishment_timeout_ms = establishment
      BY <2>1 DEF accept
    <2> HIDE DEF establishment
    <2>5. session \in SessionType(0)
      BY <2>1, <2>2, <2>4, SessionAssumption DEF accept, SessionType, Unset
    <2>6. /\ session.state = "Handshake"
          /\ session.last_inbound_ms = 0
          /\ session.activated_ms = Unset
      BY <2>1 DEF accept
    <2>7. SessionTypeOK
      <3>1. respond \in BOOLEAN
        BY Zenon, <2>3
      <3>2. time \in Nat /\ heard \in 0 .. time
        BY <2>3
      <3>3. session \in SessionType(time)
        BY <2>3, <2>5
      <3> QED
        BY <2>3, <3>1, <3>2, <3>3 DEF SessionTypeOK
    <2>8. TimersFollowPeer
      BY <2>3, <2>6 DEF TimersFollowPeer, Unset
    <2> QED
      BY <2>7, <2>8
  <1> QED
    BY <1>1, SessionStep, PTL DEF SessionSpec

\* For any timers, any RTTs and any order of packets and ticks, a tick judges the peer's
\* silence exactly.
THEOREM TicksExact == SessionSpec => TicksJudgeSilence
  <1> DEFINE Judged ==
        /\ session.state = "Active" =>
             (action' = "Stale" <=> time - heard >= session.stale_ms)
        /\ action' = "Teardown" =>
             time - heard >= session.stale_ms + grace(session)
  <1>1. ASSUME SessionTypeOK, TimersFollowPeer, tick
        PROVE  Judged
    <2>1. action' = tick_action(session, time)
      BY <1>1 DEF tick
    <2>2. ASSUME session.state = "Active"
          PROVE  action' = "Stale" <=> time - heard >= session.stale_ms
      <3>1. stale_due(session, time) <=> time - heard >= session.stale_ms
        BY <1>1, <2>2 DEF stale_due, Larger, TimersFollowPeer, SessionTypeOK, SessionType
      <3>2. action' = "Stale" <=> stale_due(session, time)
        BY <2>1, <2>2 DEF tick_action
      <3> QED
        BY <3>1, <3>2
    <2>3. ASSUME action' = "Teardown"
          PROVE  time - heard >= session.stale_ms + grace(session)
      <3>1. /\ session.state = "Stale"
            /\ time - session.stale_since_ms >= grace(session)
        BY <2>1, <2>3 DEF tick_action
      <3>2. session.stale_since_ms - heard >= session.stale_ms
        BY <1>1, <3>1 DEF TimersFollowPeer
      <3>3. grace(session) \in Int
        BY <1>1, SessionAssumption DEF grace, SessionTypeOK, SessionType, Unset
      <3> QED
        BY <1>1, <3>1, <3>2, <3>3 DEF SessionTypeOK, SessionType, Unset
    <2> QED
      BY <2>2, <2>3
  <1>2. SessionTypeOK /\ TimersFollowPeer => [tick => Judged]_sessionVars
    BY <1>1
  <1> QED
    BY <1>2, SessionInvariant, PTL DEF TicksJudgeSilence

\* For any order of packets, host calls and ticks, the first identity the initiator proves
\* stays, and no late packet opens a closed session again.
THEOREM IdentityAndCloseStay == SessionSpec => IdentityAndCloseAreFinal
  <1> DEFINE Final ==
        /\ session.remote_identity # Unset =>
             session'.remote_identity = session.remote_identity
        /\ session.state = "Closed" => session'.state = "Closed"
  <1>1. ASSUME SessionTypeOK, TimersFollowPeer, SessionNext
        PROVE  Final
    <2>1. CASE ReceiveKeepalive \/ ReceiveData
      <3>1. session.state # "Closed" /\ session' = record_inbound(session, time)
        BY <2>1 DEF ReceiveKeepalive, ReceiveData, Heard
      <3> QED
        BY <1>1, <3>1, InboundRecorded
    <2>2. CASE ReceiveRtt
      <3>1. PICK reported \in PeerRtts : session' = activate(session, reported, time)
        BY <2>2 DEF ReceiveRtt
      <3>2. session.state # "Closed"
        BY <2>2 DEF ReceiveRtt, Heard
      <3> QED
        BY <1>1, <3>1, <3>2, SessionActivated
    <2>3. CASE ReceiveIdentify
      <3>1. PICK who \in Identities : session' = identify(record_inbound(session, time), who)
        BY <2>3 DEF ReceiveIdentify
      <3>2. session.state # "Closed"
        BY <2>3 DEF ReceiveIdentify, Heard
      <3> DEFINE s == record_inbound(session, time)
      <3>3. s.remote_identity = session.remote_identity
        BY <1>1, <3>2, InboundRecorded
      <3> HIDE DEF s
      <3>4. s.remote_identity # Unset => session' = s
        BY <3>1 DEF identify, s
      <3> QED
        BY <3>2, <3>3, <3>4
    <2>4. CASE ReceiveClose \/ teardown
      <3>1. session' = [session EXCEPT !.state = "Closed"]
        BY <2>4 DEF ReceiveClose, teardown
      <3> QED
        BY <1>1, <3>1 DEF SessionTypeOK, SessionType
    <2>5. CASE seal \/ keepalive_response
      <3>1. session' = [session EXCEPT !.last_outbound_ms = time]
        BY <2>5 DEF seal, keepalive_response
      <3> QED
        BY <1>1, <3>1 DEF SessionTypeOK, SessionType
    <2>6. CASE tick
      <3>1. CASE session' = session
        BY <3>1
      <3>2. CASE session' = [session EXCEPT !.state = "Closed"]
        BY <1>1, <3>2 DEF SessionTypeOK, SessionType
      <3>3. CASE /\ session' = [session EXCEPT !.state = "Stale", !.stale_since_ms = time]
                 /\ session.state = "Active"
        BY <1>1, <3>3 DEF SessionTypeOK, SessionType
      <3> QED
        BY <1>1, <2>6, <3>1, <3>2, <3>3, SessionTicked
    <2>7. CASE Pass
      BY <2>7 DEF Pass
    <2> QED
      BY <1>1, <2>1, <2>2, <2>3, <2>4, <2>5, <2>6, <2>7 DEF SessionNext
  <1>2. SessionTypeOK /\ TimersFollowPeer /\ [SessionNext]_sessionVars => [Final]_sessionVars
    BY <1>1
  <1>3. SessionSpec => [][SessionNext]_sessionVars
    BY PTL DEF SessionSpec
  <1> QED
    BY <1>2, <1>3, SessionInvariant, PTL DEF IdentityAndCloseAreFinal

----------------------------------------------------------------------------
(* Resources                                                                 *)

\* A receiver is made of its fields.
Receiver(state, hash, maps, slots, completed, asked, data, window) ==
    [state |-> state, hash |-> hash, maps |-> maps, slots |-> slots,
     completed |-> completed, asked |-> asked, data |-> data, window |-> window]

\* A record with these fields, and no other.
IsReceiver(r) ==
    r = Receiver(r.state, r.hash, r.maps, r.slots, r.completed, r.asked, r.data, r.window)

\* Why a proof can be trusted: one is sent only for a payload that was verified against the
\* hash it names.
ProofsAreEarned ==
    /\ IsReceiver(recv)
    /\ recv.state = "Assembled" =>
          recv.data = recv.hash /\ recv.slots = Parts(recv.hash) /\ recv.hash \in delivered
    /\ \A m \in net : m.type = "proof" => m.data = m.resource /\ m.data \in delivered
    /\ sending = "done" => out.hash \in delivered

\* The packets of a transfer are told apart by their type.
LEMMA PacketKinds ==
    ASSUME NEW r, NEW x
    PROVE  /\ Adv(r).type = "adv" /\ Part(x).type = "part" /\ Req(r, x).type = "req"
           /\ Proof(r, x).type = "proof" /\ Proof(r, x).resource = r /\ Proof(r, x).data = x
  BY DEF Adv, Part, Req, Proof

\* The fields of a receiver that the proof reads.
LEMMA ReceiverMade ==
    ASSUME NEW st, NEW hs, NEW mp, NEW sl, NEW c, NEW a, NEW d, NEW w
    PROVE  LET n == Receiver(st, hs, mp, sl, c, a, d, w)
           IN  IsReceiver(n) /\ n.state = st /\ n.hash = hs /\ n.slots = sl /\ n.data = d
  BY DEF IsReceiver, Receiver

\* Each update of a receiver changes the field it names.
LEMMA ReceiverState ==
    ASSUME NEW r, IsReceiver(r), NEW x
    PROVE  LET n == [r EXCEPT !.state = x]
           IN  /\ IsReceiver(n) /\ n.state = x /\ n.hash = r.hash
               /\ n.slots = r.slots /\ n.data = r.data
  <1> DEFINE n == [r EXCEPT !.state = x]
  <1>1. PICK st, hs, mp, sl, c, a, d, w : r = Receiver(st, hs, mp, sl, c, a, d, w)
    BY DEF IsReceiver
  <1>2. n = Receiver(x, hs, mp, sl, c, a, d, w)
    BY <1>1 DEF Receiver
  <1> HIDE DEF n
  <1>3. /\ IsReceiver(n) /\ n.state = x /\ n.hash = r.hash
        /\ n.slots = r.slots /\ n.data = r.data
    BY <1>1, <1>2, ReceiverMade
  <1> QED
    BY <1>3 DEF n

\* The slots of a receiver, replaced.
LEMMA ReceiverSlots ==
    ASSUME NEW r, IsReceiver(r), NEW x
    PROVE  LET n == [r EXCEPT !.slots = x]
           IN  /\ IsReceiver(n) /\ n.state = r.state /\ n.hash = r.hash
               /\ n.slots = x /\ n.data = r.data
  <1> DEFINE n == [r EXCEPT !.slots = x]
  <1>1. PICK st, hs, mp, sl, c, a, d, w : r = Receiver(st, hs, mp, sl, c, a, d, w)
    BY DEF IsReceiver
  <1>2. n = Receiver(st, hs, mp, x, c, a, d, w)
    BY <1>1 DEF Receiver
  <1> HIDE DEF n
  <1>3. /\ IsReceiver(n) /\ n.state = r.state /\ n.hash = r.hash
        /\ n.slots = x /\ n.data = r.data
    BY <1>1, <1>2, ReceiverMade
  <1> QED
    BY <1>3 DEF n

\* Its count of completed parts, replaced.
LEMMA ReceiverCompleted ==
    ASSUME NEW r, IsReceiver(r), NEW x
    PROVE  LET n == [r EXCEPT !.completed = x]
           IN  /\ IsReceiver(n) /\ n.state = r.state /\ n.hash = r.hash
               /\ n.slots = r.slots /\ n.data = r.data
  <1> DEFINE n == [r EXCEPT !.completed = x]
  <1>1. PICK st, hs, mp, sl, c, a, d, w : r = Receiver(st, hs, mp, sl, c, a, d, w)
    BY DEF IsReceiver
  <1>2. n = Receiver(st, hs, mp, sl, x, a, d, w)
    BY <1>1 DEF Receiver
  <1> HIDE DEF n
  <1>3. /\ IsReceiver(n) /\ n.state = r.state /\ n.hash = r.hash
        /\ n.slots = r.slots /\ n.data = r.data
    BY <1>1, <1>2, ReceiverMade
  <1> QED
    BY <1>3 DEF n

\* Its outstanding request, replaced.
LEMMA ReceiverAsked ==
    ASSUME NEW r, IsReceiver(r), NEW x
    PROVE  LET n == [r EXCEPT !.asked = x]
           IN  /\ IsReceiver(n) /\ n.state = r.state /\ n.hash = r.hash
               /\ n.slots = r.slots /\ n.data = r.data
  <1> DEFINE n == [r EXCEPT !.asked = x]
  <1>1. PICK st, hs, mp, sl, c, a, d, w : r = Receiver(st, hs, mp, sl, c, a, d, w)
    BY DEF IsReceiver
  <1>2. n = Receiver(st, hs, mp, sl, c, x, d, w)
    BY <1>1 DEF Receiver
  <1> HIDE DEF n
  <1>3. /\ IsReceiver(n) /\ n.state = r.state /\ n.hash = r.hash
        /\ n.slots = r.slots /\ n.data = r.data
    BY <1>1, <1>2, ReceiverMade
  <1> QED
    BY <1>3 DEF n

\* Its assembled data, replaced.
LEMMA ReceiverData ==
    ASSUME NEW r, IsReceiver(r), NEW x
    PROVE  LET n == [r EXCEPT !.data = x]
           IN  /\ IsReceiver(n) /\ n.state = r.state /\ n.hash = r.hash
               /\ n.slots = r.slots /\ n.data = x
  <1> DEFINE n == [r EXCEPT !.data = x]
  <1>1. PICK st, hs, mp, sl, c, a, d, w : r = Receiver(st, hs, mp, sl, c, a, d, w)
    BY DEF IsReceiver
  <1>2. n = Receiver(st, hs, mp, sl, c, a, x, w)
    BY <1>1 DEF Receiver
  <1> HIDE DEF n
  <1>3. /\ IsReceiver(n) /\ n.state = r.state /\ n.hash = r.hash
        /\ n.slots = r.slots /\ n.data = x
    BY <1>1, <1>2, ReceiverMade
  <1> QED
    BY <1>3 DEF n

\* Its window, replaced.
LEMMA ReceiverWindow ==
    ASSUME NEW r, IsReceiver(r), NEW x
    PROVE  LET n == [r EXCEPT !.window = x]
           IN  /\ IsReceiver(n) /\ n.state = r.state /\ n.hash = r.hash
               /\ n.slots = r.slots /\ n.data = r.data
  <1> DEFINE n == [r EXCEPT !.window = x]
  <1>1. PICK st, hs, mp, sl, c, a, d, w : r = Receiver(st, hs, mp, sl, c, a, d, w)
    BY DEF IsReceiver
  <1>2. n = Receiver(st, hs, mp, sl, c, a, d, x)
    BY <1>1 DEF Receiver
  <1> HIDE DEF n
  <1>3. /\ IsReceiver(n) /\ n.state = r.state /\ n.hash = r.hash
        /\ n.slots = r.slots /\ n.data = r.data
    BY <1>1, <1>2, ReceiverMade
  <1> QED
    BY <1>3 DEF n

\* What is asked for is no part of what a receiver has.
LEMMA AskedKeeps ==
    ASSUME NEW r, IsReceiver(r)
    PROVE  IsReceiver(Asked(r)) /\ Asked(r).state = r.state
  <1>1. PICK x : Asked(r) = [r EXCEPT !.asked = x]
    BY Zenon DEF Asked
  <1>2. IsReceiver([r EXCEPT !.asked = x]) /\ [r EXCEPT !.asked = x].state = r.state
    BY ReceiverAsked, Zenon
  <1> QED
    BY <1>1, <1>2, Zenon

\* An accepted advertisement begins a transfer.
LEMMA AcceptedBegins ==
    ASSUME NEW r
    PROVE  IsReceiver(Accepted(r)) /\ Accepted(r).state = "Transferring"
  BY DEF Accepted, IsReceiver, Receiver

\* What decrypts to a payload is that payload's parts (Token).
LEMMA DecryptedParts ==
    ASSUME NEW slots, Decrypted(slots) # None
    PROVE  slots = Parts(Decrypted(slots))
  BY DEF Decrypted

\* A packet delivered, once or more.
LEMMA HandleKeeps ==
    ASSUME ProofsAreEarned, NEW m \in net, NEW rest, rest \subseteq net, Handle(m, rest)
    PROVE  ProofsAreEarned'
  <1>1. ASSUME m.type = "adv", ReceiverAdv(m, rest)
        PROVE  ProofsAreEarned'
    <2>1. /\ recv' = recv \/ recv' = Asked(Accepted(m.resource))
          /\ delivered' = delivered /\ sending' = sending /\ out' = out
      BY <1>1 DEF ReceiverAdv
    <2>2. /\ IsReceiver(recv')
          /\ recv'.state = "Assembled" => recv' = recv
      BY <2>1, AskedKeeps, AcceptedBegins DEF ProofsAreEarned
    <2>3. \A p \in net' : \/ p \in rest
                          \/ p.type = "req"
                          \/ p = Proof(recv'.hash, recv'.data) /\ recv'.state = "Assembled"
      <3>1. build_part_request'.type = "req"
        BY DEF build_part_request, Req
      <3>2. net' = rest \cup
         (CASE recv'.state = "Transferring" /\ ~is_complete' -> {build_part_request'}
            [] recv'.state = "Assembled" -> {Proof(recv'.hash, recv'.data)}
            [] OTHER -> {})
        BY <1>1 DEF ReceiverAdv
      <3>3. ASSUME NEW b, NEW pf, NEW r1, NEW r2
            PROVE  (CASE r1 -> {b} [] r2 -> {pf} [] OTHER -> {}) \subseteq
                     {b} \cup (IF r2 THEN {pf} ELSE {})
        OBVIOUS
      <3> QED
        BY <3>1, <3>2
    <2> QED
      BY <2>1, <2>2, <2>3, PacketKinds DEF ProofsAreEarned
  <1>2. CASE ReceiverRefuses(m, rest)
    BY <1>2 DEF ReceiverRefuses, ProofsAreEarned
  <1>3. CASE ReceiverPart(m, rest)
    <2>1. /\ net' = rest /\ UNCHANGED <<out, sending, delivered>>
          /\ \/ recv' = recv
             \/ /\ recv.state = "Transferring"
                /\ \E s, c : recv' = [recv EXCEPT !.slots = s, !.completed = c]
      BY Zenon, <1>3 DEF ReceiverPart
    <2>2. CASE recv' = recv
      BY <2>1, <2>2 DEF ProofsAreEarned
    <2>3. CASE recv' # recv
      <3>1. PICK s, c : recv' = [recv EXCEPT !.slots = s, !.completed = c]
        BY Zenon, <2>1, <2>3
      <3>2. IsReceiver(recv') /\ recv'.state = recv.state
        <4> DEFINE m1 == [recv EXCEPT !.slots = s]
        <4>1. recv' = [m1 EXCEPT !.completed = c]
          BY <3>1
        <4>2. IsReceiver(m1) /\ m1.state = recv.state
          BY ReceiverSlots DEF ProofsAreEarned
        <4> HIDE DEF m1
        <4> QED
          BY <4>1, <4>2, ReceiverCompleted
      <3> QED
        BY ZenonT(30), <2>1, <2>3, <3>2 DEF ProofsAreEarned
    <2> QED
      BY <2>2, <2>3
  <1>4. CASE SenderRequest(m, rest)
    <2>1. /\ \A p \in net' : p \in rest \/ p.type = "part"
          /\ UNCHANGED <<recv, out, delivered>>
          /\ sending' = "serving" \/ sending' = sending
      BY <1>4, PacketKinds DEF SenderRequest
    <2> QED
      BY <2>1 DEF ProofsAreEarned
  <1>5. ASSUME m.type = "proof", SenderProof(m, rest) PROVE ProofsAreEarned'
    <2>1. m.data \in delivered
      BY <1>5 DEF ProofsAreEarned
    <2> QED
      BY <1>5, <2>1 DEF SenderProof, ProofsAreEarned
  <1> QED
    BY <1>1, <1>2, <1>3, <1>4, <1>5 DEF Handle

\* Every step.
LEMMA ProofsStep == ProofsAreEarned /\ [TransferNext]_transferVars => ProofsAreEarned'
  <1> SUFFICES ASSUME ProofsAreEarned, [TransferNext]_transferVars PROVE ProofsAreEarned'
    OBVIOUS
  <1>1. ASSUME NEW r \in Resources, Build(r) PROVE ProofsAreEarned'
    <2>1. /\ sending' # "done" /\ recv' = recv /\ delivered' = delivered
          /\ net' = net \/ net' = net \cup {Adv(r)}
      BY <1>1 DEF Build
    <2> QED
      BY <2>1, PacketKinds DEF ProofsAreEarned
  <1>2. CASE Tick
    BY <1>2 DEF Tick, ProofsAreEarned
  <1>3. CASE Poll
    <2>1. /\ sending' # "done" /\ recv' = recv /\ delivered' = delivered
          /\ net' = net \/ net' = net \cup {Adv(out.hash)}
      BY <1>3 DEF Poll
    <2> QED
      BY <2>1, PacketKinds DEF ProofsAreEarned
  <1>4. CASE GiveUp
    BY <1>4 DEF GiveUp, ProofsAreEarned
  <1>5. ASSUME NEW w, recv.state = "Transferring", recv' = Asked([recv EXCEPT !.window = w]),
               net' = net \cup {build_part_request'}, UNCHANGED <<out, sending, delivered>>
        PROVE  ProofsAreEarned'
    <2> DEFINE m1 == [recv EXCEPT !.window = w]
    <2>3. IsReceiver(m1) /\ m1.state = recv.state
      BY ReceiverWindow DEF ProofsAreEarned
    <2>4. recv' = Asked(m1)
      BY <1>5
    <2> HIDE DEF m1
    <2>1. IsReceiver(recv') /\ recv'.state = "Transferring"
      BY <1>5, <2>3, <2>4, AskedKeeps
    <2>2. build_part_request'.type = "req"
      BY DEF build_part_request, Req
    <2> QED
      BY <1>5, <2>1, <2>2 DEF ProofsAreEarned
  <1>6. ASSUME NEW rate \in Rates, NextBatch(rate) PROVE ProofsAreEarned'
    BY <1>5, <1>6 DEF NextBatch
  <1>7. CASE AskAgain
    BY <1>5, <1>7 DEF AskAgain
  <1>8. CASE Assemble
    <2> DEFINE data == Decrypted(recv.slots)
    <2>1. CASE Verified(data)
      <3>1. /\ recv' = [recv EXCEPT !.state = "Assembled", !.data = data]
            /\ net' = net \cup {Proof(recv.hash, data)}
            /\ delivered' = delivered \cup {data}
            /\ sending' = sending /\ out' = out
        BY <1>8, <2>1 DEF Assemble
      <3>2. data = recv.hash /\ recv.slots = Parts(data)
        BY <2>1, DecryptedParts DEF Verified
      <3> HIDE DEF data
      <3>3. /\ IsReceiver(recv') /\ recv'.data = data /\ recv'.hash = recv.hash
            /\ recv'.slots = recv.slots
        <4> DEFINE m1 == [recv EXCEPT !.state = "Assembled"]
        <4>1. recv' = [m1 EXCEPT !.data = data]
          BY <3>1
        <4>2. IsReceiver(m1) /\ m1.hash = recv.hash /\ m1.slots = recv.slots
          BY ReceiverState DEF ProofsAreEarned
        <4> HIDE DEF m1
        <4> QED
          BY <4>1, <4>2, ReceiverData
      <3> QED
        BY <3>1, <3>2, <3>3, PacketKinds DEF ProofsAreEarned
    <2>2. CASE ~Verified(data)
      <3>1. /\ recv' = [recv EXCEPT !.state = "Corrupt"]
            /\ UNCHANGED <<net, delivered, sending, out>>
        BY <1>8, <2>2 DEF Assemble
      <3>2. IsReceiver(recv') /\ recv'.state = "Corrupt"
        BY <3>1, ReceiverState DEF ProofsAreEarned
      <3> QED
        BY <3>1, <3>2 DEF ProofsAreEarned
    <2> QED
      BY <2>1, <2>2
  <1>9. ASSUME NEW m \in net, Deliver(m) \/ Duplicate(m) PROVE ProofsAreEarned'
    BY <1>9, HandleKeeps DEF Deliver, Duplicate
  <1>10. ASSUME NEW m \in net, Lose(m) PROVE ProofsAreEarned'
    BY <1>10 DEF Lose, ProofsAreEarned
  <1>11. CASE UNCHANGED transferVars
    BY <1>11 DEF transferVars, ProofsAreEarned
  <1> QED
    BY <1>1, <1>2, <1>3, <1>4, <1>6, <1>7, <1>8, <1>9, <1>10, <1>11 DEF TransferNext

\* However packets of a transfer are lost, repeated and reordered, what the receiver
\* assembles is what was sent, and the sender is done only once it was (resource.rs).
THEOREM PayloadsIntact == TransferSpec => []PayloadsArriveIntact
  <1>1. TransferInit => ProofsAreEarned
    BY DEF TransferInit, ProofsAreEarned, IdleReceiver, IsReceiver, Receiver
  <1>2. ProofsAreEarned => PayloadsArriveIntact
    BY DEF ProofsAreEarned, PayloadsArriveIntact
  <1> QED
    BY <1>1, <1>2, ProofsStep, PTL DEF TransferSpec

\* The ticks of n rounds of advertising.
Rounds(n) == n * (Deadline + 1)

\* Why a failure was earned: the watchdog's two counters, the rounds it has used up and the
\* age of the present one, account for every tick spent advertising.
DogKeepsTime ==
    /\ dog \in [age : 0 .. Deadline + 1, retries : 0 .. MAX_ADV_RETRIES, concluded : BOOLEAN]
    /\ sending = "advertised" => waited = Rounds(dog.retries) + dog.age
    /\ FailureIsEarned

\* A round more is a deadline and the tick that passes it more, and no number of rounds the
\* watchdog can have used up takes longer than all of them.
LEMMA RoundsAdd ==
    ASSUME NEW n \in 0 .. MAX_ADV_RETRIES
    PROVE  /\ Rounds(n) \in Nat /\ Rounds(n + 1) = Rounds(n) + Deadline + 1
           /\ Rounds(n) + Deadline + 1 <= AllRounds
           /\ AllRounds = Rounds(MAX_ADV_RETRIES) + Deadline + 1
  <1>1. MAX_ADV_RETRIES \in Nat /\ Deadline \in Nat
    BY TransferAssumption
  <1>2. \A a, b, c \in Nat : a <= b => a * c <= b * c /\ (a + 1) * c = a * c + c /\ a * c \in Nat
    OBVIOUS
  <1> QED
    BY <1>1, <1>2 DEF Rounds, AllRounds

\* A packet changes the watchdog only by concluding it, and the sender's state only to serve
\* or to finish.
LEMMA HandleKeepsTime ==
    ASSUME DogKeepsTime, NEW m, NEW rest, Handle(m, rest)
    PROVE  DogKeepsTime'
  <1>1. waited' = waited
    BY DEF Handle, ReceiverAdv, ReceiverRefuses, ReceiverPart, SenderRequest, SenderProof
  <1>2. \/ UNCHANGED <<dog, sending>>
        \/ dog' = [dog EXCEPT !.concluded = TRUE] /\ sending' = "serving"
        \/ dog' = dog /\ sending' = "done"
    BY DEF Handle, ReceiverAdv, ReceiverRefuses, ReceiverPart, SenderRequest, SenderProof
  <1> QED
    BY Zenon, <1>1, <1>2 DEF DogKeepsTime, FailureIsEarned, AllRounds, Rounds

\* Every step.
LEMMA DogStep == DogKeepsTime /\ [TransferNext]_transferVars => DogKeepsTime'
  <1> SUFFICES ASSUME DogKeepsTime, [TransferNext]_transferVars PROVE DogKeepsTime'
    OBVIOUS
  <1>0. MAX_ADV_RETRIES \in Nat /\ Deadline \in Nat
    BY TransferAssumption
  <1>1. ASSUME NEW r \in Resources, Build(r) PROVE DogKeepsTime'
    <2>1. CASE dog' = NewDog /\ waited' = 0 /\ sending' = "advertised"
      <3>1. Rounds(0) = 0
        BY <1>0 DEF Rounds
      <3> QED
        BY <1>0, <2>1, <3>1 DEF DogKeepsTime, FailureIsEarned, NewDog
    <2>2. CASE sending' = "idle" /\ dog' = dog
      BY <2>2 DEF DogKeepsTime, FailureIsEarned
    <2> QED
      BY <1>1, <2>1, <2>2 DEF Build
  <1>2. CASE Tick
    <2>1. /\ dog.age \in 0 .. Deadline /\ waited = Rounds(dog.retries) + dog.age
          /\ dog.retries \in 0 .. MAX_ADV_RETRIES
      BY <1>0, <1>2 DEF Tick, DogKeepsTime
    <2>2. waited < AllRounds /\ AllRounds \in Nat
      BY <1>0, <2>1, RoundsAdd
    <2>3. dog' = [dog EXCEPT !.age = dog.age + 1] /\ waited' = waited + 1 /\ sending' = "advertised"
      BY <1>2, <2>2 DEF Tick
    <2>4. /\ dog' \in [age : 0 .. Deadline + 1, retries : 0 .. MAX_ADV_RETRIES, concluded : BOOLEAN]
          /\ dog'.age = dog.age + 1 /\ dog'.retries = dog.retries
      BY <1>0, <2>1, <2>3 DEF DogKeepsTime
    <2> QED
      BY <1>0, <2>1, <2>3, <2>4, RoundsAdd DEF DogKeepsTime, FailureIsEarned
  <1>3. CASE Poll
    <2>1. /\ dog.age = Deadline + 1 /\ waited = Rounds(dog.retries) + dog.age
          /\ dog.retries \in 0 .. MAX_ADV_RETRIES /\ waited' = waited
      BY <1>0, <1>3 DEF Poll, DogKeepsTime
    <2>2. CASE dog.retries < MAX_ADV_RETRIES
      <3>1. dog' = [dog EXCEPT !.retries = dog.retries + 1, !.age = 0] /\ sending' = "advertised"
        BY <1>3, <2>2 DEF Poll, Resent
      <3> DEFINE counted == [dog EXCEPT !.retries = dog.retries + 1]
      <3>3. dog' = [counted EXCEPT !.age = 0]
        BY <3>1
      <3>4. /\ counted \in [age : 0 .. Deadline + 1, retries : 0 .. MAX_ADV_RETRIES,
                            concluded : BOOLEAN]
            /\ counted.retries = dog.retries + 1
        BY <1>0, <2>1, <2>2 DEF DogKeepsTime
      <3> HIDE DEF counted
      <3>2. /\ dog' \in [age : 0 .. Deadline + 1, retries : 0 .. MAX_ADV_RETRIES, concluded : BOOLEAN]
            /\ dog'.age = 0 /\ dog'.retries = dog.retries + 1
        BY <1>0, <3>3, <3>4
      <3> QED
        BY <1>0, <2>1, <3>1, <3>2, RoundsAdd DEF DogKeepsTime, FailureIsEarned
    <2>3. CASE ~(dog.retries < MAX_ADV_RETRIES)
      <3>1. dog' = [dog EXCEPT !.concluded = TRUE] /\ sending' = "failed"
        BY <1>3, <2>3 DEF Poll
      <3>2. dog.retries = MAX_ADV_RETRIES
        BY <1>0, <2>1, <2>3
      <3>3. waited = AllRounds
        BY <1>0, <2>1, <3>2, RoundsAdd
      <3> QED
        BY Zenon, <2>1, <3>1, <3>3 DEF DogKeepsTime, FailureIsEarned, AllRounds
    <2> QED
      BY <2>2, <2>3
  <1>4. CASE GiveUp
    BY <1>4 DEF GiveUp, DogKeepsTime, FailureIsEarned
  <1>5. ASSUME UNCHANGED <<sending, dog, waited>> PROVE DogKeepsTime'
    BY <1>5 DEF DogKeepsTime, FailureIsEarned, AllRounds, Rounds
  <1>6. ASSUME NEW rate \in Rates, NextBatch(rate) PROVE DogKeepsTime'
    BY <1>5, <1>6 DEF NextBatch
  <1>7. CASE AskAgain
    BY <1>5, <1>7 DEF AskAgain
  <1>8. CASE Assemble
    BY <1>5, <1>8 DEF Assemble
  <1>9. ASSUME NEW m \in net, Deliver(m) \/ Duplicate(m) PROVE DogKeepsTime'
    BY <1>9, HandleKeepsTime DEF Deliver, Duplicate
  <1>10. ASSUME NEW m \in net, Lose(m) PROVE DogKeepsTime'
    BY <1>5, <1>10 DEF Lose
  <1>11. CASE UNCHANGED transferVars
    BY <1>5, <1>11 DEF transferVars
  <1> QED
    BY <1>1, <1>2, <1>3, <1>4, <1>6, <1>7, <1>8, <1>9, <1>10, <1>11 DEF TransferNext

\* A sender gives up only after every advertising round ran its full deadline
\* (the advertising watchdog of resource.rs).
THEOREM FailuresEarned == TransferSpec => []FailureIsEarned
  <1>1. TransferInit => DogKeepsTime
    BY TransferAssumption DEF TransferInit, DogKeepsTime, NewDog, FailureIsEarned
  <1>2. DogKeepsTime => FailureIsEarned
    BY DEF DogKeepsTime
  <1> QED
    BY <1>1, <1>2, DogStep, PTL DEF TransferSpec

----------------------------------------------------------------------------
(* The request window, for all constants that compare as those of resource.rs.*)

USE WindowAssumption DEF WindowAssumption

\* The windows that WindowStaysOpen allows.
Window == [window : Nat, window_min : Nat, window_max : Nat,
           fast_rate_rounds : Nat, very_slow_rate_rounds : Nat]

Open(w) == /\ w \in Window
           /\ WINDOW_MIN <= w.window_min
           /\ WINDOW_MIN <= w.window /\ w.window <= w.window_max
           /\ w.window_max <= WINDOW_MAX_FAST

\* One part more, and a higher floor: the ceiling still holds.
LEMMA WidenedOpen == ASSUME NEW w, Open(w) PROVE Open(Widened(w))
<1>1. CASE w.window < w.window_max
  <2> DEFINE floor == IF saturating_sub(w.window + 1, w.window_min) > WINDOW_FLEXIBILITY - 1
                        THEN w.window_min + 1 ELSE w.window_min
  <2>1. /\ floor \in Nat /\ WINDOW_MIN <= floor
        /\ w.window + 1 \in Nat /\ w.window + 1 <= w.window_max
    BY <1>1 DEF Open, Window
  <2>2. Widened(w) = [w EXCEPT !.window = w.window + 1, !.window_min = floor]
    BY <1>1 DEF Widened, Open, Window
  <2> HIDE DEF floor
  <2>3. Widened(w) \in Window
    BY Zenon, <2>1, <2>2 DEF Open, Window
  <2>4. /\ Widened(w).window = w.window + 1 /\ Widened(w).window_min = floor
        /\ Widened(w).window_max = w.window_max
    BY <2>2 DEF Open, Window
  <2>5. WINDOW_MIN <= w.window + 1 /\ w.window_max <= WINDOW_MAX_FAST
    BY WindowAssumption DEF Open, Window
  <2> QED BY <2>1, <2>3, <2>4, <2>5, Zenon DEF Open
<1>2. CASE ~(w.window < w.window_max)
  BY <1>2 DEF Widened
<1> QED BY <1>1, <1>2

\* A demotion lowers the ceiling and takes the window with it.
LEMMA DemotedOpen == ASSUME NEW w, Open(w) PROVE Open(Demoted(w))
<1> DEFINE lower == IF w.window > WINDOW_MAX_VERY_SLOW THEN WINDOW_MAX_VERY_SLOW ELSE w.window
<1>1. /\ lower \in Nat /\ WINDOW_MIN <= lower /\ lower <= WINDOW_MAX_VERY_SLOW
  BY DEF Open, Window
<1>2. Demoted(w) = [w EXCEPT !.window_max = WINDOW_MAX_VERY_SLOW, !.window = lower]
  BY DEF Demoted, Open, Window
<1> HIDE DEF lower
<1>3. Demoted(w) \in Window
  BY Zenon, <1>1, <1>2 DEF Open, Window
<1>4. /\ Demoted(w).window = lower /\ Demoted(w).window_max = WINDOW_MAX_VERY_SLOW
      /\ Demoted(w).window_min = w.window_min
  BY <1>2 DEF Open, Window
<1> QED BY <1>1, <1>3, <1>4 DEF Open

\* The round counters are of no account for an open window.
LEMMA CountersOpen ==
  ASSUME NEW w, Open(w), NEW fast \in Nat, NEW slow \in Nat
  PROVE  Open([w EXCEPT !.fast_rate_rounds = fast, !.very_slow_rate_rounds = slow])
BY Zenon DEF Open, Window

\* A ceiling raised to the highest keeps a window open.
LEMMA PromotedOpen ==
  ASSUME NEW w, Open(w) PROVE Open([w EXCEPT !.window_max = WINDOW_MAX_FAST])
BY DEF Open, Window

\* grow keeps the window open at every rate.
LEMMA GrowOpen ==
  ASSUME NEW w, Open(w), NEW rate \in RateClasses PROVE Open(grow(w, rate))
<1> DEFINE v == Widened(w)
<1>1. Open(v)
  BY WidenedOpen
<1> HIDE DEF v
<1> DEFINE fast == v.fast_rate_rounds + 1
           slow == v.very_slow_rate_rounds + 1
<1>2. v \in Window /\ fast \in Nat /\ slow \in Nat /\ 0 \in Nat
  BY <1>1 DEF Open, Window
<1>3. CASE rate = "unknown"
  BY <1>1, <1>3 DEF grow, v
<1>4. CASE rate = "fast"
  <2> DEFINE u == [v EXCEPT !.fast_rate_rounds = fast, !.very_slow_rate_rounds = 0]
  <2>1. Open(u)
    BY Zenon, <1>1, <1>2, CountersOpen
  <2>2. grow(w, rate) = [v EXCEPT !.fast_rate_rounds = fast, !.very_slow_rate_rounds = 0,
                                  !.window_max = IF fast >= FAST_RATE_THRESHOLD
                                                   THEN WINDOW_MAX_FAST ELSE @]
    BY <1>4 DEF grow, v
  <2>3. CASE fast >= FAST_RATE_THRESHOLD
    <3>1. grow(w, rate) = [u EXCEPT !.window_max = WINDOW_MAX_FAST]
      BY <1>2, <2>2, <2>3 DEF Window
    <3> QED BY Zenon, <2>1, <3>1, PromotedOpen
  <2>4. CASE ~(fast >= FAST_RATE_THRESHOLD)
    <3>1. grow(w, rate) = u
      BY Zenon, <1>2, <2>2, <2>4 DEF Window
    <3> QED BY <2>1, <3>1
  <2> QED BY <2>3, <2>4
<1>5. CASE rate = "very slow"
  <2> DEFINE u == [v EXCEPT !.very_slow_rate_rounds = slow, !.fast_rate_rounds = 0]
  <2>1. u = [v EXCEPT !.fast_rate_rounds = 0, !.very_slow_rate_rounds = slow]
    BY Zenon, <1>2 DEF Window
  <2>2. Open(u)
    BY Zenon, <1>1, <1>2, <2>1, CountersOpen
  <2>3. grow(w, rate) = IF slow >= VERY_SLOW_RATE_THRESHOLD THEN Demoted(u) ELSE u
    BY Zenon, <1>5 DEF grow, v
  <2> HIDE DEF u
  <2> QED BY <2>2, <2>3, DemotedOpen
<1>6. CASE rate = "middle"
  <2>1. grow(w, rate) = [v EXCEPT !.fast_rate_rounds = 0, !.very_slow_rate_rounds = 0]
    BY <1>6 DEF grow, v
  <2>2. Open([v EXCEPT !.fast_rate_rounds = 0, !.very_slow_rate_rounds = 0])
    BY Zenon, <1>1, <1>2, CountersOpen
  <2> QED BY <2>1, <2>2
<1> QED BY Zenon, <1>3, <1>4, <1>5, <1>6 DEF RateClasses

\* shrink lowers window and ceiling together, never below the floor and never
\* the ceiling below the window.
LEMMA ShrinkOpen == ASSUME NEW w, Open(w) PROVE Open(shrink(w))
<1> DEFINE lower == IF w.window > w.window_min THEN w.window - 1 ELSE w.window
           top == IF w.window_max > w.window_min THEN w.window_max - 1 ELSE w.window_max
           ceiling == IF saturating_sub(top, lower) > WINDOW_FLEXIBILITY - 1
                        THEN top - 1 ELSE top
<1>1. /\ lower \in Nat /\ WINDOW_MIN <= lower
      /\ top \in Nat /\ lower <= top /\ top <= WINDOW_MAX_FAST
  BY DEF Open, Window
<1> HIDE DEF lower, top
<1>2. ceiling \in Nat /\ lower <= ceiling /\ ceiling <= WINDOW_MAX_FAST
  BY <1>1 DEF saturating_sub
<1>3. shrink(w) = [w EXCEPT !.window = lower, !.window_max = ceiling]
  BY DEF shrink, lower, top
<1> HIDE DEF ceiling
<1> QED BY Zenon, <1>1, <1>2, <1>3 DEF Open, Window

\* The window of a transfer never closes and never passes its ceiling, after any
\* batches and timeouts (WindowState::grow and shrink), whatever the constants.
THEOREM WindowOpen == WindowSpec => []WindowStaysOpen
<1>1. WindowInit => WindowStaysOpen
  BY DEF WindowInit, NewWindow, WindowStaysOpen
<1>2. WindowStaysOpen /\ [WindowNext]_win => WindowStaysOpen'
  <2> SUFFICES ASSUME WindowStaysOpen, [WindowNext]_win PROVE WindowStaysOpen'
    OBVIOUS
  <2>1. Open(win)
    BY DEF WindowStaysOpen, Open, Window
  <2>2. SUFFICES Open(win')
    BY <2>2 DEF WindowStaysOpen, Open, Window
  <2>3. CASE Timeout
    BY <2>1, <2>3, ShrinkOpen DEF Timeout
  <2>4. ASSUME NEW rate \in RateClasses, Batch(rate) PROVE Open(win')
    BY <2>1, <2>4, GrowOpen DEF Batch
  <2>5. CASE UNCHANGED win
    BY <2>1, <2>5
  <2> QED BY <2>3, <2>4, <2>5 DEF WindowNext
<1> QED BY <1>1, <1>2, PTL DEF WindowSpec

HIDE WindowAssumption DEF WindowAssumption

----------------------------------------------------------------------------
(* The ring                                                                  *)

USE RingAssumption DEF RingAssumption

Place(h, i) == IF h + i < Capacity THEN h + i ELSE h + i - Capacity

View(e, h, l) == [i \in 1 .. l |-> e[Place(h, i - 1)]]

\* A slot index computed with % in tables.rs wraps at most once.
LEMMA WrapOnce ==
  ASSUME NEW N \in Nat, N # 0, NEW a \in Nat, a < N, NEW b \in Nat, b <= N
  PROVE  (a + b) % N = IF a + b < N THEN a + b ELSE a + b - N
  OBVIOUS

\* Under the ring invariant At is Place.
LEMMA AtIsPlace ==
  ASSUME RingInv, Capacity # 0, NEW i \in 0 .. Capacity
  PROVE  At(i) = Place(head, i)
  <1>1. Capacity \in Nat /\ head \in Nat /\ head < Capacity /\ i \in Nat /\ i <= Capacity
    BY DEF RingInv
  <1>2. (head + i) % Capacity = IF head + i < Capacity THEN head + i ELSE head + i - Capacity
    BY Zenon, <1>1, WrapOnce
  <1> QED BY <1>2 DEF At, Place

\* iter()'s order, with the remainders resolved, is View.
LEMMA OrderIsView ==
  ASSUME NEW e, NEW h \in Nat, NEW l \in Nat, l <= Capacity, Capacity # 0 => h < Capacity
  PROVE  [i \in 1 .. l |-> e[(h + (i - 1)) % Capacity]] = View(e, h, l)
  <1>1. ASSUME NEW i \in 1 .. l PROVE (h + (i - 1)) % Capacity = Place(h, i - 1)
    <2>1. Capacity # 0 /\ h < Capacity /\ i - 1 \in Nat /\ i - 1 <= Capacity
      OBVIOUS
    <2> QED BY Zenon, <2>1, WrapOnce DEF Place
  <1> QED BY <1>1 DEF View

\* A new ring is empty.
LEMMA RingStarts == RingInit => RingInv
  BY DEF RingInit, RingInv, Slots

\* push_drop_oldest keeps the occupied slots one contiguous range.
LEMMA PushKeeps ==
  ASSUME RingInv, NEW v \in Items, push_drop_oldest(v)
  PROVE  RingInv'
  <1>1. CASE Capacity = 0
    BY <1>1 DEF RingInv, push_drop_oldest
  <1>2. CASE Capacity # 0 /\ len = Capacity
    <2>1. At(1) = Place(head, 1)
      BY <1>2, AtIsPlace
    <2> QED BY <1>2, <2>1 DEF RingInv, push_drop_oldest, Place, Slots
  <1>3. CASE Capacity # 0 /\ len # Capacity
    <2>1. At(len) = Place(head, len)
      BY <1>3, AtIsPlace DEF RingInv
    <2> QED BY <1>3, <2>1 DEF RingInv, push_drop_oldest, Place, Slots
  <1> QED BY <1>1, <1>2, <1>3

\* pop empties the head slot and moves the head on.
LEMMA PopKeeps ==
  ASSUME RingInv, pop
  PROVE  RingInv'
  <1>1. CASE len = 0 \/ Capacity = 0
    BY <1>1 DEF RingInv, pop
  <1>2. CASE ~(len = 0 \/ Capacity = 0)
    <2>1. At(1) = Place(head, 1)
      BY <1>2, AtIsPlace
    <2> QED BY <1>2, <2>1 DEF RingInv, pop, Place, Slots
  <1> QED BY <1>1, <1>2

\* What remove leaves in each slot, with the remainders resolved.
LEMMA ShiftedSlots ==
  ASSUME RingInv, Capacity # 0, NEW offset \in Nat, offset < len, NEW s \in Slots
  PROVE  Shifted(offset)[s] =
           IF \E i \in offset .. len - 2 : s = Place(head, i)
             THEN entries[Place(s, 1)]
             ELSE IF s = Place(head, len - 1) THEN None ELSE entries[s]
  <1>1. \A i \in offset .. len - 2 : At(i) = Place(head, i)
    BY AtIsPlace DEF RingInv
  <1>2. At(len - 1) = Place(head, len - 1)
    BY AtIsPlace DEF RingInv
  <1>3. (s + 1) % Capacity = Place(s, 1)
    <2>1. s \in Nat /\ s < Capacity /\ 1 \in Nat /\ 1 <= Capacity
      BY DEF Slots
    <2> QED BY Zenon, <2>1, WrapOnce DEF Place
  <1> QED BY <1>1, <1>2, <1>3 DEF Shifted

\* remove closes the gap it makes, so the live range stays contiguous.
LEMMA RemoveKeeps ==
  ASSUME RingInv, NEW offset \in Nat, remove(offset)
  PROVE  RingInv'
  <1>1. CASE offset >= len \/ Capacity = 0
    BY <1>1 DEF RingInv, remove
  <1>2. CASE ~(offset >= len \/ Capacity = 0)
    <2>1. entries' = Shifted(offset) /\ len' = len - 1 /\ head' = head
      BY <1>2 DEF remove
    <2>2. \A s \in Slots : entries'[s] =
             IF \E i \in offset .. len - 2 : s = Place(head, i)
               THEN entries[Place(s, 1)]
               ELSE IF s = Place(head, len - 1) THEN None ELSE entries[s]
      BY <1>2, <2>1, ShiftedSlots DEF RingInv
    <2>3. \A s \in Slots : Place(s, 1) \in Slots
      BY <1>2 DEF Slots, Place
    <2>4. entries' \in [Slots -> Items \cup {None}]
      <3>1. \A s \in Slots : entries'[s] \in Items \cup {None}
        BY <2>2, <2>3 DEF RingInv
      <3> QED BY <2>1, <3>1 DEF Shifted
    <2>5. ASSUME NEW s \in Slots
          PROVE  (entries'[s] # None) <=>
                    \/ head <= s /\ s < head + (len - 1)
                    \/ s + Capacity < head + (len - 1)
      <3>1. CASE \E i \in offset .. len - 2 : s = Place(head, i)
        <4>1. entries'[s] = entries[Place(s, 1)]
          BY <2>2, <3>1
        <4>2. PICK i \in offset .. len - 2 : s = Place(head, i)
          BY <3>1
        <4> QED BY <1>2, <4>1, <4>2, <2>3 DEF RingInv, Place, Slots
      <3>2. CASE ~ \E i \in offset .. len - 2 : s = Place(head, i)
        <4>1. entries'[s] = IF s = Place(head, len - 1) THEN None ELSE entries[s]
          BY <2>2, <3>2
        <4>2. CASE s = Place(head, len - 1)
          BY <1>2, <4>1, <4>2 DEF RingInv, Place, Slots
        <4>3. CASE s # Place(head, len - 1)
          BY <1>2, <4>1, <4>3 DEF RingInv, Place, Slots
        <4> QED BY <4>2, <4>3
      <3> QED BY <3>1, <3>2
    <2> QED BY <1>2, <2>1, <2>4, <2>5 DEF RingInv
  <1> QED BY <1>1, <1>2

\* get_mut writes inside the live range.
LEMMA GetMutKeeps ==
  ASSUME RingInv, NEW offset \in Nat, NEW v \in Items, get_mut(offset, v)
  PROVE  RingInv'
  <1>1. CASE offset >= len \/ Capacity = 0
    BY <1>1 DEF RingInv, get_mut
  <1>2. CASE ~(offset >= len \/ Capacity = 0)
    <2>1. At(offset) = Place(head, offset)
      BY <1>2, AtIsPlace DEF RingInv
    <2> QED BY <1>2, <2>1 DEF RingInv, get_mut, Place, Slots
  <1> QED BY <1>1, <1>2

\* iter_mut changes what the occupied slots hold, not which ones are occupied.
LEMMA IterMutKeeps ==
  ASSUME RingInv, NEW f \in [Items -> Items], iter_mut(f)
  PROVE  RingInv'
  <1>1. \A s \in Slots : entries[s] # None => entries[s] \in Items
    BY DEF RingInv
  <1>2. /\ entries' \in [Slots -> Items \cup {None}]
        /\ \A s \in Slots : entries'[s] # None <=> entries[s] # None
    BY <1>1 DEF iter_mut
  <1> QED BY <1>2 DEF RingInv, iter_mut

\* The ring invariant of tables.rs: after any calls on a Queue its occupied
\* slots are the `len` slots from `head` on, wrapping once.
LEMMA RingSafe == RingSpec => []RingInv
  <1>1. ASSUME RingInv, [RingNext]_ringVars PROVE RingInv'
    <2>1. CASE UNCHANGED ringVars
      BY <1>1, <2>1 DEF ringVars, RingInv
    <2>2. CASE peek \/ iter
      BY <1>1, <2>2 DEF peek, iter, RingInv
    <2>3. CASE clear
      BY <1>1, <2>3 DEF clear, RingInv, Slots
    <2> QED BY <1>1, <2>1, <2>2, <2>3, PushKeeps, PopKeeps, RemoveKeeps,
               GetMutKeeps, IterMutKeeps DEF RingNext
  <1> QED BY RingStarts, <1>1, PTL DEF RingSpec

---------------------------------------------------------------------------
\* RingInv, of any slots, head and length.
Sound(e, h, l) ==
    /\ e \in [Slots -> Items \cup {None}]
    /\ h \in Nat /\ l \in Nat
    /\ l <= Capacity
    /\ Capacity # 0 => h < Capacity
    /\ \A s \in Slots :
          (e[s] # None) <=>
              \/ h <= s /\ s < h + l
              \/ s + Capacity < h + l

\* Two sequences with the same elements are the same.
LEMMA SameElements ==
  ASSUME NEW S, NEW a \in Seq(S), NEW b \in Seq(S), Len(a) = Len(b),
         \A i \in 1 .. Len(a) : a[i] = b[i]
  PROVE  a = b
  OBVIOUS

\* The window over the slots is a sequence of items: no live slot is empty.
LEMMA ViewIsSeq ==
  ASSUME NEW e, NEW h, NEW l, Sound(e, h, l)
  PROVE  /\ View(e, h, l) \in Seq(Items)
         /\ Len(View(e, h, l)) = l
         /\ \A i \in 1 .. l : /\ Place(h, i - 1) \in Slots
                             /\ e[Place(h, i - 1)] \in Items
                             /\ View(e, h, l)[i] = e[Place(h, i - 1)]
  <1>1. ASSUME NEW i \in 1 .. l
        PROVE  Place(h, i - 1) \in Slots /\ e[Place(h, i - 1)] \in Items
    <2>1. Place(h, i - 1) \in Slots
      BY DEF Sound, Place, Slots
    <2>2. e[Place(h, i - 1)] # None
      BY <2>1 DEF Sound, Place, Slots
    <2> QED BY <2>1, <2>2 DEF Sound
  <1> QED BY <1>1 DEF View, Sound

\* Before and after a call the queue of the promise is the window, a sequence
\* of items as long as `len` says.
LEMMA Mapped ==
  ASSUME RingInv, RingInv'
  PROVE  /\ Contents = View(entries, head, len)
         /\ Contents' = View(entries', head', len')
         /\ Contents \in Seq(Items) /\ Contents' \in Seq(Items)
         /\ Len(Contents) = len /\ Len(Contents') = len'
         /\ \A i \in 1 .. len : Contents[i] = entries[Place(head, i - 1)]
         /\ \A i \in 1 .. len' : (Contents')[i] = entries'[Place(head', i - 1)]
  <1>1. Contents = View(entries, head, len)
    BY Zenon, OrderIsView DEF RingInv, Contents, At
  <1>2. Contents' = View(entries', head', len')
    BY Zenon, OrderIsView DEF RingInv, Contents, At
  <1>3. Sound(entries, head, len) /\ Sound(entries', head', len')
    BY DEF Sound, RingInv
  <1> QED BY <1>1, <1>2, <1>3, ViewIsSeq

\* Pushing moves the window over the slots as Append and Tail move the sequence.
LEMMA PushRefines ==
  ASSUME RingInv, RingInv', NEW v \in Items, push_drop_oldest(v)
  PROVE  Promise!FifoPush(v)
  <1> DEFINE q == Contents
             r == Contents'
  <1>1. /\ q \in Seq(Items) /\ Len(q) = len
        /\ r \in Seq(Items) /\ Len(r) = len'
        /\ \A i \in 1 .. len : q[i] = entries[Place(head, i - 1)]
        /\ \A i \in 1 .. len' : r[i] = entries'[Place(head', i - 1)]
    BY Mapped
  <1> HIDE DEF q, r
  <1>2. CASE Capacity = 0
    <2>1. len' = 0
      BY <1>2 DEF RingInv
    <2>2. r = <<>>
      BY <1>1, <2>1
    <2> QED BY <1>1, <1>2, <2>2 DEF Promise!FifoPush, push_drop_oldest, q, r
  <1>3. CASE Capacity # 0 /\ len = Capacity
    <2>1. /\ entries' = [entries EXCEPT ![head] = v]
          /\ head' = Place(head, 1) /\ len' = len
      BY <1>3, AtIsPlace DEF push_drop_oldest
    <2>2. /\ Tail(q) \in Seq(Items) /\ Len(Tail(q)) = len - 1
          /\ \A i \in 1 .. len - 1 : Tail(q)[i] = q[i + 1]
      BY <1>1, <1>3
    <2>3. ASSUME NEW i \in 1 .. len - 1 PROVE r[i] = q[i + 1]
      BY <1>1, <1>3, <2>1 DEF Place, RingInv, Slots
    <2>4. r[len] = v
      <3>1. Place(head', len' - 1) = head /\ head \in Slots
        BY <1>3, <2>1 DEF Place, RingInv, Slots
      <3>2. r[len] = entries'[head]
        BY <1>1, <1>3, <2>1, <3>1 DEF RingInv
      <3> QED BY <2>1, <3>1, <3>2 DEF RingInv
    <2>5. r = Append(Tail(q), v)
      <3>1. /\ Append(Tail(q), v) \in Seq(Items) /\ Len(Append(Tail(q), v)) = len
            /\ \A i \in 1 .. len - 1 : Append(Tail(q), v)[i] = q[i + 1]
            /\ Append(Tail(q), v)[len] = v
        BY <2>2, <1>3 DEF RingInv
      <3>2. \A i \in 1 .. len : r[i] = Append(Tail(q), v)[i]
        BY <2>3, <2>4, <3>1 DEF RingInv
      <3> QED BY <1>1, <2>1, <3>1, <3>2, SameElements
    <2> QED BY <1>1, <1>3, <2>5 DEF Promise!FifoPush, push_drop_oldest, q, r
  <1>4. CASE Capacity # 0 /\ len # Capacity
    <2>1. /\ entries' = [entries EXCEPT ![Place(head, len)] = v]
          /\ head' = head /\ len' = len + 1
      BY <1>4, AtIsPlace DEF push_drop_oldest, RingInv
    <2>3. ASSUME NEW i \in 1 .. len PROVE r[i] = q[i]
      BY <1>1, <1>4, <2>1 DEF Place, RingInv, Slots
    <2>4. r[len + 1] = v
      BY <1>1, <1>4, <2>1 DEF Place, RingInv, Slots
    <2>5. r = Append(q, v)
      BY <1>1, <1>4, <2>1, <2>3, <2>4, SameElements
    <2> QED BY <1>1, <1>4, <2>5 DEF Promise!FifoPush, push_drop_oldest, RingInv, q, r
  <1> QED BY <1>2, <1>3, <1>4

\* Popping drops the head of the sequence, and answers with it.
LEMMA PopRefines ==
  ASSUME RingInv, RingInv', pop
  PROVE  Promise!FifoPop
  <1> DEFINE q == Contents
             r == Contents'
  <1>1. /\ q \in Seq(Items) /\ Len(q) = len
        /\ r \in Seq(Items) /\ Len(r) = len'
        /\ \A i \in 1 .. len : q[i] = entries[Place(head, i - 1)]
        /\ \A i \in 1 .. len' : r[i] = entries'[Place(head', i - 1)]
    BY Mapped
  <1> HIDE DEF q, r
  <1>2. CASE len = 0 \/ Capacity = 0
    <2>1. len = 0 /\ len' = 0
      BY <1>2 DEF RingInv, pop
    <2>2. q = <<>> /\ r = <<>>
      BY <1>1, <2>1
    <2> QED BY <1>2, <2>2 DEF Promise!FifoPop, pop, q, r
  <1>3. CASE ~(len = 0 \/ Capacity = 0)
    <2>1. /\ entries' = [entries EXCEPT ![head] = None]
          /\ head' = Place(head, 1) /\ len' = len - 1
          /\ answer' = <<entries[head]>>
      BY <1>3, AtIsPlace DEF pop
    <2>2. /\ Tail(q) \in Seq(Items) /\ Len(Tail(q)) = len - 1
          /\ \A i \in 1 .. len - 1 : Tail(q)[i] = q[i + 1]
          /\ Head(q) = q[1] /\ q # <<>>
      BY <1>1, <1>3 DEF RingInv
    <2>3. ASSUME NEW i \in 1 .. len - 1 PROVE r[i] = q[i + 1]
      BY <1>1, <1>3, <2>1 DEF Place, RingInv, Slots
    <2>4. r = Tail(q)
      BY Zenon, <1>1, <2>1, <2>2, <2>3, SameElements
    <2>5. q[1] = entries[head]
      <3>1. 1 \in 1 .. len /\ Place(head, 1 - 1) = head
        BY <1>3 DEF Place, RingInv
      <3> QED
        BY Zenon, <1>1, <3>1
    <2> QED BY <2>1, <2>2, <2>4, <2>5 DEF Promise!FifoPop, q, r
  <1> QED BY Zenon, <1>2, <1>3

\* remove takes one element out of the sequence and keeps the order of the rest.
LEMMA RemoveRefines ==
  ASSUME RingInv, RingInv', NEW offset \in Nat, remove(offset)
  PROVE  Promise!FifoRemove(offset)
  <1> DEFINE q == Contents
             r == Contents'
  <1>1. /\ q \in Seq(Items) /\ Len(q) = len
        /\ r \in Seq(Items) /\ Len(r) = len'
        /\ \A i \in 1 .. len : q[i] = entries[Place(head, i - 1)]
        /\ \A i \in 1 .. len' : r[i] = entries'[Place(head', i - 1)]
    BY Zenon, Mapped
  <1> HIDE DEF q, r
  <1>2. CASE offset >= len \/ Capacity = 0
    <2>1. ~(offset < len)
      BY <1>2 DEF RingInv
    <2>2. entries' = entries /\ head' = head /\ len' = len
      BY <1>2 DEF remove
    <2>3. \A i \in 1 .. len : r[i] = q[i]
      BY <1>1, <2>2
    <2>4. r = q
      BY <1>1, <2>2, <2>3, SameElements
    <2> QED BY <1>1, <1>2, <2>1, <2>4 DEF Promise!FifoRemove, remove, q, r
  <1>3. CASE ~(offset >= len \/ Capacity = 0)
    <2>1. /\ head' = head /\ len' = len - 1 /\ entries' = Shifted(offset)
          /\ answer' = <<entries[Place(head, offset)]>>
      BY <1>3, AtIsPlace DEF remove, RingInv
    <2>2. \A s \in Slots : entries'[s] =
             IF \E i \in offset .. len - 2 : s = Place(head, i)
               THEN entries[Place(s, 1)]
               ELSE IF s = Place(head, len - 1) THEN None ELSE entries[s]
      BY <1>3, <2>1, ShiftedSlots DEF RingInv
    <2>3. ASSUME NEW i \in 1 .. len - 1
          PROVE  r[i] = IF i <= offset THEN q[i] ELSE q[i + 1]
      <3>1. r[i] = entries'[Place(head, i - 1)] /\ Place(head, i - 1) \in Slots
        <4>1. i \in 1 .. len' /\ head' = head
          BY Zenon, <2>1
        <4>2. Place(head, i - 1) \in Slots
          BY <1>3 DEF Place, RingInv, Slots
        <4> QED BY Zenon, <1>1, <4>1, <4>2
      <3>2. CASE i <= offset
        <4>1. ~ \E j \in offset .. len - 2 : Place(head, i - 1) = Place(head, j)
          BY <1>3, <3>2 DEF Place, RingInv
        <4>2. Place(head, i - 1) # Place(head, len - 1)
          BY <1>3, <3>2 DEF Place, RingInv
        <4>3. r[i] = entries[Place(head, i - 1)]
          BY Zenon, <2>2, <3>1, <4>1, <4>2
        <4>4. i \in 1 .. len
          BY DEF RingInv
        <4> QED BY Zenon, <1>1, <3>2, <4>3, <4>4
      <3>3. CASE ~(i <= offset)
        <4>1. i - 1 \in offset .. len - 2
          BY <3>3 DEF RingInv
        <4>2. r[i] = entries[Place(Place(head, i - 1), 1)]
          BY <2>2, <3>1, <4>1
        <4>3. Place(Place(head, i - 1), 1) = Place(head, i)
          BY <1>3 DEF Place, RingInv
        <4> QED BY <1>1, <3>3, <4>2, <4>3 DEF RingInv
      <3> QED BY <3>2, <3>3
    <2>4. r = [i \in 1 .. Len(q) - 1 |-> IF i <= offset THEN q[i] ELSE q[i + 1]]
      <3>1. r = [i \in 1 .. len - 1 |-> r[i]]
        BY <1>1, <2>1
      <3> QED BY <1>1, <2>3, <3>1
    <2>5. q[offset + 1] = entries[Place(head, offset)]
      BY <1>1, <1>3 DEF Place, RingInv
    <2> QED BY <1>1, <1>3, <2>1, <2>4, <2>5 DEF Promise!FifoRemove, Promise!Without, q, r
  <1> QED BY <1>2, <1>3

\* get_mut changes one element in place.
LEMMA GetMutRefines ==
  ASSUME RingInv, RingInv', NEW offset \in Nat, NEW v \in Items, get_mut(offset, v)
  PROVE  Promise!FifoSet(offset, v)
  <1> DEFINE q == Contents
             r == Contents'
  <1>1. /\ q \in Seq(Items) /\ Len(q) = len
        /\ r \in Seq(Items) /\ Len(r) = len'
        /\ \A i \in 1 .. len : q[i] = entries[Place(head, i - 1)]
        /\ \A i \in 1 .. len' : r[i] = entries'[Place(head', i - 1)]
    BY Mapped
  <1> HIDE DEF q, r
  <1>2. CASE offset >= len \/ Capacity = 0
    <2>1. ~(offset < len)
      BY <1>2 DEF RingInv
    <2>2. r = q
      BY <1>2 DEF get_mut, Contents, At, q, r
    <2> QED BY <1>1, <1>2, <2>1, <2>2 DEF Promise!FifoSet, get_mut, q, r
  <1>3. CASE ~(offset >= len \/ Capacity = 0)
    <2>1. /\ head' = head /\ len' = len /\ answer' = <<v>>
          /\ entries' = [entries EXCEPT ![Place(head, offset)] = v]
      BY <1>3, AtIsPlace DEF get_mut, RingInv
    <2>2. ASSUME NEW i \in 1 .. len
          PROVE  r[i] = IF i = offset + 1 THEN v ELSE q[i]
      <3>1. r[i] = entries'[Place(head, i - 1)] /\ q[i] = entries[Place(head, i - 1)]
        BY <1>1, <2>1
      <3>2. Place(head, i - 1) \in Slots /\ Place(head, offset) \in Slots
        BY <1>3 DEF Place, RingInv, Slots
      <3>3. Place(head, i - 1) = Place(head, offset) <=> i = offset + 1
        BY <1>3 DEF Place, RingInv
      <3> QED BY Zenon, <2>1, <3>1, <3>2, <3>3 DEF RingInv
    <2>3. r = [q EXCEPT ![offset + 1] = v]
      <3>1. DOMAIN q = 1 .. len /\ r = [i \in 1 .. len |-> r[i]]
        BY <1>1, <2>1
      <3>2. [q EXCEPT ![offset + 1] = v] = [i \in DOMAIN q |-> IF i = offset + 1 THEN v ELSE q[i]]
        OBVIOUS
      <3> QED BY ZenonT(30), <2>2, <3>1, <3>2
    <2> QED BY <1>1, <1>3, <2>1, <2>3 DEF Promise!FifoSet, q, r
  <1> QED BY Zenon, <1>2, <1>3

\* iter_mut, which walks the slots physically, reaches each element once.
LEMMA IterMutRefines ==
  ASSUME RingInv, RingInv', NEW f \in [Items -> Items], iter_mut(f)
  PROVE  Promise!FifoUpdate(f)
  <1> DEFINE q == Contents
             r == Contents'
  <1>1. /\ q \in Seq(Items) /\ Len(q) = len
        /\ r \in Seq(Items) /\ Len(r) = len'
        /\ \A i \in 1 .. len : q[i] = entries[Place(head, i - 1)]
        /\ \A i \in 1 .. len' : r[i] = entries'[Place(head', i - 1)]
    BY Zenon, Mapped
  <1> HIDE DEF q, r
  <1>2. ASSUME NEW i \in 1 .. len PROVE r[i] = f[q[i]]
    <2>1. Place(head, i - 1) \in Slots
      BY DEF Place, RingInv, Slots
    <2>2. q[i] \in Items
      BY <1>1
    <2>3. r[i] = entries'[Place(head, i - 1)]
      BY Zenon, <1>1 DEF iter_mut
    <2>4. entries[Place(head, i - 1)] = q[i]
      BY Zenon, <1>1
    <2>5. q[i] # None
      BY Zenon, <2>2, RingAssumption
    <2> QED BY Zenon, <2>1, <2>3, <2>4, <2>5 DEF iter_mut
  <1>3. r = [i \in 1 .. Len(q) |-> f[q[i]]]
    <2>1. r = [i \in 1 .. len |-> r[i]]
      BY <1>1 DEF iter_mut
    <2> QED BY <1>1, <1>2, <2>1
  <1> QED BY Zenon, <1>3 DEF Promise!FifoUpdate, Promise!Each, iter_mut, q, r

\* The calls that only look, and clear.
LEMMA LooksRefine ==
  ASSUME RingInv, RingInv', peek \/ iter \/ clear
  PROVE  Promise!FifoPeek \/ Promise!FifoIterate \/ Promise!FifoClear
  <1> DEFINE q == Contents
             r == Contents'
  <1>1. /\ q \in Seq(Items) /\ Len(q) = len
        /\ r \in Seq(Items) /\ Len(r) = len'
        /\ \A i \in 1 .. len : q[i] = entries[Place(head, i - 1)]
        /\ \A i \in 1 .. len' : r[i] = entries'[Place(head', i - 1)]
    BY Mapped
  <1> HIDE DEF q, r
  <1>2. CASE peek
    <2>1. r = q
      BY <1>1, <1>2, SameElements DEF RingInv, peek
    <2>2. CASE len = 0
      BY <1>1, <1>2, <2>1, <2>2 DEF peek, Promise!FifoPeek, q, r
    <2>3. CASE len # 0
      <3>1. q # <<>> /\ Head(q) = entries[head] /\ Capacity # 0
        BY <1>1, <2>3 DEF RingInv, Place
      <3> QED BY Zenon, <1>2, <2>1, <2>3, <3>1 DEF peek, Promise!FifoPeek, q, r
    <2> QED BY Zenon, <2>2, <2>3
  <1>3. CASE iter
    <2>1. r = q
      BY Zenon, <1>3 DEF iter, Contents, At, q, r
    <2>2. \A i \in 1 .. len : q[i] # None
      BY <1>1
    <2> QED BY <1>3, <2>1, <2>2 DEF iter, Promise!FifoIterate, q, r
  <1>4. CASE clear
    <2>1. r = <<>>
      BY <1>1, <1>4 DEF clear
    <2> QED BY <1>4, <2>1 DEF clear, Promise!FifoClear, q, r
  <1> QED BY Zenon, <1>2, <1>3, <1>4

\* Every call on the ring of tables.rs is a call on the FIFO sequence its doc
\* promises: the same contents in the same order, and the same answer.
THEOREM RingRefines == RingSpec => RingImplementsFifo
  <1>1. RingInit => Promise!FifoInit
    <2>1. RingInit => Contents = <<>>
      BY DEF RingInit, Contents
    <2> QED BY <2>1 DEF RingInit, Promise!FifoInit
  <1>2. ASSUME RingInv, RingInv', [RingNext]_ringVars
        PROVE  [Promise!FifoNext]_(Promise!fifoVars)
    <2>1. CASE UNCHANGED ringVars
      BY <2>1 DEF ringVars, Promise!fifoVars, Contents, At
    <2>2. CASE RingNext
      <3>1. CASE \E v \in Items : push_drop_oldest(v)
        BY <1>2, <3>1, PushRefines DEF Promise!FifoNext
      <3>2. CASE pop
        BY <1>2, <3>2, PopRefines DEF Promise!FifoNext
      <3>3. CASE \E offset \in 0 .. Capacity : remove(offset)
        BY <1>2, <3>3, RemoveRefines DEF Promise!FifoNext
      <3>4. CASE \E offset \in 0 .. Capacity, v \in Items : get_mut(offset, v)
        BY <1>2, <3>4, GetMutRefines DEF Promise!FifoNext
      <3>5. CASE \E f \in [Items -> Items] : iter_mut(f)
        BY <1>2, <3>5, IterMutRefines DEF Promise!FifoNext
      <3>6. CASE peek \/ iter \/ clear
        BY <1>2, <3>6, LooksRefine DEF Promise!FifoNext
      <3> QED BY <2>2, <3>1, <3>2, <3>3, <3>4, <3>5, <3>6 DEF RingNext
    <2> QED BY <1>2, <2>1, <2>2
  <1> QED BY <1>1, <1>2, RingSafe, PTL DEF RingSpec, RingImplementsFifo, Promise!FifoSpec
=============================================================================
