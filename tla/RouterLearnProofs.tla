------------------------- MODULE RouterLearnProofs --------------------------
(***************************************************************************)
(* Announces learned, path requests and the timer that sends announces on  *)
(* are evolutions.                                                         *)
(***************************************************************************)
EXTENDS RouterEvolve

\* The time every leaf may take that names no prover of its own.
USE SMTT(60)

----------------------------------------------------------------------------
(* Announces and path requests                                               *)

\* The generation a new discovery takes is in no other entry.
LEMMA FreshDiscovery ==
    ASSUME IInv, NEW p, NEW s, BeginDiscovery(p, s)
    PROVE  \A x \in discoveries' : x.gen = last.discovery + 1 => x.dest = p.dest
<1>1. \A x \in LiveDiscoveries : x.gen # last.discovery + 1
  BY ExpireShrinks DEF IInv, TypeOK, GenerationsIssued, DiscoveryEntry
<1>2. \A x \in discoveries' : x \in LiveDiscoveries \/ x.dest = p.dest
  BY DEF BeginDiscovery
<1>. QED
  BY Zenon, <1>1, <1>2

\* A gate shut from now on was not shut for longer before.
LEMMA GateLater ==
    ASSUME NEW gate \in Nat, NEW now \in Nat, NEW after \in Nat,
           (gate <= now /\ now <= after) \/ after = gate
    PROVE  gate <= after
  OBVIOUS

\* IngestDropped is an evolution.
LEMMA DroppedStep ==
    ASSUME IInv, IngestDropped
    PROVE  Evolve
<1>1. Received /\ Idle /\ UNCHANGED <<paths, announce_cache, announce_schedule, reverse, links>>
  BY DEF IngestDropped, Received, announceVars
<1>. QED
  BY <1>1, IdleQuiet, QuietTables DEF Evolve

\* Copies heard from neighbours only count up or remove scheduled announces.
LEMMA HeardQuiet ==
    ASSUME IInv, NEW p, NEW e \in HeardRebroadcast(p)
    PROVE  /\ e \in ScheduledAnnounce /\ e.interface \in online
           /\ \E x \in announce_schedule :
                SameAnnounce(x, e) /\ e.interface = x.interface /\ e.pending = x.pending
<1>1. \A x \in announce_schedule : x \in ScheduledAnnounce /\ x.interface \in online
  BY DEF IInv, TypeOK, RoutesNameLiveInterfaces
<1> DEFINE counted(x) == [x EXCEPT !.local_rebroadcasts = @ + 1]
<1>2. \A x \in ScheduledAnnounce :
        /\ counted(x) \in ScheduledAnnounce
        /\ counted(x).interface = x.interface /\ counted(x).pending = x.pending
        /\ counted(x).dest = x.dest /\ counted(x).emitted = x.emitted
        /\ counted(x).size = x.size /\ counted(x).hops = x.hops
  BY DEF ScheduledAnnounce
<1>3. e \in announce_schedule \/ \E x \in announce_schedule : e = counted(x)
  BY DEF HeardRebroadcast
<1> HIDE DEF counted
<1>. QED
  BY <1>1, <1>2, <1>3 DEF SameAnnounce

\* What they leave is owed only where it was.
LEMMA HeardAllowed ==
    ASSUME IInv, SameRegistry, NEW p, NEW e \in HeardRebroadcast(p), NEW s \in e.pending
    PROVE  registry'[s] # NoId /\ announce_egress_allowed(e.interface, registry[s])'
<1>1. PICK x \in announce_schedule : e.interface = x.interface /\ e.pending = x.pending
  BY HeardQuiet
<1>2. registry[s] # NoId /\ announce_egress_allowed(e.interface, registry[s])
  BY Zenon, <1>1 DEF IInv, PendingTargetsAreAllowed
<1>. QED
  BY <1>2, EgressKept DEF SameRegistry

\* The path `handle_announce` builds has the fields of a PathEntry,
LEMMA PathFromFields ==
    ASSUME NEW p
    PROVE  /\ DOMAIN PathFrom(p) = {"dest", "next_hop", "hops", "interface", "expires",
                                    "last_seen", "emitted", "response", "bulk", "gen"}
           /\ PathFrom(p).interface = p.interface /\ PathFrom(p).dest = p.dest
  BY DEF PathFrom

\* and is one once it has a generation.
Built(p, g) == [PathFrom(p) EXCEPT !.gen = g]

LEMMA PathFromType ==
    ASSUME IInv, NEW p \in PacketsOf("announce"), NEW g \in Nat \ {0}
    PROVE  /\ Built(p, g) \in PathEntry /\ Built(p, g).gen = g
           /\ Built(p, g).interface = p.interface /\ Built(p, g).emitted = p.emitted
           /\ Built(p, g).hops = Hops(p) /\ Built(p, g).response = p.response
           /\ Built(p, g).last_seen <= Built(p, g).expires
           /\ PathFrom(p).bulk = Built(p, g).bulk /\ PathFrom(p).hops = Built(p, g).hops
           /\ PathFrom(p).next_hop = Built(p, g).next_hop
           /\ PathFrom(p).emitted = Built(p, g).emitted
<1>1. p \in Packets /\ p.kind = "announce"
  BY DEF PacketsOf
<1>2. Hops(p) \in Nat /\ p.interface \in Ids /\ p.dest \in Dests /\ p.emitted \in Nat
        /\ p.response \in BOOLEAN
  BY Zenon, <1>1, HopsType, PacketsAssumption
<1>3. Param.path[Config[p.interface].mode] \in Nat /\ Config[p.interface].bulk \in BOOLEAN
  BY Zenon, <1>2, ConfigAssumption, ParamAssumption
<1>4. time \in Nat
  BY DEF IInv, TypeOK
<1> DEFINE hop == p.next_hop
           bulk == Config[p.interface].bulk /\ ~\E d \in LiveDiscoveries : d.dest = p.dest
           life == Param.path[Config[p.interface].mode]
<1>5. hop \in {x.next_hop : x \in PacketsOf("announce")} /\ bulk \in BOOLEAN /\ life \in Nat
  BY <1>3
<1>6. PathFrom(p) = [dest |-> p.dest, next_hop |-> hop, hops |-> Hops(p),
                     interface |-> p.interface, expires |-> time + life, last_seen |-> time,
                     emitted |-> p.emitted, response |-> p.response, bulk |-> bulk, gen |-> 0]
  BY Zenon DEF PathFrom
<1> HIDE DEF hop, bulk, life
<1>. QED
  BY <1>2, <1>4, <1>5, <1>6 DEF PathEntry, Built

\* A learned route: the only entry for its destination is `path`, as the announce
\* describes it. Its generation is issued by the step, or belonged to a live entry
\* for the same route.
LEMMA LearnedPath ==
    ASSUME IInv, NEW p \in PacketsOf("announce"),
           NEW T \in insert_or_update(paths, PathFrom(p), time, last.path, Limit.path, Cap.paths),
           NEW path \in T, path.dest = p.dest
    PROVE  /\ path \in PathEntry /\ path.last_seen <= path.expires
           /\ path.interface = p.interface /\ path.emitted = p.emitted /\ path.hops = Hops(p)
           /\ path.response = p.response
           /\ \A q \in T : q = path \/ (q \in paths /\ q.dest # p.dest)
           /\ \/ path.gen = last.path + 1
              \/ \E old \in paths :
                   time < old.expires /\ same_route(old, path) /\ path.gen = old.gen
           /\ \A old \in paths : old.dest = p.dest /\ time < old.expires => p.emitted > old.emitted
           /\ \A x \in paths :
                time < x.expires /\ ~x.bulk /\ ~(\E y \in T : y.dest = x.dest) =>
                  ~path.bulk /\ \A y \in paths : time < y.expires => ~y.bulk
<1> DEFINE e == PathFrom(p)
<1>1. \A x, y \in paths : x.dest = y.dest => x = y
  BY DEF IInv, RoutesUnique
<1>2. DOMAIN e = {"dest", "next_hop", "hops", "interface", "expires", "last_seen", "emitted",
                  "response", "bulk", "gen"}
  BY PathFromFields
<1>3. PICK g :
        /\ \A q \in T : q = [e EXCEPT !.gen = g] \/ (q \in paths /\ q.dest # e.dest)
        /\ \/ g = last.path + 1
           \/ \E old \in paths : time < old.expires /\ same_route(old, e) /\ g = old.gen
        /\ \A old \in paths : old.dest = e.dest /\ time < old.expires => e.emitted > old.emitted
        /\ \A x \in paths :
             time < x.expires /\ ~x.bulk /\ ~(\E y \in T : y.dest = x.dest) =>
               ~e.bulk /\ \A y \in paths : time < y.expires => ~y.bulk
  <2> HIDE DEF e
  <2>. QED
    BY <1>1, <1>2, InsertedPaths DEF e
<1>4. e.dest = p.dest /\ e.interface = p.interface
  BY PathFromFields
<1>5. g \in Nat \ {0}
  <2>1. last.path \in Nat /\ \A old \in paths : old.gen \in Nat \ {0}
    BY DEF IInv, TypeOK, PathEntry
  <2>. QED
    BY <1>3, <2>1
<1>6. path = Built(p, g)
  BY <1>3, <1>4 DEF Built
<1>7. /\ path \in PathEntry /\ path.gen = g
      /\ path.interface = p.interface /\ path.emitted = p.emitted
      /\ path.hops = Hops(p) /\ path.response = p.response
      /\ path.last_seen <= path.expires
      /\ e.bulk = path.bulk /\ e.hops = path.hops /\ e.next_hop = path.next_hop
      /\ e.emitted = path.emitted
  BY Zenon, <1>5, <1>6, PathFromType
<1>8. \A q \in T : q = path \/ (q \in paths /\ q.dest # p.dest)
  BY <1>3, <1>4, <1>6 DEF Built
<1> HIDE DEF e
<1>9. \A old \in paths : same_route(old, e) => same_route(old, path)
  BY Zenon, <1>4, <1>7 DEF same_route
<1>. QED
  BY Zenon, <1>3, <1>4, <1>7, <1>8, <1>9

\* It is an evolution of the path table: newer than what it replaces, and a live
\* ordinary path makes room only for an ordinary one.
LEMMA PathsLearned ==
    ASSUME IInv, LastEvolves, SameRegistry,
           NEW p \in PacketsOf("announce"), p.interface \in online,
           paths' \in insert_or_update(paths, PathFrom(p), time, last.path, Limit.path, Cap.paths),
           NEW path \in paths', path.dest = p.dest,
           last'.path = IF path.gen > last.path THEN path.gen ELSE last.path
    PROVE  PathsEvolve /\ path.gen <= last'.path
<1>1. last.path \in Nat /\ last'.path \in Nat /\ last.path <= last'.path
  BY Zenon DEF IInv, TypeOK, LastEvolves, Counters
<1>2. \A x \in paths :
        /\ x \in PathEntry /\ x.gen \in Nat /\ x.gen <= last.path /\ x.emitted \in Nat
        /\ x.last_seen <= x.expires /\ x.interface \in online
  BY DEF IInv, TypeOK, GenerationsIssued, RoutesNameLiveInterfaces, PathEntry
<1>3. \A x, y \in paths : x.dest = y.dest \/ x.gen = y.gen => x = y
  BY Zenon DEF IInv, RoutesUnique
<1>4. /\ path \in PathEntry /\ path.last_seen <= path.expires
      /\ path.interface = p.interface /\ path.emitted = p.emitted
  BY LearnedPath
<1>5. \A q \in paths' : q = path \/ (q \in paths /\ q.dest # p.dest)
  BY LearnedPath
<1>6. \/ path.gen = last.path + 1
      \/ \E old \in paths : time < old.expires /\ same_route(old, path) /\ path.gen = old.gen
  BY LearnedPath
<1>7. \A old \in paths : old.dest = p.dest /\ time < old.expires => p.emitted > old.emitted
  BY LearnedPath
<1>8. \A x \in paths :
        time < x.expires /\ ~x.bulk /\ ~(\E y \in paths' : y.dest = x.dest) =>
          ~path.bulk /\ \A y \in paths : time < y.expires => ~y.bulk
  BY LearnedPath
<1>9. path.gen \in Nat /\ path.gen <= last'.path /\ p.emitted \in Nat
  BY <1>1, <1>4 DEF PathEntry
<1>10. \A q \in paths' : /\ q \in PathEntry /\ q.last_seen <= q.expires /\ q.interface \in online
                         /\ q.gen <= last'.path
  BY <1>1, <1>2, <1>4, <1>5, <1>9
<1>11. RoutesUnique'
  <2> SUFFICES ASSUME NEW q \in paths, q.dest # p.dest
               PROVE  q.gen # path.gen
    BY Zenon, <1>3, <1>5 DEF RoutesUnique
  <2>. QED
    BY <1>1, <1>2, <1>3, <1>6 DEF same_route
<1>12. ASSUME NEW q \in paths'
       PROVE  q.gen > last.path \/ \E x \in paths : Continues(x, q)
  <2>1. CASE q \in paths
    BY <2>1, <1>2 DEF Continues, same_route
  <2>2. CASE q = path /\ path.gen = last.path + 1
    BY <2>2, <1>1
  <2>3. CASE q = path /\ path.gen # last.path + 1
    <3>1. PICK old \in paths : time < old.expires /\ same_route(old, path) /\ path.gen = old.gen
      BY Zenon, <2>3, <1>6
    <3>2. old.emitted <= path.emitted
      BY <1>2, <1>4, <1>7, <1>9, <3>1 DEF same_route
    <3>. QED
      BY Zenon, <2>3, <3>1, <3>2 DEF Continues
  <2>. QED
    BY Zenon, <1>5, <2>1, <2>2, <2>3
<1>13. RollsNoPathBack
  BY Zenon, <1>3, <1>4, <1>5, <1>7 DEF RollsNoPathBack, same_route
<1>14. DisplacesBulkFirst
  <2>1. \A q \in paths' : q.gen > last.path => q = path
    BY <1>1, <1>2, <1>5
  <2>. QED
    BY Zenon, <1>8, <2>1 DEF DisplacesBulkFirst
<1>. QED
  BY Zenon, <1>9, <1>10, <1>11, <1>12, <1>13, <1>14 DEF PathsEvolve, SameRegistry

\* What the rebroadcast schedule holds once an announce has been learned.
LEMMA ScheduleLearned ==
    ASSUME IInv, SameRegistry, NEW p \in PacketsOf("announce"), p.interface \in online,
           NEW path \in paths', path.dest = p.dest, path.emitted = p.emitted,
           path.hops = Hops(p), path.response = p.response,
           \A q \in paths' : q = path \/ (q \in paths /\ q.dest # p.dest),
           NEW j \in Nat, NEW new,
           new = [dest |-> p.dest, emitted |-> p.emitted, size |-> p.size,
                  interface |-> p.interface, due |-> time + j, pending_only |-> FALSE,
                  expires |-> time + Param.announce, hops |-> Hops(p), retries |-> 0,
                  local_rebroadcasts |-> 0, pending |-> {}],
           \/ /\ TransportEnabled /\ p.size <= NodeMtu /\ ~p.response
              /\ announce_schedule' \in schedule_insert(HeardRebroadcast(p), new, time, Cap.schedule)
           \/ /\ ~(TransportEnabled /\ p.size <= NodeMtu /\ ~p.response)
              /\ announce_schedule' = HeardRebroadcast(p)
    PROVE  /\ announce_schedule' \subseteq ScheduledAnnounce
           /\ \A e \in announce_schedule' : e.interface \in online'
           /\ ScheduleMatchesPath' /\ PendingTargetsAreAllowed'
<1> DEFINE scheduling == TransportEnabled /\ p.size <= NodeMtu /\ ~p.response
<1>1. /\ p \in Packets /\ p.kind = "announce" /\ p.interface \in Ids /\ p.dest \in Dests
      /\ p.emitted \in Nat /\ p.size \in Nat /\ Hops(p) \in Nat
  BY Zenon, PacketsAssumption, HopsType DEF PacketsOf
<1>2. /\ new \in ScheduledAnnounce /\ new.interface = p.interface /\ new.pending = {}
      /\ new.dest = p.dest /\ new.emitted = p.emitted /\ new.size = p.size /\ new.hops = Hops(p)
  <2>1. time + j \in Nat /\ time + Param.announce \in Nat
    BY ParamAssumption, NumbersOK
  <2>. QED
    BY Zenon, <1>1, <2>1 DEF ScheduledAnnounce
<1>3. \A e \in announce_schedule' :
        \/ e = new /\ scheduling
        \/ e \in HeardRebroadcast(p) /\ (scheduling => e.dest # p.dest)
  <2>1. ASSUME scheduling
        PROVE  announce_schedule' \in schedule_insert(HeardRebroadcast(p), new, time, Cap.schedule)
    BY ZenonT(30), <2>1
  <2>2. ASSUME ~scheduling
        PROVE  announce_schedule' = HeardRebroadcast(p)
    BY Zenon, <2>2
  <2>3. ASSUME scheduling
        PROVE  \A e \in announce_schedule' :
                 e = new \/ (e \in HeardRebroadcast(p) /\ e.dest # new.dest)
    <3>1. announce_schedule' \in schedule_insert(HeardRebroadcast(p), new, time, Cap.schedule)
      BY <2>1, <2>3
    <3>. QED
      BY <3>1, ScheduleInsertAdds
  <2> HIDE DEF scheduling
  <2>. QED
    BY <1>2, <2>2, <2>3
<1>4. \A e \in announce_schedule' : e \in ScheduledAnnounce /\ e.interface \in online'
  BY ZenonT(30), <1>2, <1>3, HeardQuiet DEF SameRegistry
<1>5. PendingTargetsAreAllowed'
  BY ZenonT(30), <1>2, <1>3, HeardAllowed DEF PendingTargetsAreAllowed
<1>6. ASSUME NEW e \in announce_schedule'
      PROVE  /\ TransportEnabled /\ e.size <= NodeMtu
             /\ \E x \in PacketsOf("announce") :
                  ~x.response /\ x.dest = e.dest /\ x.emitted = e.emitted /\ x.size = e.size
             /\ \A q \in paths' :
                  q.dest = e.dest /\ q.emitted = e.emitted /\ ~q.response => q.hops = e.hops
  <2>1. CASE e = new /\ scheduling
    BY ZenonT(30), <1>2, <2>1
  <2>2. CASE e \in HeardRebroadcast(p) /\ (scheduling => e.dest # p.dest)
    <3>1. PICK x \in announce_schedule : SameAnnounce(x, e)
      BY ZenonT(30), <2>2, HeardQuiet
    <3>2. x.dest = e.dest /\ x.emitted = e.emitted /\ x.size = e.size /\ x.hops = e.hops
      BY ZenonT(30), <3>1 DEF SameAnnounce
    <3>3. /\ TransportEnabled /\ x.size <= NodeMtu
          /\ \A q \in paths :
               q.dest = x.dest /\ q.emitted = x.emitted /\ ~q.response => q.hops = x.hops
      BY Zenon DEF IInv, ScheduleMatchesPath
    <3>4. PICK y \in PacketsOf("announce") :
            ~y.response /\ y.dest = x.dest /\ y.emitted = x.emitted /\ y.size = x.size
      BY ZenonT(30) DEF IInv, ScheduleMatchesPath
    <3>5. ASSUME path.dest = e.dest, path.emitted = e.emitted, ~path.response
          PROVE  FALSE
      <4>1. p.response = y.response
        BY ZenonT(30), <3>4, <3>5, PacketsAssumption
      <4>2. p.dest = y.dest /\ p.emitted = y.emitted
        BY ZenonT(30), <3>2, <3>4, <3>5
      <4>3. p.size = y.size
        BY ZenonT(30), <3>4, <4>1, <4>2, CopiesAssumption
      <4>. QED
        BY Zenon, <2>2, <3>2, <3>3, <3>4, <3>5, <4>3
    <3>. QED
      BY ZenonT(30), <3>2, <3>3, <3>4, <3>5
  <2>. QED
    BY ZenonT(30), <1>3, <2>1, <2>2
<1>. QED
  BY Zenon, <1>4, <1>5, <1>6 DEF ScheduleMatchesPath

\* A step that answers a discovery from the announce it has just learned.
LEMMA LearnedStep ==
    ASSUME IInv, Received, NEW p \in PacketsOf("announce"), p.interface \in online,
           NEW T \in insert_or_update(paths, PathFrom(p), time, last.path, Limit.path, Cap.paths),
           NEW path \in T, path.dest = p.dest, AnnounceLearned(p, T, path),
           UNCHANGED <<reverse, links>>
    PROVE  Evolve
<1> DEFINE answers == IF p.size <= NodeMtu
                      THEN Admitted(LiveOutbound, AnswerSlots(p), "PathResponse", p.size) ELSE {}
           body == [s \in Slots |-> [packet |-> AnnouncePacket(p.dest, Hops(p), p.emitted),
                                     lifetime |-> PathToken(path)]]
           cached == [dest |-> p.dest, emitted |-> p.emitted, hops |-> Hops(p), size |-> p.size,
                      expires |-> path.expires, bulk |-> path.bulk]
           scheduled(j) ==
             [dest |-> p.dest, emitted |-> p.emitted, size |-> p.size, interface |-> p.interface,
              due |-> time + j, pending_only |-> FALSE, expires |-> time + Param.announce,
              hops |-> Hops(p), retries |-> 0, local_rebroadcasts |-> 0, pending |-> {}]
<1>1. /\ paths' = T
      /\ announce_cache' \in cache_insert(retain_paths(announce_cache, T, time), cached, time,
                                          Cap.announces)
      /\ discoveries' = {d \in LiveDiscoveries : d.dest # p.dest}
      /\ outbound' = Enqueue(LiveOutbound, answers, "PathResponse", body)
      /\ \/ /\ TransportEnabled /\ p.size <= NodeMtu /\ ~p.response
            /\ \E j \in 0 .. Param.jitter :
                 announce_schedule' \in schedule_insert(HeardRebroadcast(p), scheduled(j), time,
                                                        Cap.schedule)
         \/ /\ ~(TransportEnabled /\ p.size <= NodeMtu /\ ~p.response)
            /\ announce_schedule' = HeardRebroadcast(p)
      /\ last' = [last EXCEPT !.path = IF path.gen > @ THEN path.gen ELSE @,
                              !.delivery = @ + Cardinality(answers)]
      /\ answered' = answered
  BY Zenon DEF AnnounceLearned
<1>2. answers \subseteq {s \in Slots : registry[s] \in online}
  <2>1. AnswerSlots(p) \subseteq Slots
    BY ExpireShrinks DEF AnswerSlots, IInv, TypeOK, DiscoveryEntry
  <2>. QED
    BY Zenon, <2>1, AdmittedSlots
<1> HIDE DEF answers
<1>3. /\ p \in Packets /\ p.kind = "announce" /\ p.interface \in Ids /\ p.dest \in Dests
      /\ p.emitted \in Nat /\ p.size \in Nat /\ Hops(p) \in Nat
  BY Zenon, PacketsAssumption, HopsType DEF PacketsOf
<1>4. /\ path \in PathEntry /\ path.emitted = p.emitted /\ path.hops = Hops(p)
      /\ path.response = p.response
      /\ \A q \in T : q = path \/ (q \in paths /\ q.dest # p.dest)
  BY LearnedPath
<1>5. LastEvolves /\ last'.path = IF path.gen > last.path THEN path.gen ELSE last.path
  <2>1. last \in Counters /\ Cardinality(answers) \in Nat /\ path.gen \in Nat
    BY Zenon, <1>2, <1>4, CardinalityOfSlots DEF IInv, TypeOK, Counters, PathEntry
  <2> DEFINE g == IF path.gen > last.path THEN path.gen ELSE last.path
             n == last.delivery + Cardinality(answers)
  <2>2. last' = [last EXCEPT !.path = g, !.delivery = n]
    BY <1>1
  <2>3. g \in Nat /\ last.path <= g /\ n \in Nat
    BY <2>1 DEF Counters
  <2> HIDE DEF g, n
  <2>4. /\ last' \in Counters /\ last'.interface = last.interface /\ last'.reverse = last.reverse
        /\ last'.link = last.link /\ last'.discovery = last.discovery /\ last'.path = g
    BY Zenon, <2>1, <2>2, <2>3 DEF Counters
  <2>. QED
    BY <2>1, <2>3, <2>4 DEF LastEvolves, Counters, g
<1>6. ClockEvolves /\ InterfacesEvolve /\ SameRegistry
  BY <1>5, ReceivedQuiet
<1>7. PathsEvolve /\ path.gen <= last'.path
  BY <1>1, <1>5, <1>6, PathsLearned
<1>8. ReverseEvolves /\ LinksEvolve /\ DiscoveriesEvolve
  <2>1. discoveries' \subseteq discoveries
    BY <1>1, ExpireShrinks
  <2>. QED
    BY <1>1, <1>5, <1>6, <2>1, QuietTables
<1>9. FramesEvolve
  <2>1. LifetimeIssued(PathToken(path))
    BY Zenon, <1>4, <1>5, <1>7, PathTokenIssued DEF Received
  <2>2. \A s \in answers : LifetimeIssued(body[s].lifetime)
    BY Zenon, <1>2, <2>1
  <2>3. ASSUME NEW f, Carries(f, answers, body)
        PROVE  NamesItsOwner(f)'
    <3>1. /\ f.packet = AnnouncePacket(p.dest, Hops(p), p.emitted) /\ f.lifetime = PathToken(path)
      BY ZenonT(30), <1>2, <2>3 DEF Carries
    <3>2. /\ f.lifetime.path = path.gen /\ f.lifetime.state = "Independent"
          /\ f.packet.kind = "announce" /\ f.packet.dest = path.dest
          /\ f.packet.hops = path.hops /\ f.packet.id = path.emitted
      BY <1>4, <3>1 DEF PathToken, Lifetime, AnnouncePacket
    <3>3. f.packet.id \in 0 .. path.emitted /\ path \in paths'
      BY <1>1, <1>4, <3>2 DEF PathEntry
    <3>. QED
      BY ZenonT(30), <1>7, <3>2, <3>3, NamesPath
  <2> HIDE DEF body
  <2>. QED
    BY <1>1, <1>2, <1>5, <2>2, <2>3, QueuedQuiet DEF gated
<1>10. announce_cache' \subseteq CachedAnnounce /\ CacheMatchesPath'
  <2>1. /\ cached \in CachedAnnounce /\ cached.dest = p.dest /\ cached.emitted = p.emitted
        /\ cached.hops = Hops(p)
    BY Zenon, <1>3, <1>4 DEF CachedAnnounce, PathEntry
  <2> HIDE DEF cached
  <2>2. \A c \in announce_cache' : c = cached \/ (c \in announce_cache /\ c.dest # p.dest)
    BY <1>1, <2>1, CacheInsertAdds DEF retain_paths
  <2>3. CacheMatchesPath'
    BY <1>1, <1>4, <2>1, <2>2 DEF IInv, CacheMatchesPath
  <2>. QED
    BY ZenonT(30), <2>1, <2>2, <2>3 DEF IInv, TypeOK
<1>11. /\ announce_schedule' \subseteq ScheduledAnnounce
       /\ \A e \in announce_schedule' : e.interface \in online'
       /\ ScheduleMatchesPath' /\ PendingTargetsAreAllowed'
  <2>1. PICK j \in Nat :
          \/ /\ TransportEnabled /\ p.size <= NodeMtu /\ ~p.response
             /\ announce_schedule' \in schedule_insert(HeardRebroadcast(p), scheduled(j), time,
                                                       Cap.schedule)
          \/ /\ ~(TransportEnabled /\ p.size <= NodeMtu /\ ~p.response)
             /\ announce_schedule' = HeardRebroadcast(p)
    <3>1. 0 .. Param.jitter \subseteq Nat /\ 0 \in Nat
      OBVIOUS
    <3> HIDE DEF scheduled
    <3>. QED
      BY ZenonT(30), <1>1, <3>1
  <2> DEFINE new == scheduled(j)
  <2>2. new = scheduled(j)
    BY Zenon
  <2> HIDE DEF new
  <2>. QED
    BY Zenon, <1>1, <1>4, <1>6, <2>1, <2>2, ScheduleLearned
<1>. QED
  BY Zenon, <1>5, <1>6, <1>7, <1>8, <1>9, <1>10, <1>11 DEF Evolve, AnnouncesEvolve

\* `handle_announce` is an evolution.
LEMMA AnnounceStep ==
    ASSUME IInv, NEW p \in Packets, IngestAnnounce(p)
    PROVE  Evolve
<1>1. /\ Received /\ p \in PacketsOf("announce") /\ p.interface \in online
      /\ UNCHANGED <<reverse, links>>
  BY Zenon DEF IngestAnnounce, Arrives, Received, PacketsOf, router_ingress
<1>2. CASE AnnounceRefused(p)
  <2>1. Idle /\ UNCHANGED <<paths, announce_cache, announce_schedule>>
    BY <1>2 DEF AnnounceRefused, announceVars
  <2>. QED
    BY Zenon, <1>1, <2>1, IdleQuiet, QuietTables DEF Evolve
<1>3. CASE AnnounceIgnored(p)
  <2>1. /\ Idle /\ announce_cache' = announce_cache
        /\ announce_schedule' = HeardRebroadcast(p) /\ paths' \subseteq paths
    BY <1>3, ExpireShrinks DEF AnnounceIgnored
  <2>2. LastEvolves /\ SameRegistry
    BY Zenon, <1>1, <2>1, IdleQuiet
  <2>3. AnnouncesEvolve
    <3>1. \A q \in paths' : \E x \in paths : SameLesson(x, q)
      BY Zenon, <2>1, <2>2, QuietTables
    <3>2. \A e \in announce_schedule' :
            /\ e \in ScheduledAnnounce /\ e.interface \in online'
            /\ \E x \in announce_schedule : SameAnnounce(x, e)
      BY Zenon, <2>1, <2>2, HeardQuiet DEF SameRegistry
    <3>3. PendingTargetsAreAllowed'
      BY <2>1, <2>2, HeardAllowed DEF PendingTargetsAreAllowed
    <3>. QED
      BY Zenon, <2>1, <3>1, <3>2, <3>3, AnnouncesKept
  <2>. QED
    BY Zenon, <1>1, <2>1, <2>3, IdleQuiet, QuietTables DEF Evolve
<1>4. CASE \E T \in insert_or_update(paths, PathFrom(p), time, last.path, Limit.path, Cap.paths) :
             \E path \in T : path.dest = p.dest /\ AnnounceLearned(p, T, path)
  BY Zenon, <1>1, <1>4, LearnedStep
<1>. QED
  BY <1>2, <1>3, <1>4, ZenonT(30) DEF IngestAnnounce, handle_announce

-----------------------------------------------------------------------------
(* Path requests                                                           *)

\* A path request that is passed on has its tokens issued.
LEMMA RequestSent ==
    ASSUME IInv, Received, NEW d, NEW T, T \subseteq Slots, NEW e \in Nat,
           NEW st \in {"Independent", "Discovery"}, NEW o \in Nat,
           st = "Discovery" => o = last.discovery + 1,
           SendPathRequest(d, T, Lifetime(time, e, 0, st, o)), paths' = paths,
           st = "Discovery" => \A x \in discoveries' : x.gen = o => x.dest = d
    PROVE  /\ LastEvolves /\ ClockEvolves /\ InterfacesEvolve /\ FramesEvolve /\ SameRegistry
           /\ st = "Discovery" => last'.discovery = o
<1> DEFINE l == Lifetime(time, e, 0, st, o)
           A == Admitted(LiveOutbound, T, "PathRequestForward", 1)
           body == [s \in Slots |-> [packet |-> PathRequestPacket(d), lifetime |-> l]]
           g == IF st = "Discovery" THEN o ELSE last.discovery
           n == last.delivery + Cardinality(A)
<1>1. A \subseteq {s \in Slots : registry[s] \in online}
  BY AdmittedSlots
<1>2. outbound' = Enqueue(LiveOutbound, A, "PathRequestForward", body)
  BY Zenon DEF SendPathRequest
<1>3. last' = [last EXCEPT !.delivery = n, !.discovery = g]
  BY DEF SendPathRequest, Lifetime
<1>4. last \in Counters /\ g \in Nat /\ last.discovery <= g /\ n \in Nat
  <2>1. Cardinality(A) \in Nat /\ last \in Counters
    BY Zenon, <1>1, CardinalityOfSlots DEF IInv, TypeOK, Counters
  <2> HIDE DEF A
  <2>. QED
    BY <2>1 DEF Counters
<1> HIDE DEF A, g, n
<1>5. /\ last' \in Counters /\ last'.interface = last.interface /\ last'.path = last.path
      /\ last'.reverse = last.reverse /\ last'.link = last.link /\ last'.discovery = g
  BY Zenon, <1>3, <1>4 DEF Counters
<1>6. LastEvolves
  BY <1>4, <1>5 DEF LastEvolves, Counters
<1>7. LifetimeIssued(l)
  <2>1. time \in Nat /\ time' = time /\ 0 <= last'.path /\ 0 \in Nat
    BY <1>5 DEF IInv, TypeOK, Received, Counters
  <2>2. st = "Discovery" => o <= last'.discovery
    BY <1>4, <1>5 DEF g
  <2>. QED
    BY <1>6, <2>1, <2>2, LifetimeIsIssued
<1>8. \A s \in A : LifetimeIssued(body[s].lifetime)
  BY Zenon, <1>1, <1>7
<1>9. PathsEvolve
  BY Zenon, <1>6, ReceivedQuiet, QuietTables
<1>10. ASSUME NEW f, Carries(f, A, body)
       PROVE  NamesItsOwner(f)'
  <2>1. f.lifetime = l /\ f.packet = PathRequestPacket(d)
    BY ZenonT(30), <1>1, <1>10 DEF Carries
  <2>2. /\ f.lifetime.path = 0 /\ f.lifetime.state = st /\ f.lifetime.owner = o
        /\ f.packet.dest = d
    BY <2>1 DEF Lifetime, PathRequestPacket
  <2>3. \A q \in paths' : q.gen # 0
    BY <1>9 DEF PathsEvolve, PathEntry
  <2>. QED
    BY <2>2, <2>3 DEF NamesItsOwner
<1> HIDE DEF body, l
<1>. QED
  BY Zenon, <1>1, <1>2, <1>5, <1>6, <1>8, <1>10, QueuedQuiet DEF g, gated

\* Joining a discovery under way keeps its identity and its deadline.
LEMMA JoinedDiscovery ==
    ASSUME IInv, LastEvolves, SameRegistry, last' = last, NEW p,
           NEW s \in Slots, registry[s] \in online,
           discoveries' = {IF d.dest = p.dest
                           THEN [d EXCEPT !.requesters = @ \cup {s}, !.asked[s] = generations[s]]
                           ELSE d : d \in LiveDiscoveries}
    PROVE  DiscoveriesEvolve
<1>1. \A d \in LiveDiscoveries :
        /\ d \in discoveries /\ d \in DiscoveryEntry /\ d.requesters # {}
        /\ d.gen \in Nat /\ d.gen <= last.discovery
        /\ \A r \in d.requesters : registry[r] \in online /\ d.asked[r] = generations[r]
  BY Zenon DEF LiveDiscoveries, discoveries_expire, IInv, TypeOK, GenerationsIssued, DiscoveryEntry,
               RequestersAreCurrent
<1>2. generations[s] \in Nat
  BY Zenon DEF IInv, TypeOK
<1> DEFINE joined(d) == [d EXCEPT !.requesters = @ \cup {s}, !.asked[s] = generations[s]]
<1>3. \A d \in DiscoveryEntry : /\ joined(d) \in DiscoveryEntry /\ joined(d).gen = d.gen
                                /\ joined(d).expires = d.expires /\ joined(d).dest = d.dest
                                /\ joined(d).requesters = d.requesters \cup {s}
                                /\ joined(d).asked = [d.asked EXCEPT ![s] = generations[s]]
  BY Zenon, <1>2 DEF DiscoveryEntry
<1>4. \A x \in discoveries' : \E d \in LiveDiscoveries : x = d \/ x = joined(d)
  BY ZenonT(30)
<1> HIDE DEF joined
<1>5. ASSUME NEW x \in discoveries'
      PROVE  /\ x \in DiscoveryEntry /\ x.gen <= last'.discovery
             /\ \E c \in discoveries : SameDiscovery(c, x)
             /\ \A r \in x.requesters : registry[r] \in online /\ x.asked[r] = generations[r]
  <2>1. PICK d \in LiveDiscoveries : x = d \/ x = joined(d)
    BY Zenon, <1>4
  <2>2. x \in DiscoveryEntry /\ x.gen <= last'.discovery /\ SameDiscovery(d, x)
    BY ZenonT(30), <1>1, <1>3, <2>1 DEF SameDiscovery
  <2>3. CASE x = joined(d)
    <3>1. d.asked \in [Slots -> Nat] /\ d.requesters \subseteq Slots
      BY ZenonT(30), <1>1 DEF DiscoveryEntry
    <3>2. /\ x.requesters = d.requesters \cup {s}
          /\ x.asked = [d.asked EXCEPT ![s] = generations[s]]
      BY ZenonT(30), <1>1, <1>3, <2>3
    <3>3. \A r \in x.requesters : registry[r] \in online /\ x.asked[r] = generations[r]
      BY ZenonT(30), <1>1, <3>1, <3>2
    <3>. QED
      BY ZenonT(30), <1>1, <2>2, <3>3
  <2>. QED
    BY Zenon, <1>1, <2>1, <2>2, <2>3
<1>. QED
  BY Zenon, <1>5 DEF DiscoveriesEvolve, RequestersAreCurrent, SameRegistry

\* A discovery that begins has the next identity.
LEMMA BegunDiscovery ==
    ASSUME IInv, LastEvolves, SameRegistry, last'.discovery = last.discovery + 1,
           NEW dst \in Dests, NEW s \in Slots, registry[s] \in online,
           discoveries' = LiveDiscoveries \cup
             {[dest |-> dst, expires |-> time + Param.discovery, gen |-> last.discovery + 1,
               requesters |-> {s}, asked |-> [r \in Slots |-> IF r = s THEN generations[s] ELSE 0]]}
    PROVE  DiscoveriesEvolve
<1> DEFINE asked == [r \in Slots |-> IF r = s THEN generations[s] ELSE 0]
           new == [dest |-> dst, expires |-> time + Param.discovery, gen |-> last.discovery + 1,
                   requesters |-> {s}, asked |-> asked]
<1>1. last.discovery \in Nat /\ asked \in [Slots -> Nat] /\ time + Param.discovery \in Nat
  BY ParamAssumption DEF IInv, TypeOK
<1> HIDE DEF asked
<1>2. /\ new \in DiscoveryEntry /\ new.gen = last.discovery + 1
      /\ new.requesters = {s} /\ new.asked = asked
  BY <1>1 DEF DiscoveryEntry
<1>3. discoveries' = LiveDiscoveries \cup {new}
  BY DEF asked
<1> HIDE DEF new
<1>4. \A d \in LiveDiscoveries :
        /\ d \in discoveries /\ d \in DiscoveryEntry /\ d.gen \in Nat /\ d.gen <= last.discovery
        /\ SameDiscovery(d, d)
        /\ \A r \in d.requesters : registry[r] \in online /\ d.asked[r] = generations[r]
  BY ZenonT(30), ExpireShrinks DEF IInv, TypeOK, GenerationsIssued, DiscoveryEntry, SameDiscovery,
                       RequestersAreCurrent
<1>5. RequestersAreCurrent'
  <2>1. asked[s] = generations[s]
    BY Zenon DEF asked
  <2>. QED
    BY ZenonT(30), <1>2, <1>3, <1>4, <2>1 DEF RequestersAreCurrent, SameRegistry
<1>. QED
  BY <1>1, <1>2, <1>3, <1>4, <1>5 DEF DiscoveriesEvolve

\* An answer from the cache is tied to the path it advertises.
LEMMA AnsweredFromCache ==
    ASSUME IInv, Received, NEW p, NEW q \in paths, NEW c \in announce_cache,
           q.dest = p.dest, c.dest = p.dest, AnswerFromCache(p, q, c), paths' = paths
    PROVE  /\ LastEvolves /\ ClockEvolves /\ InterfacesEvolve /\ FramesEvolve /\ SameRegistry
           /\ DiscoveriesEvolve
<1> DEFINE A == IF c.size <= NodeMtu
                THEN Admitted(LiveOutbound, slot(p.interface), "PathResponse", c.size) ELSE {}
           body == [s \in Slots |-> [packet |-> AnnouncePacket(p.dest, c.hops, c.emitted),
                                     lifetime |-> PathToken(q)]]
<1>1. A \subseteq {s \in Slots : registry[s] \in online}
  BY Zenon, AdmittedSlots, SlotsOf
<1>2. /\ outbound' = Enqueue(LiveOutbound, A, "PathResponse", body)
      /\ last' = [last EXCEPT !.delivery = @ + Cardinality(A)]
      /\ discoveries' = LiveDiscoveries
  BY Zenon DEF AnswerFromCache
<1> HIDE DEF A
<1>3. LastEvolves /\ last'.path = last.path
  BY Zenon, <1>1, <1>2, LastDelivers
<1>4. LifetimeIssued(PathToken(q))
  BY ZenonT(30), <1>3, PathTokenIssued DEF IInv, TypeOK, GenerationsIssued, Received
<1>5. \A s \in A : LifetimeIssued(body[s].lifetime)
  BY ZenonT(30), <1>1, <1>4
<1>6. SameRegistry
  BY Zenon, <1>3, ReceivedQuiet
<1>7. DiscoveriesEvolve /\ PathsEvolve
  BY Zenon, <1>2, <1>3, <1>6, ExpireShrinks, QuietTables
<1>8. c.hops = q.hops /\ c.emitted = q.emitted /\ q.emitted \in Nat
  BY ZenonT(30) DEF IInv, TypeOK, CacheMatchesPath, PathEntry
<1>9. ASSUME NEW f, Carries(f, A, body)
      PROVE  NamesItsOwner(f)'
  <2>1. f.packet = AnnouncePacket(p.dest, c.hops, c.emitted) /\ f.lifetime = PathToken(q)
    BY Zenon, <1>1, <1>9 DEF Carries
  <2>2. /\ f.lifetime.path = q.gen /\ f.lifetime.state = "Independent"
        /\ f.packet.kind = "announce" /\ f.packet.dest = q.dest
        /\ f.packet.hops = q.hops /\ f.packet.id = q.emitted
    BY <1>8, <2>1 DEF PathToken, Lifetime, AnnouncePacket
  <2>3. f.packet.id \in 0 .. q.emitted
    BY <1>8, <2>2
  <2>. QED
    BY ZenonT(30), <1>7, <2>2, <2>3, NamesPath
<1> HIDE DEF body
<1>. QED
  BY Zenon, <1>1, <1>2, <1>3, <1>5, <1>7, <1>9, QueuedQuiet DEF gated

\* `handle_path_request` is an evolution.
LEMMA PathRequestStep ==
    ASSUME IInv, NEW p \in Packets, IngestPathRequest(p)
    PROVE  Evolve
<1>1. /\ Received /\ p.dest \in Dests /\ p.kind = "path_request" /\ p.interface \in online
      /\ UNCHANGED <<paths, announce_cache, announce_schedule, reverse, links, answered>>
  BY Zenon, PacketsAssumption DEF IngestPathRequest, Arrives, Received, PacketsOf, announceVars,
                           router_ingress
<1>2. SUFFICES /\ LastEvolves /\ ClockEvolves /\ InterfacesEvolve /\ FramesEvolve
               /\ SameRegistry /\ DiscoveriesEvolve
  BY Zenon, <1>1, QuietTables DEF Evolve
<1>3. CASE Idle
  BY Zenon, <1>1, <1>3, IdleQuiet
<1>4. CASE \E q \in get_live(paths, p.dest, time), c \in announce_cache :
             c.dest = p.dest /\ AnswerFromCache(p, q, c)
  BY Zenon, <1>1, <1>4, AnsweredFromCache DEF get_live
<1>5. CASE \E b \in BOOLEAN : RelayPathRequest(p, b)
  <2>1. PICK b \in BOOLEAN : RelayPathRequest(p, b)
    BY Zenon, <1>5
  <2>2. time + Least(Param.outbound, Param.request) \in Nat
    BY ParamAssumption DEF Least, IInv, TypeOK
  <2>3. /\ LastEvolves /\ ClockEvolves /\ InterfacesEvolve /\ FramesEvolve /\ SameRegistry
    BY Zenon, <1>1, <2>1, <2>2, SlotsOf, RequestSent DEF RelayPathRequest
  <2>. QED
    BY Zenon, <2>1, <2>3, ExpireShrinks, QuietTables DEF RelayPathRequest
<1>6. CASE \E s \in slot(p.interface) : JoinDiscovery(p, s)
  <2>1. PICK s \in Slots : JoinDiscovery(p, s) /\ registry[s] \in online
    BY Zenon, <1>1, <1>6 DEF slot
  <2>2. LastEvolves /\ last' = last /\ SameRegistry
    BY Zenon, <1>1, <2>1, LastQuiet, ReceivedQuiet DEF JoinDiscovery
  <2>3. DiscoveriesEvolve
    BY Zenon, <2>1, <2>2, JoinedDiscovery DEF JoinDiscovery
  <2>4. FramesEvolve
    BY Zenon, <1>1, <2>1, ExpireShrinks, FramesShrink DEF JoinDiscovery, Received, Frames
  <2>. QED
    BY Zenon, <1>1, <2>2, <2>3, <2>4, ReceivedQuiet
<1>7. CASE \E s \in slot(p.interface) : BeginDiscovery(p, s)
  <2>1. PICK s \in Slots : BeginDiscovery(p, s) /\ registry[s] \in online
    BY <1>1, <1>7 DEF slot
  <2>2. time + Least(Param.request, Param.discovery) \in Nat /\ last.discovery + 1 \in Nat
    BY ParamAssumption DEF Least, IInv, TypeOK
  <2>3. /\ LastEvolves /\ ClockEvolves /\ InterfacesEvolve /\ FramesEvolve /\ SameRegistry
        /\ last'.discovery = last.discovery + 1
    <3> DEFINE e == time + Least(Param.request, Param.discovery)
               T == BroadcastSlots(p.interface, FALSE)
    <3>1. SendPathRequest(p.dest, T, Lifetime(time, e, 0, "Discovery", last.discovery + 1))
      BY Zenon, <2>1 DEF BeginDiscovery
    <3>2. T \subseteq Slots
      BY Zenon DEF BroadcastSlots, Forwardable
    <3>3. \A x \in discoveries' : x.gen = last.discovery + 1 => x.dest = p.dest
      BY Zenon, <2>1, FreshDiscovery
    <3> HIDE DEF e, T
    <3>. QED
      BY <1>1, <2>2, <3>1, <3>2, <3>3, RequestSent DEF e
  <2>4. DiscoveriesEvolve
    BY Zenon, <1>1, <2>1, <2>3, BegunDiscovery DEF BeginDiscovery
  <2>. QED
    BY Zenon, <2>3, <2>4
<1>8. CASE handle_path_request(p)
  BY <1>3, <1>4, <1>5, <1>6, <1>7, <1>8, Zenon DEF handle_path_request, Discover
<1>. QED
  BY <1>3, <1>8, ZenonT(30) DEF IngestPathRequest

-----------------------------------------------------------------------------
(* The timer                                                               *)

\* What the timer keeps true of each scheduled announce: it is one of those the
\* tick began with, owed only to slots it may be sent to.
Owed(e) ==
    /\ e \in ScheduledAnnounce /\ e.interface \in online
    /\ \E x \in announce_schedule : SameAnnounce(x, e)
    /\ \A s \in e.pending : registry[s] # NoId /\ announce_egress_allowed(e.interface, registry[s])

\* The invariant says so of every scheduled announce.
LEMMA ScheduledOwed ==
    ASSUME IInv, NEW e \in announce_schedule
    PROVE  Owed(e)
  BY Zenon DEF IInv, TypeOK, RoutesNameLiveInterfaces, PendingTargetsAreAllowed, Owed, SameAnnounce

\* The `pop_due` loop owes an announce only to its `announce_targets`.
LEMMA RescheduledTypes ==
    ASSUME IInv, NEW P, NEW jitter \in [{e.dest : e \in announce_schedule} -> 0 .. Param.jitter],
           NEW x \in AfterDue(expire(announce_schedule, time), P, jitter)
    PROVE  Owed(x)
<1>1. \A e \in announce_schedule : e \in ScheduledAnnounce /\ e.interface \in online
  BY Zenon DEF IInv, TypeOK, RoutesNameLiveInterfaces
<1>2. expire(announce_schedule, time) \subseteq announce_schedule
  BY Zenon, ExpireShrinks
<1>3. \/ x \in announce_schedule
      \/ \E e \in announce_schedule : x \in Reschedule(e, jitter[e.dest])
  BY <1>2 DEF AfterDue
<1>4. ASSUME NEW e \in announce_schedule, x \in Reschedule(e, jitter[e.dest])
      PROVE  Owed(x)
  <2> DEFINE pend == e.pending \cup announce_targets(e.interface)
             exps == IF e.pending \cap announce_targets(e.interface) = {}
                     THEN time + Param.announce ELSE e.expires
             ret == e.retries + 1
             owed == [e EXCEPT !.pending = pend, !.expires = exps, !.retries = ret]
             due == time + Param.pathfinder_g + jitter[e.dest]
             Kept(y) == /\ y \in ScheduledAnnounce /\ y.interface = e.interface
                        /\ SameAnnounce(e, y) /\ y.pending = pend
  <2>1. x \in {[owed EXCEPT !.due = due], [owed EXCEPT !.due = 0, !.pending_only = TRUE]}
    BY Zenon, <1>4 DEF Reschedule
  <2>2. pend \subseteq Slots /\ exps \in Nat /\ ret \in Nat
    BY <1>1, ParamAssumption, NumbersOK DEF announce_targets, ScheduledAnnounce
  <2>3. due \in Nat
    BY ParamAssumption, NumbersOK
  <2>4. \A s \in pend : registry[s] # NoId /\ announce_egress_allowed(e.interface, registry[s])
    BY Zenon DEF IInv, PendingTargetsAreAllowed, announce_targets
  <2> HIDE DEF pend, exps, ret, due
  <2>5. Kept(owed)
    BY Zenon, <1>1, <2>2 DEF ScheduledAnnounce, SameAnnounce
  <2> HIDE DEF owed
  <2>6. ASSUME x = [owed EXCEPT !.due = due] PROVE Kept(x)
    BY Zenon, <2>3, <2>5, <2>6 DEF ScheduledAnnounce, SameAnnounce
  <2>7. ASSUME x = [owed EXCEPT !.due = 0, !.pending_only = TRUE] PROVE Kept(x)
    <3> DEFINE y == [owed EXCEPT !.due = 0]
    <3>1. Kept(y)
      BY <2>5 DEF ScheduledAnnounce, SameAnnounce
    <3>2. x = [y EXCEPT !.pending_only = TRUE]
      BY <2>7
    <3> HIDE DEF y
    <3>. QED
      BY Zenon, <3>1, <3>2 DEF ScheduledAnnounce, SameAnnounce
  <2>8. Kept(x)
    BY Zenon, <2>1, <2>6, <2>7
  <2>. QED
    BY Zenon, <1>1, <2>4, <2>8 DEF Owed
<1>. QED
  BY Zenon, <1>3, <1>4, ScheduledOwed

\* What `release_pending` and `clear_target` make of an announce.
Taken(e, paid) == [e EXCEPT !.pending = @ \ paid]

\* They shorten what is owed and keep the rest.
LEMMA PendingTaken ==
    ASSUME NEW e \in ScheduledAnnounce, NEW paid, NEW x, x = Taken(e, paid)
    PROVE  /\ x \in ScheduledAnnounce /\ x.interface = e.interface
           /\ SameAnnounce(e, x) /\ x.pending = e.pending \ paid
<1> DEFINE rest == e.pending \ paid
<1>1. rest \in SUBSET Slots /\ x = [e EXCEPT !.pending = rest]
  BY DEF ScheduledAnnounce, Taken
<1> HIDE DEF rest
<1>2. /\ x \in ScheduledAnnounce /\ x.interface = e.interface
      /\ SameAnnounce(e, x) /\ x.pending = rest
  BY Zenon, <1>1 DEF ScheduledAnnounce, SameAnnounce
<1>. QED
  BY <1>2 DEF rest

\* So a release leaves announces that are owed.
LEMMA ReleasedTypes ==
    ASSUME NEW S, NEW P, NEW pick, NEW ties, NEW x \in Released(S, P, pick, ties),
           \A e \in S : Owed(e)
    PROVE  Owed(x)
<1>1. PICK e \in S : x = Taken(e, {s \in DOMAIN pick : pick[s] = e})
  BY Zenon DEF Released, Taken
<1>2. e \in ScheduledAnnounce /\ Owed(e)
  BY Zenon DEF Owed
<1>3. /\ x \in ScheduledAnnounce /\ x.interface = e.interface
      /\ SameAnnounce(e, x) /\ x.pending \subseteq e.pending
  BY <1>1, <1>2, PendingTaken
<1>. QED
  BY Zenon, <1>2, <1>3 DEF Owed, SameAnnounce

\* The route an announce is released on.
RouteOf(P, e) == CHOOSE q \in P : q.dest = e.dest

\* A released announce is current: its route is the one it taught, at its distance.
LEMMA ReleasedRoute ==
    ASSUME IInv, NEW P, P \subseteq paths, NEW e, Owed(e), announce_current(e, P)
    PROVE  /\ RouteOf(P, e) \in P /\ RouteOf(P, e).dest = e.dest
           /\ RouteOf(P, e).emitted = e.emitted /\ RouteOf(P, e).hops = e.hops
<1> DEFINE q == RouteOf(P, e)
<1>1. PICK r \in P : r.dest = e.dest /\ r.emitted = e.emitted /\ ~r.response
  BY DEF announce_current, get_live
<1>2. q \in P /\ q.dest = e.dest
  BY Zenon, <1>1 DEF RouteOf
<1> HIDE DEF q
<1>3. q = r
  BY Zenon, <1>1, <1>2 DEF IInv, RoutesUnique
<1>4. PICK x \in announce_schedule : SameAnnounce(x, e)
  BY Zenon DEF Owed
<1>5. r.hops = e.hops
  BY Zenon, <1>1, <1>4 DEF IInv, ScheduleMatchesPath, SameAnnounce
<1>. QED
  BY Zenon, <1>1, <1>2, <1>3, <1>5 DEF q

\* `release_gated_announces` releases to open gates, ties each announce to its
\* route and shuts the gate behind it.
LEMMA ReleasedStep ==
    ASSUME IInv, NEW S, \A e \in S : Owed(e), NEW P, P \subseteq paths, paths' = P,
           NEW pick, NEW ties, DOMAIN pick \subseteq GateReady(LiveOutbound),
           \A s \in DOMAIN pick : pick[s] \in FirstReleases(S, P, s),
           ReleaseGated(S, P, pick, ties), SameRegistry, time' = time, held' = held
    PROVE  /\ LastEvolves /\ InterfacesEvolve /\ PathsEvolve /\ FramesEvolve
           /\ \A e \in announce_schedule' : Owed(e)
<1> DEFINE sendable == {s \in {r \in DOMAIN pick : pick[r] # None} :
                          /\ s \in Forwardable(pick[s].interface, Slots)
                          /\ pick[s].size <= Config[registry[s]].mtu}
           A == Admitted(LiveOutbound, sendable, "AnnounceRebroadcast", 0)
           route(e) == RouteOf(P, e)
           body == [s \in sendable |->
                     [packet |-> AnnouncePacket(pick[s].dest, pick[s].hops, pick[s].emitted),
                      lifetime |-> PathToken(route(pick[s]))]]
<1>1. /\ announce_schedule' = Released(S, P, pick, ties)
      /\ outbound' = Enqueue(LiveOutbound, A, "AnnounceRebroadcast", body)
      /\ announce_gates' = [s \in Slots |-> IF s \in A THEN time + Config[registry[s]].spacing
                                                       ELSE announce_gates[s]]
      /\ last' = [last EXCEPT !.delivery = @ + Cardinality(A)]
  BY Zenon DEF ReleaseGated, RouteOf
<1>2. sendable \subseteq {s \in Slots : announce_gates[s] <= time}
  BY DEF Forwardable, GateReady
<1>3. A \subseteq {s \in sendable : registry[s] \in online}
  BY Zenon, AdmittedSlots
<1>4. \A s \in sendable : /\ route(pick[s]) \in paths' /\ route(pick[s]) \in paths
                          /\ route(pick[s]).dest = pick[s].dest
                          /\ route(pick[s]).emitted = pick[s].emitted
                          /\ route(pick[s]).hops = pick[s].hops
  <2> SUFFICES ASSUME NEW s \in sendable
               PROVE  /\ route(pick[s]) \in paths' /\ route(pick[s]) \in paths
                      /\ route(pick[s]).dest = pick[s].dest
                      /\ route(pick[s]).emitted = pick[s].emitted
                      /\ route(pick[s]).hops = pick[s].hops
    BY Zenon
  <2>1. s \in DOMAIN pick /\ pick[s] # None
    BY Zenon
  <2>2. announce_current(pick[s], P) /\ Owed(pick[s])
    BY <2>1 DEF FirstReleases, OwedTo
  <2>. QED
    BY Zenon, <2>2, ReleasedRoute
<1>5. body = [s \in sendable |->
                [packet |-> AnnouncePacket(pick[s].dest, pick[s].hops, pick[s].emitted),
                 lifetime |-> PathToken(route(pick[s]))]]
  BY Zenon
<1> HIDE DEF A, route, sendable
<1>6. LastEvolves /\ last'.path = last.path
  BY Zenon, <1>1, <1>2, <1>3, LastDelivers
<1>7. PathsEvolve
  BY Zenon, <1>6, QuietTables
<1>8. \A s \in A : /\ body[s].packet = AnnouncePacket(pick[s].dest, pick[s].hops, pick[s].emitted)
                   /\ body[s].lifetime = PathToken(route(pick[s]))
  BY Zenon, <1>3, <1>5
<1> HIDE DEF body
<1>9. \A s \in A : LifetimeIssued(body[s].lifetime)
  <2>1. \A q \in paths : LifetimeIssued(PathToken(q))
    BY Zenon, <1>6, PathTokenIssued DEF IInv, TypeOK, GenerationsIssued
  <2>. QED
    BY Zenon, <1>3, <1>4, <1>8, <2>1
<1>10. ASSUME NEW f, Carries(f, A, body)
       PROVE  NamesItsOwner(f)'
  <2>1. PICK s \in A : f.packet = body[s].packet /\ f.lifetime = body[s].lifetime
    BY Zenon, <1>10 DEF Carries
  <2>2. PICK q \in paths' : /\ q = route(pick[s]) /\ q \in paths /\ q.dest = pick[s].dest
                            /\ q.emitted = pick[s].emitted /\ q.hops = pick[s].hops
    BY Zenon, <1>3, <1>4
  <2>3. /\ f.packet.kind = "announce" /\ f.packet.dest = q.dest /\ f.packet.hops = q.hops
        /\ f.packet.id = q.emitted
    <3>1. f.packet = AnnouncePacket(q.dest, q.hops, q.emitted)
      BY Zenon, <1>8, <2>1, <2>2
    <3>. QED
      BY <3>1 DEF AnnouncePacket
  <2>4. f.lifetime.path = q.gen /\ f.lifetime.state = "Independent"
    <3>1. f.lifetime = PathToken(q)
      BY Zenon, <1>8, <2>1, <2>2
    <3>. QED
      BY <3>1 DEF PathToken, Lifetime
  <2>5. f.packet.id \in 0 .. q.emitted
    BY <2>2, <2>3 DEF IInv, TypeOK, PathEntry
  <2>. QED
    BY Zenon, <1>7, <2>3, <2>4, <2>5, NamesPath
<1>11. \A s \in A : registry[s] \in Ids
  BY Zenon, <1>2, <1>3 DEF IInv, TypeOK, Registered
<1>12. \A s \in A : time + Config[registry[s]].spacing \in Nat
                    /\ time <= time + Config[registry[s]].spacing
  BY <1>11, ConfigAssumption, NumbersOK
<1>13. ShutsGates(A, body)
  <2>1. \A s \in A : body[s].lifetime.enqueued = time
    <3>1. \A q : PathToken(q).enqueued = time
      BY DEF PathToken, Lifetime
    <3>. QED
      BY Zenon, <1>8, <3>1
  <2>2. \A s \in A : /\ announce_gates[s] <= time
                     /\ announce_gates'[s] = time + Config[registry[s]].spacing
    BY Zenon, <1>1, <1>2, <1>3
  <2>. QED
    BY <1>12, <2>1, <2>2 DEF ShutsGates
<1>14. FramesEvolve
  <2>1. LiveOutbound \subseteq outbound /\ A \subseteq {s \in Slots : registry[s] \in online}
    BY Zenon, <1>2, <1>3, ExpireShrinks
  <2>. QED
    BY Zenon, <1>1, <1>6, <1>9, <1>10, <1>13, <2>1, EnqueuedFrames
<1>15. InterfacesEvolve
  <2>1. announce_gates' \in [Slots -> Nat]
    BY Zenon, <1>1, <1>12 DEF IInv, TypeOK
  <2>2. \A s \in Slots : announce_gates[s] <= announce_gates'[s]
    <3> TAKE s \in Slots
    <3>1. announce_gates[s] \in Nat /\ time \in Nat
      BY Zenon, NumbersOK DEF IInv, TypeOK
    <3>2. CASE s \in A
      <4>1. announce_gates[s] <= time /\ announce_gates'[s] = time + Config[registry[s]].spacing
        BY Zenon, <1>1, <1>2, <1>3, <3>2
      <4>. QED
        BY Zenon, <1>12, <3>1, <3>2, <4>1, GateLater
    <3>3. CASE s \notin A
      <4>1. announce_gates'[s] = announce_gates[s]
        BY Zenon, <1>1, <3>3
      <4>. QED
        BY Zenon, <3>1, <4>1, GateLater
    <3>. QED
      BY Zenon, <3>2, <3>3
  <2>. QED
    BY Zenon, <1>6, <2>1, <2>2, InterfacesQuiet
<1>. QED
  BY Zenon, <1>1, <1>6, <1>7, <1>14, <1>15, ReleasedTypes

\* `tick` is an evolution.
LEMMA TickStep ==
    ASSUME IInv, Tick
    PROVE  Evolve
<1> DEFINE P == expire(paths, time)
<1>1. /\ clock_ms' = time /\ discoveries' = LiveDiscoveries /\ paths' = P
      /\ announce_cache' = retain_paths(expire(announce_cache, time), P, time)
      /\ reverse' = expire(reverse, time) /\ links' = expire(links, time)
      /\ UNCHANGED <<time, held, answered>> /\ SameRegistry
  BY Zenon DEF Tick, SameRegistry
<1>2. /\ discoveries' \subseteq discoveries /\ paths' \subseteq paths /\ reverse' \subseteq reverse
      /\ announce_cache' \subseteq announce_cache
  BY Zenon, <1>1, ExpireShrinks DEF retain_paths
<1>3. PICK jitter \in [{e.dest : e \in announce_schedule} -> 0 .. Param.jitter] :
        LET S == AfterDue(expire(announce_schedule, time), P, jitter)
            ready == GateReady(LiveOutbound)
            stale == {e \in S : ~announce_current(e, P)}
        IN  \E pick \in [ready -> S \cup {None}], ties \in SUBSET stale :
              /\ \A s \in ready : pick[s] \in FirstReleases(S, P, s)
              /\ ReleaseGated(S, P, pick, ties)
  BY Zenon DEF Tick
<1> DEFINE S == AfterDue(expire(announce_schedule, time), P, jitter)
<1>4. \A e \in S : Owed(e)
  BY RescheduledTypes
<1>5. PICK pick \in [GateReady(LiveOutbound) -> S \cup {None}], ties \in SUBSET S :
        /\ \A s \in GateReady(LiveOutbound) : pick[s] \in FirstReleases(S, P, s)
        /\ ReleaseGated(S, P, pick, ties)
  BY <1>3, Zenon
<1> HIDE DEF S
<1>6. /\ \A s \in DOMAIN pick : pick[s] \in FirstReleases(S, P, s)
      /\ DOMAIN pick \subseteq GateReady(LiveOutbound)
  BY Zenon, <1>5
<1>7. P \subseteq paths
  BY ExpireShrinks
<1> HIDE DEF P
<1>8. /\ LastEvolves /\ InterfacesEvolve /\ PathsEvolve /\ FramesEvolve
      /\ \A e \in announce_schedule' : Owed(e)
  BY Zenon, <1>1, <1>4, <1>5, <1>6, <1>7, ReleasedStep
<1>9. ClockEvolves
  BY Zenon, <1>1, ClockTicks
<1>10. ReverseEvolves /\ LinksEvolve /\ DiscoveriesEvolve
  BY Zenon, <1>1, <1>2, <1>8, QuietTables
<1>11. AnnouncesEvolve
  <2>1. \A q \in paths' : \E p \in paths : SameLesson(p, q)
    BY Zenon, <1>2 DEF SameLesson
  <2>2. PendingTargetsAreAllowed'
    <3> SUFFICES ASSUME NEW e \in announce_schedule', NEW s \in e.pending
                 PROVE  registry'[s] # NoId /\ announce_egress_allowed(e.interface, registry[s])'
      BY Zenon DEF PendingTargetsAreAllowed
    <3>1. registry[s] # NoId /\ announce_egress_allowed(e.interface, registry[s])
      BY Zenon, <1>8 DEF Owed
    <3>. QED
      BY Zenon, <1>1, <3>1, EgressKept DEF SameRegistry
  <2>3. \A e \in announce_schedule' :
          /\ e \in ScheduledAnnounce /\ e.interface \in online'
          /\ \E x \in announce_schedule : SameAnnounce(x, e)
    BY Zenon, <1>1, <1>8 DEF Owed, SameRegistry
  <2>. QED
    BY Zenon, <1>2, <2>1, <2>2, <2>3, AnnouncesKept
<1>. QED
  BY Zenon, <1>8, <1>9, <1>10, <1>11 DEF Evolve
=============================================================================
