---------------------------- MODULE RouterProofs ----------------------------
(***************************************************************************)
(* The host's calls and the drivers' steps are evolutions.  With those of  *)
(* packets and the timer they give the theorems about the router, for every *)
(* registry, configuration and packet set: the inductive invariant, what it *)
(* implies, and what no step does to a dead frame, a live path or a link.  *)
(***************************************************************************)
EXTENDS RouterLearnProofs, RouterForwardProofs

\* The time every leaf may take that names no prover of its own.
USE SMTT(60)

-----------------------------------------------------------------------------
(* The host                                                                *)

\* Time passing is an evolution.
LEMMA AdvanceStep ==
    ASSUME IInv, Advance
    PROVE  Evolve
<1>1. time' = time + 1
  BY DEF Advance
<1>2. UNCHANGED <<clock_ms, registry, online, generations, announce_gates, last, paths,
                  announce_cache, announce_schedule, reverse, links, discoveries, outbound, held,
                  answered>>
  BY DEF Advance, interfaceVars, announceVars
<1>3. LastEvolves
  BY <1>2, LastQuiet
<1>4. ClockEvolves
  BY <1>1, <1>2 DEF IInv, TypeOK, ClockEvolves
<1>5. InterfacesEvolve
  BY <1>2, <1>3, GatesQuiet DEF SameRegistry
<1>6. PathsEvolve /\ ReverseEvolves /\ LinksEvolve /\ DiscoveriesEvolve /\ AnnouncesEvolve
  BY <1>2, <1>3, QuietTables DEF SameRegistry
<1>7. FramesEvolve
  BY <1>2, FramesShrink DEF Frames
<1>. QED
  BY <1>3, <1>4, <1>5, <1>6, <1>7 DEF Evolve

\* Clearing a slot of the schedule, when the other slots keep their interface.
LEMMA TargetCleared ==
    ASSUME IInv, NEW s, announce_schedule' \subseteq clear_target(announce_schedule, s),
           \A e \in announce_schedule' : e.interface \in online => e.interface \in online',
           \A r \in Slots \ {s} :
             registry'[r] = registry[r] /\ (registry[r] \in online => registry[r] \in online'),
           announce_cache' \subseteq announce_cache, paths' \subseteq paths
    PROVE  AnnouncesEvolve
<1>1. ASSUME NEW e \in announce_schedule'
      PROVE  \E x \in announce_schedule :
               /\ e \in ScheduledAnnounce /\ e.interface = x.interface /\ x.interface \in online
               /\ SameAnnounce(x, e) /\ e.pending = x.pending \ {s}
  <2>1. PICK x \in announce_schedule : e = Taken(x, {s})
    BY DEF clear_target, Taken
  <2>2. x \in ScheduledAnnounce /\ x.interface \in online
    BY Zenon DEF IInv, TypeOK, RoutesNameLiveInterfaces
  <2>. QED
    BY <2>1, <2>2, PendingTaken
<1>2. \A e \in announce_schedule' : e.pending \subseteq Slots \ {s}
  BY <1>1 DEF ScheduledAnnounce
<1>3. PendingTargetsAreAllowed'
  BY <1>1, <1>2, PendingShrinks
<1>4. \A q \in paths' : \E p \in paths : SameLesson(p, q)
  BY DEF SameLesson
<1>5. \A e \in announce_schedule' :
        /\ e \in ScheduledAnnounce /\ e.interface \in online'
        /\ \E x \in announce_schedule : SameAnnounce(x, e)
  BY <1>1
<1>. QED
  BY <1>3, <1>4, <1>5, AnnouncesKept

\* `retire_requester` takes a slot out of every discovery and drops the ones
\* left without any. The other slots keep their registration.
LEMMA RequesterRetired ==
    ASSUME IInv, LastEvolves, NEW s, discoveries' = retire_requester(discoveries, s),
           \A r \in Slots \ {s} :
             /\ registry'[r] = registry[r] /\ (registry[r] \in online => registry[r] \in online')
             /\ generations'[r] = generations[r]
    PROVE  DiscoveriesEvolve
<1>1. last.discovery \in Nat /\ last'.discovery \in Nat /\ last.discovery <= last'.discovery
  BY DEF IInv, TypeOK, LastEvolves, Counters
<1>2. \A d \in discoveries : /\ d \in DiscoveryEntry /\ d.gen \in Nat /\ d.gen <= last.discovery
                             /\ d.requesters \in SUBSET Slots
  BY Zenon DEF IInv, TypeOK, GenerationsIssued, DiscoveryEntry
<1>3. \A d \in discoveries : d.gen <= last'.discovery
  <2> TAKE d \in discoveries
  <2>1. d.gen \in Nat /\ d.gen <= last.discovery
    BY Zenon, <1>2
  <2>. QED
    BY SMTT(30), <1>1, <2>1
<1>4. ASSUME NEW d \in discoveries'
      PROVE  /\ d \in DiscoveryEntry
             /\ \E c \in discoveries : /\ SameDiscovery(c, d) /\ d.asked = c.asked
                                       /\ d.requesters = c.requesters \ {s}
  <2>1. PICK c \in discoveries : d = [c EXCEPT !.requesters = c.requesters \ {s}]
    BY DEF retire_requester
  <2> DEFINE rest == c.requesters \ {s}
  <2>2. rest \in SUBSET Slots /\ (rest # {} => c.requesters # {})
    BY <1>2
  <2>3. c \in DiscoveryEntry
    BY <1>2
  <2>4. d = [c EXCEPT !.requesters = rest]
    BY <2>1
  <2> HIDE DEF rest
  <2>5. /\ d \in DiscoveryEntry /\ d.gen = c.gen /\ d.expires = c.expires /\ d.requesters = rest
        /\ d.dest = c.dest /\ d.asked = c.asked
    BY <2>2, <2>3, <2>4 DEF DiscoveryEntry
  <2>6. SameDiscovery(c, d)
    BY <2>2, <2>5 DEF SameDiscovery
  <2>. QED
    BY <2>5, <2>6 DEF rest
<1>5. RequestersAreCurrent'
  <2> SUFFICES ASSUME NEW d \in discoveries', NEW r \in d.requesters
               PROVE  registry'[r] \in online' /\ d.asked[r] = generations'[r]
    BY Zenon DEF RequestersAreCurrent
  <2>1. PICK c \in discoveries : d.asked = c.asked /\ d.requesters = c.requesters \ {s}
    BY <1>4
  <2>2. r \in c.requesters /\ r \in Slots \ {s}
    BY <1>2, <2>1
  <2>3. registry[r] \in online /\ c.asked[r] = generations[r]
    BY Zenon, <2>2 DEF IInv, RequestersAreCurrent
  <2>. QED
    BY <2>1, <2>2, <2>3
<1>6. \A d \in discoveries' : d.gen <= last'.discovery
  BY <1>3, <1>4 DEF SameDiscovery
<1>. QED
  BY <1>4, <1>5, <1>6 DEF DiscoveriesEvolve

\* Retiring slot s, with or without taking its interface off the registry.
Retires(id, s) ==
    /\ s \in Slots /\ registry[s] = id /\ id \in Ids
    /\ registry' \in {registry, [registry EXCEPT ![s] = NoId]} /\ online' = online \ {id}
    /\ generations' = [generations EXCEPT ![s] = 0]
    /\ announce_gates' = [announce_gates EXCEPT ![s] = 0]

\* It leaves the other slots alone, and the slot without a registration.
LEMMA OtherSlots ==
    ASSUME IInv, NEW id, NEW s, Retires(id, s)
    PROVE  /\ \A r \in Slots \ {s} :
                /\ registry'[r] = registry[r] /\ generations'[r] = generations[r]
                /\ announce_gates'[r] = announce_gates[r]
                /\ registry[r] \in online => registry[r] \in online'
           /\ registry'[s] \in {id, NoId} /\ generations'[s] = 0
           /\ NoId \notin online
<1>1. NoId \notin online
  BY IdsAssumption DEF IInv, TypeOK, Registered
<1>2. \A r \in Slots \ {s} : registry[r] # id
  BY IdsAssumption DEF IInv, RegistrationOK, Retires
<1>. QED
  BY <1>1, <1>2 DEF IInv, TypeOK, Retires

\* So the registry evolves.
LEMMA SlotRetired ==
    ASSUME IInv, LastEvolves, NEW id, NEW s, Retires(id, s)
    PROVE  InterfacesEvolve
<1>1. /\ registry' \in [Slots -> Ids \cup {NoId}] /\ generations' \in [Slots -> Nat]
      /\ announce_gates' \in [Slots -> Nat] /\ online' = online \ {id}
      /\ s \in Slots /\ registry[s] = id /\ id \in Ids
  BY DEF IInv, TypeOK, Retires
<1>2. \A r \in Slots : r # s => /\ registry'[r] = registry[r] /\ generations'[r] = generations[r]
                                /\ announce_gates[r] <= announce_gates'[r]
  <2>1. \A r \in Slots : announce_gates[r] <= announce_gates[r]
    BY DEF IInv, TypeOK
  <2>. QED
    BY <2>1, OtherSlots
<1>3. registry'[s] \in {id, NoId} /\ generations'[s] = 0
  BY OtherSlots
<1>4. NoId \notin online
  BY OtherSlots
<1>5. online' \subseteq Registered'
  <2>1. \A x \in online' : \E r \in Slots : registry[r] = x /\ r # s
    BY <1>1 DEF IInv, TypeOK, Registered
  <2>. QED
    BY <1>1, <1>2, <1>4, <2>1 DEF Registered
<1>6. RegistrationOK'
  <2>1. \A r, q \in Slots : registry'[r] = registry'[q] => r = q \/ registry'[r] = NoId
    BY <1>1, <1>2, <1>3 DEF IInv, RegistrationOK
  <2>2. \A r \in Slots : registry'[r] \in online' => r # s
    BY <1>1, <1>3, <1>4
  <2>3. \A r \in Slots : registry'[r] \in online' => generations'[r] # 0
    BY <1>1, <1>2, <2>2 DEF IInv, RegistrationOK
  <2>. QED
    BY <2>1, <2>3 DEF RegistrationOK
<1>7. last.interface \in Nat /\ last'.interface \in Nat /\ last.interface <= last'.interface
  BY DEF IInv, TypeOK, LastEvolves, Counters
<1>8. \A r \in Slots : generations[r] \in Nat /\ generations[r] <= last'.interface
  BY <1>7 DEF IInv, TypeOK, GenerationsIssued
<1>9. ASSUME NEW r \in Slots
      PROVE  /\ generations'[r] <= last'.interface
             /\ \/ /\ generations'[r] = generations[r] /\ registry'[r] = registry[r]
                   /\ registry[r] \in online' => registry[r] \in online
                   /\ announce_gates[r] <= announce_gates'[r]
                \/ generations'[r] = 0
                \/ generations'[r] > last.interface
  BY <1>1, <1>2, <1>3, <1>7, <1>8
<1>. QED
  BY <1>1, <1>5, <1>6, <1>9 DEF InterfacesEvolve

\* `retire_router_interface`: what names the interface leaves every table, so
\* the tables name only interfaces that stay online.
LEMMA Retired ==
    ASSUME IInv, NEW id, NEW s \in slot(id), id \in Ids, retire_router_interface(id, s),
           registry' \in {registry, [registry EXCEPT ![s] = NoId]}, online' = online \ {id}
    PROVE  Evolve
<1>0. Retires(id, s)
  BY Zenon DEF Retires, retire_router_interface, slot
<1>1. /\ UNCHANGED <<time, clock_ms, last, held, answered>>
      /\ discoveries' = retire_requester(discoveries, s)
      /\ paths' = remove_interface(paths, id)
      /\ reverse' = remove_interface2(reverse, id)
      /\ links' = remove_interface2(links, id)
      /\ announce_schedule' = remove_interface(clear_target(announce_schedule, s), id)
      /\ announce_cache' = retain_paths(announce_cache, paths', clock_ms)
      /\ outbound' \subseteq outbound
  BY DEF retire_router_interface
<1>2. LastEvolves /\ ClockEvolves
  BY <1>1, LastQuiet, ClockTicks
<1>3. PathsEvolve
  <2>1. paths' \subseteq paths /\ \A q \in paths' : q.interface \in online'
    BY Zenon, <1>1 DEF remove_interface, IInv, RoutesNameLiveInterfaces
  <2>. QED
    BY <1>2, <2>1, PathsShrink
<1>4. ReverseEvolves
  <2>1. /\ reverse' \subseteq reverse
        /\ \A r \in reverse' : r.receiving \in online' /\ r.outbound \in online'
    BY Zenon, <1>1 DEF remove_interface2, IInv, RoutesNameLiveInterfaces
  <2>. QED
    BY Zenon, <1>1, <1>2, <2>1, ReverseShrinks
<1>5. LinksEvolve
  <2>1. /\ links' \subseteq links
        /\ \A k \in links' : k.receiving \in online' /\ k.outbound \in online'
    BY Zenon, <1>1 DEF remove_interface2, IInv, RoutesNameLiveInterfaces
  <2>2. id \in online => RegistrationOf(id)' # RegistrationOf(id)
    <3>1. s \in Slots /\ registry[s] = id
      BY DEF slot
    <3>2. id \in online => \E g \in RegistrationOf(id) : g # 0
      BY <3>1 DEF IInv, RegistrationOK, RegistrationOf, slot
    <3>3. \A r \in Slots \ {s} : registry[r] # id
      BY <3>1, IdsAssumption DEF IInv, RegistrationOK
    <3>4. \A r \in Slots : registry'[r] = id => generations'[r] = 0
      BY <1>0, <3>3, OtherSlots
    <3>5. \A g \in RegistrationOf(id)' : g = 0
      BY <3>4 DEF RegistrationOf, slot
    <3>. QED
      BY <3>2, <3>5
  <2>3. KeepsLiveLinks
    <3>1. \A k \in links : k \in links' \/ k.receiving = id \/ k.outbound = id
      BY <1>1 DEF remove_interface2
    <3>2. \A k \in links : k.receiving \in online /\ k.outbound \in online
      BY LinkOK
    <3>. QED
      BY <2>2, <3>1, <3>2 DEF KeepsLiveLinks
  <2>. QED
    BY <1>2, <2>1, <2>3, LinksShrink
<1>6. DiscoveriesEvolve
  BY <1>0, <1>1, <1>2, OtherSlots, RequesterRetired
<1>7. AnnouncesEvolve
  <2>1. announce_schedule' \subseteq clear_target(announce_schedule, s)
    BY Zenon, <1>1 DEF remove_interface
  <2>2. \A e \in announce_schedule' : e.interface # id
    BY <1>1 DEF remove_interface
  <2>3. announce_cache' \subseteq announce_cache /\ paths' \subseteq paths
    BY <1>1 DEF retain_paths, remove_interface
  <2>. QED
    BY <1>0, <2>1, <2>2, <2>3, OtherSlots, TargetCleared
<1>8. FramesEvolve
  BY <1>1, FramesShrink DEF Frames
<1>9. InterfacesEvolve
  BY <1>0, <1>2, SlotRetired
<1>. QED
  BY <1>2, <1>3, <1>4, <1>5, <1>6, <1>7, <1>8, <1>9 DEF Evolve

\* `register_interface` is an evolution: the slot gets the next generation.
LEMMA RegisterStep ==
    ASSUME IInv, NEW id \in HostIds, NEW up, register_interface(id, up)
    PROVE  Evolve
<1>1. /\ UNCHANGED <<time, clock_ms, paths, announce_cache, reverse, links, outbound, held,
                     answered>>
      /\ online' = IF up THEN online \cup {id} ELSE online
      /\ last' = [last EXCEPT !.interface = last.interface + 1]
      /\ id \notin Registered
  BY DEF register_interface
<1>2. PICK s \in slot(NoId) :
         /\ registry' = [registry EXCEPT ![s] = id]
         /\ generations' = [generations EXCEPT ![s] = last.interface + 1]
         /\ announce_gates' = [announce_gates EXCEPT ![s] = 0]
         /\ announce_schedule' = clear_target(announce_schedule, s)
         /\ discoveries' = retire_requester(discoveries, s)
  BY Zenon DEF register_interface
<1>3. s \in Slots /\ registry[s] = NoId /\ id \in Ids
  BY HostAssumption DEF slot
<1>4. /\ last.interface \in Nat
      /\ \A r \in Slots : generations[r] \in Nat /\ generations[r] <= last.interface
  BY DEF IInv, TypeOK, GenerationsIssued
<1>5. LastEvolves /\ last'.interface = last.interface + 1
  BY <1>1 DEF LastEvolves, IInv, TypeOK, Counters
<1>6. ClockEvolves
  BY <1>1, ClockTicks
<1>7. online \subseteq online' /\ NoId \notin online'
  BY <1>1, <1>3, IdsAssumption DEF IInv, TypeOK, Registered
<1>8. InterfacesEvolve
  <2>1. /\ registry' \in [Slots -> Ids \cup {NoId}] /\ generations' \in [Slots -> Nat]
        /\ announce_gates' \in [Slots -> Nat]
    BY <1>2, <1>3, <1>4 DEF IInv, TypeOK
  <2>2. \A r \in Slots : r # s => /\ registry'[r] = registry[r] /\ generations'[r] = generations[r]
                                  /\ announce_gates[r] <= announce_gates'[r]
    BY <1>2 DEF IInv, TypeOK
  <2>3. registry'[s] = id /\ generations'[s] = last.interface + 1
    BY <1>2, <1>3 DEF IInv, TypeOK
  <2>4. \A r \in Slots : registry[r] # id
    BY <1>1, <1>3, IdsAssumption DEF Registered
  <2>5. online' \subseteq Registered'
    <3>1. \A x \in online : \E r \in Slots : registry[r] = x /\ r # s
      BY <1>3 DEF IInv, TypeOK, Registered
    <3>. QED
      BY <1>1, <1>3, <1>7, <2>2, <2>3, <3>1 DEF Registered
  <2>6. RegistrationOK'
    <3>1. \A r, q \in Slots : registry'[r] = registry'[q] => r = q \/ registry'[r] = NoId
      BY Zenon, <2>2, <2>3, <2>4 DEF IInv, RegistrationOK
    <3>2. \A r \in Slots : r # s /\ registry'[r] \in online' => registry[r] \in online
      BY <1>1, <2>2, <2>4
    <3>3. \A r \in Slots : registry'[r] \in online' => generations'[r] # 0
      <4>1. \A r \in Slots : registry[r] \in online => generations[r] # 0
        BY Zenon DEF IInv, RegistrationOK
      <4>2. generations'[s] # 0
        BY <1>4, <2>3
      <4>. QED
        BY Zenon, <2>2, <3>2, <4>1, <4>2
    <3>. QED
      BY Zenon, <3>1, <3>3 DEF RegistrationOK
  <2>7. ASSUME NEW r \in Slots
        PROVE  /\ generations'[r] <= last'.interface
               /\ \/ /\ generations'[r] = generations[r] /\ registry'[r] = registry[r]
                     /\ registry[r] \in online' => registry[r] \in online
                     /\ announce_gates[r] <= announce_gates'[r]
                  \/ generations'[r] = 0
                  \/ generations'[r] > last.interface
    <3>1. CASE r = s
      BY <1>4, <1>5, <2>3, <3>1
    <3>2. CASE r # s
      BY <1>1, <1>4, <1>5, <2>2, <2>4, <3>2
    <3>. QED
      BY ZenonT(30), <3>1, <3>2
  <2>. QED
    BY <2>1, <2>5, <2>6, <2>7 DEF InterfacesEvolve
<1>9. PathsEvolve /\ ReverseEvolves /\ LinksEvolve
  <2>1. /\ \A q \in paths : q.interface \in online'
        /\ \A r \in reverse : r.receiving \in online' /\ r.outbound \in online'
        /\ \A k \in links : k.receiving \in online' /\ k.outbound \in online'
    BY Zenon, <1>7 DEF IInv, RoutesNameLiveInterfaces
  <2>2. KeepsLiveLinks
    BY <1>1 DEF KeepsLiveLinks
  <2>. QED
    BY <1>1, <1>5, <2>1, <2>2, PathsShrink, ReverseShrinks, LinksShrink
<1>10. \A r \in Slots \ {s} :
         /\ registry'[r] = registry[r] /\ (registry[r] \in online => registry[r] \in online')
         /\ generations'[r] = generations[r]
  BY <1>2, <1>7 DEF IInv, TypeOK
<1>11. DiscoveriesEvolve
  BY <1>2, <1>5, <1>10, RequesterRetired
<1>12. AnnouncesEvolve
  BY <1>1, <1>2, <1>7, <1>10, TargetCleared
<1>13. FramesEvolve
  BY <1>1, FramesShrink DEF Frames
<1>. QED
  BY <1>5, <1>6, <1>8, <1>9, <1>11, <1>12, <1>13 DEF Evolve

\* `unregister_interface` is an evolution.
LEMMA UnregisterStep ==
    ASSUME IInv, NEW id \in HostIds, unregister_interface(id)
    PROVE  Evolve
<1>1. PICK s \in slot(id) : /\ registry' = [registry EXCEPT ![s] = NoId]
                            /\ online' = online \ {id} /\ retire_router_interface(id, s)
  BY Zenon DEF unregister_interface
<1>. QED
  BY Zenon, <1>1, Retired, HostAssumption

\* `set_interface_online(id, false)` is an evolution.
LEMMA OfflineStep ==
    ASSUME IInv, NEW id \in HostIds, SetOffline(id)
    PROVE  Evolve
<1>1. PICK s \in slot(id) : /\ registry' = registry
                            /\ online' = online \ {id} /\ retire_router_interface(id, s)
  BY DEF SetOffline
<1>. QED
  BY <1>1, Retired, HostAssumption

\* `set_interface_online(id, true)` is an evolution.
LEMMA OnlineStep ==
    ASSUME IInv, NEW id \in HostIds, SetOnline(id)
    PROVE  Evolve
<1>1. /\ UNCHANGED <<time, clock_ms, registry, announce_gates, paths, announce_cache,
                     announce_schedule, reverse, links, discoveries, outbound, held, answered>>
      /\ online' = online \cup {id} /\ id \notin online
      /\ last' = [last EXCEPT !.interface = last.interface + 1]
  BY DEF SetOnline, announceVars
<1>2. PICK s \in slot(id) : generations' = [generations EXCEPT ![s] = last.interface + 1]
  BY Zenon DEF SetOnline
<1>3. s \in Slots /\ registry[s] = id /\ id \in Ids
  BY HostAssumption DEF slot
<1>4. /\ last.interface \in Nat
      /\ \A r \in Slots : generations[r] \in Nat /\ generations[r] <= last.interface
  BY Zenon DEF IInv, TypeOK, GenerationsIssued
<1>5. LastEvolves /\ last'.interface = last.interface + 1
  BY <1>1 DEF LastEvolves, IInv, TypeOK, Counters
<1>6. ClockEvolves
  BY <1>1, ClockTicks
<1>7. InterfacesEvolve
  <2>1. /\ registry' \in [Slots -> Ids \cup {NoId}] /\ generations' \in [Slots -> Nat]
        /\ announce_gates' \in [Slots -> Nat]
    BY <1>1, <1>2, <1>3, <1>4 DEF IInv, TypeOK
  <2>2. \A r \in Slots : /\ r # s => generations'[r] = generations[r]
                         /\ announce_gates[r] <= announce_gates'[r]
    BY <1>1, <1>2 DEF IInv, TypeOK
  <2>3. generations'[s] = last.interface + 1
    BY <1>2, <1>3 DEF IInv, TypeOK
  <2>4. \A r \in Slots : r # s => registry[r] # id
    BY <1>3, IdsAssumption DEF IInv, RegistrationOK
  <2>5. online' \subseteq Registered'
    BY <1>1, <1>3, IdsAssumption DEF IInv, TypeOK, Registered
  <2>6. RegistrationOK'
    <3>1. \A r, q \in Slots : registry'[r] = registry'[q] => r = q \/ registry'[r] = NoId
      BY <1>1 DEF IInv, RegistrationOK
    <3>2. \A r \in Slots : registry'[r] \in online' => generations'[r] # 0
      BY <1>1, <1>4, <2>2, <2>3, <2>4 DEF IInv, RegistrationOK
    <3>. QED
      BY <3>1, <3>2 DEF RegistrationOK
  <2>7. ASSUME NEW r \in Slots
        PROVE  /\ generations'[r] <= last'.interface
               /\ \/ /\ generations'[r] = generations[r] /\ registry'[r] = registry[r]
                     /\ registry[r] \in online' => registry[r] \in online
                     /\ announce_gates[r] <= announce_gates'[r]
                  \/ generations'[r] = 0
                  \/ generations'[r] > last.interface
    <3>1. CASE r = s
      BY <1>4, <1>5, <2>3, <3>1
    <3>2. CASE r # s
      BY <1>1, <1>4, <1>5, <2>2, <2>4, <3>2
    <3>. QED
      BY <3>1, <3>2
  <2>. QED
    BY Zenon, <2>1, <2>5, <2>6, <2>7 DEF InterfacesEvolve
<1>8. /\ \A q \in paths : q.interface \in online'
      /\ \A r \in reverse : r.receiving \in online' /\ r.outbound \in online'
      /\ \A k \in links : k.receiving \in online' /\ k.outbound \in online'
      /\ \A e \in announce_schedule : e.interface \in online'
  BY <1>1 DEF IInv, RoutesNameLiveInterfaces
<1>9. PathsEvolve /\ ReverseEvolves /\ LinksEvolve
  <2>1. KeepsLiveLinks
    BY <1>1 DEF KeepsLiveLinks
  <2>. QED
    BY <1>1, <1>5, <1>8, <2>1, PathsShrink, ReverseShrinks, LinksShrink
<1>10. DiscoveriesEvolve
  <2>1. \A d \in discoveries : \A r \in d.requesters : r \in Slots /\ registry[r] \in online
    BY Zenon DEF IInv, TypeOK, RequestersAreCurrent, DiscoveryEntry
  <2>2. \A r \in Slots : registry[r] \in online =>
          registry'[r] \in online' /\ generations'[r] = generations[r]
    BY <1>1, <1>2, <1>3 DEF IInv, TypeOK
  <2>. QED
    BY <1>1, <1>5, <2>1, <2>2, DiscoveriesShrink
<1>11. AnnouncesEvolve
  <2>1. PendingTargetsAreAllowed'
    BY <1>1, PendingShrinks
  <2>2. \A e \in announce_schedule' :
          /\ e \in ScheduledAnnounce /\ e.interface \in online'
          /\ \E x \in announce_schedule : SameAnnounce(x, e)
    BY <1>1, <1>8 DEF IInv, TypeOK, SameAnnounce
  <2>3. \A q \in paths' : \E p \in paths : SameLesson(p, q)
    BY <1>1 DEF SameLesson
  <2>. QED
    BY <1>1, <2>1, <2>2, <2>3, AnnouncesKept
<1>12. FramesEvolve
  BY <1>1, FramesShrink DEF Frames
<1>. QED
  BY <1>5, <1>6, <1>7, <1>9, <1>10, <1>11, <1>12 DEF Evolve

\* A reset issues one generation for a new registration of every slot.
LEMMA ResetStep ==
    ASSUME IInv, reset_router_in_place
    PROVE  Evolve
<1>1. /\ UNCHANGED <<time, clock_ms, held, answered>>
      /\ registry' = InitRegistry /\ online' = InitOnline
      /\ generations' = [s \in Slots |-> last.interface + 1]
      /\ announce_gates' = [s \in Slots |-> 0]
      /\ last' = [last EXCEPT !.interface = last.interface + 1]
      /\ paths' = {} /\ announce_cache' = {} /\ announce_schedule' = {}
      /\ reverse' = {} /\ links' = {} /\ discoveries' = {} /\ outbound' = {}
  BY DEF reset_router_in_place
<1>2. LastEvolves /\ last.interface \in Nat /\ last'.interface = last.interface + 1
  BY <1>1 DEF LastEvolves, IInv, TypeOK, Counters
<1>3. ClockEvolves
  BY <1>1, ClockTicks
<1>4. InterfacesEvolve
  <2>1. online' \subseteq Registered' /\ RegistrationOK'
    BY <1>1, <1>2, RegistryAssumption DEF Registered, RegistrationOK
  <2>. QED
    BY <1>1, <1>2, <2>1, RegistryAssumption DEF InterfacesEvolve
<1>5. KeepsLiveLinks
  <2>1. \A s \in Slots : generations'[s] # generations[s]
    BY <1>1, <1>2 DEF IInv, TypeOK, GenerationsIssued
  <2>2. \A k \in links : \E s \in Slots : registry[s] = k.receiving
    BY LinkOK DEF IInv, TypeOK, Registered
  <2>3. \A id : \A g \in RegistrationOf(id)' : g = last.interface + 1
    BY <1>1 DEF RegistrationOf, slot
  <2>4. \A id : \A g \in RegistrationOf(id) : g # last.interface + 1
    BY <1>1, <2>1 DEF RegistrationOf, slot
  <2>5. \A k \in links : RegistrationOf(k.receiving) # {}
    BY <2>2 DEF RegistrationOf, slot
  <2>. QED
    BY ZenonT(30), <2>3, <2>4, <2>5 DEF KeepsLiveLinks
<1>6. PathsEvolve /\ ReverseEvolves /\ LinksEvolve /\ DiscoveriesEvolve /\ AnnouncesEvolve
  <2>1. PendingTargetsAreAllowed'
    BY <1>1 DEF PendingTargetsAreAllowed
  <2>. QED
    BY <1>1, <1>2, <1>5, <2>1, PathsShrink, ReverseShrinks, LinksShrink, DiscoveriesShrink,
       AnnouncesKept
<1>7. FramesEvolve
  BY <1>1, FramesShrink DEF Frames
<1>. QED
  BY <1>2, <1>3, <1>4, <1>6, <1>7 DEF Evolve

\* `drop_path` is an evolution.
LEMMA DropPathStep ==
    ASSUME IInv, NEW d, drop_path(d)
    PROVE  Evolve
<1>1. /\ UNCHANGED <<time, clock_ms, registry, online, generations, announce_gates, last,
                     announce_cache, announce_schedule, reverse, links, discoveries, outbound,
                     held, answered>>
      /\ paths' \subseteq paths
  BY DEF drop_path, interfaceVars, announceVars
<1>2. LastEvolves /\ ClockEvolves
  BY <1>1, LastQuiet, ClockTicks
<1>3. InterfacesEvolve
  BY <1>1, <1>2, GatesQuiet DEF SameRegistry
<1>4. PathsEvolve /\ ReverseEvolves /\ LinksEvolve /\ DiscoveriesEvolve /\ AnnouncesEvolve
  BY <1>1, <1>2, QuietTables DEF SameRegistry
<1>5. FramesEvolve
  BY <1>1, FramesShrink DEF Frames
<1>. QED
  BY <1>2, <1>3, <1>4, <1>5 DEF Evolve

\* A packet of this node's own depends on no table entry.
LEMMA OwnPacketQueued ==
    ASSUME IInv, SameRegistry, time' = time, held' = held, paths' = paths,
           NEW n \in {clock_ms, time}, NEW Q, Q \subseteq outbound, NEW id, NEW reason,
           ~gated(reason), NEW size,
           NEW A, A = Admitted(Q, slot(id), reason, size), NEW pk, NEW B,
           B = [s \in Slots |->
                  [packet |-> pk, lifetime |-> Lifetime(n, n + Param.outbound, 0, "Independent", 0)]],
           outbound' = Enqueue(Q, A, reason, B),
           last' = [last EXCEPT !.delivery = @ + Cardinality(A)]
    PROVE  LastEvolves /\ FramesEvolve
<1>1. A \subseteq {s \in Slots : registry[s] \in online}
  BY AdmittedSlots, SlotsOf
<1>2. LastEvolves
  BY <1>1, LastDelivers
<1>3. n \in Nat /\ n <= time /\ n + Param.outbound \in Nat
  BY ParamAssumption DEF IInv, TypeOK
<1>4. LifetimeIssued(Lifetime(n, n + Param.outbound, 0, "Independent", 0))
  BY <1>2, <1>3, IndependentIssued
<1>5. \A s \in A : B[s].lifetime = Lifetime(n, n + Param.outbound, 0, "Independent", 0)
  BY <1>1
<1>6. \A f : Carries(f, A, B) => NamesItsOwner(f)'
  <2>1. PathsEvolve
    BY <1>2, QuietTables
  <2>. QED
    BY <1>5, <2>1, CarriesNothing
<1>. QED
  BY <1>1, <1>2, <1>4, <1>5, <1>6, EnqueuedFrames

\* `request_path` is an evolution.
LEMMA RequestPathStep ==
    ASSUME IInv, NEW d, NEW tag, NEW id, request_path(d, tag, id)
    PROVE  Evolve
<1> DEFINE Q == expire_outbound(time)
           A == Admitted(Q, slot(id), "PathRequest", 1)
           body == [s \in Slots |->
                      [packet |-> PathRequestPacket(d),
                       lifetime |-> Lifetime(time, time + Param.outbound, 0, "Independent", 0)]]
<1>1. /\ UNCHANGED <<time, announce_gates, paths, announce_cache, announce_schedule, reverse,
                     links, discoveries, held, answered>>
      /\ SameRegistry /\ clock_ms' = time
      /\ outbound' = Enqueue(Q, A, "PathRequest", body)
      /\ last' = [last EXCEPT !.delivery = @ + Cardinality(A)]
  BY Zenon DEF request_path, interfaceVars, announceVars, SameRegistry
<1>2. LastEvolves /\ FramesEvolve
  <2>1. Q \subseteq outbound
    BY ExpireShrinks
  <2> HIDE DEF Q
  <2>. QED
    BY Zenon, <1>1, <2>1, OwnPacketQueued DEF gated
<1>3. ClockEvolves
  BY <1>1, ClockTicks
<1>4. InterfacesEvolve
  BY <1>1, <1>2, GatesQuiet
<1>5. PathsEvolve /\ ReverseEvolves /\ LinksEvolve /\ DiscoveriesEvolve /\ AnnouncesEvolve
  BY <1>1, <1>2, QuietTables
<1>. QED
  BY <1>2, <1>3, <1>4, <1>5 DEF Evolve

\* `send_local` is an evolution.
LEMMA SendLocalStep ==
    ASSUME IInv, NEW id, send_local(id)
    PROVE  Evolve
<1> DEFINE A == Admitted(outbound, slot(id), "Local", 1)
           pk == [kind |-> "local", dest |-> None, id |-> None, next_hop |-> None, hops |-> 0]
           body == [s \in Slots |->
                      [packet |-> pk,
                       lifetime |-> Lifetime(clock_ms, clock_ms + Param.outbound, 0,
                                             "Independent", 0)]]
<1>1. /\ UNCHANGED <<time, clock_ms, announce_gates, paths, announce_cache, announce_schedule,
                     reverse, links, discoveries, held, answered>>
      /\ SameRegistry
      /\ outbound' = Enqueue(outbound, A, "Local", body)
      /\ last' = [last EXCEPT !.delivery = @ + Cardinality(A)]
  BY Zenon DEF send_local, interfaceVars, announceVars, SameRegistry
<1>2. LastEvolves /\ FramesEvolve
  <2> HIDE DEF pk
  <2>. QED
    BY Zenon, <1>1, OwnPacketQueued DEF gated
<1>3. ClockEvolves
  BY <1>1, ClockTicks
<1>4. InterfacesEvolve
  BY <1>1, <1>2, GatesQuiet
<1>5. PathsEvolve /\ ReverseEvolves /\ LinksEvolve /\ DiscoveriesEvolve /\ AnnouncesEvolve
  BY <1>1, <1>2, QuietTables
<1>. QED
  BY <1>2, <1>3, <1>4, <1>5 DEF Evolve

-----------------------------------------------------------------------------
(* The drivers, and steps that change nothing                              *)

\* A step that only moves frames between the queue and the drivers, or drops
\* some.
LEMMA FramesMoved ==
    ASSUME IInv, outbound' \cup held' \subseteq Frames,
           UNCHANGED <<time, clock_ms, registry, online, generations, announce_gates, last, paths,
                       announce_cache, announce_schedule, reverse, links, discoveries, answered>>
    PROVE  Evolve
<1>1. LastEvolves /\ ClockEvolves /\ FramesEvolve
  BY LastQuiet, ClockTicks, FramesShrink
<1>2. InterfacesEvolve
  BY <1>1, GatesQuiet DEF SameRegistry
<1>3. PathsEvolve /\ ReverseEvolves /\ LinksEvolve /\ DiscoveriesEvolve /\ AnnouncesEvolve
  BY <1>1, QuietTables DEF SameRegistry
<1>. QED
  BY <1>1, <1>2, <1>3 DEF Evolve

\* `poll_tx_for_interface` and the end of a transmission are evolutions.
LEMMA DriverStep ==
    ASSUME IInv, Driver
    PROVE  Evolve
<1>1. UNCHANGED <<time, clock_ms, registry, online, generations, announce_gates, last, paths,
                  announce_cache, announce_schedule, reverse, links, discoveries, answered>>
  BY Zenon DEF Driver, poll_tx_for_interface, DriverDone, interfaceVars, announceVars
<1>2. ASSUME NEW id, poll_tx_for_interface(id)
      PROVE  outbound' \cup held' \subseteq Frames
  <2> DEFINE Q == expire_outbound(clock_ms)
  <2>1. \/ \E f \in FrameToPoll(Q, id) : held' = held \cup {f} /\ outbound' = Q \ {f}
        \/ outbound' = Q /\ held' = held
    BY <1>2 DEF poll_tx_for_interface
  <2>2. FrameToPoll(Q, id) \subseteq Q
    BY DEF FrameToPoll, Foremost, QueuedFor, GatedFor
  <2>3. Q \subseteq outbound
    BY ExpireShrinks
  <2> HIDE DEF Q
  <2>. QED
    BY <2>1, <2>2, <2>3 DEF Frames
<1>3. ASSUME NEW f \in held, DriverDone(f)
      PROVE  outbound' \cup held' \subseteq Frames
  BY <1>3 DEF DriverDone, Frames
<1>. QED
  BY <1>1, <1>2, <1>3, FramesMoved DEF Driver

\* So is a step that changes nothing.
LEMMA StutterStep ==
    ASSUME IInv, UNCHANGED vars
    PROVE  Evolve
  BY FramesMoved DEF vars, interfaceVars, announceVars, Frames

----------------------------------------------------------------------------
(* Every step                                                                *)

\* Receiving any packet is an evolution.
LEMMA IngestStep ==
    ASSUME IInv, Ingest
    PROVE  Evolve
  BY DroppedStep, AnnounceStep, PathRequestStep, DataStep, ProofStep, LinkRequestStep,
     LrproofStep, LinkPacketStep, PlainStep, Zenon DEF Ingest

\* Any call of the host is an evolution.
LEMMA HostStep ==
    ASSUME IInv, Host
    PROVE  Evolve
  BY AdvanceStep, RegisterStep, UnregisterStep, OfflineStep, OnlineStep, SendLocalStep,
     ResetStep, DropPathStep, RequestPathStep, Zenon DEF Host

\* Every step is an evolution.
LEMMA NextEvolves ==
    ASSUME IInv, [Next]_vars
    PROVE  Evolve
  BY IngestStep, TickStep, HostStep, DriverStep, StutterStep DEF Next

-----------------------------------------------------------------------------
(* The theorems                                                            *)

\* `new_router` establishes the inductive invariant.
LEMMA InitInvariant ==
    ASSUME Init
    PROVE  IInv
<1>1. TypeOK
  <2>1. /\ time \in Nat /\ clock_ms \in Nat /\ clock_ms <= time
        /\ generations \in [Slots -> Nat] /\ announce_gates \in [Slots -> Nat]
        /\ last \in [interface : Nat, path : Nat, reverse : Nat, link : Nat,
                     discovery : Nat, delivery : Nat]
    BY DEF Init
  <2>2. registry \in [Slots -> Ids \cup {NoId}] /\ online \subseteq Registered
    BY Zenon, RegistryAssumption DEF Init, Registered
  <2>3. /\ Frames = {} /\ paths = {} /\ announce_cache = {} /\ announce_schedule = {}
        /\ reverse = {} /\ links = {} /\ discoveries = {}
    BY DEF Init, Frames
  <2>. QED
    BY ZenonT(30), <2>1, <2>2, <2>3 DEF TypeOK
<1>2. RegistrationOK /\ GenerationsIssued
  BY RegistryAssumption DEF Init, RegistrationOK, GenerationsIssued, Frames
<1>3. /\ RoutesUnique /\ ReverseUnique /\ LinksUnique
      /\ RoutesNameLiveInterfaces /\ ProofReturnedOnce
  BY Zenon DEF Init, RoutesUnique, ReverseUnique, LinksUnique, RoutesNameLiveInterfaces,
     ProofReturnedOnce
<1>4. /\ CacheMatchesPath /\ ScheduleMatchesPath
      /\ RequestersAreCurrent /\ PendingTargetsAreAllowed
  BY Zenon DEF Init, CacheMatchesPath, ScheduleMatchesPath, RequestersAreCurrent,
     PendingTargetsAreAllowed
<1>5. TokensNameTheirOwner /\ GatesCover /\ AnnouncesAreSpaced
  BY Zenon DEF Init, Frames, TokensNameTheirOwner, GatesCover, AnnouncesAreSpaced
<1>. QED
  BY <1>1, <1>2, <1>3, <1>4, <1>5 DEF IInv

\* The inductive invariant holds in every state the router reaches.
THEOREM InductiveInvariant == Spec => []IInv
<1>1. IInv /\ [Next]_vars => IInv'
  BY NextEvolves, EvolveInvariant
<1>. QED
  BY InitInvariant, <1>1, PTL DEF Spec

\* Every table, counter, gate and queued frame stays well formed, and no
\* generation in use is 0, under every handler, tick, host call and driver
\* call of the router (src/transport.rs, src/transport/router.rs).
THEOREM TypeCorrect == Spec => []TypeOK
<1>1. IInv => TypeOK
  BY DEF IInv
<1>. QED
  BY InductiveInvariant, <1>1, PTL

\* No path, reverse entry, link or scheduled announce outlives its interface:
\* `retire_router_interface` and the handlers' checks leave none behind.
THEOREM RoutesLive == Spec => []RoutesNameLiveInterfaces
<1>1. IInv => RoutesNameLiveInterfaces
  BY DEF IInv
<1>. QED
  BY InductiveInvariant, <1>1, PTL

\* `handle_proof` returns at most one proof for each forwarded packet: the
\* reverse generation it consumed is never in the table again.
THEOREM ProofOnce == Spec => []ProofReturnedOnce
<1>1. IInv => ProofReturnedOnce
  BY DEF IInv
<1>. QED
  BY InductiveInvariant, <1>1, PTL

\* What the handlers tie a frame to is never mistaken: whatever entry of the path,
\* reverse, link or discovery table a queued or driver-held frame's generations
\* resolve to is the one whose header, destination and interface it carries.
THEOREM TokensNamed == Spec => []TokensNameTheirOwner
<1>1. IInv => TokensNameTheirOwner
  BY DEF IInv
<1>. QED
  BY InductiveInvariant, <1>1, PTL

\* `answer_path_request` answers with what it routes by: the cached announce of a
\* destination is the one that taught its path, at the same distance, through
\* evictions, expiry, retirements and resets of either table.
THEOREM CacheAgrees == Spec => []CacheMatchesPath
<1>1. IInv => CacheMatchesPath
  BY DEF IInv
<1>. QED
  BY InductiveInvariant, <1>1, PTL

\* A discovery's bits are for the registrations that set them: whatever takes a
\* slot's registration away (`retire_router_interface`, `register_interface`, a
\* reset) clears its bit.
THEOREM RequestersCurrent == Spec => []RequestersAreCurrent
<1>1. IInv => RequestersAreCurrent
  BY DEF IInv
<1>. QED
  BY InductiveInvariant, <1>1, PTL

\* The slots a scheduled announce is still owed to hold interfaces that
\* `announce_egress_allowed` admits, whatever was registered there meanwhile.
THEOREM PendingAllowed == Spec => []PendingTargetsAreAllowed
<1>1. IInv => PendingTargetsAreAllowed
  BY DEF IInv
<1>. QED
  BY InductiveInvariant, <1>1, PTL

\* `release_gated_announces` keeps the announce cap: two announces to one
\* registration of an interface are its spacing apart, for every configuration.
THEOREM AnnouncesSpaced == Spec => []AnnouncesAreSpaced
<1>1. IInv => AnnouncesAreSpaced
  BY DEF IInv
<1>. QED
  BY InductiveInvariant, <1>1, PTL

\* `insert_or_update` never rolls a live path back, and no other call does.
THEOREM NoRollback == Spec => PathsAreNotRolledBack
<1>1. IInv /\ [Next]_vars => [RollsNoPathBack]_vars
  BY NextEvolves DEF Evolve, PathsEvolve
<1>. QED
  BY InductiveInvariant, <1>1, PTL DEF Spec, PathsAreNotRolledBack

\* `insert_or_update` displaces a live ordinary path only for an ordinary one, when
\* no bulk path is left.
THEOREM BulkYields == Spec => BulkPathsYield
<1>1. IInv /\ [Next]_vars => [DisplacesBulkFirst]_vars
  BY NextEvolves DEF Evolve, PathsEvolve
<1>. QED
  BY InductiveInvariant, <1>1, PTL DEF Spec, BulkPathsYield

\* `handle_link_request` evicts no live link: one leaves the table before its
\* deadline only when a registration of its interfaces ends.
THEOREM LinksStay == Spec => LinksAreNotEvicted
<1>1. IInv /\ [Next]_vars => [KeepsLiveLinks]_vars
  BY NextEvolves DEF Evolve, LinksEvolve
<1>. QED
  BY InductiveInvariant, <1>1, PTL DEF Spec, LinksAreNotEvicted

\* `router_outbound_is_live` is final: once it has answered no for a frame that
\* the queue or a driver still holds, no later state of the tables, the
\* registry or the clock makes it answer yes.
THEOREM DeadForever == Spec => DeadFramesStayDead
<1> DEFINE Stays == \A f \in Frames : f \in Frames' /\ ~router_outbound_is_live(f, time)
                                        => ~router_outbound_is_live(f, time)'
<1>1. IInv /\ [Next]_vars => [Stays]_vars
  <2> SUFFICES ASSUME IInv, [Next]_vars PROVE Stays
    OBVIOUS
  <2>1. Evolve
    BY NextEvolves
  <2>. QED
    BY <2>1, LiveWasLive
<1> HIDE DEF Stays
<1>2. Spec => [][Stays]_vars
  BY InductiveInvariant, <1>1, PTL DEF Spec
<1>. QED
  BY <1>2 DEF Stays, DeadFramesStayDead
=============================================================================
