-------------------------- MODULE RetainedOutbound ------------------------
(***************************************************************************)
(* Outbound queue of an endpoint and the host that drains it (transport.rs *)
(* for the Endpoint model, model.rs).  A queued row names the interfaces   *)
(* it may still go out on.  The host selects a row, hands its bytes to     *)
(* drivers while the node goes on working, and then acknowledges the       *)
(* interfaces that took it.  Interfaces reconnect under a new generation,  *)
(* are replaced, suspended or lost at any moment in between.               *)
(***************************************************************************)
EXTENDS Options, Subsequences

CONSTANTS
    Interfaces,     \* interface IDs below 7, one target bit each
    Far,            \* an interface ID beyond the target bits
    Modes,
    OUTBOUND,       \* capacity of the queue
    MaxIdentity,    \* bound: frames queued or refused
    MaxGeneration   \* bound: generations of all interfaces

ASSUME RetainedAssumption ==
    /\ Far \notin Interfaces
    /\ \A g \in 0 .. MaxGeneration, m \in Modes : None # [generation |-> g, mode |-> m]
    /\ OUTBOUND \in Nat \ {0} /\ {MaxIdentity, MaxGeneration} \subseteq Nat

VARIABLES
    outbound,       \* the queue: sequence of rows, oldest first
    facts,          \* interface -> [generation, mode], or None
    retained,       \* retained_owner_mode
    identity,       \* last_delivery_identity
    stats,          \* [queued, dropped]
    generations,    \* the host's registry: interface -> generation, 0 when absent
    issued,         \* last generation the host issued
    held,           \* copy of the row the host is sending, or None
    sent,           \* history: <<identity, interface, generation>> handed to drivers
    finished,       \* history: rows acknowledged in full, taken or polled
    refused,        \* history: frames refused before they were queued
    born            \* history: identity -> generation each interface had, or first got

nodeVars == <<outbound, facts, retained, identity, stats>>
hostVars == <<generations, issued, held>>
ghostVars == <<sent, finished, refused, born>>
retainedVars == <<nodeVars, hostVars, ghostVars>>

\* What a row depends on besides its age: a forwarded one (on its own interface)
\* a path or a transit link, others nothing.
Needs(interface, reason) ==
    IF reason = "own" /\ interface # Far THEN {"nothing", "path", "link"} ELSE {"nothing"}

RetainedInit ==
    /\ outbound = <<>>
    /\ facts = [i \in Interfaces |-> None]
    /\ retained = FALSE
    /\ identity = 0
    /\ stats = [queued |-> 0, dropped |-> 0]
    /\ generations = [i \in Interfaces |-> 0]
    /\ issued = 0
    /\ held = None
    /\ sent = {}
    /\ finished = 0
    /\ refused = 0
    /\ born = <<>>

\* expire_outbound on queue q: stale rows go and are counted.
Expired(q) == Only(q, {k \in DOMAIN q : q[k].live})

Counted(before, after) == [stats EXCEPT !.dropped = @ + Len(before) - Len(after)]

---------------------------------------------------------------------------
(* Work the node queues.                                                   *)

\* delivery() of the Endpoint model: every target, nothing decided yet.
NewRow(id, interface, reason, needs) ==
    [id |-> id, interface |-> interface, reason |-> reason, needs |-> needs, live |-> TRUE,
     targets |-> Interfaces, generations |-> [i \in Interfaces |-> 0], initialized |-> FALSE]

\* enqueue: a frame beyond the interface's budget is refused, a full queue drops
\* its oldest row.
Enqueue(interface, reason, needs, fits) ==
    /\ identity + refused < MaxIdentity
    /\ IF ~fits
         THEN /\ stats' = [stats EXCEPT !.dropped = @ + 1]
              /\ refused' = refused + 1
              /\ UNCHANGED <<outbound, identity, born>>
         ELSE /\ identity' = identity + 1
              /\ LET full == Len(outbound) = OUTBOUND
                     rest == IF full THEN Tail(outbound) ELSE outbound
                 IN  /\ outbound' = Append(rest, NewRow(identity + 1, interface, reason, needs))
                     /\ stats' = [queued |-> stats.queued + 1,
                                  dropped |-> stats.dropped + IF full THEN 1 ELSE 0]
              /\ born' = Append(born, generations)
              /\ UNCHANGED refused
    /\ UNCHANGED <<facts, retained, hostVars, sent, finished>>

\* observe: a packet from an interface the host never registered.
Observe(i, mode) ==
    /\ facts[i] = None
    /\ facts' = [facts EXCEPT ![i] = [generation |-> 1, mode |-> mode]]
    /\ UNCHANGED <<outbound, retained, identity, stats, hostVars, ghostVars>>

\* A row's age runs out, or the state it depends on is gone.
GoesStale(k) ==
    /\ outbound[k].live
    /\ outbound' = [outbound EXCEPT ![k].live = FALSE]
    /\ UNCHANGED <<facts, retained, identity, stats, hostVars, ghostVars>>

\* The part of tick that touches the queue.
Tick ==
    /\ outbound' = Expired(outbound)
    /\ stats' = Counted(outbound, outbound')
    /\ UNCHANGED <<facts, retained, identity, hostVars, ghostVars>>

---------------------------------------------------------------------------
(* Interfaces.                                                             *)

\* Mutant: only rows that were already selected lose an interface's permission.
RetireSelected(q, i) ==
    [k \in DOMAIN q |-> IF q[k].initialized THEN [q[k] EXCEPT !.targets = @ \ {i}] ELSE q[k]]

\* retained_outbound_retire_interface on the queue: rows never selected too.
Retire(q, i) == [k \in DOMAIN q |-> [q[k] EXCEPT !.targets = @ \ {i}]]

\* Routes through interface i are gone: what needs them is stale.
Unrouted(q, i, needs) ==
    [k \in DOMAIN q |-> IF q[k].interface = i /\ q[k].needs \in needs
                          THEN [q[k] EXCEPT !.live = FALSE] ELSE q[k]]

\* retire_replaced_interface on the queue.
Replaced(q, i) == Expired(Unrouted(Retire(q, i), i, {"path", "link"}))

\* update_interface: another mode is a replacement, another generation or the
\* loss of outbound a reconnect.
update_interface(i, generation, mode, out) ==
    LET previous == facts[i]
        q == IF previous = None THEN outbound
             ELSE IF previous.mode # mode THEN Replaced(outbound, i)
             ELSE IF previous.generation # generation \/ ~out THEN Retire(outbound, i)
             ELSE outbound
    IN  /\ outbound' = q
        /\ stats' = Counted(outbound, q)
        /\ facts' = [facts EXCEPT ![i] = [generation |-> generation, mode |-> mode]]

\* The host registers an interface, again or for the first time.
Register(i, mode) ==
    /\ issued < MaxGeneration
    /\ issued' = issued + 1
    /\ generations' = [generations EXCEPT ![i] = issued + 1]
    /\ update_interface(i, issued + 1, mode, TRUE)
    /\ born' = [id \in DOMAIN born |->
                  IF born[id][i] = 0 THEN [born[id] EXCEPT ![i] = issued + 1] ELSE born[id]]
    /\ UNCHANGED <<retained, identity, held, sent, finished, refused>>

\* It suspends one without a new generation.
Suspend(i) ==
    /\ generations[i] # 0 /\ facts[i] # None
    /\ update_interface(i, generations[i], facts[i].mode, FALSE)
    /\ UNCHANGED <<retained, identity, hostVars, ghostVars>>

\* A driver disappears; the host's registry knows before the node does.
DriverGone(i) ==
    /\ generations[i] # 0
    /\ generations' = [generations EXCEPT ![i] = 0]
    /\ UNCHANGED <<nodeVars, issued, held, ghostVars>>

\* The host removes an interface for good (retire_replaced_interface).
Unregister(i) ==
    /\ facts[i] # None
    /\ generations' = [generations EXCEPT ![i] = 0]
    /\ facts' = [facts EXCEPT ![i] = None]
    /\ outbound' = Replaced(outbound, i)
    /\ stats' = Counted(outbound, outbound')
    /\ UNCHANGED <<retained, identity, issued, held, ghostVars>>

\* update_interface_packet_capacity, with another budget: only for the current
\* generation; it removes the transit links of the interface.
update_interface_packet_capacity(i, generation) ==
    /\ facts[i] # None
    /\ generation # 0 /\ facts[i].generation = generation
    /\ outbound' = Expired(Unrouted(outbound, i, {"link"}))
    /\ stats' = Counted(outbound, outbound')
    /\ UNCHANGED <<facts, retained, identity, hostVars, ghostVars>>

---------------------------------------------------------------------------
(* The host drains the queue.                                              *)

\* The interfaces a reason selects.
Selected(row) ==
    CASE row.reason = "own"    -> {row.interface} \cap Interfaces
      [] row.reason = "others" -> Interfaces \ {row.interface}
      [] row.reason = "all"    -> Interfaces

\* The first selection fixes targets and generations; every one drops targets
\* whose generation is gone or changed.
Permitted(row) ==
    LET chosen == IF row.initialized THEN row.targets ELSE row.targets \cap Selected(row)
        gens == IF row.initialized THEN row.generations ELSE generations
    IN  [row EXCEPT !.targets = {i \in chosen : generations[i] # 0 /\ generations[i] = gens[i]},
                    !.generations = gens, !.initialized = TRUE]

\* Mutant: rows that lost their last target are removed without being counted.
SelectUncounted(before, after) == stats

\* Rows that lost their last target leave the queue and are counted.
SelectCounted(before, after) == Counted(before, after)

\* A copy of the first row after an identity with a target that is not blocked.
Copy(rows, after, blocked) ==
    LET found == {k \in DOMAIN rows : rows[k].id > after /\ rows[k].targets \ blocked # {}}
    IN  IF found = {} THEN None
        ELSE LET row == rows[CHOOSE k \in found : \A j \in found : k <= j]
             IN  [id |-> row.id, targets |-> row.targets \ blocked,
                  generations |-> row.generations, completed |-> {}]

\* retained_outbound_select after an identity, blocked interfaces left aside.
Select ==
    /\ held = None
    /\ retained' = TRUE
    /\ LET fresh == Expired(outbound)
           permitted == [k \in DOMAIN fresh |-> Permitted(fresh[k])]
           rows == Only(permitted, {k \in DOMAIN permitted : permitted[k].targets # {}})
       IN  /\ outbound' = rows
           /\ stats' = [SelectCounted(fresh, rows) EXCEPT !.dropped = @ + Len(outbound) - Len(fresh)]
    /\ \E after \in 0 .. identity, blocked \in SUBSET Interfaces :
          held' = Copy(outbound', after, blocked)
    /\ UNCHANGED <<facts, identity, generations, issued, ghostVars>>

\* A driver takes the copy, if its interface is still the one it was selected for.
Send(i) ==
    /\ held # None
    /\ i \in held.targets
    /\ generations[i] = held.generations[i]
    /\ held' = [held EXCEPT !.targets = @ \ {i}, !.completed = @ \cup {i}]
    /\ sent' = sent \cup {<<held.id, i, generations[i]>>}
    /\ UNCHANGED <<nodeVars, generations, issued, finished, refused, born>>

\* retained_outbound_ack: the row, if it is still there, loses the targets that
\* are done, and goes when none is left.
Ack ==
    /\ held # None
    /\ held' = None
    /\ LET at == {k \in DOMAIN outbound : outbound[k].id = held.id /\ outbound[k].initialized}
       IN  IF at = {} THEN UNCHANGED <<outbound, finished>>
           ELSE LET k == CHOOSE k \in at : TRUE
                    left == outbound[k].targets \ held.completed
                IN  IF left = {}
                      THEN /\ outbound' = Only(outbound, DOMAIN outbound \ {k})
                           /\ finished' = finished + 1
                      ELSE /\ outbound' = [outbound EXCEPT ![k].targets = left]
                           /\ UNCHANGED finished
    /\ UNCHANGED <<facts, retained, identity, stats, generations, issued, sent, refused, born>>

\* retained_outbound_take: the host becomes the owner of the row.
Take ==
    /\ held # None /\ held.completed = {}
    /\ held' = None
    /\ \E k \in DOMAIN outbound :
          /\ outbound[k].id = held.id
          /\ outbound' = Only(outbound, DOMAIN outbound \ {k})
    /\ finished' = finished + 1
    /\ UNCHANGED <<facts, retained, identity, stats, generations, issued, sent, refused, born>>

\* poll_tx, for a host that never selected.
poll_tx ==
    /\ ~retained
    /\ LET fresh == Expired(outbound)
       IN  /\ outbound' = IF fresh = <<>> THEN fresh ELSE Tail(fresh)
           /\ stats' = Counted(outbound, fresh)
           /\ finished' = IF fresh = <<>> THEN finished ELSE finished + 1
    /\ UNCHANGED <<facts, retained, identity, hostVars, sent, refused, born>>

RetainedNext ==
    \/ \E interface \in Interfaces \cup {Far}, reason \in {"own", "others", "all"},
          fits \in BOOLEAN :
          /\ reason = "all" => interface = Far
          /\ \E needs \in Needs(interface, reason) : Enqueue(interface, reason, needs, fits)
    \/ \E k \in DOMAIN outbound : GoesStale(k)
    \/ Tick
    \/ \E i \in Interfaces :
          \/ \E mode \in Modes : Observe(i, mode) \/ Register(i, mode)
          \/ Suspend(i)
          \/ DriverGone(i)
          \/ Unregister(i)
          \/ update_interface_packet_capacity(i, generations[i])
          \/ Send(i)
    \/ Select
    \/ Ack
    \/ Take
    \/ poll_tx

RetainedSpec == RetainedInit /\ [][RetainedNext]_retainedVars

---------------------------------------------------------------------------
\* Bytes queued for one incarnation of an interface never go out on a later one:
\* a row sent on an interface is sent under the generation that interface had
\* when the row was queued, or the first it got since, even when the interface
\* reconnects between queueing, selection and sending.
ReplacementsGetNothingOld ==
    \A s \in sent : s[3] = born[s[1]][s[2]]

\* Every frame is accounted for: it is queued, was handed over, or is counted as
\* dropped, once.
NoFrameVanishes ==
    stats.queued + refused = Len(outbound) + finished + stats.dropped
===========================================================================
