-------------------------- MODULE ResourceTransfer ------------------------
(***************************************************************************)
(* Resources sent one after another over a link: OutboundResource and      *)
(* AdvWatchdog at the sender, InboundResource at the receiver, and between *)
(* them packets that are delayed, reordered, lost or duplicated.  A        *)
(* resource stands for one build: payload, random tag and IV.  A part      *)
(* packet carries only ciphertext, so the receiver places it by its        *)
(* truncated map hash, which parts of two resources can share.             *)
(* The hosts decide when to build, poll, ask again and give up.            *)
(***************************************************************************)
EXTENDS Options, ResourceWindow, Sequences, FiniteSets

CONSTANTS
    Resources,          \* builds the sender's host may attempt
    PartLens,           \* resource -> sequence of the lengths of its parts
    MapHash(_, _),      \* truncated hash of a part under the tag of a resource
    MAX_ADV_RETRIES,
    Deadline,           \* rtt * TRAFFIC_TIMEOUT_FACTOR + ADV_PROCESSING_GRACE_MS, in ticks
    Rates,              \* rate classes the receiver's host measures
    MaxFaults,          \* bound: packets lost or duplicated
    MaxInFlight         \* bound: packets in transit when a timeout adds another

ASSUME TransferAssumption ==
    /\ None \notin Resources
    /\ Rates \subseteq RateClasses
    /\ {MAX_ADV_RETRIES, Deadline, MaxFaults, MaxInFlight} \subseteq Nat

VARIABLES
    built,      \* resources whose build was attempted
    out,        \* the OutboundResource: its hash and its parts
    sending,    \* the sender's host: "idle", "advertised", "serving", "done",
                \*   "failed" by its watchdog, "abandoned" by the host
    dog,        \* the AdvWatchdog
    recv,       \* the InboundResource, and the last part its host asked for
    net,        \* packets in transit
    faults,
    delivered,  \* history: payloads the receiver assembled
    waited      \* history: ticks spent advertising the current resource, to AllRounds

transferVars == <<built, out, sending, dog, recv, net, faults, delivered, waited>>

Parts(r) == [i \in DOMAIN PartLens[r] |-> <<r, i>>]

PartLen(p) == PartLens[p[1]][p[2]]

MapHashes(parts, r) == [i \in DOMAIN parts |-> MapHash(parts[i], r)]

has_map_hash_collision(maps) == \E i, j \in DOMAIN maps : i < j /\ maps[i] = maps[j]

Adv(r) == [type |-> "adv", resource |-> r]
Part(p) == [type |-> "part", part |-> p]
Req(r, wanted) == [type |-> "req", resource |-> r, wanted |-> wanted]
Proof(r, data) == [type |-> "proof", resource |-> r, data |-> data]

IdleReceiver == [state |-> "None", hash |-> None, maps |-> <<>>, slots |-> <<>>,
                 completed |-> 0, asked |-> 0, data |-> None, window |-> NewWindow]

NewDog == [age |-> 0, retries |-> 0, concluded |-> FALSE]

TransferInit ==
    /\ built = {}
    /\ out = [hash |-> None, parts |-> <<>>]
    /\ sending = "idle"
    /\ dog = NewDog
    /\ recv = IdleReceiver
    /\ net = {}
    /\ faults = 0
    /\ delivered = {}
    /\ waited = 0

---------------------------------------------------------------------------
(* The sender.                                                             *)

\* build_into and the first advertisement.  A collision among the resource's
\* own parts fails the build, when the old parts are gone but the old hash
\* stands; the host then tries another build.
Build(r) ==
    /\ sending \in {"idle", "done", "failed", "abandoned"}
    /\ r \notin built
    /\ built' = built \cup {r}
    /\ IF has_map_hash_collision(MapHashes(Parts(r), r))
         THEN /\ out' = [out EXCEPT !.parts = <<>>]
              /\ sending' = "idle"
              /\ UNCHANGED <<dog, net, waited>>
         ELSE /\ out' = [hash |-> r, parts |-> Parts(r)]
              /\ sending' = "advertised"
              /\ dog' = NewDog
              /\ net' = net \cup {Adv(r)}
              /\ waited' = 0
    /\ UNCHANGED <<recv, faults, delivered>>

\* The ticks of an advertisement and all its resends, each with its deadline.
AllRounds == (MAX_ADV_RETRIES + 1) * (Deadline + 1)

\* Time, as far as the watchdog tells it apart.
Tick ==
    /\ sending = "advertised"
    /\ dog.age <= Deadline
    /\ dog' = [dog EXCEPT !.age = @ + 1]
    /\ waited' = IF waited < AllRounds THEN waited + 1 ELSE waited
    /\ UNCHANGED <<built, out, sending, recv, net, faults, delivered>>

\* Mutant: a resend does not restart the deadline.
ResentUnmarked(d) == [d EXCEPT !.retries = @ + 1]

\* Mutant: a resend does not use up a retry.
ResentUncounted(d) == [d EXCEPT !.age = 0]

Resent(d) == [d EXCEPT !.retries = @ + 1, !.age = 0]

\* AdvWatchdog::poll, and the host's resend or cleanup.
Poll ==
    /\ sending = "advertised"
    /\ ~dog.concluded /\ dog.age > Deadline
    /\ IF dog.retries < MAX_ADV_RETRIES
         THEN /\ dog' = Resent(dog)
              /\ net' = net \cup {Adv(out.hash)}
              /\ UNCHANGED sending
         ELSE /\ dog' = [dog EXCEPT !.concluded = TRUE]
              /\ sending' = "failed"
              /\ UNCHANGED net
    /\ UNCHANGED <<built, out, recv, faults, delivered, waited>>

\* The parts a request names: none when it is for another resource.
requested_parts(m) ==
    {out.parts[i] : i \in {j \in DOMAIN out.parts :
        m.resource = out.hash /\ MapHashes(out.parts, out.hash)[j] \in m.wanted}}

\* A request for the live transfer concludes the watchdog and is served.
SenderRequest(m, rest) ==
    /\ IF sending \in {"advertised", "serving"} /\ m.resource = out.hash
         THEN /\ dog' = [dog EXCEPT !.concluded = TRUE]
              /\ sending' = "serving"
         ELSE UNCHANGED <<dog, sending>>
    /\ net' = rest \cup {Part(p) : p \in IF sending \in {"advertised", "serving"}
                                           THEN requested_parts(m) ELSE {}}
    /\ UNCHANGED <<built, out, recv, delivered, waited>>

\* validate_proof: the hash of this resource and the proof of its payload.
SenderProof(m, rest) ==
    /\ sending' = IF /\ sending \in {"advertised", "serving"}
                     /\ m.resource = out.hash /\ m.data = out.hash
                    THEN "done" ELSE sending
    /\ net' = rest
    /\ UNCHANGED <<built, out, dog, recv, delivered, waited>>

\* The sender's host gives a transfer up, for instance with its link.
GiveUp ==
    /\ sending = "serving"
    /\ sending' = "abandoned"
    /\ UNCHANGED <<built, out, dog, recv, net, faults, delivered, waited>>

---------------------------------------------------------------------------
(* The receiver.                                                           *)

WindowEnd ==
    IF recv.completed + recv.window.window < Len(recv.slots)
      THEN recv.completed + recv.window.window ELSE Len(recv.slots)

is_complete == recv.completed = Len(recv.slots)

\* build_part_request: the missing parts of the window.
build_part_request ==
    Req(recv.hash, {recv.maps[i] : i \in {j \in recv.completed + 1 .. WindowEnd :
                                             recv.slots[j] = None}})

Accepted(r) ==
    [state |-> "Transferring", hash |-> r, maps |-> MapHashes(Parts(r), r),
     slots |-> [i \in DOMAIN PartLens[r] |-> None], completed |-> 0,
     asked |-> 0, data |-> None, window |-> NewWindow]

Asked(r) == [r EXCEPT !.asked = LET end == r.completed + r.window.window
                                IN  IF end < Len(r.slots) THEN end ELSE Len(r.slots)]

\* An advertisement: of the transfer at hand, it is answered again; of another,
\* it replaces the transfer (from_advertisement_into).
ReceiverAdv(m, rest) ==
    /\ recv' = IF m.resource # recv.hash THEN Asked(Accepted(m.resource)) ELSE recv
    /\ net' = rest \cup
         (CASE recv'.state = "Transferring" /\ ~is_complete' -> {build_part_request'}
            [] recv'.state = "Assembled" -> {Proof(recv'.hash, recv'.data)}
            [] OTHER -> {})
    /\ UNCHANGED <<built, out, sending, dog, delivered, waited>>

\* An advertisement the receiver refuses (validate_adv) leaves it as it was, and
\* the sender without an answer.
ReceiverRefuses(m, rest) ==
    /\ m.resource # recv.hash
    /\ net' = rest
    /\ UNCHANGED <<built, out, sending, dog, recv, delivered, waited>>

\* Length and map hash fit slot i, which the current window covers.
Fits(p, i) ==
    /\ i \in recv.completed + 1 .. WindowEnd
    /\ recv.slots[i] = None
    /\ recv.maps[i] = MapHash(p, recv.hash)
    /\ PartLens[recv.hash][i] = PartLen(p)

\* The longest filled prefix, from what was already known to be filled.
Completed(slots, from) ==
    CHOOSE n \in from .. Len(slots) :
        /\ \A i \in from + 1 .. n : slots[i] # None
        /\ n < Len(slots) => slots[n + 1] = None

\* receive_part: the first slot that fits takes the part.
ReceiverPart(m, rest) ==
    LET fits == {i \in DOMAIN recv.slots : Fits(m.part, i)}
        slot == CHOOSE i \in fits : \A j \in fits : i <= j
        slots == [recv.slots EXCEPT ![slot] = m.part]
    IN  /\ recv' = IF recv.state = "Transferring" /\ fits # {}
                     THEN [recv EXCEPT !.slots = slots,
                                       !.completed = Completed(slots, recv.completed)]
                     ELSE recv
        /\ net' = rest
        /\ UNCHANGED <<built, out, sending, dog, delivered, waited>>

\* A batch is in: the host grows the window and asks for the next one.
NextBatch(rate) ==
    /\ recv.state = "Transferring" /\ ~is_complete
    /\ recv.completed >= recv.asked
    /\ recv' = Asked([recv EXCEPT !.window = grow(@, rate)])
    /\ net' = net \cup {build_part_request'}
    /\ UNCHANGED <<built, out, sending, dog, faults, delivered, waited>>

\* A timeout: the host shrinks the window and asks again.
AskAgain ==
    /\ recv.state = "Transferring" /\ ~is_complete
    /\ Cardinality(net) < MaxInFlight
    /\ recv' = Asked([recv EXCEPT !.window = shrink(@)])
    /\ net' = net \cup {build_part_request'}
    /\ UNCHANGED <<built, out, sending, dog, faults, delivered, waited>>

\* The payload a buffer decrypts to: the Token's HMAC covers all of its parts.
Decrypted(slots) ==
    IF \E r \in Resources : slots = Parts(r)
      THEN CHOOSE r \in Resources : slots = Parts(r) ELSE None

\* Mutant: the payload's hash is not compared with the advertised one.
HashVerified(data) == data # None

Verified(data) == data # None /\ data = recv.hash

\* assemble, and the proof the host sends after it.
Assemble ==
    /\ recv.state = "Transferring" /\ is_complete
    /\ LET data == Decrypted(recv.slots)
       IN  IF Verified(data)
             THEN /\ recv' = [recv EXCEPT !.state = "Assembled", !.data = data]
                  /\ net' = net \cup {Proof(recv.hash, data)}
                  /\ delivered' = delivered \cup {data}
             ELSE /\ recv' = [recv EXCEPT !.state = "Corrupt"]
                  /\ UNCHANGED <<net, delivered>>
    /\ UNCHANGED <<built, out, sending, dog, faults, waited>>

---------------------------------------------------------------------------
(* The network.                                                            *)

Handle(m, rest) ==
    \/ m.type = "adv" /\ (ReceiverAdv(m, rest) \/ ReceiverRefuses(m, rest))
    \/ m.type = "part" /\ ReceiverPart(m, rest)
    \/ m.type = "req" /\ SenderRequest(m, rest)
    \/ m.type = "proof" /\ SenderProof(m, rest)

Deliver(m) ==
    /\ m \in net
    /\ Handle(m, net \ {m})
    /\ UNCHANGED faults

\* A packet is delivered and arrives once more later.
Duplicate(m) ==
    /\ m \in net
    /\ faults < MaxFaults
    /\ Handle(m, net)
    /\ faults' = faults + 1

Lose(m) ==
    /\ m \in net
    /\ faults < MaxFaults
    /\ net' = net \ {m}
    /\ faults' = faults + 1
    /\ UNCHANGED <<built, out, sending, dog, recv, delivered, waited>>

TransferNext ==
    \/ \E r \in Resources : Build(r)
    \/ Tick
    \/ Poll
    \/ GiveUp
    \/ \E rate \in Rates : NextBatch(rate)
    \/ AskAgain
    \/ Assemble
    \/ \E m \in net : Deliver(m) \/ Duplicate(m) \/ Lose(m)

Packets ==
    UNION {{Adv(r), Proof(r, r)} \cup {Part(Parts(r)[i]) : i \in DOMAIN Parts(r)}
             \cup {Req(r, wanted) : wanted \in SUBSET {MapHash(Parts(r)[i], r) : i \in DOMAIN Parts(r)}}
           : r \in Resources}

\* Packets that are not lost arrive; the hosts poll, ask again and assemble.
TransferFairness ==
    /\ WF_transferVars(Tick) /\ WF_transferVars(Poll)
    /\ WF_transferVars(AskAgain) /\ WF_transferVars(Assemble)
    /\ \A m \in Packets : WF_transferVars(Deliver(m))

TransferSpec == TransferInit /\ [][TransferNext]_transferVars /\ TransferFairness

---------------------------------------------------------------------------
\* The payload InboundResource hands out is the advertised one, even when a late
\* part of another resource has taken a slot by a map hash collision; and the
\* sender takes a proof only for a payload the receiver holds verified.
PayloadsArriveIntact ==
    /\ recv.state = "Assembled" => recv.data = recv.hash /\ recv.slots = Parts(recv.hash)
    /\ sending = "done" => out.hash \in delivered

\* AdvWatchdog gives a transfer up only after every round ran its full time:
\* the first advertisement and each resend are given the whole deadline.
FailureIsEarned ==
    sending = "failed" => waited = AllRounds

\* Neither end waits for ever.  An advertised resource is, in the end, asked for,
\* proved or failed (AdvWatchdog).  A transfer both ends work on ends: whatever
\* order, loss and duplication did to its parts, the receiver fills every slot
\* and assembles, or takes on another resource, unless the sender's host
\* abandons it.
TransfersConclude ==
    /\ (sending = "advertised") ~> (sending # "advertised")
    /\ \A r \in Resources :
          (recv.state = "Transferring" /\ recv.hash = r /\ out.hash = r /\ sending = "serving")
            ~> (recv.state # "Transferring" \/ recv.hash # r \/ sending # "serving")
===========================================================================
