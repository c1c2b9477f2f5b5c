# A TLA+ model of rsReticulumLite

rsReticulumLite is an allocation-free Reticulum node: a state machine of fixed-capacity
tables that the host drives with packets, a clock and a few calls, and that hands queued
frames to interface drivers. Beside the router it offers the parts a host's endpoint needs:
the link handshake and link sessions, resource transfer, LoRa framing, and key, peer and
announce state that the host keeps in durable storage. This
directory holds models of these parts, the runs that check them with TLC on small
instances, and proofs that TLAPS checks for every instance.

What makes the router hard to get right is that **a queued frame does not own the routing
state it depends on**. A frame carries tokens: the generation of its path, the generation
of its reverse, link or discovery entry, and the registration generation of its interface.
The tables keep changing while the frame waits, and after a driver has polled it. Most of
the properties below are about what those tokens can come to mean.

## The system and its parts

| part | source | status |
| --- | --- | --- |
| bounded tables | `tables.rs` | modelled: `Tables`; the ring buffer: `RingQueue`, `Fifo` |
| ingress and packet handlers | `transport.rs`, `transport/router.rs` | modelled: `Router` |
| outbound queue, frame lifetimes | `transport.rs`, `transport/router.rs` | modelled: `RouterState`, `Router` |
| announce schedule and cap | `transport.rs`, `announce_cap.rs` | modelled: `Router`, `AnnouncePacing` |
| announce admission | `announce_admission.rs` | modelled: `AnnouncePacing` |
| recursive discovery | `discovery.rs` | modelled: `Tables`, `Router` |
| interface registry, host calls | `model.rs`, `config.rs`, `transport/router.rs` | modelled: `RouterState`, `Router`, `NodeSetup` |
| configuration | `config.rs` | modelled: `NodeSetup` |
| local destinations and links | `transport.rs`, `transport/router.rs` | partly: `NodeSetup`; delivery to the host is not modelled |
| endpoint model (single owner) | `transport.rs`, `model.rs` | partly: its retained queue, `RetainedOutbound` |
| link handshake | `link.rs`, `link_session.rs`, `transport.rs` | modelled: `LinkHandshake` |
| responder link session | `link_session.rs` | modelled: `LinkSession` |
| resource transfer, advertisement watchdog | `resource.rs` | modelled: `ResourceAdv`, `AdvExchange`, `ResourceWindow`, `WindowRounds`, `ResourceTransfer` |
| LoRa framing and airtime | `lora.rs` | modelled: `LoraLink` |
| announce wire state | `announce_state.rs` | modelled: `AnnounceState` |
| ratchet ring, peer ratchets | `ratchet.rs` | modelled: `RatchetAges`, `RatchetRing`, `PeerRatchets` |
| known destinations | `known_destinations.rs` | modelled: `KnownDestinations` |
| seen messages, packet proofs | `proof.rs` | partly: `SeenMessages`; proofs are cryptography |
| wire formats, IFAC, identity, cryptography, tunnels, auto interface | the rest | not modelled: pure functions over bytes |

## Modules

- **`Tables`** — the tables as sets of records and their operations as operators. An
  operator that must choose a victim among equals returns the *set* of possible tables,
  since the order of array slots is not modelled. Entries carry their generation (`gen`).
- **`RouterState`** — constants, variables, interface facts, the lifetime of a frame and
  when it is live (`outbound_lifetime_is_live`, `router_outbound_is_live`), and admission
  to the outbound queue (`Admitted`, `Enqueue`, `QueueVictim`).
- **`Router`** — one action per packet kind, one for `tick`, one per host call, and the
  driver's two steps. A call of the node is one step: the node is single threaded and each
  handler runs to completion. The interleavings are those between calls.
- **`RouterProperties`** — the properties and the inductive invariant.
- **`MCRouter`** and `MCRouter_*.cfg` — the instances TLC checks.
- **`RouterEvolve`**, **`RouterLearnProofs`**, **`RouterForwardProofs`**, **`RouterProofs`** — the
  proofs: what any step may do and the lemmas the others share; one lemma per action, those
  that learn and those that forward; the theorems.
- **`LinkSession`** — a responder's session: one action per packet context that changes it,
  per host call, and for `tick`. `heard` is history.
- **`AnnounceState`** — the ordering value of the host's announces and its durable copy.
- **`RatchetAges`** — stamps by wall clock or uptime, and what they prove about a key's age.
- **`RatchetRing`** — the host's own keys and their rotation; `created` and `advertised` are
  history, the latter kept while the key has not really expired.
- **`PeerRatchets`** — the peers' keys, with the unbounded list of all peers as history and
  reference (`known`).
- **`EndpointProofs`** — proofs about `AnnounceState`, `RatchetRing`, `SeenMessages` and
  `LinkHandshake`; **`HostProofs`** about `LinkSession`, `ResourceTransfer`, `WindowRounds` and
  `RingQueue`; **`NodeProofs`** about `KnownDestinations`, `PeerRatchets`, `AnnouncePacing` and
  `NodeSetup`; **`InterfaceProofs`** about `RetainedOutbound` and `LoraLink`.
- **`Fifo`** — what callers of a queue are promised: a bounded sequence that gives up its
  oldest entry. **`RingQueue`** — the ring buffer of `tables.rs`, with head, length and slots;
  it implements `Fifo` when its slots are read from the head (`Promise`).
- **`NodeSetup`** — what a host may configure: configurations, interface descriptors and
  their validation, and the slots that own destinations share with terminated links.
- **`LinkHandshake`** — initiators, one relay and responders, of this and of other
  implementations, over a network that repeats and reorders. Keys are symbolic.
- **`RetainedOutbound`** — the endpoint's queue whose rows stay until the host has sent them
  everywhere, and a host that works through it while interfaces come and go.
- **`AnnouncePacing`** — the token bucket for received announces and the gate of an interface.
- **`ResourceAdv`** — advertisements: lengths, flags, encoding as key-value pairs, and what
  admission checks. **`AdvExchange`** sends them, altered or not. **`ResourceWindow`** — the
  request window as operators. **`WindowRounds`** runs it alone.
- **`ResourceTransfer`** — sender with watchdog, receiver and the packets between them. A part
  is placed by its truncated hash, and the instances have parts whose hashes collide.
- **`LoraLink`** — one radio link: framing, missed frames, reassembly, airtime limit.
- **`KnownDestinations`**, **`SeenMessages`** — the two stores, with the host that saves,
  crashes and restores.
- **`Options`** — the value of an absent option; **`PacketSizes`** — the sizes of packets;
  **`Subsequences`** — what `Vec::retain` leaves of a sequence, by the indices it keeps.
- **`MCEndpoint`**, **`MCPeers`**, **`MCInterfaces`**, **`MCAir`**, **`MCHost`** — the instances
  of the parts outside the router, several to a run; `MCResourceTransfer` has the resources
  that the last two share.

The parts outside the router do not share its tables; they meet it through packets that the
host passes on, so each is a specification of its own. `LinkHandshake` composes the three
roles of a handshake, of which the relay is the router's part seen from the ends.

How the router's state corresponds to the code:

| model | code |
| --- | --- |
| `paths`, `reverse`, `links`, `announce_cache`, `announce_schedule`, `packet_hashes`, `request_tags`, `discoveries` | the fields of `LiteNode` of the same names |
| `registry`, `online`, `generations`, `announce_gates` | the `Router` model's registry (slots kept), flags, registration generations and gates |
| `last` | the last value each counter has handed out |
| `outbound` | the queue; `identity` is the order of the frames in it |
| `held` | frames a driver has polled and not yet sent or discarded (external) |
| `clock_ms`, `time` | the node's clock, and the host's, which may be ahead of it |
| `answered`, `asked` in a discovery | history: reverse generations whose proof was queued; the registration a requester bit was set for |

Where the model abstracts:

- A packet is a record of what the handlers tell apart. Header parsing, IFAC and signature
  checks are the kind of the packet and its `valid` flag; sizes are small numbers compared
  with an MTU; a hash is the record's key.
- In `Router` an interface's announce spacing, the path lifetime of its mode, the discovery and link
  timeouts are constants (the spacing is computed in `AnnouncePacing`). Saturating
  additions of milliseconds are plain additions, because times stay far below 2^64.
- Counters keep their edge: `Limit` is the last value a counter can have, after which the
  code refuses (`checked_add`), and the runs reach it.
- Broadcast and gated release walk over the slots and queue frame by frame in the code.
  The model has them in closed form: the frames admitted, in slot order.
- In `Router` the announce rate limit may refuse any announce that is not a path response.
- Statistics, and the return value of a call, are left out, except where a property counts
  them (`RetainedOutbound`) or compares them (`RingQueue`).
- A Diffie-Hellman secret is the set of its two keys, a signature names its signer and what
  it covers; two distinct tokens are told apart by their HMAC, two resources by their hash.
- Where only differences of times matter, a time is kept as its distance from the present.
- In `LoraLink` the airtime of a frame is one constant, and a sequence value does not come
  round before a pending half expires (`RoundAssumption`): the host chooses both the sequence
  values and the timeout, and the framer relies on it.
- A packet of a link session is one whose decryption and signature checks passed: one that
  fails them leaves the session unchanged. Time counts from the link request.
- Storage writes are atomic, and storage returns what was written. Blobs keep what matters
  of their encoding: the flag that tells zero from no value, the two versions, and that
  uptime stamps come back as unknown ages. Keys are numbered as they are generated.
- A host's wall clock may be absent at any call, and is right when present. With a clock that
  was wrong when a key was stamped, its age means nothing, and the code cannot tell.

## Runs

The seven runs of the router are instances of `MCRouter`. The other five hold several parts
that share no variable with one another. The variable `part`, chosen in the initial state,
says which of them runs; the variables of the others keep one fixed initial value. So the
states of such a run are the states of its parts side by side, never their product, and each
property is checked on every behaviour of the part it is about.

Fairness is assumed in `host` only, for two of its parts. For a session the host's clock
advances, the host keeps calling `tick`, and it calls `teardown` when a tick says so, which
is what the module's documentation asks of it; nothing is assumed of the peer. For a
transfer time passes, the hosts poll the watchdog, ask again and assemble, which
`resource.rs` leaves to them, and a packet that is not lost arrives; the receiver may refuse
an advertisement any number of times. `MCHost` restates the fairness of the two modules for
their parts. All other properties are safety properties.

A handshake, an exchange of advertisements, a transfer or a drained queue may really stop,
when every attempt, resource or frame of its instance is used up. The step `Over` lets just
those parts rest, so that deadlock is checked for all the others.

| run | what happens in it | what it checks |
| --- | --- | --- |
| `forward` | Data forwarded over a path that is replaced, dropped or loses its interface while the frame waits or is in a driver's hands, and its proofs coming back | `TokensNameTheirOwner`, `RoutesNameLiveInterfaces`, `ProofReturnedOnce`, `DeadFramesStayDead`, `NothingRecordedUnsent` |
| `links` | Two link requests compete for one table entry, with their proofs and traffic from both sides while an interface goes down and up | `TokensNameTheirOwner`, `NothingRecordedUnsent`, `LinksAreNotEvicted` |
| `discovery` | Path requests from two interfaces that take turns in one registry slot, and a reset | `RequestersAreCurrent` |
| `announces` | Two announces are owed to an interface of depth one that also carries local traffic and goes down | `PendingTargetsAreAllowed` |
| `learn` | Announces of differing age, distance and class, in every order, for a table that holds two paths | `CacheMatchesPath`, `PathsAreNotRolledBack`, `BulkPathsYield` |
| `retries` | One announce is rebroadcast and retried with jitter while neighbours' copies and a newer announce arrive | `AnnouncesAreSpaced` |
| `bridge` | Plain broadcasts and path requests between a local client and two networks that share a queue of two | `NothingRecordedUnsent`, `LiveFramesAreNotLost` |
| `host`: session | A link session whose peer speaks at any time and then falls silent, with late handshakes, revivals, slow hosts and RTTs on both sides of the clamp | `TicksJudgeSilence`, `IdentityAndCloseAreFinal`, `SilentPeerIsClosed` |
| `host`: transfer | One transfer with two faults at any place, under fairness of the hosts and of the packets that are not lost | `TransfersConclude` |
| `host`: queue | Every operation of the ring buffer at every fill level, wrapped or not | `RingImplementsFifo` |
| `endpoint`: announce | Announce values prepared from a jumping or missing clock, stored, committed and emitted with restarts in between, up to the limit of the field | `AnnouncesAdvance` |
| `endpoint`: ring | A ring of two keys rotated from a wall clock that comes and goes and from uptime, with restarts between prepare, store, commit and advertise and with legacy blobs | `AdvertisedKeysAreKept`, `AgesAreConservative`, `StoredCandidatesCommit` |
| `endpoint`: seen | Messages delivered again and again, before and after the ring wraps and across restarts | `RecentMessagesAreStoredOnce` |
| `endpoint`: handshake | Links opened through a relay and directly, between ends of this and of other implementations, with packets repeated and reordered and a responder that restarts | `EndsAgree`, `RelayedProofsAreAccepted` |
| `endpoint`: adv | Payloads of the sizes around every block and packet boundary, advertised and admitted | `AdmittedTransfersFit` |
| `endpoint`: window | The request window with the real constants over any batches, rates and timeouts | `WindowStaysOpen` |
| `peers`: ratchets | Keys of three peers compete for a table of two that is saved and restored at any time | `PeersStayReachable` |
| `peers`: destinations | Three destinations compete for two places through lookups, learned keys, restarts and imports with a lagging clock | `RecencyIsUse` |
| `interfaces`: setup | Configurations, interfaces and local destinations set, replaced and reset in any order, with values on both sides of every limit | `SetupsStayUsable` |
| `interfaces`: retained | A host drains the retained queue of an endpoint while interfaces reconnect, are replaced and disappear between queueing, selection and sending | `ReplacementsGetNothingOld`, `NoFrameVanishes` |
| `air`: transfer | Resources whose parts collide in their map hashes are sent one after another over a lossy, duplicating link | `PayloadsArriveIntact`, `FailureIsEarned` |
| `air`: pacing | Announces arrive at any rate around the end of the grace interval and while the host exchanges the budget; admitted ones wait for the gate | `AnnouncesWithinBudget` |
| `air`: lora | Split packets over a lossy radio whose sequence values come round as halves expire, sent under the airtime limit | `ReassembledWasSent`, `OneWaitSuffices` |

All of these runs pass: the properties below hold on the instances.

The properties, in words:

- **`TokensNameTheirOwner`** — whatever entry a frame's token resolves to is the one the
  frame was built for.
- **`DeadFramesStayDead`** — a frame that has stopped being live is never live again.
- **`RoutesNameLiveInterfaces`** — no routing state outlives its interface.
- **`NothingRecordedUnsent`** — a step that queues nothing records nothing that only a sent
  packet may record.
- **`ProofReturnedOnce`** — a forwarded packet has at most one proof returned for it.
- **`LinksAreNotEvicted`** — a live link leaves the table only with one of its interfaces.
- **`RequestersAreCurrent`** — a discovery answers only the registrations that asked.
- **`PendingTargetsAreAllowed`** — an announce is owed only to interfaces it may go to.
- **`LiveFramesAreNotLost`** — the queue loses a live frame only to newer traffic of the same
  full interface.
- **`AnnouncesAreSpaced`** — announces released to a registration keep the cap's spacing.
- **`PathsAreNotRolledBack`**, **`BulkPathsYield`**, **`CacheMatchesPath`** — what late,
  farther, or bulk announces may and may not replace.
- **`TicksJudgeSilence`** — a session turns stale, and is to be torn down, exactly when the
  peer's silence warrants it, however often it was revived (`TimersFollowPeer`, proved, is why).
- **`SilentPeerIsClosed`** — a session that is open after its peer has fallen silent is closed in the end.
- **`IdentityAndCloseAreFinal`** — neither the first identity nor a close is ever undone.
- **`AnnouncesAdvance`** — announces carry growing values across restarts and clock jumps
  (`StoredBeforeUse`, proved, is why).
- **`AdvertisedKeysAreKept`** — an announced key is live and stored until it has really
  expired (`AgesAreConservative` is why).
- **`StoredCandidatesCommit`** — a rotation that was prepared is accepted when committed.
- **`PeersStayReachable`** — the bounded table of peers answers as the unbounded list would,
  for the peers it has room for.
- **`RingImplementsFifo`** — the ring buffer does what the bounded FIFO does, answers included.
- **`ReplacementsGetNothingOld`**, **`NoFrameVanishes`** — a frame leaves only on the
  incarnation of an interface it was queued for, and is queued, handed over or counted.
- **`AnnouncesWithinBudget`** — the bucket and the gate hold announces to their rates, and do
  not refuse one after a silence that pays for it.
- **`EndsAgree`**, **`RelayedProofsAreAccepted`** — the ends of a link agree on its ID, keys,
  mode and MTU, and a proof the relay lets through is one its initiator accepts.
- **`SetupsStayUsable`** — no sequence of setup calls leaves an interface without room for a
  packet, a queue share beyond the queue, or no slot for the node's own destination.
- **`AdmittedTransfersFit`** — the parts of an admitted resource add up to its token, in the
  receiver's buffer; what the sender builds is admitted.
- **`WindowStaysOpen`** — the request window keeps its floor and its ceiling.
- **`PayloadsArriveIntact`**, **`FailureIsEarned`**, **`TransfersConclude`** — only the payload
  that was advertised is delivered and proved; the watchdog fails a transfer only after all
  rounds in full; and neither end waits for ever.
- **`ReassembledWasSent`**, **`OneWaitSuffices`** — LoRa packets are never joined from two, and
  a sender that waited as told is not refused again.
- **`RecencyIsUse`**, **`RecentMessagesAreStoredOnce`** — the stores forget the least recently
  used destination, and the oldest message, first, through restarts.

### Bounds, and why they are enough

`MaxTime` (1 to 3) is as long as, or longer than, most lifetimes of the run, so entries and
frames expire while others live. Table capacities are 1 or 2, so that tables are full and
evict. `Limit` is 1 to 5, so that counters run out. `HeldMax` is 1: one frame in a driver's
hands, while any sequence of calls goes on. Packets may arrive any number of times, in any
order, so loss, duplication and reordering are all included. Each packet set has the rivals
its question needs: two routes, two links, two proofs, two requesters.

The session's peer may speak until `SilentFrom`, after the shorter handshake timeout, so
that an answer can race the expiry. `MaxTime` lies beyond every timer counted from then, and
a stale session gets `Patience`, more than any grace, from the moment it turned stale: the
bounds on time never keep a session open. The announce values end at 4, with wall
times below, at and above the values in use. The expiry of the ratchet ring is twice the
interval and the ring as short as the static assertion of the source allows, so that a full
ring must drop a key as soon as it may; `MaxKeys` is twice the ring. There is one peer, and
one known destination, more than places; peers and keys are symmetric.

The ring buffer has four slots, enough for a removal in the middle of a wrapped ring. There are
two handshake attempts of this implementation and one of another, two proofs, and
signallings on both sides of each limit. Set-up has three slots of which one may hold a link, and
descriptors and configurations at and beyond the limits. The retained queue has one row,
`MaxIdentity` frames and `MaxGeneration` generations.
Pacing shrinks a second to a few milliseconds; the arithmetic keeps its form. Advertisements
and the window use the real constants; `MaxRounds` lies beyond both thresholds. In `air`
three resources of one or two parts collide pairwise, with one loss or
duplication. With a third part and the resource whose build fails (27 million states,
twelve minutes) the same properties held; the run is kept smaller so that it is repeated. In
`host` one resource of three parts and one whose
build fails meet two faults. `MaxInFlight` only keeps the host from asking again while answers
are on their way. `LoraLink` has few sequence values, as many as its assumption allows; there
are more seen messages than places, and counts beyond a full turn.

## Proofs

TLAPS checks the theorems below for every value of the constants that the named assumptions
admit; TLC evaluates each assumption on the instances. All theorems have the form
`Spec => []Inv` or `Spec => ActionProperty`, and all rest on an inductive invariant, because
hardly any of the properties is inductive by itself. Each such invariant was first checked
with TLC on the instances, then proved with one lemma per action.

### The router (`RouterEvolve`, `RouterLearnProofs`, `RouterForwardProofs`, `RouterProofs`)

| theorem | states |
| --- | --- |
| `InductiveInvariant`, `TypeCorrect` | `[]IInv`, `[]TypeOK` |
| `RoutesLive` | `[]RoutesNameLiveInterfaces` |
| `ProofOnce` | `[]ProofReturnedOnce` |
| `TokensNamed` | `[]TokensNameTheirOwner` |
| `CacheAgrees` | `[]CacheMatchesPath` |
| `RequestersCurrent` | `[]RequestersAreCurrent` |
| `PendingAllowed` | `[]PendingTargetsAreAllowed` |
| `AnnouncesSpaced` | `[]AnnouncesAreSpaced` |
| `DeadForever`, `NoRollback`, `BulkYields`, `LinksStay` | `DeadFramesStayDead`, `PathsAreNotRolledBack`, `BulkPathsYield`, `LinksAreNotEvicted` |

They rest only on the assumptions of `RouterState` and `Router`: configurations and packets
have the right types, the initial registry names no interface twice (what `validate` checks),
and copies of one announce have one size, since its hash covers what it carries
(`CopiesAssumption`).

That an old frame cannot come back to life, and that its tokens never come to mean another
entry, needs that the next generation a counter issues is in use nowhere: not in a table, and
not in the hands of a frame. `IInv` therefore adds `GenerationsIssued` (every generation in use
is at most its counter), `RegistrationOK` (an interface has one slot, and an online one a
registration), `RoutesUnique`, `ReverseUnique` and `LinksUnique` (a generation belongs to one
entry), `ScheduleMatchesPath` (a scheduled announce has the distance of the path it taught)
and `GatesCover` (the gate of a slot stays shut until the spacing after each announce released to
its registration has passed).

The argument is in two halves. Each action is shown to be an *evolution* (`Evolve`): clocks
and counters only grow; an entry of a table is an old entry, possibly refreshed in the ways
its table allows, or one with a newly issued generation; a frame is an old frame or a new
one with issued tokens that names its owner and shuts its gate. One lemma per action
establishes this, and `NextEvolves` collects them. Then facts are proved about evolutions
alone, without looking at the actions again: `EvolveInvariant` (an evolution preserves `IInv`)
and `LiveWasLive` (a frame that is live after an evolution was live before it), from which
`DeadForever` follows. `NoRollback`, `BulkYields` and `LinksStay` go by the actions that write
the path and the link table.

### The other parts

| module | theorem | states | inductive invariant |
| --- | --- | --- | --- |
| `EndpointProofs` | `AnnounceInvariant`, `AnnouncesGrow` | `AnnouncesAdvance` | `StoredBeforeUse`: emitted ≤ live ≤ stored |
| | `RingInvariant`, `AnnouncedKeysDecrypt`, `AgesConservative`, `CandidatesCommit` | `AdvertisedKeysAreKept`, `AgesAreConservative`, `StoredCandidatesCommit` | `RingKept`: no stamp dates a key before it was made, and what is stored, and what is prepared to be, covers the live ring |
| | `StoredOnce` | `RecentMessagesAreStoredOnce` | `SeenKept`: the ring, read from its head, is the tail of what was stored |
| | `LinkEndsAgree`, `RelayedProofsAccepted` | `EndsAgree`, `RelayedProofsAreAccepted` | `HandshakeKept`: every packet, relay entry and session was made from the request of an attempt and the keys of one derivation |
| `HostProofs` | `SessionInvariant`, `TicksExact`, `IdentityAndCloseStay` | `TicksJudgeSilence`, `IdentityAndCloseAreFinal` | `TimersFollowPeer`: timers start when the peer was last heard |
| | `PayloadsIntact` | `PayloadsArriveIntact` | `ProofsAreEarned`: a proof on its way is of a resource that was assembled from its own parts |
| | `FailuresEarned` | `FailureIsEarned` | `DogKeepsTime`: rounds used up and age of the present one account for every tick spent advertising |
| | `WindowOpen` | `WindowStaysOpen` | the property, with the types |
| | `RingRefines` | `RingImplementsFifo` | `RingInv`: occupied slots are those from the head on |
| `NodeProofs` | `RecencyOrdersUse` | `RecencyIsUse` | `KnownKept`: no destination twice, and recencies order the uses, in the table and in the blob |
| | `PeersReachable` | `PeersStayReachable` | `PeerKept`: the table has its peers in the order of the reference list, no row's stamp dates its key before it was learned, and the first `PeersMax` of the list whose keys are good have a row; the same of the table in storage, in any boot |
| | `BudgetHeld` | `AnnouncesWithinBudget` | `PacingKept`: credit and drained flow together stay within one second's worth; the bucket's age is the quiet time; the gate stays shut for what the cap still owes |
| | `SetupsUsable` | `SetupsStayUsable` | `SetupKept`: a valid registry for the configured depth, and no more links in the pool than it may hold |
| `InterfaceProofs` | `ReplacementsClean`, `FramesAccounted` | `ReplacementsGetNothingOld`, `NoFrameVanishes` | `RetainedKept`: a row, the host's copy and what was sent name the generation their interface had when the row was queued, or first got after it |
| | `WaitIsEnough` | `OneWaitSuffices` | `WaitCovers`: a refused host still sleeps until the window it was refused in is over |
| | `HalvesBelong` | `ReassembledWasSent` | `HalvesAge`: a pending half is of the packet on the air, or has aged by the airtime of the packets after its own |

`RingRefines` is the refinement of `Fifo` by the ring buffer: under the mapping that reads the
slots from the head, each call is a step of `Fifo` or a stutter.

The assumptions are those the code or its constants justify: constants are numbers in the
order the source has them; a full ratchet ring spans an expiry (`RingAssumption`, the static
assertion of `ratchet.rs`); there are two more local slots than links may take
(`SetupAssumption`); a queue has room for a row (`RetainedAssumption`), and the peers' table
too (`PeersAssumption`); announces have a
longest airtime and rates are naturals (`PacingAssumption`); a LoRa sequence value comes round
no sooner than a half expires (`RoundAssumption`). The utilisation limit of the LoRa limiter is any
number, as the code does not clamp it.

`NodeProofs` first proves what the library cannot give these provers: induction over the
naturals for a property stated as a set (`Induction`), least and greatest members, and what
`Only` keeps of a sequence: as many elements as there are indices, in their order, all from the
original. `InterfaceProofs` needs less of `Only`, not the order, and proves that for itself: a
module that extends another with many lemmas is slow to prove.

### Only model-checked

- `SilentPeerIsClosed`, `TransfersConclude`: liveness under fairness.
- `AdmittedTransfersFit`: the lengths of all parts are added up with a fold, about which the
  provers know nothing.
- `NothingRecordedUnsent`, `LiveFramesAreNotLost`: statements about the exact set of frames a
  step queues, at all interfaces at once; `Evolve` says what the new frames may be and not how
  many there are.

## Not modelled

- Pure functions over bytes, which have no state to go wrong between calls: wire formats,
  IFAC, identity and announce validation, cryptography, tunnel packets, auto interface
  addresses, and the byte layout of outbound tokens. Where a length or a field of theirs
  decides something, the module that depends on it computes it.
- Handing local packets and watched announces to the host, which changes nothing in the node.
- The endpoint model's packet handlers: they are the router's, run with one owner.
- That an announce owed to an interface is released or expires in the end. The clock of
  `Router` stops at a bound, so the run could not tell a late release from none.
