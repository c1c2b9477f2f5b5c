------------------------------ MODULE LoraLink ----------------------------
(***************************************************************************)
(* A LoRa sender and receiver, from lora.rs: LoraFramer splits a packet    *)
(* over one or two frames and puts the halves together again, and          *)
(* AirtimeLimiter paces the sender.  Frames are heard in order, some are   *)
(* not heard at all.  Times are kept as distances from the present, which  *)
(* is all the code computes with: the age of the airtime window, the time  *)
(* left of a pending half and of the frame on the air.  The sender's host  *)
(* takes a new sequence number for each split packet and sleeps for        *)
(* wait_ms when it is refused.                                             *)
(***************************************************************************)
EXTENDS Options, Integers, Sequences

CONSTANTS
    FrameAir,               \* airtime of one frame
    window_ms,              \* length of the airtime window
    max_utilization_bps,    \* share of it the sender may use, in basis points
    split_timeout_ms,       \* lifetime of a pending half
    Sequences4              \* number of sequence values (16 for the four-bit field)

ASSUME LoraAssumption ==
    /\ {FrameAir, window_ms, split_timeout_ms, Sequences4} \subseteq Nat \ {0}
    /\ max_utilization_bps \in Nat

\* A sequence value comes round again no sooner than a pending half expires, also a
\* second half, whose first one was missed: it is followed by the frames of
\* Sequences4 - 1 split packets and the first frame of the next.
ASSUME RoundAssumption == (2 * Sequences4 - 1) * FrameAir >= split_timeout_ms

VARIABLES
    want,       \* kind of the packet the sender's host has to send, or None
    packet,     \* number of the next packet, modulo Sequences4 + 1
    sequence,   \* sequence value of the next split packet
    air,        \* frames still to be sent, the first one on the air
    left,       \* time until the frame on the air ends
    limiter,    \* AirtimeLimiter: age of its window and airtime used in it
    sleep,      \* time the sender's host still sleeps after a refusal
    refusals,   \* history: refusals of the packet in want
    pending,    \* LoraFramer of the receiver: sequence, half and time left, or None
    output      \* last packet the receiver put together

loraVars == <<want, packet, sequence, air, left, limiter, sleep, refusals, pending, output>>

Kinds == {"short", "long"}

LoraInit ==
    /\ want = None
    /\ packet = 0
    /\ sequence = 0
    /\ air = <<>>
    /\ left = 0
    /\ limiter = [age |-> 0, used |-> 0]
    /\ sleep = 0
    /\ refusals = 0
    /\ pending = None
    /\ output = None

\* One frame up to 254 bytes, two with the same sequence and the split flag beyond.
encode(kind, id, seq) ==
    IF kind = "short" THEN <<[sequence |-> seq, split |-> FALSE, payload |-> <<<<id, "all">>>>]>>
    ELSE <<[sequence |-> seq, split |-> TRUE, payload |-> <<<<id, "first">>>>],
           [sequence |-> seq, split |-> TRUE, payload |-> <<<<id, "second">>>>]>>

Airtime(kind) == FrameAir * Len(encode(kind, 0, 0))

budget_ms == (window_ms * max_utilization_bps) \div 10000

refresh(lim) == IF lim.age >= window_ms THEN [age |-> 0, used |-> 0] ELSE lim

\* Mutant: a frame longer than the whole budget never passes.
CanReserveWithinBudget(lim, airtime) ==
    lim.used + airtime <= IF budget_ms > 1 THEN budget_ms ELSE 1

\* Within the budget, or alone in an empty window.
can_reserve(lim, airtime) ==
    LET budget == IF budget_ms > 1 THEN budget_ms ELSE 1
    IN  \/ lim.used + airtime <= budget
        \/ lim.used = 0 /\ airtime > budget

wait_ms(lim) == window_ms - lim.age

Offer(kind) ==
    /\ want = None
    /\ want' = kind
    /\ refusals' = 0
    /\ UNCHANGED <<packet, sequence, air, left, limiter, sleep, pending, output>>

\* reserve for all frames of the packet, then the first goes on the air; when it
\* is refused the host sleeps as long as wait_ms says.
Reserve ==
    /\ want # None /\ air = <<>> /\ sleep = 0
    /\ LET lim == refresh(limiter)
       IN  IF can_reserve(lim, Airtime(want))
             THEN /\ limiter' = [lim EXCEPT !.used = @ + Airtime(want)]
                  /\ air' = encode(want, packet, sequence)
                  /\ left' = FrameAir
                  /\ packet' = (packet + 1) % (Sequences4 + 1)
                  /\ sequence' = IF want = "long" THEN (sequence + 1) % Sequences4 ELSE sequence
                  /\ want' = None
                  /\ UNCHANGED <<sleep, refusals>>
             ELSE /\ limiter' = lim
                  /\ sleep' = wait_ms(lim)
                  /\ refusals' = refusals + 1
                  /\ UNCHANGED <<want, packet, sequence, air, left>>
    /\ UNCHANGED <<pending, output>>

\* One unit of time; the limiter's age and a pending half stop counting once
\* their time is up, which is all the comparisons tell.
Elapse ==
    /\ air # <<>> => left > 0
    /\ left' = IF left > 0 THEN left - 1 ELSE 0
    /\ limiter' = [limiter EXCEPT !.age = IF @ < window_ms THEN @ + 1 ELSE @]
    /\ sleep' = IF sleep > 0 THEN sleep - 1 ELSE 0
    /\ pending' = IF pending = None \/ pending.left = 0 THEN pending
                  ELSE [pending EXCEPT !.left = @ - 1]
    /\ UNCHANGED <<want, packet, sequence, air, refusals, output>>

expire == IF pending # None /\ pending.left = 0 THEN None ELSE pending

\* Mutant: any pending half is completed.
CompletesAny(half, frame) == half # None

Completes(half, frame) == half # None /\ half.sequence = frame.sequence

\* ingest_frame: an unsplit frame stands alone, a split one completes the
\* pending half of its sequence or becomes the pending half.
ingest_frame(frame) ==
    LET half == expire
    IN  IF ~frame.split
          THEN output' = frame.payload /\ pending' = None
        ELSE IF Completes(half, frame)
          THEN output' = half.first \o frame.payload /\ pending' = None
        ELSE /\ pending' = [sequence |-> frame.sequence, first |-> frame.payload,
                            left |-> split_timeout_ms]
             /\ UNCHANGED output

FrameEnds ==
    /\ air # <<>> /\ left = 0
    /\ air' = Tail(air)
    /\ left' = IF Len(air) > 1 THEN FrameAir ELSE 0
    /\ UNCHANGED <<want, packet, sequence, limiter, sleep, refusals>>

Hear == FrameEnds /\ ingest_frame(Head(air))

Miss == FrameEnds /\ UNCHANGED <<pending, output>>

LoraNext ==
    \/ \E kind \in Kinds : Offer(kind)
    \/ Reserve
    \/ Elapse
    \/ Hear
    \/ Miss

LoraSpec == LoraInit /\ [][LoraNext]_loraVars

---------------------------------------------------------------------------
\* LoraFramer never hands up a packet that was not sent: no half is joined to a
\* half of another packet, however many frames are missed, since a half expires
\* before its sequence value comes round.
ReassembledWasSent ==
    \/ output = None
    \/ \E id \in 0 .. Sequences4 : output \in {<<<<id, "all">>>>, <<<<id, "first">>, <<id, "second">>>>}

\* A refused packet is admitted at the end of the wait AirtimeLimiter returned,
\* also one whose airtime exceeds the whole budget: a host that sleeps for
\* wait_ms is never refused again.
OneWaitSuffices == refusals <= 1
===========================================================================
