--------------------------- MODULE AnnouncePacing -------------------------
(***************************************************************************)
(* How announces are paced: the node-wide token bucket of                  *)
(* announce_admission.rs admits received announces, and the gate of        *)
(* announce_cap.rs spaces those a host sends on one interface.  Times are  *)
(* kept as distances from the present.  One unit of credit is a            *)
(* thousandth of an announce in the code; Milli is that thousand.          *)
(***************************************************************************)
EXTENDS Integers, FiniteSets, FiniteSetsExt

CONSTANTS
    Milli,              \* milliseconds per second, and credit per announce
    steady_per_sec, grace_per_sec,
    Grace,              \* grace_secs * 1000
    OtherRates,         \* rate pairs the host may change to
    TxTimes,            \* airtime of announces
    cap_permille,       \* the interface's announce cap, of Permille
    Permille,
    MaxQueue            \* bound: announces the host holds for the interface

ASSUME PacingAssumption ==
    /\ {Milli, steady_per_sec, grace_per_sec, Grace, cap_permille, Permille, MaxQueue} \subseteq Nat
    /\ Milli > 0 /\ Permille >= cap_permille
    /\ TxTimes \subseteq Nat /\ \E most \in TxTimes : \A tx \in TxTimes : tx <= most
    /\ \A r \in OtherRates : r.steady \in Nat /\ r.grace \in Nat

VARIABLES
    rates,      \* [steady, grace], announces per second
    uptime,     \* the host clock, up to Grace
    bucket,     \* AnnounceAdmission: [initialized, credit, age since the last refill]
    queue,      \* announces the host holds: [hops, tx, waited]
    closed,     \* AnnounceGate: time until it opens
    flow,       \* history: announces admitted, as a bucket that drains at the rate
    quiet,      \* history: time since an announce was last put to the bucket
    refusal,    \* history: whether the last one was refused, and after what quiet
    last_sent   \* history: [tx, since] of the last announce on the interface

pacingVars == <<rates, uptime, bucket, queue, closed, flow, quiet, refusal, last_sent>>

NewBucket == [initialized |-> FALSE, credit |-> 0, age |-> 0]

PacingInit ==
    /\ rates = [steady |-> steady_per_sec, grace |-> grace_per_sec]
    /\ uptime = 0
    /\ bucket = NewBucket
    /\ queue = {}
    /\ closed = 0
    /\ flow = 0
    /\ quiet = Milli
    /\ refusal = [is |-> FALSE, after |-> 0]
    /\ last_sent = [tx |-> 0, since |-> 0]

Rate == IF uptime < Grace THEN rates.grace ELSE rates.steady

\* The higher of the two rates, which bounds every phase.
MaxRate == Max({rates.steady, rates.grace})

\* Mutant: the refill is not capped at one second's worth.
RefillUncapped(rate) ==
    IF ~bucket.initialized THEN rate * Milli ELSE bucket.credit + bucket.age * rate

\* The credit after the refill: a full bucket on the first call, otherwise what
\* the time since the last call adds, up to one second's worth.
Refilled(rate) ==
    IF ~bucket.initialized THEN rate * Milli
    ELSE Min({bucket.credit + bucket.age * rate, rate * Milli})

\* admit, for an announce that is no path response; an admitted one goes to the
\* host's queue when there is room.
Admit(hops, tx) ==
    LET unlimited == Rate = 0
        credit == Refilled(Rate)
        admitted == unlimited \/ credit >= Milli
    IN  /\ bucket' = [initialized |-> TRUE, age |-> 0,
                      credit |-> IF unlimited THEN 0
                                 ELSE IF admitted THEN credit - Milli ELSE credit]
        /\ queue' = IF admitted /\ Cardinality(queue) < MaxQueue
                      THEN queue \cup {[hops |-> hops, tx |-> tx, waited |-> 0]} ELSE queue
        /\ flow' = IF admitted /\ ~unlimited THEN flow + Milli ELSE flow
        /\ refusal' = [is |-> ~admitted, after |-> quiet]
        /\ quiet' = 0
        /\ UNCHANGED <<rates, uptime, closed, last_sent>>

\* A path response is exempt and leaves the bucket alone.
AdmitPathResponse(hops, tx) ==
    /\ Cardinality(queue) < MaxQueue
    /\ queue' = queue \cup {[hops |-> hops, tx |-> tx, waited |-> 0]}
    /\ UNCHANGED <<rates, uptime, bucket, closed, flow, quiet, refusal, last_sent>>

\* set_announce_budget: the same rates change nothing, others reset the bucket.
set_announce_budget(r) ==
    /\ r # rates
    /\ rates' = r
    /\ bucket' = NewBucket
    /\ flow' = 0
    /\ quiet' = Milli
    /\ refusal' = [is |-> FALSE, after |-> 0]
    /\ UNCHANGED <<uptime, queue, closed, last_sent>>

release_precedes(a, b) == a.hops < b.hops \/ (a.hops = b.hops /\ a.waited > b.waited)

cap_floor(cap) == IF cap = 0 THEN 1 ELSE cap

spacing_ms(tx) == (tx * Permille + cap_floor(cap_permille) - 1) \div cap_floor(cap_permille)

\* The host sends the announce that precedes all others, once the gate is open,
\* and charges the gate for it.
Release(a) ==
    /\ closed = 0
    /\ a \in queue /\ \A b \in queue : ~release_precedes(b, a)
    /\ queue' = queue \ {a}
    /\ closed' = spacing_ms(a.tx)
    /\ last_sent' = [tx |-> a.tx, since |-> 0]
    /\ UNCHANGED <<rates, uptime, bucket, flow, quiet, refusal>>

\* One millisecond.
PacingElapse ==
    /\ uptime' = Min({uptime + 1, Grace})
    /\ bucket' = [bucket EXCEPT !.age = Min({@ + 1, Milli})]
    /\ queue' = {[a EXCEPT !.waited = Min({@ + 1, 1})] : a \in queue}
    /\ closed' = IF closed > 0 THEN closed - 1 ELSE 0
    /\ flow' = IF flow > MaxRate THEN flow - MaxRate ELSE 0
    /\ quiet' = Min({quiet + 1, Milli})
    /\ last_sent' = [last_sent EXCEPT !.since = Min({@ + 1, Max(TxTimes) * Permille})]
    /\ UNCHANGED <<rates, refusal>>

PacingNext ==
    \/ \E hops \in 0 .. 1, tx \in TxTimes : Admit(hops, tx) \/ AdmitPathResponse(hops, tx)
    \/ \E r \in OtherRates : set_announce_budget(r)
    \/ \E a \in queue : Release(a)
    \/ PacingElapse

PacingSpec == PacingInit /\ [][PacingNext]_pacingVars

---------------------------------------------------------------------------
\* AnnounceAdmission holds announces to their budget and no further: in any
\* stretch of time no more are admitted than one second's burst and the rate
\* allow, across the end of the grace interval too, and after a silence worth
\* one announce the next one is not refused.  The gate holds them to the cap of
\* the interface: when it opens after an announce, that announce took no more
\* than the cap's share of the time since.
AnnouncesWithinBudget ==
    /\ flow <= MaxRate * Milli
    /\ refusal.is => refusal.after * Min({rates.steady, rates.grace} \ {0}) < Milli
    /\ closed = 0 => last_sent.tx * Permille <= last_sent.since * cap_floor(cap_permille)
===========================================================================
