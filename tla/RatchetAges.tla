---------------------------- MODULE RatchetAges ----------------------------
(***************************************************************************)
(* Ages of ratchet keys (ratchet.rs): a key is stamped by the wall clock,  *)
(* or by the uptime of this boot where there is none. A stamp the present  *)
(* clock cannot be compared with proves nothing about the key's age.       *)
(***************************************************************************)
EXTENDS Integers

CONSTANT ExpirySecs     \* RATCHET_EXPIRY_SECS

ASSUME ExpiryAssumption == ExpirySecs \in Nat

\* wall_secs where the host has no wall clock.
NoWall == -1

AgeKinds == {"Unknown", "Wall", "Uptime"}

Ages == [kind : AgeKinds, secs : Nat]

\* The clocks a host may supply at a real time, in a boot that began at this time: its wall
\* clock, if it has one, is right.
Clocks(now, boot) == {[wall |-> w, uptime |-> now - boot] : w \in {NoWall, now}}

\* Mutant: uptime stamped as wall time.
anchor_as_wall(clock) ==
    [kind |-> "Wall", secs |-> IF clock.wall # NoWall THEN clock.wall ELSE clock.uptime]

anchor(clock) ==
    IF clock.wall # NoWall
      THEN [kind |-> "Wall", secs |-> clock.wall]
      ELSE [kind |-> "Uptime", secs |-> clock.uptime]

age_comparable(age, clock) ==
    \/ age.kind = "Wall" /\ clock.wall # NoWall /\ clock.wall >= age.secs
    \/ age.kind = "Uptime" /\ clock.uptime >= age.secs

\* Seconds since a comparable stamp.
Elapsed(age, clock) ==
    (IF age.kind = "Wall" THEN clock.wall ELSE clock.uptime) - age.secs

age_elapsed_at_least(age, clock, interval) ==
    age_comparable(age, clock) /\ Elapsed(age, clock) >= interval

\* Mutant: expired when the threshold is reached, not passed.
age_expired_early(age, clock) ==
    age_comparable(age, clock) /\ Elapsed(age, clock) >= ExpirySecs

age_expired(age, clock) ==
    age_comparable(age, clock) /\ Elapsed(age, clock) > ExpirySecs

effective_age(age, clock) ==
    IF age_comparable(age, clock) THEN age ELSE anchor(clock)

Unknown == [kind |-> "Unknown", secs |-> 0]

\* A stamp read back from storage: uptime means nothing after the boot it was taken in.
restored_age(age) == IF age.kind = "Uptime" THEN Unknown ELSE age
=============================================================================
