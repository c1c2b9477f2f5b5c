------------------------- MODULE MCResourceTransfer -----------------------
EXTENDS ResourceTransfer, TLC

CONSTANTS r1, r2, r3, r4

\* r1 has three parts; r2 and r4 have one part, of the length of r1's last one;
\* two parts of r3 share a map hash, so its build fails.
Lens == (r1 :> <<3, 3, 2>>) @@ (r2 :> <<2>>) @@ (r3 :> <<3, 3>>) @@ (r4 :> <<2>>)

\* r1 with two parts, for the run with three resources.
ShortLens == (r1 :> <<3, 2>>) @@ Lens

\* The last part of r1, in either instance.
LastOfR1 == <<r1, Len(PartLens[r1])>>

\* The part of r2 has, under the tag of r1, the map hash of r1's last part, and
\* the other way round.  The part of r4, a token of its own, has that of r2's
\* part under the tag of r2.
Collides(p, r) ==
    CASE p = <<r2, 1>> /\ r = r1 -> LastOfR1
      [] p = LastOfR1 /\ r = r2 -> <<r2, 1>>
      [] p = <<r4, 1>> /\ r = r2 -> <<r2, 1>>
      [] p = <<r3, 2>> /\ r = r3 -> <<r3, 1>>
      [] OTHER -> p
===========================================================================
