---------------------------- MODULE Subsequences ----------------------------
(* Parts of a sequence, named by a set of indices: what Vec::retain leaves.  *)
EXTENDS Integers, Sequences, FiniteSets

\* The place of index i among the kept ones.
Rank(kept, i) == Cardinality({j \in kept : j <= i})

\* The elements at the kept indices, in their order; often it is all of them.
Only(q, kept) ==
    IF kept = DOMAIN q THEN q
    ELSE [n \in 1 .. Cardinality(kept) |-> q[CHOOSE i \in kept : Rank(kept, i) = n]]
=============================================================================
