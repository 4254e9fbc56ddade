---------------------------- MODULE Subsequences ----------------------------
(* The part of a sequence that is at some of its places.  It is what SelectSeq *)
(* makes, but without recursion, so that it can be reasoned about.             *)
EXTENDS Integers, FiniteSets, Sequences

\* How many of the places I come up to i.
Rank(I, i) == Cardinality({j \in I : j <= i})

\* The elements of s at the places I, in the order of s.
Pick(s, I) == [n \in 1 .. Cardinality(I) |-> s[CHOOSE i \in I : Rank(I, i) = n]]

=============================================================================
