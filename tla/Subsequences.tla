---------------------------- MODULE Subsequences ----------------------------
(***************************************************************************)
(* The elements of a sequence at a set of its places, in their order: what *)
(* the source writes with filter().  SelectSeq says the same with an       *)
(* operator for its argument, which the provers cannot reason about.       *)
(***************************************************************************)
EXTENDS Integers, Sequences, FiniteSets

Rank(I, i) == Cardinality({j \in I : j <= i})

ElementsAt(s, I) == [k \in 1 .. Cardinality(I) |-> s[CHOOSE i \in I : Rank(I, i) = k]]
=============================================================================
