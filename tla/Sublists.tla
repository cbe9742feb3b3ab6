------------------------------- MODULE Sublists -------------------------------
(***************************************************************************)
(* Sequences from which elements are taken, and what is left of them: an   *)
(* element keeps its place behind those before it that are kept too.       *)
(*                                                                         *)
(* Loops that copy the elements to keep, and calls of erase() in the       *)
(* middle of a vector, are modelled by Sublist.  It is SelectSeq by        *)
(* positions, which facts can be proved of.                                *)
(***************************************************************************)
EXTENDS Naturals, Sequences, FiniteSets

\* Where the element at i goes, if those at the positions in K are kept.
Place(K, i) == Cardinality(K \cap (1 .. i))

\* What is left of s.
Sublist(s, K) == [n \in 1 .. Cardinality(K) |-> s[CHOOSE i \in K : Place(K, i) = n]]
=============================================================================
