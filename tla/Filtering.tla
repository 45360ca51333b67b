------------------------------- MODULE Filtering -------------------------------
(***************************************************************************)
(* The loops that keep some elements of a slice, in their order: the       *)
(* cursor filters of the hub's polls and the limiter's window.  What is    *)
(* kept is named by position, which the proofs can reason about.           *)
(***************************************************************************)
EXTENDS Naturals, Sequences, FiniteSets

(* The elements of s at the positions I, in their order: what a loop that  *)
(* appends the elements it keeps returns.                                  *)
Pick(s, I) ==
  LET nth(k) == CHOOSE i \in I : Cardinality({j \in I : j <= i}) = k
  IN  [k \in 1..Cardinality(I) |-> s[nth(k)]]
================================================================================
