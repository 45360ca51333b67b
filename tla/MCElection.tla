------------------------------ MODULE MCElection ------------------------------
(***************************************************************************)
(* Two windows and three daemons, whose starts and stops may overlap.      *)
(***************************************************************************)
EXTENDS Election, TLC

CONSTANTS w1, w2, d1, d2, d3

Alike == Permutations(Windows) \cup Permutations(Daemons)

(* Bound: what follows an overlap is looked at with two of the daemons.    *)
Within == calm \/ \E d \in Daemons : dmn[d] = "new"
===============================================================================
