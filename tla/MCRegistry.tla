------------------------------ MODULE MCRegistry ------------------------------
(***************************************************************************)
(* The registry with three device ids and two requests at a time.          *)
(***************************************************************************)
EXTENDS Registry, TLC

CONSTANTS d1, d2, d3, h1, h2

Symmetry == Permutations(Devices) \cup Permutations(Handlers)
===============================================================================
