----------------------------- MODULE MCPluginLink -----------------------------
(***************************************************************************)
(* The plugin link with two windows, whose upstream ids a restart may      *)
(* swap.  One of them asks twice, the other may be the second to ask.      *)
(***************************************************************************)
EXTENDS PluginLink

CONSTANTS w1, w2, r1, r2

MCAskers == [r \in Requests |-> IF r = r1 THEN {w1} ELSE Windows]
===============================================================================
