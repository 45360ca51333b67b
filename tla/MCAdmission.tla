----------------------------- MODULE MCAdmission -----------------------------
(***************************************************************************)
(* Two messages dated one and two seconds after the beginning, a leeway of *)
(* one second, two requests at a time; two wrong guesses in three ticks.   *)
(***************************************************************************)
EXTENDS Admission, TLC

CONSTANTS m1, m2, h1, h2

MCDate == (m1 :> 1) @@ (m2 :> 2)
Symmetry == Permutations(Handlers)
===============================================================================
