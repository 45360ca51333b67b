----------------------------- MODULE MCTranscript -----------------------------
(***************************************************************************)
(* Two parts and one permission request, a queue of two.                   *)
(***************************************************************************)
EXTENDS Transcript

CONSTANTS p1, p2, r1
===============================================================================
