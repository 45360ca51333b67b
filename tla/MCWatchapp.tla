------------------------------- MODULE MCWatchapp -------------------------------
(***************************************************************************)
(* The watchapp with a three-slot queue.                                   *)
(***************************************************************************)
EXTENDS Watchapp, TLC

PromptSymmetry == Permutations(Ids)
=================================================================================
