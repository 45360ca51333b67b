--------------------------------- MODULE MCHub ---------------------------------
(***************************************************************************)
(* The hub on small instances.  The configurations differ in which kinds   *)
(* of event the windows report and in the capacities; the constants that   *)
(* are sets of identifiers are model values, so they may be permuted.      *)
(***************************************************************************)
EXTENDS Hub, TLC

CONSTANTS w1, w2, s1, s2, s3, r1, r2, r3

PromptKinds  == {"permission", "replied", "error"}
NoticeKinds  == {"permission", "replied", "idle"}
SessionKinds == AllKinds \ {"error"}

RequestSymmetry == Permutations(Requests)
RequestAndSessionSymmetry == Permutations(Requests) \cup Permutations(SessionIDs)
================================================================================
