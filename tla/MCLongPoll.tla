------------------------------- MODULE MCLongPoll -------------------------------
(***************************************************************************)
(* Two concurrent requests, of every pair of kinds.                        *)
(***************************************************************************)
EXTENDS LongPoll

CONSTANTS p1, p2
=================================================================================
