--------------------------------- MODULE Outbox ---------------------------------
(***************************************************************************)
(* What the phone's notification stream promises, with no ring, no cursor  *)
(* and no daemon restart in sight: the daemon publishes, the phone is      *)
(* handed the messages in the order they were published, each at most      *)
(* once, and any number may be skipped.  A service that Android restarts   *)
(* may see old messages again.  Messages are numbered as they are          *)
(* published.                                                              *)
(***************************************************************************)
EXTENDS Naturals

VARIABLES published, \* how many messages have been published
          last       \* the newest message this service was handed, 0 = none

Init == published = 0 /\ last = 0

Publish == published' = published + 1 /\ UNCHANGED last

(* Hand over any message that is newer than the last one.                  *)
HandOver == \E m \in (last + 1)..published : last' = m /\ UNCHANGED published

Restart == last' = 0 /\ UNCHANGED published

Next == Publish \/ HandOver \/ Restart

Spec == Init /\ [][Next]_<<published, last>>
=================================================================================
