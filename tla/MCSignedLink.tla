----------------------------- MODULE MCSignedLink -----------------------------
(***************************************************************************)
(* The service answers a prompt while a loop of its own, or one of a       *)
(* screen, makes calls with the same or with another client.               *)
(***************************************************************************)
EXTENDS SignedLink

CONSTANTS service, screen, reply, loop

MCClientsOf == [t \in {reply, loop} |-> IF t = reply THEN {service} ELSE Clients]
===============================================================================
