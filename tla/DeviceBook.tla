------------------------------ MODULE DeviceBook ------------------------------
(***************************************************************************)
(* What the registry of paired phones promises, with no file, no lock and  *)
(* no restart in sight.  There is one book of devices.  A phone is only    *)
(* told that it is paired while it is in the book, and stays in it until   *)
(* somebody asks for it to be revoked; a revocation is confirmed once the  *)
(* device has left the book, to which it never returns.  The exception has *)
(* a name: while saves are raced, what was kept of the book may be an      *)
(* older page, and the devices in which the two differ may go astray.      *)
(***************************************************************************)
CONSTANT Devices

VARIABLES
  book,    \* the devices that can sign
  raced,   \* was a newer page overwritten with an older one?
  paired,  \* devices whose phone was told so
  asked,   \* devices somebody wanted revoked
  revoked, \* devices whose revocation was confirmed
  strayed  \* devices lost or brought back by the race

told == <<paired, asked, revoked>>

Init ==
  /\ book = {} /\ raced = FALSE
  /\ paired = {} /\ asked = {} /\ revoked = {} /\ strayed = {}

(* Entries nobody was told about may come and go.                          *)
Amend(B) ==
  /\ paired \ (asked \cup strayed) \subseteq B
  /\ B \cap (revoked \ strayed) = {}
  /\ book' = B /\ UNCHANGED <<raced, told, strayed>>

(* A save overtakes another, or one puts the page right again.             *)
Race == raced' \in BOOLEAN /\ UNCHANGED <<book, paired, asked, strayed>>

TellPaired(d) ==
  /\ d \in book \cup asked
  /\ paired' = paired \cup {d} /\ UNCHANGED <<book, raced, asked, revoked, strayed>>

AskToRevoke(d) ==
  /\ d \in book
  /\ book' = book \ {d} /\ asked' = asked \cup {d}
  /\ UNCHANGED <<raced, paired, revoked, strayed>>

ConfirmRevoked(d) == d \in asked \ book /\ revoked' = revoked \cup {d}

(* The older page is taken for the book.                                   *)
Stray(B) ==
  /\ raced /\ raced' = FALSE
  /\ book' = B
  /\ strayed' = strayed \cup (book \ B) \cup (B \ book)
  /\ UNCHANGED told

Next ==
  \/ \E B \in SUBSET Devices : Amend(B) \/ Stray(B)
  \/ Race /\ (UNCHANGED revoked \/ \E d \in Devices : ConfirmRevoked(d))
  \/ \E d \in Devices : TellPaired(d) \/ AskToRevoke(d)

Spec == Init /\ [][Next]_<<book, raced, told, strayed>>
===============================================================================
