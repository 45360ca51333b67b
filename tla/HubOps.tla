-------------------------------- MODULE HubOps --------------------------------
(***************************************************************************)
(* The state-free helpers of api/internal/hub/hub.go: the bounded ring of  *)
(* envelopes that the phone polls, the bounded queues that are trimmed     *)
(* from the front, and the cursor filters of the three long-polls.         *)
(*                                                                         *)
(* Envelopes, conversation entries and decisions are records; the only     *)
(* field these helpers look at is the position the hub stamped on them.    *)
(***************************************************************************)
EXTENDS Filtering

(* `s = s[len(s)-n:]` once s has outgrown n: keep the newest n elements.   *)
LastN(s, n) == IF Len(s) > n THEN SubSeq(s, Len(s) - n + 1, Len(s)) ELSE s

(* publishLocked's append: one envelope in, at most one out at the front.  *)
RingAppend(ring, env, size) ==
  IF Len(ring) + 1 > size THEN Tail(Append(ring, env)) ELSE Append(ring, env)

(* The envelope that append pushes out, if any.                            *)
RingEvicts(ring, size) == IF Len(ring) + 1 > size THEN {ring[1]} ELSE {}

(* Mutant: the oldest retained envelope taken for the oldest cursor.       *)
CursorTooOldOffByOne(ring, seq, cursor) ==
  \/ Len(ring) > 0 /\ cursor < ring[1].seq
  \/ cursor > seq

(* pollOnce's two refusals: the cursor fell off the ring, or it is ahead   *)
(* of the sequence and so belongs to an earlier run of the daemon.         *)
CursorTooOld(ring, seq, cursor) ==
  \/ Len(ring) > 0 /\ cursor + 1 < ring[1].seq
  \/ cursor > seq

(* Mutant: the cursor taken for the first position wanted.                 *)
EventsAfterNext(buffer, cursor) ==
  Pick(buffer, {i \in DOMAIN buffer : buffer[i].seq > cursor + 1})

(* What pollOnce and conversationOnce return: everything stamped after the *)
(* cursor, in buffer order.                                                *)
EventsAfter(buffer, cursor) ==
  Pick(buffer, {i \in DOMAIN buffer : buffer[i].seq > cursor})

(* What pollDecisionsOnce returns; decCursorOf parses the number out of    *)
(* "dec_N", which here is the id itself.                                   *)
DecisionsAfter(decisions, cursor) ==
  Pick(decisions, {i \in DOMAIN decisions : decisions[i].id > cursor})

(* sess.touch: the last-activity clock only moves forward.                 *)
Touch(updated, ms) == IF ms > updated THEN ms ELSE updated

(* The first entry with this id, the one a streaming update replaces.      *)
HasEntry(conv, id) == \E i \in DOMAIN conv : conv[i].id = id
FirstEntry(conv, id) ==
  CHOOSE i \in DOMAIN conv :
    conv[i].id = id /\ \A j \in DOMAIN conv : j < i => conv[j].id # id

(* Mutant: a replaced entry keeps its old position.                        *)
PutConvKeepsPosition(conv, entry, size) ==
  IF HasEntry(conv, entry.id)
  THEN [conv EXCEPT ![FirstEntry(conv, entry.id)] = 
                      [entry EXCEPT !.seq = conv[FirstEntry(conv, entry.id)].seq]]
  ELSE LastN(Append(conv, entry), size)

(* sess.appendConv: replace in place when the id is known, else append and *)
(* keep the newest `size` entries.                                         *)
PutConv(conv, entry, size) ==
  IF HasEntry(conv, entry.id)
  THEN [conv EXCEPT ![FirstEntry(conv, entry.id)] = entry]
  ELSE LastN(Append(conv, entry), size)
===============================================================================
