-------------------------------- MODULE Watchapp --------------------------------
(***************************************************************************)
(* The watch (watchapp/src/c/main.c) and the PebbleKit JS relay that hands *)
(* its replies to the companion (watchapp/src/pkjs/index.js).              *)
(*                                                                         *)
(* The watch queues the permission prompts it is sent and shows one of     *)
(* them.  A button answers the prompt on the screen; the reply travels     *)
(* through the AppMessage outbox, which holds one message and reports its  *)
(* fate later, in a callback.  Meanwhile prompts arrive and are retracted, *)
(* and the user moves on.                                                  *)
(*                                                                         *)
(* Prompts are permissions: the daemon publishes no questions, so their    *)
(* menu is never shown.  Texts and layout are left out.                    *)
(***************************************************************************)
EXTENDS Integers, Sequences

CONSTANTS
  Ids,          \* envelope ids of prompts
  MaxQueue,     \* MAX_QUEUE
  Redelivers,   \* whether the companion may deliver a prompt again
  MaxSent, MaxPresses, \* bounds of the model: deliveries, answering presses
  Microphone,   \* PBL_MICROPHONE
  SendErrors,   \* whether app_message_outbox_send may return an error
  NoMsg         \* no message

ASSUME WatchAssumption ==
  /\ MaxQueue \in Nat \ {0} /\ MaxSent \in Nat /\ MaxPresses \in Nat /\ Redelivers \in BOOLEAN
  /\ Microphone \in BOOLEAN /\ SendErrors \in BOOLEAN

(* ReplyAction.  0 is what memset leaves in last_action; a choice (4)      *)
(* answers a question.                                                     *)
ONCE == 1
ALWAYS == 2
REJECT == 3
TEXT == 5
Actions == {0, ONCE, ALWAYS, REJECT, TEXT}
Slugs   == {"once", "always", "reject"}

VARIABLES
  open,       \* is the watchapp running?
  queue, pos, \* s_queue, s_queue_pos (from 1)
  notice,     \* s_transient.valid
  outbox,     \* the message in flight
  dictating,  \* is the dictation window up?
  presses,    \* answers, retries and dictations so far
  delivered,  \* the companion: prompts it has sent
  sent,       \* how often it has sent any
  copies      \* whether it has sent one again

companion == <<delivered, sent, copies>>
vars == <<open, queue, pos, notice, outbox, dictating, presses, companion>>

(* An entry remembers, as a history, the answers its user has pressed; a   *)
(* message carries that along, and how far it has come: in the air, posted *)
(* to the companion, or dropped by PebbleKit JS.                           *)
Entry   == [id : Ids, answered : BOOLEAN, ack : {"none", "pending", "failed"},
            action : Actions, meant : SUBSET Slugs]
Message == [id : Ids, action : Actions, meant : SUBSET Slugs,
            fate : {"sent", "posted", "dropped"}]

ASSUME NoMsgAssumption == NoMsg \notin Message

(* The displayed position is always one of the queue's, so current_entry   *)
(* never has to repair it.                                                 *)
TypeOK ==
  /\ open \in BOOLEAN /\ notice \in BOOLEAN /\ dictating \in BOOLEAN
  /\ queue \in Seq(Entry) /\ Len(queue) <= MaxQueue
  /\ IF queue = <<>> THEN pos = 1 ELSE pos \in 1..Len(queue)
  /\ outbox \in Message \cup {NoMsg}
  /\ delivered \in SUBSET Ids /\ sent \in 0..MaxSent /\ copies \in BOOLEAN
  /\ presses \in 0..MaxPresses

Init ==
  /\ open = FALSE /\ queue = <<>> /\ pos = 1 /\ notice = FALSE
  /\ outbox = NoMsg /\ dictating = FALSE /\ presses = 0
  /\ delivered = {} /\ sent = 0 /\ copies = FALSE

--------------------------------------------------------------------------------
(* The queue.                                                              *)

Current == queue[pos]
Queued  == {queue[i].id : i \in DOMAIN queue}

(* The first entry with this id, which is the one the lookups find.        *)
IndexOf(x) ==
  CHOOSE i \in DOMAIN queue :
    queue[i].id = x /\ \A j \in 1..(i - 1) : queue[j].id # x

(* Mutant: the position does not follow its entry.                         *)
PosStays(i) == IF pos < Len(queue) THEN pos ELSE pos - 1

(* Where queue_remove_at leaves s_queue_pos.                               *)
PosAfter(i) ==
  IF Len(queue) = 1 THEN 1
  ELSE IF pos > i \/ pos = Len(queue) THEN pos - 1 ELSE pos

Without(i) == SubSeq(queue, 1, i - 1) \o SubSeq(queue, i + 1, Len(queue))

queue_remove_at(i) == queue' = Without(i) /\ pos' = PosAfter(i)

queue_remove_by_id(x) ==
  \/ x \in Queued /\ queue_remove_at(IndexOf(x))
  \/ x \notin Queued /\ UNCHANGED <<queue, pos>>

(* queue_set_ack_by_id(x, ACK_FAILED).  Mutant: of the prompt on screen.   *)
set_failed_current(x) ==
  queue' = IF queue = <<>> THEN queue ELSE [queue EXCEPT ![pos].ack = "failed"]
set_failed(x) ==
  queue' = IF x \in Queued THEN [queue EXCEPT ![IndexOf(x)].ack = "failed"] ELSE queue

--------------------------------------------------------------------------------
(* Inbound.  The companion launches the app before it sends a prompt; what *)
(* it sends to a closed app is lost.                                       *)

Launch ==
  /\ ~open /\ open' = TRUE
  /\ UNCHANGED <<queue, pos, notice, outbox, dictating, presses, companion>>

(* inbox_received of a prompt, which is appended and shown.  A full queue  *)
(* drops its oldest first.  A companion killed with an old cursor on disk  *)
(* sends a prompt again.                                                   *)
Enqueue(x) ==
  /\ open /\ sent < MaxSent /\ sent' = sent + 1
  /\ x \in delivered => Redelivers
  /\ delivered' = delivered \cup {x} /\ copies' = (copies \/ x \in delivered)
  /\ LET kept == IF Len(queue) >= MaxQueue THEN Tail(queue) ELSE queue
     IN  /\ queue' = Append(kept, [id |-> x, answered |-> FALSE, ack |-> "none",
                                   action |-> 0, meant |-> {}])
         /\ pos' = Len(kept) + 1
  /\ UNCHANGED <<open, outbox, dictating, presses>>

ReceivePrompt(x) == Enqueue(x) /\ notice' = FALSE

(* inbox_received of a retraction, wherever the prompt is in the queue.    *)
ReceiveGone(x) ==
  /\ open /\ x \in Queued
  /\ queue_remove_by_id(x)
  /\ UNCHANGED <<open, notice, outbox, dictating, presses, companion>>

(* inbox_received of idle or err: shown when no prompt is pending.         *)
ReceiveNotice ==
  /\ open /\ queue = <<>>
  /\ notice' = TRUE
  /\ UNCHANGED <<open, queue, pos, outbox, dictating, presses, companion>>

--------------------------------------------------------------------------------
(* Outbound.                                                               *)

(* send_reply for the current entry, given as e.  outbox_begin fails while *)
(* a message is in flight, outbox_send for reasons of its own; neither     *)
(* records the action.                                                     *)
send_reply(e, action) ==
  /\ ~e.answered
  /\ \/ /\ outbox = NoMsg
        /\ outbox' = [id |-> e.id, action |-> action, meant |-> e.meant, fate |-> "sent"]
        /\ queue' = [queue EXCEPT ![pos] =
             [e EXCEPT !.answered = TRUE, !.ack = "pending", !.action = action]]
     \/ /\ outbox # NoMsg \/ SendErrors
        /\ queue' = [queue EXCEPT ![pos] = [e EXCEPT !.ack = "failed"]]
        /\ UNCHANGED outbox

retry_send ==
  send_reply([Current EXCEPT !.answered = FALSE, !.ack = "none"], Current.action)

(* A button that answers the prompt on screen.  What its user means is     *)
(* remembered whether or not the reply can be sent.                        *)
Answers(action, slug) ==
  send_reply([Current EXCEPT !.meant = Current.meant \cup {slug}], action)

(* A click on a prompt; the dictation window takes the buttons while it is *)
(* up.                                                                     *)
Clicking == open /\ ~dictating
Press    == presses < MaxPresses /\ presses' = presses + 1
Clicked  == Clicking /\ Press /\ queue # <<>>
            /\ UNCHANGED <<open, pos, notice, dictating, companion>>

(* UP and DOWN first retry what failed.                                    *)
Retry == Clicked /\ Current.ack = "failed" /\ retry_send

up_click == Retry \/ (Clicked /\ Current.ack # "failed" /\ Answers(ONCE, "once"))

down_click == Retry \/ (Clicked /\ Current.ack # "failed" /\ Answers(REJECT, "reject"))

select_click == Clicked /\ Answers(ALWAYS, "always")

(* BACK shows the next prompt; with at most one it ends the app.           *)
Close ==
  /\ open' = FALSE /\ queue' = <<>> /\ pos' = 1 /\ notice' = FALSE
  /\ outbox' = NoMsg /\ dictating' = FALSE
  /\ UNCHANGED <<presses, companion>>

NextPrompt ==
  /\ Clicking /\ Len(queue) > 1
  /\ pos' = (pos % Len(queue)) + 1
  /\ UNCHANGED <<open, queue, notice, outbox, dictating, presses, companion>>

back_click == NextPrompt \/ (Clicking /\ Len(queue) <= 1 /\ Close)

(* The system may close the app too.                                       *)
Killed == open /\ Close

(* start_dictation.                                                        *)
select_long_click ==
  /\ Microphone /\ Clicking /\ Press
  /\ dictating' = TRUE
  /\ UNCHANGED <<open, queue, pos, notice, outbox, companion>>

(* dictation_callback: the transcription answers the current prompt, if it *)
(* can be answered; a failure only changes the hint.                       *)
dictation_callback ==
  /\ dictating /\ dictating' = FALSE
  /\ \/ queue # <<>> /\ send_reply(Current, TEXT)
     \/ UNCHANGED <<queue, outbox>>
  /\ UNCHANGED <<open, pos, notice, presses, companion>>

--------------------------------------------------------------------------------
(* The fate of the message in flight.                                      *)

(* actionSlug: what PebbleKit JS makes of the action.  Mutant: the default *)
(* is to refuse.                                                           *)
actionSlugReject(action) ==
  CASE action = ONCE -> "once" [] action = ALWAYS -> "always"
    [] action = TEXT -> "text" [] OTHER -> "reject"
actionSlug(action) ==
  CASE action = ALWAYS -> "always" [] action = REJECT -> "reject"
    [] action = TEXT -> "text" [] OTHER -> "once"

(* The phone receives the reply and PebbleKit JS posts it to the companion;*)
(* a post that fails is logged and forgotten.                              *)
PhoneReceives ==
  /\ outbox # NoMsg /\ outbox.fate = "sent"
  /\ \E fate \in {"posted", "dropped"} : outbox' = [outbox EXCEPT !.fate = fate]
  /\ UNCHANGED <<open, queue, pos, notice, dictating, presses, companion>>

Arrived == outbox # NoMsg /\ outbox.fate # "sent"

(* The phone's acknowledgement: the answered prompt leaves the queue.      *)
(* Mutant: the prompt on screen leaves it.                                 *)
outbox_sent_current ==
  /\ Arrived /\ outbox' = NoMsg
  /\ IF queue = <<>> THEN UNCHANGED <<queue, pos>> ELSE queue_remove_at(pos)
  /\ UNCHANGED <<open, notice, dictating, presses, companion>>
outbox_sent ==
  /\ Arrived /\ outbox' = NoMsg
  /\ queue_remove_by_id(outbox.id)
  /\ UNCHANGED <<open, notice, dictating, presses, companion>>

(* No acknowledgement in time, although the phone may have the reply.      *)
outbox_failed ==
  /\ outbox # NoMsg /\ outbox' = NoMsg
  /\ set_failed(outbox.id)
  /\ UNCHANGED <<open, pos, notice, dictating, presses, companion>>

Next ==
  \/ Launch \/ Killed \/ ReceiveNotice
  \/ \E x \in Ids : ReceivePrompt(x) \/ ReceiveGone(x)
  \/ up_click \/ down_click \/ select_click \/ back_click
  \/ select_long_click \/ dictation_callback
  \/ PhoneReceives \/ outbox_sent \/ outbox_failed

Spec == Init /\ [][Next]_vars

--------------------------------------------------------------------------------
(* Correctness.                                                            *)

NoCopies == ~copies
Shown    == IF queue = <<>> THEN NoMsg ELSE Current.id

(* Nothing but the user's BACK and a new prompt changes the prompt on      *)
(* screen while that prompt is pending: a retraction or an acknowledgement *)
(* of another one (queue_remove_at shifts the array) never slides a        *)
(* different question under the user's thumb.                              *)
StaysOnScreen ==
  NoCopies /\ UNCHANGED companion /\ Shown \in Queued' /\ ~NextPrompt => Shown' = Shown
DisplayIsStable == [][StaysOnScreen]_vars

(* "Sending..." is never a dead end: a prompt that shows it has its reply  *)
(* in flight, whose callback will follow.  It takes a second copy of       *)
(* the prompt in the queue to break this: the lookups find the first.      *)
PendingIsInFlight ==
  NoCopies => \A i \in DOMAIN queue :
    queue[i].ack = "pending" => outbox # NoMsg /\ outbox.id = queue[i].id

(* What is queued was delivered, once as long as nothing is sent again.    *)
OneOfEach ==
  /\ Queued \subseteq delivered
  /\ NoCopies => \A i, j \in DOMAIN queue : queue[i].id = queue[j].id => i = j

(* The action an entry keeps for a retry, and that of the message in       *)
(* flight, say no more than the user meant.                                *)
Meant(r) == actionSlug(r.action) \in {"always", "reject"} => actionSlug(r.action) \in r.meant
AnswersAreMeant ==
  /\ \A i \in DOMAIN queue : Meant(queue[i])
  /\ outbox # NoMsg => Meant(outbox)

(* No prompt hangs, and queue and position keep their shape: the position  *)
(* is an entry's as long as there is one, whatever was removed.            *)
WatchappInv == TypeOK /\ OneOfEach /\ PendingIsInFlight /\ AnswersAreMeant

(* A prompt leaves the watch when its answer has reached the phone, when   *)
(* it is retracted, or as the oldest of a full queue; outbox_sent removes  *)
(* "the correct entry even if the user has since cycled to another".       *)
LeavesSettled ==
  open' => \A x \in Queued \ Queued' :
    \/ Arrived /\ x = outbox.id
    \/ ReceiveGone(x)
    \/ companion' # companion /\ Len(queue) = MaxQueue /\ x = queue[1].id
OnlySettledPromptsLeave == [][LeavesSettled]_vars

(* The companion is told "always" or "reject" only if the user pressed     *)
(* that for this prompt, whatever failed, was retried or moved.            *)
Posted == outbox # NoMsg /\ outbox.fate = "posted"
PostedSlug == actionSlug(outbox.action)
StrongAnswersAreMeant ==
  Posted /\ PostedSlug \in {"always", "reject"} => PostedSlug \in outbox.meant
================================================================================
