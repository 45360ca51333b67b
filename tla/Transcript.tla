------------------------------ MODULE Transcript ------------------------------
(***************************************************************************)
(* The way of one session's conversation from Kilo's event bus to the      *)
(* phone: the plugin's bounded, coalescing queue (plugin/src/index.js),    *)
(* the daemon's conversation (hub.go, HubOps), and the open view that      *)
(* polls it (ConversationActivity.kt), across crashes of the daemon.       *)
(*                                                                         *)
(* A report is the id it is about and how new it is: the number of the     *)
(* edit for a part of a message, 1 (asked) or 2 (settled) for a permission *)
(* request.  Retracting a part is an edit whose text is blank.  Prompts    *)
(* are settled at the desk here; PluginLink has the phone's answers.  Of   *)
(* the other sessions' reports there is what they do to this session: they *)
(* push its prompts off the ring and itself out of the registry.           *)
(***************************************************************************)
EXTENDS HubOps, SequencesExt

CONSTANTS
  Parts,         \* message parts
  Requests,      \* permission requests
  NoRequest,     \* an empty prompt panel
  QueueMax,      \* QUEUE_MAX
  RequeueMax,    \* the 8 of flush's catch
  RingMax, ConvMax, \* capacities of the daemon's ring and of a conversation
  MaxEdits, MaxCrashes, MaxViews  \* bounds of the model

Ids == Parts \cup Requests

ASSUME TranscriptAssumption ==
  /\ IsFiniteSet(Ids) /\ Parts \cap Requests = {} /\ NoRequest \notin Ids
  /\ QueueMax \in Nat \ {0} /\ RequeueMax \in 0..QueueMax
  /\ RingMax \in Nat \ {0} /\ ConvMax \in Nat \ {0}
  /\ MaxEdits \in Nat /\ MaxCrashes \in Nat /\ MaxViews \in Nat

VARIABLES
  now, edits,         \* Kilo: how new each id is; edits so far
  upId,               \* plugin: the life of the daemon it is registered with, 0 = null
  queue, flight,      \* plugin: queued reports; the POST under way
  phase,              \* flush: "idle", "sent", "settling" (before the finally)
  daemonUp, life, crashes, \* the daemon, and how often it was started and crashed
  conv, convSeq,      \* the session's conversation; it exists once it has an entry
  badge,              \* the session's pending prompt
  asking, onRing,     \* the session's open prompts; whose envelopes the ring holds
  taken,              \* how many reports of the POST under way are taken in
  open, views, view, panel, \* phone: is the view open, how often; what it shows
  viewCursor,         \* phone: the view's cursor
  from,               \* history: the conversation that the cursor is from
  missed, skipped     \* histories: ids whose newest report was lost, or passed over

kilo   == <<now, edits>>
plugin == <<queue, flight, phase>>
hub    == <<conv, convSeq, badge, asking, onRing>>
daemon == <<daemonUp, life, crashes, hub, taken>>
phone  == <<open, views, view, panel, viewCursor, from, skipped>>
transcriptVars == <<kilo, upId, plugin, daemon, phone, missed>>

Version == 0..(MaxEdits + 2)
Report  == [id : Ids, ver : Version]
Flight  == [batch : Seq(Report), as : Nat, on : Nat]

NoFlight == [batch |-> <<>>, as |-> 0, on |-> 0]

TranscriptTypeOK ==
  /\ now \in [Ids -> Version] /\ edits \in 0..MaxEdits
  /\ upId \in 0..life /\ queue \in Seq(Report) /\ Len(queue) <= QueueMax /\ flight \in Flight
  /\ flight.as <= flight.on /\ flight.on <= life
  /\ (taken # 0 => phase = "sent" /\ daemonUp /\ flight.as = life)
  /\ phase \in {"idle", "sent", "settling"} /\ (phase = "idle" => queue = <<>>)
  /\ (phase # "sent" => flight = NoFlight)
  /\ daemonUp \in BOOLEAN /\ life \in Nat /\ crashes \in 0..MaxCrashes
  /\ conv \in Seq([id : Ids, seq : Nat, ver : Version]) /\ convSeq \in Nat
  /\ badge \in Requests \cup {NoRequest} /\ asking \subseteq Requests
  /\ onRing \in Seq(Requests \cup {NoRequest}) /\ taken \in 0..Len(flight.batch)
  /\ open \in BOOLEAN /\ views \in 0..MaxViews /\ view \in [Parts -> Version]
  /\ panel \in Requests \cup {NoRequest} /\ viewCursor \in Nat
  /\ from \in {"none", "this", "earlier"}
  /\ missed \subseteq Ids /\ skipped \subseteq Ids

Blank == [p \in Parts |-> 0]

TranscriptInit ==
  /\ now = [x \in Ids |-> 0] /\ edits = 0
  /\ upId = 0 /\ queue = <<>> /\ flight = NoFlight /\ phase = "idle"
  /\ daemonUp = FALSE /\ life = 0 /\ crashes = 0 /\ conv = <<>> /\ convSeq = 0
  /\ badge = NoRequest /\ asking = {} /\ onRing = <<>> /\ taken = 0
  /\ open = FALSE /\ views = 0 /\ view = Blank /\ panel = NoRequest
  /\ viewCursor = 0 /\ from = "none"
  /\ missed = {} /\ skipped = {}

--------------------------------------------------------------------------------
(* The plugin's queue.                                                     *)

isChatter(e) == e.id \in Parts

(* How new the newest report about x in s is.                              *)
NewestIn(s, x) == Max({0} \cup {s[i].ver : i \in {j \in DOMAIN s : s[j].id = x}})

(* What is lost when s becomes t.                                          *)
Lost(s, t) == {x \in Ids : NewestIn(s, x) > NewestIn(t, x)}

(* A full queue gives up its oldest message, or else its oldest report.    *)
MadeRoom(q) ==
  IF Len(q) < QueueMax THEN q
  ELSE IF \E i \in DOMAIN q : isChatter(q[i]) THEN RemoveAt(q, SelectInSeq(q, isChatter))
  ELSE Tail(q)

(* Of a queued part only the latest text is kept, in the first place found. *)
Supersedes(q, e) == isChatter(e) /\ HasEntry(q, e.id)
Enqueued(q, e) ==
  IF Supersedes(q, e) THEN [q EXCEPT ![FirstEntry(q, e.id)] = e] ELSE Append(MadeRoom(q), e)

(* After a failed flush a part may be queued twice; its new text replaces  *)
(* the first of the two and is then overtaken by the second.               *)
Overtaken(q, e) ==
  {x \in {e.id} \cap Parts : Cardinality({i \in DOMAIN q : q[i].id = x}) > 1}

(* flush: everything that is queued, under the id of this moment.          *)
Send(q) ==
  /\ flight' = [batch |-> q, as |-> upId, on |-> life]
  /\ queue' = <<>> /\ phase' = "sent"

(* report, and the flush that it ends with.  A newer text of a part makes  *)
(* up for the loss of an older one.                                        *)
report(e) ==
  LET q == Enqueued(queue, e)
  IN  /\ missed' = (missed \ ({e.id} \cap Parts))
                     \cup Lost(Append(queue, e), q) \cup Overtaken(queue, e)
      /\ \/ phase = "idle" /\ Send(q)
         \/ phase # "idle" /\ queue' = q /\ UNCHANGED <<flight, phase>>

(* The hook; without a registration it returns at once.                    *)
event(x, ver) ==
  /\ now' = [now EXCEPT ![x] = ver]
  /\ \/ upId # 0 /\ report([id |-> x, ver |-> ver])
     \/ upId = 0 /\ missed' = missed \cup {x} /\ UNCHANGED plugin
  /\ UNCHANGED <<upId, daemon, phone>>

Edit(p) == edits < MaxEdits /\ edits' = edits + 1 /\ event(p, edits + 1)
Ask(r)  == now[r] = 0 /\ event(r, 1) /\ UNCHANGED edits
Settle(r) == now[r] = 1 /\ event(r, 2) /\ UNCHANGED edits

--------------------------------------------------------------------------------
(* The POST and what becomes of it.                                        *)

(* publishLocked: the prompt whose envelope falls off the ring expires.    *)
publishLocked(r) == onRing' = RingAppend(onRing, r, RingMax)
Fallen == RingEvicts(onRing, RingMax)

(* appendConv, and the ids whose entries the conversation then drops.      *)
appendConv(e) ==
  /\ convSeq' = convSeq + 1
  /\ conv' = PutConv(conv, [id |-> e.id, seq |-> convSeq + 1, ver |-> e.ver], ConvMax)
Dropped ==
  {x \in Ids : HasEntry(conv, x) /\ ~HasEntry(conv', x)}

(* handleMessageLocked.                                                    *)
IngestPart(e) ==
  /\ e.id \in Parts /\ appendConv(e)
  /\ missed' = missed \cup Dropped
  /\ UNCHANGED <<badge, asking, onRing>>

(* A prompt: publish, keep open, trackSessionPromptLocked.                 *)
IngestAsked(e) ==
  /\ e.id \in Requests /\ e.ver = 1 /\ appendConv(e)
  /\ publishLocked(e.id) /\ asking' = (asking \ Fallen) \cup {e.id} /\ badge' = e.id
  /\ missed' = missed \cup Dropped

(* clearSessionPromptLocked: the entry, if there still is one, becomes a   *)
(* "gone" in its place.                                                    *)
Retract(e) ==
  /\ badge' = IF badge = e.id THEN NoRequest ELSE badge
  /\ \/ HasEntry(conv, e.id) /\ appendConv(e)
     \/ ~HasEntry(conv, e.id) /\ UNCHANGED <<conv, convSeq>>

(* handleRepliedLocked: a request that is not open is ignored, though its  *)
(* prompt may still be in the conversation.                                *)
IngestReplied(e) ==
  /\ e.id \in Requests /\ e.ver = 2
  /\ \/ /\ e.id \in asking /\ Retract(e)
        /\ publishLocked(e.id) /\ asking' = (asking \ {e.id}) \ Fallen
        /\ UNCHANGED missed
     \/ /\ e.id \notin asking /\ UNCHANGED hub
        /\ missed' = IF NewestIn(conv, e.id) = 1 THEN missed \cup {e.id} ELSE missed

(* IngestPluginEvents, for an upstream that the daemon knows: one report   *)
(* of the batch at a time.  The code holds the lock over the batch, so the *)
(* model only has more states; reports of other sessions come in between.  *)
Ingest ==
  /\ phase = "sent" /\ daemonUp /\ flight.as = life /\ taken < Len(flight.batch)
  /\ taken' = taken + 1
  /\ LET e == flight.batch[taken + 1]
     IN  IngestPart(e) \/ IngestAsked(e) \/ IngestReplied(e)
  /\ UNCHANGED <<kilo, upId, plugin, daemonUp, life, crashes, phone>>

(* 200, once all of the batch is taken in.                                 *)
Accepted ==
  /\ phase = "sent" /\ daemonUp /\ flight.as = life /\ taken = Len(flight.batch)
  /\ phase' = "settling" /\ flight' = NoFlight /\ taken' = 0
  /\ UNCHANGED <<kilo, upId, queue, daemonUp, life, crashes, hub, phone, missed>>

(* 400: the request has not failed, and the batch is gone.                 *)
Refused ==
  /\ phase = "sent" /\ daemonUp /\ flight.as # life
  /\ missed' = missed \cup Lost(flight.batch \o queue, queue)
  /\ phase' = "settling" /\ flight' = NoFlight
  /\ UNCHANGED <<kilo, upId, queue, daemon, phone>>

(* A batch with its prompts before its messages.                           *)
PromptsFirst(batch) ==
  LET chatter == {i \in DOMAIN batch : isChatter(batch[i])}
  IN  Pick(batch, DOMAIN batch \ chatter) \o Pick(batch, chatter)

(* Mutant: what failed is put behind what was queued meanwhile.            *)
RequeuedBehind(batch, q) ==
  LET room == IF Len(q) >= RequeueMax THEN 0 ELSE RequeueMax - Len(q)
      ordered == PromptsFirst(batch)
  IN  q \o SubSeq(ordered, 1, IF room < Len(ordered) THEN room ELSE Len(ordered))

(* A handful of the batch goes back in front, prompts first.               *)
Requeued(batch, q) ==
  LET room == IF Len(q) >= RequeueMax THEN 0 ELSE RequeueMax - Len(q)
      ordered == PromptsFirst(batch)
  IN  SubSeq(ordered, 1, IF room < Len(ordered) THEN room ELSE Len(ordered)) \o q

(* The daemon is down, or went down with the request.                      *)
FlushFails ==
  /\ phase = "sent" /\ (~daemonUp \/ flight.on # life)
  /\ queue' = Requeued(flight.batch, queue)
  /\ missed' = missed \cup Lost(flight.batch \o queue, queue')
  /\ phase' = "settling" /\ flight' = NoFlight
  /\ UNCHANGED <<kilo, upId, daemon, phone>>

(* The finally, a microtask of its own.                                    *)
Finally ==
  /\ phase = "settling"
  /\ \/ queue = <<>> /\ phase' = "idle" /\ UNCHANGED <<queue, flight>>
     \/ queue # <<>> /\ Send(queue)
  /\ UNCHANGED <<kilo, upId, daemon, phone, missed>>

(* The downlink loop: a 400 drops the registration, hello makes a new one. *)
Forget ==
  /\ daemonUp /\ upId \notin {0, life}
  /\ upId' = 0
  /\ UNCHANGED <<kilo, plugin, daemon, phone, missed>>

hello ==
  /\ daemonUp /\ upId = 0
  /\ upId' = life
  /\ UNCHANGED <<kilo, plugin, daemon, phone, missed>>

--------------------------------------------------------------------------------
(* The daemon's life, and the conversation's.  With the conversation dies  *)
(* what could retract the prompts in it, and the panel on the screen.      *)

Start ==
  /\ ~daemonUp /\ daemonUp' = TRUE /\ life' = life + 1
  /\ UNCHANGED <<kilo, upId, plugin, crashes, hub, taken, phone, missed>>

Orphans == {r \in Requests : NewestIn(conv, r) = 1 \/ panel = r}
Outlives == IF from = "this" THEN "earlier" ELSE from

Crash ==
  /\ daemonUp /\ crashes < MaxCrashes
  /\ daemonUp' = FALSE /\ crashes' = crashes + 1
  /\ conv' = <<>> /\ convSeq' = 0 /\ badge' = NoRequest /\ asking' = {} /\ onRing' = <<>>
  /\ taken' = 0 /\ from' = Outlives
  /\ missed' = missed \cup Lost(conv, flight.batch \o queue) \cup Orphans
  /\ UNCHANGED <<kilo, upId, plugin, life, open, views, view, panel, viewCursor, skipped>>

(* What the daemon has not taken in yet.                                   *)
Unheard == SubSeq(flight.batch, taken + 1, Len(flight.batch)) \o queue

(* evictSessionsLocked: a new session of another takes the place of this   *)
(* one, which has no badge.                                                *)
Evicted ==
  /\ conv # <<>> /\ badge = NoRequest
  /\ conv' = <<>> /\ convSeq' = 0 /\ from' = Outlives
  /\ missed' = missed \cup Lost(conv, Unheard) \cup Orphans
  /\ UNCHANGED <<kilo, upId, plugin, daemonUp, life, crashes, badge, asking, onRing, taken,
                 open, views, view, panel, viewCursor, skipped>>

(* Another session's prompt or notice on the ring.                         *)
OthersPublish ==
  /\ daemonUp /\ publishLocked(NoRequest) /\ asking' = asking \ Fallen
  /\ UNCHANGED <<kilo, upId, plugin, daemonUp, life, crashes, conv, convSeq, badge, taken,
                 phone, missed>>

--------------------------------------------------------------------------------
(* The view on the phone.                                                  *)

OpenView ==
  /\ ~open /\ views < MaxViews
  /\ open' = TRUE /\ views' = views + 1
  /\ view' = Blank /\ panel' = NoRequest /\ viewCursor' = 0 /\ from' = "none" /\ skipped' = {}
  /\ UNCHANGED <<kilo, upId, plugin, daemon, missed>>

showPrompt(s, x)    == [s EXCEPT !.panel = x]
dismissPrompt(s, x) == [s EXCEPT !.panel = IF @ = x THEN NoRequest ELSE @]

(* Mutant: a retraction is not looked at.                                  *)
RenderNoGone(s, e) ==
  IF isChatter(e) THEN [s EXCEPT !.view[e.id] = e.ver]
  ELSE IF e.ver = 1 THEN showPrompt(s, e.id) ELSE s

(* One entry: showPrompt, dismissPrompt, or renderMessage for a part.      *)
Render(s, e) ==
  IF isChatter(e) THEN [s EXCEPT !.view[e.id] = e.ver]
  ELSE IF e.ver = 1 THEN showPrompt(s, e.id) ELSE dismissPrompt(s, e.id)

(* render's loop over the events of one answer.                            *)
Rendered(events) ==
  LET after[n \in 0..Len(events)] ==
        IF n = 0 THEN [view |-> view, panel |-> panel] ELSE Render(after[n - 1], events[n])
  IN  after[Len(events)]

(* Entries that a cursor of an earlier conversation passes over.           *)
PassedOver ==
  {conv[i].id : i \in {j \in DOMAIN conv : from = "earlier" /\ conv[j].seq <= viewCursor}}

(* conversationOnce, once it has something to say or the wait is over;     *)
(* either way the cursor becomes the session's.                            *)
Read ==
  /\ open /\ daemonUp /\ conv # <<>> /\ (viewCursor # convSeq \/ PassedOver # {})
  /\ LET events == EventsAfter(conv, viewCursor)
     IN  /\ view' = Rendered(events).view /\ panel' = Rendered(events).panel
         /\ skipped' = (skipped \cup PassedOver) \ {events[i].id : i \in DOMAIN events}
  /\ viewCursor' = convSeq /\ from' = "this"
  /\ UNCHANGED <<kilo, upId, plugin, daemon, open, views, missed>>

(* UnknownSession: nothing to poll for any more.                           *)
SessionGone ==
  /\ open /\ daemonUp /\ conv = <<>>
  /\ open' = FALSE
  /\ UNCHANGED <<kilo, upId, plugin, daemon, views, view, panel, viewCursor, from, skipped, missed>>

Flush    == Ingest \/ Accepted \/ Refused \/ FlushFails \/ Finally
Downlink == Forget \/ hello
ViewLoop == Read \/ SessionGone

TranscriptNext ==
  \/ \E p \in Parts : Edit(p)
  \/ \E r \in Requests : Ask(r) \/ Settle(r)
  \/ Flush \/ Downlink \/ Start \/ Crash \/ Evicted \/ OthersPublish
  \/ OpenView \/ ViewLoop

(* The extension starts the daemon again, flush and downlink go on by      *)
(* themselves, and so does the view's loop while it is open.               *)
TranscriptSpec ==
  TranscriptInit /\ [][TranscriptNext]_transcriptVars
  /\ WF_transcriptVars(Start) /\ WF_transcriptVars(Flush)
  /\ WF_transcriptVars(Downlink) /\ WF_transcriptVars(ViewLoop)

--------------------------------------------------------------------------------
Heard(x) == NewestIn(conv, x)
OnItsWay == flight.batch \o queue

(* Once nothing about an id is on its way, the daemon has the newest text  *)
(* of a part, and offers a request exactly while it is not settled, unless *)
(* the newest report about it was lost at one of the places that lose it:  *)
(* no registration, a full queue, a failed or refused flush, a crash, a    *)
(* full conversation or registry, a prompt that has fallen off the ring.   *)
HeardIsNewest ==
  \A x \in Ids \ missed :
    NewestIn(Unheard, x) = 0 =>
      \/ Heard(x) = now[x]
      \/ x \in Requests /\ now[x] = 2 /\ Heard(x) # 1

(* Of what is on its way about an id, the newest report comes last and     *)
(* comes once, unless the newest was lost: full queues, failed flushes and *)
(* coalescing never let an older text of a part overtake a newer one.      *)
LastIsNewest ==
  \A x \in Ids \ missed : \A i \in DOMAIN OnItsWay :
    OnItsWay[i].id = x =>
      (OnItsWay[i].ver = now[x] <=> \A j \in DOMAIN OnItsWay : j > i => OnItsWay[j].id # x)

(* What is on its way has happened: it is a text or a state that its id    *)
(* has, or had.                                                            *)
HasHappened ==
  /\ \A i \in DOMAIN OnItsWay : OnItsWay[i].ver \in 1..now[OnItsWay[i].id]
  /\ \A p \in Parts : now[p] <= edits
  /\ \A r \in Requests : now[r] <= 2

(* The conversation has one entry about an id, as the phone's view of it   *)
(* and the daemon's lookups by id take for granted.                        *)
OneEntryEach == \A i, j \in DOMAIN conv : conv[i].id = conv[j].id => i = j

(* Of everything the plugin was told of, what has left it is the daemon's. *)
ReportsInv ==
  TranscriptTypeOK /\ HasHappened /\ OneEntryEach /\ LastIsNewest /\ HeardIsNewest

(* The conversation says what has happened, under the numbers up to the    *)
(* one that is a reader's next cursor, and dies with its daemon.           *)
ConvIsTrue ==
  /\ \A i \in DOMAIN conv :
       conv[i].seq \in 1..convSeq /\ conv[i].ver \in 1..now[conv[i].id]
  /\ ~daemonUp => conv = <<>> /\ asking = {} /\ from # "this"
  /\ daemonUp => life # 0

(* Of a request that the daemon knows to be settled nothing more will      *)
(* come, and one that it holds open is in the conversation.                *)
SettledIsLast ==
  /\ \A r \in Requests \ missed : Heard(r) = 2 => NewestIn(Unheard, r) = 0
  /\ \A r \in asking \ missed : Heard(r) = 1

(* An entry is on the screen: the text of a part is, and the panel is not  *)
(* that of a settled prompt.                                               *)
Shows(e) ==
  IF isChatter(e) THEN view[e.id] = e.ver ELSE e.ver = 2 => panel # e.id

(* The view shows what is up to its cursor, if that is this conversation's,*)
(* but for what it passed over; no text that a part never had; and no      *)
(* panel of a prompt that the daemon has not told of, unless the report    *)
(* was lost.                                                               *)
ViewIsTrue ==
  /\ from = "none" => viewCursor = 0
  /\ from = "this" => viewCursor <= convSeq
  /\ \A i \in DOMAIN conv :
       from = "this" /\ conv[i].seq <= viewCursor /\ conv[i].id \notin skipped => Shows(conv[i])
  /\ \A p \in Parts : view[p] <= now[p]
  /\ panel \in Requests \ missed => Heard(panel) # 0

(* The inductive invariant (StreamProofs): what has left the plugin is the *)
(* daemon's, and what has left the daemon is on the phone.                 *)
TranscriptInv == ReportsInv /\ ConvIsTrue /\ SettledIsLast /\ ViewIsTrue

(* The view has the newest text of a part and no panel of a settled prompt. *)
UpToDate(x) ==
  \/ x \in Parts /\ view[x] = now[x]
  \/ x \in Requests /\ (now[x] = 2 => panel # x)

(* From end to end: a view that has read all of the conversation shows the *)
(* newest of everything that is not on its way, unless the report was lost *)
(* or the view's cursor, of an earlier conversation, passed over it.       *)
ReadViewIsUpToDate ==
  open /\ daemonUp /\ from = "this" /\ viewCursor = convSeq =>
    \A x \in Ids \ (missed \cup skipped) : NewestIn(Unheard, x) = 0 => UpToDate(x)

(* An open view comes to show the newest text of every part and closes the *)
(* panel of every settled prompt, with the same exceptions.                *)
ViewConverges ==
  <>[](open => \A x \in Ids \ (missed \cup skipped) : UpToDate(x))
================================================================================
