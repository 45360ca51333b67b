---------------------------------- MODULE Hub ----------------------------------
(***************************************************************************)
(* The prh daemon's hub (api/internal/hub/hub.go): the one structure that  *)
(* sits between the Kilo windows' plugins and the phone.  Every method     *)
(* runs under Hub.mu, so each method is one action.                        *)
(*                                                                         *)
(*  - plugins register (one upstream per connection) and report events;    *)
(*    prompts and notices go onto a bounded ring that the phone polls;     *)
(*  - a permission prompt is kept open until the phone answers it (Reply), *)
(*    the desk answers it (the plugin reports "replied"), or its envelope  *)
(*    falls off the ring;                                                  *)
(*  - an answer becomes a decision queued for the upstream that asked;     *)
(*  - a session registry, built from the events, holds the conversation    *)
(*    and the badge of the prompt it waits on.                             *)
(*                                                                         *)
(* A batch of plugin events is a sequence of one-event batches: the code   *)
(* holds the lock over the batch, so the model only has more states than   *)
(* the program.  Texts, labels and titles are left out.                    *)
(***************************************************************************)
EXTENDS HubOps, FiniteSets

CONSTANTS
  Windows,       \* Kilo windows: a window is one (parentPID, directory)
  SessionIDs,    \* Kilo session ids
  NoSession,     \* the empty session id; may be a member of SessionIDs
  Requests,      \* Kilo permission request ids
  NoRequest,     \* the empty request id of a prompt decision
  Parts,         \* conversation part ids, as numbers
  Kinds,         \* the kinds of plugin event the windows report
  Reports,       \* the statuses they report
  Disconnects,   \* is RemoveUpstream ever called?
  RingSize, ConvSize, MaxSessions, MaxDecisions, \* capacities of the code
  MaxSeq, MaxConv, MaxDec, MaxUpstreams, MaxTime \* bounds of the model

AllKinds == {"permission", "replied", "message", "session.info",
             "session.deleted", "session.status", "idle", "error"}
Statuses == {"idle", "busy", "retry", "unknown"}

ASSUME HubAssumption ==
  /\ NoRequest \notin Requests /\ "none" \notin Windows
  /\ Parts \subseteq Nat
  /\ Kinds \subseteq AllKinds /\ Reports \subseteq Statuses
  /\ Disconnects \in BOOLEAN
  /\ RingSize \in Nat \ {0} /\ ConvSize \in Nat \ {0}
  /\ MaxSessions \in Nat \ {0} /\ MaxDecisions \in Nat \ {0}
  /\ MaxSeq \in Nat /\ MaxConv \in Nat /\ MaxDec \in Nat
  /\ MaxUpstreams \in Nat /\ MaxTime \in Nat

VARIABLES
  seq, ring,        \* newest sequence number; retained envelopes, oldest first
  open, byRequest,  \* prompts awaiting a reply; request id -> envelope id
  upSeq, upstreams, \* upstreams ever registered; those still registered
  ups,              \* upstream -> its window and its decision queue
  decSeq,           \* number of the newest decision
  known, sess,      \* session ids in the registry; their state
  clock,            \* nowMs()
  asked,            \* Kilo's side: which window and session asked a request
  settled           \* history: prompts answered, and the decision that was queued

ringVars == <<seq, ring, open, byRequest>>
upVars   == <<upSeq, upstreams, ups, decSeq>>
sessVars == <<known, sess>>
vars == <<ringVars, upVars, sessVars, clock, asked, settled>>

--------------------------------------------------------------------------------
(* Types.  Envelope "evt_N" is the number N of the publish that named it.  *)

NoEnv == 0
NoOrigin == [window |-> "none", session |-> "none"]

Upstream == 1..MaxUpstreams
Times    == 0..MaxTime

Envelope == [seq : Nat, id : Nat, type : {"perm", "idle", "err", "gone"},
             session : SessionIDs]
Pending  == [id : Nat, upstream : Upstream, request : Requests, session : SessionIDs]
Decision == [id : Nat, kind : {"perm", "prompt"}, request : Requests \cup {NoRequest},
             session : SessionIDs]
ConvID   == [space : {"evt", "part", "anon"}, n : Nat]
Entry    == [id : ConvID, seq : Nat, type : {"perm", "gone", "msg"}]
Session  == [upstream : Upstream \cup {0}, status : Statuses, updated : Times,
             convSeq : Nat, conv : Seq(Entry), prompt : Nat]
UpState  == [window : Windows \cup {"none"}, decisions : Seq(Decision), decCursor : Nat]

(* What an unregistered upstream slot and an unknown session hold.         *)
FreeSlot == [window |-> "none", decisions |-> <<>>, decCursor |-> 0]
NoSess   == [upstream |-> 0, status |-> "unknown", updated |-> 0,
             convSeq |-> 0, conv |-> <<>>, prompt |-> NoEnv]

Init ==
  /\ seq = 0 /\ ring = <<>> /\ open = {} /\ byRequest = [r \in Requests |-> NoEnv]
  /\ upSeq = 0 /\ upstreams = {} /\ ups = [u \in Upstream |-> FreeSlot] /\ decSeq = 0
  /\ known = {} /\ sess = [s \in SessionIDs |-> NoSess]
  /\ clock = 0
  /\ asked = [r \in Requests |-> NoOrigin]
  /\ settled = {}

--------------------------------------------------------------------------------
(* Upstreams.                                                              *)

(* A plugin's hello: always a new upstream, whatever window it comes from. *)
RegisterUpstream(w) ==
  /\ upSeq < MaxUpstreams
  /\ upSeq' = upSeq + 1
  /\ upstreams' = upstreams \cup {upSeq + 1}
  /\ ups' = [ups EXCEPT ![upSeq + 1] = [FreeSlot EXCEPT !.window = w]]
  /\ UNCHANGED <<decSeq, ringVars, sessVars, clock, asked, settled>>

(* Drops the upstream, its decision queue and its sessions; its prompts    *)
(* stay open.                                                              *)
RemoveUpstream(u) ==
  /\ Disconnects
  /\ u \in upstreams
  /\ LET gone == {s \in known : sess[s].upstream = u}
     IN  /\ known' = known \ gone
         /\ sess' = [s \in SessionIDs |-> IF s \in gone THEN NoSess ELSE sess[s]]
  /\ upstreams' = upstreams \ {u}
  /\ ups' = [ups EXCEPT ![u].decisions = <<>>, ![u].decCursor = 0]
  /\ UNCHANGED <<upSeq, decSeq, ringVars, clock, asked, settled>>

(* Mutant: decCursor counts the upstream's own decisions.                  *)
QueueDecisionLocalCount(u, kind, r, s) ==
  LET d == [id |-> decSeq + 1, kind |-> kind, request |-> r, session |-> s]
  IN  /\ decSeq' = decSeq + 1
      /\ ups' = [ups EXCEPT
                   ![u].decisions = LastN(Append(ups[u].decisions, d), MaxDecisions),
                   ![u].decCursor = ups[u].decCursor + 1]

(* queueDecisionLocked: number the decision globally, queue it, and move   *)
(* the upstream's cursor to that number.                                   *)
QueueDecision(u, kind, r, s) ==
  LET d == [id |-> decSeq + 1, kind |-> kind, request |-> r, session |-> s]
  IN  /\ decSeq' = decSeq + 1
      /\ ups' = [ups EXCEPT
                   ![u].decisions = LastN(Append(ups[u].decisions, d), MaxDecisions),
                   ![u].decCursor = decSeq + 1]

--------------------------------------------------------------------------------
(* The ring.                                                               *)

(* publishLocked.  A new envelope is named after its sequence number; a    *)
(* "gone" keeps the id of the prompt it retracts.                          *)
Publish(type, s, id) ==
  /\ seq' = seq + 1
  /\ ring' = RingAppend(ring, [seq |-> seq + 1, id |-> id, type |-> type, session |-> s],
                        RingSize)

(* The prompts that falling off the ring expires, and the two indexes      *)
(* without them.                                                           *)
Expired(op) == {p \in op : \E e \in RingEvicts(ring, RingSize) : e.id = p.id}
KeptOpenAll(op) == op  \* mutant: eviction forgets the open prompt
KeptOpen(op) == op \ Expired(op)

KeptByRequest(op, br) ==
  [r \in Requests |-> IF \E p \in Expired(op) : p.request = r THEN NoEnv ELSE br[r]]

(* `delete(h.open, id)` and `delete(h.byRequest, id)` of an answered prompt. *)
TakePromptLate(p) == open       \* mutant: left to the desk's "replied" to delete
TakePrompt(p) == open \ {p}
Unindex(br, r) == [br EXCEPT ![r] = NoEnv]

--------------------------------------------------------------------------------
(* The session registry.                                                   *)

(* Mutant: badges do not protect a session from eviction.                  *)
EvictionsOfAny ==
  LET need == IF Cardinality(known) >= MaxSessions
              THEN Cardinality(known) + 1 - MaxSessions ELSE 0
  IN  {E \in SUBSET known :
         /\ Cardinality(E) = need
         /\ \A a \in E, b \in known \ E : sess[a].updated <= sess[b].updated}

(* evictSessionsLocked: while the registry is full, drop the least         *)
(* recently active session that has no badge; map order breaks ties.       *)
Evictions ==
  LET idle == {s \in known : sess[s].prompt = NoEnv}
      need == IF Cardinality(known) >= MaxSessions
              THEN Cardinality(known) + 1 - MaxSessions ELSE 0
      many == IF need <= Cardinality(idle) THEN need ELSE Cardinality(idle)
  IN  {E \in SUBSET idle :
         /\ Cardinality(E) = many
         /\ \A a \in E, b \in idle \ E : sess[a].updated <= sess[b].updated}

(* getOrCreateSessionLocked: the session as the caller goes on with it.    *)
GetOrCreate(u, s) ==
  IF s \in known THEN [sess[s] EXCEPT !.upstream = u]
                 ELSE [NoSess EXCEPT !.upstream = u, !.updated = clock]

(* Store session s, evicting first when it is new.                         *)
Store(s, state) ==
  \E E \in (IF s \in known THEN {{}} ELSE Evictions) :
    /\ known' = (known \ E) \cup {s}
    /\ sess' = [x \in SessionIDs |->
                  IF x = s THEN state ELSE IF x \in E THEN NoSess ELSE sess[x]]

(* sess.appendConv on a session state.                                     *)
AppendConv(state, id, type) ==
  [state EXCEPT !.convSeq = state.convSeq + 1,
                !.conv = PutConv(state.conv,
                                 [id |-> id, seq |-> state.convSeq + 1, type |-> type],
                                 ConvSize)]

EvtID(n) == [space |-> "evt", n |-> n]

(* trackSessionPromptLocked.                                               *)
TrackPrompt(u, s, env) ==
  LET base == GetOrCreate(u, s)
      badged == [base EXCEPT !.prompt = env, !.updated = Touch(base.updated, clock)]
  IN  Store(s, AppendConv(badged, EvtID(env), "perm"))

(* Mutant: only the badge is dropped.                                      *)
ClearedBadgeOnly(state, env) ==
  IF state.prompt = env THEN [state EXCEPT !.prompt = NoEnv] ELSE state

(* clearSessionPromptLocked: drop the badge if it is this prompt's, and    *)
(* turn its conversation entry into a "gone" under a fresh position.       *)
Cleared(state, env) ==
  LET unbadged == IF state.prompt = env THEN [state EXCEPT !.prompt = NoEnv] ELSE state
  IN  IF HasEntry(state.conv, EvtID(env))
      THEN [unbadged EXCEPT
              !.convSeq = state.convSeq + 1,
              !.conv[FirstEntry(state.conv, EvtID(env))] =
                 [id |-> EvtID(env), seq |-> state.convSeq + 1, type |-> "gone"]]
      ELSE unbadged

ClearPrompt(s, env) ==
  /\ sess' = IF s \in known THEN [sess EXCEPT ![s] = Cleared(sess[s], env)] ELSE sess
  /\ known' = known

--------------------------------------------------------------------------------
(* Plugin events.  u is the upstream id the batch names: registered when   *)
(* the HTTP handler looked, possibly removed since.                        *)

Reporting(u, kind) == kind \in Kinds /\ u \in 1..upSeq

(* The default branch of IngestPluginEvents for a permission: publish,     *)
(* keep open, index, badge.  Kilo asks a request once.                     *)
IngestPermission(u, s, r) ==
  /\ Reporting(u, "permission") /\ asked[r] = NoOrigin
  /\ seq < MaxSeq
  /\ s \in known => sess[s].convSeq < MaxConv
  /\ asked' = [asked EXCEPT ![r] = [window |-> ups[u].window, session |-> s]]
  /\ Publish("perm", s, seq + 1)
  /\ open' = KeptOpen(open) \cup
               {[id |-> seq + 1, upstream |-> u, request |-> r, session |-> s]}
  /\ byRequest' = [KeptByRequest(open, byRequest) EXCEPT ![r] = seq + 1]
  /\ IF s = NoSession THEN UNCHANGED sessVars ELSE TrackPrompt(u, s, seq + 1)
  /\ UNCHANGED <<upVars, clock, settled>>

(* handleRepliedLocked.  A request that is not indexed is ignored; an      *)
(* index entry without its open prompt cannot occur (IndexedIsOpen).       *)
IngestReplied(r) ==
  /\ "replied" \in Kinds /\ byRequest[r] # NoEnv
  /\ seq < MaxSeq
  /\ \E p \in open :
       /\ p.id = byRequest[r]
       /\ p.session \in known => sess[p.session].convSeq < MaxConv
       /\ Publish("gone", p.session, p.id)
       /\ open' = KeptOpen(TakePrompt(p))
       /\ byRequest' = KeptByRequest(TakePrompt(p), Unindex(byRequest, r))
       /\ ClearPrompt(p.session, p.id)
       /\ settled' = settled \cup {[env |-> p.id, request |-> r, dec |-> 0]}
  /\ UNCHANGED <<upVars, clock, asked>>

(* handleMessageLocked: a part with an id replaces its earlier text; one   *)
(* without takes a number of the conversation for its id.                  *)
IngestMessage(u, s, ms) ==
  /\ Reporting(u, "message") /\ s # NoSession
  /\ LET base == GetOrCreate(u, s)
         touched == [base EXCEPT !.updated = Touch(base.updated, ms)]
         numbered == [touched EXCEPT !.convSeq = base.convSeq + 1]
     IN  /\ base.convSeq + 1 < MaxConv
         /\ \/ \E p \in Parts :
                 Store(s, AppendConv(touched, [space |-> "part", n |-> p], "msg"))
            \/ Store(s, AppendConv(numbered,
                                   [space |-> "anon", n |-> base.convSeq + 1], "msg"))
  /\ UNCHANGED <<ringVars, upVars, clock, asked, settled>>

(* handleSessionCreatedLocked and handleSessionUpdatedLocked, which differ *)
(* in the labels they store.                                               *)
IngestSessionInfo(u, s, ms) ==
  /\ Reporting(u, "session.info")
  /\ LET base == GetOrCreate(u, s)
     IN  Store(s, [base EXCEPT !.updated = Touch(base.updated, ms)])
  /\ UNCHANGED <<ringVars, upVars, clock, asked, settled>>

IngestSessionDeleted(s) ==
  /\ "session.deleted" \in Kinds /\ s \in known
  /\ known' = known \ {s}
  /\ sess' = [sess EXCEPT ![s] = NoSess]
  /\ UNCHANGED <<ringVars, upVars, clock, asked, settled>>

(* handleSessionStatusLocked.  An empty status only touches the session,   *)
(* as IngestSessionInfo does.                                              *)
SetStatus(u, s, status, ms) ==
  LET base == GetOrCreate(u, s)
  IN  Store(s, [base EXCEPT !.status = status, !.updated = Touch(base.updated, ms)])

IngestSessionStatus(u, s, status, ms) ==
  /\ Reporting(u, "session.status")
  /\ SetStatus(u, s, status, ms)
  /\ UNCHANGED <<ringVars, upVars, clock, asked, settled>>

(* session.idle is a status and a notice for the watch.                    *)
IngestIdle(u, s, ms) ==
  /\ Reporting(u, "idle") /\ seq < MaxSeq
  /\ SetStatus(u, s, "idle", ms)
  /\ Publish("idle", s, seq + 1)
  /\ open' = KeptOpen(open)
  /\ byRequest' = KeptByRequest(open, byRequest)
  /\ UNCHANGED <<upVars, clock, asked, settled>>

IngestError(s) ==
  /\ "error" \in Kinds /\ upSeq > 0 /\ seq < MaxSeq
  /\ Publish("err", s, seq + 1)
  /\ open' = KeptOpen(open)
  /\ byRequest' = KeptByRequest(open, byRequest)
  /\ UNCHANGED <<upVars, sessVars, clock, asked, settled>>

--------------------------------------------------------------------------------
(* The phone.                                                              *)

(* The upstream an answer is routed to: the one that asked.                *)
RouteNewest(p) == upSeq         \* mutant: the window that connected last
Route(p) == p.upstream

(* Hub.Reply to an open prompt (any other id is refused with 409 and       *)
(* changes nothing).  Nothing is published on the ring.                    *)
Reply(p) ==
  /\ p.session \in known => sess[p.session].convSeq < MaxConv
  /\ decSeq < MaxDec
  /\ open' = TakePrompt(p)
  /\ byRequest' = Unindex(byRequest, p.request)
  /\ ClearPrompt(p.session, p.id)
  /\ \/ /\ Route(p) \notin upstreams
        /\ settled' = settled \cup {[env |-> p.id, request |-> p.request, dec |-> 0]}
        /\ UNCHANGED <<ups, decSeq>>
     \/ /\ Route(p) \in upstreams
        /\ QueueDecision(Route(p), "perm", p.request, p.session)
        /\ settled' = settled \cup {[env |-> p.id, request |-> p.request, dec |-> decSeq + 1]}
  /\ UNCHANGED <<seq, ring, upSeq, upstreams, clock, asked>>

(* Hub.Prompt with a non-empty text, on a known session whose window is    *)
(* registered (every other case returns an error before changing state).   *)
Prompt(s) ==
  /\ s \in known /\ sess[s].upstream \in upstreams /\ decSeq < MaxDec
  /\ QueueDecision(sess[s].upstream, "prompt", NoRequest, s)
  /\ sess' = [sess EXCEPT ![s].status = "busy",
                          ![s].updated = Touch(sess[s].updated, clock)]
  /\ UNCHANGED <<ringVars, upSeq, upstreams, known, clock, asked, settled>>

Tick ==
  /\ clock < MaxTime
  /\ clock' = clock + 1
  /\ UNCHANGED <<ringVars, upVars, sessVars, asked, settled>>

Next ==
  \/ \E w \in Windows : RegisterUpstream(w)
  \/ \E u \in Upstream : RemoveUpstream(u)
  \/ \E u \in Upstream, s \in SessionIDs, r \in Requests : IngestPermission(u, s, r)
  \/ \E r \in Requests : IngestReplied(r)
  \/ \E u \in Upstream, s \in SessionIDs, ms \in Times : IngestMessage(u, s, ms)
  \/ \E u \in Upstream, s \in SessionIDs, ms \in Times : IngestSessionInfo(u, s, ms)
  \/ \E s \in SessionIDs : IngestSessionDeleted(s)
  \/ \E u \in Upstream, s \in SessionIDs, st \in Reports, ms \in Times :
       IngestSessionStatus(u, s, st, ms)
  \/ \E u \in Upstream, s \in SessionIDs, ms \in Times : IngestIdle(u, s, ms)
  \/ \E s \in SessionIDs : IngestError(s)
  \/ \E p \in open : Reply(p)
  \/ \E s \in SessionIDs : Prompt(s)
  \/ Tick

Spec == Init /\ [][Next]_vars

--------------------------------------------------------------------------------
(* Correctness.                                                            *)

(* Every variable of the hub keeps its type.                               *)
TypeOK ==
  /\ seq \in Nat /\ ring \in Seq(Envelope)
  /\ open \in SUBSET Pending /\ byRequest \in [Requests -> Nat]
  /\ upSeq \in 0..MaxUpstreams /\ upstreams \in SUBSET (1..upSeq)
  /\ ups \in [Upstream -> UpState] /\ decSeq \in Nat
  /\ known \in SUBSET SessionIDs /\ sess \in [SessionIDs -> Session]
  /\ clock \in Times
  /\ asked \in [Requests -> [window : Windows, session : SessionIDs] \cup {NoOrigin}]
  /\ settled \in SUBSET [env : Nat, request : Requests, dec : Nat]

(* pollOnce refuses a cursor that this daemon handed out exactly when more *)
(* envelopes than the ring holds have been published since.                *)
RefusalIsExact ==
  \A c \in 0..seq : CursorTooOld(ring, seq, c) <=> c + RingSize < seq

(* pollOnce never skips silently: a poll that is not refused returns every *)
(* envelope published since the cursor, in order.                          *)
PollIsGapFree ==
  \A c \in 0..seq :
    LET events == EventsAfter(ring, c)
    IN  ~CursorTooOld(ring, seq, c) =>
          /\ Len(events) = seq - c
          /\ \A i \in DOMAIN events : events[i].seq = c + i

(* A prompt that can still be answered can still be polled: its envelope   *)
(* is on the ring (publishLocked expires the one with the other).          *)
OpenIsRetained ==
  \A p \in open : \E i \in DOMAIN ring :
    ring[i].id = p.id /\ ring[i].type = "perm" /\ ring[i].session = p.session

(* The request index never dangles: it leads to an open prompt of that     *)
(* request, so a desk answer always finds the prompt it retracts.          *)
IndexedIsOpen ==
  \A r \in Requests : byRequest[r] # NoEnv =>
    \E p \in open : p.id = byRequest[r] /\ p.request = r

(* Conversely every open prompt is the one its request leads to, so an     *)
(* answer at the desk retracts it.                                         *)
OpenIsIndexed == \A p \in open : byRequest[p.request] = p.id

(* A request is decided at most once, however phone replies, desk answers, *)
(* expiry and further prompts interleave (Reply deletes before it queues). *)
OneDecisionPerRequest ==
  \A a, b \in settled :
    (a.request = b.request /\ a.dec # 0 /\ b.dec # 0) => a = b

(* A session state advertises envelope e to the phone: badge or live panel.*)
Advertises(state, e) ==
  \/ state.prompt = e
  \/ \E i \in 1..Len(state.conv) :
       state.conv[i].id = EvtID(e) /\ state.conv[i].type = "perm"

(* Once a prompt is answered, on the phone or at the desk, no session list *)
(* badge and no conversation panel ever offers it again                    *)
(* (clearSessionPromptLocked).                                             *)
SettledIsNotAdvertised ==
  \A a \in settled, s \in known : ~Advertises(sess[s], a.env)

(* A decision about a request is queued only for the window that asked it, *)
(* under the session that asked it.                                        *)
DecisionsGoHome ==
  \A u \in upstreams : \A i \in DOMAIN ups[u].decisions :
    LET d == ups[u].decisions[i]
    IN  d.kind = "perm" =>
          asked[d.request] = [window |-> ups[u].window, session |-> d.session]

(* What a step leaves for a plugin that polls with its queue's cursor.     *)
HandsOutOnlyNew ==
  \A u \in upstreams \cap upstreams' :
    LET before == ups[u].decisions
        after  == ups'[u].decisions
        fresh  == DecisionsAfter(after, ups[u].decCursor)
    IN  IF after = before THEN fresh = <<>>
        ELSE fresh = <<[after[Len(after)] EXCEPT !.id = decSeq']>>

(* A plugin that echoes the cursor it was given is handed each decision    *)
(* once: after any step it sees what that step queued for it, and nothing  *)
(* it has seen before (decCursor counts globally, as the ids do).          *)
EchoedCursorYieldsOnlyNew == [][HandsOutOnlyNew]_vars

(* From session state old to new, every change of the conversation is past *)
(* old's newest cursor, and the newest cursor is an entry's position.      *)
ChangesVisible(old, new) ==
  /\ \A i \in 1..Len(new.conv) :
       \/ \E j \in 1..Len(old.conv) : old.conv[j] = new.conv[i]
       \/ new.conv[i].seq > old.convSeq /\ new.conv[i].seq <= new.convSeq
  /\ new.convSeq # old.convSeq =>
       \E i \in 1..Len(new.conv) : new.conv[i].seq = new.convSeq

IdsDiffer(conv) == \A i, j \in 1..Len(conv) : conv[i].id = conv[j].id => i = j

(* A conversation reader at the newest cursor sees every later change: an  *)
(* entry that is new or replaced carries a position past that cursor, a    *)
(* cursor that moves has moved to an entry (a part streamed in place       *)
(* included), and an id names one entry only.                              *)
ConversationChangesVisible ==
  [][\A s \in known \cap known' :
       ChangesVisible(sess[s], sess'[s]) /\ IdsDiffer(sess'[s].conv)]_vars

(* What a step that stores a new session may do to the others.             *)
MakesRoom ==
  known' \ known # {} =>
    /\ \A s \in known \ known' :
         /\ sess[s].prompt = NoEnv /\ Cardinality(known) >= MaxSessions
         /\ \A t \in known \cap known' :
              sess[t].prompt = NoEnv => sess[s].updated <= sess[t].updated
    /\ Cardinality(known') > MaxSessions =>
         \A s \in known \cap known' : sess[s].prompt # NoEnv

(* The registry exceeds its capacity only when every session it holds has  *)
(* a badge, and drops a session for another only when it is full, the one  *)
(* it drops has none, and none it keeps without a badge was active less    *)
(* recently (evictSessionsLocked).                                         *)
RegistryCapYieldsOnlyToPrompts == [][MakesRoom]_vars

--------------------------------------------------------------------------------
(* Why the books of prompts balance: the facts that every step of the hub  *)
(* keeps together, and that the properties above follow from (HubProofs).  *)

(* The ring holds the newest envelopes, numbered without a gap.            *)
RingIsContiguous ==
  /\ Len(ring) = IF seq < RingSize THEN seq ELSE RingSize
  /\ \A i \in 1..Len(ring) : ring[i].seq = seq - Len(ring) + i

RegisteredHaveWindows == \A u \in 1..upSeq : ups[u].window \in Windows

(* An open prompt remembers who asked, and its id is its own.              *)
OpenHasOrigin ==
  \A p \in open :
    /\ p.id <= seq /\ p.upstream \in 1..upSeq
    /\ asked[p.request] = [window |-> ups[p.upstream].window, session |-> p.session]
OpenIdsDiffer == \A p, q \in open : p.id = q.id => p = q

(* A settled request was asked, is not open, and was settled once.         *)
SettledIsClosed ==
  \A a \in settled :
    asked[a.request] # NoOrigin /\ \A p \in open : p.request # a.request
SettledOnce == \A a, b \in settled : a.request = b.request => a = b

(* DecisionsGoHome, for the slots of removed upstreams too.                *)
QueuesGoHome ==
  \A u \in Upstream : \A i \in 1..Len(ups[u].decisions) :
    LET d == ups[u].decisions[i]
    IN  d.kind = "perm" =>
          /\ u \in 1..upSeq
          /\ d.request \in Requests
          /\ asked[d.request] = [window |-> ups[u].window, session |-> d.session]

(* Every decision of a queue was handed out with the queue's cursor.       *)
QueuesAreCounted ==
  \A u \in Upstream :
    /\ ups[u].decCursor <= decSeq
    /\ \A i \in 1..Len(ups[u].decisions) : ups[u].decisions[i].id <= ups[u].decCursor

(* What a prompt, its index entry, its envelope, the answers given and the *)
(* decisions queued have to do with each other.                            *)
PromptInv ==
  /\ RingIsContiguous /\ RegisteredHaveWindows
  /\ OpenIsRetained /\ IndexedIsOpen /\ OpenIsIndexed
  /\ OpenHasOrigin /\ OpenIdsDiffer
  /\ SettledIsClosed /\ SettledOnce /\ QueuesGoHome

(* An id names one entry of a conversation.                                *)
ConvIdsDiffer == \A s \in known : IdsDiffer(sess[s].conv)

(* Every prompt, open or settled, has been published.                      *)
PromptsArePublished ==
  (\A p \in open : p.id \in 1..seq) /\ (\A a \in settled : a.env \in 1..seq)

(* A session advertises only envelopes that exist, and of the open prompts *)
(* its own.                                                                *)
AdvertisedIsPublished ==
  \A s \in known : \A e \in (seq + 1)..MaxSeq : ~Advertises(sess[s], e)
AdvertisedIsOwn ==
  \A s \in known, p \in open : Advertises(sess[s], p.id) => p.session = s

(* What the session registry has to do with the prompts.                   *)
SessionInv ==
  /\ IsFiniteSet(known) /\ ConvIdsDiffer
  /\ PromptsArePublished /\ AdvertisedIsPublished /\ AdvertisedIsOwn
  /\ SettledIsNotAdvertised

(* The inductive invariant.                                                *)
HubInv == TypeOK /\ PromptInv /\ SessionInv /\ QueuesAreCounted

================================================================================
