------------------------------ MODULE PluginLink ------------------------------
(***************************************************************************)
(* The link between the Kilo windows' plugins (plugin/src/index.js) and    *)
(* the prh daemon: registration, the fire-and-forget uplink, the decision  *)
(* long-poll and the application of decisions in Kilo, across daemon       *)
(* crashes and restarts.                                                   *)
(*                                                                         *)
(* The daemon's memory is lost with the daemon; the plugin's is not.  Of   *)
(* the hub only what this link touches is kept: which upstream ids exist,  *)
(* the open prompts, the sessions' upstreams and the decision queues       *)
(* (HubOps; Hub has the whole of it).                                      *)
(*                                                                         *)
(* The plugin is single-threaded: an action is what runs between two       *)
(* awaits.  A request over the unix socket fails exactly when the daemon   *)
(* is down, so it is one step at the daemon.                               *)
(***************************************************************************)
EXTENDS HubOps, FiniteSets

CONSTANTS
  Windows,       \* Kilo windows, each with one plugin and one session
  Requests,      \* permission request ids
  Askers,        \* the windows a request may come from
  NoWindow,      \* no window: an upstream id that is not registered
  NoRequest,     \* the request of a prompt decision
  CallsFail,     \* may Kilo's API refuse a call that would have been valid?
  MaxDecisions,  \* maxQueuedDecisions
  MaxPrompts, MaxCrashes \* bounds of the model

ASSUME PluginLinkAssumption ==
  /\ NoWindow \notin Windows /\ NoRequest \notin Requests
  /\ IsFiniteSet(Windows) /\ Askers \in [Requests -> SUBSET Windows]
  /\ CallsFail \in BOOLEAN
  /\ MaxDecisions \in Nat \ {0} /\ MaxPrompts \in Nat /\ MaxCrashes \in Nat

(* A window that is registered stays so while the daemon lives, so ids     *)
(* beyond the number of windows are never handed out.                      *)
Upstream == 1..Cardinality(Windows)

VARIABLES
  running, crashes,    \* is the daemon up; how often it has crashed
  upSeq, owner,        \* ids handed out; upstream id -> window, or NoWindow
  open,                \* prompts awaiting a reply: [request, upstream]
  sessUp,              \* window -> upstream its session was last reported by, or 0
  decSeq, queue, decCursor, \* decisions: newest number, queues, their cursors
  upId, cursor,        \* plugin: registration (0 = null), decision cursor
  batch, next, calling,\* plugin: decisions left of a response, its cursor, in a call?
  pending, seen,       \* plugin: forwarded requests still open, applied nonces
  uplink,              \* plugin: reports queued for the daemon
  origin, answered,    \* Kilo: who asked a request; settled requests
  nonces,              \* nonces drawn so far (they are random, so never reused)
  calls,               \* history: calls made to Kilo, by which window, meant for which
  accepted             \* history: requests whose reply this daemon accepted

daemonVars == <<upSeq, owner, open, sessUp, decSeq, queue, decCursor, accepted>>
loopVars   == <<upId, cursor, batch, next, calling>>
hookVars   == <<pending, uplink>>
kiloVars   == <<origin, answered>>
pluginVars == <<running, crashes, daemonVars, loopVars, hookVars, seen, kiloVars, nonces, calls>>

Decision == [id : Nat, nonce : Nat, kind : {"perm", "prompt"},
             request : Requests \cup {NoRequest}, window : Windows]
Report   == [kind : {"permission", "replied"}, request : Requests]

PluginTypeOK ==
  /\ running \in BOOLEAN /\ crashes \in 0..MaxCrashes
  /\ upSeq \in 0..Cardinality(Windows) /\ owner \in [Upstream -> Windows \cup {NoWindow}]
  /\ open \subseteq [request : Requests, upstream : Upstream]
  /\ sessUp \in [Windows -> Upstream \cup {0}]
  /\ decSeq \in Nat /\ queue \in [Upstream -> Seq(Decision)]
  /\ decCursor \in [Upstream -> Nat]
  /\ upId \in [Windows -> Upstream \cup {0}] /\ cursor \in [Windows -> Nat]
  /\ batch \in [Windows -> Seq(Decision)] /\ next \in [Windows -> Nat]
  /\ calling \in [Windows -> BOOLEAN]
  /\ pending \in [Windows -> SUBSET Requests] /\ seen \in [Windows -> SUBSET Nat]
  /\ uplink \in [Windows -> Seq(Report)]
  /\ origin \in [Requests -> Windows \cup {NoWindow}] /\ answered \subseteq Requests
  /\ nonces \in Nat /\ accepted \subseteq Requests
  /\ calls \subseteq [by : Windows, for : Windows, kind : {"perm", "prompt"}]

(* hub.New: what a daemon starts from.                                     *)
FreshDaemon ==
  /\ upSeq' = 0 /\ owner' = [u \in Upstream |-> NoWindow]
  /\ open' = {} /\ sessUp' = [w \in Windows |-> 0]
  /\ decSeq' = 0 /\ queue' = [u \in Upstream |-> <<>>]
  /\ decCursor' = [u \in Upstream |-> 0] /\ accepted' = {}

PluginInit ==
  /\ running = FALSE /\ crashes = 0
  /\ upSeq = 0 /\ owner = [u \in Upstream |-> NoWindow]
  /\ open = {} /\ sessUp = [w \in Windows |-> 0]
  /\ decSeq = 0 /\ queue = [u \in Upstream |-> <<>>]
  /\ decCursor = [u \in Upstream |-> 0] /\ accepted = {}
  /\ upId = [w \in Windows |-> 0] /\ cursor = [w \in Windows |-> 0]
  /\ batch = [w \in Windows |-> <<>>] /\ next = [w \in Windows |-> 0]
  /\ calling = [w \in Windows |-> FALSE]
  /\ pending = [w \in Windows |-> {}] /\ seen = [w \in Windows |-> {}]
  /\ uplink = [w \in Windows |-> <<>>]
  /\ origin = [r \in Requests |-> NoWindow] /\ answered = {}
  /\ nonces = 0 /\ calls = {}

--------------------------------------------------------------------------------
(* The daemon's life.                                                      *)

Start ==
  /\ ~running
  /\ running' = TRUE
  /\ UNCHANGED <<crashes, daemonVars, loopVars, hookVars, seen, kiloVars, nonces, calls>>

Crash ==
  /\ running /\ crashes < MaxCrashes
  /\ running' = FALSE /\ crashes' = crashes + 1
  /\ FreshDaemon
  /\ UNCHANGED <<loopVars, hookVars, seen, kiloVars, nonces, calls>>

--------------------------------------------------------------------------------
(* The phone, at the daemon.                                               *)

(* queueDecisionLocked.                                                    *)
QueueDecision(u, kind, r, w) ==
  LET d == [id |-> decSeq + 1, nonce |-> nonces + 1, kind |-> kind,
            request |-> r, window |-> w]
  IN  /\ decSeq' = decSeq + 1 /\ nonces' = nonces + 1
      /\ queue' = [queue EXCEPT ![u] = LastN(Append(@, d), MaxDecisions)]
      /\ decCursor' = [decCursor EXCEPT ![u] = decSeq + 1]

(* Hub.Reply, to an open prompt; 200 to the phone.                         *)
Reply(p) ==
  /\ running
  /\ open' = open \ {p}
  /\ QueueDecision(p.upstream, "perm", p.request, origin[p.request])
  /\ accepted' = accepted \cup {p.request}
  /\ UNCHANGED <<running, crashes, upSeq, owner, sessUp, loopVars, hookVars, seen,
                 kiloVars, calls>>

(* Hub.Prompt, to the session of window w.                                 *)
Prompt(w) ==
  /\ running /\ sessUp[w] # 0 /\ nonces < MaxPrompts + Cardinality(Requests)
  /\ decSeq < MaxPrompts
  /\ QueueDecision(sessUp[w], "prompt", NoRequest, w)
  /\ UNCHANGED <<running, crashes, upSeq, owner, open, sessUp, accepted, loopVars,
                 hookVars, seen, kiloVars, calls>>

--------------------------------------------------------------------------------
(* Kilo's event bus and the plugin's hook.  Without a registration the     *)
(* hook returns before doing anything.                                     *)

Hooked(w) == upId[w] # 0
Reported(w, kind, r) ==
  uplink' = [uplink EXCEPT ![w] = Append(@, [kind |-> kind, request |-> r])]

Ask(w, r) ==
  /\ origin[r] = NoWindow /\ w \in Askers[r]
  /\ origin' = [origin EXCEPT ![r] = w]
  /\ \/ /\ Hooked(w)
        /\ pending' = [pending EXCEPT ![w] = @ \cup {r}]
        /\ Reported(w, "permission", r)
     \/ ~Hooked(w) /\ UNCHANGED hookVars
  /\ UNCHANGED <<running, crashes, daemonVars, loopVars, seen, answered, nonces, calls>>

(* Mutant: the hook forgets the request without telling the daemon.        *)
SettleQuietly(w, r) ==
  /\ answered' = answered \cup {r}
  /\ pending' = [pending EXCEPT ![w] = @ \ {r}]
  /\ UNCHANGED uplink

(* A request is settled in Kilo, which announces it on the bus.            *)
Settle(w, r) ==
  /\ answered' = answered \cup {r}
  /\ \/ /\ Hooked(w)
        /\ pending' = [pending EXCEPT ![w] = @ \ {r}]
        /\ Reported(w, "replied", r)
     \/ ~Hooked(w) /\ UNCHANGED hookVars

(* The user answers in the editor.                                         *)
AnswerAtDesk(w, r) ==
  /\ origin[r] = w /\ r \notin answered
  /\ Settle(w, r)
  /\ UNCHANGED <<running, crashes, daemonVars, loopVars, seen, origin, nonces, calls>>

(* UpstreamExists for the id the plugin names.                             *)
Known(w) == upId[w] \in {u \in Upstream : owner[u] # NoWindow}

(* flush: the whole queue in one POST.  A daemon that does not know the    *)
(* upstream answers 400, which is not a failure of the request, and the    *)
(* batch is gone; a daemon that is down puts the batch back in the queue.  *)
Flush(w) ==
  /\ uplink[w] # <<>> /\ running
  /\ uplink' = [uplink EXCEPT ![w] = <<>>]
  /\ \/ /\ Known(w)
        /\ LET reports == {uplink[w][i] : i \in DOMAIN uplink[w]}
               asked   == {e.request : e \in {x \in reports : x.kind = "permission"}}
               replied == {e.request : e \in {x \in reports : x.kind = "replied"}}
           IN  open' = {p \in open : p.request \notin replied} \cup
                         [request : asked \ replied, upstream : {upId[w]}]
        /\ sessUp' = [sessUp EXCEPT ![w] = upId[w]]
     \/ /\ ~Known(w)
        /\ UNCHANGED <<open, sessUp>>
  /\ UNCHANGED <<running, crashes, upSeq, owner, decSeq, queue, decCursor, accepted,
                 loopVars, pending, seen, kiloVars, nonces, calls>>

--------------------------------------------------------------------------------
(* The downlink loop.                                                      *)

AtTop(w) == batch[w] = <<>>

(* Mutant: the cursor of the previous registration is kept.                *)
HelloKeepsCursor(w) ==
  /\ AtTop(w) /\ upId[w] = 0 /\ running
  /\ upSeq' = upSeq + 1
  /\ owner' = [owner EXCEPT ![upSeq + 1] = w]
  /\ upId' = [upId EXCEPT ![w] = upSeq + 1]
  /\ UNCHANGED <<running, crashes, open, sessUp, decSeq, queue, decCursor, accepted, cursor,
                 batch, next, calling, hookVars, seen, kiloVars, nonces, calls>>

(* hello, when unregistered and the daemon is up.                          *)
Hello(w) ==
  /\ AtTop(w) /\ upId[w] = 0 /\ running
  /\ upSeq' = upSeq + 1
  /\ owner' = [owner EXCEPT ![upSeq + 1] = w]
  /\ upId' = [upId EXCEPT ![w] = upSeq + 1]
  /\ cursor' = [cursor EXCEPT ![w] = 0]
  /\ UNCHANGED <<running, crashes, open, sessUp, decSeq, queue, decCursor, accepted,
                 batch, next, calling, hookVars, seen, kiloVars, nonces, calls>>

(* `state.cursor = json.cursor || state.cursor`.                           *)
Advance(w, c) == cursor' = [cursor EXCEPT ![w] = IF c # 0 THEN c ELSE @]

(* Mutant: an unknown registration is retried like any other error.        *)
PollKeepsRegistration(w) ==
  /\ AtTop(w) /\ Known(w) /\ running
  /\ LET new == DecisionsAfter(queue[upId[w]], cursor[w])
     IN  /\ new # <<>>
         /\ batch' = [batch EXCEPT ![w] = new]
         /\ next' = [next EXCEPT ![w] = decCursor[upId[w]]]
  /\ UNCHANGED <<running, crashes, daemonVars, upId, cursor, calling, hookVars, seen,
                 kiloVars, nonces, calls>>

(* The long-poll returned: 400 drops the registration, an empty answer (a  *)
(* timeout) moves the cursor, decisions are kept to be applied.            *)
Poll(w) ==
  /\ AtTop(w) /\ upId[w] # 0 /\ running
  /\ LET u == upId[w]
         new == DecisionsAfter(queue[u], cursor[w])
     IN  \/ /\ owner[u] = NoWindow
            /\ upId' = [upId EXCEPT ![w] = 0]
            /\ UNCHANGED <<cursor, batch, next>>
         \/ /\ owner[u] # NoWindow /\ new = <<>>
            /\ Advance(w, decCursor[u])
            /\ UNCHANGED <<upId, batch, next>>
         \/ /\ owner[u] # NoWindow /\ new # <<>>
            /\ batch' = [batch EXCEPT ![w] = new]
            /\ next' = [next EXCEPT ![w] = decCursor[u]]
            /\ UNCHANGED <<upId, cursor>>
  /\ UNCHANGED <<running, crashes, daemonVars, calling, hookVars, seen, kiloVars, nonces, calls>>

(* One decision is done with and acknowledged (the daemon ignores acks,    *)
(* and a failed ack is swallowed).                                         *)
Done(w) ==
  /\ batch' = [batch EXCEPT ![w] = Tail(@)]
  /\ IF Len(batch[w]) = 1 THEN Advance(w, next[w]) ELSE UNCHANGED cursor

(* Mutant: any permission decision is taken for one of ours.               *)
AppliesAny(w, d) == d.nonce \notin seen[w]

(* apply and applyPrompt up to their call: refuse a permission this plugin *)
(* did not forward, or a nonce it has applied.                             *)
Applies(w, d) ==
  /\ d.nonce \notin seen[w]
  /\ d.kind = "perm" => d.request \in pending[w]

Refuse(w) ==
  /\ ~AtTop(w) /\ ~calling[w] /\ ~Applies(w, Head(batch[w]))
  /\ Done(w)
  /\ UNCHANGED <<running, crashes, daemonVars, upId, next, calling, hookVars, seen,
                 kiloVars, nonces, calls>>

(* ... otherwise remember the nonce, forget the request, and call Kilo.    *)
Apply(w) ==
  /\ ~AtTop(w) /\ ~calling[w] /\ Applies(w, Head(batch[w]))
  /\ LET d == Head(batch[w])
     IN  /\ seen' = [seen EXCEPT ![w] = @ \cup {d.nonce}]
         /\ pending' = [pending EXCEPT ![w] = @ \ {d.request}]
         /\ calls' = calls \cup {[by |-> w, for |-> d.window, kind |-> d.kind]}
  /\ calling' = [calling EXCEPT ![w] = TRUE]
  /\ UNCHANGED <<running, crashes, daemonVars, upId, cursor, batch, next, uplink,
                 kiloVars, nonces>>

(* Kilo answers the call.  A permission reply settles a request this Kilo  *)
(* asked and that is not settled yet; a prompt starts a turn, which is of  *)
(* no consequence here; or the call fails.                                 *)
KiloAccepts(w) ==
  /\ calling[w] /\ Head(batch[w]).kind = "perm"
  /\ origin[Head(batch[w]).request] = w /\ Head(batch[w]).request \notin answered
  /\ Settle(w, Head(batch[w]).request)
  /\ Done(w)
  /\ calling' = [calling EXCEPT ![w] = FALSE]
  /\ UNCHANGED <<running, crashes, daemonVars, upId, next, seen, origin, nonces, calls>>

KiloDoesNot(w) ==
  /\ calling[w]
  /\ LET d == Head(batch[w])
     IN  d.kind = "perm" /\ ~CallsFail => d.request \in answered \/ origin[d.request] # w
  /\ Done(w)
  /\ calling' = [calling EXCEPT ![w] = FALSE]
  /\ UNCHANGED <<running, crashes, daemonVars, upId, next, hookVars, seen, kiloVars,
                 nonces, calls>>

Downlink(w) == Hello(w) \/ Poll(w) \/ Refuse(w) \/ Apply(w)
               \/ KiloAccepts(w) \/ KiloDoesNot(w)

PluginNext ==
  \/ Start \/ Crash
  \/ \E p \in open : Reply(p)
  \/ \E w \in Windows :
       \/ Prompt(w) \/ Flush(w) \/ Downlink(w)
       \/ \E r \in Requests : Ask(w, r) \/ AnswerAtDesk(w, r)

(* The extension starts the daemon again, flush retries while anything is  *)
(* queued and the downlink loop never ends; users promise nothing.         *)
PluginSpec ==
  PluginInit /\ [][PluginNext]_pluginVars
  /\ WF_pluginVars(Start)
  /\ \A w \in Windows : WF_pluginVars(Flush(w)) /\ WF_pluginVars(Downlink(w))

--------------------------------------------------------------------------------
(* A plugin only calls Kilo about permissions of its own window, even when *)
(* a daemon restart makes two windows share an upstream id: the pending    *)
(* check of apply.                                                         *)
ApprovalsStayHome == \A c \in calls : c.kind = "perm" => c.by = c.for

(* While the daemon lives it gives every registration an id of its own,    *)
(* and a plugin keeps the last one it was given.                           *)
IdsAreOwned ==
  \A u \in Upstream :
    \/ u \in 1..upSeq /\ owner[u] # NoWindow /\ upId[owner[u]] = u
    \/ u \notin 1..upSeq /\ owner[u] = NoWindow

(* A window's pending requests and reports are about what its Kilo asked,  *)
(* and so is every prompt the daemon has open.                             *)
ReportsAreOwn ==
  /\ \A w \in Windows :
       /\ \A r \in pending[w] : origin[r] = w
       /\ \A i \in 1..Len(uplink[w]) : origin[uplink[w][i].request] = w
  /\ \A p \in open : origin[p.request] # NoWindow

(* A decision, wherever it is, names its request and the window that asked.*)
Addressed(d) == d.kind = "perm" => d.request \in Requests /\ origin[d.request] = d.window
DecisionsAreAddressed ==
  /\ \A u \in Upstream : \A i \in 1..Len(queue[u]) : Addressed(queue[u][i])
  /\ \A w \in Windows : \A i \in 1..Len(batch[w]) : Addressed(batch[w][i])

(* A queue's numbers rise, so what is past a cursor is its end.            *)
QueuesRise ==
  \A u \in Upstream :
    /\ \A i \in 1..Len(queue[u]) : queue[u][i].id <= decSeq
    /\ \A i, j \in 1..Len(queue[u]) : i < j => queue[u][i].id < queue[u][j].id

(* The inductive invariant: no call strays, on either side of a restart    *)
(* (LinkProofs).                                                           *)
PluginLinkInv ==
  /\ PluginTypeOK /\ ApprovalsStayHome
  /\ IdsAreOwned /\ ReportsAreOwn /\ DecisionsAreAddressed /\ QueuesRise
  /\ \A w \in Windows : calling[w] => batch[w] # <<>>

(* The upstream id of window w is another window's by now: w kept it over  *)
(* a restart of the daemon, which hands the ids out from the start again.  *)
Misnamed(w) == upId[w] # 0 /\ owner[upId[w]] # w

(* A reply the daemon accepted is carried out in Kilo, unless the daemon   *)
(* goes down first (accepted is emptied with it), the desk was faster, or  *)
(* the asker's id was given to another window, which shares its queue.     *)
AcceptedIsApplied ==
  \A r \in Requests :
    r \in accepted ~> (r \in answered \/ r \notin accepted \/ Misnamed(origin[r]))

(* A prompt settled in Kilo, wherever it was answered, does not stay open  *)
(* at the daemon: the plugin's "replied" retracts it.  A crash may come in *)
(* between: what is settled while the plugin is unregistered is not        *)
(* reported.                                                               *)
SettledIsRetracted ==
  \A r \in Requests :
    (crashes = 0 /\ r \in answered /\ \E p \in open : p.request = r)
      ~> (crashes > 0 \/ \A p \in open : p.request # r)

(* A window has an id that this daemon gave it, or it never registered     *)
(* with this daemon: it kept an id of an earlier one, and this one gave    *)
(* that id to another window before the first could learn that it was      *)
(* unknown.  Its polls and reports are then taken for the other window's.  *)
Registered(w) == upId[w] # 0 /\ owner[upId[w]] = w
TakenForAnother(w) ==
  /\ upId[w] # 0 /\ owner[upId[w]] \in Windows \ {w}
  /\ \A u \in Upstream : owner[u] # w

(* With a daemon that stays up every window comes to be registered under   *)
(* an id of its own and remains so, except one that is taken for another:  *)
(* pollDecisions drops a registration on a 400 only (plugin index.js), and *)
(* a daemon that knows the id, whoever has it, does not answer 400.        *)
Reconnects ==
  \A w \in Windows : <>[](running => Registered(w) \/ TakenForAnother(w))
================================================================================
