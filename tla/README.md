# A verification project for pebble-remote-harness

prh lets a Pebble watch (and the phone behind it) answer the permission prompts
of coding agents that run in editor windows. This directory holds TLA+ models of
the parts of prh where that can go wrong, TLC configurations that check them on
small instances, and TLAPS proofs of the central invariants. `PROJECT.json` maps
every definition to the source lines it stands for and lists the runs, the
mutants, the hazards and the theorems.

To check a run: `tlc -workers 2 -config MCHub_prompts.cfg MCHub`. To check the
proofs: `tlapm HubProofs.tla`, and the same for `SequenceLemmas`, `StreamProofs`,
`RegistryProofs`, `AdmissionProofs`, `LinkProofs`, `WatchappProofs` and
`ElectionProofs`.

## 1. The system

```
Kilo window --- plugin ---unix socket--- prh daemon ---HTTPS long-poll--- companion --Bluetooth-- watchapp
 (one each)   index.js     /plugin/v1     hub.go        /v1/poll, /reply   PrhService     main.c
                                                                               ^---localhost--- PKJS relay
```

| Component | State | Operations | Hard because |
|---|---|---|---|
| hub (`api/internal/hub/hub.go`) | ring of envelopes, open prompts, request index, sessions with conversation and badge, upstreams with decision queues | registration, ten kinds of plugin events, `Reply`, `Prompt`, eviction of all of them | one prompt lives in five places that are trimmed independently |
| long-polls (`hub.go`) | wake channels, timers | `Poll`, `PollDecisions`, `Conversation` | reads and registrations are separate critical sections; sources are dropped and re-created |
| plugin (`plugin/src/index.js`) | registration, decision cursor, pending requests, applied nonces, uplink queue | hooks, flush, downlink loop, apply | it outlives the daemon; ids and cursors start over on the other side |
| companion service (`PrhService.kt`, `PrhClient.kt`) | cursor in memory and on disk, fetched batch; session key and clock offset per client | poll loop, deliver, forward, log in, sign, retry | killed at any time; daemon restarts under it; clients end each other's sessions |
| watchapp and relay (`main.c`, `pkjs/index.js`) | prompt queue, displayed position, outbox | buttons, dictation, inbox, outbox callbacks | callbacks return after the user has moved on |
| HTTP handlers (`server.go`) | rate limiter, TLS, sessions | the routes | check and use of a limit or nonce are separate |
| pairing, sessions, signatures (`auth/`) | device registry and its file, pairing window, session keys, nonce cache | pair, log in, revoke, sign, verify | persistence outside the lock; every operation is several critical sections |
| editor extension (`extension/src/daemon.ts`) | lock file, spawned process | find, start, stop the daemon | several windows race; files outlive their writers |
| daemon process (`cmd/prh/main.go`, `tlsconf.go`) | socket file, TCP port, TLS key and certificate | come up, refuse to be the second, go away | dies between any two file operations |
| companion screens (`ConversationActivity.kt`) | conversation view, its cursor | poll, merge of updates | replaces and retractions by id; its cursor outlives the daemon |

What makes each correct, in a sentence: the **hub** keeps its five views of a
prompt consistent and decides each request once, for the window that asked; a
**long-poll** returns as soon as there is something to return; the **plugin**
carries out what the daemon accepted, once, and nothing of another window; the
**companion** hands envelopes over in order and once, and every reply of it comes to
an end that means something; the **registry** forgets no phone it told it was paired
and no revocation; a **signed request** is carried out once; the **windows** end up
with one reachable daemon under a pin that does not move; the **watch** sends what the
user pressed for the prompt the user saw.

## 2. Modules

| Module | Models | Kind |
|---|---|---|
| `Filtering` | the loops that keep some elements of a slice | operator shared by the others |
| `HubOps` | ring append and cut, cursor tests, decision selection, conversation insertion, clock touch | operators shared by the others |
| `Hub` | `hub.go` under its mutex: one action per method or event kind | component |
| `SequenceLemmas` | what `Filtering`, `HubOps`, first and last positions and loops over a batch yield | lemmas |
| `HubProofs` | invariant and theorems about `Hub` | proofs |
| `LongPoll` | the three polls with their wakers, timers and departures | component |
| `PluginLink` | plugins and the daemon's half of the link, across crashes | composition |
| `Transcript` | a conversation's way: the plugin's bounded queue and flush, the daemon's conversation, the open view on the phone | composition |
| `Delivery` | ring, `/v1/poll`, companion loop, across crashes of both | composition |
| `Outbox` | what the notification stream promises | abstract specification |
| `StreamProofs` | `Delivery` implements `Outbox`; a poll (`LongPoll`) loses no wake-up; invariant of `Transcript` and what its view shows | proofs |
| `Watchapp`, `WatchappProofs` | watchapp, AppMessage outbox, PKJS relay | component, proofs |
| `Registry` | `auth/auth.go`, `pairing.go`, `session.go`, `store.go` and the handlers on them | component |
| `DeviceBook` | what the registry promises | abstract specification |
| `RegistryProofs` | invariant and refinement of `Registry` | proofs |
| `SignedLink` | `PrhClient.kt`'s calls against login and signature check | composition |
| `LinkProofs` | invariants and theorems about the daemon's two links, `SignedLink` and `PluginLink` | proofs |
| `Admission`, `AdmissionProofs` | dates, nonce cache, rate limiter against a clock | component, proofs |
| `Election`, `ElectionProofs` | windows (`daemon.ts`) and daemons (`main.go`, `tlsconf.go`) over shared files | composition, proofs |
| `MC*` | the instances TLC checks | model checking |

### State and actions against the code

**Hub.** `seq`/`ring` are `h.seq`, `h.ring`; `open` and `byRequest` the maps of
those names; `ups` the upstreams, with their decision queue and cursor; `sess` the
sessions, reduced to upstream, status, last activity, badge (`pendingPrompt`) and
conversation; `known` says which exist. Every exported method takes `h.mu` for its
whole effect, so a method is one step. `IngestPermission` is the whole of
`TranslatePluginEvent` plus `IngestPluginEvents` for that kind: publish, cut the
ring, expire the evicted prompt, index, badge, conversation entry, session
eviction. `asked` and `settled` are histories. Event kinds can be switched
per instance (`Kinds`), and so can the statuses (`Reports`).

`RemoveUpstream` is called by tests only: it is enabled by `Disconnects`, since the
docs (`docs/protocol.md:40`) intend it. `question` events fall through the default
branch of the translation, so no `ques` envelope exists. `Expires` is never set on an envelope, so no
decision is refused for its age. `Hub.Publish` is called by tests only.

**LongPoll.** A request is `Begin`, `FirstRead`, (`LookupUpstream`,) `Subscribe*`,
`Recheck`, then `Woken`, `TimerFires` or `CallerLeaves`, then `Unsubscribe`; each
is one critical section or one channel operation. A source is only its newest
position and its identity (`gen`), because sessions and upstreams are dropped and
created again while a waker stays on the old structure.

**PluginLink.** The plugin runs on one thread, so an action is what runs between
two awaits. A crash empties the daemon, never the plugin. `Flush` sends the whole
queue, which has no bound here; a 400 counts as success in the code and loses the
batch. Acknowledgements are ignored by the daemon and their failure is swallowed, so
they are not steps. `Askers` says which windows may ask a request.

**Transcript.** A report is an id and how new it is: the number of the edit for a part of
a message, 1 or 2 for a permission request that is asked or settled. `report`, `Send`,
`Requeued` and `Finally` are `report` and `flush` with its `catch` and `finally`, which runs
as a microtask of its own. `Ingest` takes one report of the batch in, as a pass of the loop of
`IngestPluginEvents` does: a part into the conversation, which is trimmed at its capacity; a
prompt onto the ring, into the open prompts, the conversation and the badge; a `replied` by way
of the open prompts, so that one whose prompt has fallen off the ring is ignored. The code holds
the lock over the batch; a report at a time has those states and more. `asking` is `open` with
`byRequest`, of this session; `onRing` says whose envelopes the ring holds. Of the other sessions
there is what they do to this one: `OthersPublish` pushes its prompts off the ring, `Evicted`
puts it out of a full registry when it has no badge. The session exists once it has an entry, and
is not deleted (`Hub` and `LongPoll` have `session.deleted`); the daemon does not drop upstreams.
`OpenView`, `Read`, `Render` and `SessionGone` are the activity of the phone, whose cursor lives
as long as the activity, also across restarts of the daemon and evictions of the session.
`missed` and `skipped` are histories: the ids whose newest report was lost at a place of the code
that loses reports (no registration, a full queue, a failed or refused flush, a crash, a full
conversation or registry, a prompt that has fallen off the ring), and the entries that an old
cursor passed over. A retracted part is an edit whose text is blank. Prompts are settled at the
desk.

**Delivery.** `cursor` is the loop's variable, `stored` the preference on disk
(`SharedPreferences.apply` writes later, hence `SaveCursor`). The loop advances the
cursor before it delivers. `DeliverThrows` is the general `catch` of the loop. The
`NotPaired` exit belongs to pairing and is not modelled. `lost`, `cursorFrom` and `storedFrom` are
histories: the messages that were lost at one of the five places that may lose one (what a
crashing or overflowing daemon had and nobody else; what a killed companion had in hand, or a
failing delivery left; what a cursor of an earlier daemon passes over), and the daemon that gave
out each cursor.

**Watchapp.** Entries carry `answered`, `ack` and `last_action` as in `PromptEntry`;
`meant` is a history of the buttons pressed. `app_message_outbox_begin` fails while
a message is in flight; its fate comes back in `outbox_sent` or `outbox_failed`,
and a message may have reached the phone although it failed. Dictation covers the
buttons but not the inbox. Questions and their menu are left out: the daemon
publishes none. `MAX_QUEUE` is a constant.

**Registry.** `devices` is the map, `file` what `devices.json` holds, `window` the armed
code. A handler is cut wherever the code gives up `Registry.mu`: `registerSealed` or
`registerWithPassphrase` (the window is looked at), `Register` (insert), `Persist` (the
list is copied), `Rename` or `PersistFails`, `Answer` (the window is closed, the secret
goes out). Nothing keeps two requests from saving at once, and the list that is copied first may
replace the file last. `Revoke` takes device and sessions out and then persists the same way.
`Login` and `NewSession` are the two halves of `handleLogin`, `Signed` and `Device` those of
`signed`. `paired`, `enrolled`, `asked`, `revoked` and `served` are histories, and so are the
numbers of the lists (`copies`, `fileNo`, `landed`), from which `Regressed` says that the file is
an older list than one that had been there, and `strayed`, the devices that a restart in such a
moment lost or brought back. `Revoke` has no
route yet; it is modelled as the exported operation that `signed` is written against.

**SignedLink.** One device, several `PrhClient`s. A call is at a place of `authed`
(`phase`) and of `execSigned` and `exec` (`at`). Of a session key it only matters whether
it is the session's now. `clockOk` says whether the offset leads to acceptable dates. A
request whose sender gave up stays in `stray` and may arrive. `EndSession` is what any
login does to everybody else's key.

**Admission.** The clock runs in half seconds, so that the edges of whole-second dates
and exact expiries differ. `Lookup` and `Accept` are `verifySignature` before and after
the signature check; `Attempt` and `WrongPassword` or `RightPassword` are
`registerWithPassphrase` around the hash. `ahead`, `forgotten`, `repeats` and `wrong` are
histories. The limiter is that of one address.

**Election.** A window is at a step of `start` or `stop`, a daemon at a step of `run`,
`EnsureCert` or `listenPluginSocket`; each step is one look at or one change of the socket,
the lock, a TLS file or the port. A window starts when it opens (`activate`) and again whenever
the user says so (`prh.start`), up, failed or stopped. `prh pair` is a daemon that stops after the
TLS files (`tool`) and shows the phone their pin. A file is absent, torn, or holds the key with a
number; a key file that is there may fail to be read, and is then replaced, as `tlsconf.go:99`
does. SIGTERM in a daemon that still claims the socket is acted upon afterwards (`told`).
The lock file names the window (its extension host's pid), as the code writes it, so a window
whose daemon has died cannot start another while the lock is there.
`calm` is a history: starts and stops came one at a time, no window but the one
whose daemon was serving stopped it, and a key file that was there could be read. `excused`
collects the windows whose start met a live lock, a death, half a file or no binary. Simplified:
one start at a time in a window; the second connection of a window that waited is part of the
wait's last look; no other program takes the port or the path; `Spare` bounds the runs of prh and
reserves one for each window that is about to spawn.

## 3. Runs

All passing runs are exhaustive for their bounds. `HubInv`, `WakeInv`, `RegistryInv`,
`PluginLinkInv`, `SignedLinkInv`, `WatchappInv`, `ElectionInv`, `TranscriptInv` and
`AdmissionInv` are the inductive invariants that the proofs use (of `Admission` the limiter's
half), type invariant included. A run evaluates each once.

| Run | Bounds | Shows |
|---|---|---|
| `MCHub_prompts` | 2 windows, 1 session (and none), 3 requests, ring 2, conversation 2, 2 decisions for a queue of 1 | the inductive invariant and everything proved from it, and that settled prompts are advertised nowhere |
| `MCHub_sessions` | 3 sessions for a registry of 2, 2 requests, clock of 2, conversation 1, all event kinds but errors | which session is evicted, and that the cap is exceeded only when both sessions wait on an answer; a reader at the newest cursor sees every change |
| `MCLongPoll_wakeups` | 2 requests of any kinds, each source dropped and re-created once | no lost wake-up, no leaked waker; news and deletion end the wait |
| `MCPluginLink_restart` | 2 windows, 2 requests of which one may be asked by either, 2 decisions, 1 typed prompt, 1 crash | no plugin answers another window's permission (`PluginLinkInv`); who reconnects, accepted replies are applied, settled prompts retracted |
| `MCTranscript_view` | 2 parts, 1 request, 3 edits, queue 2, requeue 2, ring 1, conversation 2, 1 crash, 1 opening of the view | only the known places lose a report; the view shows what it has read (`TranscriptInv`), and an open one converges |
| `MCDelivery_crashes` | 5 messages, ring 3, 2 crashes of each side, 1 failing delivery | refinement of `Outbox`, no message vanishes but in five ways, catching up |
| `MCWatchapp_queue` | 3 prompts, queue 3, 4 deliveries (a redelivery possible), 4 answering presses | stable display (`DisplayIsStable`), no hanging (`WatchappInv`) or vanishing prompt, no invented "always" or "reject" |
| `MCRegistry_restarts` | 3 devices, 2 requests, 2 windows, 1 session key, 2 restarts | refinement of `DeviceBook`, pairings survive and revocations hold but for overtaken saves, who shares a code |
| `MCSignedLink_calls` | 2 clients, 1 reply with 2 attempts, 1 loop, 2 network failures, 1 lost session | what each outcome of a reply means; it ends |
| `MCElection_starts` | 2 windows, 3 runs of prh (2 once starts overlapped), 2 crashes | when calm, socket and pin are stable and starts fail only for a reason |
| `MCAdmission_edges` | 2 messages, 2 requests at a time, 5 in all, 8 half seconds, leeway 1 s, cache 1, 2 guesses in 3 ticks, 1 restart | requests are carried out once but for three exceptions; the limiter counts exactly |

*Why the bounds are enough.* Every capacity is exceeded: the ring (two places and three
requests, so that open prompts are evicted), the conversation, the decision queue (one place,
two decisions), the registry (two places and three sessions; with two requests both of its
sessions can wait on an answer when the third comes, and the cap is exceeded), the plugin's queue
and the watch's. Two windows and three requests give every pair of actors a third to interfere. In `Delivery`, two crashes let
a daemon be replaced while the companion still holds state of the one before, and two kills let
it come back with a cursor of either. In
`PluginLink` one crash does it for the plugins, and the two windows can come back in
either order, so that each can get the other's id; one of them asks twice. A queue of
two in `Transcript` overflows with two parts and a prompt, and is full when a failed flush
puts its batch back; three edits let a part be queued twice and updated once more; a conversation
of two is trimmed by the third id, a ring of one by any other envelope; and
a view can be open across the crash or the eviction, or opened after it. A queue of three on the watch is the least in which a removal can leave a
choice of what to show, and four presses allow an answer, a busy one and a retry of
each. Two long-polls suffice for interference, as a poller never reads
another's state; the proof covers any number. Two requests in the registry
let two saves overtake each other, or a login or a signed request run beside a save; three
devices are one that is paired, one that is revoked and one that is only half enrolled; two
restarts load an older list and then what the next save made of it. A call of `SignedLink`
has two attempts and two failures, so that a late copy of a request meets its
successor, and a second client to take its session. Two windows and two daemons are
the least that race; two crashes let a daemon die and its successor meet the debris
of two; the third run of prh, looked at while starts come one at a time, follows a stop, a crash
and a pair command. In `Admission` a cache of one overflows with the second message and both
edges of a date lie within the time. Requests and prompts are
interchangeable and symmetry over them is used only where no liveness is checked.

Runs that say `CHECK_DEADLOCK FALSE` are those whose named bounds let the model
run out of messages, crashes or numbers.

### Fairness

* LongPoll: the Go scheduler runs every request's goroutine (`WF` of `Proceed`).
  The timer and the caller are deliberately not fair, so that no wait ends
  because of them.
* PluginLink: the extension restarts the daemon, the downlink loop never ends, and
  `flush` calls itself while anything is queued.
* Transcript: the same, and the view's loop polls for ever while it is open; a poll ends
  with its wait at the latest. Kilo and the user promise nothing.
* Delivery: the daemon is restarted; the poll loop retries for ever, and a poll is
  not lost every time; the loop body goes on delivering.
* SignedLink: the coroutines of the phone and the handlers of the daemon run on; the
  network is not fair, but fails a bounded number of times.
* Users, Kilo and the phone's user promise nothing. Hub, Watchapp, Registry, Election and
  Admission state no fairness. In `Election` a window's wait only fails when nobody is about to
  bring a daemon up: its five or ten seconds are taken to be long against that.

### Refinement

`Outbox` says that one life of the companion's service is handed messages in the
order they were published, none twice, possibly with gaps. `Delivery` implements
it (`ImplementsOutbox`) through daemon restarts, refusals and failing deliveries.
What it does not promise is absence of gaps. Those are accounted for one by one:
`NothingVanishes` says that a published message is delivered, in hand, on the ring past the
cursor, or was lost in one of the five ways that `lost` records; `EverythingIsDelivered` that it
ends among the delivered or the lost; `CatchesUp` that a companion ends at the newest number of
the last daemon with nothing in hand. The last two except a companion that is refused for good
(`Starved`: cursor 0 and a ring that has evicted), which is what `MCDelivery_v_gap` exhibits.

`DeviceBook` says that there is one durable book of devices: a phone is only told that
it is paired while it is in the book, and stays there until its revocation is asked
for; a confirmed revocation is final. `Registry`, with its map, its file, the moments in
between, its overlapping saves and its restarts, implements it (`ImplementsDeviceBook`). The book
has one exception, because the code has it: while the file holds an older list than one that had
been there (`raced`), a restart may lose or bring back the devices in which the two differ, and
only those.

### Disagreements between code and documentation

Kept as a run that TLC must find violated:

* `MCDelivery_v_gap`: `hub.go:28` says the companion accepts the gap after a 410; it
  resets to cursor 0, which is refused again for as long as the daemon lives.

Met while modelling and not kept as runs:

* `docs/protocol.md:413` promises a `gone` envelope on the ring however a prompt is
  settled; `Reply` (`hub.go:770`) publishes none;
* `hub.go:832` promises that a plugin only gets its own decisions; upstream ids start
  over with the daemon, and a plugin that kept its id is handed another window's. For
  permissions the plugin's own check catches it (`PluginLinkInv`); a typed prompt it
  does not catch;
* `hub.go:738` says a cursor of an earlier daemon is refused; it is, unless the new
  daemon has already published as much;
* `main.c:201` says a retry repeats the last reply; a press that found the outbox busy was
  never recorded and is resent as action 0, which the relay turns into "once", a
  refusal included (`StrongAnswersAreMeant` states what holds);
* two saves of the device list can overlap, and the older list can land last
  (`store.go:72`): a phone that was told it is paired is then forgotten at the next
  restart, against `auth.go:255`, and a revoked one comes back, unless a later save puts it
  right; `RegistryInv` and `DeviceBook` bound the damage (`strayed`);
* two phones that scanned one code and enrol side by side are both enrolled, against
  `pairing.go:129-130` ("one window enrols one device"): the window is looked at first
  (`server.go:293`) and closed last (`pairing.go:159`); `EnrolledTogether` states what holds;
* a nonce is kept for twice the leeway from the exact time of acceptance, while dates
  are good for whole seconds: for a request dated the full leeway ahead the entry ends up
  to a second early (`sign.go:163`, against 150-152);
* the lock file holds the pid of the extension host that started the daemon, not of the
  daemon (`daemon.ts:432`), and is not given back: `stop` in a window that adopted the daemon
  signals that other window (`daemon.ts:175`, against the comment at 168), and a daemon that
  died cannot be started by another window as long as the one that started it lives;
* reading, removing and writing the lock are separate steps, so that two windows can
  both win it (`daemon.ts:418`, against 64-66, "a race that only one participant can
  win"), and overlapping starts can remove each other's socket;
* a daemon that loses the TCP port removes the socket file on return, even if another
  daemon listens there by then (`main.go:158`);
* a crash in `os.WriteFile` leaves half a TLS file that no later start repairs
  (`tlsconf.go:193`), two daemons that both find no key can each write one, and a key file that
  cannot be read is overwritten (`tlsconf.go:99`, against 52-53, "never overwritten once it
  exists");
* the badge survives the eviction of its prompt (`hub.go:661`, against
  `protocol.md:469`); that a settled prompt is advertised nowhere does hold
  (`SettledIsNotAdvertised`);
* a session can be evicted while an older prompt of it is open, because the badge
  only tracks the newest (`hub.go:562`, against the comment at 560);
* a window that registers again does not replace its entry (`hub.go:230`, against
  228 and `protocol.md:37`);
* a plugin whose old id was given to another window keeps its old cursor and skips
  decisions (`index.js:384`), and never registers again while that daemon lives, because only a
  400 tells it to (`index.js:397`); `AcceptedIsApplied` excuses a request whose window goes by
  such an id (`Misnamed`), `Reconnects` a window that this daemon has never registered and that
  goes by one (`TakenForAnother`);
* a prompt that falls off the ring can no longer be retracted from its conversation: the desk's
  answer is ignored (`hub.go:585-588`), and a panel that shows it stays;
* after a failed flush a part can be queued twice, and the next update replaces the first
  of the two (`index.js:148-152`), so that the older text is delivered last, against
  144-146 ("strictly redundant") and 508 ("the phone's view is always current");
* a failed flush drops prompts too when enough was queued meanwhile (`index.js:186`,
  against 133, "must never be dropped to make room"), and a batch that is put back usually
  meets the restarted daemon under the old id and is lost with its 400;
* the conversation's numbers start over with the daemon, and with a session that was evicted and
  heard of again, while an open view keeps its
  cursor: entries up to it are passed over (`hub.go:1083`), and the panel of a prompt that
  died with the daemon stays until the view is closed;
* the companion saves its cursor before it delivers (`PrhService.kt:208`, against
  `protocol.md:354`), so a kill in between loses the batch;
* a retried dictation is sent without its text (`main.c:207`), and dictation answers
  the prompt that is current when it ends (`main.c:242`);
* the watch drops a prompt when the phone acknowledges it, although the relay's post
  to the companion may fail (`pkjs/index.js:49`).

## 4. Proofs

Every theorem is about all values of the constants: any numbers of windows, sessions,
requests, devices, daemons, messages and crashes, any capacities, within the named
assumptions on them (`HubAssumption` and so on, which say what is a natural number and that
the capacities are not zero). No theorem needs fairness.

**Hub** (`HubProofs`). `HubInvariance` is `Spec => []HubInv`; from it follow `TypeCorrect`,
`PromptBooksBalance`, `DecidedOnce`, `DecisionsReachTheAsker`, `RefusesOnlyLostCursors`,
`PollsWithoutGaps`, `SettledPromptsDisappear`, and the action properties
`DecisionsAreHandedOutOnce`, `ConversationsHideNothing` and `PromptsKeepTheirSessions`.
`HubInv` has three parts besides the types.

* `PromptInv`, the books of prompts. That an open prompt can still be polled needs to know
  which envelope an append evicts, hence that the ring is contiguous. That the index and the
  open prompts lead to each other needs that ids differ. That a request is decided once needs
  that a settled request is neither open nor asked again. That decisions go home needs that
  an open prompt remembers the window of its upstream, and that the queues of removed
  upstreams are included, since their slots remain.
* `SessionInv`, what sessions show. That a settled prompt is advertised nowhere needs that
  only its own session advertises a prompt (`AdvertisedIsOwn`), that an envelope not yet
  published is advertised nowhere, and that an id is in a conversation once, so that
  replacing the first entry found replaces all there is.
* `QueuesAreCounted`: no decision of a queue is past the queue's cursor, and no cursor past
  the hub's counter. So what lies past the cursor a plugin echoes back is what was queued
  since, which is what `DecisionsAreHandedOutOnce` rests on.

The proof has one lemma per kind of step: those that leave the books alone (`QuietStep`),
those that only evict (`NoticeStep`), and the four that move a prompt (`PermissionStep`,
`RepliedStep`, `ReplyStep`, `PromptStep`). The code's filter loops are written with `Pick`,
which names what is kept by position: of a filter by a predicate (`SelectSeq`) the prover
knows only a recursive definition. `SequenceLemmas` shows once what `Pick` yields when the
positions are a suffix, and what the other helpers return.

**The stream** (`StreamProofs`). `StreamImplementsOutbox` is the refinement: every step of
`Delivery` publishes, hands over a newer message, restarts the service, or is not seen.
`NoMessageVanishes` (`NothingVanishes`) needs besides that a cursor of this daemon is not ahead of
it, and that the one on disk has seen what the one in memory has, of what is still on the ring
(`CursorsAreBehind`).
Its invariant ties the cursor to what was handed over (`Behind`): what is past the cursor on
the ring is newer than everything delivered or fetched, and so is the whole ring if the
cursor belongs to an earlier daemon. The second half is what makes it safe to start over
after a 410. `WakeUpsAreNotLost` (`WakeInv`) says that no request sleeps on news and none
leaves a waker; the invariant adds that a waker is only on a structure that has existed, so
that a new one cannot find an old waker. The modules share no variable, which is why
`LongPoll` calls a request's cursor `since` and a source's sequence number `newest`.

**Transcript** (`StreamProofs`). `TranscriptHolds` is `TranscriptSpec => []TranscriptInv`, and
`ReadViewHolds` draws from it what a user would ask for (`ReadViewIsUpToDate`): an open view
that has read all of the conversation shows the newest of everything that is not still on its
way, unless a place that loses reports lost it or the view's cursor, from before a restart,
passed over it. The way has two halves, and so has the invariant.

From Kilo to the daemon (`ReportsInv`), the claim is `HeardIsNewest`: once nothing about an id
is on its way, the daemon has the newest text of a part and offers a prompt exactly while it is
not settled, unless the newest was lost. It is not inductive by itself, because as a batch is
taken in it matters which of the reports about an id comes last. So the invariant follows what
is on its way, the rest of the batch under way and the queue behind it.

* `LastIsNewest`: of the reports about an id the newest comes last and once. That a report
  which replaces another in place keeps this needs that it replaces the only one, or is
  recorded as overtaken; that a failed flush keeps it needs that sorting the batch by kind
  leaves the order of each id's reports alone (`PromptsFirstProperties`), and that cutting
  it loses the newest of an id or nothing that matters (`KeptInOrder`).
* `HasHappened`: nothing is on its way that is newer than its id, which makes each report of
  a hook the only newest one, and prompts have two states.
* `OneEntryEach`: the conversation has one entry about an id, so that what was heard last is
  what is heard; a conversation that is full drops its first entry and nothing else, whose id is
  recorded as lost (`PutConvKeeps`, `AppendTakesIn`).

From the daemon to the phone, the claim is `ViewIsTrue`: what the conversation says up to the
view's cursor is on the screen. It needs two facts about the daemon.

* `ConvIsTrue`: entries are numbered up to the number that is a reader's next cursor, so that
  what a report adds or replaces is beyond every cursor of this conversation; and a conversation
  dies with its daemon or its eviction, so that no cursor is the next one's own.
* `SettledIsLast`: of a request that was heard to be settled nothing more is on its way, and one
  that the daemon holds open is in the conversation, so that its `replied` is not only heeded
  but seen. A prompt on the screen is in the conversation too (the last conjunct of `ViewIsTrue`);
  what takes it from there without a retraction, a crash, an eviction or the conversation's limit,
  loses the report that could close the panel, and records that.

An answer replaces and retracts as one loop over its events, each about another id, and leaves
the rest of the screen alone (`RenderedProperties`, `AnswerProperties`).

What an answer leaves on the screen is a loop, hence an
induction, but over positions of one given sequence: the loop is a recursive function on
`0..Len(events)`, which exists (`LoopSolution`), and what every pass keeps holds after the last
(`LoopInduction`), because positions are well ordered.

**Registry** (`RegistryProofs`). `RegistryInvariance` (`RegistryInv`), `PairedPhonesAreKept`,
`RevocationIsFinal`, `CodesEnrolTogether` (`EnrolledTogether`) and `RegistryImplementsBook`
(`Registry` implements `DeviceBook`), for any number of requests whose saves overlap in any way.
The lists that saves copy are numbered in the order of copying, which is the order of the changes
they saw. So a device that was registered before the `n`-th copy is in every list from the `n`-th
on (`Kept`), as long as nobody asks for its revocation, and a device that was revoked is in none
(`Struck`). The invariant says of every request what its place means in these terms (`Enrols`,
`Strikes`): an answer is for a device that every later list has, and whose own list has been in
the file. Hence the newest list that ever got there has it (`Settled`), and the file does, unless
it is an older one (`Regressed`). Ids are never reused (`Drawn`).
`CodesEnrolTogether` counts: the phones a code has enrolled and the requests that still hold it
are no more than there can be requests at a time, and once the first secret is out the code is not
armed, so nobody joins.

**Admission** (`AdmissionProofs`). `SingleUse` (`CarriedOutOnce`) and `SweptIsUseless`
(`AcceptableIsRemembered`): the heart is `Covered`, an accepted message is past its
deadline, has an entry that lasts until then, or is one of the exceptions the properties
name; `EntryLasts` is the arithmetic of seconds and half seconds that makes the exception
of a request dated the full leeway ahead necessary. `GuessesAreLimited` (`AdmissionInv`) and
`TheLockIsExact` (`LockIsExact`): the limiter's list, which is filtered at every look, always
ends the full record of wrong guesses, and what it lacks has left the window
(`FailuresEndTheRecord`); each request between check and record counts as a guess made
(`Guessing`), so that their number bounds the excess.

**PluginLink** (`LinkProofs`). `ApprovalsAreKeptHome` (`PluginLinkInv`): Kilo is only called
about a permission by the window that asked for it. A restarted daemon hands its ids out from
the start, and a window that kept its old one is served another's queue, so the daemon's
books cannot be the reason; the reason is that a window's pending requests are what its own
Kilo asked (`ReportsAreOwn`) and that a decision names the asker wherever it is, also in a
batch fetched before the crash (`DecisionsAreAddressed`). That a poll's answer is the end of
the queue needs rising numbers (`QueuesRise`). That ids fit the type is a counting
argument: the windows a living daemon has given ids are different ones (`IdsAreOwned`), so
one that asks for an id leaves fewer ids given than there are windows (`IdsSuffice`).

**SignedLink** (`LinkProofs`). `SignedLinkInvariance`, `NobodyPairsAgainInVain`
(`NotPairedIsTrue`) and `GivenUpOnlyIfRobbed` (`RefusedOnlyIfRobbed`). `Coherent` says what
the places of a call mean: a login that was refused was refused because the device is
unknown, and a request that is sent again after the clock was corrected is not refused for
its date. `Fresh` says that a reply which has logged in holds the session's key through
`storeKey`, `exec` and the wire, until somebody else's login or a lost session robs it. Both
are needed because the key is stored in two steps that the client's other calls can see.

**Watchapp** (`WatchappProofs`). `NoPromptHangs` (`WatchappInv`),
`StrongAnswersComeFromTheUser`, `TheScreenStays` and `PromptsLeaveSettled`. What the outbox
carries was meant by the user and an entry that shows "Sending" has its answer there
(`AnswersAreMeant`, `PendingIsInFlight`); the lookups by id find the right entry because as
long as nothing was delivered twice there is one of each (`OneOfEach`), and a first one
because positions are well ordered (`FirstPosition`).

**Election** (`ElectionProofs`). `ServingStaysReachable` (`ElectionInv`), `ThePinStays`
(`PinIsStable`) and `FailuresHaveReasons` (`FailedHasReason`). All three are about histories
in which starts and stops come one at a time and a key file that is there can be read (`calm`),
with deaths at any point. Then one
window is at work and one daemon on its way at any time (`OneAtATime`); who removes or
claims the socket file does so while no daemon serves (`SocketIsOwned`); key and
certificate on disk are absent, torn or what was served (`FilesMatch`); and a window that
waits without an excuse has a daemon coming up (`WaitsForDaemon`). That the last fails as
soon as a daemon dies is why `excused` collects the windows under way at a death.

*Only model-checked.* Liveness (`NewsEndsTheWait`, `DeletionEndsTheWait`, `CatchesUp`,
`EverythingIsDelivered`, `AcceptedIsApplied`, `Reconnects`, `SettledIsRetracted`,
`ViewConverges`, `RepliesEnd`): fairness is about what is enabled, which is
out of the prover's reach. Every invariant and every action
property that a run checks is proved.

## 5. Not modelled

The companion's screens but the conversation's content, and the answers given in it; what
the service does with an envelope (notifications, the foreground service); in the plugin,
the roles of messages, the bound on the set of nonces, and lifecycle events in the bounded
queue; the extension's health poll, commands and installer. Configuration, QR code, layout, text truncation,
cryptography and the Kilo HTTP client (unused by the daemon) have no behaviour over time
that a property could be about. Keys, secrets and codes are random in the code and
never collide in the models. Time is a small clock where the registry's order, dates,
nonces and the rate limit depend on it, and otherwise absent: how long a poll waits
cannot be stated. The process ids of dead windows are not reused.

Assumptions worth knowing: Kilo asks a request id once (`Hub`, `PluginLink`, `Transcript`); in
`SignedLink` a date is judged by the clock offset it was signed with, so a request that is under
way for longer than the leeway is not considered; in `Election` two starts of one window do not
overlap. Liveness of `Election` is not stated: each wait of the extension ends by a deadline, which
is an assumption of the model.

## 6. Plan

Done: `HubOps`, `Hub` with its proofs and `LongPoll` with its proofs, on which everything
else rests; the links to either side (`PluginLink`, `Delivery` with `Outbox`) and the end of
the chain (`Watchapp`); then who may speak to the daemon (`Registry` with `DeviceBook` and
their proofs, `SignedLink` and `Admission` with theirs) and how it comes to be
(`Election`); and a conversation's way from Kilo to the phone (`Transcript`), proved too.
Left:

1. A composition of `Hub` and `Watchapp` for envelope ids that a restart reuses.
2. Message roles and the nonce bound (`index.js`).
