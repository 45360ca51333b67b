------------------------------ MODULE SignedLink ------------------------------
(***************************************************************************)
(* Signed requests: the phone's HTTP client (PrhClient.kt) against the     *)
(* daemon's session check (server.go, session.go, sign.go).                *)
(*                                                                         *)
(* One device.  The service and every screen have a PrhClient of their     *)
(* own, each with its copy of a session key and of the clock offset; a     *)
(* client's coroutines run its calls side by side and share both.  The     *)
(* daemon keeps one session per device, in memory, so every login ends the *)
(* session of everybody else.  A call is authed (log in if there is no     *)
(* key, send, and on a 401 log in and send once more), around execSigned   *)
(* (on a 401 that carries the daemon's time, correct the clock and send    *)
(* once more).  reply repeats the call when the network fails.             *)
(*                                                                         *)
(* Session keys are random, so all that matters of one is whether it is    *)
(* the session's now; when the session ends, every copy of its key turns   *)
(* into a former one.  A signature is the pair of the key id and the key   *)
(* it was made with.  Every request has a nonce of its own; Admission has  *)
(* the nonce cache.                                                        *)
(***************************************************************************)
EXTENDS Naturals, FiniteSets

CONSTANTS
  Clients,      \* PrhClient instances of the one device
  Replies,      \* calls of reply, each with a prompt of its own
  Pings,        \* loops of heartbeats and polls
  ClientsOf,    \* call -> the clients that may make it (a reply: one)
  MaxAttempts,  \* maxAttempts of reply
  MaxFaults, MaxRestarts  \* bounds of the model

Calls == Replies \cup Pings

ASSUME SignedLinkAssumption ==
  /\ Replies \cap Pings = {} /\ IsFiniteSet(Calls) /\ IsFiniteSet(Clients)
  /\ ClientsOf \in [Calls -> (SUBSET Clients) \ {{}}]
  /\ \A t \in Replies : Cardinality(ClientsOf[t]) = 1
  /\ MaxAttempts \in Nat \ {0} /\ MaxFaults \in Nat /\ MaxRestarts \in Nat

KeyState == {"none", "current", "former"}
Superseded(k) == IF k = "current" THEN "former" ELSE k

VARIABLES
  registered,          \* daemon: is the device known?
  unanswered,          \* daemon: prompts not answered yet
  keyId, key,          \* client: sessionKeyId and sessionKey
  clockOk,             \* client: does its offset lead to dates within the leeway?
  call,                \* the calls in progress
  stray,               \* requests whose senders gave up on them, not yet handled
  faults, restarts,
  robbed               \* history: replies whose latest login was undone by others

daemon == <<registered, unanswered>>
client == <<keyId, key, clockOk>>
bounds == <<faults, restarts>>
vars == <<daemon, client, call, stray, bounds, robbed>>

Logins   == {"login1", "login2"}
Phases   == Logins \cup {"send1", "send2"}
Verdicts == {"ok", "409", "401", "skew"}
Ends     == {"done", "failed", "unreachable", "notpaired"}

(* A request: its phase of authed, key id and key it is signed with, and   *)
(* whether its date is within the leeway.  A call adds where it is, the    *)
(* key its login returned, execSigned's second try and reply's attempt.    *)
Signature == KeyState \X KeyState
Call == [by : Clients, phase : Phases, signed : Signature, dated : BOOLEAN,
         at : {"idle", "exec", "wire", "storeKey"} \cup Verdicts \cup Ends,
         new : KeyState, again : BOOLEAN, attempt : 0..MaxAttempts]
Stray == [of : Calls, phase : Phases, signed : Signature, dated : BOOLEAN]
NoCall(t) == [by |-> CHOOSE c \in ClientsOf[t] : TRUE, phase |-> "send1", signed |-> <<"none", "none">>, dated |-> TRUE,
              at |-> "idle", new |-> "none", again |-> FALSE, attempt |-> 0]

TypeOK ==
  /\ registered \in BOOLEAN /\ unanswered \subseteq Replies
  /\ keyId \in [Clients -> KeyState] /\ key \in [Clients -> KeyState]
  /\ clockOk \in [Clients -> BOOLEAN]
  /\ call \in [Calls -> Call] /\ stray \in SUBSET Stray
  /\ faults \in 0..MaxFaults /\ restarts \in 0..MaxRestarts
  /\ robbed \subseteq Replies

Init ==
  /\ registered = TRUE /\ unanswered = Replies
  /\ keyId = [c \in Clients |-> "none"] /\ key = [c \in Clients |-> "none"]
  /\ \E ok \in BOOLEAN : clockOk = [c \in Clients |-> ok]
  /\ call = [t \in Calls |-> NoCall(t)] /\ stray = {}
  /\ faults = 0 /\ restarts = 0 /\ robbed = {}

At(t)   == call[t].at
Busy(t) == At(t) \notin {"idle"} \cup Ends

(* What is left of a request or a call when the session ends.              *)
Outdated(r) == [r EXCEPT !.signed = <<Superseded(@[1]), Superseded(@[2])>>]
OutdatedCalls == [t \in Calls |-> [Outdated(call[t]) EXCEPT !.new = Superseded(@)]]

--------------------------------------------------------------------------------
(* The daemon.                                                             *)

(* handleLogin and NewSession, for the one device.                         *)
LoginVerdict == IF registered THEN "ok" ELSE "401"

(* signed: the key id names the session, the key is the session's, the     *)
(* device is still known.                                                  *)
Accepts(sig) == sig = <<"current", "current">> /\ registered

(* handleReply, and the handlers that always succeed.                      *)
ServeVerdict(t) == IF t \in Replies \ unanswered THEN "409" ELSE "ok"

(* verifySignature: the date is looked at before the key.                  *)
Verdict(r, t) ==
  CASE ~r.dated -> "skew"
    [] r.dated /\ r.phase \in Logins -> LoginVerdict
    [] r.dated /\ r.phase \notin Logins -> IF Accepts(r.signed) THEN ServeVerdict(t) ELSE "401"

(* The session ends: everybody's key is a former one, and the replies      *)
(* under way have lost the session they logged in for.                     *)
EndSession(requests) ==
  /\ keyId' = [c \in Clients |-> Superseded(keyId[c])]
  /\ key' = [c \in Clients |-> Superseded(key[c])]
  /\ stray' = {Outdated(r) : r \in requests}
  /\ UNCHANGED clockOk

LosesSession == {t \in Replies : Busy(t)}

(* A login replaces the session; a reply that is served takes its prompt.  *)
IsLogin(r, t) == r.phase \in Logins /\ Verdict(r, t) = "ok"
Served(r, t) ==
  /\ unanswered' = IF r.phase \notin Logins /\ Verdict(r, t) = "ok"
                    THEN unanswered \ {t} ELSE unanswered
  /\ UNCHANGED <<registered, bounds>>

(* call[t] with its answer.                                                *)
WithVerdict(t) ==
  LET v == Verdict(call[t], t)
  IN  [call[t] EXCEPT !.at = v, !.dated = TRUE,
         !.signed = IF v = "skew" THEN @ ELSE <<"none", "none">>,
         !.new = IF IsLogin(call[t], t) THEN "current" ELSE "none"]

Handle(t) ==
  /\ At(t) = "wire"
  /\ Served(call[t], t)
  /\ \/ /\ IsLogin(call[t], t)
        /\ EndSession(stray)
        /\ call' = [OutdatedCalls EXCEPT ![t] = WithVerdict(t)]
        /\ robbed' = (robbed \cup LosesSession) \ {t}
     \/ /\ ~IsLogin(call[t], t)
        /\ call' = [call EXCEPT ![t] = WithVerdict(t)]
        /\ UNCHANGED <<client, stray, robbed>>

(* A request whose sender gave up arrives after all.                       *)
HandleStray(r) ==
  /\ Served(r, r.of)
  /\ \/ /\ IsLogin(r, r.of)
        /\ EndSession(stray \ {r})
        /\ call' = OutdatedCalls /\ robbed' = robbed \cup LosesSession
     \/ /\ ~IsLogin(r, r.of)
        /\ stray' = stray \ {r}
        /\ UNCHANGED <<client, call, robbed>>

(* The session's time is up, the daemon starts again (and with it go the   *)
(* prompts), or the device itself is forgotten.                            *)
LoseSession ==
  /\ restarts < MaxRestarts /\ restarts' = restarts + 1
  /\ EndSession(stray)
  /\ call' = OutdatedCalls /\ robbed' = robbed \cup LosesSession
  /\ \/ UNCHANGED <<registered, unanswered>>
     \/ unanswered' = {} /\ UNCHANGED registered
     \/ registered' = FALSE /\ UNCHANGED unanswered
  /\ UNCHANGED faults

(* Answered at the desk.                                                   *)
Desk(t) ==
  /\ t \in unanswered /\ unanswered' = unanswered \ {t}
  /\ UNCHANGED <<registered, client, call, stray, bounds, robbed>>

--------------------------------------------------------------------------------
(* The client.                                                             *)

Move(t, c) == call' = [call EXCEPT ![t] = c]
Enter(t, p) == Move(t, [call[t] EXCEPT !.at = "exec", !.phase = p, !.again = FALSE, !.new = "none"])

(* A loop goes on after anything but NotPaired.                            *)
End(t, e) ==
  Move(t, [NoCall(t) EXCEPT !.attempt = call[t].attempt,
             !.at = IF t \in Pings /\ e # "notpaired" THEN "idle" ELSE e])

(* authed begins; reply counts its attempts.                               *)
Begin(t) ==
  /\ At(t) = "idle"
  /\ \E c \in ClientsOf[t] :
       Move(t, [NoCall(t) EXCEPT !.at = "exec", !.by = c,
                  !.phase = IF key[c] = "none" THEN "login1" ELSE "send1",
                  !.attempt = IF t \in Replies THEN call[t].attempt + 1 ELSE 0])
  /\ UNCHANGED <<daemon, client, stray, bounds, robbed>>

(* currentKey, read once for both tries of execSigned.                     *)
Signs(t) ==
  IF call[t].again THEN call[t].signed
  ELSE IF call[t].phase \in Logins THEN <<"none", "none">>
  ELSE <<keyId[call[t].by], key[call[t].by]>>

(* exec, up to the request.                                                *)
Exec(t) ==
  /\ At(t) = "exec"
  /\ Move(t, [call[t] EXCEPT !.at = "wire", !.signed = Signs(t),
                             !.dated = clockOk[call[t].by]])
  /\ UNCHANGED <<daemon, client, stray, bounds, robbed>>

(* Mutant: a 401 that carries the daemon's time is taken like any other.   *)
CorrectsClockNever(t) == FALSE

CorrectsClock(t) == At(t) = "skew" /\ ~call[t].again

(* execSigned: adopt the daemon's clock, once.                             *)
CorrectClock(t) ==
  /\ CorrectsClock(t)
  /\ clockOk' = [clockOk EXCEPT ![call[t].by] = TRUE]
  /\ Move(t, [call[t] EXCEPT !.at = "exec", !.again = TRUE])
  /\ UNCHANGED <<daemon, keyId, key, stray, bounds, robbed>>

Refused(t) == At(t) \in {"401", "skew"} /\ ~CorrectsClock(t)

(* login is refused: NotPaired.                                            *)
LoginRefused(t) ==
  /\ call[t].phase \in Logins /\ Refused(t)
  /\ End(t, "notpaired")
  /\ UNCHANGED <<daemon, client, stray, bounds, robbed>>

(* login's answer is the new key.  sessionKeyId and sessionKey are         *)
(* assigned one after the other, for all of the client's calls to see.     *)
Overwrites(t) ==
  robbed' = robbed \cup {u \in Replies \ {t} : call[u].by = call[t].by /\ Busy(u)}

StoreId(t) ==
  /\ call[t].phase \in Logins /\ At(t) = "ok"
  /\ keyId' = [keyId EXCEPT ![call[t].by] = call[t].new]
  /\ Move(t, [call[t] EXCEPT !.at = "storeKey"]) /\ Overwrites(t)
  /\ UNCHANGED <<daemon, key, clockOk, stray, bounds>>

StoreKey(t) ==
  /\ At(t) = "storeKey"
  /\ key' = [key EXCEPT ![call[t].by] = call[t].new]
  /\ Enter(t, IF call[t].phase = "login1" THEN "send1" ELSE "send2") /\ Overwrites(t)
  /\ UNCHANGED <<daemon, keyId, clockOk, stray, bounds>>

(* Mutants: every 401 leads to another login; none does.                   *)
LogsInAgainAlways(t) == TRUE
LogsInAgainNever(t)  == FALSE

LogsInAgain(t) == call[t].phase = "send1"

(* Mutant: any answer settles the prompt.                                  *)
ReturnsAlways(t) == At(t) \in {"ok", "409", "401"}

(* reply: carried out, or settled before.                                  *)
Returns(t) == At(t) \in {"ok", "409"}

(* The answer to the request proper: authed's second chance, and what      *)
(* reply makes of the code.                                                *)
Answered(t) ==
  /\ call[t].phase \notin Logins
  /\ \/ Returns(t) /\ End(t, "done")
     \/ Refused(t) /\ LogsInAgain(t) /\ Enter(t, "login2")
     \/ Refused(t) /\ ~LogsInAgain(t) /\ End(t, "failed")
  /\ UNCHANGED <<daemon, client, stray, bounds, robbed>>

Retries(t) == call[t].attempt < MaxAttempts

(* Of the requests under way, those that would change something.           *)
Lingers(t) == call[t].dated /\ (call[t].phase \in Logins \/ t \in unanswered)

(* IOException: no answer.  The request may still be on its way, or the    *)
(* answer was.  reply starts over, up to MaxAttempts times.                *)
NetworkFails(t) ==
  /\ faults < MaxFaults /\ faults' = faults + 1
  /\ \/ At(t) = "wire" /\ Lingers(t) /\ stray' = stray \cup {[of |-> t, phase |-> call[t].phase,
             signed |-> call[t].signed, dated |-> call[t].dated]}
     \/ At(t) \in {"wire"} \cup Verdicts /\ UNCHANGED stray
  /\ End(t, IF Retries(t) THEN "idle" ELSE "unreachable")
  /\ UNCHANGED <<daemon, client, restarts, robbed>>

Step(t) == \/ Begin(t) \/ Exec(t) \/ Handle(t) \/ CorrectClock(t)
           \/ LoginRefused(t) \/ StoreId(t) \/ StoreKey(t) \/ Answered(t)

Next ==
  \/ LoseSession
  \/ \E r \in stray : HandleStray(r)
  \/ \E t \in Replies : Desk(t)
  \/ \E t \in Calls : Step(t) \/ NetworkFails(t)

(* Coroutines run on, and a request that reaches the daemon is answered.   *)
Spec == Init /\ [][Next]_vars /\ \A t \in Calls : WF_vars(Step(t))

--------------------------------------------------------------------------------
(* PrhClient.kt, reply: "Already answered, at the desk or by an earlier    *)
(* retry of this very request.  Either way the prompt is settled".         *)
ReturnedIsSettled == \A t \in Replies : At(t) = "done" => t \notin unanswered

(* What the places of a call mean.                                         *)
Coherent(t) ==
  /\ At(t) = "idle" => call[t].attempt < MaxAttempts \/ t \in Pings
  /\ At(t) = "storeKey" => call[t].phase \in Logins
  /\ At(t) = "notpaired" => ~registered
  /\ At(t) = "401" /\ call[t].phase \in Logins => ~registered
  /\ call[t].again => /\ At(t) = "exec" => clockOk[call[t].by]
                      /\ At(t) = "wire" => call[t].dated
                      /\ At(t) # "skew"
  /\ t \in Replies /\ At(t) \in {"ok", "409"} /\ call[t].phase \notin Logins => t \notin unanswered

(* A reply that nobody has robbed has the session of its login.            *)
Current == <<"current", "current">>
Fresh(t) ==
  /\ registered
  /\ At(t) = "ok" => call[t].new = "current"
  /\ At(t) = "storeKey" => call[t].new = "current" /\ keyId[call[t].by] = "current"
  /\ At(t) = "exec" /\ ~call[t].again =>
       keyId[call[t].by] = "current" /\ key[call[t].by] = "current"
  /\ At(t) = "exec" /\ call[t].again => call[t].signed = Current
  /\ At(t) \in {"wire", "skew"} => call[t].signed = Current
  /\ At(t) # "401"
HasLoggedIn(t) ==
  \/ call[t].phase \in Logins /\ At(t) \in {"ok", "storeKey"}
  \/ call[t].phase = "send2" /\ Busy(t) /\ At(t) \notin {"ok", "409"}

(* What the phone reports as done is settled, every call is at a place the *)
(* client's code has, and a place means what the code after it assumes.    *)
SignedLinkInv ==
  /\ TypeOK /\ ReturnedIsSettled
  /\ \A t \in Calls : Coherent(t)
  /\ \A t \in Replies \ robbed : HasLoggedIn(t) => Fresh(t)

(* The phone is told to pair again, and its loops end, only if the daemon  *)
(* really does not know it; a wrong clock or a lost session is not that.   *)
NotPairedIsTrue == \A t \in Calls : At(t) = "notpaired" => ~registered

(* A reply is given up on a 401 only if its own fresh session was taken    *)
(* from it between the login and the request that was to use it.           *)
RefusedOnlyIfRobbed == \A t \in Replies : At(t) = "failed" => t \in robbed

(* Every reply comes to an end, whatever sessions and network do.          *)
RepliesEnd == \A t \in Replies : call[t].attempt > 0 ~> At(t) \in Ends
================================================================================
