------------------------------ MODULE Admission ------------------------------
(***************************************************************************)
(* What the daemon lets through by the clock: dates and nonces of signed   *)
(* requests (sign.go, verifySignature in server.go), and the limit on      *)
(* wrong passphrases (rateLimiter in server.go).                           *)
(*                                                                         *)
(* Time runs in ticks of half a second: dates are whole seconds, while the *)
(* expiry of a nonce and the limiter's window are exact, and their edges   *)
(* do not coincide.  A message is a signed request as its sender made it;  *)
(* the network may deliver it any number of times.  A request is handled   *)
(* in the steps its handler makes between locks; `now` is read once.       *)
(*                                                                         *)
(* The passphrases of one address: addresses share nothing.                *)
(***************************************************************************)
EXTENDS Integers, Filtering

CONSTANTS
  Messages, NoMessage,
  Date,          \* message -> X-Prh-Date, in seconds
  Handlers,      \* requests in progress at a time
  Leeway,        \* ClockLeewaySec
  MaxNonces,     \* nonceCache.max
  MaxAttempts, Window,  \* rateLimiter.maxAttempts; window, in ticks
  MaxTime, MaxRequests, MaxRestarts  \* bounds of the model

ASSUME AdmissionAssumption ==
  /\ NoMessage \notin Messages /\ Date \in [Messages -> Nat]
  /\ IsFiniteSet(Messages) /\ IsFiniteSet(Handlers)
  /\ Leeway \in Nat /\ MaxNonces \in Nat \ {0}
  /\ MaxAttempts \in Nat \ {0} /\ Window \in Nat \ {0}
  /\ MaxTime \in Nat /\ MaxRequests \in Nat /\ MaxRestarts \in Nat

VARIABLES
  clock,
  seen,       \* nonceCache: expiries of the nonces kept, as [msg, exp]
  failures,   \* rateLimiter: times of the failures kept
  req,        \* the requests in progress
  requests, restarts,  \* requests begun so far
  accepted,   \* history: messages that were accepted
  ahead,      \* history: accepted while dated the full leeway ahead
  forgotten,  \* history: accepted before the cache was emptied
  repeats,    \* history: acceptances after the first, and what went before them
  wrong       \* history: times of all wrong guesses since the last right one

bounds == <<requests, restarts>>
nonces == <<seen, accepted, ahead, forgotten, repeats>>
limits == <<failures, wrong>>
vars == <<clock, nonces, limits, req, bounds>>

TTL == 2 * (2 * Leeway)
Time == 0..MaxTime

(* raced: history, another copy was accepted since this one was looked up. *)
Request == [at : {"idle", "verify", "guess"}, msg : Messages \cup {NoMessage},
            now : Time, raced : BOOLEAN]
NoRequest == [at |-> "idle", msg |-> NoMessage, now |-> 0, raced |-> FALSE]
Guess     == [at |-> "guess", msg |-> NoMessage, now |-> 0, raced |-> FALSE]
Raced(r)  == [at |-> r.at, msg |-> r.msg, now |-> r.now, raced |-> TRUE]

TypeOK ==
  /\ clock \in Time
  /\ seen \subseteq [msg : Messages, exp : Int] /\ Cardinality(seen) <= MaxNonces
  /\ failures \in Seq(Time) /\ wrong \in Seq(Time)
  /\ req \in [Handlers -> Request]
  /\ requests \in 0..MaxRequests /\ restarts \in 0..MaxRestarts
  /\ accepted \subseteq Messages /\ ahead \subseteq accepted /\ forgotten \subseteq accepted
  /\ repeats \subseteq [raced : BOOLEAN, forgotten : BOOLEAN, ahead : BOOLEAN]

Init ==
  /\ clock = 0 /\ seen = {} /\ failures = <<>>
  /\ req = [h \in Handlers |-> NoRequest]
  /\ requests = 0 /\ restarts = 0
  /\ accepted = {} /\ ahead = {} /\ forgotten = {} /\ repeats = {} /\ wrong = <<>>

Tick ==
  /\ clock < MaxTime /\ clock' = clock + 1
  /\ UNCHANGED <<nonces, limits, req, bounds>>

Done(h) == req' = [req EXCEPT ![h] = NoRequest]

--------------------------------------------------------------------------------
(* Signed requests.                                                        *)

(* time.Unix: the whole seconds.                                           *)
Unix(t) == t \div 2

(* CheckDate.                                                              *)
CheckDate(m, now) == Unix(now) - Date[m] \in (-Leeway)..Leeway

(* nonceCache.used.                                                        *)
Used(m, now) == \E e \in seen : e.msg = m /\ e.exp > now

(* verifySignature, up to the nonce check.  A request that is refused      *)
(* changes nothing.                                                        *)
Lookup(h, m) ==
  /\ req[h].at = "idle" /\ requests < MaxRequests /\ requests' = requests + 1
  /\ CheckDate(m, clock) /\ ~Used(m, clock)
  /\ req' = [req EXCEPT ![h] = [at |-> "verify", msg |-> m, now |-> clock, raced |-> FALSE]]
  /\ UNCHANGED <<clock, nonces, limits, restarts>>

(* Mutant of remember: the entry expires with the leeway.                  *)
RememberedBriefly(m, now) == {[msg |-> m, exp |-> now + 2 * Leeway]}

Live(now) == {e \in seen : e.exp > now}

(* nonceCache.remember: a full cache is swept, and emptied if that does    *)
(* not help.                                                               *)
Remembered(m, now) ==
  LET kept == IF Cardinality(seen) < MaxNonces THEN seen
              ELSE IF Cardinality(Live(now)) < MaxNonces THEN Live(now) ELSE {}
  IN  {e \in kept : e.msg # m} \cup {[msg |-> m, exp |-> now + TTL]}

(* The signature verifies: the nonce is remembered, the request goes on.   *)
Accept(h) ==
  /\ req[h].at = "verify"
  /\ LET m == req[h].msg
         now == req[h].now
     IN  /\ seen' = Remembered(m, now)
         /\ forgotten' = (forgotten \cup {e.msg : e \in Live(clock) \ seen'}) \ {m}
         /\ accepted' = accepted \cup {m}
         /\ ahead' = IF Date[m] - Unix(now) = Leeway THEN ahead \cup {m} ELSE ahead
         /\ repeats' = IF m \notin accepted THEN repeats ELSE repeats \cup
              {[raced |-> req[h].raced, forgotten |-> m \in forgotten, ahead |-> m \in ahead]}
         /\ req' = [g \in Handlers |->
              IF g = h THEN NoRequest
              ELSE IF req[g].msg = m THEN Raced(req[g]) ELSE req[g]]
  /\ UNCHANGED <<clock, limits, bounds>>

(* The key is unknown, the body does not arrive or the signature is wrong. *)
Reject(h) ==
  /\ req[h].at = "verify" /\ Done(h)
  /\ UNCHANGED <<clock, nonces, limits, bounds>>

--------------------------------------------------------------------------------
(* Passphrases.                                                            *)

(* Mutant: a failure exactly as old as the window counts.                  *)
RecentInclusive(t) ==
  Pick(failures, {i \in DOMAIN failures : failures[i] >= t - Window})

(* recentLocked.                                                           *)
Recent(t) == Pick(failures, {i \in DOMAIN failures : failures[i] > t - Window})
IsLocked(t) == Len(Recent(t)) >= MaxAttempts

(* registerWithPassphrase, up to isLocked, which stores what it filtered.  *)
Attempt(h) ==
  /\ req[h].at = "idle" /\ requests < MaxRequests
  /\ failures' = Recent(clock)
  /\ \/ IsLocked(clock) /\ UNCHANGED <<req, requests>>
     \/ /\ ~IsLocked(clock) /\ requests' = requests + 1
        /\ req' = [req EXCEPT ![h] = Guess]
  /\ UNCHANGED <<clock, nonces, wrong, restarts>>

(* Mutant: only the newest failure is kept.                                *)
WrongPasswordKeepsNewest(h) ==
  /\ req[h].at = "guess" /\ Done(h)
  /\ failures' = <<clock>> /\ wrong' = Append(wrong, clock)
  /\ UNCHANGED <<clock, nonces, bounds>>

(* VerifyPassword says no: recordFailure.                                  *)
WrongPassword(h) ==
  /\ req[h].at = "guess" /\ Done(h)
  /\ failures' = Append(failures, clock) /\ wrong' = Append(wrong, clock)
  /\ UNCHANGED <<clock, nonces, bounds>>

(* VerifyPassword says yes: reset.                                         *)
RightPassword(h) ==
  /\ req[h].at = "guess" /\ Done(h)
  /\ failures' = <<>> /\ wrong' = <<>>
  /\ UNCHANGED <<clock, nonces, bounds>>

--------------------------------------------------------------------------------
(* Cache and limiter live in memory.                                       *)
Restart ==
  /\ restarts < MaxRestarts /\ restarts' = restarts + 1
  /\ seen' = {} /\ forgotten' = accepted
  /\ failures' = <<>> /\ wrong' = <<>>
  /\ req' = [h \in Handlers |-> NoRequest]
  /\ UNCHANGED <<clock, accepted, ahead, repeats, requests>>

Next ==
  \/ Tick \/ Restart
  \/ \E h \in Handlers :
       \/ \E m \in Messages : Lookup(h, m)
       \/ Accept(h) \/ Reject(h)
       \/ Attempt(h) \/ WrongPassword(h) \/ RightPassword(h)

Spec == Init /\ [][Next]_vars

--------------------------------------------------------------------------------
(* sign.go, Canonical: the nonce "makes each request single-use".  A copy  *)
(* is carried out again only if the two were verified side by side, if the *)
(* cache was emptied in between (full, or by a restart), or if the request *)
(* was dated the full leeway ahead, when its entry expires a fraction of a *)
(* second before its date does.                                            *)
CarriedOutOnce == \A x \in repeats : x.raced \/ x.forgotten \/ x.ahead

(* A message that can still be accepted and was accepted before is in the  *)
(* cache, with the same exceptions: what is swept was of no more use.      *)
AcceptableIsRemembered ==
  \A m \in accepted \ (forgotten \cup ahead) :
    \A t \in {clock, clock + 1} : CheckDate(m, t) => Used(m, t)

(* The limiter's filtered list decides as the full record of wrong guesses *)
(* would: MaxAttempts of them in the last Window, a right one forgives.    *)
InWindow    == {i \in DOMAIN wrong : wrong[i] > clock - Window}
LockIsExact == IsLocked(clock) <=> Cardinality(InWindow) >= MaxAttempts

(* The filtered list ends the full record; what it lacks is out of the     *)
(* window.                                                                 *)
FailuresEndTheRecord ==
  LET lost == Len(wrong) - Len(failures)
  IN  /\ lost >= 0
      /\ \A i \in DOMAIN failures : failures[i] = wrong[lost + i]
      /\ \A i \in DOMAIN wrong : wrong[i] <= clock /\ (i <= lost => wrong[i] <= clock - Window)
      /\ \A i, j \in DOMAIN wrong : i <= j => wrong[i] <= wrong[j]

(* Requests side by side may all pass isLocked before the first failure is *)
(* recorded, so that many more wrong guesses fit in a window, and no more. *)
Guessing == {h \in Handlers : req[h].at = "guess"}
GuessesAreBounded ==
  Cardinality(InWindow) + Cardinality(Guessing) <= MaxAttempts + Cardinality(Handlers) - 1

(* The wrong guesses that fit in a window are bounded, and cache and       *)
(* limiter keep their type.                                                *)
AdmissionInv ==
  /\ TypeOK
  /\ IsFiniteSet(seen) /\ \A e \in seen : e.msg \in accepted
  /\ FailuresEndTheRecord
  /\ GuessesAreBounded
================================================================================
