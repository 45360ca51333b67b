---------------------------- MODULE AdmissionProofs ----------------------------
(***************************************************************************)
(* Proofs about Admission, for any messages, dates, leeway, cache size and *)
(* number of requests side by side: a signed request is carried out once,  *)
(* but for the three exceptions that CarriedOutOnce names; and for any     *)
(* limit and window, the rate limiter counts every wrong guess exactly and *)
(* bounds them, although its check and its record are separate steps.      *)
(***************************************************************************)
EXTENDS Admission, SequenceLemmas

(* The first tick at which a request is too old.                           *)
Deadline(m) == 2 * (Date[m] + Leeway + 1)

(* What the arguments below need to know of the types.                     *)
NonceTypes ==
  /\ clock \in Nat
  /\ seen \subseteq [msg : Messages, exp : Int]
  /\ req \in [Handlers -> Request]
  /\ accepted \subseteq Messages

(* A request under way was within the leeway when its date was looked at.  *)
DatesChecked ==
  \A h \in Handlers :
    req[h].at = "verify" => /\ req[h].msg \in Messages
                            /\ CheckDate(req[h].msg, req[h].now)

(* A message that was accepted is past its deadline, or has an entry that  *)
(* lasts until then, or is one of the exceptions.                          *)
Covered ==
  \A m \in accepted \ (forgotten \cup ahead) :
    \/ clock >= Deadline(m)
    \/ \E e \in seen : e.msg = m /\ e.exp >= Deadline(m)

(* A copy of an accepted message that passed the look-up did so because of *)
(* an exception, or before the other was accepted.                         *)
CopiesExcused ==
  \A h \in Handlers :
    req[h].at = "verify" /\ req[h].msg \in accepted =>
      req[h].raced \/ req[h].msg \in forgotten \/ req[h].msg \in ahead

NonceInv == NonceTypes /\ DatesChecked /\ Covered /\ CopiesExcused /\ CarriedOutOnce

--------------------------------------------------------------------------------
(* Whole seconds and half seconds.                                         *)
LEMMA SecondsOfTicks ==
  ASSUME NEW t \in Nat, NEW k \in Int
  PROVE  /\ Unix(t) \in Int
         /\ Unix(t) >= k <=> t >= 2 * k
  BY SMT DEF Unix

(* A date is good for the ticks before its deadline.                       *)
LEMMA GoodBeforeDeadline ==
  ASSUME NEW m \in Messages, NEW t \in Nat, CheckDate(m, t)
  PROVE  t < Deadline(m)
<1>1. Date[m] \in Nat /\ Leeway \in Nat  BY AdmissionAssumption
<1>2. Unix(t) - Date[m] <= Leeway  BY <1>1, SecondsOfTicks DEF CheckDate
<1>3. ~(Unix(t) >= Date[m] + Leeway + 1)  BY <1>1, <1>2, SecondsOfTicks
<1>4. QED  BY <1>1, <1>3, SecondsOfTicks DEF Deadline

(* An entry made at t for a request not dated the full leeway ahead lasts  *)
(* until the deadline.                                                     *)
LEMMA EntryLasts ==
  ASSUME NEW m \in Messages, NEW t \in Nat, CheckDate(m, t), Date[m] - Unix(t) # Leeway
  PROVE  t + TTL >= Deadline(m)
<1>1. Date[m] \in Nat /\ Leeway \in Nat  BY AdmissionAssumption
<1>2. Unix(t) >= Date[m] - Leeway + 1  BY <1>1, SecondsOfTicks DEF CheckDate
<1>3. t >= 2 * (Date[m] - Leeway + 1)  BY <1>1, <1>2, SecondsOfTicks
<1>4. QED  BY <1>1, <1>3 DEF Deadline, TTL

--------------------------------------------------------------------------------
LEMMA InitAdmissionInv == Init => NonceInv
<1> SUFFICES ASSUME Init PROVE NonceInv
  OBVIOUS
<1>1. NoRequest \in Request
  BY AdmissionAssumption DEF NoRequest, Request, Time
<1>2. \A h \in Handlers : req[h].at = "idle"
  BY DEF Init, NoRequest
<1> QED BY <1>1, <1>2 DEF Init, NonceInv, NonceTypes, DatesChecked, Covered,
                          CopiesExcused, CarriedOutOnce

(* Time passes, a request is refused, or a passphrase is tried: nothing is *)
(* accepted or forgotten, and no request enters verification.              *)
LEMMA QuietStep ==
  ASSUME NonceInv, UNCHANGED nonces, clock' \in Nat, clock' >= clock,
         req' \in [Handlers -> Request],
         \A h \in Handlers : req'[h].at = "verify" => req'[h] = req[h]
  PROVE  NonceInv'
<1>1. NonceTypes'
  BY DEF NonceInv, NonceTypes, nonces
<1>2. DatesChecked'
  BY DEF NonceInv, DatesChecked, CheckDate
<1>3. Covered'
  <2> SUFFICES ASSUME NEW m \in accepted \ (forgotten \cup ahead)
               PROVE  \/ clock' >= Deadline(m)
                      \/ \E e \in seen : e.msg = m /\ e.exp >= Deadline(m)
    BY DEF Covered, nonces, Deadline
  <2>1. m \in Messages /\ Deadline(m) \in Int /\ clock \in Nat
    BY AdmissionAssumption DEF NonceInv, NonceTypes, Deadline
  <2> QED BY <2>1 DEF NonceInv, Covered
<1>4. CopiesExcused'
  BY DEF NonceInv, CopiesExcused, nonces
<1>5. CarriedOutOnce'
  BY DEF NonceInv, CarriedOutOnce, nonces
<1> QED BY <1>1, <1>2, <1>3, <1>4, <1>5 DEF NonceInv

LEMMA LookupStep ==
  ASSUME NonceInv, NEW h \in Handlers, NEW m \in Messages, Lookup(h, m),
         clock \in Time
  PROVE  NonceInv'
<1>1. req' = [req EXCEPT ![h] = [at |-> "verify", msg |-> m, now |-> clock, raced |-> FALSE]]
  BY DEF Lookup
<1>2. NonceTypes'
  <2>2. [at |-> "verify", msg |-> m, now |-> clock, raced |-> FALSE] \in Request
    BY DEF Request
  <2> QED BY <1>1, <2>2 DEF NonceInv, NonceTypes, Lookup, nonces
<1>3. req'[h].at = "verify" /\ req'[h].msg = m /\ req'[h].now = clock
      /\ \A g \in Handlers \ {h} : req'[g] = req[g]
  BY <1>1 DEF NonceInv, NonceTypes, Request
<1>4. DatesChecked'
  BY <1>3 DEF NonceInv, DatesChecked, Lookup, CheckDate
<1>5. Covered'
  BY DEF NonceInv, Covered, Lookup, nonces, Deadline
<1>6. m \in accepted => m \in forgotten \/ m \in ahead
  <2> SUFFICES ASSUME m \in accepted \ (forgotten \cup ahead) PROVE FALSE
    OBVIOUS
  <2>1. clock \in Nat /\ clock < Deadline(m)
    BY GoodBeforeDeadline DEF Lookup, NonceInv, NonceTypes
  <2>2. PICK e \in seen : e.msg = m /\ e.exp >= Deadline(m)
    BY <2>1, AdmissionAssumption DEF NonceInv, Covered, Deadline
  <2>3. e.exp > clock
    BY <2>1, <2>2, AdmissionAssumption DEF NonceInv, NonceTypes, Deadline
  <2> QED BY <2>2, <2>3 DEF Lookup, Used
<1>7. CopiesExcused'
  <2> SUFFICES ASSUME NEW g \in Handlers, req'[g].at = "verify", req'[g].msg \in accepted
               PROVE  req'[g].raced \/ req'[g].msg \in forgotten \/ req'[g].msg \in ahead
    BY DEF CopiesExcused, Lookup, nonces
  <2>1. CASE g = h
    BY <2>1, <1>3, <1>6
  <2>2. CASE g # h
    BY <2>2, <1>3 DEF NonceInv, CopiesExcused
  <2> QED BY <2>1, <2>2
<1>8. CarriedOutOnce'
  BY DEF NonceInv, CarriedOutOnce, Lookup, nonces
<1> QED BY <1>2, <1>4, <1>5, <1>7, <1>8 DEF NonceInv

(* What remember leaves in the cache.                                      *)
LEMMA RememberedTypes ==
  ASSUME NEW m \in Messages, NEW now \in Nat,
         seen \subseteq [msg : Messages, exp : Int]
  PROVE  /\ Remembered(m, now) \subseteq [msg : Messages, exp : Int]
         /\ [msg |-> m, exp |-> now + TTL] \in Remembered(m, now)
<1>1. TTL \in Int
  BY AdmissionAssumption DEF TTL
<1>2. [msg |-> m, exp |-> now + TTL] \in [msg : Messages, exp : Int]
  BY <1>1
<1>3. Live(now) \subseteq seen
  BY DEF Live
<1> QED BY <1>2, <1>3 DEF Remembered

LEMMA AcceptStep ==
  ASSUME NonceInv, NEW h \in Handlers, Accept(h)
  PROVE  NonceInv'
<1> DEFINE m == req[h].msg
           now == req[h].now
<1>1. /\ m \in Messages /\ now \in Nat /\ CheckDate(m, now) /\ clock \in Nat
      /\ req[h].raced \in BOOLEAN
  BY DEF NonceInv, NonceTypes, DatesChecked, Accept, Request, Time
<1>2. /\ seen' = Remembered(m, now) /\ clock' = clock
      /\ forgotten' = (forgotten \cup {e.msg : e \in Live(clock) \ seen'}) \ {m}
      /\ accepted' = accepted \cup {m}
      /\ ahead' = IF Date[m] - Unix(now) = Leeway THEN ahead \cup {m} ELSE ahead
  BY DEF Accept
<1>3. \A g \in Handlers :
        req'[g] = IF g = h THEN NoRequest
                  ELSE IF req[g].msg = m THEN Raced(req[g]) ELSE req[g]
  BY DEF Accept
<1>4. NonceTypes'
  <2>1. seen' \subseteq [msg : Messages, exp : Int]
    BY <1>1, <1>2, RememberedTypes DEF NonceInv, NonceTypes
  <2>2. req' \in [Handlers -> Request]
    <3>1. NoRequest \in Request
      BY AdmissionAssumption DEF NoRequest, Request, Time
    <3>2. \A g \in Handlers : Raced(req[g]) \in Request
      BY DEF NonceInv, NonceTypes, Raced, Request
    <3> QED BY <3>1, <3>2 DEF Accept, NonceInv, NonceTypes
  <2> QED BY <1>1, <1>2, <2>1, <2>2 DEF NonceInv, NonceTypes
<1>5. DatesChecked'
  <2> SUFFICES ASSUME NEW g \in Handlers, req'[g].at = "verify"
               PROVE  req'[g].msg \in Messages /\ CheckDate(req'[g].msg, req'[g].now)
    BY DEF DatesChecked, CheckDate
  <2>1. g # h
    BY <1>3 DEF NoRequest
  <2>2. req'[g] = Raced(req[g]) \/ req'[g] = req[g]
    BY <1>3, <2>1
  <2>3. req'[g].msg = req[g].msg /\ req'[g].now = req[g].now /\ req'[g].at = req[g].at
    BY <2>2 DEF Raced
  <2> QED BY <2>3 DEF NonceInv, DatesChecked
<1>6. Covered'
  <2> SUFFICES ASSUME NEW x \in accepted' \ (forgotten' \cup ahead')
               PROVE  \/ clock >= Deadline(x)
                      \/ \E e \in seen' : e.msg = x /\ e.exp >= Deadline(x)
    BY <1>2 DEF Covered, Deadline
  <2>1. CASE x = m
    <3>1. Date[m] - Unix(now) # Leeway
      BY <2>1, <1>2
    <3>2. now + TTL >= Deadline(m)
      BY <1>1, <3>1, EntryLasts
    <3>3. [msg |-> m, exp |-> now + TTL] \in seen'
      BY <1>1, <1>2, RememberedTypes DEF NonceInv, NonceTypes
    <3> QED BY <2>1, <3>2, <3>3
  <2>2. CASE x # m
    <3>1. x \in accepted \ (forgotten \cup ahead)
      BY <2>2, <1>2
    <3>2. CASE clock >= Deadline(x)
      BY <3>2
    <3>3. ASSUME NEW e \in seen, e.msg = x, e.exp >= Deadline(x)
          PROVE  \/ clock >= Deadline(x)
                 \/ \E d \in seen' : d.msg = x /\ d.exp >= Deadline(x)
      <4>1. CASE e \in seen'
        BY <3>3, <4>1
      <4>2. CASE e \notin seen'
        <5>1. e \notin Live(clock)
          BY <2>2, <3>3, <4>2, <1>2
        <5>2. e.exp <= clock
          BY <5>1, <1>1 DEF Live, NonceInv, NonceTypes
        <5>3. Deadline(x) \in Int /\ e.exp \in Int
          BY <3>1, AdmissionAssumption DEF NonceInv, NonceTypes, Deadline
        <5> QED BY <3>3, <5>2, <5>3, <1>1
      <4> QED BY <4>1, <4>2
    <3> QED BY <3>1, <3>2, <3>3 DEF NonceInv, Covered
  <2> QED BY <2>1, <2>2
<1>7. CopiesExcused'
  <2> SUFFICES ASSUME NEW g \in Handlers, req'[g].at = "verify", req'[g].msg \in accepted'
               PROVE  req'[g].raced \/ req'[g].msg \in forgotten' \/ req'[g].msg \in ahead'
    BY DEF CopiesExcused
  <2>1. g # h
    BY <1>3 DEF NoRequest
  <2>2. CASE req[g].msg = m
    <3>1. req'[g] = Raced(req[g])
      BY <1>3, <2>1, <2>2
    <3>2. req'[g].raced = TRUE
      BY <3>1 DEF Raced
    <3> QED BY <3>2
  <2>3. CASE req[g].msg # m
    <3>1. req'[g] = req[g] /\ req[g].msg \in accepted
      BY <1>2, <1>3, <2>1, <2>3
    <3>2. req[g].raced \/ req[g].msg \in forgotten \/ req[g].msg \in ahead
      BY <3>1 DEF NonceInv, CopiesExcused
    <3> QED BY <1>2, <2>3, <3>1, <3>2
  <2> QED BY <2>2, <2>3
<1>8. CarriedOutOnce'
  <2>1. m \in accepted => req[h].raced \/ m \in forgotten \/ m \in ahead
    BY DEF NonceInv, CopiesExcused, Accept
  <2> SUFFICES ASSUME NEW x \in repeats' PROVE x.raced \/ x.forgotten \/ x.ahead
    BY DEF CarriedOutOnce
  <2>2. CASE x \in repeats
    BY <2>2 DEF NonceInv, CarriedOutOnce
  <2>3. CASE /\ m \in accepted
             /\ x = [raced |-> req[h].raced, forgotten |-> m \in forgotten, ahead |-> m \in ahead]
    BY <2>1, <2>3
  <2> QED BY <2>2, <2>3 DEF Accept
<1> QED BY <1>4, <1>5, <1>6, <1>7, <1>8 DEF NonceInv

LEMMA RestartStep ==
  ASSUME NonceInv, Restart
  PROVE  NonceInv'
<1>1. req' = [h \in Handlers |-> NoRequest] /\ NoRequest \in Request
  BY AdmissionAssumption DEF Restart, NoRequest, Request, Time
<1>2. \A h \in Handlers : req'[h].at = "idle"
  BY <1>1 DEF NoRequest
<1> QED BY <1>1, <1>2 DEF Restart, NonceInv, NonceTypes, DatesChecked, Covered,
                          CopiesExcused, CarriedOutOnce

(* The steps that neither begin nor end a signed request are QuietStep.    *)
LEMMA OtherSteps ==
  ASSUME NonceInv,
         \/ Tick \/ UNCHANGED vars
         \/ \E h \in Handlers : \/ Reject(h) \/ Attempt(h)
                                \/ WrongPassword(h) \/ RightPassword(h)
  PROVE  NonceInv'
<1> USE DEF nonces, limits, bounds
<1>0. clock \in Nat /\ req \in [Handlers -> Request]
      /\ NoRequest \in Request /\ Guess \in Request
  BY AdmissionAssumption DEF NonceInv, NonceTypes, NoRequest, Guess, Request, Time
<1>1. CASE Tick \/ UNCHANGED vars
  BY <1>0, <1>1, QuietStep DEF Tick, vars
<1>2. ASSUME NEW h \in Handlers,
             Reject(h) \/ WrongPassword(h) \/ RightPassword(h)
      PROVE  NonceInv'
  <2>1. req' = [req EXCEPT ![h] = NoRequest] /\ UNCHANGED <<clock, nonces>>
    BY <1>2 DEF Reject, WrongPassword, RightPassword, Done
  <2>2. \A g \in Handlers : req'[g].at = "verify" => req'[g] = req[g]
    BY <1>0, <2>1 DEF NoRequest
  <2> QED BY <1>0, <2>1, <2>2, QuietStep
<1>3. ASSUME NEW h \in Handlers, Attempt(h)
      PROVE  NonceInv'
  <2>1. UNCHANGED <<clock, nonces>> /\ (req' = [req EXCEPT ![h] = Guess] \/ req' = req)
    BY <1>3 DEF Attempt
  <2>2. CASE req' = req
    BY <1>0, <2>1, <2>2, QuietStep
  <2>3. CASE req' = [req EXCEPT ![h] = Guess]
    <3>1. \A g \in Handlers : req'[g].at = "verify" => req'[g] = req[g]
      BY <1>0, <2>3 DEF Guess
    <3>2. req' \in [Handlers -> Request]
      BY <1>0, <2>3
    <3> QED BY <1>0, <2>1, <3>1, <3>2, QuietStep
  <2> QED BY <2>1, <2>2, <2>3
<1> QED BY <1>1, <1>2, <1>3

(* The clock stays within the bound of the model.                          *)
LEMMA ClockBound == Spec => [](clock \in Time)
<1>1. Init => clock \in Time
  BY AdmissionAssumption DEF Init, Time
<1>2. clock \in Time /\ [Next]_vars => (clock \in Time)'
  BY AdmissionAssumption
  DEF Next, Time, vars, Tick, Restart, Lookup, Accept, Reject, Attempt, WrongPassword,
      RightPassword
<1> QED BY <1>1, <1>2, PTL DEF Spec

(* NonceInv holds in every reachable state.                            *)
THEOREM AdmissionInvariance == Spec => []NonceInv
<1>1. NonceInv /\ clock \in Time /\ [Next]_vars => NonceInv'
  <2> SUFFICES ASSUME NonceInv, clock \in Time, [Next]_vars PROVE NonceInv'
    OBVIOUS
  <2>1. CASE Tick \/ UNCHANGED vars
    BY <2>1, OtherSteps
  <2>2. CASE Restart
    BY <2>2, RestartStep
  <2>3. ASSUME NEW h \in Handlers, NEW m \in Messages, Lookup(h, m) PROVE NonceInv'
    BY <2>3, LookupStep
  <2>4. ASSUME NEW h \in Handlers, Accept(h) PROVE NonceInv'
    BY <2>4, AcceptStep
  <2>5. ASSUME NEW h \in Handlers,
               Reject(h) \/ Attempt(h) \/ WrongPassword(h) \/ RightPassword(h)
        PROVE  NonceInv'
    BY <2>5, OtherSteps
  <2> QED BY <2>1, <2>2, <2>3, <2>4, <2>5 DEF Next
<1> QED BY <1>1, InitAdmissionInv, ClockBound, PTL DEF Spec

(* A signed request is carried out a second time only if its copies raced, *)
(* the cache was emptied, or it was dated the full leeway ahead.           *)
THEOREM SingleUse == Spec => []CarriedOutOnce
BY AdmissionInvariance, PTL DEF NonceInv

(* With the same exceptions, a message that could be accepted a second     *)
(* time, now or at the next tick, is still in the cache: no sweep and no   *)
(* expiry comes too early.                                                 *)
THEOREM SweptIsUseless == Spec => []AcceptableIsRemembered
<1>1. NonceInv => AcceptableIsRemembered
  <2> SUFFICES ASSUME NonceInv, NEW m \in accepted \ (forgotten \cup ahead),
                      NEW t \in {clock, clock + 1}, CheckDate(m, t)
               PROVE  Used(m, t)
    BY DEF AcceptableIsRemembered
  <2>1. m \in Messages /\ t \in Nat /\ clock \in Nat /\ t >= clock
    BY DEF NonceInv, NonceTypes
  <2>2. t < Deadline(m) /\ Deadline(m) \in Int
    BY <2>1, GoodBeforeDeadline, AdmissionAssumption DEF Deadline
  <2>3. PICK e \in seen : e.msg = m /\ e.exp >= Deadline(m)
    BY <2>1, <2>2 DEF NonceInv, Covered
  <2>4. e.exp \in Int
    BY DEF NonceInv, NonceTypes
  <2> QED BY <2>1, <2>2, <2>3, <2>4 DEF Used
<1> QED BY <1>1, AdmissionInvariance, PTL

--------------------------------------------------------------------------------
(* The limiter.                                                            *)

(* What recentLocked keeps is what the full record has in the window.      *)
LEMMA RecentIsInWindow ==
  ASSUME TypeOK, FailuresEndTheRecord
  PROVE  \E b \in 1..(Len(wrong) + 1) :
           /\ InWindow = b..Len(wrong)
           /\ Recent(clock) \in Seq(Time) /\ Len(Recent(clock)) = Len(wrong) + 1 - b
           /\ \A k \in 1..Len(Recent(clock)) : Recent(clock)[k] = wrong[b - 1 + k]
<1> DEFINE lost == Len(wrong) - Len(failures)
           c == clock - Window
<1>1. /\ failures \in Seq(Time) /\ Len(failures) \in Nat /\ DOMAIN failures = 1..Len(failures)
      /\ wrong \in Seq(Time) /\ Len(wrong) \in Nat /\ DOMAIN wrong = 1..Len(wrong)
      /\ clock \in Nat /\ c \in Int /\ lost \in Nat
  <2>1. failures \in Seq(Time) /\ wrong \in Seq(Time) /\ clock \in Time
    BY DEF TypeOK
  <2>2. /\ Len(failures) \in Nat /\ DOMAIN failures = 1..Len(failures)
        /\ Len(wrong) \in Nat /\ DOMAIN wrong = 1..Len(wrong)
    BY <2>1, LenProperties
  <2>3. clock \in Nat /\ c \in Int
    BY <2>1, AdmissionAssumption DEF Time
  <2> QED BY <2>1, <2>2, <2>3 DEF FailuresEndTheRecord
<1>2. /\ \A i \in 1..Len(failures) : failures[i] = wrong[lost + i]
      /\ \A i \in 1..Len(wrong) : i <= lost => wrong[i] <= c
      /\ \A i, j \in 1..Len(wrong) : i <= j => wrong[i] <= wrong[j]
  BY <1>1 DEF FailuresEndTheRecord
<1>3. wrong \in Seq(Nat)
  <2>1. Time \subseteq Nat
    BY DEF Time
  <2> QED BY <1>1, <2>1, SeqMonotonic
<1>4. PICK b \in 1..(Len(wrong) + 1) : {i \in DOMAIN wrong : wrong[i] > c} = b..Len(wrong)
  <2> HIDE DEF c
  <2> QED BY <1>1, <1>2, <1>3, SortedSuffix
<1>5. \A i \in 1..Len(wrong) : wrong[i] \in Nat
  BY <1>3, ElementOfSeq
<1>6. b - lost \in 1..(Len(failures) + 1)
  <2>1. CASE b = Len(wrong) + 1
    BY <1>1, <2>1
  <2>2. CASE b # Len(wrong) + 1
    <3>1. b \in DOMAIN wrong /\ wrong[b] > c
      BY <1>1, <1>4, <2>2
    <3>2. ASSUME b <= lost PROVE FALSE
      <4>1. b \in 1..Len(wrong) /\ wrong[b] \in Nat
        BY <1>1, <1>5, <3>1
      <4>2. wrong[b] <= c
        BY <1>2, <3>2, <4>1
      <4> HIDE DEF c
      <4> QED BY <1>1, <3>1, <4>1, <4>2
    <3> QED BY <1>1, <3>2
  <2> QED BY <2>1, <2>2
<1> HIDE DEF c
<1>7. {i \in DOMAIN failures : failures[i] > c} = (b - lost)..Len(failures)
  <2>1. ASSUME NEW i \in 1..Len(failures) PROVE failures[i] > c <=> i >= b - lost
    <3>1. lost + i \in 1..Len(wrong) /\ failures[i] = wrong[lost + i]
      BY <1>1, <1>2
    <3>2. wrong[lost + i] > c <=> lost + i \in b..Len(wrong)
      BY <1>1, <1>4, <3>1
    <3> QED BY <1>1, <3>1, <3>2
  <2> QED BY <1>1, <1>6, <2>1
<1>8. Recent(clock) = Pick(failures, (b - lost)..Len(failures))
  BY <1>7 DEF Recent, c
<1>9. /\ Pick(failures, (b - lost)..Len(failures)) \in Seq(Time)
      /\ Len(Pick(failures, (b - lost)..Len(failures))) = Len(failures) + 1 - (b - lost)
      /\ \A k \in 1..(Len(failures) + 1 - (b - lost)) :
           Pick(failures, (b - lost)..Len(failures))[k] = failures[(b - lost) + k - 1]
  BY <1>1, <1>6, PickSuffix
<1>10. Len(failures) + 1 - (b - lost) = Len(wrong) + 1 - b
  BY <1>1, <1>6
<1>11. ASSUME NEW k \in 1..(Len(wrong) + 1 - b) PROVE Recent(clock)[k] = wrong[b - 1 + k]
  <2>1. Recent(clock)[k] = failures[(b - lost) + k - 1]
    BY <1>8, <1>9, <1>10
  <2>2. (b - lost) + k - 1 \in 1..Len(failures) /\ lost + ((b - lost) + k - 1) = b - 1 + k
    BY <1>1, <1>6
  <2> QED BY <1>2, <2>1, <2>2
<1>12. InWindow = b..Len(wrong)
  BY <1>4 DEF InWindow, c
<1> QED BY <1>8, <1>9, <1>10, <1>11, <1>12

(* How many wrong guesses are in the window, and what the limiter decides. *)
LEMMA WindowCount ==
  ASSUME TypeOK, FailuresEndTheRecord
  PROVE  /\ IsFiniteSet(InWindow) /\ Cardinality(InWindow) \in Nat
         /\ Cardinality(InWindow) = Len(Recent(clock))
         /\ LockIsExact
<1>1. PICK b \in 1..(Len(wrong) + 1) :
        InWindow = b..Len(wrong) /\ Len(Recent(clock)) = Len(wrong) + 1 - b
  BY RecentIsInWindow
<1>2. Len(wrong) \in Nat /\ b \in Int /\ b <= Len(wrong) + 1
  BY LenProperties DEF TypeOK
<1>3. IsFiniteSet(b..Len(wrong)) /\ Cardinality(b..Len(wrong)) = Len(wrong) + 1 - b
  BY <1>2, SegmentLength
<1> QED BY <1>1, <1>2, <1>3 DEF LockIsExact, IsLocked

(* The requests that are verifying a passphrase are among the handlers.    *)
LEMMA GuessingCount ==
  /\ IsFiniteSet(Guessing) /\ Cardinality(Guessing) \in Nat /\ Cardinality(Handlers) \in Nat
  /\ Cardinality(Guessing) <= Cardinality(Handlers)
  /\ \A h \in Handlers : h \notin Guessing => Cardinality(Guessing) < Cardinality(Handlers)
<1>1. Guessing \subseteq Handlers /\ IsFiniteSet(Handlers)
  BY AdmissionAssumption DEF Guessing
<1>2. IsFiniteSet(Guessing) /\ Cardinality(Guessing) <= Cardinality(Handlers)
  BY <1>1, FS_Subset
<1>3. Cardinality(Guessing) \in Nat /\ Cardinality(Handlers) \in Nat
  BY <1>1, <1>2, FS_CardinalityType
<1>4. ASSUME NEW h \in Handlers, h \notin Guessing
      PROVE  Cardinality(Guessing) < Cardinality(Handlers)
  <2>1. Cardinality(Guessing \cup {h}) = Cardinality(Guessing) + 1
    BY <1>2, <1>4, FS_AddElement
  <2>2. Guessing \cup {h} \subseteq Handlers
    BY <1>1
  <2>3. Cardinality(Guessing \cup {h}) <= Cardinality(Handlers)
    BY <1>1, <2>2, FS_Subset
  <2> QED BY <1>3, <2>1, <2>3
<1> QED BY <1>2, <1>3, <1>4

(* remember never lets the cache outgrow its size.                         *)
LEMMA RememberedFits ==
  ASSUME NEW m, NEW now, IsFiniteSet(seen)
  PROVE  IsFiniteSet(Remembered(m, now)) /\ Cardinality(Remembered(m, now)) <= MaxNonces
<1> DEFINE kept == IF Cardinality(seen) < MaxNonces THEN seen
                   ELSE IF Cardinality(Live(now)) < MaxNonces THEN Live(now) ELSE {}
           rest == {e \in kept : e.msg # m}
           new == [msg |-> m, exp |-> now + TTL]
<1>1. Live(now) \subseteq seen /\ MaxNonces \in Nat \ {0}
  BY AdmissionAssumption DEF Live
<1>2. IsFiniteSet(kept) /\ Cardinality(kept) < MaxNonces
  <2>1. IsFiniteSet(Live(now))
    BY <1>1, FS_Subset
  <2>2. IsFiniteSet({}) /\ Cardinality({}) = 0
    BY FS_EmptySet
  <2>3. CASE Cardinality(seen) < MaxNonces
    BY <2>3
  <2>4. CASE ~(Cardinality(seen) < MaxNonces) /\ Cardinality(Live(now)) < MaxNonces
    BY <2>1, <2>4
  <2>5. CASE ~(Cardinality(seen) < MaxNonces) /\ ~(Cardinality(Live(now)) < MaxNonces)
    BY <1>1, <2>2, <2>5
  <2> QED BY <2>3, <2>4, <2>5
<1> HIDE DEF kept
<1>3. IsFiniteSet(rest) /\ Cardinality(rest) <= Cardinality(kept)
  <2>1. rest \subseteq kept
    OBVIOUS
  <2> QED BY <1>2, <2>1, FS_Subset
<1>4. Cardinality(rest) \in Nat /\ Cardinality(kept) \in Nat
  BY <1>2, <1>3, FS_CardinalityType
<1> HIDE DEF rest, new
<1>5. /\ IsFiniteSet(rest \cup {new})
      /\ Cardinality(rest \cup {new}) = IF new \in rest THEN Cardinality(rest)
                                        ELSE Cardinality(rest) + 1
  BY <1>3, FS_AddElement
<1>6. Remembered(m, now) = rest \cup {new}
  BY DEF Remembered, rest, kept, new
<1> QED BY <1>1, <1>2, <1>3, <1>4, <1>5, <1>6

(* The types of what the requests hold.                                    *)
LEMMA RequestTypes ==
  /\ NoRequest \in Request /\ Guess \in Request
  /\ \A r \in Request : Raced(r) \in Request /\ Raced(r).at = r.at
  /\ NoRequest.at = "idle" /\ Guess.at = "guess"
<1>1. 0 \in Time
  BY AdmissionAssumption DEF Time
<1>2. NoRequest \in Request /\ NoRequest.at = "idle"
  BY <1>1, Zenon DEF NoRequest, Request
<1>3. Guess \in Request /\ Guess.at = "guess"
  BY <1>1, Zenon DEF Guess, Request
<1>4. \A r \in Request : Raced(r) \in Request /\ Raced(r).at = r.at
  BY DEF Raced, Request
<1> QED BY <1>2, <1>3, <1>4

(* The guesses in the window and those under way, when neither changes.    *)
LEMMA LimitsStay ==
  ASSUME AdmissionInv, TypeOK', UNCHANGED <<clock, limits>>,
         \A h \in Handlers : req'[h].at = "guess" <=> req[h].at = "guess"
  PROVE  FailuresEndTheRecord' /\ GuessesAreBounded'
<1>1. FailuresEndTheRecord'
  BY DEF AdmissionInv, FailuresEndTheRecord, limits
<1>2. InWindow' = InWindow
  BY DEF InWindow, limits
<1>3. Guessing' = Guessing
  BY DEF Guessing
<1> QED BY <1>1, <1>2, <1>3 DEF AdmissionInv, GuessesAreBounded

(* Signed requests and restarts: what they do to the types and the cache.  *)
LEMMA SignedStep ==
  ASSUME AdmissionInv, NonceInv, NEW h \in Handlers,
         Accept(h) \/ Reject(h) \/ \E m \in Messages : Lookup(h, m)
  PROVE  AdmissionInv'
<1>0. /\ TypeOK /\ IsFiniteSet(seen) /\ \A e \in seen : e.msg \in accepted
      /\ req \in [Handlers -> Request] /\ MaxRequests \in Nat
  BY AdmissionAssumption DEF AdmissionInv, TypeOK
<1>1. CASE Accept(h)
  <2> DEFINE m == req[h].msg
             now == req[h].now
  <2>1. m \in Messages /\ now \in Nat /\ req[h].raced \in BOOLEAN /\ req[h].at = "verify"
    BY <1>0, <1>1 DEF Accept, NonceInv, DatesChecked, Request, Time
  <2>2. /\ seen' = Remembered(m, now)
        /\ forgotten' = (forgotten \cup {e.msg : e \in Live(clock) \ seen'}) \ {m}
        /\ accepted' = accepted \cup {m}
        /\ ahead' = IF Date[m] - Unix(now) = Leeway THEN ahead \cup {m} ELSE ahead
        /\ repeats' = IF m \notin accepted THEN repeats ELSE repeats \cup
              {[raced |-> req[h].raced, forgotten |-> m \in forgotten, ahead |-> m \in ahead]}
        /\ req' = [g \in Handlers |->
              IF g = h THEN NoRequest
              ELSE IF req[g].msg = m THEN Raced(req[g]) ELSE req[g]]
        /\ UNCHANGED <<clock, failures, wrong, requests, restarts>>
    BY <1>1 DEF Accept, limits, bounds
  <2> HIDE DEF m, now
  <2>3. IsFiniteSet(seen') /\ Cardinality(seen') <= MaxNonces
    BY <1>0, <2>2, RememberedFits
  <2>4. seen' \subseteq [msg : Messages, exp : Int]
    BY <1>0, <2>1, <2>2, RememberedTypes DEF TypeOK
  <2>5. \A e \in seen' : e.msg \in accepted'
    BY <1>0, <2>2 DEF Remembered, Live
  <2>6. req' \in [Handlers -> Request] /\ \A g \in Handlers : req'[g].at = "guess" <=> req[g].at = "guess"
    BY <1>0, <2>1, <2>2, RequestTypes
  <2>7. accepted' \subseteq Messages /\ ahead' \subseteq accepted'
    BY <1>0, <2>1, <2>2 DEF TypeOK
  <2>8. forgotten' \subseteq accepted'
    BY <1>0, <2>2 DEF TypeOK, Live
  <2>9. repeats' \subseteq [raced : BOOLEAN, forgotten : BOOLEAN, ahead : BOOLEAN]
    <3> DEFINE x == [raced |-> req[h].raced, forgotten |-> m \in forgotten, ahead |-> m \in ahead]
    <3> DEFINE f == m \in forgotten
               a == m \in ahead
    <3>3. f \in BOOLEAN /\ a \in BOOLEAN
      OBVIOUS
    <3>4. x = [raced |-> req[h].raced, forgotten |-> f, ahead |-> a]
      OBVIOUS
    <3> HIDE DEF f, a
    <3>1. x \in [raced : BOOLEAN, forgotten : BOOLEAN, ahead : BOOLEAN]
      <4> HIDE DEF x
      <4> QED BY <2>1, <3>3, <3>4
    <3> HIDE DEF x
    <3>2. repeats' = repeats \/ repeats' = repeats \cup {x}
      BY <2>2, Zenon DEF x
    <3> QED BY <1>0, <3>1, <3>2 DEF TypeOK
  <2>10. TypeOK'
    BY <1>0, <2>2, <2>3, <2>4, <2>6, <2>7, <2>8, <2>9 DEF TypeOK
  <2> QED BY <2>2, <2>3, <2>5, <2>6, <2>10, LimitsStay DEF AdmissionInv, limits
<1>2. ASSUME Reject(h) \/ \E m \in Messages : Lookup(h, m) PROVE AdmissionInv'
  <2>1. /\ UNCHANGED <<clock, nonces, limits, restarts>>
        /\ requests' = requests \/ (requests < MaxRequests /\ requests' = requests + 1)
        /\ req[h].at # "guess"
    BY <1>2 DEF Reject, Lookup, limits, bounds
  <2>2. PICK r \in Request : req' = [req EXCEPT ![h] = r] /\ r.at # "guess"
    <3>1. CASE Reject(h)
      BY <3>1, RequestTypes DEF Reject, Done
    <3>2. ASSUME NEW m \in Messages, Lookup(h, m)
          PROVE  \E r \in Request : req' = [req EXCEPT ![h] = r] /\ r.at # "guess"
      <4> DEFINE r == [at |-> "verify", msg |-> m, now |-> clock, raced |-> FALSE]
      <4>1. r \in Request /\ r.at # "guess"
        BY <1>0 DEF Request, TypeOK
      <4> QED BY <3>2, <4>1 DEF Lookup
    <3> QED BY <1>2, <3>1, <3>2
  <2>3. req' \in [Handlers -> Request] /\ \A g \in Handlers : req'[g].at = "guess" <=> req[g].at = "guess"
    BY <1>0, <2>1, <2>2
  <2>4. requests' \in 0..MaxRequests
    BY <1>0, <2>1 DEF TypeOK
  <2>5. TypeOK'
    BY <1>0, <2>1, <2>3, <2>4 DEF TypeOK, nonces, limits
  <2> QED BY <1>0, <2>1, <2>3, <2>5, LimitsStay DEF AdmissionInv, nonces
<1> QED BY <1>1, <1>2

LEMMA InitLimits == Init => AdmissionInv
<1> SUFFICES ASSUME Init PROVE AdmissionInv
  OBVIOUS
<1>1. /\ wrong \in Seq(Time) /\ Len(wrong) = 0 /\ DOMAIN wrong = {}
      /\ failures \in Seq(Time) /\ Len(failures) = 0 /\ DOMAIN failures = {}
  <2>1. wrong \in Seq(Time) /\ failures \in Seq(Time) /\ Len(wrong) = 0 /\ Len(failures) = 0
    BY EmptySeq DEF Init
  <2> QED BY <2>1, LenProperties
<1>2. IsFiniteSet(seen) /\ Cardinality(seen) = 0
  BY FS_EmptySet DEF Init
<1>3. \A h \in Handlers : req[h].at = "idle"
  BY RequestTypes DEF Init
<1>4. TypeOK
  BY <1>1, <1>2, AdmissionAssumption, RequestTypes DEF Init, TypeOK, Time
<1>5. FailuresEndTheRecord
  BY <1>1 DEF FailuresEndTheRecord
<1>6. InWindow = {} /\ Guessing = {}
  BY <1>1, <1>3 DEF InWindow, Guessing
<1>7. GuessesAreBounded
  BY <1>6, AdmissionAssumption, FS_EmptySet, GuessingCount DEF GuessesAreBounded
<1> QED BY <1>2, <1>4, <1>5, <1>7 DEF AdmissionInv, Init

(* Time passes, or nothing happens: guesses leave the window.              *)
LEMMA ClockStep ==
  ASSUME AdmissionInv, Tick \/ UNCHANGED vars
  PROVE  AdmissionInv'
<1>0. /\ TypeOK /\ FailuresEndTheRecord /\ clock \in Nat /\ Window \in Nat
      /\ \A i \in DOMAIN wrong : wrong[i] \in Nat
  BY AdmissionAssumption, LenProperties, ElementOfSeq DEF AdmissionInv, TypeOK, Time
<1>1. /\ UNCHANGED <<nonces, limits, req, bounds>> /\ clock' \in Time /\ clock' >= clock
      /\ clock' \in Nat
  BY <1>0, AdmissionAssumption DEF Tick, vars, TypeOK, Time
<1>2. TypeOK'
  BY <1>0, <1>1 DEF TypeOK, nonces, limits, bounds
<1>3. FailuresEndTheRecord'
  BY <1>0, <1>1 DEF FailuresEndTheRecord, limits
<1>4. InWindow' \subseteq InWindow /\ Guessing' = Guessing
  BY <1>0, <1>1 DEF InWindow, Guessing, limits
<1>5. GuessesAreBounded'
  <2>1. IsFiniteSet(InWindow) /\ Cardinality(InWindow) \in Nat
    BY <1>0, WindowCount
  <2>2. IsFiniteSet(InWindow') /\ Cardinality(InWindow') <= Cardinality(InWindow)
    BY <1>4, <2>1, FS_Subset
  <2>3. Cardinality(InWindow') \in Nat
    BY <2>2, FS_CardinalityType
  <2> QED BY <1>4, <2>1, <2>2, <2>3, GuessingCount, AdmissionAssumption
          DEF AdmissionInv, GuessesAreBounded
<1> QED BY <1>1, <1>2, <1>3, <1>5 DEF AdmissionInv, nonces

(* Requests that try a passphrase.                                         *)
LEMMA PassphraseStep ==
  ASSUME AdmissionInv, NEW h \in Handlers,
         Attempt(h) \/ WrongPassword(h) \/ RightPassword(h)
  PROVE  AdmissionInv'
<1>0. /\ TypeOK /\ FailuresEndTheRecord /\ GuessesAreBounded
      /\ clock \in Time /\ clock \in Nat /\ Window \in Nat \ {0} /\ MaxAttempts \in Nat \ {0}
      /\ wrong \in Seq(Time) /\ Len(wrong) \in Nat /\ DOMAIN wrong = 1..Len(wrong)
      /\ failures \in Seq(Time) /\ Len(failures) \in Nat /\ DOMAIN failures = 1..Len(failures)
      /\ \A i \in 1..Len(wrong) : wrong[i] \in Nat
      /\ req \in [Handlers -> Request] /\ MaxRequests \in Nat
      /\ IsFiniteSet(InWindow) /\ Cardinality(InWindow) \in Nat
  <2>1. TypeOK /\ FailuresEndTheRecord /\ GuessesAreBounded
    BY DEF AdmissionInv
  <2>2. wrong \in Seq(Time) /\ failures \in Seq(Time) /\ clock \in Time /\ req \in [Handlers -> Request]
    BY <2>1 DEF TypeOK
  <2>3. \A i \in 1..Len(wrong) : wrong[i] \in Time
    BY <2>2, ElementOfSeq
  <2> QED BY <2>1, <2>2, <2>3, LenProperties, WindowCount, AdmissionAssumption DEF Time
<1>1. UNCHANGED <<clock, nonces, restarts>>
  BY DEF Attempt, WrongPassword, RightPassword, bounds
<1>2. ASSUME Attempt(h) PROVE AdmissionInv'
  <2>1. failures' = Recent(clock) /\ wrong' = wrong /\ req[h].at = "idle"
        /\ \/ IsLocked(clock) /\ UNCHANGED <<req, requests>>
           \/ /\ ~IsLocked(clock) /\ requests' = requests + 1 /\ requests < MaxRequests
              /\ req' = [req EXCEPT ![h] = Guess]
    BY <1>2 DEF Attempt
  <2>2. PICK b \in 1..(Len(wrong) + 1) :
          /\ InWindow = b..Len(wrong)
          /\ failures' \in Seq(Time) /\ Len(failures') = Len(wrong) + 1 - b
          /\ \A k \in 1..Len(failures') : failures'[k] = wrong[b - 1 + k]
    BY <1>0, <2>1, RecentIsInWindow
  <2>3. TypeOK'
    <3>1. req' \in [Handlers -> Request]
      BY <1>0, <2>1, RequestTypes
    <3>2. requests' \in 0..MaxRequests
      BY <1>0, <2>1 DEF TypeOK
    <3> QED BY <1>0, <1>1, <2>1, <2>2, <3>1, <3>2 DEF TypeOK, nonces
  <2>4. FailuresEndTheRecord'
    <3>1. Len(wrong) - Len(failures') = b - 1 /\ b - 1 \in Nat
      BY <1>0, <2>2
    <3>2. DOMAIN failures' = 1..Len(failures')
      BY <2>2, LenProperties
    <3>3. ASSUME NEW i \in 1..Len(wrong), i <= b - 1 PROVE wrong[i] <= clock - Window
      <4>1. i \notin InWindow
        BY <1>0, <2>2, <3>3
      <4> QED BY <1>0, <4>1 DEF InWindow
    <3>4. \A i \in 1..Len(wrong) : wrong[i] <= clock
          /\ \A j \in 1..Len(wrong) : i <= j => wrong[i] <= wrong[j]
      BY <1>0 DEF FailuresEndTheRecord
    <3> DEFINE lost == b - 1
    <3>5. \A i \in 1..Len(failures') : failures'[i] = wrong[lost + i]
      BY <2>2
    <3>6. Len(wrong) - Len(failures') = lost /\ lost >= 0
      BY <3>1
    <3> HIDE DEF lost
    <3>7. wrong' = wrong /\ clock' = clock /\ DOMAIN wrong' = 1..Len(wrong)
      BY <1>0, <1>1, <2>1
    <3>8. \A i \in 1..Len(wrong) : i <= lost => wrong[i] <= clock - Window
      BY <3>3 DEF lost
    <3> QED BY <3>2, <3>4, <3>5, <3>6, <3>7, <3>8 DEF FailuresEndTheRecord
  <2>5. InWindow' = InWindow
    BY <1>1, <2>1 DEF InWindow
  <2>6. GuessesAreBounded'
    <3>1. CASE IsLocked(clock) /\ UNCHANGED <<req, requests>>
      BY <1>0, <2>5, <3>1 DEF GuessesAreBounded, Guessing
    <3>2. CASE ~IsLocked(clock) /\ req' = [req EXCEPT ![h] = Guess]
      <4>1. Cardinality(InWindow) < MaxAttempts
        BY <1>0, <3>2, WindowCount DEF LockIsExact
      <4>2. Guessing' = Guessing \cup {h} /\ h \notin Guessing
        BY <1>0, <2>1, <3>2, RequestTypes DEF Guessing
      <4>3. Cardinality(Guessing') = Cardinality(Guessing) + 1
        BY <4>2, GuessingCount, FS_AddElement
      <4>4. Cardinality(Guessing) < Cardinality(Handlers) /\ Cardinality(Guessing) \in Nat
            /\ Cardinality(Handlers) \in Nat
        BY <4>2, GuessingCount
      <4> QED BY <1>0, <2>5, <4>1, <4>3, <4>4 DEF GuessesAreBounded
    <3> QED BY <2>1, <3>1, <3>2
  <2> QED BY <1>1, <2>3, <2>4, <2>6 DEF AdmissionInv, nonces
<1>3. ASSUME WrongPassword(h) \/ RightPassword(h)
      PROVE  /\ req' \in [Handlers -> Request] /\ requests' = requests
             /\ IsFiniteSet(Guessing') /\ Cardinality(Guessing') = Cardinality(Guessing) - 1
             /\ Cardinality(Guessing) \in Nat \ {0} /\ Cardinality(Handlers) \in Nat
             /\ Cardinality(Guessing) <= Cardinality(Handlers)
  <2>1. req' = [req EXCEPT ![h] = NoRequest] /\ req[h].at = "guess" /\ requests' = requests
    BY <1>3 DEF WrongPassword, RightPassword, Done, bounds
  <2>2. Guessing' = Guessing \ {h} /\ h \in Guessing
    BY <1>0, <2>1, RequestTypes DEF Guessing
  <2>3. IsFiniteSet(Guessing) /\ Cardinality(Guessing) \in Nat /\ Cardinality(Handlers) \in Nat
        /\ Cardinality(Guessing) <= Cardinality(Handlers)
    BY GuessingCount
  <2>4. IsFiniteSet(Guessing \ {h}) /\ Cardinality(Guessing \ {h}) = Cardinality(Guessing) - 1
    BY <2>2, <2>3, FS_RemoveElement
  <2>5. Cardinality(Guessing) # 0
    BY <2>2, <2>3, FS_EmptySet
  <2> QED BY <1>0, <2>1, <2>2, <2>3, <2>4, <2>5, RequestTypes
<1>4. ASSUME WrongPassword(h) PROVE AdmissionInv'
  <2>1. failures' = Append(failures, clock) /\ wrong' = Append(wrong, clock)
    BY <1>4 DEF WrongPassword
  <2>2. /\ failures' \in Seq(Time) /\ Len(failures') = Len(failures) + 1
        /\ \A i \in 1..Len(failures) : failures'[i] = failures[i]
        /\ failures'[Len(failures) + 1] = clock
    BY <1>0, <2>1, AppendProperties
  <2>3. /\ wrong' \in Seq(Time) /\ Len(wrong') = Len(wrong) + 1
        /\ \A i \in 1..Len(wrong) : wrong'[i] = wrong[i]
        /\ wrong'[Len(wrong) + 1] = clock
    BY <1>0, <2>1, AppendProperties
  <2>4. /\ DOMAIN failures' = 1..(Len(failures) + 1)
        /\ DOMAIN wrong' = 1..(Len(wrong) + 1)
    BY <2>2, <2>3, LenProperties
  <2>5. TypeOK'
    BY <1>0, <1>1, <1>3, <1>4, <2>2, <2>3 DEF TypeOK, nonces
  <2>6. FailuresEndTheRecord'
    <3> DEFINE lost == Len(wrong) - Len(failures)
    <3>1. Len(wrong') - Len(failures') = lost /\ lost \in Nat
      BY <1>0, <2>2, <2>3 DEF FailuresEndTheRecord
    <3>2. ASSUME NEW i \in 1..(Len(failures) + 1) PROVE failures'[i] = wrong'[lost + i]
      <4>1. CASE i = Len(failures) + 1
        <5>1. lost + i = Len(wrong) + 1
          BY <1>0, <4>1
        <5> QED BY <2>2, <2>3, <4>1, <5>1
      <4>2. CASE i # Len(failures) + 1
        <5>1. i \in 1..Len(failures) /\ lost + i \in 1..Len(wrong)
          BY <1>0, <3>1, <4>2
        <5>2. failures[i] = wrong[lost + i]
          BY <1>0, <5>1 DEF FailuresEndTheRecord
        <5> QED BY <2>2, <2>3, <5>1, <5>2
      <4> QED BY <4>1, <4>2
    <3>3. ASSUME NEW i \in 1..(Len(wrong) + 1)
          PROVE  /\ wrong'[i] <= clock /\ (i <= lost => wrong'[i] <= clock - Window)
                 /\ wrong'[i] \in Nat /\ i # Len(wrong) + 1 => i \in 1..Len(wrong) /\ wrong'[i] = wrong[i]
      <4>1. CASE i = Len(wrong) + 1
        BY <1>0, <2>3, <4>1
      <4>2. CASE i # Len(wrong) + 1
        <5>1. i \in 1..Len(wrong) /\ wrong'[i] = wrong[i]
          BY <1>0, <2>3, <4>2
        <5> QED BY <1>0, <5>1 DEF FailuresEndTheRecord
      <4> QED BY <4>1, <4>2
    <3>4. ASSUME NEW i \in 1..(Len(wrong) + 1), NEW j \in 1..(Len(wrong) + 1), i <= j
          PROVE  wrong'[i] <= wrong'[j]
      <4>1. CASE j = Len(wrong) + 1
        BY <2>3, <3>3, <4>1
      <4>2. CASE j # Len(wrong) + 1
        <5>1. i \in 1..Len(wrong) /\ j \in 1..Len(wrong)
          BY <1>0, <3>4, <4>2
        <5>2. wrong[i] <= wrong[j]
          BY <1>0, <3>4, <5>1 DEF FailuresEndTheRecord
        <5> QED BY <2>3, <5>1, <5>2
      <4> QED BY <4>1, <4>2
    <3> HIDE DEF lost
    <3> QED BY <1>1, <2>4, <3>1, <3>2, <3>3, <3>4 DEF FailuresEndTheRecord
  <2>7. InWindow' = InWindow \cup {Len(wrong) + 1} /\ Len(wrong) + 1 \notin InWindow
    <3>1. \A i \in 1..(Len(wrong) + 1) :
            i \in InWindow' <=> i \in InWindow \/ i = Len(wrong) + 1
      BY <1>0, <1>1, <2>3, <2>4 DEF InWindow
    <3>2. InWindow \subseteq 1..Len(wrong) /\ InWindow' \subseteq 1..(Len(wrong) + 1)
      BY <1>0, <2>4 DEF InWindow
    <3>3. Len(wrong) + 1 \notin InWindow /\ Len(wrong) + 1 \in 1..(Len(wrong) + 1)
          /\ \A i \in 1..Len(wrong) : i \in 1..(Len(wrong) + 1)
      BY <1>0, <3>2
    <3>4. InWindow' \subseteq InWindow \cup {Len(wrong) + 1}
      BY <3>1, <3>2
    <3>5. InWindow \cup {Len(wrong) + 1} \subseteq InWindow'
      BY <3>1, <3>2, <3>3
    <3> QED BY <3>3, <3>4, <3>5
  <2>8. Cardinality(InWindow') = Cardinality(InWindow) + 1
    BY <1>0, <2>7, FS_AddElement
  <2>9. GuessesAreBounded'
    BY <1>0, <1>3, <1>4, <2>8 DEF GuessesAreBounded
  <2> QED BY <1>1, <2>5, <2>6, <2>9 DEF AdmissionInv, nonces
<1>5. ASSUME RightPassword(h) PROVE AdmissionInv'
  <2>1. /\ wrong' \in Seq(Time) /\ Len(wrong') = 0 /\ DOMAIN wrong' = {}
        /\ failures' \in Seq(Time) /\ Len(failures') = 0 /\ DOMAIN failures' = {}
    <3>1. /\ wrong' \in Seq(Time) /\ failures' \in Seq(Time)
          /\ Len(wrong') = 0 /\ Len(failures') = 0
      BY <1>5, EmptySeq DEF RightPassword
    <3> QED BY <3>1, LenProperties
  <2>2. TypeOK'
    BY <1>0, <1>1, <1>3, <1>5, <2>1 DEF TypeOK, nonces
  <2>3. FailuresEndTheRecord'
    BY <2>1 DEF FailuresEndTheRecord
  <2>4. Cardinality(InWindow') = 0
    BY <2>1, FS_EmptySet DEF InWindow
  <2>5. GuessesAreBounded'
    BY <1>0, <1>3, <1>5, <2>4 DEF GuessesAreBounded
  <2> QED BY <1>1, <2>2, <2>3, <2>5 DEF AdmissionInv, nonces
<1> QED BY <1>2, <1>4, <1>5

(* A restart empties the cache and forgives.                               *)
LEMMA RestartForgives ==
  ASSUME AdmissionInv, Restart
  PROVE  AdmissionInv'
<1>1. /\ wrong' \in Seq(Time) /\ Len(wrong') = 0 /\ DOMAIN wrong' = {}
      /\ failures' \in Seq(Time) /\ Len(failures') = 0 /\ DOMAIN failures' = {}
  <2>1. wrong' \in Seq(Time) /\ failures' \in Seq(Time) /\ Len(wrong') = 0 /\ Len(failures') = 0
    BY EmptySeq DEF Restart
  <2> QED BY <2>1, LenProperties
<1>2. IsFiniteSet(seen') /\ Cardinality(seen') = 0 /\ seen' = {}
  BY FS_EmptySet DEF Restart
<1>3. \A h \in Handlers : req'[h].at = "idle"
  BY RequestTypes DEF Restart
<1>4. restarts' \in 0..MaxRestarts /\ req' \in [Handlers -> Request]
  BY AdmissionAssumption, RequestTypes DEF Restart, AdmissionInv, TypeOK
<1>5. TypeOK'
  BY <1>1, <1>2, <1>4, AdmissionAssumption DEF Restart, TypeOK, AdmissionInv
<1>6. FailuresEndTheRecord'
  BY <1>1 DEF FailuresEndTheRecord
<1>7. InWindow' = {} /\ Guessing' = {}
  BY <1>1, <1>3 DEF InWindow, Guessing
<1>8. GuessesAreBounded'
  BY <1>7, AdmissionAssumption, FS_EmptySet, GuessingCount DEF GuessesAreBounded
<1> QED BY <1>2, <1>5, <1>6, <1>8 DEF AdmissionInv, Restart

(* Whatever guesses run side by side and whenever the list is filtered,    *)
(* the wrong guesses of a window are bounded, and cache and limiter keep   *)
(* their types (registerWithPassphrase, recordFailure, remember).          *)
THEOREM GuessesAreLimited == Spec => []AdmissionInv
<1>1. AdmissionInv /\ NonceInv /\ [Next]_vars => AdmissionInv'
  BY SignedStep, ClockStep, PassphraseStep, RestartForgives DEF Next
<1> QED BY <1>1, InitLimits, AdmissionInvariance, PTL DEF Spec

(* The list that recentLocked filters and stores decides as the full       *)
(* record of wrong guesses would (isLocked, recordFailure, reset).         *)
THEOREM TheLockIsExact == Spec => []LockIsExact
<1>1. AdmissionInv => LockIsExact
  BY WindowCount DEF AdmissionInv
<1> QED BY <1>1, GuessesAreLimited, PTL
================================================================================
