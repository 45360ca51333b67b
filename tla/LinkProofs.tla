------------------------------- MODULE LinkProofs -------------------------------
(***************************************************************************)
(* Proofs about the daemon's two links.  SignedLink, the phone's: for any  *)
(* number of clients, replies, loops, attempts, network failures and lost  *)
(* sessions, what the outcomes of a call mean.  PluginLink, the plugins':  *)
(* for any number of windows, requests, decisions and crashes, no approval *)
(* is carried out in a window that did not ask for it.                     *)
(***************************************************************************)
EXTENDS SignedLink, PluginLink, SequenceLemmas

--------------------------------------------------------------------------------
(* Types.                                                                  *)

LEMMA NoCallType ==
  ASSUME NEW t \in Calls
  PROVE  /\ NoCall(t) \in Call
         /\ NoCall(t).at = "idle" /\ ~NoCall(t).again /\ NoCall(t).attempt = 0
<1>1. ClientsOf[t] \subseteq Clients /\ ClientsOf[t] # {}
  BY SignedLinkAssumption
<1>2. (CHOOSE c \in ClientsOf[t] : TRUE) \in Clients
  BY <1>1
<1>3. <<"none", "none">> \in Signature /\ 0 \in 0..MaxAttempts
  BY SignedLinkAssumption DEF Signature, KeyState
<1> QED BY <1>2, <1>3 DEF NoCall, Call, Phases, Logins, KeyState

LEMMA SupersededType ==
  ASSUME NEW k \in KeyState PROVE Superseded(k) \in KeyState
BY DEF Superseded, KeyState

LEMMA OutdatedSignature ==
  ASSUME NEW s \in Signature PROVE <<Superseded(s[1]), Superseded(s[2])>> \in Signature
BY SupersededType DEF Signature

(* A call without its keys.                                                *)
Place(c) == <<c.at, c.phase, c.by, c.dated, c.again, c.attempt>>

LEMMA OutdatedCallsType ==
  ASSUME TypeOK
  PROVE  /\ OutdatedCalls \in [Calls -> Call]
         /\ \A t \in Calls : Place(OutdatedCalls[t]) = Place(call[t])
<1> SUFFICES ASSUME NEW t \in Calls
             PROVE  /\ OutdatedCalls[t] \in Call
                    /\ Place(OutdatedCalls[t]) = Place(call[t])
  BY DEF OutdatedCalls
<1>1. call[t] \in Call
  BY DEF TypeOK
<1>2. OutdatedCalls[t] = [call[t] EXCEPT
           !.signed = <<Superseded(call[t].signed[1]), Superseded(call[t].signed[2])>>,
           !.new = Superseded(call[t].new)]
  BY <1>1 DEF OutdatedCalls, Outdated, Call
<1>3. /\ <<Superseded(call[t].signed[1]), Superseded(call[t].signed[2])>> \in Signature
      /\ Superseded(call[t].new) \in KeyState
  BY <1>1, OutdatedSignature, SupersededType DEF Call
<1> QED BY <1>1, <1>2, <1>3 DEF Call, Place

LEMMA EndSessionType ==
  ASSUME TypeOK, NEW rs \in SUBSET Stray, EndSession(rs)
  PROVE  /\ keyId' \in [Clients -> KeyState] /\ key' \in [Clients -> KeyState]
         /\ clockOk' = clockOk /\ stray' \in SUBSET Stray
<1>1. ASSUME NEW r \in rs PROVE Outdated(r) \in Stray
  <2>1. r \in Stray
    OBVIOUS
  <2>2. Outdated(r) = [r EXCEPT !.signed = <<Superseded(r.signed[1]), Superseded(r.signed[2])>>]
    BY <2>1 DEF Outdated, Stray
  <2>3. <<Superseded(r.signed[1]), Superseded(r.signed[2])>> \in Signature
    BY <2>1, OutdatedSignature DEF Stray
  <2> QED BY <2>1, <2>2, <2>3 DEF Stray
<1> QED BY <1>1, SupersededType DEF EndSession, TypeOK

--------------------------------------------------------------------------------
(* What a step does to the calls it is not about.                          *)

LEMMA CoherentStays ==
  ASSUME NEW t \in Calls, Coherent(t), Place(call'[t]) = Place(call[t]),
         registered' => registered, unanswered' \subseteq unanswered,
         clockOk[call[t].by] => clockOk'[call[t].by]
  PROVE  Coherent(t)'
BY DEF Coherent, At, Place

(* A reply that stays unrobbed keeps its session.                          *)
LEMMA FreshStays ==
  ASSUME NEW t \in Replies, HasLoggedIn(t) => Fresh(t),
         call'[t] = call[t], UNCHANGED registered,
         Busy(t) => keyId'[call[t].by] = keyId[call[t].by] /\ key'[call[t].by] = key[call[t].by]
  PROVE  HasLoggedIn(t)' => Fresh(t)'
BY DEF HasLoggedIn, Fresh, Busy, At, Ends, Verdicts, Current

LEMMA InitSignedLinkInv == Init => SignedLinkInv
<1> SUFFICES ASSUME Init PROVE SignedLinkInv
  OBVIOUS
<1>1. \A t \in Calls : /\ call[t] \in Call /\ call[t].at = "idle" /\ ~call[t].again
                       /\ call[t].attempt = 0
  BY NoCallType DEF Init
<1>2. TypeOK
  BY <1>1, SignedLinkAssumption DEF Init, TypeOK, KeyState
<1>3. \A t \in Calls : Coherent(t)
  BY <1>1, SignedLinkAssumption DEF Coherent, At
<1> QED BY <1>1, <1>2, <1>3 DEF SignedLinkInv, ReturnedIsSettled, HasLoggedIn, Busy, At, Calls

--------------------------------------------------------------------------------
(* The daemon's steps.                                                     *)

LEMMA DeskStep ==
  ASSUME SignedLinkInv, NEW t \in Replies, Desk(t) PROVE SignedLinkInv'
<1> USE DEF SignedLinkInv, Desk, daemon, client, bounds
<1>1. TypeOK'
  BY DEF TypeOK
<1>2. \A u \in Calls : Coherent(u)'
  BY CoherentStays DEF Place
<1>3. \A u \in Replies \ robbed' : HasLoggedIn(u)' => Fresh(u)'
  BY FreshStays
<1> QED BY <1>1, <1>2, <1>3 DEF ReturnedIsSettled, At

(* Whoever ends the session robs all replies under way.                    *)
LEMMA SessionEnds ==
  ASSUME SignedLinkInv, TypeOK', call' = OutdatedCalls, clockOk' = clockOk,
         registered' => registered, unanswered' \subseteq unanswered,
         robbed' = robbed \cup LosesSession
  PROVE  SignedLinkInv'
<1> USE DEF SignedLinkInv
<1>1. \A u \in Calls : Place(call'[u]) = Place(call[u])
  BY OutdatedCallsType
<1>2. \A u \in Calls : Coherent(u)'
  BY <1>1, CoherentStays
<1>3. \A u \in Calls : At(u)' = At(u) /\ call'[u].phase = call[u].phase
  BY <1>1 DEF Place, At
<1>4. ReturnedIsSettled'
  BY <1>3 DEF ReturnedIsSettled, Calls
<1>5. ASSUME NEW u \in Replies \ robbed', HasLoggedIn(u)' PROVE FALSE
  <2>1. Busy(u)
    BY <1>3, <1>5 DEF HasLoggedIn, Busy, Ends, Calls
  <2> QED BY <2>1, <1>5 DEF LosesSession
<1> QED BY <1>2, <1>4, <1>5

LEMMA LoseSessionStep ==
  ASSUME SignedLinkInv, LoseSession PROVE SignedLinkInv'
<1>1. TypeOK /\ EndSession(stray) /\ stray \in SUBSET Stray
  BY DEF SignedLinkInv, LoseSession, TypeOK
<1>2. /\ keyId' \in [Clients -> KeyState] /\ key' \in [Clients -> KeyState]
      /\ clockOk' = clockOk /\ stray' \in SUBSET Stray
  BY <1>1, EndSessionType
<1>3. /\ registered' \in BOOLEAN /\ (registered' => registered) /\ unanswered' \subseteq unanswered
      /\ faults' = faults
  <2>1. /\ faults' = faults
        /\ \/ registered' = registered /\ unanswered' = unanswered
           \/ registered' = registered /\ unanswered' = {}
           \/ registered' = FALSE /\ unanswered' = unanswered
    BY DEF LoseSession
  <2>2. registered \in BOOLEAN
    BY <1>1 DEF TypeOK
  <2>3. registered' \in BOOLEAN /\ (registered' => registered)
    <3>1. CASE registered' = registered
      BY <2>2, <3>1
    <3>2. CASE registered' = FALSE
      BY <3>2
    <3> QED BY <2>1, <3>1, <3>2
  <2>4. unanswered' \subseteq unanswered
    BY <2>1
  <2> QED BY <2>1, <2>3, <2>4
<1>4. restarts' \in 0..MaxRestarts
  BY <1>1, SignedLinkAssumption DEF LoseSession, TypeOK
<1>5. call' = OutdatedCalls /\ robbed' = robbed \cup LosesSession
  BY DEF LoseSession
<1>6. TypeOK'
  BY <1>1, <1>2, <1>3, <1>4, <1>5, OutdatedCallsType DEF TypeOK, LosesSession
<1> QED BY <1>2, <1>3, <1>5, <1>6, SessionEnds

LEMMA HandleStrayStep ==
  ASSUME SignedLinkInv, NEW r \in stray, HandleStray(r) PROVE SignedLinkInv'
<1> USE DEF bounds
<1>1. TypeOK /\ stray \ {r} \in SUBSET Stray
  BY DEF SignedLinkInv, TypeOK
<1>2. UNCHANGED <<registered, faults, restarts>> /\ unanswered' \subseteq unanswered
  BY DEF HandleStray, Served
<1>3. CASE IsLogin(r, r.of)
  <2>1. /\ EndSession(stray \ {r}) /\ call' = OutdatedCalls
        /\ robbed' = robbed \cup LosesSession
    BY <1>3 DEF HandleStray
  <2>2. /\ keyId' \in [Clients -> KeyState] /\ key' \in [Clients -> KeyState]
        /\ clockOk' = clockOk /\ stray' \in SUBSET Stray
    BY <1>1, <2>1, EndSessionType
  <2>3. TypeOK'
    BY <1>1, <1>2, <2>1, <2>2, OutdatedCallsType DEF TypeOK, LosesSession
  <2> QED BY <1>2, <2>1, <2>2, <2>3, SessionEnds
<1>4. CASE ~IsLogin(r, r.of)
  <2>1. stray' = stray \ {r} /\ UNCHANGED <<keyId, key, clockOk, call, robbed>>
    BY <1>4 DEF HandleStray, client
  <2>2. TypeOK'
    BY <1>1, <1>2, <2>1 DEF TypeOK
  <2>3. \A u \in Calls : Coherent(u)'
    BY <1>2, <2>1, CoherentStays DEF Place, SignedLinkInv
  <2>4. \A u \in Replies \ robbed' : HasLoggedIn(u)' => Fresh(u)'
    BY <1>2, <2>1, FreshStays DEF SignedLinkInv
  <2> QED BY <1>2, <2>1, <2>2, <2>3, <2>4 DEF ReturnedIsSettled, At, SignedLinkInv
<1> QED BY <1>3, <1>4

--------------------------------------------------------------------------------
(* The client's steps.                                                     *)

(* One call moves, and robs whoever would notice.                          *)
LEMMA OneMoves ==
  ASSUME SignedLinkInv, NEW t \in Calls, NEW c \in Call, Move(t, c), TypeOK',
         registered' = registered, unanswered' \subseteq unanswered,
         \A b \in Clients : clockOk[b] => clockOk'[b],
         robbed \ {t} \subseteq robbed',
         \A u \in Replies \ (robbed' \cup {t}) :
            Busy(u) => /\ keyId'[call[u].by] = keyId[call[u].by]
                       /\ key'[call[u].by] = key[call[u].by],
         Coherent(t)',
         t \in Replies /\ At(t)' = "done" => t \notin unanswered',
         t \in Replies \ robbed' /\ HasLoggedIn(t)' => Fresh(t)'
  PROVE  SignedLinkInv'
<1> USE DEF SignedLinkInv
<1>1. \A u \in Calls \ {t} : call'[u] = call[u]
  BY DEF Move, TypeOK
<1>2. \A u \in Calls : call[u].by \in Clients
  BY DEF TypeOK, Call
<1>3. \A u \in Calls : Coherent(u)'
  BY <1>1, <1>2, CoherentStays DEF Place
<1>4. ReturnedIsSettled'
  BY <1>1 DEF ReturnedIsSettled, At, Calls
<1>5. ASSUME NEW u \in Replies \ robbed', HasLoggedIn(u)' PROVE Fresh(u)'
  <2>1. CASE u = t
    BY <2>1, <1>5
  <2>2. CASE u # t
    <3>1. call'[u] = call[u] /\ u \notin robbed /\ UNCHANGED registered
      BY <2>2, <1>1 DEF Calls
    <3>2. HasLoggedIn(u) => Fresh(u)
      BY <3>1
    <3>3. Busy(u) => /\ keyId'[call[u].by] = keyId[call[u].by]
                     /\ key'[call[u].by] = key[call[u].by]
      BY <2>2
    <3> QED BY <1>5, <3>1, <3>2, <3>3, FreshStays
  <2> QED BY <2>1, <2>2
<1> QED BY <1>3, <1>4, <1>5

LEMMA BeginStep ==
  ASSUME SignedLinkInv, NEW t \in Calls, Begin(t) PROVE SignedLinkInv'
<1> USE DEF SignedLinkInv, daemon, client, bounds
<1>1. PICK b \in ClientsOf[t] :
        Move(t, [NoCall(t) EXCEPT !.at = "exec", !.by = b,
                   !.phase = IF key[b] = "none" THEN "login1" ELSE "send1",
                   !.attempt = IF t \in Replies THEN call[t].attempt + 1 ELSE 0])
  BY DEF Begin
<1> DEFINE c == [NoCall(t) EXCEPT !.at = "exec", !.by = b,
                   !.phase = IF key[b] = "none" THEN "login1" ELSE "send1",
                   !.attempt = IF t \in Replies THEN call[t].attempt + 1 ELSE 0]
<1>2. call[t] \in Call /\ Coherent(t) /\ At(t) = "idle" /\ b \in Clients
  BY SignedLinkAssumption DEF TypeOK, Begin
<1>3. (IF t \in Replies THEN call[t].attempt + 1 ELSE 0) \in 0..MaxAttempts
  BY <1>2, SignedLinkAssumption DEF Call, Coherent, Calls
<1>4. /\ c \in Call /\ c.at = "exec" /\ ~c.again /\ c.phase \in {"login1", "send1"}
  BY <1>2, <1>3, NoCallType DEF Call, Phases, Logins
<1>5. call'[t] = c
  BY <1>1 DEF Move, TypeOK
<1>6. TypeOK'
  BY <1>1, <1>4 DEF TypeOK, Begin, Move
<1>7. Coherent(t)'
  BY <1>4, <1>5 DEF Coherent, At
<1>8. ~HasLoggedIn(t)' /\ At(t)' = "exec"
  BY <1>4, <1>5 DEF HasLoggedIn, At
<1> HIDE DEF c
<1> QED BY <1>1, <1>4, <1>6, <1>7, <1>8, OneMoves DEF Begin, c

LEMMA ExecStep ==
  ASSUME SignedLinkInv, NEW t \in Calls, Exec(t) PROVE SignedLinkInv'
<1> USE DEF SignedLinkInv, daemon, client, bounds
<1> DEFINE c == [call[t] EXCEPT !.at = "wire", !.signed = Signs(t), !.dated = clockOk[call[t].by]]
<1>1. call[t] \in Call /\ Coherent(t) /\ At(t) = "exec" /\ Move(t, c)
  BY DEF TypeOK, Exec
<1>2. Signs(t) \in Signature
  BY <1>1 DEF Signs, Signature, Call, TypeOK, KeyState
<1>3. c \in Call
  BY <1>1, <1>2 DEF Call, TypeOK
<1>4. /\ call'[t].at = "wire" /\ call'[t].signed = Signs(t)
      /\ call'[t].dated = clockOk[call[t].by]
      /\ call'[t].again = call[t].again /\ call'[t].phase = call[t].phase
  BY <1>1 DEF Move, TypeOK, Call
<1>5. TypeOK'
  BY <1>1, <1>3 DEF TypeOK, Exec, Move
<1>6. Coherent(t)'
  BY <1>1, <1>4 DEF Coherent, At
<1>7. ASSUME t \in Replies \ robbed', HasLoggedIn(t)' PROVE Fresh(t)'
  <2>1. call[t].phase = "send2" /\ call[t].phase \notin Logins
    BY <1>4, <1>7 DEF HasLoggedIn, At, Logins
  <2>2. Fresh(t)
    BY <1>1, <1>7, <2>1 DEF HasLoggedIn, Busy, At, Ends, Exec
  <2>3. Signs(t) = Current
    BY <1>1, <2>1, <2>2 DEF Fresh, Signs, Current
  <2> QED BY <1>4, <2>2, <2>3 DEF Fresh, At, Exec
<1> HIDE DEF c
<1> QED BY <1>1, <1>3, <1>4, <1>5, <1>6, <1>7, OneMoves DEF Exec, At

--------------------------------------------------------------------------------
(* An answer.                                                              *)

LEMMA VerdictFacts ==
  ASSUME NEW t \in Calls, call[t] \in Call, registered \in BOOLEAN
  PROVE  LET v == Verdict(call[t], t)
         IN  /\ v \in Verdicts
             /\ v = "skew" <=> ~call[t].dated
             /\ call[t].phase \in Logins /\ v = "ok" => registered
             /\ call[t].phase \in Logins /\ v = "401" => ~registered
             /\ call[t].phase \notin Logins /\ v = "401" => ~Accepts(call[t].signed)
             /\ t \in Replies /\ v = "409" => t \notin unanswered
<1> DEFINE v == Verdict(call[t], t)
<1>1. CASE ~call[t].dated
  <2>1. v = "skew"
    BY <1>1 DEF Verdict
  <2> QED BY <1>1, <2>1 DEF Verdicts
<1>2. CASE call[t].dated /\ call[t].phase \in Logins
  <2>1. v = LoginVerdict
    BY <1>2 DEF Verdict
  <2> QED BY <1>2, <2>1 DEF LoginVerdict, Verdicts
<1>3. CASE call[t].dated /\ call[t].phase \notin Logins
  <2>1. v = IF Accepts(call[t].signed) THEN ServeVerdict(t) ELSE "401"
    BY <1>3 DEF Verdict
  <2>2. ServeVerdict(t) \in {"ok", "409"} /\ (ServeVerdict(t) = "409" => t \notin unanswered)
    BY DEF ServeVerdict
  <2> QED BY <1>3, <2>1, <2>2 DEF Verdicts
<1>4. call[t].dated \in BOOLEAN
  BY DEF Call
<1> QED BY <1>1, <1>2, <1>3, <1>4

LEMMA WithVerdictFacts ==
  ASSUME NEW t \in Calls, call[t] \in Call
  PROVE  LET v == Verdict(call[t], t)
             c == WithVerdict(t)
         IN  /\ v \in Verdicts => c \in Call
             /\ c.at = v /\ c.phase = call[t].phase /\ c.again = call[t].again /\ c.by = call[t].by
             /\ v = "skew" => c.signed = call[t].signed
             /\ IsLogin(call[t], t) => c.new = "current"
<1> DEFINE v == Verdict(call[t], t)
           signed == IF v = "skew" THEN call[t].signed ELSE <<"none", "none">>
           new == IF IsLogin(call[t], t) THEN "current" ELSE "none"
<1>1. WithVerdict(t) =
        [call[t] EXCEPT !.at = v, !.dated = TRUE, !.signed = signed, !.new = new]
  BY DEF WithVerdict, Call
<1>2. signed \in Signature /\ new \in KeyState
  BY DEF Signature, KeyState, Call
<1> HIDE DEF v, signed, new
<1>3. /\ v \in Verdicts => WithVerdict(t) \in Call
      /\ WithVerdict(t).at = v /\ WithVerdict(t).phase = call[t].phase
      /\ WithVerdict(t).again = call[t].again /\ WithVerdict(t).by = call[t].by
      /\ WithVerdict(t).signed = signed /\ WithVerdict(t).new = new
  BY <1>1, <1>2 DEF Call
<1> QED BY <1>3 DEF v, signed, new

LEMMA HandleStep ==
  ASSUME SignedLinkInv, NEW t \in Calls, Handle(t) PROVE SignedLinkInv'
<1> USE DEF SignedLinkInv
<1> DEFINE v == Verdict(call[t], t)
           c == WithVerdict(t)
<1>1. TypeOK /\ call[t] \in Call /\ Coherent(t) /\ At(t) = "wire" /\ registered \in BOOLEAN
  BY DEF TypeOK, Handle
<1>2. /\ v \in Verdicts /\ (v = "skew" <=> ~call[t].dated)
      /\ call[t].phase \in Logins /\ v = "ok" => registered
      /\ call[t].phase \in Logins /\ v = "401" => ~registered
      /\ call[t].phase \notin Logins /\ v = "401" => ~Accepts(call[t].signed)
      /\ t \in Replies /\ v = "409" => t \notin unanswered
  BY <1>1, VerdictFacts
<1>3. /\ c \in Call /\ c.at = v /\ c.phase = call[t].phase /\ c.again = call[t].again
      /\ v = "skew" => c.signed = call[t].signed
      /\ IsLogin(call[t], t) => c.new = "current"
  BY <1>1, <1>2, WithVerdictFacts
<1>4. /\ UNCHANGED <<registered, faults, restarts>> /\ unanswered' \subseteq unanswered
      /\ call[t].phase \notin Logins /\ v = "ok" => t \notin unanswered'
  BY DEF Handle, Served, bounds
<1>5. call'[t] = c => Coherent(t)'
  BY <1>1, <1>2, <1>3, <1>4 DEF Coherent, At, Verdicts
<1>6. v # "done"
  BY <1>2 DEF Verdicts
<1>7. CASE IsLogin(call[t], t)
  <2>1. /\ EndSession(stray) /\ stray \in SUBSET Stray
        /\ call' = [OutdatedCalls EXCEPT ![t] = c]
        /\ robbed' = (robbed \cup LosesSession) \ {t}
    BY <1>1, <1>7 DEF Handle, TypeOK
  <2>2. /\ keyId' \in [Clients -> KeyState] /\ key' \in [Clients -> KeyState]
        /\ clockOk' = clockOk /\ stray' \in SUBSET Stray
    BY <1>1, <2>1, EndSessionType
  <2>3. /\ call' \in [Calls -> Call] /\ call'[t] = c
        /\ \A u \in Calls \ {t} : Place(call'[u]) = Place(call[u])
    <3> HIDE DEF c
    <3> QED BY <1>1, <1>3, <2>1, OutdatedCallsType
  <2>4. TypeOK'
    BY <1>1, <1>4, <2>1, <2>2, <2>3 DEF TypeOK, LosesSession
  <2>5. \A u \in Calls : Coherent(u)'
    BY <1>4, <1>5, <2>2, <2>3, CoherentStays
  <2>6. \A u \in Calls \ {t} : At(u)' = At(u) /\ call'[u].phase = call[u].phase
    BY <2>3 DEF Place, At
  <2>7. ReturnedIsSettled'
    BY <1>3, <1>4, <1>6, <2>3, <2>6 DEF ReturnedIsSettled, At, Calls
  <2>8. ASSUME NEW u \in Replies \ robbed', HasLoggedIn(u)' PROVE Fresh(u)'
    <3>1. CASE u = t
      <4>1. v = "ok" /\ registered' /\ c.new = "current"
        BY <1>2, <1>3, <1>4, <1>7 DEF IsLogin
      <4> QED BY <3>1, <4>1, <1>3, <2>3 DEF Fresh, At
    <3>2. CASE u # t
      <4>1. Busy(u)
        BY <2>6, <2>8, <3>2 DEF HasLoggedIn, Busy, Ends, Calls
      <4> QED BY <4>1, <2>1, <2>8, <3>2 DEF LosesSession
    <3> QED BY <3>1, <3>2
  <2> QED BY <2>4, <2>5, <2>7, <2>8
<1>8. CASE ~IsLogin(call[t], t)
  <2>1. Move(t, c) /\ UNCHANGED <<keyId, key, clockOk, stray, robbed>>
    BY <1>8 DEF Handle, Move, client
  <2>2. call'[t] = c
    BY <1>1, <2>1 DEF Move, TypeOK
  <2>3. TypeOK'
    <3> HIDE DEF c
    <3> QED BY <1>1, <1>3, <1>4, <2>1 DEF TypeOK, Move
  <2>4. ASSUME t \in Replies \ robbed', HasLoggedIn(t)' PROVE Fresh(t)'
    <3>1. c.at \in {"401", "skew"} /\ call[t].phase = "send2"
      BY <1>2, <1>3, <1>8, <2>2, <2>4 DEF HasLoggedIn, At, Verdicts, IsLogin
    <3>2. Fresh(t)
      BY <1>1, <2>1, <2>4, <3>1 DEF HasLoggedIn, Busy, Ends
    <3>3. registered /\ call[t].signed = Current
      BY <1>1, <3>2 DEF Fresh
    <3>4. v = "skew"
      BY <1>2, <1>3, <3>1, <3>3 DEF Accepts, Current, Logins
    <3> QED BY <1>3, <1>4, <2>2, <3>3, <3>4 DEF Fresh, At
  <2>5. At(t)' = v
    BY <1>3, <2>2 DEF At
  <2> HIDE DEF c, v
  <2> QED BY <1>3, <1>4, <1>5, <1>6, <2>1, <2>2, <2>3, <2>4, <2>5, OneMoves
<1> QED BY <1>7, <1>8

--------------------------------------------------------------------------------
(* A call ends, or goes on to its next request.                            *)

LEMMA EndStep ==
  ASSUME SignedLinkInv, NEW t \in Calls, NEW e \in {"idle"} \cup Ends, End(t, e),
         UNCHANGED <<daemon, client, robbed, restarts>>,
         stray' \in SUBSET Stray, faults' \in 0..MaxFaults,
         t \in Replies /\ e = "done" => t \notin unanswered,
         e = "notpaired" => ~registered,
         e = "idle" => call[t].attempt < MaxAttempts \/ t \in Pings
  PROVE  SignedLinkInv'
<1> USE DEF SignedLinkInv, daemon, client
<1> DEFINE at == IF t \in Pings /\ e # "notpaired" THEN "idle" ELSE e
           c == [NoCall(t) EXCEPT !.attempt = call[t].attempt, !.at = at]
<1>1. call[t].attempt \in 0..MaxAttempts /\ at \in {"idle"} \cup Ends
  BY DEF TypeOK, Call
<1>2. c \in Call /\ c.at = at /\ ~c.again /\ c.attempt = call[t].attempt
  <2> HIDE DEF at
  <2> QED BY <1>1, NoCallType DEF Call
<1>3. Move(t, c) /\ call'[t] = c
  BY DEF End, Move, TypeOK
<1>4. TypeOK'
  <2> HIDE DEF c
  <2> QED BY <1>2, <1>3 DEF TypeOK, Move
<1>5. Coherent(t)'
  BY <1>1, <1>2, <1>3 DEF Coherent, At, Ends
<1>6. ~HasLoggedIn(t)'
  BY <1>1, <1>2, <1>3 DEF HasLoggedIn, Busy, At, Ends
<1>7. t \in Replies /\ At(t)' = "done" => t \notin unanswered'
  BY <1>2, <1>3, SignedLinkAssumption DEF At
<1> HIDE DEF c
<1> QED BY <1>2, <1>3, <1>4, <1>5, <1>6, <1>7, OneMoves

LEMMA LoginRefusedStep ==
  ASSUME SignedLinkInv, NEW t \in Calls, LoginRefused(t) PROVE SignedLinkInv'
<1>1. TypeOK /\ Coherent(t) /\ call[t].again \in BOOLEAN
  BY DEF SignedLinkInv, TypeOK, Call
<1>2. ~registered
  BY <1>1 DEF LoginRefused, Refused, CorrectsClock, Coherent
<1> QED BY <1>1, <1>2, EndStep DEF LoginRefused, bounds, Ends, TypeOK

LEMMA EnterFacts ==
  ASSUME TypeOK, NEW t \in Calls, NEW p \in Phases, Enter(t, p)
  PROVE  \E c \in Call :
           /\ Move(t, c) /\ call' \in [Calls -> Call] /\ call'[t] = c
           /\ c.at = "exec" /\ c.phase = p /\ ~c.again /\ c.by = call[t].by
<1> DEFINE c == [call[t] EXCEPT !.at = "exec", !.phase = p, !.again = FALSE, !.new = "none"]
<1>1. call[t] \in Call /\ Move(t, c)
  BY DEF Enter, TypeOK
<1>2. c \in Call /\ c.at = "exec" /\ c.phase = p /\ ~c.again /\ c.by = call[t].by
  BY <1>1 DEF Call, KeyState
<1> HIDE DEF c
<1>3. call' \in [Calls -> Call] /\ call'[t] = c
  BY <1>1, <1>2 DEF Move, TypeOK
<1> QED BY <1>1, <1>2, <1>3

LEMMA AnsweredStep ==
  ASSUME SignedLinkInv, NEW t \in Calls, Answered(t) PROVE SignedLinkInv'
<1> USE DEF SignedLinkInv
<1>1. /\ TypeOK /\ Coherent(t) /\ call[t].phase \notin Logins
      /\ UNCHANGED <<daemon, client, stray, bounds, robbed>>
      /\ stray' \in SUBSET Stray /\ faults' \in 0..MaxFaults
  BY DEF Answered, TypeOK, bounds
<1>2. CASE Returns(t) /\ End(t, "done")
  <2>1. t \in Replies => t \notin unanswered
    BY <1>1, <1>2 DEF Returns, Coherent
  <2> QED BY <1>1, <1>2, <2>1, EndStep DEF Ends, bounds
<1>3. CASE Refused(t) /\ ~LogsInAgain(t) /\ End(t, "failed")
  BY <1>1, <1>3, EndStep DEF Ends, bounds
<1>4. CASE Refused(t) /\ LogsInAgain(t) /\ Enter(t, "login2")
  <2>1. PICK c \in Call :
           /\ Move(t, c) /\ call' \in [Calls -> Call] /\ call'[t] = c
           /\ c.at = "exec" /\ c.phase = "login2" /\ ~c.again /\ c.by = call[t].by
    BY <1>1, <1>4, EnterFacts DEF Phases, Logins
  <2>2. TypeOK'
    BY <1>1, <2>1 DEF TypeOK, daemon, client, bounds
  <2>3. Coherent(t)' /\ At(t)' = "exec"
    BY <2>1 DEF Coherent, At
  <2>4. ~HasLoggedIn(t)'
    BY <2>1 DEF HasLoggedIn, At
  <2> QED BY <1>1, <2>1, <2>2, <2>3, <2>4, OneMoves DEF daemon, client
<1> QED BY <1>2, <1>3, <1>4 DEF Answered

LEMMA NetworkFailsStep ==
  ASSUME SignedLinkInv, NEW t \in Calls, NetworkFails(t) PROVE SignedLinkInv'
<1> USE DEF SignedLinkInv
<1> DEFINE e == IF Retries(t) THEN "idle" ELSE "unreachable"
           r == [of |-> t, phase |-> call[t].phase, signed |-> call[t].signed,
                 dated |-> call[t].dated]
<1>1. TypeOK /\ call[t] \in Call /\ faults \in 0..MaxFaults
  BY DEF TypeOK
<1>2. faults' \in 0..MaxFaults
  BY <1>1, SignedLinkAssumption DEF NetworkFails
<1>3. r \in Stray
  BY <1>1 DEF Call, Stray
<1>4. stray' = stray \cup {r} \/ stray' = stray
  BY DEF NetworkFails
<1>5. stray' \in SUBSET Stray
  <2> HIDE DEF r
  <2> QED BY <1>1, <1>3, <1>4 DEF TypeOK
<1>6. End(t, e) /\ UNCHANGED <<daemon, client, restarts, robbed>>
  BY DEF NetworkFails
<1>7. e \in {"idle"} \cup Ends /\ e # "done" /\ e # "notpaired"
      /\ (e = "idle" => call[t].attempt < MaxAttempts)
  BY DEF Ends, Retries
<1> HIDE DEF e, r
<1> QED BY <1>2, <1>5, <1>6, <1>7, EndStep

LEMMA CorrectClockStep ==
  ASSUME SignedLinkInv, NEW t \in Calls, CorrectClock(t) PROVE SignedLinkInv'
<1> USE DEF SignedLinkInv, daemon, bounds
<1> DEFINE c == [call[t] EXCEPT !.at = "exec", !.again = TRUE]
<1>1. TypeOK /\ call[t] \in Call /\ At(t) = "skew" /\ Move(t, c)
  BY DEF TypeOK, CorrectClock, CorrectsClock
<1>2. /\ c \in Call /\ c.at = "exec" /\ c.again /\ c.by = call[t].by
      /\ c.phase = call[t].phase /\ c.signed = call[t].signed
  BY <1>1 DEF Call
<1>3. call' \in [Calls -> Call] /\ call'[t] = c
  <2> HIDE DEF c
  <2> QED BY <1>1, <1>2 DEF Move, TypeOK
<1>4. /\ clockOk' \in [Clients -> BOOLEAN] /\ clockOk'[call[t].by]
      /\ \A b \in Clients : clockOk[b] => clockOk'[b]
  BY <1>1 DEF CorrectClock, TypeOK, Call
<1>5. TypeOK'
  BY <1>1, <1>3, <1>4 DEF TypeOK, CorrectClock
<1>6. Coherent(t)' /\ At(t)' = "exec"
  BY <1>2, <1>3, <1>4 DEF Coherent, At
<1>7. ASSUME t \in Replies \ robbed', HasLoggedIn(t)' PROVE Fresh(t)'
  <2>1. call[t].phase = "send2"
    BY <1>2, <1>3, <1>7 DEF HasLoggedIn, At
  <2>2. Fresh(t)
    BY <1>1, <1>7, <2>1 DEF HasLoggedIn, Busy, Ends, CorrectClock
  <2> QED BY <1>1, <1>2, <1>3, <2>2 DEF Fresh, At, CorrectClock
<1> HIDE DEF c
<1> QED BY <1>1, <1>2, <1>4, <1>5, <1>6, <1>7, OneMoves DEF CorrectClock

LEMMA StoreIdStep ==
  ASSUME SignedLinkInv, NEW t \in Calls, StoreId(t) PROVE SignedLinkInv'
<1> USE DEF SignedLinkInv, daemon, bounds
<1> DEFINE c == [call[t] EXCEPT !.at = "storeKey"]
<1>1. /\ TypeOK /\ call[t] \in Call /\ At(t) = "ok" /\ call[t].phase \in Logins /\ Move(t, c)
      /\ keyId' = [keyId EXCEPT ![call[t].by] = call[t].new]
      /\ robbed' = robbed \cup {u \in Replies \ {t} : call[u].by = call[t].by /\ Busy(u)}
      /\ UNCHANGED <<daemon, key, clockOk, stray, bounds>>
  BY DEF TypeOK, StoreId, Overwrites
<1>2. /\ c \in Call /\ c.at = "storeKey" /\ c.by = call[t].by /\ c.new = call[t].new
      /\ c.phase = call[t].phase
  BY <1>1 DEF Call
<1>3. call' \in [Calls -> Call] /\ call'[t] = c
  <2> HIDE DEF c
  <2> QED BY <1>1, <1>2 DEF Move, TypeOK
<1>4. /\ keyId' \in [Clients -> KeyState] /\ keyId'[call[t].by] = call[t].new
      /\ \A b \in Clients \ {call[t].by} : keyId'[b] = keyId[b]
  BY <1>1 DEF TypeOK, Call
<1>5. TypeOK'
  BY <1>1, <1>3, <1>4 DEF TypeOK
<1>6. Coherent(t)' /\ At(t)' = "storeKey"
  BY <1>1, <1>2, <1>3 DEF Coherent, At
<1>7. ASSUME t \in Replies \ robbed', HasLoggedIn(t)' PROVE Fresh(t)'
  <2>1. Fresh(t)
    BY <1>1, <1>7 DEF HasLoggedIn
  <2> QED BY <1>1, <1>2, <1>3, <1>4, <2>1 DEF Fresh, At
<1>8. \A u \in Replies \ (robbed' \cup {t}) :
        Busy(u) => keyId'[call[u].by] = keyId[call[u].by] /\ key'[call[u].by] = key[call[u].by]
  BY <1>1, <1>4 DEF TypeOK, Call, Calls
<1> HIDE DEF c
<1> QED BY <1>1, <1>2, <1>5, <1>6, <1>7, <1>8, OneMoves

LEMMA StoreKeyStep ==
  ASSUME SignedLinkInv, NEW t \in Calls, StoreKey(t) PROVE SignedLinkInv'
<1> USE DEF SignedLinkInv, daemon, bounds
<1> DEFINE p == IF call[t].phase = "login1" THEN "send1" ELSE "send2"
<1>1. /\ TypeOK /\ call[t] \in Call /\ Coherent(t) /\ At(t) = "storeKey" /\ Enter(t, p)
      /\ key' = [key EXCEPT ![call[t].by] = call[t].new]
      /\ robbed' = robbed \cup {u \in Replies \ {t} : call[u].by = call[t].by /\ Busy(u)}
      /\ UNCHANGED <<daemon, keyId, clockOk, stray, bounds>>
  BY DEF TypeOK, StoreKey, Overwrites
<1>2. p \in {"send1", "send2"} /\ p \in Phases
  BY DEF Phases
<1>3. PICK c \in Call :
        /\ Move(t, c) /\ call' \in [Calls -> Call] /\ call'[t] = c
        /\ c.at = "exec" /\ c.phase = p /\ ~c.again /\ c.by = call[t].by
  <2> HIDE DEF p
  <2> QED BY <1>1, <1>2, EnterFacts
<1>4. /\ key' \in [Clients -> KeyState] /\ key'[call[t].by] = call[t].new
      /\ \A b \in Clients \ {call[t].by} : key'[b] = key[b]
  BY <1>1 DEF TypeOK, Call
<1>5. TypeOK'
  BY <1>1, <1>3, <1>4 DEF TypeOK
<1>6. Coherent(t)' /\ At(t)' = "exec"
  BY <1>3 DEF Coherent, At
<1>7. ASSUME t \in Replies \ robbed', HasLoggedIn(t)' PROVE Fresh(t)'
  <2>1. Fresh(t)
    BY <1>1, <1>7 DEF HasLoggedIn, Coherent
  <2> QED BY <1>1, <1>3, <1>4, <2>1 DEF Fresh, At
<1>8. \A u \in Replies \ (robbed' \cup {t}) :
        Busy(u) => keyId'[call[u].by] = keyId[call[u].by] /\ key'[call[u].by] = key[call[u].by]
  BY <1>1, <1>4 DEF TypeOK, Call, Calls
<1> HIDE DEF p
<1> QED BY <1>1, <1>3, <1>5, <1>6, <1>7, <1>8, OneMoves

--------------------------------------------------------------------------------
(* The theorems.                                                           *)

LEMMA StutterStep ==
  ASSUME SignedLinkInv, UNCHANGED vars PROVE SignedLinkInv'
<1> USE DEF SignedLinkInv, vars, daemon, client, bounds
<1>1. TypeOK'
  BY DEF TypeOK
<1>2. \A u \in Calls : Coherent(u)'
  BY CoherentStays DEF Place
<1>3. \A u \in Replies \ robbed' : HasLoggedIn(u)' => Fresh(u)'
  BY FreshStays
<1> QED BY <1>1, <1>2, <1>3 DEF ReturnedIsSettled, At

(* What is under way between the phone's clients and the daemon makes      *)
(* sense in every reachable state.                                         *)
THEOREM SignedLinkInvariance == Spec => []SignedLinkInv
<1>1. SignedLinkInv /\ [Next]_vars => SignedLinkInv'
  <2> SUFFICES ASSUME SignedLinkInv, [Next]_vars PROVE SignedLinkInv'
    OBVIOUS
  <2>1. CASE LoseSession
    BY <2>1, LoseSessionStep
  <2>2. ASSUME NEW r \in stray, HandleStray(r) PROVE SignedLinkInv'
    BY <2>2, HandleStrayStep
  <2>3. ASSUME NEW t \in Replies, Desk(t) PROVE SignedLinkInv'
    BY <2>3, DeskStep
  <2>4. ASSUME NEW t \in Calls, Step(t) PROVE SignedLinkInv'
    BY <2>4, BeginStep, ExecStep, HandleStep, CorrectClockStep, LoginRefusedStep,
       StoreIdStep, StoreKeyStep, AnsweredStep DEF Step
  <2>5. ASSUME NEW t \in Calls, NetworkFails(t) PROVE SignedLinkInv'
    BY <2>5, NetworkFailsStep
  <2>6. CASE UNCHANGED vars
    BY <2>6, StutterStep
  <2> QED BY <2>1, <2>2, <2>3, <2>4, <2>5, <2>6 DEF Next
<1> QED BY <1>1, InitSignedLinkInv, PTL DEF Spec

(* A phone is told to pair again only if the daemon does not know it.      *)
THEOREM NobodyPairsAgainInVain == Spec => []NotPairedIsTrue
<1>1. SignedLinkInv => NotPairedIsTrue
  BY DEF SignedLinkInv, Coherent, NotPairedIsTrue
<1> QED BY <1>1, SignedLinkInvariance, PTL

(* A step of a call that does not give up on a 401.                        *)
LEMMA OthersStayRobbed ==
  ASSUME TypeOK, RefusedOnlyIfRobbed, NEW t \in Calls,
         \A u \in Calls \ {t} : At(u)' = At(u),
         At(t)' # "failed", robbed \ {t} \subseteq robbed'
  PROVE  RefusedOnlyIfRobbed'
BY DEF RefusedOnlyIfRobbed, Calls

LEMMA EndsUnrefused ==
  ASSUME TypeOK, NEW t \in Calls, NEW e \in {"idle"} \cup Ends, End(t, e)
  PROVE  /\ At(t)' \in {"idle", e}
         /\ \A u \in Calls \ {t} : At(u)' = At(u)
<1> DEFINE at == IF t \in Pings /\ e # "notpaired" THEN "idle" ELSE e
           c == [NoCall(t) EXCEPT !.attempt = call[t].attempt, !.at = at]
<1>1. c.at = at /\ at \in {"idle", e}
  BY NoCallType DEF Call
<1> HIDE DEF at
<1>2. Move(t, c)
  BY DEF End, at
<1> HIDE DEF c
<1> QED BY <1>1, <1>2 DEF Move, TypeOK, At

LEMMA RobbedStep ==
  ASSUME SignedLinkInv, RefusedOnlyIfRobbed, NEW t \in Calls, Step(t) \/ NetworkFails(t)
  PROVE  RefusedOnlyIfRobbed'
<1>1. TypeOK /\ call[t] \in Call /\ Coherent(t) /\ registered \in BOOLEAN
  BY DEF SignedLinkInv, TypeOK
<1>2. ASSUME NEW c, Move(t, c), c.at # "failed", robbed \ {t} \subseteq robbed'
      PROVE  RefusedOnlyIfRobbed'
  BY <1>1, <1>2, OthersStayRobbed DEF Move, TypeOK, At
<1>3. ASSUME NEW e \in {"idle"} \cup Ends, End(t, e), e # "failed", robbed' = robbed
      PROVE  RefusedOnlyIfRobbed'
  <2>1. At(t)' # "failed" /\ \A u \in Calls \ {t} : At(u)' = At(u)
    BY <1>1, <1>3, EndsUnrefused
  <2> QED BY <1>1, <1>3, <2>1, OthersStayRobbed
<1>4. ASSUME NEW p \in Phases, Enter(t, p), robbed \subseteq robbed'
      PROVE  RefusedOnlyIfRobbed'
  <2>1. PICK c \in Call : Move(t, c) /\ c.at = "exec"
    BY <1>1, <1>4, EnterFacts
  <2> QED BY <1>2, <1>4, <2>1
<1>5. CASE Begin(t)
  <2>1. PICK b \in ClientsOf[t] :
          Move(t, [NoCall(t) EXCEPT !.at = "exec", !.by = b,
                     !.phase = IF key[b] = "none" THEN "login1" ELSE "send1",
                     !.attempt = IF t \in Replies THEN call[t].attempt + 1 ELSE 0])
    BY <1>5 DEF Begin
  <2> DEFINE c == [NoCall(t) EXCEPT !.at = "exec", !.by = b,
                     !.phase = IF key[b] = "none" THEN "login1" ELSE "send1",
                     !.attempt = IF t \in Replies THEN call[t].attempt + 1 ELSE 0]
  <2>2. c.at = "exec"
    BY NoCallType DEF Call
  <2> HIDE DEF c
  <2> QED BY <1>2, <1>5, <2>1, <2>2 DEF Begin, c
<1>6. CASE Exec(t)
  <2>1. Move(t, [call[t] EXCEPT !.at = "wire", !.signed = Signs(t), !.dated = clockOk[call[t].by]])
    BY <1>6 DEF Exec
  <2> QED BY <1>1, <1>2, <1>6, <2>1 DEF Exec, Call
<1>7. CASE Handle(t)
  <2>1. /\ Verdict(call[t], t) \in Verdicts /\ WithVerdict(t).at = Verdict(call[t], t)
    BY <1>1, VerdictFacts, WithVerdictFacts
  <2>2. \A u \in Calls : At(u) = OutdatedCalls[u].at
    BY <1>1, OutdatedCallsType DEF Place, At
  <2>3. \/ call' = [OutdatedCalls EXCEPT ![t] = WithVerdict(t)]
        \/ call' = [call EXCEPT ![t] = WithVerdict(t)]
    BY <1>7 DEF Handle
  <2>4. OutdatedCalls \in [Calls -> Call] /\ call \in [Calls -> Call]
    BY <1>1, OutdatedCallsType DEF TypeOK
  <2>5. At(t)' \in Verdicts /\ \A u \in Calls \ {t} : At(u)' = At(u)
    BY <2>1, <2>2, <2>3, <2>4 DEF At
  <2>6. At(t)' # "failed" /\ robbed \ {t} \subseteq robbed'
    BY <1>7, <2>5 DEF Handle, Verdicts
  <2> QED BY <1>1, <2>5, <2>6, OthersStayRobbed
<1>8. CASE CorrectClock(t)
  <2>1. Move(t, [call[t] EXCEPT !.at = "exec", !.again = TRUE])
    BY <1>8 DEF CorrectClock
  <2> QED BY <1>1, <1>2, <1>8, <2>1 DEF CorrectClock, Call
<1>9. CASE LoginRefused(t)
  BY <1>3, <1>9 DEF LoginRefused, Ends
<1>10. CASE StoreId(t)
  <2>1. Move(t, [call[t] EXCEPT !.at = "storeKey"])
    BY <1>10 DEF StoreId
  <2> QED BY <1>1, <1>2, <1>10, <2>1 DEF StoreId, Overwrites, Call
<1>11. CASE StoreKey(t)
  <2>1. (IF call[t].phase = "login1" THEN "send1" ELSE "send2") \in Phases
    BY DEF Phases
  <2> QED BY <1>4, <1>11, <2>1 DEF StoreKey, Overwrites
<1>12. CASE Answered(t)
  <2>1. CASE Returns(t) /\ End(t, "done")
    BY <1>3, <1>12, <2>1 DEF Answered, Ends
  <2>2. CASE Refused(t) /\ LogsInAgain(t) /\ Enter(t, "login2")
    BY <1>4, <1>12, <2>2 DEF Answered, Phases, Logins
  <2>3. CASE Refused(t) /\ ~LogsInAgain(t) /\ End(t, "failed")
    <3>1. call[t].phase = "send2" /\ At(t) = "401"
      BY <1>1, <1>12, <2>3 DEF Answered, LogsInAgain, Refused, CorrectsClock, Coherent,
         Call, Phases
    <3>2. t \in Replies => t \in robbed
      BY <3>1 DEF SignedLinkInv, HasLoggedIn, Busy, Ends, Fresh
    <3>3. \A u \in Calls \ {t} : At(u)' = At(u)
      BY <1>1, <2>3, EndsUnrefused DEF Ends
    <3>4. robbed' = robbed
      BY <1>12 DEF Answered
    <3> QED BY <3>2, <3>3, <3>4 DEF RefusedOnlyIfRobbed, Calls
  <2> QED BY <1>12, <2>1, <2>2, <2>3 DEF Answered
<1>13. CASE NetworkFails(t)
  BY <1>3, <1>13 DEF NetworkFails, Ends
<1> QED BY <1>5, <1>6, <1>7, <1>8, <1>9, <1>10, <1>11, <1>12, <1>13 DEF Step

(* A reply is given up on a 401 only if others took the session that it    *)
(* had just logged in for.                                                 *)
THEOREM GivenUpOnlyIfRobbed == Spec => []RefusedOnlyIfRobbed
<1>1. Init => RefusedOnlyIfRobbed
  <2>1. ASSUME Init, NEW t \in Replies PROVE At(t) = "idle"
    BY <2>1, NoCallType DEF Init, At, Calls
  <2> QED BY <2>1 DEF RefusedOnlyIfRobbed
<1>2. SignedLinkInv /\ RefusedOnlyIfRobbed /\ [Next]_vars => RefusedOnlyIfRobbed'
  <2> SUFFICES ASSUME SignedLinkInv, RefusedOnlyIfRobbed, [Next]_vars
               PROVE  RefusedOnlyIfRobbed'
    OBVIOUS
  <2>1. TypeOK
    BY DEF SignedLinkInv
  <2>2. ASSUME call' = OutdatedCalls, robbed \subseteq robbed' PROVE RefusedOnlyIfRobbed'
    BY <2>1, <2>2, OutdatedCallsType DEF Place, At, RefusedOnlyIfRobbed, Calls
  <2>3. ASSUME call' = call, robbed \subseteq robbed' PROVE RefusedOnlyIfRobbed'
    BY <2>3 DEF At, RefusedOnlyIfRobbed
  <2>4. CASE LoseSession
    BY <2>2, <2>4 DEF LoseSession
  <2>5. ASSUME NEW r \in stray, HandleStray(r) PROVE RefusedOnlyIfRobbed'
    BY <2>2, <2>3, <2>5 DEF HandleStray
  <2>6. ASSUME NEW t \in Replies, Desk(t) PROVE RefusedOnlyIfRobbed'
    BY <2>3, <2>6 DEF Desk
  <2>7. CASE UNCHANGED vars
    BY <2>3, <2>7 DEF vars
  <2> QED BY <2>4, <2>5, <2>6, <2>7, RobbedStep DEF Next
<1> QED BY <1>1, <1>2, SignedLinkInvariance, PTL DEF Spec

--------------------------------------------------------------------------------
(* The plugins' link.  What a poll hands over is the end of the queue.     *)
LEMMA DecisionsPastCursor ==
  ASSUME NEW q \in Seq(Decision), NEW c \in Nat,
         \A i, j \in 1..Len(q) : i < j => q[i].id < q[j].id
  PROVE  /\ DecisionsAfter(q, c) \in Seq(Decision)
         /\ \A k \in 1..Len(DecisionsAfter(q, c)) :
              \E i \in 1..Len(q) : DecisionsAfter(q, c)[k] = q[i]
<1> DEFINE ids == [i \in 1..Len(q) |-> q[i].id]
<1>1. Len(q) \in Nat /\ DOMAIN q = 1..Len(q) /\ \A i \in 1..Len(q) : q[i].id \in Nat
  <2>1. \A i \in 1..Len(q) : q[i] \in Decision
    BY ElementOfSeq
  <2> QED BY <2>1, LenProperties DEF Decision
<1>2. ids \in Seq(Nat) /\ Len(ids) = Len(q) /\ DOMAIN ids = 1..Len(q)
  <2>1. ids \in Seq(Nat)
    BY <1>1, SeqDef
  <2> QED BY <1>1, <2>1, LenProperties
<1>3. \A i, j \in 1..Len(ids) : i <= j => ids[i] <= ids[j]
  <2> SUFFICES ASSUME NEW i \in 1..Len(q), NEW j \in 1..Len(q), i <= j
               PROVE  q[i].id <= q[j].id
    BY <1>2
  <2>1. CASE i = j
    BY <1>1, <2>1
  <2>2. CASE i < j
    BY <1>1, <2>2
  <2> QED BY <1>1, <2>1, <2>2
<1>4. \A i \in 1..Len(q) : ids[i] = q[i].id
  OBVIOUS
<1> HIDE DEF ids
<1>5. PICK a \in 1..(Len(q) + 1) : {i \in DOMAIN q : q[i].id > c} = a..Len(q)
  <2>1. \E a \in 1..(Len(ids) + 1) : {i \in DOMAIN ids : ids[i] > c} = a..Len(ids)
    <3>1. c \in Int /\ ids \in Seq(Nat)
      BY <1>2
    <3> QED BY <1>3, <3>1, SortedSuffix
  <2>2. {i \in DOMAIN ids : ids[i] > c} = {i \in DOMAIN q : q[i].id > c}
    BY <1>1, <1>2, <1>4
  <2> QED BY <1>2, <2>1, <2>2
<1>6. DecisionsAfter(q, c) = Pick(q, a..Len(q))
  BY <1>5 DEF DecisionsAfter
<1>7. /\ Pick(q, a..Len(q)) \in Seq(Decision)
      /\ Len(Pick(q, a..Len(q))) = Len(q) + 1 - a
      /\ \A k \in 1..(Len(q) + 1 - a) : Pick(q, a..Len(q))[k] = q[a + k - 1]
  BY <1>5, PickSuffix
<1>8. \A k \in 1..(Len(q) + 1 - a) : a + k - 1 \in 1..Len(q)
  BY <1>1, <1>5
<1> QED BY <1>6, <1>7, <1>8

(* A daemon never runs out of ids: as long as it lives it gives each       *)
(* window one, and an unregistered window has none.                        *)
LEMMA IdsSuffice ==
  ASSUME PluginTypeOK, IdsAreOwned, NEW w \in Windows, upId[w] = 0
  PROVE  upSeq + 1 \in Upstream
<1> DEFINE n == Cardinality(Windows)
           given == [u \in 1..(upSeq + 1) |-> IF u \in 1..upSeq THEN owner[u] ELSE w]
<1>1. n \in Nat /\ upSeq \in 0..n /\ IsFiniteSet(Windows)
  BY PluginLinkAssumption, FS_CardinalityType DEF PluginTypeOK
<1>2. \A u \in 1..upSeq : u \in Upstream /\ u # 0 /\ owner[u] \in Windows /\ upId[owner[u]] = u
  BY <1>1 DEF PluginTypeOK, IdsAreOwned, Upstream
<1>3. CASE upSeq = n
  <2>1. given \in [1..(upSeq + 1) -> Windows]
    BY <1>2
  <2>2. \A x, y \in 1..(upSeq + 1) : given[x] = given[y] => x = y
    <3>1. \A u \in 1..(upSeq + 1) : u \in 1..upSeq \/ u = upSeq + 1
      BY <1>1
    <3>2. upSeq + 1 \notin 1..upSeq
      BY <1>1
    <3> QED BY <1>2, <3>1, <3>2
  <2>3. IsFiniteSet(1..(upSeq + 1)) /\ Cardinality(1..(upSeq + 1)) = upSeq + 1
    <3>1. 1 \in Int /\ upSeq + 1 \in Int /\ 1 <= upSeq + 1 + 1
      BY <1>1
    <3> DEFINE b == upSeq + 1
    <3>2. b \in Int /\ b + 1 - 1 = b /\ 1 <= b + 1
      BY <1>1
    <3> HIDE DEF b
    <3>3. IsFiniteSet(1..b) /\ Cardinality(1..b) = b + 1 - 1
      BY <3>2, SegmentLength
    <3> QED BY <3>2, <3>3 DEF b
  <2>4. Cardinality(Windows) < Cardinality(1..(upSeq + 1))
    BY <1>1, <1>3, <2>3
  <2> HIDE DEF given
  <2> QED BY <1>1, <2>1, <2>2, <2>3, <2>4, FS_PigeonHole
<1>4. CASE upSeq # n
  BY <1>1, <1>4 DEF Upstream
<1> QED BY <1>3, <1>4

(* queueDecisionLocked keeps the numbers rising, whatever it trims.        *)
LEMMA QueueDecisionStep ==
  ASSUME PluginLinkInv, NEW u \in Upstream, NEW kd \in {"perm", "prompt"},
         NEW r \in Requests \cup {NoRequest}, NEW w \in Windows,
         kd = "perm" => r \in Requests /\ origin[r] = w,
         QueueDecision(u, kd, r, w), UNCHANGED origin
  PROVE  /\ decSeq' \in Nat /\ nonces' \in Nat
         /\ queue' \in [Upstream -> Seq(Decision)] /\ decCursor' \in [Upstream -> Nat]
         /\ QueuesRise'
         /\ (\A v \in Upstream : \A i \in 1..Len(queue[v]) : Addressed(queue[v][i]))'
<1> DEFINE d == [id |-> decSeq + 1, nonce |-> nonces + 1, kind |-> kd,
                 request |-> r, window |-> w]
           long == Append(queue[u], d)
           new  == LastN(long, MaxDecisions)
<1>1. /\ decSeq \in Nat /\ nonces \in Nat /\ MaxDecisions \in Nat
      /\ queue \in [Upstream -> Seq(Decision)] /\ decCursor \in [Upstream -> Nat]
      /\ QueuesRise /\ DecisionsAreAddressed
  BY PluginLinkAssumption DEF PluginLinkInv, PluginTypeOK
<1>2. /\ decSeq' = decSeq + 1 /\ nonces' = nonces + 1
      /\ queue' = [queue EXCEPT ![u] = new]
      /\ decCursor' = [decCursor EXCEPT ![u] = decSeq + 1]
  BY DEF QueueDecision
<1>3. d \in Decision
  BY <1>1 DEF Decision
<1>4. /\ queue[u] \in Seq(Decision) /\ Len(queue[u]) \in Nat
      /\ \A i \in 1..Len(queue[u]) : queue[u][i] \in Decision /\ queue[u][i].id \in Nat
  <2>1. queue[u] \in Seq(Decision)
    BY <1>1
  <2>2. \A i \in 1..Len(queue[u]) : queue[u][i] \in Decision
    BY <2>1, ElementOfSeq
  <2> QED BY <2>1, <2>2, LenProperties DEF Decision
<1>5. /\ long \in Seq(Decision) /\ Len(long) = Len(queue[u]) + 1
      /\ \A i \in 1..Len(queue[u]) : long[i] = queue[u][i]
      /\ long[Len(queue[u]) + 1] = d
  BY <1>3, <1>4, AppendProperties
<1>6. d.id = decSeq + 1 /\ Addressed(d) /\ Addressed(d)'
  BY DEF Addressed
<1> HIDE DEF d
<1>7. \A i \in 1..Len(long) :
        /\ long[i].id \in Nat /\ long[i].id <= decSeq + 1 /\ Addressed(long[i])
        /\ \A j \in 1..Len(long) : i < j => long[i].id < long[j].id
  <2> SUFFICES ASSUME NEW i \in 1..Len(long)
               PROVE  /\ long[i].id \in Nat /\ long[i].id <= decSeq + 1 /\ Addressed(long[i])
                      /\ \A j \in 1..Len(long) : i < j => long[i].id < long[j].id
    OBVIOUS
  <2>1. \A j \in 1..Len(long) : j \in 1..Len(queue[u]) \/ j = Len(queue[u]) + 1
    BY <1>4, <1>5
  <2>2. \A j \in 1..Len(queue[u]) : long[j].id <= decSeq /\ long[j].id \in Nat
    BY <1>1, <1>4, <1>5 DEF QueuesRise
  <2>3. \A j, k \in 1..Len(queue[u]) : j < k => long[j].id < long[k].id
    BY <1>1, <1>4, <1>5 DEF QueuesRise
  <2>4. \A j \in 1..Len(queue[u]) : Addressed(long[j])
    BY <1>1, <1>4, <1>5 DEF DecisionsAreAddressed
  <2> HIDE DEF long
  <2>5. long[i].id \in Nat /\ long[i].id <= decSeq + 1 /\ Addressed(long[i])
    BY <1>1, <1>5, <1>6, <2>1, <2>2, <2>4
  <2>6. ASSUME NEW j \in 1..Len(long), i < j PROVE long[i].id < long[j].id
    <3>1. i \in 1..Len(queue[u])
      BY <1>4, <1>5, <2>6
    <3> QED BY <1>1, <1>5, <1>6, <2>1, <2>2, <2>3, <2>6, <3>1
  <2> QED BY <2>5, <2>6
<1> HIDE DEF long
<1>8. /\ new \in Seq(Decision) /\ Len(new) \in Nat /\ Len(new) <= Len(long)
      /\ \A i \in 1..Len(new) : new[i] = long[Len(long) - Len(new) + i]
  <2>1. /\ new \in Seq(Decision)
        /\ Len(new) = IF Len(long) > MaxDecisions THEN MaxDecisions ELSE Len(long)
        /\ \A i \in 1..Len(new) : new[i] = long[Len(long) - Len(new) + i]
    BY <1>1, <1>5, LastNProperties
  <2> HIDE DEF new
  <2>2. Len(long) \in Nat
    BY <1>4, <1>5
  <2>3. Len(new) \in Nat /\ Len(new) <= Len(long)
    BY <1>1, <2>1, <2>2
  <2> QED BY <2>1, <2>3
<1> HIDE DEF new
<1>9. /\ \A i \in 1..Len(new) : new[i].id <= decSeq + 1 /\ Addressed(new[i])
      /\ \A i, j \in 1..Len(new) : i < j => new[i].id < new[j].id
  <2>1. Len(long) \in Nat /\ \A i \in 1..Len(new) : Len(long) - Len(new) + i \in 1..Len(long)
    BY <1>4, <1>5, <1>8
  <2>2. \A i, j \in 1..Len(new) : i < j => Len(long) - Len(new) + i < Len(long) - Len(new) + j
    BY <1>8, <2>1
  <2> QED BY <1>7, <1>8, <2>1, <2>2
<1>10. \A v \in Upstream : queue'[v] = IF v = u THEN new ELSE queue[v]
  BY <1>1, <1>2
<1>11. QueuesRise'
  <2> SUFFICES ASSUME NEW v \in Upstream
               PROVE  /\ \A i \in 1..Len(queue'[v]) : queue'[v][i].id <= decSeq + 1
                      /\ \A i, j \in 1..Len(queue'[v]) : i < j => queue'[v][i].id < queue'[v][j].id
    BY <1>2 DEF QueuesRise
  <2>1. CASE v = u
    BY <1>9, <1>10, <2>1
  <2>2. CASE v # u
    <3>1. /\ \A i \in 1..Len(queue[v]) : queue[v][i].id <= decSeq /\ queue[v][i].id \in Nat
          /\ \A i, j \in 1..Len(queue[v]) : i < j => queue[v][i].id < queue[v][j].id
      <4>1. \A i \in 1..Len(queue[v]) : queue[v][i] \in Decision
        BY <1>1, ElementOfSeq
      <4> QED BY <1>1, <4>1 DEF QueuesRise, Decision
    <3>2. \A i \in 1..Len(queue[v]) : queue[v][i].id <= decSeq + 1
      BY <1>1, <3>1
    <3> QED BY <1>10, <2>2, <3>1, <3>2
  <2> QED BY <2>1, <2>2
<1>12. \A v \in Upstream : \A i \in 1..Len(queue'[v]) : Addressed(queue'[v][i])
  BY <1>1, <1>9, <1>10 DEF DecisionsAreAddressed
<1>13. (\A v \in Upstream : \A i \in 1..Len(queue[v]) : Addressed(queue[v][i]))'
  BY <1>12 DEF Addressed
<1> QED BY <1>1, <1>2, <1>8, <1>11, <1>13

(* What a queue or a batch holds are decisions, what an uplink holds are   *)
(* reports.                                                                *)
LEMMA LinkElements ==
  ASSUME PluginTypeOK
  PROVE  /\ \A u \in Upstream : \A i \in 1..Len(queue[u]) : queue[u][i] \in Decision
         /\ \A w \in Windows :
              /\ Len(batch[w]) \in Nat /\ Len(uplink[w]) \in Nat
              /\ \A i \in 1..Len(batch[w]) : batch[w][i] \in Decision
              /\ \A i \in 1..Len(uplink[w]) : uplink[w][i] \in Report
<1>1. /\ \A u \in Upstream : queue[u] \in Seq(Decision)
      /\ \A w \in Windows : batch[w] \in Seq(Decision) /\ uplink[w] \in Seq(Report)
  BY DEF PluginTypeOK
<1> QED BY <1>1, ElementOfSeq, LenProperties

(* Nothing is registered, asked or queued yet.                             *)
LEMMA InitPluginLinkInv == PluginInit => PluginLinkInv
<1> SUFFICES ASSUME PluginInit PROVE PluginLinkInv
  OBVIOUS
<1>1. Cardinality(Windows) \in Nat /\ MaxCrashes \in Nat
  BY PluginLinkAssumption, FS_CardinalityType
<1>2. <<>> \in Seq(Decision) /\ <<>> \in Seq(Report) /\ Len(<<>>) = 0
  BY EmptySeq
<1>3. PluginTypeOK
  <2>1. running \in BOOLEAN /\ calling \in [Windows -> BOOLEAN]
    BY DEF PluginInit
  <2> QED BY <1>1, <1>2, <2>1 DEF PluginInit, PluginTypeOK
<1> QED BY <1>1, <1>2, <1>3
        DEF PluginInit, PluginLinkInv, ApprovalsStayHome, IdsAreOwned, ReportsAreOwn,
            DecisionsAreAddressed, QueuesRise

(* Whether the daemon runs is nothing to the rest.                         *)
linkVars == <<crashes, daemonVars, loopVars, hookVars, seen, kiloVars, nonces, calls>>
LEMMA LinkIsKept ==
  ASSUME PluginLinkInv, running' \in BOOLEAN, UNCHANGED linkVars
  PROVE  PluginLinkInv'
<1> USE DEF linkVars, daemonVars, loopVars, hookVars, kiloVars
<1>1. PluginTypeOK'
  BY DEF PluginLinkInv, PluginTypeOK
<1>2. ApprovalsStayHome' /\ IdsAreOwned'
  BY DEF PluginLinkInv, ApprovalsStayHome, IdsAreOwned
<1>3. ReportsAreOwn' /\ QueuesRise'
  BY DEF PluginLinkInv, ReportsAreOwn, QueuesRise
<1>4. DecisionsAreAddressed'
  BY DEF PluginLinkInv, DecisionsAreAddressed, Addressed
<1>5. (\A w \in Windows : calling[w] => batch[w] # <<>>)'
  BY DEF PluginLinkInv
<1> QED BY <1>1, <1>2, <1>3, <1>4, <1>5 DEF PluginLinkInv

(* A crash empties the daemon; what the plugins keep stays addressed.      *)
LEMMA DaemonLifeStep ==
  ASSUME PluginLinkInv, Start \/ Crash
  PROVE  PluginLinkInv'
<1>1. CASE Start
  <2>1. running' \in BOOLEAN
    BY <1>1 DEF Start
  <2> QED BY <1>1, <2>1, LinkIsKept DEF Start, linkVars
<1>2. CASE Crash
  <2>1. /\ <<>> \in Seq(Decision) /\ Len(<<>>) = 0
        /\ Cardinality(Windows) \in Nat /\ MaxCrashes \in Nat
    BY EmptySeq, PluginLinkAssumption, FS_CardinalityType
  <2>2. PluginTypeOK'
    <3>1. running' \in BOOLEAN
      BY <1>2 DEF Crash
    <3> QED BY <1>2, <2>1, <3>1
            DEF Crash, FreshDaemon, loopVars, hookVars, kiloVars, PluginLinkInv, PluginTypeOK
  <2>3. IdsAreOwned' /\ QueuesRise'
    BY <1>2, <2>1 DEF Crash, FreshDaemon, IdsAreOwned, QueuesRise
  <2>4. ReportsAreOwn' /\ DecisionsAreAddressed'
    BY <1>2, <2>1 DEF Crash, FreshDaemon, loopVars, hookVars, kiloVars, PluginLinkInv,
                      ReportsAreOwn, DecisionsAreAddressed, Addressed
  <2> QED BY <1>2, <2>2, <2>3, <2>4
          DEF Crash, loopVars, PluginLinkInv, ApprovalsStayHome
<1> QED BY <1>1, <1>2

(* The phone's answers and prompts queue a decision for the one who asked. *)
LEMMA PhoneStep ==
  ASSUME PluginLinkInv,
         (\E p \in open : Reply(p)) \/ (\E w \in Windows : Prompt(w))
  PROVE  PluginLinkInv'
<1>1. ASSUME NEW p \in open, Reply(p) PROVE PluginLinkInv'
  <2>1. /\ p.request \in Requests /\ p.upstream \in Upstream
        /\ origin[p.request] \in Windows
    BY DEF PluginLinkInv, PluginTypeOK, ReportsAreOwn
  <2>2. QueueDecision(p.upstream, "perm", p.request, origin[p.request]) /\ UNCHANGED origin
    BY <1>1 DEF Reply, kiloVars
  <2>3. /\ decSeq' \in Nat /\ nonces' \in Nat
        /\ queue' \in [Upstream -> Seq(Decision)] /\ decCursor' \in [Upstream -> Nat]
        /\ QueuesRise'
        /\ (\A v \in Upstream : \A i \in 1..Len(queue[v]) : Addressed(queue[v][i]))'
    BY <2>1, <2>2, QueueDecisionStep
  <2>4. PluginTypeOK'
    BY <1>1, <2>1, <2>3 DEF Reply, loopVars, hookVars, kiloVars, PluginLinkInv, PluginTypeOK
  <2>5. DecisionsAreAddressed'
    BY <1>1, <2>3 DEF Reply, loopVars, kiloVars, PluginLinkInv, DecisionsAreAddressed, Addressed
  <2>6. IdsAreOwned' /\ ReportsAreOwn' /\ ApprovalsStayHome'
        /\ (\A w \in Windows : calling[w] => batch[w] # <<>>)'
    BY <1>1 DEF Reply, loopVars, hookVars, kiloVars, PluginLinkInv, IdsAreOwned, ReportsAreOwn,
                ApprovalsStayHome
  <2> QED BY <2>3, <2>4, <2>5, <2>6 DEF PluginLinkInv
<1>2. ASSUME NEW w \in Windows, Prompt(w) PROVE PluginLinkInv'
  <2>1. sessUp[w] \in Upstream
    BY <1>2 DEF Prompt, PluginLinkInv, PluginTypeOK
  <2>2. QueueDecision(sessUp[w], "prompt", NoRequest, w) /\ UNCHANGED origin
    BY <1>2 DEF Prompt, kiloVars
  <2>3. /\ decSeq' \in Nat /\ nonces' \in Nat
        /\ queue' \in [Upstream -> Seq(Decision)] /\ decCursor' \in [Upstream -> Nat]
        /\ QueuesRise'
        /\ (\A v \in Upstream : \A i \in 1..Len(queue[v]) : Addressed(queue[v][i]))'
    BY <2>1, <2>2, QueueDecisionStep
  <2>4. PluginTypeOK'
    BY <1>2, <2>3 DEF Prompt, loopVars, hookVars, kiloVars, PluginLinkInv, PluginTypeOK
  <2>5. DecisionsAreAddressed'
    BY <1>2, <2>3 DEF Prompt, loopVars, kiloVars, PluginLinkInv, DecisionsAreAddressed, Addressed
  <2>6. IdsAreOwned' /\ ReportsAreOwn' /\ ApprovalsStayHome'
        /\ (\A v \in Windows : calling[v] => batch[v] # <<>>)'
    BY <1>2 DEF Prompt, loopVars, hookVars, kiloVars, PluginLinkInv, IdsAreOwned, ReportsAreOwn,
                ApprovalsStayHome
  <2> QED BY <2>3, <2>4, <2>5, <2>6 DEF PluginLinkInv
<1> QED BY <1>1, <1>2

(* The hook reports what its own Kilo asked or settled.                    *)
LEMMA ReportedStep ==
  ASSUME PluginLinkInv, NEW w \in Windows, NEW r \in Requests,
         NEW kd \in {"permission", "replied"}, Reported(w, kd, r)
  PROVE  /\ uplink' \in [Windows -> Seq(Report)]
         /\ \A v \in Windows : \A i \in 1..Len(uplink'[v]) :
              \/ i \in 1..Len(uplink[v]) /\ uplink'[v][i] = uplink[v][i]
              \/ v = w /\ uplink'[v][i].request = r
<1> DEFINE e == [kind |-> kd, request |-> r]
<1>1. uplink \in [Windows -> Seq(Report)] /\ e \in Report /\ e.request = r
  BY DEF PluginLinkInv, PluginTypeOK, Report
<1>2. uplink' = [uplink EXCEPT ![w] = Append(@, e)]
  BY DEF Reported
<1> HIDE DEF e
<1>3. /\ Append(uplink[w], e) \in Seq(Report) /\ Len(uplink[w]) \in Nat
      /\ Len(Append(uplink[w], e)) = Len(uplink[w]) + 1
      /\ \A i \in 1..Len(uplink[w]) : Append(uplink[w], e)[i] = uplink[w][i]
      /\ Append(uplink[w], e)[Len(uplink[w]) + 1] = e
  BY <1>1, AppendProperties, LenProperties
<1>4. \A v \in Windows : uplink'[v] = IF v = w THEN Append(uplink[w], e) ELSE uplink[v]
  BY <1>1, <1>2
<1>5. \A i \in 1..(Len(uplink[w]) + 1) : i \in 1..Len(uplink[w]) \/ i = Len(uplink[w]) + 1
  BY <1>3
<1> QED BY <1>1, <1>2, <1>3, <1>4, <1>5

(* A request is settled by the window that asked it.                       *)
LEMMA SettleStep ==
  ASSUME PluginLinkInv, NEW w \in Windows, NEW r \in Requests, origin[r] = w,
         Settle(w, r), UNCHANGED <<open, origin>>
  PROVE  /\ pending' \in [Windows -> SUBSET Requests] /\ uplink' \in [Windows -> Seq(Report)]
         /\ answered' \subseteq Requests
         /\ ReportsAreOwn'
<1>1. /\ pending \in [Windows -> SUBSET Requests] /\ uplink \in [Windows -> Seq(Report)]
      /\ answered \subseteq Requests /\ ReportsAreOwn
  BY DEF PluginLinkInv, PluginTypeOK
<1>2. answered' \subseteq Requests
  BY <1>1 DEF Settle
<1>3. CASE Hooked(w) /\ pending' = [pending EXCEPT ![w] = @ \ {r}] /\ Reported(w, "replied", r)
  <2>1. /\ uplink' \in [Windows -> Seq(Report)]
        /\ \A v \in Windows : \A i \in 1..Len(uplink'[v]) :
             \/ i \in 1..Len(uplink[v]) /\ uplink'[v][i] = uplink[v][i]
             \/ v = w /\ uplink'[v][i].request = r
    BY <1>3, ReportedStep
  <2>2. /\ pending' \in [Windows -> SUBSET Requests]
        /\ \A v \in Windows : pending'[v] \subseteq pending[v]
    BY <1>1, <1>3
  <2>3. \A v \in Windows : \A x \in pending'[v] : origin'[x] = v
    BY <1>1, <2>2 DEF ReportsAreOwn
  <2>4. ASSUME NEW v \in Windows, NEW i \in 1..Len(uplink'[v])
        PROVE  origin'[uplink'[v][i].request] = v
    <3>1. CASE i \in 1..Len(uplink[v]) /\ uplink'[v][i] = uplink[v][i]
      BY <1>1, <3>1 DEF ReportsAreOwn
    <3>2. CASE v = w /\ uplink'[v][i].request = r
      BY <3>2
    <3> QED BY <2>1, <3>1, <3>2
  <2>5. ReportsAreOwn'
    BY <1>1, <2>3, <2>4 DEF ReportsAreOwn
  <2> QED BY <1>2, <2>1, <2>2, <2>5
<1>4. CASE UNCHANGED hookVars
  BY <1>1, <1>2, <1>4 DEF hookVars, ReportsAreOwn
<1> QED BY <1>3, <1>4 DEF Settle

(* Kilo's bus.  A request that is new has no decision and no report yet.   *)
LEMMA BusStep ==
  ASSUME PluginLinkInv, NEW w \in Windows, NEW r \in Requests, Ask(w, r) \/ AnswerAtDesk(w, r)
  PROVE  PluginLinkInv'
<1>0. NoWindow \notin Windows
  BY PluginLinkAssumption
<1>1. CASE Ask(w, r)
  <2>1. /\ origin \in [Requests -> Windows \cup {NoWindow}]
        /\ origin[r] = NoWindow /\ origin' = [origin EXCEPT ![r] = w]
        /\ pending \in [Windows -> SUBSET Requests] /\ uplink \in [Windows -> Seq(Report)]
        /\ open \subseteq [request : Requests, upstream : Upstream]
        /\ PluginTypeOK /\ ReportsAreOwn /\ DecisionsAreAddressed
    BY <1>1 DEF Ask, PluginLinkInv, PluginTypeOK
  <2>2. \A x \in Requests : origin[x] # NoWindow => origin'[x] = origin[x]
    BY <2>1
  <2>3. /\ pending' \in [Windows -> SUBSET Requests] /\ uplink' \in [Windows -> Seq(Report)]
        /\ \A v \in Windows : pending'[v] \subseteq pending[v] \cup (IF v = w THEN {r} ELSE {})
        /\ \A v \in Windows : \A i \in 1..Len(uplink'[v]) :
             \/ i \in 1..Len(uplink[v]) /\ uplink'[v][i] = uplink[v][i]
             \/ v = w /\ uplink'[v][i].request = r
    <3>1. CASE /\ Hooked(w) /\ pending' = [pending EXCEPT ![w] = @ \cup {r}]
               /\ Reported(w, "permission", r)
      <4>1. /\ uplink' \in [Windows -> Seq(Report)]
            /\ \A v \in Windows : \A i \in 1..Len(uplink'[v]) :
                 \/ i \in 1..Len(uplink[v]) /\ uplink'[v][i] = uplink[v][i]
                 \/ v = w /\ uplink'[v][i].request = r
        BY <3>1, ReportedStep
      <4> QED BY <2>1, <3>1, <4>1
    <3>2. CASE UNCHANGED hookVars
      BY <2>1, <3>2 DEF hookVars
    <3> QED BY <1>1, <3>1, <3>2 DEF Ask
  <2>4. ReportsAreOwn'
    <3>1. open' = open
      BY <1>1 DEF Ask, daemonVars
    <3>2. \A v \in Windows : \A i \in 1..Len(uplink[v]) : uplink[v][i].request \in Requests
      BY <2>1, LinkElements DEF Report
    <3>3. \A v \in Windows : \A x \in pending'[v] : origin'[x] = v
      BY <1>0, <2>1, <2>2, <2>3 DEF ReportsAreOwn
    <3>4. ASSUME NEW v \in Windows, NEW i \in 1..Len(uplink'[v])
          PROVE  origin'[uplink'[v][i].request] = v
      <4>1. CASE i \in 1..Len(uplink[v]) /\ uplink'[v][i] = uplink[v][i]
        BY <1>0, <2>1, <2>2, <3>2, <4>1 DEF ReportsAreOwn
      <4>2. CASE v = w /\ uplink'[v][i].request = r
        BY <2>1, <4>2
      <4> QED BY <2>3, <4>1, <4>2
    <3>5. \A p \in open' : origin'[p.request] # NoWindow
      BY <2>1, <2>2, <3>1 DEF ReportsAreOwn
    <3> QED BY <3>3, <3>4, <3>5 DEF ReportsAreOwn
  <2>5. DecisionsAreAddressed'
    <3>1. queue' = queue /\ batch' = batch
      BY <1>1 DEF Ask, daemonVars, loopVars
    <3>2. ASSUME NEW d \in Decision, Addressed(d), d.kind = "perm"
          PROVE  d.request \in Requests /\ origin'[d.request] = d.window
      BY <1>0, <2>2, <3>2 DEF Addressed, Decision
    <3> QED BY <2>1, <3>1, <3>2, LinkElements DEF DecisionsAreAddressed, Addressed
  <2>6. PluginTypeOK'
    <3>1. origin' \in [Requests -> Windows \cup {NoWindow}]
      BY <2>1
    <3> QED BY <1>1, <2>1, <2>3, <3>1 DEF Ask, daemonVars, loopVars, PluginTypeOK
  <2> QED BY <1>1, <2>4, <2>5, <2>6
          DEF Ask, daemonVars, loopVars, PluginLinkInv, ApprovalsStayHome, IdsAreOwned, QueuesRise
<1>2. CASE AnswerAtDesk(w, r)
  <2>1. origin[r] = w /\ Settle(w, r) /\ UNCHANGED <<open, origin>>
    BY <1>2 DEF AnswerAtDesk, daemonVars
  <2>2. /\ pending' \in [Windows -> SUBSET Requests] /\ uplink' \in [Windows -> Seq(Report)]
        /\ answered' \subseteq Requests /\ ReportsAreOwn'
    BY <2>1, SettleStep
  <2>3. PluginTypeOK'
    BY <1>2, <2>2 DEF AnswerAtDesk, daemonVars, loopVars, PluginLinkInv, PluginTypeOK
  <2> QED BY <1>2, <2>2, <2>3
          DEF AnswerAtDesk, daemonVars, loopVars, PluginLinkInv, ApprovalsStayHome, IdsAreOwned,
              DecisionsAreAddressed, Addressed, QueuesRise
<1> QED BY <1>1, <1>2

(* The uplink's POST opens only prompts that somebody asked.               *)
LEMMA FlushStep ==
  ASSUME PluginLinkInv, NEW w \in Windows, Flush(w)
  PROVE  PluginLinkInv'
<1> DEFINE reports == {uplink[w][i] : i \in DOMAIN uplink[w]}
           asked   == {e.request : e \in {x \in reports : x.kind = "permission"}}
           replied == {e.request : e \in {x \in reports : x.kind = "replied"}}
<1>1. /\ PluginTypeOK /\ ReportsAreOwn /\ NoWindow \notin Windows
      /\ uplink \in [Windows -> Seq(Report)]
  BY PluginLinkAssumption DEF PluginLinkInv, PluginTypeOK
<1>2. \A r \in asked : r \in Requests /\ origin[r] = w
  <2>1. DOMAIN uplink[w] = 1..Len(uplink[w])
    BY <1>1, LenProperties
  <2>2. \A e \in reports : e.request \in Requests /\ origin[e.request] = w
    BY <1>1, <2>1, LinkElements DEF ReportsAreOwn, Report
  <2> HIDE DEF reports
  <2> QED BY <2>2
<1>3. uplink' = [uplink EXCEPT ![w] = <<>>]
  BY DEF Flush
<1>4. /\ open' \subseteq [request : Requests, upstream : Upstream]
      /\ \A p \in open' : origin[p.request] # NoWindow
      /\ sessUp' \in [Windows -> Upstream \cup {0}]
  <2>1. CASE Known(w) /\ sessUp' = [sessUp EXCEPT ![w] = upId[w]]
             /\ open' = {p \in open : p.request \notin replied} \cup
                          [request : asked \ replied, upstream : {upId[w]}]
    <3>1. upId[w] \in Upstream
      BY <2>1 DEF Known
    <3> HIDE DEF asked, replied
    <3> QED BY <1>1, <1>2, <2>1, <3>1 DEF PluginTypeOK, ReportsAreOwn
  <2>2. CASE UNCHANGED <<open, sessUp>>
    BY <1>1, <2>2 DEF PluginTypeOK, ReportsAreOwn
  <2> QED BY <2>1, <2>2 DEF Flush
<1> HIDE DEF reports, asked, replied
<1>5. uplink' \in [Windows -> Seq(Report)] /\ Len(<<>>) = 0
  BY <1>1, <1>3, EmptySeq
<1>6. /\ UNCHANGED <<running, crashes, upSeq, owner, decSeq, queue, decCursor, accepted>>
      /\ UNCHANGED <<upId, cursor, batch, next, calling, pending, seen, origin, answered>>
      /\ UNCHANGED <<nonces, calls>>
  BY DEF Flush, loopVars, kiloVars
<1>7. PluginTypeOK'
  BY <1>1, <1>4, <1>5, <1>6 DEF PluginTypeOK
<1>8. ReportsAreOwn'
  BY <1>1, <1>3, <1>4, <1>5, <1>6 DEF ReportsAreOwn
<1> QED BY <1>6, <1>7, <1>8
        DEF PluginLinkInv, ApprovalsStayHome, IdsAreOwned, DecisionsAreAddressed, Addressed,
            QueuesRise

(* A window that registers has no id of this daemon's yet, and gets one.   *)
LEMMA HelloStep ==
  ASSUME PluginLinkInv, NEW w \in Windows, Hello(w)
  PROVE  PluginLinkInv'
<1>1. /\ PluginTypeOK /\ IdsAreOwned /\ upId[w] = 0 /\ upSeq + 1 \in Upstream
      /\ NoWindow \notin Windows
  BY PluginLinkAssumption, IdsSuffice DEF Hello, PluginLinkInv
<1>2. /\ upSeq' = upSeq + 1 /\ owner' = [owner EXCEPT ![upSeq + 1] = w]
      /\ upId' = [upId EXCEPT ![w] = upSeq + 1] /\ cursor' = [cursor EXCEPT ![w] = 0]
      /\ UNCHANGED <<running, crashes, open, sessUp, decSeq, queue, decCursor, accepted, batch,
                     next, calling, pending, uplink, seen, origin, answered, nonces, calls>>
  BY DEF Hello, hookVars, kiloVars
<1>3. upSeq \in Nat /\ upSeq + 1 \in 0..Cardinality(Windows)
  <2>1. Cardinality(Windows) \in Nat /\ upSeq \in 0..Cardinality(Windows)
    BY <1>1, PluginLinkAssumption, FS_CardinalityType DEF PluginTypeOK
  <2> QED BY <1>1, <2>1 DEF Upstream
<1>4. PluginTypeOK'
  BY <1>1, <1>2, <1>3 DEF PluginTypeOK
<1>5. IdsAreOwned'
  <2> SUFFICES ASSUME NEW u \in Upstream
               PROVE  \/ u \in 1..(upSeq + 1) /\ owner'[u] # NoWindow /\ upId'[owner'[u]] = u
                      \/ u \notin 1..(upSeq + 1) /\ owner'[u] = NoWindow
    BY <1>2 DEF IdsAreOwned
  <2>1. /\ owner \in [Upstream -> Windows \cup {NoWindow}]
        /\ upId \in [Windows -> Upstream \cup {0}] /\ u # 0 /\ u \in Nat
    <3>1. Upstream \subseteq Nat /\ 0 \notin Upstream
      BY <1>1, PluginLinkAssumption, FS_CardinalityType DEF Upstream
    <3> QED BY <1>1, <3>1 DEF PluginTypeOK
  <2>2. CASE u = upSeq + 1
    BY <1>1, <1>2, <1>3, <2>1, <2>2
  <2>3. CASE u # upSeq + 1
    <3>1. owner'[u] = owner[u] /\ (u \in 1..(upSeq + 1) <=> u \in 1..upSeq)
      BY <1>2, <1>3, <2>1, <2>3
    <3>2. CASE u \in 1..upSeq /\ owner[u] # NoWindow /\ upId[owner[u]] = u
      <4>1. owner[u] \in Windows /\ owner[u] # w
        BY <1>1, <2>1, <3>2
      <4> QED BY <1>2, <2>1, <3>1, <3>2, <4>1
    <3>3. CASE u \notin 1..upSeq /\ owner[u] = NoWindow
      BY <3>1, <3>3
    <3> QED BY <1>1, <3>2, <3>3 DEF IdsAreOwned
  <2> QED BY <2>2, <2>3
<1> QED BY <1>2, <1>4, <1>5
        DEF PluginLinkInv, ApprovalsStayHome, ReportsAreOwn, DecisionsAreAddressed, Addressed,
            QueuesRise

(* A poll brings decisions as addressed as they were queued, or takes back *)
(* an id that is nobody's.                                                 *)
LEMMA PollStep ==
  ASSUME PluginLinkInv, NEW w \in Windows, Poll(w)
  PROVE  PluginLinkInv'
<1> DEFINE u == upId[w]
           new == DecisionsAfter(queue[u], cursor[w])
<1>1. /\ PluginTypeOK /\ IdsAreOwned /\ DecisionsAreAddressed /\ QueuesRise
      /\ u \in Upstream /\ cursor[w] \in Nat /\ queue[u] \in Seq(Decision)
      /\ decCursor[u] \in Nat /\ NoWindow \notin Windows /\ calling \in [Windows -> BOOLEAN]
  BY PluginLinkAssumption DEF Poll, PluginLinkInv, PluginTypeOK
<1>2. /\ new \in Seq(Decision)
      /\ \A k \in 1..Len(new) : \E i \in 1..Len(queue[u]) : new[k] = queue[u][i]
  BY <1>1, DecisionsPastCursor DEF QueuesRise
<1>3. \A k \in 1..Len(new) : Addressed(new[k])
  <2> HIDE DEF new
  <2> QED BY <1>1, <1>2 DEF DecisionsAreAddressed
<1>4. /\ UNCHANGED <<running, crashes, upSeq, owner, open, sessUp, decSeq, queue, decCursor,
                     accepted, calling, pending, uplink, seen, origin, answered, nonces, calls>>
      /\ AtTop(w)
  BY DEF Poll, daemonVars, hookVars, kiloVars
<1>5. CASE /\ owner[u] = NoWindow /\ upId' = [upId EXCEPT ![w] = 0]
           /\ UNCHANGED <<cursor, batch, next>>
  <2>1. PluginTypeOK'
    BY <1>1, <1>4, <1>5 DEF PluginTypeOK
  <2>2. IdsAreOwned'
    <3>1. \A v \in Upstream : owner[v] # NoWindow => owner[v] \in Windows /\ owner[v] # w
      BY <1>1, <1>5 DEF IdsAreOwned, PluginTypeOK
    <3> QED BY <1>1, <1>4, <1>5, <3>1 DEF IdsAreOwned, PluginTypeOK
  <2> QED BY <1>4, <1>5, <2>1, <2>2
          DEF PluginLinkInv, ApprovalsStayHome, ReportsAreOwn, DecisionsAreAddressed, Addressed,
              QueuesRise
<1>6. CASE Advance(w, decCursor[u]) /\ UNCHANGED <<upId, batch, next>>
  <2>1. cursor' \in [Windows -> Nat]
    BY <1>1, <1>6 DEF Advance, PluginTypeOK
  <2>2. PluginTypeOK'
    BY <1>1, <1>4, <1>6, <2>1 DEF PluginTypeOK
  <2> QED BY <1>4, <1>6, <2>2
          DEF PluginLinkInv, ApprovalsStayHome, IdsAreOwned, ReportsAreOwn, DecisionsAreAddressed,
              Addressed, QueuesRise
<1>7. CASE /\ new # <<>> /\ batch' = [batch EXCEPT ![w] = new]
           /\ next' = [next EXCEPT ![w] = decCursor[u]] /\ UNCHANGED <<upId, cursor>>
  <2> HIDE DEF new, u
  <2>1. /\ batch' \in [Windows -> Seq(Decision)] /\ next' \in [Windows -> Nat]
        /\ \A v \in Windows : batch'[v] = IF v = w THEN new ELSE batch[v]
    BY <1>1, <1>2, <1>7 DEF PluginTypeOK
  <2>2. PluginTypeOK'
    BY <1>1, <1>4, <1>7, <2>1 DEF PluginTypeOK
  <2>3. DecisionsAreAddressed'
    <3>1. \A v \in Windows : \A i \in 1..Len(batch'[v]) : Addressed(batch'[v][i])
      BY <1>1, <1>3, <2>1 DEF DecisionsAreAddressed
    <3> QED BY <1>1, <1>4, <3>1 DEF DecisionsAreAddressed, Addressed
  <2>4. (\A v \in Windows : calling[v] => batch[v] # <<>>)'
    BY <1>4, <1>7, <2>1 DEF PluginLinkInv
  <2> QED BY <1>4, <1>7, <2>2, <2>3, <2>4
          DEF PluginLinkInv, ApprovalsStayHome, IdsAreOwned, ReportsAreOwn, QueuesRise
<1> QED BY <1>5, <1>6, <1>7 DEF Poll

(* What is left of a batch is as addressed as the batch was.               *)
LEMMA DoneStep ==
  ASSUME PluginLinkInv, NEW w \in Windows, batch[w] # <<>>, Done(w),
         UNCHANGED <<queue, origin, next>>
  PROVE  /\ batch' \in [Windows -> Seq(Decision)] /\ cursor' \in [Windows -> Nat]
         /\ \A v \in Windows : v # w => batch'[v] = batch[v]
         /\ DecisionsAreAddressed'
<1>1. /\ batch \in [Windows -> Seq(Decision)] /\ cursor \in [Windows -> Nat]
      /\ next \in [Windows -> Nat] /\ DecisionsAreAddressed
  BY DEF PluginLinkInv, PluginTypeOK
<1>2. batch' = [batch EXCEPT ![w] = Tail(@)]
  BY DEF Done
<1>3. /\ Tail(batch[w]) \in Seq(Decision) /\ Len(batch[w]) \in Nat
      /\ Len(Tail(batch[w])) = Len(batch[w]) - 1
      /\ \A i \in 1..Len(Tail(batch[w])) : Tail(batch[w])[i] = batch[w][i + 1]
  BY <1>1, HeadTailProperties, LenProperties
<1>4. cursor' \in [Windows -> Nat]
  BY <1>1 DEF Done, Advance
<1>5. /\ batch' \in [Windows -> Seq(Decision)]
      /\ \A v \in Windows : batch'[v] = IF v = w THEN Tail(batch[w]) ELSE batch[v]
  BY <1>1, <1>2, <1>3
<1>6. \A i \in 1..Len(Tail(batch[w])) : Addressed(Tail(batch[w])[i])
  <2>1. \A i \in 1..Len(Tail(batch[w])) : i + 1 \in 1..Len(batch[w])
    BY <1>3
  <2> QED BY <1>1, <1>3, <2>1 DEF DecisionsAreAddressed
<1>7. \A v \in Windows : \A i \in 1..Len(batch'[v]) : Addressed(batch'[v][i])
  BY <1>1, <1>5, <1>6 DEF DecisionsAreAddressed
<1>8. DecisionsAreAddressed'
  BY <1>1, <1>7 DEF DecisionsAreAddressed, Addressed
<1> QED BY <1>4, <1>5, <1>8

(* A decision is refused, or applied to a request that is pending here and *)
(* therefore this window's own.                                            *)
LEMMA ApplyStep ==
  ASSUME PluginLinkInv, NEW w \in Windows,
         Refuse(w) \/ Apply(w) \/ KiloAccepts(w) \/ KiloDoesNot(w)
  PROVE  PluginLinkInv'
<1>0. PluginTypeOK /\ calling \in [Windows -> BOOLEAN]
  BY DEF PluginLinkInv, PluginTypeOK
<1>1. CASE Refuse(w)
  <2>1. batch[w] # <<>> /\ Done(w) /\ UNCHANGED <<queue, origin, next>>
    BY <1>1 DEF Refuse, AtTop, daemonVars, kiloVars
  <2>2. /\ batch' \in [Windows -> Seq(Decision)] /\ cursor' \in [Windows -> Nat]
        /\ \A v \in Windows : v # w => batch'[v] = batch[v]
        /\ DecisionsAreAddressed'
    BY <2>1, DoneStep
  <2>3. PluginTypeOK'
    BY <1>0, <1>1, <2>2 DEF Refuse, daemonVars, hookVars, kiloVars, PluginTypeOK
  <2>4. (\A v \in Windows : calling[v] => batch[v] # <<>>)'
    BY <1>1, <2>2 DEF Refuse, PluginLinkInv
  <2> QED BY <1>1, <2>2, <2>3, <2>4
          DEF Refuse, daemonVars, hookVars, kiloVars, PluginLinkInv, ApprovalsStayHome,
              IdsAreOwned, ReportsAreOwn, QueuesRise
<1>2. CASE Apply(w)
  <2> DEFINE d == Head(batch[w])
             c == [by |-> w, for |-> d.window, kind |-> d.kind]
  <2>1. batch[w] # <<>> /\ batch[w] \in Seq(Decision)
    BY <1>0, <1>2 DEF Apply, AtTop, PluginTypeOK
  <2>2. d \in Decision /\ Addressed(d)
    <3>1. d \in Decision /\ d = batch[w][1] /\ 1 \in 1..Len(batch[w])
      BY <2>1, HeadTailProperties, LenProperties, EmptySeq
    <3> QED BY <3>1 DEF PluginLinkInv, DecisionsAreAddressed
  <2>3. /\ d.nonce \in Nat /\ d.window \in Windows /\ d.kind \in {"perm", "prompt"}
        /\ d.kind = "perm" => d.window = w
    <3>1. d.kind = "perm" => d.request \in pending[w]
      BY <1>2 DEF Apply, Applies
    <3> QED BY <2>2, <3>1 DEF Decision, Addressed, PluginLinkInv, ReportsAreOwn
  <2>4. /\ seen' = [seen EXCEPT ![w] = @ \cup {d.nonce}]
        /\ pending' = [pending EXCEPT ![w] = @ \ {d.request}]
        /\ calls' = calls \cup {c} /\ calling' = [calling EXCEPT ![w] = TRUE]
        /\ UNCHANGED <<running, crashes, daemonVars, upId, cursor, batch, next, uplink,
                       origin, answered, nonces>>
    BY <1>2 DEF Apply, kiloVars
  <2> HIDE DEF d
  <2>5. /\ seen' \in [Windows -> SUBSET Nat] /\ pending' \in [Windows -> SUBSET Requests]
        /\ \A v \in Windows : pending'[v] \subseteq pending[v]
        /\ calls' \subseteq [by : Windows, for : Windows, kind : {"perm", "prompt"}]
    <3>1. c \in [by : Windows, for : Windows, kind : {"perm", "prompt"}]
      BY <2>3
    <3> HIDE DEF c
    <3> QED BY <1>0, <2>3, <2>4, <3>1 DEF PluginTypeOK
  <2>6. calling' \in [Windows -> BOOLEAN] /\ \A v \in Windows : v # w => calling'[v] = calling[v]
    BY <1>0, <2>4
  <2>7. PluginTypeOK'
    BY <1>0, <2>4, <2>5, <2>6 DEF daemonVars, PluginTypeOK
  <2>8. ApprovalsStayHome'
    BY <2>3, <2>4 DEF PluginLinkInv, ApprovalsStayHome
  <2>9. ReportsAreOwn'
    BY <2>4, <2>5 DEF daemonVars, PluginLinkInv, ReportsAreOwn
  <2>10. (\A v \in Windows : calling[v] => batch[v] # <<>>)'
    BY <2>1, <2>4, <2>6 DEF PluginLinkInv
  <2> QED BY <2>4, <2>7, <2>8, <2>9, <2>10
          DEF daemonVars, PluginLinkInv, IdsAreOwned, DecisionsAreAddressed, Addressed, QueuesRise
<1>3. CASE KiloAccepts(w) \/ KiloDoesNot(w)
  <2>1. /\ batch[w] # <<>> /\ Done(w) /\ UNCHANGED <<queue, origin, next, open>>
        /\ calling' = [calling EXCEPT ![w] = FALSE]
    BY <1>3 DEF KiloAccepts, KiloDoesNot, daemonVars, kiloVars, PluginLinkInv
  <2>2. /\ batch' \in [Windows -> Seq(Decision)] /\ cursor' \in [Windows -> Nat]
        /\ \A v \in Windows : v # w => batch'[v] = batch[v]
        /\ DecisionsAreAddressed'
    BY <2>1, DoneStep
  <2>3. /\ pending' \in [Windows -> SUBSET Requests] /\ uplink' \in [Windows -> Seq(Report)]
        /\ answered' \subseteq Requests
        /\ ReportsAreOwn'
    <3>1. CASE KiloAccepts(w)
      <4>1. Head(batch[w]).request \in Requests
        <5>1. batch[w] \in Seq(Decision)
          BY <1>0 DEF PluginTypeOK
        <5>2. Head(batch[w]) = batch[w][1] /\ 1 \in 1..Len(batch[w])
          BY <2>1, <5>1, HeadTailProperties, LenProperties, EmptySeq
        <5> QED BY <3>1, <5>2 DEF KiloAccepts, PluginLinkInv, DecisionsAreAddressed, Addressed
      <4>2. Settle(w, Head(batch[w]).request) /\ origin[Head(batch[w]).request] = w
        BY <3>1 DEF KiloAccepts
      <4> QED BY <2>1, <4>1, <4>2, SettleStep
    <3>2. CASE KiloDoesNot(w)
      BY <1>0, <3>2 DEF KiloDoesNot, daemonVars, hookVars, kiloVars, PluginTypeOK, PluginLinkInv,
                        ReportsAreOwn
    <3> QED BY <1>3, <3>1, <3>2
  <2>4. UNCHANGED <<running, crashes, upSeq, owner, open, sessUp, decSeq, queue, decCursor,
                    accepted, upId, next, seen, origin, nonces, calls>>
    BY <1>3 DEF KiloAccepts, KiloDoesNot, daemonVars, kiloVars
  <2>5. calling' \in [Windows -> BOOLEAN] /\ ~calling'[w]
        /\ \A v \in Windows : v # w => calling'[v] = calling[v]
    BY <1>0, <2>1
  <2>6. PluginTypeOK'
    BY <1>0, <2>2, <2>3, <2>4, <2>5 DEF PluginTypeOK
  <2>7. (\A v \in Windows : calling[v] => batch[v] # <<>>)'
    BY <2>2, <2>5 DEF PluginLinkInv
  <2> QED BY <2>2, <2>3, <2>4, <2>6, <2>7
          DEF PluginLinkInv, ApprovalsStayHome, IdsAreOwned, QueuesRise
<1> QED BY <1>1, <1>2, <1>3

(* Kilo is only called about a permission by the window that asked for it, *)
(* although a restarted daemon hands the same ids out to other windows and *)
(* plugins keep what they were given (apply's pending check).              *)
THEOREM ApprovalsAreKeptHome == PluginSpec => []PluginLinkInv
<1>1. PluginLinkInv /\ [PluginNext]_pluginVars => PluginLinkInv'
  <2> SUFFICES ASSUME PluginLinkInv, [PluginNext]_pluginVars PROVE PluginLinkInv'
    OBVIOUS
  <2>1. CASE UNCHANGED pluginVars
    <3>1. running' \in BOOLEAN
      BY <2>1 DEF pluginVars, PluginLinkInv, PluginTypeOK
    <3> QED BY <2>1, <3>1, LinkIsKept DEF pluginVars, linkVars
  <2>2. CASE PluginNext
    BY <2>2, DaemonLifeStep, PhoneStep, BusStep, FlushStep, HelloStep, PollStep, ApplyStep
       DEF PluginNext, Downlink
  <2> QED BY <2>1, <2>2
<1> QED BY <1>1, InitPluginLinkInv, PTL DEF PluginSpec

===============================================================================
