------------------------------- MODULE HubProofs -------------------------------
(***************************************************************************)
(* The hub's prompt book-keeping, proved for every set of windows,         *)
(* sessions and requests and for every capacity.  HubInv (in Hub) is the   *)
(* inductive invariant; its first conjunct is the type invariant, which    *)
(* leans on RegisteredHaveWindows.                                         *)
(***************************************************************************)
EXTENDS Hub, SequenceLemmas

--------------------------------------------------------------------------------
(* What the helpers return.                                                *)

(* A session state with another conversation is a session state.           *)
LEMMA SessionWithConv ==
  ASSUME NEW state \in Session, NEW n \in Nat, NEW conv \in Seq(Entry)
  PROVE  /\ [state EXCEPT !.convSeq = n, !.conv = conv] \in Session
         /\ [state EXCEPT !.convSeq = n, !.conv = conv].prompt = state.prompt
BY DEF Session

(* appendConv returns a session state.                                     *)
LEMMA AppendConvType ==
  ASSUME NEW state \in Session, NEW id \in ConvID, NEW type \in {"perm", "gone", "msg"}
  PROVE  /\ AppendConv(state, id, type) \in Session
         /\ AppendConv(state, id, type).prompt = state.prompt
<1> DEFINE entry == [id |-> id, seq |-> state.convSeq + 1, type |-> type]
<1>1. entry \in Entry /\ ConvSize \in Nat
  BY HubAssumption DEF Entry, Session
<1>2. PutConv(state.conv, entry, ConvSize) \in Seq(Entry)
  BY <1>1, PutConvType DEF Session
<1> HIDE DEF entry
<1>3. state.convSeq + 1 \in Nat
  BY DEF Session
<1>4. /\ [state EXCEPT !.convSeq = state.convSeq + 1,
                       !.conv = PutConv(state.conv, entry, ConvSize)] \in Session
      /\ [state EXCEPT !.convSeq = state.convSeq + 1,
                       !.conv = PutConv(state.conv, entry, ConvSize)].prompt = state.prompt
  BY <1>2, <1>3, SessionWithConv
<1> QED BY <1>4 DEF AppendConv, entry

(* clearSessionPromptLocked returns a session state.                       *)
LEMMA ClearedType ==
  ASSUME NEW state \in Session, NEW env \in Nat
  PROVE  Cleared(state, env) \in Session
<1> DEFINE entry == [id |-> EvtID(env), seq |-> state.convSeq + 1, type |-> "gone"]
           i == FirstEntry(state.conv, EvtID(env))
           conv == [state.conv EXCEPT ![i] = entry]
           unbadged == IF state.prompt = env THEN [state EXCEPT !.prompt = NoEnv] ELSE state
<1>1. entry \in Entry
  BY DEF Entry, EvtID, ConvID, Session
<1>2. unbadged \in Session /\ unbadged.conv = state.conv
  BY DEF Session, NoEnv
<1>3. conv \in Seq(Entry)
  <2>1. state.conv \in Seq(Entry)
    BY DEF Session
  <2>2. CASE i \in 1..Len(state.conv)
    BY <1>1, <2>1, <2>2, ExceptSeq
  <2>3. CASE i \notin 1..Len(state.conv)
    BY <2>1, <2>3, LenProperties, conv = state.conv
  <2> QED BY <2>2, <2>3
<1>4. [unbadged EXCEPT !.convSeq = state.convSeq + 1, !.conv = conv] \in Session
  <2>1. state.convSeq + 1 \in Nat
    BY DEF Session
  <2> QED BY <1>2, <1>3, <2>1, SessionWithConv
<1>5. Cleared(state, env)
        = IF HasEntry(state.conv, EvtID(env))
          THEN [unbadged EXCEPT !.convSeq = state.convSeq + 1, !.conv = conv]
          ELSE unbadged
  BY <1>2 DEF Cleared, Session
<1> QED BY <1>2, <1>4, <1>5

(* getOrCreateSessionLocked returns a session state.                       *)
LEMMA GetOrCreateType ==
  ASSUME TypeOK, NEW u \in Upstream, NEW s \in SessionIDs
  PROVE  GetOrCreate(u, s) \in Session
BY EmptySeq DEF TypeOK, GetOrCreate, Session, NoSess, NoEnv, Statuses, Times

(* Storing a session state keeps the registry well typed.                  *)
LEMMA StoreType ==
  ASSUME TypeOK, NEW s \in SessionIDs, NEW state \in Session, Store(s, state)
  PROVE  known' \in SUBSET SessionIDs /\ sess' \in [SessionIDs -> Session]
<1>1. NoSess \in Session
  BY EmptySeq, HubAssumption DEF NoSess, Session, NoEnv, Statuses, Times
<1> QED BY <1>1 DEF Store, TypeOK

(* The last-activity clock stays within the model's times.                 *)
LEMMA TouchType ==
  ASSUME NEW a \in Times, NEW b \in Times
  PROVE  Touch(a, b) \in Times
BY DEF Touch

(* Retracting a prompt keeps the registry well typed.                      *)
LEMMA ClearPromptType ==
  ASSUME TypeOK, NEW s \in SessionIDs, NEW env \in Nat, ClearPrompt(s, env)
  PROVE  known' \in SUBSET SessionIDs /\ sess' \in [SessionIDs -> Session]
BY ClearedType DEF ClearPrompt, TypeOK

(* Badging a session keeps the registry well typed.                        *)
LEMMA TrackPromptType ==
  ASSUME TypeOK, NEW u \in Upstream, NEW s \in SessionIDs, NEW env \in Nat,
         TrackPrompt(u, s, env)
  PROVE  known' \in SUBSET SessionIDs /\ sess' \in [SessionIDs -> Session]
<1> DEFINE base == GetOrCreate(u, s)
           badged == [base EXCEPT !.prompt = env, !.updated = Touch(base.updated, clock)]
<1>1. base \in Session
  BY GetOrCreateType
<1>2. Touch(base.updated, clock) \in Times
  BY <1>1, TouchType DEF Session, TypeOK
<1>3. badged \in Session
  BY <1>1, <1>2 DEF Session
<1>4. EvtID(env) \in ConvID
  BY DEF EvtID, ConvID
<1>5. AppendConv(badged, EvtID(env), "perm") \in Session
  BY <1>3, <1>4, AppendConvType
<1> QED BY <1>5, StoreType DEF TrackPrompt

(* Publishing appends an envelope that carries the next number, moves the  *)
(* others at most one place, and keeps the ring contiguous.                *)
LEMMA PublishProperties ==
  ASSUME TypeOK, RingIsContiguous, NEW type \in {"perm", "idle", "err", "gone"},
         NEW s \in SessionIDs, NEW id \in Nat, Publish(type, s, id)
  PROVE  /\ seq' = seq + 1 /\ seq' \in Nat /\ ring' \in Seq(Envelope)
         /\ RingIsContiguous'
         /\ Len(ring') \in 1..RingSize
         /\ ring'[Len(ring')] = [seq |-> seq + 1, id |-> id, type |-> type, session |-> s]
         /\ \A i \in 2..Len(ring) : \E j \in 1..Len(ring') : ring'[j] = ring[i]
         /\ Len(ring) < RingSize => \A i \in 1..Len(ring) : ring'[i] = ring[i]
<1> DEFINE env == [seq |-> seq + 1, id |-> id, type |-> type, session |-> s]
<1>1. /\ ring \in Seq(Envelope) /\ env \in Envelope /\ seq \in Nat
      /\ RingSize \in Nat \ {0} /\ Len(ring) \in Nat
  BY HubAssumption DEF TypeOK, Envelope
<1>2. Len(ring) <= RingSize
  BY <1>1 DEF RingIsContiguous
<1>3. ring' = RingAppend(ring, env, RingSize) /\ seq' = seq + 1
  BY DEF Publish
<1>4. /\ ring' \in Seq(Envelope)
      /\ Len(ring') = IF Len(ring) = RingSize THEN RingSize ELSE Len(ring) + 1
      /\ ring'[Len(ring')] = env
      /\ \A i \in 1..(Len(ring') - 1) : ring'[i] = ring[Len(ring) - Len(ring') + 1 + i]
  BY <1>1, <1>2, <1>3, RingAppendProperties
<1> HIDE DEF env
<1>10. Len(ring') \in Nat \ {0} /\ (Len(ring') = Len(ring) \/ Len(ring') = Len(ring) + 1)
  BY <1>1, <1>4
<1>5. Len(ring') = IF seq' < RingSize THEN seq' ELSE RingSize
  BY <1>1, <1>3, <1>4 DEF RingIsContiguous
<1>6. ASSUME NEW i \in 1..Len(ring') PROVE ring'[i].seq = seq' - Len(ring') + i
  <2>1. CASE i = Len(ring')
    <3>1. ring'[i] = env /\ env.seq = seq + 1
      BY <1>4, <2>1 DEF env
    <3>2. seq' - Len(ring') + i = seq + 1
      BY <1>1, <1>3, <1>10, <2>1
    <3> QED BY <3>1, <3>2
  <2>2. CASE i # Len(ring')
    <3>1. i \in 1..(Len(ring') - 1) /\ Len(ring) - Len(ring') + 1 + i \in 1..Len(ring)
      BY <1>1, <1>10, <2>2
    <3>2. ring'[i].seq = seq - Len(ring) + (Len(ring) - Len(ring') + 1 + i)
      BY <1>4, <3>1 DEF RingIsContiguous
    <3> QED BY <1>1, <1>3, <1>10, <3>2
  <2> QED BY <2>1, <2>2
<1>7. ASSUME NEW i \in 2..Len(ring) PROVE \E j \in 1..Len(ring') : ring'[j] = ring[i]
  <2> DEFINE j == i + Len(ring') - Len(ring) - 1
  <2>1. j \in 1..(Len(ring') - 1) /\ Len(ring) - Len(ring') + 1 + j = i
    BY <1>1, <1>10
  <2> HIDE DEF j
  <2>2. ring'[j] = ring[Len(ring) - Len(ring') + 1 + j]
    BY <1>4, <2>1
  <2>3. ring'[j] = ring[i]
    BY <2>1, <2>2
  <2>4. j \in 1..Len(ring')
    BY <1>1, <1>4, <2>1
  <2> QED BY <2>3, <2>4
<1>8. ASSUME Len(ring) < RingSize, NEW i \in 1..Len(ring) PROVE ring'[i] = ring[i]
  <2>1. i \in 1..(Len(ring') - 1) /\ Len(ring) - Len(ring') + 1 + i = i
    BY <1>1, <1>4, <1>8
  <2>2. ring'[i] = ring[Len(ring) - Len(ring') + 1 + i]
    BY <1>4, <2>1
  <2> QED BY <2>1, <2>2
<1>9. Len(ring') \in 1..RingSize
  BY <1>1, <1>2, <1>4, <1>10
<1>11. RingIsContiguous'
  BY <1>5, <1>6 DEF RingIsContiguous
<1>12. seq' = seq + 1 /\ seq' \in Nat /\ ring' \in Seq(Envelope) /\ ring'[Len(ring')] = env
  BY <1>1, <1>3, <1>4
<1> QED BY <1>7, <1>8, <1>9, <1>11, <1>12 DEF env

(* Queueing a decision keeps every upstream's window, and adds nothing to  *)
(* a queue but that decision, which goes to the named upstream.            *)
LEMMA QueueDecisionProperties ==
  ASSUME TypeOK, NEW u \in Upstream, NEW kind \in {"perm", "prompt"},
         NEW r \in Requests \cup {NoRequest}, NEW s \in SessionIDs,
         QueueDecision(u, kind, r, s)
  PROVE  LET d == [id |-> decSeq + 1, kind |-> kind, request |-> r, session |-> s]
         IN  /\ ups' \in [Upstream -> UpState] /\ decSeq' \in Nat
             /\ \A v \in Upstream : ups'[v].window = ups[v].window
             /\ \A v \in Upstream : \A i \in 1..Len(ups'[v].decisions) :
                  \/ \E j \in 1..Len(ups[v].decisions) :
                       ups'[v].decisions[i] = ups[v].decisions[j]
                  \/ v = u /\ ups'[v].decisions[i] = d
<1> DEFINE d == [id |-> decSeq + 1, kind |-> kind, request |-> r, session |-> s]
           old == ups[u].decisions
           new == LastN(Append(old, d), MaxDecisions)
<1>1. d \in Decision /\ decSeq' = decSeq + 1 /\ decSeq' \in Nat /\ MaxDecisions \in Nat
  BY HubAssumption DEF TypeOK, Decision, QueueDecision
<1>2. old \in Seq(Decision) /\ ups[u] \in UpState /\ ups \in [Upstream -> UpState]
  BY DEF TypeOK, UpState
<1>3. ups' = [ups EXCEPT ![u].decisions = new, ![u].decCursor = decSeq + 1]
  BY DEF QueueDecision
<1> HIDE DEF d
<1>4. /\ Append(old, d) \in Seq(Decision)
      /\ Len(Append(old, d)) = Len(old) + 1
      /\ \A i \in 1..Len(old) : Append(old, d)[i] = old[i]
      /\ Append(old, d)[Len(old) + 1] = d
  BY <1>1, <1>2, AppendProperties
<1>5. /\ new \in Seq(Decision)
      /\ \A i \in 1..Len(new) : new[i] = Append(old, d)[Len(Append(old, d)) - Len(new) + i]
      /\ Len(new) <= Len(Append(old, d))
  <2> DEFINE appended == Append(old, d)
  <2>1. appended \in Seq(Decision) /\ Len(appended) \in Nat
    BY <1>4, LenProperties
  <2> HIDE DEF appended
  <2>2. /\ LastN(appended, MaxDecisions) \in Seq(Decision)
        /\ Len(LastN(appended, MaxDecisions)) =
             IF Len(appended) > MaxDecisions THEN MaxDecisions ELSE Len(appended)
        /\ \A i \in 1..Len(LastN(appended, MaxDecisions)) :
             LastN(appended, MaxDecisions)[i]
               = appended[Len(appended) - Len(LastN(appended, MaxDecisions)) + i]
    BY <1>1, <2>1, LastNProperties
  <2>3. Len(LastN(appended, MaxDecisions)) <= Len(appended)
    BY <1>1, <2>1, <2>2
  <2> QED BY <2>2, <2>3 DEF appended
<1> HIDE DEF new
<1>6. \A i \in 1..Len(new) : (\E j \in 1..Len(old) : new[i] = old[j]) \/ new[i] = d
  <2> SUFFICES ASSUME NEW i \in 1..Len(new)
               PROVE  (\E j \in 1..Len(old) : new[i] = old[j]) \/ new[i] = d
    OBVIOUS
  <2>1. Len(old) \in Nat /\ Len(new) \in Nat
    BY <1>2, <1>5, LenProperties
  <2> DEFINE j == Len(Append(old, d)) - Len(new) + i
  <2>2. j \in 1..(Len(old) + 1) /\ new[i] = Append(old, d)[j]
    BY <1>4, <1>5, <2>1
  <2> HIDE DEF j
  <2>3. CASE j \in 1..Len(old)
    BY <1>4, <2>2, <2>3
  <2>4. CASE j = Len(old) + 1
    BY <1>4, <2>2, <2>4
  <2> QED BY <2>1, <2>2, <2>3, <2>4
<1>7. ups' \in [Upstream -> UpState]
  <2>1. [ups[u] EXCEPT !.decisions = new, !.decCursor = decSeq + 1] \in UpState
    BY <1>1, <1>2, <1>5 DEF UpState
  <2>2. ups' = [ups EXCEPT ![u] = [ups[u] EXCEPT !.decisions = new, !.decCursor = decSeq + 1]]
    BY <1>2, <1>3 DEF UpState
  <2> QED BY <1>2, <2>1, <2>2
<1>8. \A v \in Upstream : ups'[v].window = ups[v].window
  BY <1>2, <1>3 DEF UpState
<1>9. ASSUME NEW v \in Upstream
      PROVE  ups'[v].decisions = IF v = u THEN new ELSE ups[v].decisions
  BY <1>2, <1>3 DEF UpState
<1> QED BY <1>1, <1>6, <1>7, <1>8, <1>9 DEF d

(* What publishing leaves of the open prompts is still on the ring: the    *)
(* one prompt whose envelope went is the one that is expired.              *)
LEMMA KeptIsRetained ==
  ASSUME TypeOK, RingIsContiguous, OpenIsRetained,
         NEW type \in {"perm", "idle", "err", "gone"}, NEW s \in SessionIDs,
         NEW id \in Nat, Publish(type, s, id),
         NEW op \in SUBSET open, NEW p \in KeptOpen(op)
  PROVE  /\ p \in open
         /\ \E i \in DOMAIN ring' :
              ring'[i].id = p.id /\ ring'[i].type = "perm" /\ ring'[i].session = p.session
<1>1. p \in open /\ p \in op /\ p \notin Expired(op)
  BY DEF KeptOpen
<1>2. PICK i \in DOMAIN ring :
        ring[i].id = p.id /\ ring[i].type = "perm" /\ ring[i].session = p.session
  BY <1>1 DEF OpenIsRetained
<1>3. DOMAIN ring = 1..Len(ring) /\ Len(ring) \in Nat /\ RingSize \in Nat \ {0}
  BY LenProperties, HubAssumption DEF TypeOK
<1>4. /\ ring' \in Seq(Envelope)
      /\ Len(ring') \in 1..RingSize
      /\ ring'[Len(ring')] = [seq |-> seq + 1, id |-> id, type |-> type, session |-> s]
      /\ \A k \in 2..Len(ring) : \E j \in 1..Len(ring') : ring'[j] = ring[k]
      /\ Len(ring) < RingSize => \A k \in 1..Len(ring) : ring'[k] = ring[k]
  BY PublishProperties
<1>5. DOMAIN ring' = 1..Len(ring')
  BY <1>4, LenProperties
<1>6. CASE i # 1
  <2>1. PICK j \in 1..Len(ring') : ring'[j] = ring[i]
    BY <1>2, <1>3, <1>4, <1>6
  <2> QED BY <1>1, <1>2, <1>5, <2>1
<1>7. CASE i = 1 /\ Len(ring) < RingSize
  <2>1. ring'[1] = ring[1]
    BY <1>2, <1>3, <1>4, <1>7
  <2>2. 1 \in DOMAIN ring'
    BY <1>3, <1>4, <1>5
  <2> QED BY <1>1, <1>2, <1>7, <2>1, <2>2
<1>8. CASE i = 1 /\ ~(Len(ring) < RingSize)
  <2>1. RingEvicts(ring, RingSize) = {ring[1]}
    BY <1>3, <1>8 DEF RingEvicts
  <2> QED BY <1>1, <1>2, <1>8, <2>1 DEF Expired
<1> QED BY <1>1, <1>6, <1>7, <1>8

--------------------------------------------------------------------------------
(* A hub as hub.New makes it has its books in order.                       *)
LEMMA InitHubInv == Init => HubInv
<1> SUFFICES ASSUME Init PROVE HubInv
  OBVIOUS
<1>1. <<>> \in Seq(Envelope) /\ <<>> \in Seq(Decision) /\ <<>> \in Seq(Entry)
  BY EmptySeq
<1>2. FreeSlot \in UpState /\ NoSess \in Session
  BY <1>1, HubAssumption DEF FreeSlot, UpState, NoSess, Session, NoEnv, Statuses, Times
<1>3. TypeOK
  BY <1>1, <1>2, HubAssumption DEF Init, TypeOK, NoEnv, Times
<1>4. RingIsContiguous
  BY HubAssumption DEF Init, RingIsContiguous
<1>5. RegisteredHaveWindows /\ QueuesGoHome
  BY DEF Init, RegisteredHaveWindows, QueuesGoHome, FreeSlot
<1>6. /\ OpenIsRetained /\ IndexedIsOpen /\ OpenIsIndexed /\ OpenHasOrigin
      /\ OpenIdsDiffer /\ SettledIsClosed /\ SettledOnce
  BY DEF Init, OpenIsRetained, IndexedIsOpen, OpenIsIndexed, OpenHasOrigin,
         OpenIdsDiffer, SettledIsClosed, SettledOnce
<1>7. PromptInv
  BY <1>4, <1>5, <1>6 DEF PromptInv
<1>8. SessionInv /\ QueuesAreCounted
  BY HubAssumption, FS_EmptySet
     DEF Init, SessionInv, ConvIdsDiffer, PromptsArePublished, AdvertisedIsPublished,
         AdvertisedIsOwn, SettledIsNotAdvertised, QueuesAreCounted, FreeSlot
<1> QED BY <1>3, <1>7, <1>8 DEF HubInv

--------------------------------------------------------------------------------
(* Every method of the hub keeps the types, one proof step per action.     *)
LEMMA TypeStep ==
  ASSUME TypeOK, RingIsContiguous, RegisteredHaveWindows, [Next]_vars
  PROVE  TypeOK'
<1> USE DEF ringVars, upVars, sessVars
<1>1. ASSUME NEW w \in Windows, RegisterUpstream(w) PROVE TypeOK'
  <2>1. [FreeSlot EXCEPT !.window = w] \in UpState
    BY EmptySeq DEF FreeSlot, UpState
  <2>2. upSeq + 1 \in Upstream /\ upSeq' \in 0..MaxUpstreams
    BY <1>1, HubAssumption DEF RegisterUpstream, TypeOK, Upstream
  <2>3. ups' \in [Upstream -> UpState]
    BY <1>1, <2>1, <2>2 DEF RegisterUpstream, TypeOK
  <2>4. upstreams' \in SUBSET (1..upSeq')
    BY <1>1 DEF RegisterUpstream, TypeOK
  <2> QED BY <1>1, <2>2, <2>3, <2>4 DEF RegisterUpstream, TypeOK
<1>2. ASSUME NEW u \in Upstream, RemoveUpstream(u) PROVE TypeOK'
  <2>1. NoSess \in Session
    BY EmptySeq, HubAssumption DEF NoSess, Session, NoEnv, Statuses, Times
  <2>2. known' \in SUBSET SessionIDs /\ sess' \in [SessionIDs -> Session]
    BY <1>2, <2>1 DEF RemoveUpstream, TypeOK
  <2>3. [ups[u] EXCEPT !.decisions = <<>>, !.decCursor = 0] \in UpState
    BY EmptySeq DEF TypeOK, UpState
  <2>4. ups' = [ups EXCEPT ![u] = [ups[u] EXCEPT !.decisions = <<>>, !.decCursor = 0]]
    BY <1>2 DEF RemoveUpstream, TypeOK, UpState
  <2>5. ups' \in [Upstream -> UpState]
    BY <2>3, <2>4 DEF TypeOK
  <2> QED BY <1>2, <2>2, <2>5 DEF RemoveUpstream, TypeOK
<1>3. ASSUME NEW u \in Upstream, NEW s \in SessionIDs, NEW r \in Requests,
             IngestPermission(u, s, r)
      PROVE  TypeOK'
  <2>1. seq \in Nat /\ seq + 1 \in Nat /\ Publish("perm", s, seq + 1)
    BY <1>3 DEF IngestPermission, TypeOK
  <2>2. seq' \in Nat /\ ring' \in Seq(Envelope)
    BY <2>1, PublishProperties
  <2>3. known' \in SUBSET SessionIDs /\ sess' \in [SessionIDs -> Session]
    BY <1>3, <2>1, TrackPromptType DEF IngestPermission, TypeOK
  <2>4. [window |-> ups[u].window, session |-> s] \in [window : Windows, session : SessionIDs]
    BY <1>3 DEF IngestPermission, Reporting, RegisteredHaveWindows
  <2>5. asked' \in [Requests -> [window : Windows, session : SessionIDs] \cup {NoOrigin}]
    BY <1>3, <2>4 DEF IngestPermission, TypeOK
  <2>6. open' \in SUBSET Pending
    <3>1. [id |-> seq + 1, upstream |-> u, request |-> r, session |-> s] \in Pending
      BY <2>1 DEF Pending
    <3> QED BY <1>3, <3>1 DEF IngestPermission, KeptOpen, TypeOK
  <2>7. byRequest' \in [Requests -> Nat]
    BY <1>3, <2>1 DEF IngestPermission, KeptByRequest, TypeOK, NoEnv
  <2> QED BY <1>3, <2>2, <2>3, <2>5, <2>6, <2>7 DEF IngestPermission, TypeOK
<1>4. ASSUME NEW r \in Requests, IngestReplied(r) PROVE TypeOK'
  <2>1. PICK p \in open :
          /\ Publish("gone", p.session, p.id)
          /\ open' = KeptOpen(TakePrompt(p))
          /\ byRequest' = KeptByRequest(TakePrompt(p), Unindex(byRequest, r))
          /\ ClearPrompt(p.session, p.id)
          /\ settled' = settled \cup {[env |-> p.id, request |-> r, dec |-> 0]}
    BY <1>4 DEF IngestReplied
  <2>2. p.session \in SessionIDs /\ p.id \in Nat
    BY DEF TypeOK, Pending
  <2>3. seq' \in Nat /\ ring' \in Seq(Envelope)
    BY <2>1, <2>2, PublishProperties
  <2>4. known' \in SUBSET SessionIDs /\ sess' \in [SessionIDs -> Session]
    BY <2>1, <2>2, ClearPromptType
  <2>5. open' \in SUBSET Pending /\ byRequest' \in [Requests -> Nat]
    BY <2>1 DEF KeptOpen, TakePrompt, KeptByRequest, Unindex, TypeOK, NoEnv
  <2>6. settled' \in SUBSET [env : Nat, request : Requests, dec : Nat]
    BY <2>1, <2>2 DEF TypeOK
  <2> QED BY <1>4, <2>3, <2>4, <2>5, <2>6 DEF IngestReplied, TypeOK
<1>5. ASSUME NEW u \in Upstream, NEW s \in SessionIDs, NEW ms \in Times, IngestMessage(u, s, ms)
      PROVE  TypeOK'
  <2> DEFINE base == GetOrCreate(u, s)
             touched == [base EXCEPT !.updated = Touch(base.updated, ms)]
             numbered == [touched EXCEPT !.convSeq = base.convSeq + 1]
  <2>1. base \in Session
    BY GetOrCreateType
  <2>2. Touch(base.updated, ms) \in Times /\ base.convSeq + 1 \in Nat
    BY <2>1, TouchType DEF Session
  <2>3. touched \in Session
    BY <2>1, <2>2 DEF Session
  <2>4. numbered \in Session
    <3> HIDE DEF touched
    <3> QED BY <2>2, <2>3 DEF Session
  <2>5. \E state \in Session : Store(s, state)
    <3>1. CASE \E n \in Parts : Store(s, AppendConv(touched, [space |-> "part", n |-> n], "msg"))
      <4>1. PICK n \in Parts : Store(s, AppendConv(touched, [space |-> "part", n |-> n], "msg"))
        BY <3>1
      <4>2. [space |-> "part", n |-> n] \in ConvID
        BY HubAssumption DEF ConvID
      <4>3. AppendConv(touched, [space |-> "part", n |-> n], "msg") \in Session
        BY <2>3, <4>2, AppendConvType
      <4> QED BY <4>1, <4>3
    <3>2. CASE Store(s, AppendConv(numbered, [space |-> "anon", n |-> base.convSeq + 1], "msg"))
      <4>1. [space |-> "anon", n |-> base.convSeq + 1] \in ConvID
        BY <2>2 DEF ConvID
      <4>2. AppendConv(numbered, [space |-> "anon", n |-> base.convSeq + 1], "msg") \in Session
        BY <2>4, <4>1, AppendConvType
      <4> QED BY <3>2, <4>2
    <3> QED BY <1>5, <3>1, <3>2 DEF IngestMessage
  <2>6. known' \in SUBSET SessionIDs /\ sess' \in [SessionIDs -> Session]
    BY <2>5, StoreType
  <2> QED BY <1>5, <2>6 DEF IngestMessage, TypeOK
<1>6. ASSUME NEW u \in Upstream, NEW s \in SessionIDs, NEW ms \in Times, IngestSessionInfo(u, s, ms)
      PROVE  TypeOK'
  <2> DEFINE base == GetOrCreate(u, s)
  <2>1. base \in Session
    BY GetOrCreateType
  <2>2. Touch(base.updated, ms) \in Times
    BY <2>1, TouchType DEF Session
  <2>3. [base EXCEPT !.updated = Touch(base.updated, ms)] \in Session
    BY <2>1, <2>2 DEF Session
  <2>4. known' \in SUBSET SessionIDs /\ sess' \in [SessionIDs -> Session]
    BY <1>6, <2>3, StoreType DEF IngestSessionInfo
  <2> QED BY <1>6, <2>4 DEF IngestSessionInfo, TypeOK
<1>7. ASSUME NEW s \in SessionIDs, IngestSessionDeleted(s) PROVE TypeOK'
  <2>1. NoSess \in Session
    BY EmptySeq, HubAssumption DEF NoSess, Session, NoEnv, Statuses, Times
  <2> QED BY <1>7, <2>1 DEF IngestSessionDeleted, TypeOK
<1>8. ASSUME NEW u \in Upstream, NEW s \in SessionIDs, NEW st \in Statuses, NEW ms \in Times,
             SetStatus(u, s, st, ms)
      PROVE  known' \in SUBSET SessionIDs /\ sess' \in [SessionIDs -> Session]
  <2> DEFINE base == GetOrCreate(u, s)
  <2>1. base \in Session
    BY GetOrCreateType
  <2>2. Touch(base.updated, ms) \in Times
    BY <2>1, TouchType DEF Session
  <2>3. [base EXCEPT !.status = st, !.updated = Touch(base.updated, ms)] \in Session
    BY <2>1, <2>2 DEF Session
  <2> QED BY <1>8, <2>3, StoreType DEF SetStatus
<1>9. ASSUME NEW u \in Upstream, NEW s \in SessionIDs, NEW st \in Reports,
             NEW ms \in Times, IngestSessionStatus(u, s, st, ms)
      PROVE  TypeOK'
  <2>1. st \in Statuses
    BY HubAssumption
  <2>2. known' \in SUBSET SessionIDs /\ sess' \in [SessionIDs -> Session]
    BY <1>8, <1>9, <2>1 DEF IngestSessionStatus
  <2> QED BY <1>9, <2>2 DEF IngestSessionStatus, TypeOK
<1>10. ASSUME NEW type \in {"idle", "err"}, NEW s \in SessionIDs, Publish(type, s, seq + 1),
              open' = KeptOpen(open), byRequest' = KeptByRequest(open, byRequest)
       PROVE  /\ seq' \in Nat /\ ring' \in Seq(Envelope)
              /\ open' \in SUBSET Pending /\ byRequest' \in [Requests -> Nat]
  <2>1. seq + 1 \in Nat
    BY DEF TypeOK
  <2>2. seq' \in Nat /\ ring' \in Seq(Envelope)
    BY <1>10, <2>1, PublishProperties
  <2> QED BY <1>10, <2>2 DEF KeptOpen, KeptByRequest, TypeOK, NoEnv
<1>11. ASSUME NEW u \in Upstream, NEW s \in SessionIDs, NEW ms \in Times, IngestIdle(u, s, ms)
       PROVE  TypeOK'
  <2>1. known' \in SUBSET SessionIDs /\ sess' \in [SessionIDs -> Session]
    BY <1>8, <1>11 DEF IngestIdle, Statuses
  <2>2. /\ seq' \in Nat /\ ring' \in Seq(Envelope)
        /\ open' \in SUBSET Pending /\ byRequest' \in [Requests -> Nat]
    BY <1>10, <1>11 DEF IngestIdle
  <2> QED BY <1>11, <2>1, <2>2 DEF IngestIdle, TypeOK
<1>12. ASSUME NEW s \in SessionIDs, IngestError(s) PROVE TypeOK'
  <2>1. /\ seq' \in Nat /\ ring' \in Seq(Envelope)
        /\ open' \in SUBSET Pending /\ byRequest' \in [Requests -> Nat]
    BY <1>10, <1>12 DEF IngestError
  <2> QED BY <1>12, <2>1 DEF IngestError, TypeOK
<1>13. ASSUME NEW p \in open, Reply(p) PROVE TypeOK'
  <2>1. /\ p.session \in SessionIDs /\ p.id \in Nat /\ p.request \in Requests
        /\ Route(p) \in Upstream
    BY DEF TypeOK, Pending, Route
  <2>2. known' \in SUBSET SessionIDs /\ sess' \in [SessionIDs -> Session]
    BY <1>13, <2>1, ClearPromptType DEF Reply
  <2>3. ups' \in [Upstream -> UpState] /\ decSeq' \in Nat
    <3>1. CASE QueueDecision(Route(p), "perm", p.request, p.session)
      BY <2>1, <3>1, QueueDecisionProperties
    <3>2. CASE UNCHANGED <<ups, decSeq>>
      BY <3>2 DEF TypeOK
    <3> QED BY <1>13, <3>1, <3>2 DEF Reply
  <2>4. settled' \in SUBSET [env : Nat, request : Requests, dec : Nat]
    BY <1>13, <2>1 DEF Reply, TypeOK
  <2>5. open' \in SUBSET Pending /\ byRequest' \in [Requests -> Nat]
    BY <1>13 DEF Reply, TakePrompt, Unindex, TypeOK, NoEnv
  <2> QED BY <1>13, <2>2, <2>3, <2>4, <2>5 DEF Reply, TypeOK
<1>14. ASSUME NEW s \in SessionIDs, Prompt(s) PROVE TypeOK'
  <2>1. sess[s] \in Session /\ sess[s].upstream \in Upstream
    BY <1>14, HubAssumption DEF Prompt, TypeOK, Upstream
  <2>2. ups' \in [Upstream -> UpState] /\ decSeq' \in Nat
    BY <1>14, <2>1, QueueDecisionProperties DEF Prompt
  <2>3. Touch(sess[s].updated, clock) \in Times
    BY <2>1, TouchType DEF Session, TypeOK
  <2>4. [sess[s] EXCEPT !.status = "busy", !.updated = Touch(sess[s].updated, clock)] \in Session
    BY <2>1, <2>3 DEF Session, Statuses
  <2>5. sess' = [sess EXCEPT ![s] = [sess[s] EXCEPT !.status = "busy",
                                                 !.updated = Touch(sess[s].updated, clock)]]
    BY <1>14, <2>1 DEF Prompt, TypeOK, Session
  <2>6. sess' \in [SessionIDs -> Session]
    BY <2>4, <2>5 DEF TypeOK
  <2> QED BY <1>14, <2>2, <2>6 DEF Prompt, TypeOK
<1>15. CASE Tick
  BY <1>15, HubAssumption DEF Tick, TypeOK, Times
<1>16. CASE UNCHANGED vars
  BY <1>16 DEF vars, TypeOK
<1> QED BY <1>1, <1>2, <1>3, <1>4, <1>5, <1>6, <1>7, <1>9, <1>11, <1>12, <1>13, <1>14,
           <1>15, <1>16 DEF Next

--------------------------------------------------------------------------------
(* The two indexes of the open prompts.                                    *)

(* Prompts op and index br match: IndexedIsOpen and OpenIsIndexed.         *)
Balanced(op, br) ==
  /\ \A r \in Requests : br[r] # NoEnv => \E p \in op : p.id = br[r] /\ p.request = r
  /\ \A p \in op : br[p.request] = p.id

(* Deleting an answered prompt from both keeps them matched.               *)
LEMMA TakeBalances ==
  ASSUME TypeOK, Balanced(open, byRequest), OpenIdsDiffer, NEW p \in open
  PROVE  Balanced(TakePrompt(p), Unindex(byRequest, p.request))
<1> DEFINE br == Unindex(byRequest, p.request)
<1>1. /\ br[p.request] = NoEnv
      /\ \A r \in Requests : r # p.request => br[r] = byRequest[r]
  BY DEF TypeOK, Pending, Unindex
<1> HIDE DEF br
<1>2. ASSUME NEW r \in Requests, br[r] # NoEnv
      PROVE  \E q \in open \ {p} : q.id = br[r] /\ q.request = r
  BY <1>1, <1>2 DEF Balanced
<1>3. ASSUME NEW q \in open \ {p} PROVE br[q.request] = q.id
  BY <1>1 DEF Balanced, OpenIdsDiffer, TypeOK, Pending
<1> QED BY <1>2, <1>3 DEF Balanced, TakePrompt, br

(* Expiring the prompt that fell off the ring keeps them matched.          *)
LEMMA KeptBalances ==
  ASSUME TypeOK, NEW op \in SUBSET open, NEW br, Balanced(op, br)
  PROVE  Balanced(KeptOpen(op), KeptByRequest(op, br))
<1> DEFINE kept == KeptByRequest(op, br)
<1>1. \A r \in Requests :
        kept[r] = IF \E p \in Expired(op) : p.request = r THEN NoEnv ELSE br[r]
  BY DEF KeptByRequest
<1> HIDE DEF kept
<1>2. ASSUME NEW r \in Requests, kept[r] # NoEnv
      PROVE  \E p \in KeptOpen(op) : p.id = kept[r] /\ p.request = r
  BY <1>1, <1>2 DEF Balanced, KeptOpen
<1>3. ASSUME NEW q \in KeptOpen(op) PROVE kept[q.request] = q.id
  <2>1. q \in op /\ q \notin Expired(op) /\ q.request \in Requests
    BY DEF KeptOpen, TypeOK, Pending
  <2>2. ASSUME NEW p \in Expired(op), p.request = q.request PROVE FALSE
    <3>1. p \in op /\ p.id = q.id
      BY <2>1, <2>2 DEF Balanced, Expired
    <3> QED BY <2>1, <2>2, <3>1 DEF Expired
  <2> QED BY <1>1, <2>1, <2>2 DEF Balanced
<1> QED BY <1>2, <1>3 DEF Balanced, kept

(* Adding the first prompt of a request to both keeps them matched.        *)
LEMMA AddBalances ==
  ASSUME NEW op, NEW br \in [Requests -> Nat], Balanced(op, br),
         NEW p, p.request \in Requests, p.id # NoEnv,
         \A q \in op : q.request \in Requests /\ q.request # p.request
  PROVE  Balanced(op \cup {p}, [br EXCEPT ![p.request] = p.id])
<1> DEFINE new == [br EXCEPT ![p.request] = p.id]
<1>1. new[p.request] = p.id /\ \A r \in Requests : r # p.request => new[r] = br[r]
  OBVIOUS
<1> HIDE DEF new
<1>2. ASSUME NEW r \in Requests, new[r] # NoEnv
      PROVE  \E q \in op \cup {p} : q.id = new[r] /\ q.request = r
  BY <1>1, <1>2 DEF Balanced
<1>3. ASSUME NEW q \in op \cup {p} PROVE new[q.request] = q.id
  BY <1>1 DEF Balanced
<1> QED BY <1>2, <1>3 DEF Balanced, new

(* The books but for the types: what a step has to keep.                   *)
Books ==
  /\ RingIsContiguous /\ RegisteredHaveWindows
  /\ OpenIsRetained /\ Balanced(open, byRequest)
  /\ OpenHasOrigin /\ OpenIdsDiffer
  /\ SettledIsClosed /\ SettledOnce /\ QueuesGoHome

(* PromptInv is the books, with the two indexes of the prompts taken as    *)
(* one matched pair.                                                       *)
LEMMA PromptInvIsBooks == PromptInv <=> Books
BY DEF PromptInv, Books, Balanced, IndexedIsOpen, OpenIsIndexed

(* The windows of the registered upstreams do not change.                  *)
WindowsStable ==
  upSeq <= upSeq' /\ \A u \in 1..upSeq : ups'[u].window = ups[u].window

(* No method gives an upstream id to another window: RegisterUpstream      *)
(* takes a fresh one, everything else leaves the windows alone.            *)
LEMMA WindowsStep ==
  ASSUME TypeOK, RegisteredHaveWindows, [Next]_vars
  PROVE  WindowsStable /\ RegisteredHaveWindows'
<1> USE DEF upVars, WindowsStable, RegisteredHaveWindows
<1>1. /\ upSeq \in Nat /\ ups \in [Upstream -> UpState]
      /\ \A u \in 1..upSeq : u \in Upstream /\ u # upSeq + 1
  BY HubAssumption DEF TypeOK, Upstream
<1>2. ASSUME NEW w \in Windows, RegisterUpstream(w) PROVE WindowsStable /\ RegisteredHaveWindows'
  <2>1. /\ upSeq' = upSeq + 1 /\ upSeq + 1 \in Upstream
        /\ ups' = [ups EXCEPT ![upSeq + 1] = [FreeSlot EXCEPT !.window = w]]
    BY <1>1, <1>2, HubAssumption DEF RegisterUpstream, Upstream
  <2>2. ups'[upSeq + 1].window = w
    BY <1>1, <2>1 DEF FreeSlot
  <2>3. \A u \in 1..upSeq : ups'[u] = ups[u]
    BY <1>1, <2>1
  <2> QED BY <1>1, <2>1, <2>2, <2>3
<1>3. ASSUME NEW u \in Upstream, RemoveUpstream(u) PROVE WindowsStable /\ RegisteredHaveWindows'
  BY <1>1, <1>3 DEF RemoveUpstream, UpState
<1>4. ASSUME NEW p \in open, Reply(p) PROVE WindowsStable /\ RegisteredHaveWindows'
  <2>1. p.session \in SessionIDs /\ p.request \in Requests /\ Route(p) \in Upstream
    BY DEF TypeOK, Pending, Route
  <2>2. CASE UNCHANGED <<ups, decSeq>>
    BY <1>1, <1>4, <2>2 DEF Reply
  <2>3. CASE QueueDecision(Route(p), "perm", p.request, p.session)
    <3>1. \A v \in Upstream : ups'[v].window = ups[v].window
      BY <2>1, <2>3, QueueDecisionProperties
    <3> QED BY <1>1, <1>4, <3>1 DEF Reply
  <2> QED BY <1>4, <2>2, <2>3 DEF Reply
<1>5. ASSUME NEW s \in SessionIDs, Prompt(s) PROVE WindowsStable /\ RegisteredHaveWindows'
  <2>1. sess[s].upstream \in Upstream
    BY <1>5, HubAssumption DEF Prompt, TypeOK, Upstream
  <2>2. \A v \in Upstream : ups'[v].window = ups[v].window
    BY <1>5, <2>1, QueueDecisionProperties DEF Prompt
  <2> QED BY <1>1, <1>5, <2>2 DEF Prompt
<1>6. ASSUME UNCHANGED upVars PROVE WindowsStable /\ RegisteredHaveWindows'
  BY <1>1, <1>6
<1> QED BY <1>2, <1>3, <1>4, <1>5, <1>6
        DEF Next, vars, IngestPermission, IngestReplied, IngestMessage, IngestSessionInfo,
            IngestSessionDeleted, IngestSessionStatus, IngestIdle, IngestError, Tick

(* A step that opens no prompt keeps what is known of the open ones.       *)
LEMMA OpenShrinks ==
  ASSUME TypeOK, Books, WindowsStable, open' \subseteq open, asked' = asked,
         seq' \in Nat, seq <= seq', upSeq' \in Nat
  PROVE  OpenHasOrigin' /\ OpenIdsDiffer'
<1>1. upSeq \in Nat /\ seq \in Nat
  BY DEF TypeOK
<1>2. ASSUME NEW p \in open' 
      PROVE  /\ p.id <= seq' /\ p.upstream \in 1..upSeq'
             /\ asked'[p.request] = [window |-> ups'[p.upstream].window, session |-> p.session]
  <2>1. /\ p \in open /\ p.id <= seq /\ p.upstream \in 1..upSeq /\ p.id \in Nat
        /\ asked[p.request] = [window |-> ups[p.upstream].window, session |-> p.session]
    BY <1>2 DEF Books, OpenHasOrigin, TypeOK, Pending
  <2> QED BY <1>1, <2>1 DEF WindowsStable
<1> QED BY <1>2 DEF OpenHasOrigin, OpenIdsDiffer, Books

(* A step that queues nothing and rewrites no request's origin keeps the   *)
(* queues.                                                                 *)
LEMMA QueuesShrink ==
  ASSUME TypeOK, Books, WindowsStable, upSeq' \in Nat,
         \A u \in Upstream : ups'[u].decisions = ups[u].decisions \/ ups'[u].decisions = <<>>,
         \A r \in Requests : asked[r] # NoOrigin => asked'[r] = asked[r]
  PROVE  QueuesGoHome'
<1> SUFFICES ASSUME NEW u \in Upstream, NEW i \in 1..Len(ups'[u].decisions),
                    ups'[u].decisions[i].kind = "perm"
             PROVE  LET d == ups'[u].decisions[i]
                    IN  /\ u \in 1..upSeq'
                        /\ d.request \in Requests
                        /\ asked'[d.request] = [window |-> ups'[u].window, session |-> d.session]
  BY DEF QueuesGoHome
<1> DEFINE d == ups[u].decisions[i]
<1>1. ups'[u].decisions = ups[u].decisions
  OBVIOUS
<1>2. /\ u \in 1..upSeq /\ d.request \in Requests
      /\ asked[d.request] = [window |-> ups[u].window, session |-> d.session]
  BY <1>1 DEF Books, QueuesGoHome
<1>3. asked[d.request] # NoOrigin
  <2>1. ups[u].window # "none"
    BY <1>2, HubAssumption DEF Books, RegisteredHaveWindows
  <2> QED BY <1>2, <2>1 DEF NoOrigin
<1>4. u \in 1..upSeq' /\ ups'[u].window = ups[u].window
  BY <1>2 DEF WindowsStable, TypeOK
<1> QED BY <1>1, <1>2, <1>3, <1>4

(* Whoever opened a prompt is a window.                                    *)
LEMMA OpenWasAsked ==
  ASSUME TypeOK, Books, NEW p \in open
  PROVE  asked[p.request] # NoOrigin
<1>1. ups[p.upstream].window # "none"
  BY HubAssumption DEF Books, OpenHasOrigin, RegisteredHaveWindows
<1>2. asked[p.request] = [window |-> ups[p.upstream].window, session |-> p.session]
  BY DEF Books, OpenHasOrigin
<1> QED BY <1>1, <1>2 DEF NoOrigin

(* A prompt that is taken is settled: it was open, now its request is not, *)
(* and it was not settled before.                                          *)
LEMMA SettlingKeepsBooks ==
  ASSUME TypeOK, Books, NEW p \in open, NEW n,
         open' \subseteq TakePrompt(p), asked' = asked,
         settled' = settled \cup {[env |-> p.id, request |-> p.request, dec |-> n]}
  PROVE  SettledIsClosed' /\ SettledOnce'
<1>1. asked[p.request] # NoOrigin
  BY OpenWasAsked
<1>2. \A q \in open' : q \in open /\ q.request # p.request
  BY DEF TakePrompt, Books, Balanced, OpenIdsDiffer
<1>3. \A a \in settled : a.request # p.request
  BY DEF Books, SettledIsClosed
<1> QED BY <1>1, <1>2, <1>3 DEF Books, SettledIsClosed, SettledOnce

--------------------------------------------------------------------------------
(* The books, one lemma per kind of step.                                  *)

(* Registrations, session events and the clock leave the prompts alone.    *)
LEMMA QuietStep ==
  ASSUME TypeOK, Books, WindowsStable, RegisteredHaveWindows', upSeq' \in Nat,
         UNCHANGED <<ringVars, asked, settled>>,
         \A u \in Upstream : ups'[u].decisions = ups[u].decisions \/ ups'[u].decisions = <<>>
  PROVE  Books'
<1> USE DEF ringVars
<1>1. OpenHasOrigin' /\ OpenIdsDiffer'
  BY OpenShrinks DEF TypeOK
<1>2. QueuesGoHome'
  BY QueuesShrink
<1>3. /\ RingIsContiguous' /\ OpenIsRetained' /\ Balanced(open, byRequest)'
      /\ SettledIsClosed' /\ SettledOnce'
  BY DEF Books, RingIsContiguous, OpenIsRetained, Balanced, SettledIsClosed, SettledOnce
<1> QED BY <1>1, <1>2, <1>3 DEF Books

(* An idle or error notice may push a prompt off the ring.                 *)
LEMMA NoticeStep ==
  ASSUME TypeOK, Books, WindowsStable, RegisteredHaveWindows', UNCHANGED <<upVars, asked, settled>>,
         NEW type \in {"idle", "err"}, NEW s \in SessionIDs, Publish(type, s, seq + 1),
         open' = KeptOpen(open), byRequest' = KeptByRequest(open, byRequest)
  PROVE  Books'
<1> USE DEF upVars
<1>1. RingIsContiguous /\ OpenIsRetained /\ seq + 1 \in Nat /\ seq \in Nat /\ upSeq' \in Nat
  BY DEF Books, TypeOK
<1>2. RingIsContiguous' /\ seq' = seq + 1
  BY <1>1, PublishProperties
<1>3. OpenIsRetained'
  BY <1>1, KeptIsRetained DEF OpenIsRetained
<1>4. Balanced(open, byRequest)'
  BY KeptBalances DEF Books, Balanced
<1>5. open' \subseteq open
  BY DEF KeptOpen
<1>6. OpenHasOrigin' /\ OpenIdsDiffer'
  BY <1>1, <1>2, <1>5, OpenShrinks
<1>7. QueuesGoHome'
  BY <1>1, QueuesShrink
<1>8. SettledIsClosed' /\ SettledOnce'
  BY <1>5 DEF Books, SettledIsClosed, SettledOnce
<1> QED BY <1>2, <1>3, <1>4, <1>6, <1>7, <1>8 DEF Books

(* A permission request opens a prompt of its own.                         *)
LEMMA PermissionStep ==
  ASSUME TypeOK, Books, WindowsStable, RegisteredHaveWindows',
         NEW u \in Upstream, NEW s \in SessionIDs, NEW r \in Requests, IngestPermission(u, s, r)
  PROVE  Books'
<1> USE DEF upVars
<1> DEFINE p == [id |-> seq + 1, upstream |-> u, request |-> r, session |-> s]
<1>1. /\ RingIsContiguous /\ OpenIsRetained /\ seq + 1 \in Nat /\ seq \in Nat
      /\ upSeq' = upSeq /\ upSeq \in Nat /\ ups' = ups
      /\ asked[r] = NoOrigin /\ u \in 1..upSeq /\ settled' = settled
      /\ Publish("perm", s, seq + 1)
      /\ open' = KeptOpen(open) \cup {p}
      /\ byRequest' = [KeptByRequest(open, byRequest) EXCEPT ![r] = seq + 1]
      /\ asked' = [asked EXCEPT ![r] = [window |-> ups[u].window, session |-> s]]
  BY DEF Books, TypeOK, IngestPermission, Reporting
<1>2. /\ RingIsContiguous' /\ seq' = seq + 1 /\ ring' \in Seq(Envelope)
      /\ Len(ring') \in 1..RingSize
      /\ ring'[Len(ring')] = [seq |-> seq + 1, id |-> seq + 1, type |-> "perm", session |-> s]
  BY <1>1, PublishProperties
<1>3. OpenIsRetained'
  <2>1. Len(ring') \in DOMAIN ring'
    BY <1>2, LenProperties, HubAssumption
  <2>2. \E i \in DOMAIN ring' :
          ring'[i].id = p.id /\ ring'[i].type = "perm" /\ ring'[i].session = p.session
    BY <1>2, <2>1
  <2>3. \A q \in KeptOpen(open) : \E i \in DOMAIN ring' :
          ring'[i].id = q.id /\ ring'[i].type = "perm" /\ ring'[i].session = q.session
    BY <1>1, KeptIsRetained
  <2> QED BY <1>1, <2>2, <2>3 DEF OpenIsRetained
<1>4. \A q \in open : q.request # r /\ q.request \in Requests /\ q.id <= seq /\ q.id \in Nat
  BY <1>1, OpenWasAsked DEF TypeOK, Pending, Books, OpenHasOrigin
<1>5. KeptOpen(open) \subseteq open
  BY DEF KeptOpen
<1>6. Balanced(open, byRequest)'
  <2>1. Balanced(KeptOpen(open), KeptByRequest(open, byRequest))
    BY KeptBalances DEF Books
  <2>2. KeptByRequest(open, byRequest) \in [Requests -> Nat]
    BY DEF KeptByRequest, TypeOK, NoEnv
  <2>3. p.request = r /\ p.id = seq + 1 /\ p.id # NoEnv
    BY <1>1 DEF NoEnv
  <2> HIDE DEF p
  <2>4. Balanced(KeptOpen(open) \cup {p}, [KeptByRequest(open, byRequest) EXCEPT ![p.request] = p.id])
    BY <1>4, <1>5, <2>1, <2>2, <2>3, AddBalances
  <2> QED BY <1>1, <2>3, <2>4 DEF Balanced
<1>7. \A q \in Requests : asked[q] # NoOrigin => asked'[q] = asked[q]
  BY <1>1 DEF TypeOK
<1>8. OpenHasOrigin'
  <2>1. ASSUME NEW q \in KeptOpen(open)
        PROVE  /\ q.id <= seq' /\ q.upstream \in 1..upSeq'
               /\ asked'[q.request] = [window |-> ups'[q.upstream].window, session |-> q.session]
    BY <1>1, <1>2, <1>4, <1>5, <1>7 DEF Books, OpenHasOrigin, TypeOK
  <2>2. /\ p.id <= seq' /\ p.upstream \in 1..upSeq'
        /\ asked'[p.request] = [window |-> ups'[p.upstream].window, session |-> p.session]
    BY <1>1, <1>2 DEF TypeOK
  <2> QED BY <1>1, <2>1, <2>2 DEF OpenHasOrigin
<1>9. OpenIdsDiffer'
  <2>1. \A q \in open : q.id # p.id
    BY <1>1, <1>4
  <2> HIDE DEF p
  <2> QED BY <1>1, <1>5, <2>1 DEF Books, OpenIdsDiffer
<1>10. QueuesGoHome'
  BY <1>1, <1>7, QueuesShrink
<1>11. SettledIsClosed' /\ SettledOnce'
  <2>1. \A a \in settled : a.request \in Requests /\ asked[a.request] # NoOrigin /\ a.request # r
    BY <1>1 DEF Books, SettledIsClosed, TypeOK
  <2> QED BY <1>1, <1>5, <1>7, <2>1 DEF Books, SettledIsClosed, SettledOnce
<1> QED BY <1>2, <1>3, <1>6, <1>8, <1>9, <1>10, <1>11 DEF Books

(* A desk answer retracts the prompt, and may push another off the ring.   *)
LEMMA RepliedStep ==
  ASSUME TypeOK, Books, WindowsStable, RegisteredHaveWindows',
         NEW r \in Requests, IngestReplied(r)
  PROVE  Books'
<1> USE DEF upVars
<1>1. PICK p \in open :
        /\ p.id = byRequest[r]
        /\ Publish("gone", p.session, p.id)
        /\ open' = KeptOpen(TakePrompt(p))
        /\ byRequest' = KeptByRequest(TakePrompt(p), Unindex(byRequest, r))
        /\ settled' = settled \cup {[env |-> p.id, request |-> r, dec |-> 0]}
  BY DEF IngestReplied
<1>2. /\ RingIsContiguous /\ OpenIsRetained /\ seq \in Nat /\ upSeq' \in Nat
      /\ asked' = asked /\ ups' = ups /\ p.session \in SessionIDs /\ p.id \in Nat
  BY DEF Books, TypeOK, Pending, IngestReplied
<1>3. p.request = r
  BY <1>1 DEF IngestReplied, Books, Balanced, OpenIdsDiffer
<1>4. RingIsContiguous' /\ seq' = seq + 1
  BY <1>1, <1>2, PublishProperties
<1>5. TakePrompt(p) \in SUBSET open
  BY DEF TakePrompt
<1>6. OpenIsRetained'
  BY <1>1, <1>2, <1>5, KeptIsRetained DEF OpenIsRetained
<1>7. Balanced(open, byRequest)'
  <2>1. Balanced(TakePrompt(p), Unindex(byRequest, r))
    BY <1>3, TakeBalances DEF Books
  <2>2. Balanced(KeptOpen(TakePrompt(p)), KeptByRequest(TakePrompt(p), Unindex(byRequest, r)))
    BY <1>5, <2>1, KeptBalances
  <2> QED BY <1>1, <2>2 DEF Balanced
<1>8. open' \subseteq TakePrompt(p) /\ open' \subseteq open
  BY <1>1, <1>5 DEF KeptOpen
<1>9. OpenHasOrigin' /\ OpenIdsDiffer'
  BY <1>2, <1>4, <1>8, OpenShrinks
<1>10. QueuesGoHome'
  BY <1>2, QueuesShrink
<1>11. SettledIsClosed' /\ SettledOnce'
  BY <1>1, <1>2, <1>3, <1>8, SettlingKeepsBooks
<1> QED BY <1>4, <1>6, <1>7, <1>9, <1>10, <1>11 DEF Books

(* A phone answer takes the prompt and queues at most one decision, for    *)
(* the upstream that asked.                                                *)
LEMMA ReplyStep ==
  ASSUME TypeOK, Books, WindowsStable, RegisteredHaveWindows', NEW p \in open, Reply(p)
  PROVE  Books'
<1>1. /\ seq' = seq /\ ring' = ring /\ asked' = asked /\ upSeq' = upSeq
      /\ open' = TakePrompt(p) /\ byRequest' = Unindex(byRequest, p.request)
  BY DEF Reply
<1>2. /\ seq \in Nat /\ upSeq \in Nat /\ p.session \in SessionIDs /\ p.request \in Requests
      /\ Route(p) = p.upstream /\ p.upstream \in Upstream
  BY DEF TypeOK, Pending, Route
<1>3. open' \subseteq open /\ open' \subseteq TakePrompt(p)
  BY <1>1 DEF TakePrompt
<1>4. RingIsContiguous' /\ OpenIsRetained'
  BY <1>1, <1>3 DEF Books, RingIsContiguous, OpenIsRetained
<1>5. Balanced(open, byRequest)'
  BY <1>1, TakeBalances DEF Books, Balanced
<1>6. OpenHasOrigin' /\ OpenIdsDiffer'
  BY <1>1, <1>2, <1>3, OpenShrinks
<1>7. SettledIsClosed' /\ SettledOnce'
  BY <1>1, <1>3, SettlingKeepsBooks DEF Reply
<1>8. QueuesGoHome'
  <2>1. CASE UNCHANGED <<ups, decSeq>>
    BY <1>1, <1>2, <2>1, QueuesShrink
  <2>2. CASE QueueDecision(Route(p), "perm", p.request, p.session)
    <3> SUFFICES ASSUME NEW u \in Upstream, NEW i \in 1..Len(ups'[u].decisions),
                        ups'[u].decisions[i].kind = "perm"
                 PROVE  LET d == ups'[u].decisions[i]
                        IN  /\ u \in 1..upSeq'
                            /\ d.request \in Requests
                            /\ asked'[d.request]
                                 = [window |-> ups'[u].window, session |-> d.session]
      BY DEF QueuesGoHome
    <3> DEFINE new == [id |-> decSeq + 1, kind |-> "perm", request |-> p.request,
                       session |-> p.session]
    <3>1. /\ ups'[u].window = ups[u].window
          /\ \/ \E j \in 1..Len(ups[u].decisions) : ups'[u].decisions[i] = ups[u].decisions[j]
             \/ u = p.upstream /\ ups'[u].decisions[i] = new
      BY <1>2, <2>2, QueueDecisionProperties
    <3>2. CASE \E j \in 1..Len(ups[u].decisions) : ups'[u].decisions[i] = ups[u].decisions[j]
      BY <1>1, <3>1, <3>2 DEF Books, QueuesGoHome
    <3>3. CASE u = p.upstream /\ ups'[u].decisions[i] = new
      BY <1>1, <1>2, <3>1, <3>3 DEF Books, OpenHasOrigin
    <3> QED BY <3>1, <3>2, <3>3
  <2> QED BY <2>1, <2>2 DEF Reply
<1> QED BY <1>4, <1>5, <1>6, <1>7, <1>8 DEF Books

(* A prompt typed on the phone queues a decision about no request.         *)
LEMMA PromptStep ==
  ASSUME TypeOK, Books, WindowsStable, RegisteredHaveWindows', NEW s \in SessionIDs, Prompt(s)
  PROVE  Books'
<1> USE DEF ringVars
<1>1. /\ seq' = seq /\ ring' = ring /\ asked' = asked /\ upSeq' = upSeq /\ settled' = settled
      /\ open' = open /\ byRequest' = byRequest
      /\ QueueDecision(sess[s].upstream, "prompt", NoRequest, s)
  BY DEF Prompt
<1>2. /\ seq \in Nat /\ upSeq \in Nat /\ sess[s].upstream \in Upstream
      /\ NoRequest \in Requests \cup {NoRequest}
  BY HubAssumption DEF Prompt, TypeOK, Upstream
<1>3. OpenHasOrigin' /\ OpenIdsDiffer'
  BY <1>1, <1>2, OpenShrinks
<1>4. /\ RingIsContiguous' /\ OpenIsRetained' /\ Balanced(open, byRequest)'
      /\ SettledIsClosed' /\ SettledOnce'
  BY <1>1 DEF Books, RingIsContiguous, OpenIsRetained, Balanced, SettledIsClosed, SettledOnce
<1>5. QueuesGoHome'
  <2> SUFFICES ASSUME NEW u \in Upstream, NEW i \in 1..Len(ups'[u].decisions),
                      ups'[u].decisions[i].kind = "perm"
               PROVE  LET d == ups'[u].decisions[i]
                      IN  /\ u \in 1..upSeq'
                          /\ d.request \in Requests
                          /\ asked'[d.request] = [window |-> ups'[u].window, session |-> d.session]
    BY DEF QueuesGoHome
  <2> DEFINE new == [id |-> decSeq + 1, kind |-> "prompt", request |-> NoRequest,
                     session |-> s]
             up == sess[s].upstream
  <2>1. up \in Upstream /\ QueueDecision(up, "prompt", NoRequest, s)
    BY <1>1, <1>2
  <2> HIDE DEF up
  <2>2. \A v \in Upstream : ups'[v].window = ups[v].window
    BY <1>2, <2>1, QueueDecisionProperties
  <2>3. \A v \in Upstream : \A k \in 1..Len(ups'[v].decisions) :
          \/ \E j \in 1..Len(ups[v].decisions) : ups'[v].decisions[k] = ups[v].decisions[j]
          \/ v = up /\ ups'[v].decisions[k] = new
    BY <1>2, <2>1, QueueDecisionProperties
  <2>4. PICK j \in 1..Len(ups[u].decisions) : ups'[u].decisions[i] = ups[u].decisions[j]
    BY <2>3
  <2> QED BY <1>1, <2>2, <2>4 DEF Books, QueuesGoHome
<1> QED BY <1>3, <1>4, <1>5 DEF Books

(* Every step of the hub keeps the books.                                  *)
LEMMA BooksStep ==
  ASSUME TypeOK, Books, TypeOK', [Next]_vars
  PROVE  Books'
<1> USE DEF ringVars, upVars, sessVars
<1>1. TypeOK /\ Books
  OBVIOUS
<1>3. WindowsStable /\ RegisteredHaveWindows' /\ upSeq' \in Nat
  BY <1>1, WindowsStep DEF Books, TypeOK
<1>4. ASSUME NEW w \in Windows, RegisterUpstream(w) PROVE Books'
  <2>1. \A u \in Upstream : ups'[u].decisions = ups[u].decisions \/ ups'[u].decisions = <<>>
    BY <1>1, <1>4 DEF RegisterUpstream, TypeOK, FreeSlot
  <2> QED BY <1>1, <1>3, <1>4, <2>1, QuietStep DEF RegisterUpstream
<1>5. ASSUME NEW v \in Upstream, RemoveUpstream(v) PROVE Books'
  <2>1. \A u \in Upstream : ups'[u].decisions = ups[u].decisions \/ ups'[u].decisions = <<>>
    BY <1>1, <1>5 DEF RemoveUpstream, TypeOK, UpState
  <2> QED BY <1>1, <1>3, <1>5, <2>1, QuietStep DEF RemoveUpstream
<1>6. ASSUME NEW u \in Upstream, NEW s \in SessionIDs, NEW r \in Requests, IngestPermission(u, s, r)
      PROVE  Books'
  BY <1>1, <1>3, <1>6, PermissionStep
<1>7. ASSUME NEW r \in Requests, IngestReplied(r) PROVE Books'
  BY <1>1, <1>3, <1>7, RepliedStep
<1>8. ASSUME NEW u \in Upstream, NEW s \in SessionIDs, NEW ms \in Times, IngestIdle(u, s, ms)
      PROVE  Books'
  BY <1>1, <1>3, <1>8, NoticeStep DEF IngestIdle
<1>9. ASSUME NEW s \in SessionIDs, IngestError(s) PROVE Books'
  BY <1>1, <1>3, <1>9, NoticeStep DEF IngestError
<1>10. ASSUME NEW p \in open, Reply(p) PROVE Books'
  BY <1>1, <1>3, <1>10, ReplyStep
<1>11. ASSUME NEW s \in SessionIDs, Prompt(s) PROVE Books'
  BY <1>1, <1>3, <1>11, PromptStep
<1>12. ASSUME UNCHANGED <<ringVars, upVars, asked, settled>> PROVE Books'
  BY <1>1, <1>3, <1>12, QuietStep
<1> QED BY <1>4, <1>5, <1>6, <1>7, <1>8, <1>9, <1>10, <1>11, <1>12
           DEF Next, vars, IngestMessage, IngestSessionInfo, IngestSessionDeleted,
               IngestSessionStatus, Tick

--------------------------------------------------------------------------------
(* The session registry.                                                   *)

(* What a step does to the sessions: a conversation grows past the newest  *)
(* cursor, and no envelope is newly advertised but those of N, a set of    *)
(* sessions with an envelope.                                              *)
Moves(N) ==
  \A s \in known' :
    /\ IdsDiffer(sess'[s].conv)
    /\ s \in known => ChangesVisible(sess[s], sess'[s])
    /\ \A e \in Nat \ {NoEnv} : Advertises(sess'[s], e) =>
         (s \in known /\ Advertises(sess[s], e)) \/ <<s, e>> \in N

(* Two session states with the same conversation and badge.                *)
SamePanel(old, new) ==
  new.conv = old.conv /\ new.convSeq = old.convSeq /\ new.prompt = old.prompt

(* Such states advertise the same envelopes and hide no change.            *)
LEMMA SamePanelIsVisible ==
  ASSUME NEW old, NEW new, old.conv \in Seq(Entry), SamePanel(old, new)
  PROVE  /\ ChangesVisible(old, new)
         /\ \A e : Advertises(new, e) <=> Advertises(old, e)
BY DEF SamePanel, ChangesVisible, Advertises

(* An entry put into a conversation under a fresh position is a change     *)
(* past the old cursor, and the only thing the conversation can newly      *)
(* advertise.                                                              *)
LEMMA PutIsVisible ==
  ASSUME NEW old, NEW new, NEW entry \in Entry, old.convSeq \in Nat,
         new.convSeq = entry.seq, old.convSeq < entry.seq,
         \A i \in 1..Len(new.conv) :
           new.conv[i] = entry \/ \E j \in 1..Len(old.conv) : old.conv[j] = new.conv[i],
         \E i \in 1..Len(new.conv) : new.conv[i] = entry
  PROVE  /\ ChangesVisible(old, new)
         /\ \A e : Advertises(new, e) =>
              \/ new.prompt = e
              \/ Advertises(old, e)
              \/ entry.id = EvtID(e) /\ entry.type = "perm"
<1>1. entry.seq \in Nat
  BY DEF Entry
<1> QED BY <1>1 DEF ChangesVisible, Advertises

(* appendConv puts one entry under the next position.                      *)
LEMMA AppendConvProperties ==
  ASSUME NEW state \in Session, NEW id \in ConvID, NEW type \in {"perm", "gone", "msg"},
         IdsDiffer(state.conv)
  PROVE  LET new == AppendConv(state, id, type)
             entry == [id |-> id, seq |-> state.convSeq + 1, type |-> type]
         IN  /\ entry \in Entry /\ new.convSeq = entry.seq
             /\ \A i \in 1..Len(new.conv) :
                  new.conv[i] = entry \/ \E j \in 1..Len(state.conv) : state.conv[j] = new.conv[i]
             /\ \E i \in 1..Len(new.conv) : new.conv[i] = entry
             /\ IdsDiffer(new.conv)
<1> DEFINE entry == [id |-> id, seq |-> state.convSeq + 1, type |-> type]
           put == PutConv(state.conv, entry, ConvSize)
<1>1. entry \in Entry /\ ConvSize \in Nat \ {0} /\ state.conv \in Seq(Entry)
  BY HubAssumption DEF Entry, Session
<1>2. AppendConv(state, id, type).conv = put /\ AppendConv(state, id, type).convSeq = entry.seq
  BY DEF AppendConv, Session
<1> HIDE DEF entry
<1>3. /\ \A i \in 1..Len(put) :
           put[i] = entry \/ \E j \in 1..Len(state.conv) : state.conv[j] = put[i]
      /\ \E i \in 1..Len(put) : put[i] = entry
      /\ \A i, j \in 1..Len(put) : put[i].id = put[j].id => i = j
  BY <1>1, PutConvProperties, SMTT(30) DEF IdsDiffer
<1> QED BY <1>1, <1>2, <1>3 DEF IdsDiffer, entry

(* clearSessionPromptLocked leaves the session without a trace of the      *)
(* prompt but the "gone" under a fresh position, and advertises nothing    *)
(* the session did not advertise.                                          *)
LEMMA ClearedProperties ==
  ASSUME NEW state \in Session, NEW env \in Nat \ {NoEnv}, IdsDiffer(state.conv)
  PROVE  LET new == Cleared(state, env)
         IN  /\ ChangesVisible(state, new) /\ IdsDiffer(new.conv)
             /\ \A e \in Nat \ {NoEnv} : Advertises(new, e) => Advertises(state, e) /\ e # env
<1> DEFINE entry == [id |-> EvtID(env), seq |-> state.convSeq + 1, type |-> "gone"]
           f == FirstEntry(state.conv, EvtID(env))
           conv == [state.conv EXCEPT ![f] = entry]
           unbadged == IF state.prompt = env THEN [state EXCEPT !.prompt = NoEnv] ELSE state
           new == Cleared(state, env)
<1>1. /\ entry \in Entry /\ state.conv \in Seq(Entry) /\ state.convSeq \in Nat
      /\ state.prompt \in Nat /\ NoEnv \in Nat
  BY DEF Entry, EvtID, ConvID, Session, NoEnv
<1>2. /\ unbadged.conv = state.conv /\ unbadged.convSeq = state.convSeq
      /\ unbadged.prompt = IF state.prompt = env THEN NoEnv ELSE state.prompt
      /\ unbadged \in Session
  BY DEF Session, NoEnv
<1>3. \A e : (EvtID(e) = EvtID(env)) <=> (e = env)
  BY DEF EvtID
<1>4. CASE ~HasEntry(state.conv, EvtID(env))
  <2>1. new = unbadged
    BY <1>4 DEF Cleared
  <2>2. \A i \in 1..Len(state.conv) : state.conv[i].id # EvtID(env)
    BY <1>1, <1>4, LenProperties DEF HasEntry
  <2> HIDE DEF new, unbadged
  <2>3. ChangesVisible(state, new) /\ IdsDiffer(new.conv)
    BY <1>2, <2>1 DEF ChangesVisible
  <2>4. ASSUME NEW e \in Nat \ {NoEnv}, Advertises(new, e)
        PROVE  Advertises(state, e) /\ e # env
    BY <1>2, <1>3, <2>1, <2>2, <2>4 DEF Advertises
  <2> QED BY <2>3, <2>4 DEF new
<1>5. CASE HasEntry(state.conv, EvtID(env))
  <2>1. f \in 1..Len(state.conv) /\ state.conv[f].id = EvtID(env)
    BY <1>1, <1>5, FirstEntryProperties DEF IdsDiffer
  <2>2. new = [unbadged EXCEPT !.convSeq = state.convSeq + 1, !.conv = conv]
    BY <1>2, <1>5 DEF Cleared, Session
  <2>3. new.conv = conv /\ new.convSeq = state.convSeq + 1 /\ new.prompt = unbadged.prompt
    <3> HIDE DEF conv, new, unbadged
    <3> QED BY <1>2, <2>2 DEF Session
  <2> HIDE DEF entry, f, new, unbadged
  <2>4. /\ Len(conv) = Len(state.conv)
        /\ \A i \in 1..Len(conv) : conv[i] = IF i = f THEN entry ELSE state.conv[i]
    BY <1>1, <2>1, ExceptSeq
  <2> HIDE DEF conv
  <2>5. entry.id = EvtID(env) /\ entry.seq = state.convSeq + 1 /\ entry.type = "gone"
    BY DEF entry
  <2>6. IdsDiffer(new.conv)
    BY <2>1, <2>3, <2>4, <2>5 DEF IdsDiffer
  <2>7. ChangesVisible(state, new)
    <3>1. \A i \in 1..Len(conv) :
            conv[i] = entry \/ \E j \in 1..Len(state.conv) : state.conv[j] = conv[i]
      BY <2>4
    <3>2. \E i \in 1..Len(conv) : conv[i] = entry
      BY <2>1, <2>4
    <3> QED BY <1>1, <2>3, <2>5, <3>1, <3>2, PutIsVisible
  <2>8. \A i \in 1..Len(conv) : i # f => conv[i].id # EvtID(env)
    BY <2>1, <2>4 DEF IdsDiffer
  <2>9. ASSUME NEW e \in Nat \ {NoEnv}, Advertises(new, e)
        PROVE  Advertises(state, e) /\ e # env
    <3>1. CASE new.prompt = e
      BY <1>2, <2>3, <2>9, <3>1 DEF Advertises
    <3>2. CASE \E i \in 1..Len(new.conv) :
                 new.conv[i].id = EvtID(e) /\ new.conv[i].type = "perm"
      <4>1. PICK i \in 1..Len(conv) : conv[i].id = EvtID(e) /\ conv[i].type = "perm"
        BY <2>3, <3>2
      <4>2. i # f
        BY <2>4, <2>5, <4>1
      <4> QED BY <2>4, <2>8, <4>1, <4>2 DEF Advertises
    <3> QED BY <2>9, <3>1, <3>2 DEF Advertises
  <2> QED BY <2>6, <2>7, <2>9 DEF new
<1> QED BY <1>4, <1>5

(* getOrCreateSessionLocked keeps the panel of a known session and gives a *)
(* new one an empty panel.                                                 *)
LEMMA GetOrCreateProperties ==
  ASSUME TypeOK, ConvIdsDiffer, NEW u \in Upstream, NEW s \in SessionIDs
  PROVE  LET base == GetOrCreate(u, s)
         IN  /\ IdsDiffer(base.conv)
             /\ s \in known => SamePanel(sess[s], base)
             /\ s \notin known => base.conv = <<>> /\ base.prompt = NoEnv
<1>1. CASE s \in known
  <2>1. SamePanel(sess[s], GetOrCreate(u, s))
    BY <1>1 DEF GetOrCreate, TypeOK, Session, SamePanel
  <2> QED BY <1>1, <2>1 DEF SamePanel, ConvIdsDiffer
<1>2. CASE s \notin known
  <2>1. GetOrCreate(u, s).conv = <<>> /\ GetOrCreate(u, s).prompt = NoEnv
    BY <1>2 DEF GetOrCreate, NoSess
  <2> QED BY <1>2, <2>1 DEF IdsDiffer
<1> QED BY <1>1, <1>2

(* Storing a session moves the sessions as far as its new state does.      *)
LEMMA StoreMoves ==
  ASSUME TypeOK, ConvIdsDiffer, NEW s \in SessionIDs, NEW state, Store(s, state), NEW N,
         IdsDiffer(state.conv),
         s \in known => ChangesVisible(sess[s], state),
         \A e \in Nat \ {NoEnv} : Advertises(state, e) =>
           (s \in known /\ Advertises(sess[s], e)) \/ <<s, e>> \in N
  PROVE  Moves(N)
<1> SUFFICES ASSUME NEW x \in known'
             PROVE  /\ IdsDiffer(sess'[x].conv)
                    /\ x \in known => ChangesVisible(sess[x], sess'[x])
                    /\ \A e \in Nat \ {NoEnv} : Advertises(sess'[x], e) =>
                         (x \in known /\ Advertises(sess[x], e)) \/ <<x, e>> \in N
  BY DEF Moves
<1>1. CASE x = s
  <2>1. sess'[x] = state
    BY <1>1 DEF Store
  <2> QED BY <1>1, <2>1
<1>2. CASE x # s
  <2>1. x \in known /\ sess'[x] = sess[x]
    BY <1>2 DEF Store, TypeOK
  <2>2. sess[x].conv \in Seq(Entry)
    BY <2>1 DEF TypeOK, Session
  <2>3. ChangesVisible(sess[x], sess'[x])
    BY <2>1, <2>2, SamePanelIsVisible DEF SamePanel
  <2> QED BY <2>1, <2>3 DEF ConvIdsDiffer
<1> QED BY <1>1, <1>2

(* Storing a session with the panel it had (or an empty one) advertises    *)
(* nothing new.                                                            *)
LEMMA TouchMoves ==
  ASSUME TypeOK, ConvIdsDiffer, NEW u \in Upstream, NEW s \in SessionIDs, NEW state,
         SamePanel(GetOrCreate(u, s), state), Store(s, state)
  PROVE  Moves({})
<1> DEFINE base == GetOrCreate(u, s)
<1>1. /\ IdsDiffer(base.conv)
      /\ s \in known => SamePanel(sess[s], base)
      /\ s \notin known => base.conv = <<>> /\ base.prompt = NoEnv
  BY GetOrCreateProperties
<1> HIDE DEF base
<1>2. IdsDiffer(state.conv)
  BY <1>1 DEF SamePanel, base
<1>3. CASE s \in known
  <2>1. sess[s].conv \in Seq(Entry) /\ SamePanel(sess[s], state)
    BY <1>1, <1>3 DEF SamePanel, TypeOK, Session, base
  <2>2. /\ ChangesVisible(sess[s], state)
        /\ \A e : Advertises(state, e) <=> Advertises(sess[s], e)
    BY <2>1, SamePanelIsVisible
  <2> QED BY <1>2, <1>3, <2>2, StoreMoves
<1>4. CASE s \notin known
  <2>1. \A e \in Nat \ {NoEnv} : ~Advertises(state, e)
    BY <1>1, <1>4 DEF SamePanel, Advertises, base
  <2> QED BY <1>2, <1>4, <2>1, StoreMoves
<1> QED BY <1>3, <1>4

(* Storing a session with an entry more advertises at most that entry and  *)
(* the badge it was given.                                                 *)
LEMMA AppendMoves ==
  ASSUME TypeOK, ConvIdsDiffer, NEW u \in Upstream, NEW s \in SessionIDs,
         NEW state \in Session,
         state.conv = GetOrCreate(u, s).conv,
         state.convSeq >= GetOrCreate(u, s).convSeq,
         NEW id \in ConvID, NEW type \in {"perm", "gone", "msg"},
         Store(s, AppendConv(state, id, type)),
         NEW N,
         state.prompt = GetOrCreate(u, s).prompt \/ <<s, state.prompt>> \in N,
         \A e : id = EvtID(e) /\ type = "perm" => <<s, e>> \in N
  PROVE  Moves(N)
<1> DEFINE base == GetOrCreate(u, s)
           new == AppendConv(state, id, type)
           entry == [id |-> id, seq |-> state.convSeq + 1, type |-> type]
<1>1. /\ IdsDiffer(base.conv)
      /\ s \in known => SamePanel(sess[s], base)
      /\ s \notin known => base.conv = <<>> /\ base.prompt = NoEnv
  BY GetOrCreateProperties
<1>2. /\ entry \in Entry /\ new.convSeq = entry.seq
      /\ \A i \in 1..Len(new.conv) :
           new.conv[i] = entry \/ \E j \in 1..Len(state.conv) : state.conv[j] = new.conv[i]
      /\ \E i \in 1..Len(new.conv) : new.conv[i] = entry
      /\ IdsDiffer(new.conv)
  BY <1>1, AppendConvProperties
<1>3. new.prompt = state.prompt
  BY AppendConvType
<1>4. base.convSeq \in Nat /\ state.convSeq \in Nat
  BY GetOrCreateType DEF Session
<1>5. base.convSeq < entry.seq /\ entry.id = id /\ entry.type = type
  BY <1>4
<1> HIDE DEF new, entry, base
<1>6. state.conv = base.conv /\ (state.prompt = base.prompt \/ <<s, state.prompt>> \in N)
  BY DEF base
<1>7. /\ ChangesVisible(base, new)
      /\ \A e : Advertises(new, e) =>
           \/ new.prompt = e \/ Advertises(base, e)
           \/ entry.id = EvtID(e) /\ entry.type = "perm"
  <2>1. \A i \in 1..Len(new.conv) :
          new.conv[i] = entry \/ \E j \in 1..Len(base.conv) : base.conv[j] = new.conv[i]
    BY <1>2, <1>6
  <2> QED BY <1>2, <1>4, <1>5, <2>1, PutIsVisible
<1>8. \A e : Advertises(new, e) => Advertises(base, e) \/ <<s, e>> \in N
  BY <1>3, <1>5, <1>6, <1>7 DEF Advertises
<1>9. CASE s \in known
  <2>1. ChangesVisible(sess[s], new) /\ \A e : Advertises(base, e) => Advertises(sess[s], e)
    BY <1>1, <1>7, <1>9 DEF SamePanel, ChangesVisible, Advertises
  <2> QED BY <1>2, <1>8, <1>9, <2>1, StoreMoves DEF new
<1>10. CASE s \notin known
  <2>1. \A e \in Nat \ {NoEnv} : ~Advertises(base, e)
    BY <1>1, <1>10 DEF Advertises
  <2> QED BY <1>2, <1>8, <1>10, <2>1, StoreMoves DEF new
<1> QED BY <1>9, <1>10

(* Retracting a prompt advertises nothing new, and its session no longer   *)
(* advertises it.                                                          *)
LEMMA ClearMoves ==
  ASSUME TypeOK, ConvIdsDiffer, NEW s \in SessionIDs, NEW env \in Nat \ {NoEnv},
         ClearPrompt(s, env)
  PROVE  Moves({}) /\ (s \in known' => ~Advertises(sess'[s], env))
<1>1. known' = known /\ \A x \in known : sess[x] \in Session /\ sess[x].conv \in Seq(Entry)
  BY DEF ClearPrompt, TypeOK, Session
<1>2. ASSUME NEW x \in known, x # s \/ s \notin known PROVE sess'[x] = sess[x]
  BY <1>2 DEF ClearPrompt, TypeOK
<1>3. s \in known => sess'[s] = Cleared(sess[s], env)
  BY DEF ClearPrompt, TypeOK
<1>4. s \in known =>
        /\ ChangesVisible(sess[s], sess'[s]) /\ IdsDiffer(sess'[s].conv)
        /\ \A e \in Nat \ {NoEnv} :
             Advertises(sess'[s], e) => Advertises(sess[s], e) /\ e # env
  BY <1>1, <1>3, ClearedProperties DEF ConvIdsDiffer
<1>5. ASSUME NEW x \in known
      PROVE  /\ IdsDiffer(sess'[x].conv)
             /\ ChangesVisible(sess[x], sess'[x])
             /\ \A e \in Nat \ {NoEnv} : Advertises(sess'[x], e) => Advertises(sess[x], e)
  <2>1. CASE x = s
    BY <1>4, <2>1
  <2>2. CASE x # s
    <3>1. ChangesVisible(sess[x], sess'[x])
      BY <1>1, <1>2, <2>2, SamePanelIsVisible DEF SamePanel
    <3> QED BY <1>2, <2>2, <3>1 DEF ConvIdsDiffer
  <2> QED BY <2>1, <2>2
<1> QED BY <1>1, <1>4, <1>5 DEF Moves

(* A step that changes no panel and adds no session.                       *)
LEMMA IdleMoves ==
  ASSUME TypeOK, ConvIdsDiffer, known' \subseteq known,
         \A s \in known' : SamePanel(sess[s], sess'[s])
  PROVE  Moves({})
<1> SUFFICES ASSUME NEW s \in known'
             PROVE  /\ IdsDiffer(sess'[s].conv)
                    /\ ChangesVisible(sess[s], sess'[s])
                    /\ \A e \in Nat \ {NoEnv} : Advertises(sess'[s], e) => Advertises(sess[s], e)
  BY DEF Moves
<1>1. sess[s].conv \in Seq(Entry)
  BY DEF TypeOK, Session
<1> QED BY <1>1, SamePanelIsVisible DEF SamePanel, ConvIdsDiffer

(* SessionInv but for the size of the registry: what a step has to keep.   *)
Board ==
  /\ ConvIdsDiffer /\ PromptsArePublished
  /\ AdvertisedIsPublished /\ AdvertisedIsOwn /\ SettledIsNotAdvertised

(* The ids still to come only get fewer.                                   *)
LEMMA LaterIds ==
  ASSUME NEW a \in Nat, NEW b \in Nat, a <= b, NEW m \in Nat, NEW e \in (b + 1)..m
  PROVE  e \in (a + 1)..m /\ e \in Nat \ {NoEnv}
BY DEF NoEnv

(* A step that advertises and settles nothing keeps the board.             *)
LEMMA QuietBoard ==
  ASSUME TypeOK, Board, Moves({}), open' \subseteq open, settled' = settled,
         seq' \in Nat, seq <= seq'
  PROVE  Board'
<1>1. seq \in Nat /\ \A s \in known', e \in Nat \ {NoEnv} :
        Advertises(sess'[s], e) => s \in known /\ Advertises(sess[s], e)
  BY DEF TypeOK, Moves
<1>2. ConvIdsDiffer'
  BY DEF Moves, ConvIdsDiffer
<1>3. PromptsArePublished'
  BY <1>1 DEF Board, PromptsArePublished
<1>4. AdvertisedIsPublished'
  <2> SUFFICES ASSUME NEW s \in known', NEW e \in (seq' + 1)..MaxSeq, Advertises(sess'[s], e)
               PROVE  FALSE
    BY DEF AdvertisedIsPublished
  <2>1. e \in (seq + 1)..MaxSeq /\ e \in Nat \ {NoEnv}
    BY <1>1, LaterIds, HubAssumption
  <2> QED BY <1>1, <2>1 DEF Board, AdvertisedIsPublished
<1>5. \A p \in open : p.id \in Nat \ {NoEnv}
  BY <1>1 DEF Board, PromptsArePublished, NoEnv
<1>6. AdvertisedIsOwn'
  BY <1>1, <1>5 DEF Board, AdvertisedIsOwn
<1>7. \A a \in settled : a.env \in Nat \ {NoEnv}
  BY <1>1 DEF Board, PromptsArePublished, NoEnv
<1>8. SettledIsNotAdvertised'
  BY <1>1, <1>7 DEF Board, SettledIsNotAdvertised
<1> QED BY <1>2, <1>3, <1>4, <1>6, <1>8 DEF Board

(* A prompt that opens is advertised by its own session, under an id that  *)
(* nothing was settled or advertised under.                                *)
LEMMA OpeningBoard ==
  ASSUME TypeOK, Board, NEW s \in SessionIDs, NEW p, p.id = seq + 1, p.session = s,
         Moves({<<s, seq + 1>>}), open' \subseteq open \cup {p}, settled' = settled,
         seq' = seq + 1, seq < MaxSeq
  PROVE  Board'
<1>1. /\ seq \in Nat /\ MaxSeq \in Nat /\ seq + 1 \in Nat \ {NoEnv}
      /\ \A x \in known', e \in Nat \ {NoEnv} :
           Advertises(sess'[x], e) =>
             (x \in known /\ Advertises(sess[x], e)) \/ (x = s /\ e = seq + 1)
  BY HubAssumption DEF TypeOK, Moves, NoEnv
<1>2. ConvIdsDiffer'
  BY DEF Moves, ConvIdsDiffer
<1>3. PromptsArePublished'
  BY <1>1 DEF Board, PromptsArePublished
<1>4. AdvertisedIsPublished'
  <2> SUFFICES ASSUME NEW x \in known', NEW e \in (seq' + 1)..MaxSeq, Advertises(sess'[x], e)
               PROVE  FALSE
    BY DEF AdvertisedIsPublished
  <2>1. e \in (seq + 1)..MaxSeq /\ e \in Nat \ {NoEnv} /\ e # seq + 1
    BY <1>1 DEF NoEnv
  <2> QED BY <1>1, <2>1 DEF Board, AdvertisedIsPublished
<1>5. \A q \in open : q.id \in Nat \ {NoEnv} /\ q.id # seq + 1
  BY <1>1 DEF Board, PromptsArePublished, NoEnv
<1>6. AdvertisedIsOwn'
  <2> SUFFICES ASSUME NEW x \in known', NEW q \in open', Advertises(sess'[x], q.id)
               PROVE  q.session = x
    BY DEF AdvertisedIsOwn
  <2>1. CASE q \in open
    BY <1>1, <1>5, <2>1 DEF Board, AdvertisedIsOwn
  <2>2. CASE q = p
    <3>1. seq + 1 \in (seq + 1)..MaxSeq
      BY <1>1
    <3> QED BY <1>1, <2>2, <3>1 DEF Board, AdvertisedIsPublished
  <2> QED BY <2>1, <2>2
<1>7. \A a \in settled : a.env \in Nat \ {NoEnv} /\ a.env # seq + 1
  BY <1>1 DEF Board, PromptsArePublished, NoEnv
<1>8. SettledIsNotAdvertised'
  BY <1>1, <1>7 DEF Board, SettledIsNotAdvertised
<1> QED BY <1>2, <1>3, <1>4, <1>6, <1>8 DEF Board

(* A prompt that is settled was advertised by its own session at most, and *)
(* that one has retracted it.                                              *)
LEMMA SettlingBoard ==
  ASSUME TypeOK, Board, NEW p \in open, NEW n, ClearPrompt(p.session, p.id),
         open' \subseteq open,
         settled' = settled \cup {[env |-> p.id, request |-> p.request, dec |-> n]},
         seq' \in Nat, seq <= seq'
  PROVE  Board' /\ Moves({})
<1>1. seq \in Nat /\ p.session \in SessionIDs /\ p.id \in Nat \ {NoEnv} /\ p.id \in 1..seq
  BY DEF TypeOK, Pending, Board, PromptsArePublished, NoEnv
<1>2. Moves({}) /\ (p.session \in known' => ~Advertises(sess'[p.session], p.id))
  BY <1>1, ClearMoves DEF Board
<1>3. \A s \in known', e \in Nat \ {NoEnv} :
        Advertises(sess'[s], e) => s \in known /\ Advertises(sess[s], e)
  BY <1>2 DEF Moves
<1>4. ConvIdsDiffer'
  BY <1>2 DEF Moves, ConvIdsDiffer
<1>5. PromptsArePublished'
  BY <1>1 DEF Board, PromptsArePublished
<1>6. AdvertisedIsPublished'
  <2> SUFFICES ASSUME NEW s \in known', NEW e \in (seq' + 1)..MaxSeq, Advertises(sess'[s], e)
               PROVE  FALSE
    BY DEF AdvertisedIsPublished
  <2>1. e \in (seq + 1)..MaxSeq /\ e \in Nat \ {NoEnv}
    BY <1>1, LaterIds, HubAssumption
  <2> QED BY <1>3, <2>1 DEF Board, AdvertisedIsPublished
<1>7. \A q \in open : q.id \in Nat \ {NoEnv}
  BY <1>1 DEF Board, PromptsArePublished, NoEnv
<1>8. AdvertisedIsOwn'
  BY <1>3, <1>7 DEF Board, AdvertisedIsOwn
<1>9. \A a \in settled : a.env \in Nat \ {NoEnv}
  BY <1>1 DEF Board, PromptsArePublished, NoEnv
<1>10. \A s \in known' : ~Advertises(sess'[s], p.id)
  BY <1>1, <1>2, <1>3 DEF Board, AdvertisedIsOwn
<1>11. SettledIsNotAdvertised'
  BY <1>3, <1>9, <1>10 DEF Board, SettledIsNotAdvertised
<1> QED BY <1>2, <1>4, <1>5, <1>6, <1>8, <1>11 DEF Board

(* A new permission moves at most its own session, to its own envelope.    *)
LEMMA PermissionMoves ==
  ASSUME TypeOK, ConvIdsDiffer,
         NEW u \in Upstream, NEW s \in SessionIDs, NEW r \in Requests, IngestPermission(u, s, r)
  PROVE  Moves({<<s, seq + 1>>})
<1> DEFINE base == GetOrCreate(u, s)
           badged == [base EXCEPT !.prompt = seq + 1, !.updated = Touch(base.updated, clock)]
<1>1. seq + 1 \in Nat /\ EvtID(seq + 1) \in ConvID
  BY DEF TypeOK, EvtID, ConvID
<1>2. CASE UNCHANGED sessVars
  <2>1. Moves({})
    BY <1>2, IdleMoves DEF sessVars, SamePanel
  <2> QED BY <2>1 DEF Moves
<1>3. CASE TrackPrompt(u, s, seq + 1)
  <2>1. base \in Session
    BY GetOrCreateType
  <2>2. Touch(base.updated, clock) \in Times
    BY <2>1, TouchType DEF Session, TypeOK
  <2>3. /\ badged \in Session /\ badged.conv = base.conv /\ badged.convSeq = base.convSeq
        /\ badged.prompt = seq + 1 /\ base.convSeq \in Nat
    BY <1>1, <2>1, <2>2 DEF Session
  <2>4. Store(s, AppendConv(badged, EvtID(seq + 1), "perm"))
    BY <1>3 DEF TrackPrompt
  <2>5. \A e : EvtID(seq + 1) = EvtID(e) /\ "perm" = "perm" => <<s, e>> \in {<<s, seq + 1>>}
    BY DEF EvtID
  <2> HIDE DEF badged, base
  <2>6. /\ badged \in Session /\ badged.conv = GetOrCreate(u, s).conv
        /\ badged.convSeq >= GetOrCreate(u, s).convSeq
        /\ badged.prompt = GetOrCreate(u, s).prompt \/ <<s, badged.prompt>> \in {<<s, seq + 1>>}
    BY <2>3 DEF base
  <2>7. Store(s, AppendConv(badged, EvtID(seq + 1), "perm"))
    BY <2>4 DEF badged, base
  <2> QED BY <1>1, <2>5, <2>6, <2>7, AppendMoves
<1> QED BY <1>2, <1>3 DEF IngestPermission

(* A message adds to its session's conversation, and no prompt.            *)
LEMMA MessageMoves ==
  ASSUME TypeOK, ConvIdsDiffer,
         NEW u \in Upstream, NEW s \in SessionIDs, NEW ms \in Times, IngestMessage(u, s, ms)
  PROVE  Moves({})
<1> DEFINE base == GetOrCreate(u, s)
           touched == [base EXCEPT !.updated = Touch(base.updated, ms)]
           numbered == [touched EXCEPT !.convSeq = base.convSeq + 1]
<1>1. base \in Session
  BY GetOrCreateType
<1>2. Touch(base.updated, ms) \in Times /\ base.convSeq \in Nat /\ base.convSeq + 1 \in Nat
  BY <1>1, TouchType DEF Session
<1>3. /\ touched \in Session /\ touched.conv = base.conv /\ touched.prompt = base.prompt
      /\ touched.convSeq = base.convSeq
  BY <1>1, <1>2 DEF Session
<1>4. /\ numbered \in Session /\ numbered.conv = base.conv /\ numbered.prompt = base.prompt
      /\ numbered.convSeq = base.convSeq + 1
  <2> HIDE DEF touched
  <2> QED BY <1>2, <1>3 DEF Session
<1> HIDE DEF numbered, touched
<1>7. /\ touched \in Session /\ touched.conv = GetOrCreate(u, s).conv
      /\ touched.convSeq >= GetOrCreate(u, s).convSeq
      /\ touched.prompt = GetOrCreate(u, s).prompt
      /\ \A e, id : id = EvtID(e) /\ "msg" = "perm" => <<s, e>> \in {}
  BY <1>2, <1>3
<1>8. /\ numbered \in Session /\ numbered.conv = GetOrCreate(u, s).conv
      /\ numbered.convSeq >= GetOrCreate(u, s).convSeq
      /\ numbered.prompt = GetOrCreate(u, s).prompt
      /\ \A e, id : id = EvtID(e) /\ "msg" = "perm" => <<s, e>> \in {}
  BY <1>2, <1>4
<1>5. CASE \E n \in Parts : Store(s, AppendConv(touched, [space |-> "part", n |-> n], "msg"))
  <2>1. PICK n \in Parts : Store(s, AppendConv(touched, [space |-> "part", n |-> n], "msg"))
    BY <1>5
  <2>2. [space |-> "part", n |-> n] \in ConvID
    BY HubAssumption DEF ConvID
  <2> QED BY <1>7, <2>1, <2>2, AppendMoves
<1>6. CASE Store(s, AppendConv(numbered, [space |-> "anon", n |-> base.convSeq + 1], "msg"))
  <2>1. [space |-> "anon", n |-> base.convSeq + 1] \in ConvID
    BY <1>2 DEF ConvID
  <2>2. Store(s, AppendConv(numbered, [space |-> "anon", n |-> base.convSeq + 1], "msg"))
    BY <1>6
  <2> QED BY <1>8, <2>1, <2>2, AppendMoves
<1> QED BY <1>5, <1>6 DEF IngestMessage, touched, numbered

(* A status report and a session's labels leave its panel alone.           *)
LEMMA StatusMoves ==
  ASSUME TypeOK, ConvIdsDiffer, NEW u \in Upstream, NEW s \in SessionIDs, NEW ms \in Times,
         \/ \E st \in Statuses : SetStatus(u, s, st, ms)
         \/ IngestSessionInfo(u, s, ms)
  PROVE  Moves({})
<1> DEFINE base == GetOrCreate(u, s)
<1>1. base \in Session
  BY GetOrCreateType
<1>2. ASSUME NEW st \in Statuses, SetStatus(u, s, st, ms) PROVE Moves({})
  <2> DEFINE new == [base EXCEPT !.status = st, !.updated = Touch(base.updated, ms)]
  <2>1. SamePanel(base, new)
    BY <1>1 DEF SamePanel, Session
  <2>2. Store(s, new)
    BY <1>2 DEF SetStatus
  <2> HIDE DEF new
  <2> QED BY <2>1, <2>2, TouchMoves
<1>3. CASE IngestSessionInfo(u, s, ms)
  <2> DEFINE new == [base EXCEPT !.updated = Touch(base.updated, ms)]
  <2>1. SamePanel(base, new)
    BY <1>1 DEF SamePanel, Session
  <2> HIDE DEF new
  <2>2. Store(s, new)
    BY <1>3 DEF IngestSessionInfo, new
  <2> QED BY <2>1, <2>2, TouchMoves
<1> QED BY <1>2, <1>3

(* Every step of the hub keeps the board.                                  *)
LEMMA BoardStep ==
  ASSUME TypeOK, Books, Board, [Next]_vars
  PROVE  Board' /\ \E N : Moves(N)
<1> USE DEF ringVars, upVars, sessVars
<1>1. seq \in Nat /\ seq <= seq /\ seq + 1 \in Nat /\ seq <= seq + 1
  BY DEF TypeOK
<1>2. ConvIdsDiffer /\ RingIsContiguous /\ NoSess.conv = <<>>
  BY DEF Board, Books, NoSess
<1>3. ASSUME UNCHANGED <<ringVars, settled>>, known' \subseteq known,
             \A s \in known' : SamePanel(sess[s], sess'[s])
      PROVE  Board' /\ \E N : Moves(N)
  <2>1. Moves({})
    BY <1>2, <1>3, IdleMoves
  <2> QED BY <1>1, <1>3, <2>1, QuietBoard
<1>4. ASSUME UNCHANGED <<ringVars, settled>>, Moves({}) PROVE Board' /\ \E N : Moves(N)
  BY <1>1, <1>4, QuietBoard
<1>5. ASSUME NEW w \in Windows, RegisterUpstream(w) PROVE Board' /\ \E N : Moves(N)
  BY <1>3, <1>5 DEF RegisterUpstream, SamePanel
<1>6. ASSUME NEW u \in Upstream, RemoveUpstream(u) PROVE Board' /\ \E N : Moves(N)
  <2>1. known' \subseteq known /\ \A s \in known' : sess'[s] = sess[s]
    BY <1>6 DEF RemoveUpstream, TypeOK
  <2> QED BY <1>3, <1>6, <2>1 DEF RemoveUpstream, SamePanel
<1>7. ASSUME NEW u \in Upstream, NEW s \in SessionIDs, NEW r \in Requests,
             IngestPermission(u, s, r)
      PROVE  Board' /\ \E N : Moves(N)
  <2> DEFINE p == [id |-> seq + 1, upstream |-> u, request |-> r, session |-> s]
  <2>1. Moves({<<s, seq + 1>>})
    BY <1>2, <1>7, PermissionMoves
  <2>2. p.id = seq + 1 /\ p.session = s
    OBVIOUS
  <2>3. open' \subseteq open \cup {p} /\ settled' = settled /\ seq' = seq + 1 /\ seq < MaxSeq
    BY <1>7 DEF IngestPermission, KeptOpen, Publish
  <2> HIDE DEF p
  <2> QED BY <2>1, <2>2, <2>3, OpeningBoard
<1>8. ASSUME NEW r \in Requests, IngestReplied(r) PROVE Board' /\ \E N : Moves(N)
  <2>1. PICK p \in open :
          /\ p.id = byRequest[r]
          /\ Publish("gone", p.session, p.id)
          /\ open' = KeptOpen(TakePrompt(p))
          /\ ClearPrompt(p.session, p.id)
          /\ settled' = settled \cup {[env |-> p.id, request |-> r, dec |-> 0]}
    BY <1>8 DEF IngestReplied
  <2>2. p.request = r
    BY <1>8, <2>1 DEF IngestReplied, Books, Balanced, OpenIdsDiffer
  <2>3. open' \subseteq open /\ seq' = seq + 1
    BY <2>1 DEF KeptOpen, TakePrompt, Publish
  <2> QED BY <1>1, <2>1, <2>2, <2>3, SettlingBoard
<1>9. ASSUME NEW u \in Upstream, NEW s \in SessionIDs, NEW ms \in Times, IngestMessage(u, s, ms)
      PROVE  Board' /\ \E N : Moves(N)
  <2>1. Moves({})
    BY <1>2, <1>9, MessageMoves
  <2> QED BY <1>4, <1>9, <2>1 DEF IngestMessage
<1>10. ASSUME NEW u \in Upstream, NEW s \in SessionIDs, NEW ms \in Times,
              IngestSessionInfo(u, s, ms)
       PROVE  Board' /\ \E N : Moves(N)
  BY <1>2, <1>4, <1>10, StatusMoves DEF IngestSessionInfo
<1>11. ASSUME NEW s \in SessionIDs, IngestSessionDeleted(s) PROVE Board' /\ \E N : Moves(N)
  <2>1. known' \subseteq known /\ \A x \in known' : sess'[x] = sess[x]
    BY <1>11 DEF IngestSessionDeleted, TypeOK
  <2> QED BY <1>3, <1>11, <2>1 DEF IngestSessionDeleted, SamePanel
<1>12. ASSUME NEW u \in Upstream, NEW s \in SessionIDs, NEW st \in Reports, NEW ms \in Times,
              IngestSessionStatus(u, s, st, ms)
       PROVE  Board' /\ \E N : Moves(N)
  <2>1. st \in Statuses
    BY HubAssumption
  <2> QED BY <1>2, <1>4, <1>12, <2>1, StatusMoves DEF IngestSessionStatus
<1>13. ASSUME NEW u \in Upstream, NEW s \in SessionIDs, NEW ms \in Times, IngestIdle(u, s, ms)
       PROVE  Board' /\ \E N : Moves(N)
  <2>1. Moves({})
    BY <1>2, <1>13, StatusMoves DEF IngestIdle, Statuses
  <2>2. open' \subseteq open /\ settled' = settled /\ seq' = seq + 1
    BY <1>13 DEF IngestIdle, KeptOpen, Publish
  <2> QED BY <1>1, <2>1, <2>2, QuietBoard
<1>14. ASSUME NEW s \in SessionIDs, IngestError(s) PROVE Board' /\ \E N : Moves(N)
  <2>1. Moves({})
    BY <1>2, <1>14, IdleMoves DEF IngestError, SamePanel
  <2>2. open' \subseteq open /\ settled' = settled /\ seq' = seq + 1
    BY <1>14 DEF IngestError, KeptOpen, Publish
  <2> QED BY <1>1, <2>1, <2>2, QuietBoard
<1>15. ASSUME NEW p \in open, Reply(p) PROVE Board' /\ \E N : Moves(N)
  <2>1. PICK n : settled' = settled \cup {[env |-> p.id, request |-> p.request, dec |-> n]}
    BY <1>15 DEF Reply
  <2>2. open' \subseteq open /\ seq' = seq /\ ClearPrompt(p.session, p.id)
    BY <1>15 DEF Reply, TakePrompt
  <2> QED BY <1>1, <2>1, <2>2, SettlingBoard
<1>16. ASSUME NEW s \in SessionIDs, Prompt(s) PROVE Board' /\ \E N : Moves(N)
  <2>1. known' \subseteq known /\ \A x \in known' : SamePanel(sess[x], sess'[x])
    BY <1>16 DEF Prompt, TypeOK, Session, SamePanel
  <2> QED BY <1>3, <1>16, <2>1 DEF Prompt
<1>17. CASE Tick
  BY <1>3, <1>17 DEF Tick, SamePanel
<1>18. CASE UNCHANGED vars
  BY <1>3, <1>18 DEF vars, SamePanel
<1> QED BY <1>5, <1>6, <1>7, <1>8, <1>9, <1>10, <1>11, <1>12, <1>13, <1>14, <1>15, <1>16,
           <1>17, <1>18 DEF Next

(* Storing a session evicts none that has a badge and none while there is  *)
(* room, and leaves one too many only if it found no other.                *)
LEMMA StoreMakesRoom ==
  ASSUME IsFiniteSet(known), NEW s \in SessionIDs, NEW state, Store(s, state)
  PROVE  MakesRoom /\ IsFiniteSet(known')
<1>1. Cardinality(known) \in Nat /\ MaxSessions \in Nat \ {0}
  BY FS_CardinalityType, HubAssumption
<1>2. CASE s \in known
  <2>1. known' = known
    BY <1>2 DEF Store
  <2> QED BY <2>1 DEF MakesRoom
<1>3. CASE s \notin known
  <2> DEFINE idle == {x \in known : sess[x].prompt = NoEnv}
             need == IF Cardinality(known) >= MaxSessions
                     THEN Cardinality(known) + 1 - MaxSessions ELSE 0
             many == IF need <= Cardinality(idle) THEN need ELSE Cardinality(idle)
  <2>1. PICK E \in Evictions : known' = (known \ E) \cup {s}
    BY <1>3 DEF Store
  <2>2. /\ E \in SUBSET idle /\ Cardinality(E) = many
        /\ \A a \in E, b \in idle \ E : sess[a].updated <= sess[b].updated
    BY <2>1 DEF Evictions
  <2>3. IsFiniteSet(idle) /\ Cardinality(idle) \in Nat
    BY FS_Subset, FS_CardinalityType
  <2>4. IsFiniteSet(E) /\ E \in SUBSET known
    BY <2>2, <2>3, FS_Subset
  <2>5. /\ known \ known' = E /\ known \cap known' = known \ E
        /\ \A t \in known \ E : sess[t].prompt = NoEnv => t \in idle \ E
    BY <1>3, <2>1, <2>4
  <2>6. E # {} => Cardinality(known) >= MaxSessions
    <3>1. Cardinality(E) = 0 => E = {}
      BY <2>4, FS_EmptySet
    <3>2. ~(Cardinality(known) >= MaxSessions) => many = 0
      BY <2>3
    <3> QED BY <2>2, <3>1, <3>2
  <2>7. /\ IsFiniteSet(known \ E)
        /\ Cardinality(known \ E) = Cardinality(known) - Cardinality(E)
    <3>1. known \cap E = E
      BY <2>4
    <3> QED BY <2>4, <3>1, FS_Difference
  <2>8. /\ IsFiniteSet(known')
        /\ Cardinality(known') = Cardinality(known) - Cardinality(E) + 1
    <3>1. s \notin known \ E
      BY <1>3
    <3> QED BY <2>1, <2>7, <3>1, FS_AddElement
  <2>9. ASSUME Cardinality(known') > MaxSessions, NEW t \in known \ E
        PROVE  sess[t].prompt # NoEnv
    <3>1. Cardinality(E) # need
      <4> HIDE DEF idle
      <4> QED BY <1>1, <2>8, <2>9
    <3>2. Cardinality(E) = Cardinality(idle)
      BY <2>2, <3>1
    <3>3. E = idle
      BY <2>2, <2>3, <3>2, FS_Subset
    <3> QED BY <2>9, <3>3
  <2> HIDE DEF idle, need, many
  <2>10. \A a \in E : sess[a].prompt = NoEnv
    BY <2>2 DEF idle
  <2> QED BY <2>2, <2>5, <2>6, <2>8, <2>9, <2>10 DEF MakesRoom
<1> QED BY <1>2, <1>3

(* Every step of the hub treats the other sessions so.                     *)
LEMMA RoomStep ==
  ASSUME TypeOK, IsFiniteSet(known), [Next]_vars
  PROVE  MakesRoom /\ IsFiniteSet(known')
<1> USE DEF sessVars
<1>1. ASSUME known' \subseteq known PROVE MakesRoom /\ IsFiniteSet(known')
  BY <1>1, FS_Subset DEF MakesRoom
<1>2. ASSUME NEW s \in SessionIDs, NEW state, Store(s, state)
      PROVE  MakesRoom /\ IsFiniteSet(known')
  BY <1>2, StoreMakesRoom
<1>3. ASSUME NEW u \in Upstream, RemoveUpstream(u) PROVE known' \subseteq known
  BY <1>3 DEF RemoveUpstream
<1>4. ASSUME NEW u \in Upstream, NEW s \in SessionIDs, NEW r \in Requests,
             IngestPermission(u, s, r)
      PROVE  known' \subseteq known \/ \E state : Store(s, state)
  BY <1>4 DEF IngestPermission, TrackPrompt
<1>5. ASSUME NEW r \in Requests, IngestReplied(r) PROVE known' \subseteq known
  BY <1>5 DEF IngestReplied, ClearPrompt
<1>6. ASSUME NEW u \in Upstream, NEW s \in SessionIDs, NEW ms \in Times, IngestMessage(u, s, ms)
      PROVE  \E state : Store(s, state)
  BY <1>6 DEF IngestMessage
<1>7. ASSUME NEW u \in Upstream, NEW s \in SessionIDs, NEW ms \in Times,
             IngestSessionInfo(u, s, ms)
      PROVE  \E state : Store(s, state)
  BY <1>7 DEF IngestSessionInfo
<1>8. ASSUME NEW s \in SessionIDs, IngestSessionDeleted(s) PROVE known' \subseteq known
  BY <1>8 DEF IngestSessionDeleted
<1>9. ASSUME NEW u \in Upstream, NEW s \in SessionIDs, NEW st, NEW ms \in Times,
             SetStatus(u, s, st, ms)
      PROVE  \E state : Store(s, state)
  BY <1>9 DEF SetStatus
<1>10. ASSUME NEW p \in open, Reply(p) PROVE known' \subseteq known
  BY <1>10 DEF Reply, ClearPrompt
<1>11. ASSUME NEW s \in SessionIDs, Prompt(s) PROVE known' \subseteq known
  BY <1>11 DEF Prompt
<1>12. CASE \E u \in Upstream, s \in SessionIDs, ms \in Times :
              \/ IngestMessage(u, s, ms) \/ IngestSessionInfo(u, s, ms)
              \/ IngestIdle(u, s, ms) \/ \E st \in Reports : IngestSessionStatus(u, s, st, ms)
  <2>1. \E s \in SessionIDs : \E state : Store(s, state)
    BY <1>6, <1>7, <1>9, <1>12 DEF IngestIdle, IngestSessionStatus
  <2> QED BY <1>2, <2>1
<1>13. CASE \E u \in Upstream, s \in SessionIDs, r \in Requests : IngestPermission(u, s, r)
  BY <1>1, <1>2, <1>4, <1>13
<1>14. CASE \/ \E u \in Upstream : RemoveUpstream(u)
            \/ \E r \in Requests : IngestReplied(r)
            \/ \E s \in SessionIDs : IngestSessionDeleted(s) \/ Prompt(s)
            \/ \E p \in open : Reply(p)
            \/ known' = known
  BY <1>1, <1>3, <1>5, <1>8, <1>10, <1>11, <1>14
<1> QED BY <1>12, <1>13, <1>14 DEF Next, vars, RegisterUpstream, IngestError, Tick

--------------------------------------------------------------------------------
(* The decision queues.                                                    *)

(* A queue is a sequence of decisions with numbers for ids.                *)
LEMMA DecisionIds ==
  ASSUME NEW q \in Seq(Decision)
  PROVE  /\ DOMAIN q = 1..Len(q) /\ Len(q) \in Nat
         /\ \A i \in 1..Len(q) : q[i] \in Decision /\ q[i].id \in Nat
<1>1. \A i \in 1..Len(q) : q[i] \in Decision
  BY ElementOfSeq
<1>2. \A d \in Decision : d.id \in Nat
  BY DEF Decision
<1> QED BY <1>1, <1>2, LenProperties

(* queueDecisionLocked puts the decision last, under the queue's new       *)
(* cursor.                                                                 *)
LEMMA QueueDecisionAtEnd ==
  ASSUME TypeOK, NEW u \in Upstream, NEW kind \in {"perm", "prompt"},
         NEW r \in Requests \cup {NoRequest}, NEW s \in SessionIDs,
         QueueDecision(u, kind, r, s)
  PROVE  LET old == ups[u].decisions
             new == ups'[u].decisions
         IN  /\ decSeq' = decSeq + 1 /\ ups'[u].decCursor = decSeq + 1
             /\ \A v \in Upstream : v # u => ups'[v] = ups[v]
             /\ new \in Seq(Decision) /\ Len(new) \in Nat \ {0}
             /\ new[Len(new)].id = decSeq + 1
             /\ \A i \in 1..(Len(new) - 1) : \E j \in 1..Len(old) : new[i] = old[j]
<1> DEFINE d == [id |-> decSeq + 1, kind |-> kind, request |-> r, session |-> s]
           old == ups[u].decisions
           all == Append(old, d)
           new == LastN(all, MaxDecisions)
           drop == Len(all) - Len(new)
<1>1. /\ d \in Decision /\ d.id = decSeq + 1 /\ MaxDecisions \in Nat \ {0}
      /\ decSeq' = decSeq + 1 /\ ups \in [Upstream -> UpState]
      /\ old \in Seq(Decision) /\ Len(old) \in Nat
  <2>1. old \in Seq(Decision)
    BY DEF TypeOK, UpState
  <2>2. Len(old) \in Nat
    BY <2>1, LenProperties
  <2> QED BY <2>1, <2>2, HubAssumption DEF TypeOK, Decision, QueueDecision
<1>2. ups' = [ups EXCEPT ![u].decisions = new, ![u].decCursor = decSeq + 1]
  BY DEF QueueDecision
<1> HIDE DEF d
<1>3. /\ all \in Seq(Decision) /\ Len(all) = Len(old) + 1
      /\ \A i \in 1..Len(old) : all[i] = old[i]
      /\ all[Len(old) + 1] = d
  BY <1>1, AppendProperties
<1> HIDE DEF all
<1>4. /\ new \in Seq(Decision)
      /\ Len(new) = IF Len(all) > MaxDecisions THEN MaxDecisions ELSE Len(all)
      /\ \A i \in 1..Len(new) : new[i] = all[Len(all) - Len(new) + i]
  BY <1>1, <1>3, LastNProperties
<1> HIDE DEF new
<1>5. drop \in Nat /\ Len(new) \in Nat \ {0} /\ drop + Len(new) = Len(old) + 1
  BY <1>1, <1>3, <1>4
<1>6. new[Len(new)] = d
  <2>1. Len(new) \in 1..Len(new) /\ Len(all) - Len(new) + Len(new) = Len(old) + 1
    BY <1>5
  <2> QED BY <1>3, <1>4, <2>1
<1>7. ASSUME NEW i \in 1..(Len(new) - 1) PROVE \E j \in 1..Len(old) : new[i] = old[j]
  <2>1. i \in 1..Len(new) /\ drop + i \in 1..Len(old)
    BY <1>1, <1>5
  <2>2. new[i] = all[drop + i]
    BY <1>4, <2>1
  <2> QED BY <1>3, <2>1, <2>2
<1>8. /\ ups'[u].decisions = new /\ ups'[u].decCursor = decSeq + 1
      /\ \A v \in Upstream : v # u => ups'[v] = ups[v]
  BY <1>1, <1>2 DEF UpState
<1> QED BY <1>1, <1>4, <1>5, <1>6, <1>7, <1>8

(* A queue whose decisions are all behind the cursor hands out none, and   *)
(* one whose last alone is past it hands out that one.                     *)
LEMMA DecisionsAfterCursor ==
  ASSUME NEW q \in Seq(Decision), NEW c \in Nat
  PROVE  /\ (\A i \in 1..Len(q) : q[i].id <= c) => DecisionsAfter(q, c) = <<>>
         /\ Len(q) # 0 /\ (\A i \in 1..(Len(q) - 1) : q[i].id <= c) /\ q[Len(q)].id > c
              => DecisionsAfter(q, c) = <<q[Len(q)]>>
<1> DEFINE I == {i \in DOMAIN q : q[i].id > c}
<1>1. DOMAIN q = 1..Len(q) /\ Len(q) \in Nat /\ \A i \in 1..Len(q) : q[i].id \in Nat
  BY DecisionIds
<1>2. DecisionsAfter(q, c) = Pick(q, I)
  BY DEF DecisionsAfter
<1> HIDE DEF I
<1>3. ASSUME \A i \in 1..Len(q) : q[i].id <= c PROVE DecisionsAfter(q, c) = <<>>
  <2>1. I = (Len(q) + 1)..Len(q)
    BY <1>1, <1>3 DEF I
  <2>2. Len(q) + 1 \in 1..(Len(q) + 1) /\ Len(q) + 1 - (Len(q) + 1) = 0
    BY <1>1
  <2>3. Pick(q, I) \in Seq(Decision) /\ Len(Pick(q, I)) = 0
    BY <2>1, <2>2, PickSuffix
  <2> QED BY <1>2, <2>3, EmptySeq
<1>4. ASSUME Len(q) # 0, \A i \in 1..(Len(q) - 1) : q[i].id <= c, q[Len(q)].id > c
      PROVE  DecisionsAfter(q, c) = <<q[Len(q)]>>
  <2>1. I = Len(q)..Len(q)
    BY <1>1, <1>4 DEF I
  <2>2. Len(q) \in 1..(Len(q) + 1) /\ Len(q) + 1 - Len(q) = 1 /\ Len(q) + 1 - 1 = Len(q)
    BY <1>1, <1>4
  <2> DEFINE last == Len(q)
  <2> HIDE DEF last
  <2>4. last \in 1..(Len(q) + 1) /\ I = last..Len(q) /\ Len(q) + 1 - last = 1 /\ last = Len(q)
    BY <2>1, <2>2 DEF last
  <2>5. /\ Pick(q, I) \in Seq(Decision) /\ Len(Pick(q, I)) = Len(q) + 1 - last
        /\ \A k \in 1..(Len(q) + 1 - last) : Pick(q, I)[k] = q[last + k - 1]
    BY <2>4, PickSuffix
  <2>6. 1 \in 1..(Len(q) + 1 - last) /\ last + 1 - 1 = last
    BY <2>2, <2>4
  <2>7. Pick(q, I)[1] = q[last + 1 - 1]
    BY <2>5, <2>6
  <2>8. Pick(q, I)[1] = q[Len(q)]
    BY <2>4, <2>6, <2>7
  <2>3. Pick(q, I) \in Seq(Decision) /\ Len(Pick(q, I)) = 1
    BY <2>4, <2>5
  <2> QED BY <1>2, <2>3, <2>8
<1> QED BY <1>3, <1>4

(* What the steps do to the queues: the cursors keep counting the          *)
(* decisions, and a plugin that echoes its own is handed only new ones.    *)
LEMMA QueuesStep ==
  ASSUME TypeOK, QueuesAreCounted, [Next]_vars
  PROVE  QueuesAreCounted' /\ HandsOutOnlyNew
<1> USE DEF upVars
<1>1. /\ decSeq \in Nat /\ ups \in [Upstream -> UpState]
      /\ \A u \in Upstream : /\ ups[u].decisions \in Seq(Decision)
                             /\ ups[u].decCursor \in Nat /\ Len(ups[u].decisions) \in Nat
                             /\ \A i \in 1..Len(ups[u].decisions) : ups[u].decisions[i].id \in Nat
      /\ upstreams \subseteq 1..upSeq /\ 1..upSeq \subseteq Upstream /\ upSeq \in Nat
  <2>1. ASSUME NEW u \in Upstream
        PROVE  /\ ups[u].decisions \in Seq(Decision)
               /\ ups[u].decCursor \in Nat /\ Len(ups[u].decisions) \in Nat
               /\ \A i \in 1..Len(ups[u].decisions) : ups[u].decisions[i].id \in Nat
    <3>1. ups[u].decisions \in Seq(Decision) /\ ups[u].decCursor \in Nat
      BY DEF TypeOK, UpState
    <3> QED BY <3>1, DecisionIds
  <2> QED BY <2>1, HubAssumption DEF TypeOK, Upstream
<1>2. ASSUME NEW u \in Upstream PROVE DecisionsAfter(ups[u].decisions, ups[u].decCursor) = <<>>
  BY <1>1, DecisionsAfterCursor DEF QueuesAreCounted
<1>3. ASSUME \A u \in Upstream : ups'[u] = ups[u] \/ (u \notin upstreams \cap upstreams' /\
               ups'[u].decisions = <<>> /\ ups'[u].decCursor = 0),
             decSeq' = decSeq
      PROVE  QueuesAreCounted' /\ HandsOutOnlyNew
  <2>1. QueuesAreCounted'
    BY <1>1, <1>3 DEF QueuesAreCounted
  <2>2. HandsOutOnlyNew
    BY <1>1, <1>2, <1>3 DEF HandsOutOnlyNew
  <2> QED BY <2>1, <2>2
<1>4. ASSUME NEW w \in Windows, RegisterUpstream(w) PROVE QueuesAreCounted' /\ HandsOutOnlyNew
  <2>1. \A u \in Upstream : ups'[u] = ups[u] \/ (u = upSeq + 1 /\
          ups'[u].decisions = <<>> /\ ups'[u].decCursor = 0)
    BY <1>1, <1>4 DEF RegisterUpstream, FreeSlot
  <2>2. upSeq + 1 \notin upstreams
    BY <1>1
  <2> QED BY <1>3, <1>4, <2>1, <2>2 DEF RegisterUpstream
<1>5. ASSUME NEW v \in Upstream, RemoveUpstream(v) PROVE QueuesAreCounted' /\ HandsOutOnlyNew
  <2>1. \A u \in Upstream : ups'[u] = ups[u] \/ (u = v /\
          ups'[u].decisions = <<>> /\ ups'[u].decCursor = 0)
    BY <1>1, <1>5 DEF RemoveUpstream, UpState
  <2>2. v \notin upstreams'
    BY <1>5 DEF RemoveUpstream
  <2> QED BY <1>3, <1>5, <2>1, <2>2 DEF RemoveUpstream
<1>6. ASSUME NEW u \in Upstream, NEW kind \in {"perm", "prompt"},
             NEW r \in Requests \cup {NoRequest}, NEW s \in SessionIDs,
             QueueDecision(u, kind, r, s)
      PROVE  QueuesAreCounted' /\ HandsOutOnlyNew
  <2> DEFINE old == ups[u].decisions
             new == ups'[u].decisions
             c == ups[u].decCursor
  <2>1. /\ decSeq' = decSeq + 1 /\ ups'[u].decCursor = decSeq + 1
        /\ \A v \in Upstream : v # u => ups'[v] = ups[v]
        /\ new \in Seq(Decision) /\ Len(new) \in Nat \ {0}
        /\ new[Len(new)].id = decSeq + 1
        /\ \A i \in 1..(Len(new) - 1) : \E j \in 1..Len(old) : new[i] = old[j]
    BY <1>6, QueueDecisionAtEnd
  <2>2. c <= decSeq /\ c \in Nat /\ \A i \in 1..Len(old) : old[i].id <= c /\ old[i].id \in Nat
    BY <1>1 DEF QueuesAreCounted
  <2> HIDE DEF old, new, c
  <2>3. \A i \in 1..(Len(new) - 1) : new[i].id <= c /\ new[i].id \in Nat
    BY <2>1, <2>2
  <2>4. \A i \in 1..Len(new) : new[i].id <= decSeq + 1
    <3> SUFFICES ASSUME NEW i \in 1..Len(new) PROVE new[i].id <= decSeq + 1
      OBVIOUS
    <3>1. CASE i = Len(new)
      BY <1>1, <2>1, <3>1
    <3>2. CASE i # Len(new)
      <4>1. i \in 1..(Len(new) - 1)
        BY <2>1, <3>2
      <4> QED BY <1>1, <2>2, <2>3, <4>1
    <3> QED BY <3>1, <3>2
  <2>5. QueuesAreCounted'
    <3> SUFFICES ASSUME NEW v \in Upstream
                 PROVE  /\ ups'[v].decCursor <= decSeq'
                        /\ \A i \in 1..Len(ups'[v].decisions) :
                             ups'[v].decisions[i].id <= ups'[v].decCursor
      BY DEF QueuesAreCounted
    <3>1. CASE v = u
      BY <1>1, <2>1, <2>4, <3>1 DEF new
    <3>2. CASE v # u
      BY <1>1, <2>1, <3>2 DEF QueuesAreCounted
    <3> QED BY <3>1, <3>2
  <2>6. DecisionsAfter(new, c) = <<new[Len(new)]>>
    <3>1. new[Len(new)].id > c /\ Len(new) # 0
      BY <1>1, <2>1, <2>2
    <3> QED BY <2>1, <2>2, <2>3, <3>1, DecisionsAfterCursor
  <2>7. new # old
    BY <1>1, <2>1, <2>2
  <2>8. [new[Len(new)] EXCEPT !.id = decSeq'] = new[Len(new)]
    <3>1. new[Len(new)] \in Decision
      BY <2>1, ElementOfSeq
    <3> QED BY <2>1, <3>1 DEF Decision
  <2>9. ASSUME NEW v \in upstreams \cap upstreams'
        PROVE  LET before == ups[v].decisions
                   after  == ups'[v].decisions
                   fresh  == DecisionsAfter(after, ups[v].decCursor)
               IN  IF after = before THEN fresh = <<>>
                   ELSE fresh = <<[after[Len(after)] EXCEPT !.id = decSeq']>>
    <3>1. CASE v = u
      BY <2>6, <2>7, <2>8, <3>1 DEF new, old, c
    <3>2. CASE v # u
      BY <1>1, <1>2, <2>1, <3>2
    <3> QED BY <3>1, <3>2
  <2>10. HandsOutOnlyNew
    BY <2>9 DEF HandsOutOnlyNew
  <2> QED BY <2>5, <2>10
<1>7. ASSUME UNCHANGED <<ups, decSeq>> PROVE QueuesAreCounted' /\ HandsOutOnlyNew
  BY <1>3, <1>7
<1>8. ASSUME NEW p \in open, Reply(p) PROVE QueuesAreCounted' /\ HandsOutOnlyNew
  <2>1. p.session \in SessionIDs /\ p.request \in Requests /\ Route(p) \in Upstream
    BY DEF TypeOK, Pending, Route
  <2> QED BY <1>6, <1>7, <1>8, <2>1 DEF Reply
<1>9. ASSUME NEW s \in SessionIDs, Prompt(s) PROVE QueuesAreCounted' /\ HandsOutOnlyNew
  <2>1. sess[s].upstream \in Upstream
    BY <1>1, <1>9 DEF Prompt
  <2> QED BY <1>6, <1>9, <2>1 DEF Prompt
<1> QED BY <1>4, <1>5, <1>7, <1>8, <1>9
        DEF Next, vars, IngestPermission, IngestReplied, IngestMessage, IngestSessionInfo,
            IngestSessionDeleted, IngestSessionStatus, IngestIdle, IngestError, Tick

--------------------------------------------------------------------------------
(* The invariant.                                                          *)

(* SessionInv is the board, on a finite registry.                          *)
LEMMA SessionInvIsBoard == SessionInv <=> IsFiniteSet(known) /\ Board
BY DEF SessionInv, Board

(* Every step of the hub keeps HubInv.                                     *)
LEMMA HubInvStep ==
  ASSUME HubInv, [Next]_vars
  PROVE  HubInv'
<1>1. TypeOK /\ Books /\ Board /\ IsFiniteSet(known) /\ QueuesAreCounted
  BY PromptInvIsBooks, SessionInvIsBoard DEF HubInv
<1>2. TypeOK'
  BY <1>1, TypeStep DEF Books
<1>3. Books'
  BY <1>1, <1>2, BooksStep
<1>4. Board' /\ IsFiniteSet(known')
  BY <1>1, BoardStep, RoomStep
<1>5. QueuesAreCounted'
  BY <1>1, QueuesStep
<1>6. PromptInv'
  BY <1>3 DEF PromptInv, Books, Balanced, IndexedIsOpen, OpenIsIndexed
<1>7. SessionInv'
  BY <1>4 DEF SessionInv, Board
<1> QED BY <1>2, <1>5, <1>6, <1>7 DEF HubInv

(* HubInv holds in every reachable state.                                  *)
THEOREM HubInvariance == Spec => []HubInv
<1>1. HubInv /\ [Next]_vars => HubInv'
  BY HubInvStep
<1> QED BY <1>1, InitHubInv, PTL DEF Spec

(* The variables of the hub keep their types, whatever the plugins report  *)
(* and the phone answers.                                                  *)
THEOREM TypeCorrect == Spec => []TypeOK
<1>1. HubInv => TypeOK
  BY DEF HubInv
<1> QED BY <1>1, HubInvariance, PTL

(* An answerable prompt can still be polled, and the index by request and  *)
(* the open prompts lead to each other, so that a desk answer retracts the *)
(* prompt it is about, whatever has been evicted in between.               *)
THEOREM PromptBooksBalance ==
  Spec => [](OpenIsRetained /\ IndexedIsOpen /\ OpenIsIndexed)
<1>1. HubInv => OpenIsRetained /\ IndexedIsOpen /\ OpenIsIndexed
  BY DEF HubInv, PromptInv
<1> QED BY <1>1, HubInvariance, PTL

(* Each request is decided at most once.                                   *)
THEOREM DecidedOnce == Spec => []OneDecisionPerRequest
<1>1. HubInv => OneDecisionPerRequest
  BY DEF HubInv, PromptInv, SettledOnce, OneDecisionPerRequest, TypeOK
<1> QED BY <1>1, HubInvariance, PTL

(* A decision about a request reaches only the queue of the window that    *)
(* asked it.                                                               *)
THEOREM DecisionsReachTheAsker == Spec => []DecisionsGoHome
<1>1. HubInv => DecisionsGoHome
  <2> SUFFICES ASSUME HubInv, NEW u \in upstreams, NEW i \in DOMAIN ups[u].decisions,
                      ups[u].decisions[i].kind = "perm"
               PROVE  LET d == ups[u].decisions[i]
                      IN  asked[d.request] = [window |-> ups[u].window, session |-> d.session]
    BY DEF DecisionsGoHome
  <2>1. TypeOK /\ QueuesGoHome
    BY DEF HubInv, PromptInv
  <2>2. u \in Upstream
    BY <2>1, HubAssumption DEF TypeOK, Upstream
  <2>3. ups[u].decisions \in Seq(Decision)
    BY <2>1, <2>2 DEF TypeOK, UpState
  <2>4. i \in 1..Len(ups[u].decisions)
    BY <2>3, LenProperties
  <2> QED BY <2>1, <2>2, <2>4 DEF QueuesGoHome
<1> QED BY <1>1, HubInvariance, PTL

(* pollOnce refuses a cursor this daemon handed out exactly when more      *)
(* envelopes than the ring holds have been published since.                *)
THEOREM RefusesOnlyLostCursors == Spec => []RefusalIsExact
<1>1. HubInv => RefusalIsExact
  <2> SUFFICES ASSUME HubInv, NEW c \in 0..seq
               PROVE  CursorTooOld(ring, seq, c) <=> c + RingSize < seq
    BY DEF RefusalIsExact
  <2>1. seq \in Nat /\ RingSize \in Nat \ {0} /\ Len(ring) \in Nat
    BY HubAssumption, LenProperties DEF HubInv, TypeOK
  <2>2. Len(ring) = IF seq < RingSize THEN seq ELSE RingSize
    BY DEF HubInv, PromptInv, RingIsContiguous
  <2>3. Len(ring) > 0 => ring[1].seq = seq - Len(ring) + 1
    BY <2>1 DEF HubInv, PromptInv, RingIsContiguous
  <2> QED BY <2>1, <2>2, <2>3 DEF CursorTooOld
<1> QED BY <1>1, HubInvariance, PTL

(* A poll that is not refused returns every envelope published since the   *)
(* cursor, in order and without a gap (pollOnce).                          *)
THEOREM PollsWithoutGaps == Spec => []PollIsGapFree
<1>1. HubInv => PollIsGapFree
  <2> SUFFICES ASSUME HubInv, NEW c \in 0..seq, ~CursorTooOld(ring, seq, c)
               PROVE  /\ Len(EventsAfter(ring, c)) = seq - c
                      /\ \A i \in DOMAIN EventsAfter(ring, c) : EventsAfter(ring, c)[i].seq = c + i
    BY DEF PollIsGapFree
  <2>1. /\ seq \in Nat /\ RingSize \in Nat \ {0} /\ ring \in Seq(Envelope)
        /\ Len(ring) \in Nat /\ DOMAIN ring = 1..Len(ring)
    BY HubAssumption, LenProperties DEF HubInv, TypeOK
  <2>2. /\ Len(ring) = IF seq < RingSize THEN seq ELSE RingSize
        /\ \A i \in 1..Len(ring) : ring[i].seq = seq - Len(ring) + i
    BY DEF HubInv, PromptInv, RingIsContiguous
  <2> DEFINE a == c + 1 - (seq - Len(ring))
  <2>3. a \in 1..(Len(ring) + 1) /\ Len(ring) + 1 - a = seq - c
    <3>1. CASE Len(ring) = 0
      BY <2>1, <2>2, <3>1
    <3>2. CASE Len(ring) # 0
      <4>1. ring[1].seq = seq - Len(ring) + 1 /\ ~(c + 1 < ring[1].seq)
        BY <2>1, <2>2, <3>2 DEF CursorTooOld
      <4> QED BY <2>1, <4>1
    <3> QED BY <3>1, <3>2
  <2>4. {i \in DOMAIN ring : ring[i].seq > c} = a..Len(ring)
    BY <2>1, <2>2, <2>3
  <2>5. EventsAfter(ring, c) = Pick(ring, a..Len(ring))
    BY <2>4 DEF EventsAfter
  <2>9. /\ a \in Int /\ seq - c \in Nat
        /\ \A i \in 1..(seq - c) : /\ a + i - 1 \in 1..Len(ring)
                                   /\ seq - Len(ring) + (a + i - 1) = c + i
    BY <2>1, <2>3
  <2> HIDE DEF a
  <2>6. /\ Pick(ring, a..Len(ring)) \in Seq(Envelope)
        /\ Len(Pick(ring, a..Len(ring))) = Len(ring) + 1 - a
        /\ \A i \in 1..(Len(ring) + 1 - a) : Pick(ring, a..Len(ring))[i] = ring[a + i - 1]
    BY <2>1, <2>3, PickSuffix
  <2>7. DOMAIN EventsAfter(ring, c) = 1..(seq - c) /\ Len(EventsAfter(ring, c)) = seq - c
    BY <2>3, <2>5, <2>6, LenProperties
  <2>8. \A i \in 1..(seq - c) : EventsAfter(ring, c)[i].seq = c + i
    <3> SUFFICES ASSUME NEW i \in 1..(seq - c) PROVE EventsAfter(ring, c)[i].seq = c + i
      OBVIOUS
    <3>1. EventsAfter(ring, c)[i] = ring[a + i - 1]
      BY <2>3, <2>5, <2>6
    <3>2. a + i - 1 \in 1..Len(ring) /\ seq - Len(ring) + (a + i - 1) = c + i
      BY <2>9
    <3>3. ring[a + i - 1].seq = seq - Len(ring) + (a + i - 1)
      BY <2>2, <3>2
    <3> QED BY <3>1, <3>2, <3>3
  <2> QED BY <2>7, <2>8
<1> QED BY <1>1, HubInvariance, PTL

(* Once a prompt is answered, no badge and no conversation panel offers it *)
(* again, whatever the sessions, the ring and the other prompts went       *)
(* through (clearSessionPromptLocked).                                     *)
THEOREM SettledPromptsDisappear == Spec => []SettledIsNotAdvertised
<1>1. HubInv => SettledIsNotAdvertised
  BY DEF HubInv, SessionInv
<1> QED BY <1>1, HubInvariance, PTL

(* A plugin that echoes the cursor it was given is handed each decision    *)
(* once, and nothing it has seen (pollDecisionsOnce, queueDecisionLocked). *)
THEOREM DecisionsAreHandedOutOnce == Spec => EchoedCursorYieldsOnlyNew
<1>1. HubInv /\ [Next]_vars => HandsOutOnlyNew
  BY QueuesStep DEF HubInv
<1>2. HubInv /\ [Next]_vars => [HandsOutOnlyNew]_vars
  BY <1>1
<1> QED BY <1>2, HubInvariance, PTL DEF Spec, EchoedCursorYieldsOnlyNew

(* A conversation reader at the newest cursor sees every later change      *)
(* (appendConv, clearSessionPromptLocked).                                 *)
THEOREM ConversationsHideNothing == Spec => ConversationChangesVisible
<1> DEFINE Visible ==
      \A s \in known \cap known' :
        ChangesVisible(sess[s], sess'[s]) /\ IdsDiffer(sess'[s].conv)
<1>1. HubInv /\ [Next]_vars => Visible
  <2> SUFFICES ASSUME HubInv, [Next]_vars PROVE Visible
    OBVIOUS
  <2>1. TypeOK /\ Books /\ Board
    BY PromptInvIsBooks, SessionInvIsBoard DEF HubInv
  <2>2. \E N : Moves(N)
    BY <2>1, BoardStep
  <2> QED BY <2>2 DEF Moves
<1>2. HubInv /\ [Next]_vars => [Visible]_vars
  BY <1>1
<1> QED BY <1>2, HubInvariance, PTL DEF Spec, ConversationChangesVisible

(* The registry drops a session for another only when it is full, and then *)
(* the least recently active of those without a prompt                     *)
(* (evictSessionsLocked).                                                  *)
THEOREM PromptsKeepTheirSessions == Spec => RegistryCapYieldsOnlyToPrompts
<1>1. HubInv /\ [Next]_vars => MakesRoom
  BY RoomStep DEF HubInv, SessionInv
<1>2. HubInv /\ [Next]_vars => [MakesRoom]_vars
  BY <1>1
<1> QED BY <1>2, HubInvariance, PTL DEF Spec, RegistryCapYieldsOnlyToPrompts
================================================================================
