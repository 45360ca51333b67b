----------------------------- MODULE WatchappProofs -----------------------------
(***************************************************************************)
(* Proofs about Watchapp, for any prompts, queue size, deliveries and      *)
(* presses: no prompt hangs in Sending, strong answers are meant, and only *)
(* settled prompts leave the queue.                                        *)
(***************************************************************************)
EXTENDS Watchapp, SequenceLemmas

(* The watch's flags and the count of presses.                             *)
Flags ==
  /\ open \in BOOLEAN /\ notice \in BOOLEAN /\ dictating \in BOOLEAN
  /\ presses \in 0..MaxPresses

--------------------------------------------------------------------------------
(* The lookups by id find an entry with that id.                           *)
LEMMA IndexOfProperties ==
  ASSUME queue \in Seq(Entry), NEW x \in Queued
  PROVE  IndexOf(x) \in 1..Len(queue) /\ queue[IndexOf(x)].id = x
<1>1. DOMAIN queue = 1..Len(queue) /\ Len(queue) \in Nat
  BY LenProperties
<1> DEFINE T == {i \in 1..Len(queue) : queue[i].id = x}
<1>2. T \subseteq Nat /\ T # {}
  BY <1>1 DEF Queued
<1>3. PICK i \in T : \A y \in T : i <= y
  BY <1>2, FirstPosition
<1>4. i \in DOMAIN queue /\ queue[i].id = x /\ \A j \in 1..(i - 1) : queue[j].id # x
  <2>1. i \in 1..Len(queue) /\ queue[i].id = x
    BY <1>3
  <2>2. ASSUME NEW j \in 1..(i - 1), queue[j].id = x PROVE FALSE
    <3>1. j \in T
      BY <1>1, <2>1, <2>2
    <3> QED BY <1>1, <1>3, <2>1, <2>2, <3>1
  <2> QED BY <1>1, <2>1, <2>2
<1>5. /\ IndexOf(x) \in DOMAIN queue
      /\ queue[IndexOf(x)].id = x
  BY <1>4 DEF IndexOf
<1> QED BY <1>1, <1>5

(* queue_remove_at shifts the entries behind the removed one.              *)
LEMMA WithoutProperties ==
  ASSUME queue \in Seq(Entry), NEW i \in 1..Len(queue)
  PROVE  /\ Without(i) \in Seq(Entry) /\ Len(Without(i)) = Len(queue) - 1
         /\ \A j \in 1..(Len(queue) - 1) : Without(i)[j] = queue[IF j < i THEN j ELSE j + 1]
<1> DEFINE a == SubSeq(queue, 1, i - 1)
           b == SubSeq(queue, i + 1, Len(queue))
<1>1. Len(queue) \in Nat /\ i \in Nat /\ \A j \in 1..Len(queue) : queue[j] \in Entry
  BY LenProperties, ElementOfSeq
<1>2. /\ a \in Seq(Entry) /\ Len(a) = i - 1
      /\ \A j \in 1..(i - 1) : a[j] = queue[j]
  <2>1. \A j \in 1..(i - 1) : queue[j] \in Entry
    BY <1>1
  <2>2. 1 \in Int /\ i - 1 \in Int
    BY <1>1
  <2>3. Len(a) = (IF 1 <= i - 1 THEN i - 1 - 1 + 1 ELSE 0) /\ a \in Seq(Entry)
        /\ \A j \in 1..(i - 1 - 1 + 1) : a[j] = queue[1 + j - 1]
    BY <2>1, <2>2, SubSeqProperties
  <2> QED BY <1>1, <2>3
<1>3. /\ b \in Seq(Entry) /\ Len(b) = Len(queue) - i
      /\ \A j \in 1..(Len(queue) - i) : b[j] = queue[i + j]
  <2>1. \A j \in (i + 1)..Len(queue) : queue[j] \in Entry
    BY <1>1
  <2>2. i + 1 \in Int /\ Len(queue) \in Int
    BY <1>1
  <2>3. /\ b \in Seq(Entry)
        /\ Len(b) = (IF i + 1 <= Len(queue) THEN Len(queue) - (i + 1) + 1 ELSE 0)
        /\ \A j \in 1..(Len(queue) - (i + 1) + 1) : b[j] = queue[(i + 1) + j - 1]
    BY <2>1, <2>2, SubSeqProperties
  <2> QED BY <1>1, <2>3
<1> HIDE DEF a, b
<1>4. /\ a \o b \in Seq(Entry) /\ Len(a \o b) = Len(a) + Len(b)
      /\ \A j \in 1..(Len(a) + Len(b)) :
           (a \o b)[j] = IF j <= Len(a) THEN a[j] ELSE b[j - Len(a)]
  BY <1>2, <1>3, ConcatProperties
<1>5. Without(i) = a \o b
  BY DEF Without, a, b
<1>6. ASSUME NEW j \in 1..(Len(queue) - 1)
      PROVE  Without(i)[j] = queue[IF j < i THEN j ELSE j + 1]
  <2>1. CASE j < i
    BY <1>1, <1>2, <1>3, <1>4, <1>5, <2>1
  <2>2. CASE ~(j < i)
    <3>1. Without(i)[j] = b[j - (i - 1)] /\ j - (i - 1) \in 1..(Len(queue) - i)
      BY <1>1, <1>2, <1>3, <1>4, <1>5, <2>2
    <3>2. i + (j - (i - 1)) = j + 1
      BY <1>1
    <3> QED BY <1>3, <2>2, <3>1, <3>2
  <2> QED BY <2>1, <2>2
<1>7. Len(Without(i)) = Len(queue) - 1
  <2>1. (i - 1) + (Len(queue) - i) = Len(queue) - 1
    BY <1>1
  <2>2. Len(Without(i)) = Len(a) + Len(b) /\ Len(a) = i - 1 /\ Len(b) = Len(queue) - i
    BY <1>2, <1>3, <1>4, <1>5, Zenon
  <2> QED BY <2>1, <2>2
<1> QED BY <1>4, <1>5, <1>6, <1>7

--------------------------------------------------------------------------------
(* What the steps do to the queue.                                         *)

(* The screen and the books after a step that leaves the queue as it is.   *)
LEMMA QueueStays ==
  ASSUME WatchappInv, Flags', queue' = queue, UNCHANGED companion,
         IF queue = <<>> THEN pos' = 1 ELSE pos' \in 1..Len(queue),
         pos' = pos \/ NextPrompt,
         outbox' \in Message \cup {NoMsg},
         outbox' # NoMsg => /\ outbox # NoMsg /\ outbox'.id = outbox.id
                            /\ outbox'.action = outbox.action /\ outbox'.meant = outbox.meant,
         outbox # NoMsg /\ outbox' = NoMsg => outbox.id \notin Queued
  PROVE  WatchappInv' /\ StaysOnScreen /\ LeavesSettled
<1> USE DEF WatchappInv, companion
<1>1. TypeOK'
  BY DEF TypeOK, Flags
<1>2. OneOfEach'
  BY DEF OneOfEach, Queued, NoCopies
<1>3. PendingIsInFlight'
  BY DEF PendingIsInFlight, NoCopies, Queued
<1>4. AnswersAreMeant'
  BY DEF AnswersAreMeant, Meant
<1>5. StaysOnScreen
  BY DEF StaysOnScreen, Shown, Current
<1>6. LeavesSettled
  BY DEF LeavesSettled, Queued
<1> QED BY <1>1, <1>2, <1>3, <1>4, <1>5, <1>6

(* A new value for one entry's answer, acknowledgement or meaning.         *)
LEMMA EntryChanges ==
  ASSUME WatchappInv, Flags', UNCHANGED <<pos, companion>>,
         NEW p \in 1..Len(queue), NEW e \in Entry, e.id = queue[p].id, Meant(e),
         queue' = [queue EXCEPT ![p] = e],
         outbox' \in Message \cup {NoMsg}, outbox' # NoMsg => Meant(outbox'),
         NoCopies /\ e.ack = "pending" => outbox' # NoMsg /\ outbox'.id = e.id,
         \A i \in 1..Len(queue) \ {p} :
           NoCopies /\ queue[i].ack = "pending" => outbox' # NoMsg /\ outbox'.id = queue[i].id
  PROVE  WatchappInv' /\ StaysOnScreen /\ LeavesSettled
<1> USE DEF WatchappInv
<1>1. /\ queue \in Seq(Entry) /\ Len(queue) \in Nat /\ DOMAIN queue = 1..Len(queue)
      /\ queue # <<>> /\ pos \in 1..Len(queue) /\ UNCHANGED <<delivered, sent, copies>>
  <2>1. queue \in Seq(Entry) /\ DOMAIN queue = 1..Len(queue) /\ Len(queue) \in Nat
    BY LenProperties DEF TypeOK
  <2>2. Len(queue) # 0
    BY <2>1
  <2>3. queue # <<>>
    BY <2>1, <2>2, EmptySeq
  <2> QED BY <2>1, <2>3 DEF TypeOK, companion
<1>2. /\ queue' \in Seq(Entry) /\ Len(queue') = Len(queue) /\ DOMAIN queue' = DOMAIN queue
      /\ queue'[p] = e /\ \A i \in 1..Len(queue) \ {p} : queue'[i] = queue[i]
  BY <1>1, ExceptSeq
<1>3. \A i \in 1..Len(queue) : queue'[i].id = queue[i].id
  BY <1>2
<1>4. Queued' = Queued
  BY <1>1, <1>2, <1>3 DEF Queued
<1>5. TypeOK'
  <2>1. queue' # <<>>
    BY <1>1, <1>2, EmptySeq
  <2> QED BY <1>1, <1>2, <2>1 DEF TypeOK, Flags
<1>6. OneOfEach'
  <2>1. Queued' \subseteq delivered'
    BY <1>1, <1>4 DEF OneOfEach
  <2>2. NoCopies' => \A i, j \in DOMAIN queue' : queue'[i].id = queue'[j].id => i = j
    BY <1>1, <1>2, <1>3 DEF OneOfEach, NoCopies
  <2> QED BY <2>1, <2>2 DEF OneOfEach
<1>7. PendingIsInFlight'
  BY <1>1, <1>2 DEF PendingIsInFlight, NoCopies
<1>8. AnswersAreMeant'
  <2>1. \A i \in DOMAIN queue' : Meant(queue'[i])
    BY <1>1, <1>2 DEF AnswersAreMeant
  <2> QED BY <2>1 DEF AnswersAreMeant, Meant
<1>9. StaysOnScreen
  <2>1. queue' # <<>>
    BY <1>1, <1>2, EmptySeq
  <2> QED BY <1>1, <1>3, <2>1 DEF StaysOnScreen, Shown, Current
<1>10. LeavesSettled
  BY <1>4 DEF LeavesSettled
<1> QED BY <1>5, <1>6, <1>7, <1>8, <1>9, <1>10

(* queue_remove_at: the others keep their entries, and the one on screen   *)
(* stays there unless it is the one removed.                               *)
LEMMA EntryLeaves ==
  ASSUME WatchappInv, Flags', UNCHANGED companion,
         NEW i \in 1..Len(queue), queue_remove_at(i),
         outbox' \in Message \cup {NoMsg},
         outbox' = outbox \/ (outbox # NoMsg /\ outbox' = NoMsg /\ outbox.id = queue[i].id)
  PROVE  WatchappInv' /\ StaysOnScreen /\ Queued \ Queued' \subseteq {queue[i].id}
<1> DEFINE Old(j) == IF j < i THEN j ELSE j + 1
<1>1. /\ queue \in Seq(Entry) /\ Len(queue) \in Nat /\ DOMAIN queue = 1..Len(queue)
      /\ Len(queue) <= MaxQueue /\ MaxQueue \in Nat
      /\ queue # <<>> /\ pos \in 1..Len(queue) /\ UNCHANGED <<delivered, sent, copies>>
  <2>1. queue \in Seq(Entry) /\ DOMAIN queue = 1..Len(queue) /\ Len(queue) \in Nat
    BY LenProperties DEF WatchappInv, TypeOK
  <2>2. Len(queue) # 0
    BY <2>1
  <2>3. queue # <<>>
    BY <2>1, <2>2, EmptySeq
  <2> QED BY <2>1, <2>3, WatchAssumption DEF WatchappInv, TypeOK, companion
<1>2. /\ queue' \in Seq(Entry) /\ Len(queue') = Len(queue) - 1 /\ DOMAIN queue' = 1..Len(queue')
      /\ \A j \in 1..Len(queue') : queue'[j] = queue[Old(j)]
  <2>1. /\ queue' \in Seq(Entry) /\ Len(queue') = Len(queue) - 1
        /\ \A j \in 1..(Len(queue) - 1) : queue'[j] = queue[Old(j)]
    BY <1>1, WithoutProperties, Zenon DEF queue_remove_at
  <2>2. DOMAIN queue' = 1..Len(queue')
    BY <2>1, LenProperties
  <2> HIDE DEF Old
  <2>3. \A j \in 1..Len(queue') : queue'[j] = queue[Old(j)]
    BY <2>1, Zenon
  <2> QED BY <2>1, <2>2, <2>3, Zenon
<1>3. /\ \A j \in 1..Len(queue') : Old(j) \in 1..Len(queue) /\ Old(j) # i
      /\ \A j, k \in 1..Len(queue') : Old(j) = Old(k) => j = k
      /\ \A k \in 1..Len(queue) \ {i} : \E j \in 1..Len(queue') : Old(j) = k
  <2>1. \A j \in 1..Len(queue') : Old(j) \in 1..Len(queue) /\ Old(j) # i
    BY <1>1, <1>2
  <2>2. \A j, k \in 1..Len(queue') : Old(j) = Old(k) => j = k
    BY <1>1, <1>2
  <2>3. ASSUME NEW k \in 1..Len(queue) \ {i} PROVE \E j \in 1..Len(queue') : Old(j) = k
    <3>1. CASE k < i
      <4>1. k \in 1..Len(queue') /\ Old(k) = k
        BY <1>1, <1>2, <3>1
      <4> QED BY <4>1
    <3>2. CASE ~(k < i)
      <4>1. k - 1 \in 1..Len(queue') /\ Old(k - 1) = k
        BY <1>1, <1>2, <3>2
      <4> QED BY <4>1
    <3> QED BY <3>1, <3>2
  <2> QED BY <2>1, <2>2, <2>3
<1>4. queue' = <<>> <=> Len(queue) = 1
  BY <1>1, <1>2, EmptySeq
<1>5. /\ Len(queue) = 1 => pos' = 1
      /\ Len(queue) # 1 => pos' \in 1..Len(queue')
      /\ pos # i => pos' \in 1..Len(queue') /\ Old(pos') = pos
  <2>1. /\ Len(queue) \in Nat /\ pos \in 1..Len(queue) /\ Len(queue') = Len(queue) - 1
        /\ pos' = IF Len(queue) = 1 THEN 1
                  ELSE IF pos > i \/ pos = Len(queue) THEN pos - 1 ELSE pos
    BY <1>1, <1>2 DEF queue_remove_at, PosAfter
  <2>2. CASE Len(queue) = 1
    BY <2>1, <2>2
  <2>3. CASE Len(queue) # 1 /\ (pos > i \/ pos = Len(queue))
    BY <2>1, <2>3
  <2>4. CASE Len(queue) # 1 /\ ~(pos > i \/ pos = Len(queue))
    BY <2>1, <2>4
  <2> QED BY <2>2, <2>3, <2>4
<1> HIDE DEF Old
<1>6. Queued' \subseteq Queued
  <2> SUFFICES ASSUME NEW j \in 1..Len(queue') PROVE queue'[j].id \in Queued
    BY <1>2 DEF Queued
  <2>1. Old(j) \in 1..Len(queue) /\ queue'[j] = queue[Old(j)]
    BY <1>2, <1>3
  <2> QED BY <1>1, <2>1 DEF Queued
<1>7. Queued \ Queued' \subseteq {queue[i].id}
  <2> SUFFICES ASSUME NEW k \in 1..Len(queue), k # i PROVE queue[k].id \in Queued'
    BY <1>1 DEF Queued
  <2>1. PICK j \in 1..Len(queue') : Old(j) = k
    BY <1>3
  <2>2. queue'[j].id = queue[k].id
    BY <1>2, <2>1
  <2> QED BY <1>2, <2>2 DEF Queued
<1>8. TypeOK'
  BY <1>1, <1>2, <1>4, <1>5 DEF WatchappInv, TypeOK, Flags
<1>9. OneOfEach'
  <2>1. Queued' \subseteq delivered'
    BY <1>1, <1>6 DEF WatchappInv, OneOfEach
  <2>2. ASSUME NoCopies, NEW j \in 1..Len(queue'), NEW k \in 1..Len(queue'),
               queue'[j].id = queue'[k].id
        PROVE  j = k
    <3>1. queue[Old(j)].id = queue[Old(k)].id
      BY <1>2, <2>2
    <3>2. Old(j) = Old(k)
      BY <1>1, <1>3, <2>2, <3>1 DEF WatchappInv, OneOfEach
    <3> QED BY <1>3, <3>2
  <2> QED BY <1>1, <1>2, <2>1, <2>2 DEF OneOfEach, NoCopies
<1>10. PendingIsInFlight'
  <2> SUFFICES ASSUME NoCopies, NEW j \in 1..Len(queue'), queue'[j].ack = "pending"
               PROVE  outbox' # NoMsg /\ outbox'.id = queue'[j].id
    BY <1>1, <1>2 DEF PendingIsInFlight, NoCopies
  <2>1. Old(j) \in 1..Len(queue) /\ Old(j) # i /\ queue'[j] = queue[Old(j)]
    BY <1>2, <1>3
  <2>2. outbox # NoMsg /\ outbox.id = queue[Old(j)].id
    BY <1>1, <2>1 DEF WatchappInv, PendingIsInFlight
  <2>3. outbox.id # queue[i].id
    BY <1>1, <2>1, <2>2 DEF WatchappInv, OneOfEach
  <2> QED BY <2>1, <2>2, <2>3
<1>11. AnswersAreMeant'
  <2>1. \A j \in DOMAIN queue' : Meant(queue'[j])
    BY <1>1, <1>2, <1>3 DEF WatchappInv, AnswersAreMeant
  <2>2. outbox' # NoMsg => Meant(outbox')
    BY DEF WatchappInv, AnswersAreMeant
  <2> QED BY <2>1, <2>2 DEF AnswersAreMeant, Meant
<1>12. StaysOnScreen
  <2> SUFFICES ASSUME NoCopies, Shown \in Queued' PROVE Shown' = Shown
    BY DEF StaysOnScreen
  <2>1. PICK j \in 1..Len(queue') : queue[pos].id = queue'[j].id
    BY <1>1, <1>2 DEF Shown, Current, Queued
  <2>2. pos # i
    BY <1>1, <1>2, <1>3, <2>1 DEF WatchappInv, OneOfEach
  <2>3. queue'[pos'] = queue[pos] /\ queue' # <<>>
    BY <1>1, <1>2, <1>4, <1>5, <2>2
  <2> QED BY <1>1, <2>3 DEF Shown, Current
<1> QED BY <1>7, <1>8, <1>9, <1>10, <1>11, <1>12 DEF WatchappInv

--------------------------------------------------------------------------------
LEMMA InitWatchappInv == Init => WatchappInv
<1> SUFFICES ASSUME Init PROVE WatchappInv
  OBVIOUS
<1>1. queue \in Seq(Entry) /\ Len(queue) = 0 /\ DOMAIN queue = {}
  <2>1. queue \in Seq(Entry) /\ Len(queue) = 0
    BY EmptySeq DEF Init
  <2> QED BY <2>1, LenProperties
<1>2. TypeOK
  <2>1. open \in BOOLEAN /\ notice \in BOOLEAN /\ dictating \in BOOLEAN /\ copies \in BOOLEAN
    BY Zenon DEF Init
  <2>2. /\ Len(queue) <= MaxQueue /\ sent \in 0..MaxSent /\ presses \in 0..MaxPresses
        /\ queue = <<>> /\ pos = 1 /\ outbox = NoMsg /\ delivered \in SUBSET Ids
    BY <1>1, WatchAssumption DEF Init
  <2> QED BY <1>1, <2>1, <2>2 DEF TypeOK
<1>3. OneOfEach /\ PendingIsInFlight /\ AnswersAreMeant
  BY <1>1 DEF Init, OneOfEach, PendingIsInFlight, AnswersAreMeant, Queued
<1> QED BY <1>2, <1>3 DEF WatchappInv

(* The app opens, shows a notice or listens, the user moves to the next    *)
(* prompt, the phone gets a message: the queue stays.                      *)
LEMMA QuietStep ==
  ASSUME WatchappInv,
         Launch \/ ReceiveNotice \/ NextPrompt \/ select_long_click \/ PhoneReceives
  PROVE  WatchappInv' /\ StaysOnScreen /\ LeavesSettled
<1>0. TypeOK /\ MaxPresses \in Nat
  BY WatchAssumption DEF WatchappInv
<1>1. CASE Launch \/ ReceiveNotice \/ select_long_click
  <2>1. UNCHANGED <<queue, pos, outbox, companion>>
    BY <1>1 DEF Launch, ReceiveNotice, select_long_click
  <2>2. open' \in BOOLEAN /\ notice' \in BOOLEAN /\ dictating' \in BOOLEAN
    BY <1>0, <1>1, Zenon DEF Launch, ReceiveNotice, select_long_click, TypeOK
  <2>3. presses' \in 0..MaxPresses
    BY <1>0, <1>1 DEF Launch, ReceiveNotice, select_long_click, Press, TypeOK
  <2>4. Flags'
    BY <2>2, <2>3 DEF Flags
  <2> QED BY <1>0, <2>1, <2>4, QueueStays DEF TypeOK
<1>2. CASE NextPrompt
  <2>1. UNCHANGED <<queue, outbox, companion>> /\ Flags'
    BY <1>0, <1>2 DEF NextPrompt, TypeOK, Flags
  <2>2. queue \in Seq(Entry) /\ Len(queue) \in Nat /\ Len(queue) > 1 /\ queue # <<>>
        /\ pos \in Nat
    <3>1. queue \in Seq(Entry) /\ Len(queue) > 1
      BY <1>0, <1>2 DEF TypeOK, NextPrompt
    <3>2. queue # <<>> /\ Len(queue) \in Nat
      BY <3>1, EmptySeq, LenProperties
    <3> QED BY <1>0, <3>1, <3>2 DEF TypeOK
  <2>3. pos' \in 1..Len(queue)
    BY <1>2, <2>2 DEF NextPrompt
  <2> QED BY <1>0, <1>2, <2>1, <2>2, <2>3, QueueStays DEF TypeOK
<1>3. CASE PhoneReceives
  <2>1. UNCHANGED <<queue, pos, companion>> /\ Flags' /\ outbox \in Message /\ outbox # NoMsg
    BY <1>0, <1>3 DEF PhoneReceives, TypeOK, Flags
  <2>2. PICK fate \in {"posted", "dropped"} : outbox' = [outbox EXCEPT !.fate = fate]
    BY <1>3 DEF PhoneReceives
  <2>3. /\ outbox' \in Message /\ outbox'.id = outbox.id
        /\ outbox'.action = outbox.action /\ outbox'.meant = outbox.meant
    BY <2>1, <2>2 DEF Message
  <2>4. outbox' # NoMsg
    BY <2>3, NoMsgAssumption
  <2> QED BY <1>0, <2>1, <2>3, <2>4, QueueStays DEF TypeOK
<1> QED BY <1>1, <1>2, <1>3

(* The app ends.                                                           *)
LEMMA CloseStep ==
  ASSUME WatchappInv, Close
  PROVE  WatchappInv' /\ StaysOnScreen /\ LeavesSettled
<1>1. queue' \in Seq(Entry) /\ Len(queue') = 0 /\ DOMAIN queue' = {}
  <2>1. queue' \in Seq(Entry) /\ Len(queue') = 0
    BY EmptySeq DEF Close
  <2> QED BY <2>1, LenProperties
<1>2. TypeOK'
  <2>1. open' \in BOOLEAN /\ notice' \in BOOLEAN /\ dictating' \in BOOLEAN
    BY Zenon DEF Close
  <2>2. /\ Len(queue') <= MaxQueue /\ queue' = <<>> /\ pos' = 1 /\ outbox' = NoMsg
        /\ UNCHANGED <<presses, delivered, sent, copies>>
    BY <1>1, WatchAssumption DEF Close, companion
  <2> QED BY <1>1, <2>1, <2>2 DEF WatchappInv, TypeOK
<1>3. (OneOfEach /\ PendingIsInFlight /\ AnswersAreMeant)'
  BY <1>1 DEF Close, OneOfEach, PendingIsInFlight, AnswersAreMeant, Queued
<1>4. Queued' = {}
  BY <1>1 DEF Queued
<1>5. StaysOnScreen
  BY <1>4 DEF StaysOnScreen
<1>6. LeavesSettled
  BY DEF LeavesSettled, Close
<1> QED BY <1>2, <1>3, <1>5, <1>6 DEF WatchappInv

(* A prompt arrives; a full queue drops its oldest.                        *)
LEMMA ReceivePromptStep ==
  ASSUME WatchappInv, NEW x \in Ids, ReceivePrompt(x)
  PROVE  WatchappInv' /\ StaysOnScreen /\ LeavesSettled
<1> DEFINE kept == IF Len(queue) >= MaxQueue THEN Tail(queue) ELSE queue
           off == IF Len(queue) >= MaxQueue THEN 1 ELSE 0
           new == [id |-> x, answered |-> FALSE, ack |-> "none", action |-> 0, meant |-> {}]
<1>0. /\ TypeOK /\ MaxQueue \in Nat \ {0} /\ MaxSent \in Nat
      /\ queue \in Seq(Entry) /\ Len(queue) \in Nat /\ Len(queue) <= MaxQueue
      /\ DOMAIN queue = 1..Len(queue)
  <2>1. queue \in Seq(Entry) /\ Len(queue) <= MaxQueue
    BY DEF WatchappInv, TypeOK
  <2> QED BY <2>1, LenProperties, WatchAssumption DEF WatchappInv
<1>1. /\ off \in {0, 1} /\ Len(queue) - off \in 0..(MaxQueue - 1)
      /\ kept \in Seq(Entry) /\ Len(kept) = Len(queue) - off
      /\ \A i \in 1..Len(kept) : kept[i] = queue[off + i]
  <2>1. CASE Len(queue) >= MaxQueue
    <3>1. queue # <<>>
      BY <1>0, <2>1, EmptySeq
    <3>2. /\ Tail(queue) \in Seq(Entry) /\ Len(Tail(queue)) = Len(queue) - 1
          /\ \A i \in 1..Len(Tail(queue)) : Tail(queue)[i] = queue[i + 1]
      BY <1>0, <3>1, HeadTailProperties
    <3> QED BY <1>0, <2>1, <3>2
  <2>2. CASE ~(Len(queue) >= MaxQueue)
    BY <1>0, <2>2
  <2> QED BY <2>1, <2>2
<1>2. new \in Entry /\ new.id = x /\ new.ack = "none" /\ new.action = 0
  BY DEF Entry, Actions
<1>3. queue' = Append(kept, new) /\ pos' = Len(kept) + 1
  BY DEF ReceivePrompt, Enqueue
<1> HIDE DEF kept, off, new
<1>4. /\ queue' \in Seq(Entry) /\ Len(queue') = Len(kept) + 1 /\ DOMAIN queue' = 1..Len(queue')
      /\ \A i \in 1..Len(kept) : queue'[i] = kept[i]
      /\ queue'[Len(kept) + 1] = new
  <2>1. /\ queue' \in Seq(Entry) /\ Len(queue') = Len(kept) + 1
        /\ \A i \in 1..Len(kept) : queue'[i] = kept[i]
        /\ queue'[Len(kept) + 1] = new
    BY <1>1, <1>2, <1>3, AppendProperties
  <2> QED BY <2>1, LenProperties
<1>5. /\ Len(queue') \in 1..MaxQueue /\ pos' \in 1..Len(queue') /\ pos' = Len(queue')
      /\ queue' # <<>>
      /\ \A i \in 1..Len(queue') : \/ i = pos' /\ queue'[i] = new
                                   \/ i < pos' /\ off + i \in 1..Len(queue) /\ queue'[i] = queue[off + i]
  <2>1. Len(queue') \in 1..MaxQueue /\ pos' \in 1..Len(queue') /\ pos' = Len(queue')
    BY <1>0, <1>1, <1>3, <1>4
  <2>2. queue' # <<>>
    BY <1>4, <2>1, EmptySeq
  <2>3. ASSUME NEW i \in 1..Len(queue'), i # pos'
        PROVE  i < pos' /\ off + i \in 1..Len(queue) /\ queue'[i] = queue[off + i]
    <3>1. i \in 1..Len(kept) /\ i < pos' /\ off + i \in 1..Len(queue)
      BY <1>0, <1>1, <1>3, <1>4, <2>3
    <3> QED BY <1>1, <1>4, <3>1
  <2> QED BY <1>3, <1>4, <2>1, <2>2, <2>3
<1>6. /\ delivered' = delivered \cup {x} /\ copies' = (copies \/ x \in delivered)
      /\ UNCHANGED <<open, outbox, dictating, presses>> /\ notice' = FALSE
      /\ sent < MaxSent /\ sent' = sent + 1
  BY DEF ReceivePrompt, Enqueue
<1>7. TypeOK'
  <2>1. copies' \in BOOLEAN /\ notice' \in BOOLEAN /\ open' \in BOOLEAN /\ dictating' \in BOOLEAN
    BY <1>0, <1>6 DEF TypeOK
  <2>2. sent' \in 0..MaxSent /\ delivered' \in SUBSET Ids /\ presses' \in 0..MaxPresses
        /\ outbox' \in Message \cup {NoMsg}
    BY <1>0, <1>6 DEF TypeOK
  <2>3. Len(queue') <= MaxQueue
    BY <1>0, <1>5
  <2> QED BY <1>4, <1>5, <2>1, <2>2, <2>3 DEF TypeOK
<1>8. OneOfEach'
  <2>1. \A i \in 1..Len(queue') : queue'[i].id \in delivered \cup {x}
    BY <1>0, <1>2, <1>5 DEF WatchappInv, OneOfEach, Queued
  <2>2. ASSUME NoCopies', NEW i \in 1..Len(queue'), NEW j \in 1..Len(queue'),
               queue'[i].id = queue'[j].id, i < j
        PROVE  FALSE
    <3>1. NoCopies /\ x \notin delivered
      BY <1>6, <2>2 DEF NoCopies
    <3>2. i < pos' /\ off + i \in 1..Len(queue) /\ queue'[i].id = queue[off + i].id
      BY <1>5, <2>2
    <3>3. queue[off + i].id # x
      BY <1>0, <3>1, <3>2 DEF WatchappInv, OneOfEach, Queued
    <3>4. off + j \in 1..Len(queue) /\ queue'[j].id = queue[off + j].id
      BY <1>2, <1>5, <2>2, <3>2, <3>3
    <3>5. off + i = off + j
      BY <1>0, <2>2, <3>1, <3>2, <3>4 DEF WatchappInv, OneOfEach
    <3> QED BY <1>1, <2>2, <3>5
  <2>3. NoCopies' => \A i, j \in 1..Len(queue') : queue'[i].id = queue'[j].id => i = j
    <3> SUFFICES ASSUME NoCopies', NEW i \in 1..Len(queue'), NEW j \in 1..Len(queue'),
                        queue'[i].id = queue'[j].id, i # j
                 PROVE  FALSE
      OBVIOUS
    <3>1. i < j \/ j < i
      OBVIOUS
    <3> QED BY <2>2, <3>1
  <2> QED BY <1>4, <1>6, <2>1, <2>3 DEF OneOfEach, Queued
<1>9. PendingIsInFlight'
  <2> SUFFICES ASSUME NoCopies', NEW i \in 1..Len(queue'), queue'[i].ack = "pending"
               PROVE  outbox # NoMsg /\ outbox.id = queue'[i].id
    BY <1>4, <1>6 DEF PendingIsInFlight
  <2>1. NoCopies
    BY <1>6 DEF NoCopies
  <2>2. off + i \in 1..Len(queue) /\ queue'[i] = queue[off + i]
    BY <1>2, <1>5
  <2> QED BY <1>0, <2>1, <2>2 DEF WatchappInv, PendingIsInFlight
<1>10. AnswersAreMeant'
  <2>1. Meant(new)
    BY <1>2 DEF Meant, actionSlug, ALWAYS, REJECT, TEXT
  <2>2. \A i \in 1..Len(queue') : Meant(queue'[i])
    BY <1>0, <1>5, <2>1 DEF WatchappInv, AnswersAreMeant
  <2>3. outbox' # NoMsg => Meant(outbox')
    BY <1>6 DEF WatchappInv, AnswersAreMeant
  <2> QED BY <1>4, <2>2, <2>3 DEF AnswersAreMeant, Meant
<1>11. sent' # sent /\ companion' # companion
  BY <1>0, <1>6 DEF TypeOK, companion
<1>12. StaysOnScreen
  BY <1>11 DEF StaysOnScreen
<1>13. LeavesSettled
  <2> SUFFICES ASSUME NEW k \in 1..Len(queue), queue[k].id \notin Queued'
               PROVE  Len(queue) = MaxQueue /\ queue[k].id = queue[1].id
    BY <1>0, <1>11 DEF LeavesSettled, Queued
  <2>1. ASSUME NEW i \in 1..Len(kept), off + i = k PROVE FALSE
    <3>1. i \in 1..Len(queue') /\ queue'[i] = queue[k]
      BY <1>1, <1>4, <2>1
    <3> QED BY <1>4, <3>1 DEF Queued
  <2>2. k - off \notin 1..Len(kept)
    BY <1>0, <1>1, <2>1
  <2>3. off = 1 /\ k = 1
    BY <1>0, <1>1, <2>2
  <2>4. Len(queue) >= MaxQueue
    BY <2>3 DEF off
  <2>5. Len(queue) = MaxQueue
    <3>1. Len(queue) \in Nat /\ MaxQueue \in Nat /\ Len(queue) <= MaxQueue
      BY <1>0
    <3> QED BY <2>4, <3>1
  <2>6. queue[k].id = queue[1].id
    BY <2>3, Zenon
  <2> QED BY <2>5, <2>6, Zenon
<1> QED BY <1>7, <1>8, <1>9, <1>10, <1>12, <1>13 DEF WatchappInv

--------------------------------------------------------------------------------
(* A message about a prompt that is no longer queued settles nothing; for  *)
(* one that is, its first copy leaves.                                     *)
LEMMA RemovalStep ==
  ASSUME WatchappInv,
         outbox_sent \/ \E x \in Ids : ReceiveGone(x)
  PROVE  WatchappInv' /\ StaysOnScreen /\ LeavesSettled
<1>0. TypeOK /\ queue \in Seq(Entry)
  BY DEF WatchappInv, TypeOK
<1>1. CASE outbox_sent
  <2>1. UNCHANGED companion /\ outbox # NoMsg /\ outbox' = NoMsg /\ Arrived
        /\ queue_remove_by_id(outbox.id)
    BY <1>1 DEF outbox_sent, Arrived
  <2>2. Flags'
    BY <1>0, <1>1 DEF outbox_sent, TypeOK, Flags
  <2>3. CASE outbox.id \in Queued
    <3>1. queue_remove_at(IndexOf(outbox.id))
      BY <2>1, <2>3 DEF queue_remove_by_id
    <3>2. IndexOf(outbox.id) \in 1..Len(queue) /\ queue[IndexOf(outbox.id)].id = outbox.id
      BY <1>0, <2>3, IndexOfProperties
    <3>3. WatchappInv' /\ StaysOnScreen /\ Queued \ Queued' \subseteq {outbox.id}
      BY <2>1, <2>2, <3>1, <3>2, EntryLeaves
    <3>4. LeavesSettled
      BY <2>1, <3>3 DEF LeavesSettled
    <3> QED BY <3>3, <3>4
  <2>4. CASE outbox.id \notin Queued
    <3>1. UNCHANGED <<queue, pos>>
      BY <2>1, <2>4 DEF queue_remove_by_id
    <3> QED BY <1>0, <2>1, <2>2, <2>4, <3>1, QueueStays DEF TypeOK
  <2> QED BY <2>3, <2>4
<1>2. ASSUME NEW x \in Ids, ReceiveGone(x) PROVE WatchappInv' /\ StaysOnScreen /\ LeavesSettled
  <2>1. UNCHANGED <<outbox, companion>> /\ x \in Queued /\ queue_remove_at(IndexOf(x))
    BY <1>2 DEF ReceiveGone, queue_remove_by_id
  <2>2. Flags'
    BY <1>0, <1>2 DEF ReceiveGone, TypeOK, Flags
  <2>3. IndexOf(x) \in 1..Len(queue) /\ queue[IndexOf(x)].id = x
    BY <1>0, <2>1, IndexOfProperties
  <2>4. WatchappInv' /\ StaysOnScreen /\ Queued \ Queued' \subseteq {x}
    BY <1>0, <2>1, <2>2, <2>3, EntryLeaves DEF TypeOK
  <2>5. LeavesSettled
    BY <1>2, <2>4 DEF LeavesSettled
  <2> QED BY <2>4, <2>5
<1> QED BY <1>1, <1>2

(* The outbox reports a failure: the prompt can be retried.                *)
LEMMA OutboxFailedStep ==
  ASSUME WatchappInv, outbox_failed
  PROVE  WatchappInv' /\ StaysOnScreen /\ LeavesSettled
<1>0. TypeOK /\ queue \in Seq(Entry) /\ DOMAIN queue = 1..Len(queue)
  BY LenProperties DEF WatchappInv, TypeOK
<1>1. /\ UNCHANGED <<pos, companion>> /\ outbox # NoMsg /\ outbox' = NoMsg
      /\ set_failed(outbox.id) /\ Flags'
  BY <1>0 DEF outbox_failed, TypeOK, Flags
<1>2. CASE outbox.id \in Queued
  <2> DEFINE p == IndexOf(outbox.id)
             e == [queue[p] EXCEPT !.ack = "failed"]
  <2>1. p \in 1..Len(queue) /\ queue[p].id = outbox.id
    BY <1>0, <1>2, IndexOfProperties
  <2>2. queue[p] \in Entry
    BY <1>0, <2>1, ElementOfSeq
  <2>3. queue' = [queue EXCEPT ![p] = e]
    BY <1>0, <1>1, <1>2, <2>1 DEF set_failed
  <2> HIDE DEF p
  <2>4. /\ e \in Entry /\ e.id = queue[p].id /\ e.ack = "failed"
        /\ e.action = queue[p].action /\ e.meant = queue[p].meant
    BY <2>2 DEF Entry
  <2> HIDE DEF e
  <2>5. Meant(e)
    BY <1>0, <2>1, <2>4 DEF WatchappInv, AnswersAreMeant, Meant
  <2>6. ASSUME NEW i \in 1..Len(queue) \ {p}, NoCopies, queue[i].ack = "pending" PROVE FALSE
    <3>1. queue[i].id = outbox.id
      BY <1>0, <2>6 DEF WatchappInv, PendingIsInFlight
    <3> QED BY <1>0, <2>1, <2>6, <3>1 DEF WatchappInv, OneOfEach
  <2> QED BY <1>0, <1>1, <2>1, <2>3, <2>4, <2>5, <2>6, EntryChanges
<1>3. CASE outbox.id \notin Queued
  <2>1. UNCHANGED queue
    BY <1>1, <1>3 DEF set_failed
  <2> QED BY <1>0, <1>1, <1>3, <2>1, QueueStays DEF TypeOK
<1> QED BY <1>2, <1>3

(* send_reply for the prompt on screen, with what its user meant.          *)
LEMMA SendStep ==
  ASSUME WatchappInv, Flags', UNCHANGED <<pos, companion>>, queue # <<>>,
         NEW e \in Entry, NEW action \in Actions,
         e.id = Current.id, e.action = Current.action, Current.meant \subseteq e.meant,
         actionSlug(action) \in {"always", "reject"} => actionSlug(action) \in e.meant,
         send_reply(e, action)
  PROVE  WatchappInv' /\ StaysOnScreen /\ LeavesSettled
<1> DEFINE sent1 == [e EXCEPT !.answered = TRUE, !.ack = "pending", !.action = action]
           fail1 == [e EXCEPT !.ack = "failed"]
           msg1 == [id |-> e.id, action |-> action, meant |-> e.meant, fate |-> "sent"]
<1>0. /\ TypeOK /\ queue \in Seq(Entry) /\ DOMAIN queue = 1..Len(queue)
      /\ pos \in 1..Len(queue) /\ Current = queue[pos] /\ outbox \in Message \cup {NoMsg}
      /\ Meant(queue[pos])
  BY LenProperties DEF WatchappInv, TypeOK, Current, AnswersAreMeant
<1>1. CASE outbox = NoMsg /\ outbox' = msg1 /\ queue' = [queue EXCEPT ![pos] = sent1]
  <2>1. /\ sent1 \in Entry /\ sent1.id = queue[pos].id /\ sent1.ack = "pending"
        /\ sent1.action = action /\ sent1.meant = e.meant
    BY <1>0 DEF Entry
  <2>2. /\ msg1 \in Message /\ msg1.id = queue[pos].id /\ msg1.action = action
        /\ msg1.meant = e.meant /\ msg1 # NoMsg
    BY <1>0, NoMsgAssumption DEF Entry, Message
  <2> HIDE DEF sent1, msg1
  <2>3. Meant(sent1) /\ Meant(msg1)
    BY <2>1, <2>2 DEF Meant
  <2>4. \A i \in 1..Len(queue) : NoCopies => queue[i].ack # "pending"
    BY <1>0, <1>1 DEF WatchappInv, PendingIsInFlight
  <2>5. outbox' # NoMsg /\ outbox'.id = queue[pos].id /\ outbox' \in Message
    BY <1>1, <2>2
  <2>6. Meant(outbox')
    BY <1>1, <2>3
  <2> QED BY <1>0, <1>1, <2>1, <2>3, <2>4, <2>5, <2>6, EntryChanges
<1>2. CASE UNCHANGED outbox /\ queue' = [queue EXCEPT ![pos] = fail1]
  <2>1. /\ fail1 \in Entry /\ fail1.id = queue[pos].id /\ fail1.ack = "failed"
        /\ fail1.action = queue[pos].action /\ queue[pos].meant \subseteq fail1.meant
    BY <1>0 DEF Entry
  <2> HIDE DEF fail1
  <2>2. Meant(fail1)
    BY <1>0, <2>1 DEF Meant
  <2>3. \A i \in 1..Len(queue) : NoCopies /\ queue[i].ack = "pending" =>
           outbox' # NoMsg /\ outbox'.id = queue[i].id
    BY <1>0, <1>2 DEF WatchappInv, PendingIsInFlight
  <2>4. outbox' # NoMsg => Meant(outbox')
    BY <1>2 DEF WatchappInv, AnswersAreMeant, Meant
  <2> QED BY <1>0, <1>2, <2>1, <2>2, <2>3, <2>4, EntryChanges
<1> QED BY <1>0, <1>1, <1>2 DEF send_reply

(* The buttons that answer, and dictation.                                 *)
LEMMA AnswerStep ==
  ASSUME WatchappInv, up_click \/ down_click \/ select_click \/ dictation_callback
  PROVE  WatchappInv' /\ StaysOnScreen /\ LeavesSettled
<1>0. TypeOK /\ MaxPresses \in Nat
  BY WatchAssumption DEF WatchappInv
<1>1. ASSUME queue # <<>>
      PROVE  Current \in Entry /\ Meant(Current) /\ Current.action \in Actions
  <2>1. queue \in Seq(Entry) /\ pos \in 1..Len(queue)
    BY <1>0, <1>1 DEF TypeOK
  <2>2. Current \in Entry /\ DOMAIN queue = 1..Len(queue)
    BY <2>1, ElementOfSeq, LenProperties DEF Current
  <2>3. Current.action \in Actions
    BY <2>2 DEF Entry
  <2> QED BY <2>1, <2>2, <2>3 DEF WatchappInv, AnswersAreMeant, Current
<1>2. ASSUME Clicked PROVE Flags' /\ UNCHANGED <<pos, companion>> /\ queue # <<>>
  <2>1. open' \in BOOLEAN /\ notice' \in BOOLEAN /\ dictating' \in BOOLEAN
        /\ UNCHANGED <<pos, companion>> /\ queue # <<>>
    BY <1>0, <1>2 DEF Clicked, TypeOK
  <2>2. presses' \in 0..MaxPresses
    BY <1>0, <1>2 DEF Clicked, Press, TypeOK
  <2> QED BY <2>1, <2>2 DEF Flags
<1>3. ASSUME Clicked, retry_send PROVE WatchappInv' /\ StaysOnScreen /\ LeavesSettled
  <2> DEFINE e == [Current EXCEPT !.answered = FALSE, !.ack = "none"]
  <2>1. Current \in Entry /\ Meant(Current) /\ Current.action \in Actions
    BY <1>1, <1>2, <1>3
  <2>2. e \in Entry /\ e.id = Current.id /\ e.action = Current.action /\ e.meant = Current.meant
    BY <2>1 DEF Entry
  <2>3. send_reply(e, Current.action)
    BY <1>3 DEF retry_send
  <2> HIDE DEF e
  <2> QED BY <1>2, <1>3, <2>1, <2>2, <2>3, SendStep DEF Meant
<1>4. ASSUME Clicked, NEW action \in {ONCE, ALWAYS, REJECT}, NEW slug \in Slugs,
             slug = actionSlug(action), Answers(action, slug)
      PROVE  WatchappInv' /\ StaysOnScreen /\ LeavesSettled
  <2> DEFINE e == [Current EXCEPT !.meant = Current.meant \cup {slug}]
  <2>1. Current \in Entry
    BY <1>1, <1>2, <1>4
  <2>2. /\ e \in Entry /\ e.id = Current.id /\ e.action = Current.action
        /\ e.meant = Current.meant \cup {slug}
    BY <1>4, <2>1 DEF Entry
  <2>3. send_reply(e, action) /\ action \in Actions
    BY <1>4 DEF Answers, Actions
  <2> HIDE DEF e
  <2> QED BY <1>2, <1>4, <2>2, <2>3, SendStep
<1>5. /\ actionSlug(ONCE) = "once" /\ actionSlug(ALWAYS) = "always"
      /\ actionSlug(REJECT) = "reject" /\ actionSlug(TEXT) = "text" /\ TEXT \in Actions
  BY DEF actionSlug, ONCE, ALWAYS, REJECT, TEXT, Actions
<1>6. CASE up_click
  BY <1>3, <1>4, <1>5, <1>6 DEF up_click, Retry, Slugs
<1>7. CASE down_click
  BY <1>3, <1>4, <1>5, <1>7 DEF down_click, Retry, Slugs
<1>8. CASE select_click
  BY <1>4, <1>5, <1>8 DEF select_click, Slugs
<1>9. CASE dictation_callback
  <2>1. UNCHANGED <<pos, companion>> /\ Flags'
    <3>1. dictating' \in BOOLEAN
      BY <1>9, Zenon DEF dictation_callback
    <3> QED BY <1>0, <1>9, <3>1 DEF dictation_callback, TypeOK, Flags
  <2>2. CASE queue # <<>> /\ send_reply(Current, TEXT)
    BY <1>1, <1>5, <2>1, <2>2, SendStep
  <2>3. CASE UNCHANGED <<queue, outbox>>
    BY <1>0, <2>1, <2>3, QueueStays DEF TypeOK
  <2> QED BY <1>9, <2>2, <2>3 DEF dictation_callback
<1> QED BY <1>6, <1>7, <1>8, <1>9

(* Every step keeps the invariant, the prompt on screen and the unsettled  *)
(* prompts.                                                                *)
LEMMA WatchappStep ==
  ASSUME WatchappInv, [Next]_vars
  PROVE  WatchappInv' /\ StaysOnScreen /\ LeavesSettled
<1>1. CASE UNCHANGED vars
  <2>1. UNCHANGED <<queue, pos, outbox, companion>> /\ Flags'
    BY <1>1 DEF vars, WatchappInv, TypeOK, Flags
  <2> QED BY <2>1, QueueStays DEF WatchappInv, TypeOK
<1>2. CASE Launch \/ ReceiveNotice \/ select_long_click \/ PhoneReceives
  BY <1>2, QuietStep
<1>3. ASSUME NEW x \in Ids, ReceivePrompt(x) \/ ReceiveGone(x)
      PROVE  WatchappInv' /\ StaysOnScreen /\ LeavesSettled
  BY <1>3, ReceivePromptStep, RemovalStep
<1>4. CASE Killed \/ back_click
  BY <1>4, CloseStep, QuietStep DEF Killed, back_click
<1>5. CASE up_click \/ down_click \/ select_click \/ dictation_callback
  BY <1>5, AnswerStep
<1>6. CASE outbox_sent
  BY <1>6, RemovalStep
<1>7. CASE outbox_failed
  BY <1>7, OutboxFailedStep
<1> QED BY <1>1, <1>2, <1>3, <1>4, <1>5, <1>6, <1>7 DEF Next

--------------------------------------------------------------------------------
(* Whatever is delivered, retracted, answered, retried or lost, no prompt  *)
(* of the watch shows Sending without its reply in flight, and the         *)
(* position is an entry's (queue_remove_at, outbox_failed, send_reply).    *)
THEOREM NoPromptHangs == Spec => []WatchappInv
<1>1. WatchappInv /\ [Next]_vars => WatchappInv'
  BY WatchappStep
<1> QED BY <1>1, InitWatchappInv, PTL DEF Spec

(* A strong answer reaches the companion only for a prompt whose user      *)
(* pressed it (actionSlug, retry_send).                                    *)
THEOREM StrongAnswersComeFromTheUser == Spec => []StrongAnswersAreMeant
<1>1. WatchappInv => StrongAnswersAreMeant
  BY DEF WatchappInv, AnswersAreMeant, Meant, StrongAnswersAreMeant, Posted, PostedSlug
<1> QED BY <1>1, NoPromptHangs, PTL

(* A retraction or an acknowledgement never slides another prompt under    *)
(* the user's thumb (queue_remove_at).                                     *)
THEOREM TheScreenStays == Spec => DisplayIsStable
<1>1. WatchappInv /\ [Next]_vars => [StaysOnScreen]_vars
  BY WatchappStep
<1> QED BY <1>1, NoPromptHangs, PTL DEF Spec, DisplayIsStable

(* A prompt leaves the queue answered, retracted or as the oldest of a     *)
(* full one, and no other (outbox_sent, queue_remove_by_id).               *)
THEOREM PromptsLeaveSettled == Spec => OnlySettledPromptsLeave
<1>1. WatchappInv /\ [Next]_vars => [LeavesSettled]_vars
  BY WatchappStep
<1> QED BY <1>1, NoPromptHangs, PTL DEF Spec, OnlySettledPromptsLeave
================================================================================
