------------------------------ MODULE StreamProofs ------------------------------
(***************************************************************************)
(* The phone's stream.  What it brings: Delivery implements Outbox and     *)
(* accounts for every message, for any ring size and any numbers of        *)
(* messages, crashes and failing deliveries.  How a poll for it waits:     *)
(* LongPoll, which treats the three long-polls alike, loses no wake-up,    *)
(* for any number of concurrent requests, any sources and any interleaving *)
(* with writers, deletions and re-creations.  Where it begins: Transcript, *)
(* whose queue, flushes and conversation keep each id's newest report, for *)
(* any parts and requests and any capacities.  TranscriptInv is proved     *)
(* with ReportsInv, which follows one id's reports through what is on its  *)
(* way to the daemon, and with what the daemon's index says of prompts.    *)
(***************************************************************************)
EXTENDS Delivery, LongPoll, Transcript, SequenceLemmas

(* The messages of a sequence come in the order they were published.       *)
Rising(s) == \A i, j \in 1..Len(s) : i < j => s[i].msg < s[j].msg

(* The ring holds this daemon's newest envelopes, numbered without a gap.  *)
RingIsNumbered ==
  /\ ring \in Seq(Message) /\ Rising(ring)
  /\ Len(ring) <= RingSize /\ Len(ring) <= seq /\ seq <= published
  /\ \A i \in 1..Len(ring) : ring[i].seq = seq - Len(ring) + i /\ ring[i].msg <= published

(* What is fetched and not yet delivered is newer than what was delivered. *)
BatchIsNewer ==
  /\ batch \in Seq(Message) /\ Rising(batch)
  /\ \A i \in 1..Len(batch) : last < batch[i].msg /\ batch[i].msg <= published

(* What a poll may still bring is newer than m: what is past the cursor,   *)
(* and everything if the cursor is an earlier daemon's.                    *)
Behind(m) ==
  \A i \in 1..Len(ring) : (ring[i].seq > cursor \/ cursor > seq) => m < ring[i].msg

(* What ties the phone's cursor to what it was handed.                     *)
DeliveryInv ==
  /\ TypeOK /\ RingIsNumbered /\ BatchIsNewer
  /\ last <= published /\ Behind(last)
  /\ \A i \in 1..Len(batch) : Behind(batch[i].msg)

--------------------------------------------------------------------------------
(* The numbers of a retained or fetched envelope.                          *)
LEMMA MessageNumbers ==
  ASSUME NEW s \in Seq(Message)
  PROVE  \A i \in 1..Len(s) : /\ s[i].seq \in 1..MaxMessages /\ s[i].seq \in Nat
                              /\ s[i].msg \in 1..MaxMessages /\ s[i].msg \in Nat
<1> SUFFICES ASSUME NEW i \in 1..Len(s)
             PROVE  s[i].seq \in 1..MaxMessages /\ s[i].msg \in 1..MaxMessages
  BY DeliveryAssumption
<1>1. s[i] \in Message
  BY ElementOfSeq
<1> QED BY <1>1 DEF Message

(* What a poll with this daemon's cursor fetches: the end of the ring.     *)
LEMMA FetchedSuffix ==
  ASSUME RingIsNumbered, seq \in Nat, cursor \in 0..seq
  PROVE  LET new == EventsAfter(ring, cursor)
         IN  /\ new \in Seq(Message)
             /\ \E a \in 1..(Len(ring) + 1) :
                  /\ \A i \in a..Len(ring) : ring[i].seq > cursor
                  /\ \A i \in 1..Len(ring) : ring[i].seq > cursor => i \in a..Len(ring)
                  /\ Len(new) = Len(ring) + 1 - a
                  /\ \A k \in 1..Len(new) : new[k] = ring[a + k - 1]
<1> DEFINE before == seq - Len(ring)
           a == IF cursor < before THEN 1 ELSE cursor + 1 - before
<1>1. /\ ring \in Seq(Message) /\ Len(ring) \in Nat /\ DOMAIN ring = 1..Len(ring)
      /\ Len(ring) <= seq /\ \A i \in 1..Len(ring) : ring[i].seq = seq - Len(ring) + i
  BY LenProperties DEF RingIsNumbered
<1>2. before \in Nat /\ a \in 1..(Len(ring) + 1)
  BY <1>1
<1>3. {i \in DOMAIN ring : ring[i].seq > cursor} = a..Len(ring)
  BY <1>1, <1>2
<1>4. EventsAfter(ring, cursor) = Pick(ring, a..Len(ring))
  BY <1>3 DEF EventsAfter
<1>5. /\ \A i \in a..Len(ring) : ring[i].seq > cursor
      /\ \A i \in 1..Len(ring) : ring[i].seq > cursor => i \in a..Len(ring)
  BY <1>1, <1>3
<1> HIDE DEF a
<1>6. /\ Pick(ring, a..Len(ring)) \in Seq(Message)
      /\ Len(Pick(ring, a..Len(ring))) = Len(ring) + 1 - a
      /\ \A k \in 1..(Len(ring) + 1 - a) : Pick(ring, a..Len(ring))[k] = ring[a + k - 1]
  BY <1>1, <1>2, PickSuffix
<1> QED BY <1>2, <1>4, <1>5, <1>6

(* At the start nothing is published.                                      *)
LEMMA InitDeliveryInv == Init => DeliveryInv
<1> SUFFICES ASSUME Init PROVE DeliveryInv
  OBVIOUS
<1>1. TypeOK
  BY DeliveryAssumption, EmptySeq DEF Init, TypeOK
<1>2. Len(<<>>) = 0 /\ <<>> \in Seq(Message)
  BY EmptySeq
<1> QED BY <1>1, <1>2, DeliveryAssumption
        DEF Init, DeliveryInv, RingIsNumbered, BatchIsNewer, Behind, Rising

--------------------------------------------------------------------------------
(* publishLocked: the new envelope has the newest number and is newer than *)
(* everything the phone has.                                               *)
LEMMA PublishStep ==
  ASSUME DeliveryInv, Publish
  PROVE  DeliveryInv'
<1> DEFINE env == [seq |-> seq + 1, msg |-> published + 1]
           kept == Len(ring) - Len(ring') + 1
<1>1. /\ TypeOK /\ RingIsNumbered /\ BatchIsNewer /\ seq \in Nat /\ published \in Nat
      /\ MaxMessages \in Nat /\ RingSize \in Nat \ {0} /\ Len(ring) \in Nat
      /\ seq <= published /\ published < MaxMessages /\ last \in Nat /\ cursor \in Nat
  BY DeliveryAssumption, LenProperties DEF DeliveryInv, TypeOK, RingIsNumbered, Publish
<1>2. /\ seq' = seq + 1 /\ published' = published + 1
      /\ UNCHANGED <<running, cursor, stored, batch, delivered, last, daemonCrashes,
                     phoneCrashes, throws>>
  BY DEF Publish, phoneVars, crashVars
<1>3. env \in Message
  BY <1>1 DEF Message
<1>4. /\ ring' \in Seq(Message) /\ Len(ring') \in Nat
      /\ Len(ring') = IF Len(ring) = RingSize THEN RingSize ELSE Len(ring) + 1
      /\ ring'[Len(ring')] = env
      /\ \A i \in 1..(Len(ring') - 1) : ring'[i] = ring[kept + i]
  <2>1. ring' = RingAppend(ring, env, RingSize)
    BY DEF Publish
  <2> HIDE DEF env
  <2>2. ring \in Seq(Message) /\ Len(ring) <= RingSize
    BY <1>1 DEF RingIsNumbered
  <2>3. /\ ring' \in Seq(Message)
        /\ Len(ring') = IF Len(ring) = RingSize THEN RingSize ELSE Len(ring) + 1
        /\ ring'[Len(ring')] = env
        /\ \A i \in 1..(Len(ring') - 1) : ring'[i] = ring[Len(ring) - Len(ring') + 1 + i]
    BY <1>1, <1>3, <2>1, <2>2, RingAppendProperties
  <2> QED BY <2>3, LenProperties
<1>5. /\ kept \in {0, 1} /\ Len(ring') - 1 + kept = Len(ring) /\ Len(ring') >= 1
  <2>1. Len(ring') = IF Len(ring) = RingSize THEN RingSize ELSE Len(ring) + 1
    BY <1>4
  <2>2. Len(ring) \in Nat /\ RingSize \in Nat \ {0}
    BY <1>1
  <2>3. CASE Len(ring) = RingSize
    <3>1. Len(ring') = Len(ring) /\ kept = 1 /\ Len(ring) >= 1
      BY <2>1, <2>2, <2>3
    <3> HIDE DEF kept
    <3> QED BY <2>2, <3>1
  <2>4. CASE Len(ring) # RingSize
    <3>1. Len(ring') = Len(ring) + 1 /\ kept = 0
      BY <2>1, <2>2, <2>4
    <3> HIDE DEF kept
    <3> QED BY <2>2, <3>1
  <2> QED BY <2>3, <2>4
<1>6. \A i \in 1..(Len(ring') - 1) : kept + i \in 1..Len(ring)
  BY <1>1, <1>4, <1>5
<1> HIDE DEF kept
<1>7. env.seq = seq + 1 /\ env.msg = published + 1
  OBVIOUS
<1> HIDE DEF env
<1>8. \A i \in 1..Len(ring) : ring[i].seq \in Nat /\ ring[i].msg \in Nat
  BY <1>1, MessageNumbers DEF RingIsNumbered
<1>9. ASSUME NEW i \in 1..Len(ring')
      PROVE  /\ ring'[i].seq = seq' - Len(ring') + i /\ ring'[i].msg <= published'
             /\ i # Len(ring') => ring'[i].msg <= published
  <2>1. CASE i = Len(ring')
    <3>1. ring'[i] = env /\ Len(ring') \in Nat
      BY <1>4, <2>1
    <3> QED BY <1>1, <1>2, <1>7, <2>1, <3>1
  <2>2. CASE i # Len(ring')
    <3>1. i \in 1..(Len(ring') - 1) /\ ring'[i] = ring[kept + i] /\ kept + i \in 1..Len(ring)
      BY <1>4, <1>6, <2>2
    <3>2. ring[kept + i].seq = seq - Len(ring) + (kept + i) /\ ring[kept + i].msg <= published
      BY <3>1 DEF DeliveryInv, RingIsNumbered
    <3>3. seq - Len(ring) + (kept + i) = seq + 1 - Len(ring') + i
      <4>1. Len(ring) \in Int /\ Len(ring') \in Int /\ kept \in Int /\ seq \in Int /\ i \in Int
        BY <1>1, <1>4, <1>5, <3>1
      <4> QED BY <1>5, <4>1
    <3>4. ring[kept + i].msg \in Nat
      BY <1>8, <3>1
    <3> QED BY <1>1, <1>2, <3>1, <3>2, <3>3, <3>4
  <2> QED BY <2>1, <2>2
<1>10. Rising(ring)'
  <2> SUFFICES ASSUME NEW i \in 1..Len(ring'), NEW j \in 1..Len(ring'), i < j
               PROVE  ring'[i].msg < ring'[j].msg
    BY DEF Rising
  <2>1. CASE j = Len(ring')
    <3>1. ring'[i] = ring[kept + i] /\ kept + i \in 1..Len(ring) /\ ring'[i].msg <= published
      BY <1>4, <1>6, <1>9, <2>1
    <3> QED BY <1>1, <1>4, <1>7, <1>8, <2>1, <3>1
  <2>2. CASE j # Len(ring')
    <3>1. i \in 1..(Len(ring') - 1) /\ j \in 1..(Len(ring') - 1)
      <4>1. Len(ring') \in Nat
        BY <1>4
      <4> QED BY <2>2, <4>1
    <3>2. /\ ring'[i] = ring[kept + i] /\ ring'[j] = ring[kept + j]
          /\ kept + i \in 1..Len(ring) /\ kept + j \in 1..Len(ring)
      BY <1>4, <1>6, <3>1
    <3>3. kept + i < kept + j
      <4>1. kept \in Int
        BY <1>5
      <4> QED BY <4>1
    <3> QED BY <1>1, <3>2, <3>3 DEF RingIsNumbered, Rising
  <2> QED BY <2>1, <2>2
<1>11. RingIsNumbered'
  <2>1. Len(ring') <= RingSize /\ Len(ring') <= seq' /\ seq' <= published'
    BY <1>1, <1>2, <1>4 DEF RingIsNumbered
  <2> QED BY <1>4, <1>9, <1>10, <2>1 DEF RingIsNumbered
<1>12. \A m \in Nat : m <= published /\ Behind(m) => Behind(m)'
  <2> SUFFICES ASSUME NEW m \in Nat, m <= published, Behind(m),
                      NEW i \in 1..Len(ring'), ring'[i].seq > cursor \/ cursor > seq'
               PROVE  m < ring'[i].msg
    BY <1>2 DEF Behind
  <2>1. CASE i = Len(ring')
    BY <1>1, <1>4, <1>7, <2>1
  <2>2. CASE i # Len(ring')
    <3>1. ring'[i] = ring[kept + i] /\ kept + i \in 1..Len(ring)
      BY <1>4, <1>6, <2>2
    <3>2. ring[kept + i].seq > cursor \/ cursor > seq
      BY <1>1, <1>2, <3>1
    <3> QED BY <3>1, <3>2 DEF Behind
  <2> QED BY <2>1, <2>2
<1>13. /\ BatchIsNewer'
       /\ \A i \in 1..Len(batch) : batch[i].msg \in Nat /\ batch[i].msg <= published
  <2>1. \A i \in 1..Len(batch) : batch[i].msg \in Nat
    BY <1>1, MessageNumbers DEF BatchIsNewer
  <2> QED BY <1>1, <1>2, <2>1 DEF BatchIsNewer, Rising
<1>14. TypeOK'
  BY <1>1, <1>2, <1>4 DEF TypeOK
<1> QED BY <1>1, <1>2, <1>11, <1>12, <1>13, <1>14 DEF DeliveryInv

(* A daemon that dies takes ring and numbers with it; one that starts      *)
(* leaves them empty.                                                      *)
LEMMA DaemonStep ==
  ASSUME DeliveryInv, DaemonCrash \/ DaemonStart
  PROVE  DeliveryInv'
<1>1. CASE DaemonCrash
  <2>1. ring' = <<>> /\ Len(<<>>) = 0 /\ <<>> \in Seq(Message) /\ seq' = 0
    BY <1>1, EmptySeq DEF DaemonCrash
  <2>2. TypeOK'
    <3>1. running' \in BOOLEAN
      BY <1>1, Zenon DEF DaemonCrash
    <3> QED BY <1>1, <2>1, <3>1, DeliveryAssumption
            DEF DaemonCrash, DeliveryInv, TypeOK, phoneVars
  <2>3. /\ UNCHANGED <<cursor, stored, batch, published, delivered, last>>
        /\ published \in Nat /\ RingSize \in Nat
    BY <1>1, DeliveryAssumption DEF DaemonCrash, DeliveryInv, TypeOK, phoneVars
  <2> QED BY <2>1, <2>2, <2>3 DEF DeliveryInv, RingIsNumbered, BatchIsNewer, Behind, Rising
<1>2. CASE DaemonStart
  BY <1>2 DEF DaemonStart, DeliveryInv, TypeOK, RingIsNumbered, BatchIsNewer, Behind, Rising,
              phoneVars, history, crashVars
<1> QED BY <1>1, <1>2

(* A cursor that is refused is behind everything that is on the ring.      *)
LEMMA PollTooOldStep ==
  ASSUME DeliveryInv, PollTooOld
  PROVE  DeliveryInv'
<1>1. /\ cursor' = 0 /\ batch = <<>> /\ CursorTooOld(ring, seq, cursor)
      /\ UNCHANGED <<running, seq, ring, stored, batch, published, delivered, last,
                     daemonCrashes, phoneCrashes, throws>>
  BY DEF PollTooOld, daemonVars, crashVars
<1>2. \A i \in 1..Len(ring) : ring[i].seq > cursor \/ cursor > seq
  <2> SUFFICES ASSUME NEW i \in 1..Len(ring), ~(cursor > seq) PROVE ring[i].seq > cursor
    OBVIOUS
  <2>1. Len(ring) \in Nat /\ seq \in Nat /\ cursor \in Nat
    BY LenProperties DEF DeliveryInv, TypeOK
  <2>2. 1 \in 1..Len(ring) /\ cursor + 1 < ring[1].seq
    BY <1>1, <2>1 DEF CursorTooOld
  <2>3. ring[1].seq = seq - Len(ring) + 1 /\ ring[i].seq = seq - Len(ring) + i
    BY <2>2 DEF DeliveryInv, RingIsNumbered
  <2> QED BY <2>1, <2>2, <2>3
<1>3. Behind(last)'
  BY <1>1, <1>2 DEF DeliveryInv, Behind
<1>4. Len(batch) = 0
  BY <1>1, EmptySeq
<1>5. TypeOK' /\ RingIsNumbered' /\ BatchIsNewer' /\ (last <= published)'
  BY <1>1, DeliveryAssumption DEF DeliveryInv, TypeOK, RingIsNumbered, BatchIsNewer, Rising
<1> QED BY <1>1, <1>3, <1>4, <1>5 DEF DeliveryInv

(* What an answered poll brings is newer than anything delivered, and it   *)
(* leaves nothing on the ring to be brought again.                         *)
LEMMA PollStep ==
  ASSUME DeliveryInv, Poll
  PROVE  DeliveryInv'
<1>1. /\ cursor' = seq /\ batch' = EventsAfter(ring, cursor)
      /\ ~CursorTooOld(ring, seq, cursor)
      /\ UNCHANGED <<running, seq, ring, stored, published, delivered, last,
                     daemonCrashes, phoneCrashes, throws>>
  BY DEF Poll, Fetch, daemonVars, crashVars
<1>2. TypeOK /\ RingIsNumbered /\ seq \in Nat /\ cursor \in 0..seq /\ Len(ring) \in Nat
  BY <1>1, LenProperties DEF DeliveryInv, TypeOK, CursorTooOld
<1>3. PICK a \in 1..(Len(ring) + 1) :
        /\ \A i \in a..Len(ring) : ring[i].seq > cursor
        /\ Len(batch') = Len(ring) + 1 - a
        /\ \A k \in 1..Len(batch') : batch'[k] = ring[a + k - 1]
  BY <1>1, <1>2, FetchedSuffix
<1>4. batch' \in Seq(Message)
  BY <1>1, <1>2, FetchedSuffix
<1>5. \A k \in 1..Len(batch') : a + k - 1 \in a..Len(ring) /\ a + k - 1 \in 1..Len(ring)
  BY <1>2, <1>3
<1>6. BatchIsNewer'
  <2>1. ASSUME NEW k \in 1..Len(batch')
        PROVE  last < batch'[k].msg /\ batch'[k].msg <= published
    <3>1. batch'[k] = ring[a + k - 1] /\ ring[a + k - 1].seq > cursor
      BY <1>3, <1>5
    <3> QED BY <1>2, <1>5, <3>1 DEF DeliveryInv, Behind, RingIsNumbered
  <2>2. ASSUME NEW i \in 1..Len(batch'), NEW j \in 1..Len(batch'), i < j
        PROVE  batch'[i].msg < batch'[j].msg
    <3>1. a + i - 1 < a + j - 1
      BY <1>2, <2>2
    <3> QED BY <1>2, <1>3, <1>5, <3>1 DEF RingIsNumbered, Rising
  <2> QED BY <1>1, <1>4, <2>1, <2>2 DEF BatchIsNewer, Rising
<1>7. ASSUME NEW m PROVE Behind(m)'
  <2> SUFFICES ASSUME NEW i \in 1..Len(ring) PROVE ~(ring[i].seq > seq \/ seq > seq)
    BY <1>1 DEF Behind
  <2>1. ring[i].seq = seq - Len(ring) + i
    BY <1>2 DEF RingIsNumbered
  <2> QED BY <1>2, <2>1
<1>8. TypeOK' /\ RingIsNumbered' /\ (last <= published)'
  <2>1. seq \in 0..MaxMessages
    BY <1>2 DEF TypeOK
  <2> QED BY <1>1, <1>2, <1>4, <2>1 DEF DeliveryInv, TypeOK, RingIsNumbered, Rising
<1> QED BY <1>6, <1>7, <1>8 DEF DeliveryInv

(* deliver: what is left of the batch is newer than what was delivered.    *)
LEMMA DeliverStep ==
  ASSUME DeliveryInv, Deliver
  PROVE  DeliveryInv'
<1>1. /\ batch # <<>> /\ delivered' = delivered \cup {Head(batch).msg}
      /\ last' = Head(batch).msg /\ batch' = Tail(batch)
      /\ UNCHANGED <<running, seq, ring, cursor, stored, published, daemonCrashes,
                     phoneCrashes, throws>>
  BY DEF Deliver, daemonVars, crashVars
<1>2. /\ batch \in Seq(Message) /\ Head(batch) = batch[1] /\ Len(batch) \in Nat \ {0}
      /\ Tail(batch) \in Seq(Message) /\ Len(Tail(batch)) = Len(batch) - 1
      /\ \A i \in 1..Len(Tail(batch)) : Tail(batch)[i] = batch[i + 1]
  BY <1>1, HeadTailProperties, LenProperties, EmptySeq DEF DeliveryInv, BatchIsNewer
<1>3. /\ 1 \in 1..Len(batch)
      /\ \A i \in 1..Len(Tail(batch)) : i + 1 \in 1..Len(batch) /\ 1 < i + 1
  BY <1>2
<1>4. batch[1].msg \in 1..MaxMessages /\ batch[1].msg <= published
  BY <1>2, <1>3, MessageNumbers DEF DeliveryInv, BatchIsNewer
<1>5. TypeOK'
  <2>1. delivered' = delivered \cup {batch[1].msg} /\ last' = batch[1].msg
    BY <1>1, <1>2
  <2>2. delivered \subseteq 1..MaxMessages
    BY DEF DeliveryInv, TypeOK
  <2>3. delivered' \subseteq 1..MaxMessages
    BY <1>4, <2>1, <2>2
  <2>4. last' \in 0..MaxMessages
    BY <1>4, <2>1, DeliveryAssumption
  <2> QED BY <1>1, <1>2, <2>3, <2>4 DEF DeliveryInv, TypeOK
<1>6. RingIsNumbered'
  BY <1>1 DEF DeliveryInv, RingIsNumbered, Rising
<1>7. BatchIsNewer'
  <2>1. ASSUME NEW i \in 1..Len(batch')
        PROVE  last' < batch'[i].msg /\ batch'[i].msg <= published
    BY <1>1, <1>2, <1>3 DEF DeliveryInv, BatchIsNewer, Rising
  <2>2. ASSUME NEW i \in 1..Len(batch'), NEW j \in 1..Len(batch'), i < j
        PROVE  batch'[i].msg < batch'[j].msg
    <3>1. i + 1 < j + 1 /\ batch'[i] = batch[i + 1] /\ batch'[j] = batch[j + 1]
      BY <1>1, <1>2, <2>2
    <3> QED BY <1>1, <1>3, <3>1 DEF DeliveryInv, BatchIsNewer, Rising
  <2> QED BY <1>1, <1>2, <2>1, <2>2 DEF BatchIsNewer, Rising
<1>8. Behind(last)' /\ \A i \in 1..Len(batch') : Behind(batch[i].msg)'
  <2>1. \A m : Behind(m) => Behind(m)'
    BY <1>1 DEF Behind
  <2>2. Behind(last)'
    BY <1>1, <1>2, <1>3 DEF DeliveryInv, Behind
  <2>3. ASSUME NEW i \in 1..Len(batch') PROVE Behind(batch[i].msg)'
    <3>1. batch'[i] = batch[i + 1] /\ Behind(batch[i + 1].msg)
      BY <1>1, <1>2, <1>3 DEF DeliveryInv
    <3> QED BY <1>1, <3>1 DEF Behind
  <2> QED BY <2>2, <2>3
<1> QED BY <1>1, <1>2, <1>4, <1>5, <1>6, <1>7, <1>8 DEF DeliveryInv

(* A batch that is lost, a cursor that reaches the disk, and a service     *)
(* that starts again with an old cursor and no memory of what it showed.   *)
LEMMA PhoneStep ==
  ASSUME DeliveryInv, SaveCursor \/ DeliverThrows \/ PhoneCrash
  PROVE  DeliveryInv'
<1>1. Len(<<>>) = 0 /\ <<>> \in Seq(Message) /\ published \in Nat
  BY EmptySeq DEF DeliveryInv, TypeOK
<1>2. CASE SaveCursor
  BY <1>2 DEF SaveCursor, DeliveryInv, TypeOK, RingIsNumbered, BatchIsNewer, Behind, Rising,
              daemonVars, crashVars
<1>3. CASE DeliverThrows
  <2>1. TypeOK'
    BY <1>1, <1>3, DeliveryAssumption DEF DeliverThrows, DeliveryInv, TypeOK, daemonVars
  <2> QED BY <1>1, <1>3, <2>1 DEF DeliverThrows, DeliveryInv, RingIsNumbered, BatchIsNewer,
                                 Behind, Rising, daemonVars
<1>4. CASE PhoneCrash
  <2>1. TypeOK'
    BY <1>1, <1>4, DeliveryAssumption DEF PhoneCrash, DeliveryInv, TypeOK, daemonVars
  <2>2. /\ UNCHANGED <<running, seq, ring, published>> /\ batch' = <<>> /\ last' = 0
    BY <1>4 DEF PhoneCrash, daemonVars
  <2>3. Behind(last)'
    <3>1. \A i \in 1..Len(ring) : ring[i].msg \in 1..MaxMessages
      BY MessageNumbers DEF DeliveryInv, RingIsNumbered
    <3> QED BY <2>2, <3>1 DEF Behind
  <2> QED BY <1>1, <2>1, <2>2, <2>3 DEF DeliveryInv, RingIsNumbered, BatchIsNewer, Rising
<1> QED BY <1>2, <1>3, <1>4

(* Every step keeps DeliveryInv.                                           *)
LEMMA DeliveryStep == DeliveryInv /\ [Next]_vars => DeliveryInv'
<1>1. ASSUME DeliveryInv, UNCHANGED vars PROVE DeliveryInv'
  BY <1>1 DEF vars, daemonVars, phoneVars, history, crashVars, DeliveryInv, TypeOK,
              RingIsNumbered, BatchIsNewer, Behind, Rising
<1> QED BY <1>1, PublishStep, DaemonStep, PollTooOldStep, PollStep, DeliverStep, PhoneStep
        DEF Next

--------------------------------------------------------------------------------
(* What becomes of a message, besides the order it comes in.               *)
AccountInv == DeliveryInv /\ HistoryTypeOK /\ NothingVanishes /\ CursorsAreBehind

(* Envelopes of the ring and of the batch carry messages.                  *)
LEMMA HeldMessages ==
  ASSUME DeliveryInv
  PROVE  /\ \A e \in OnRing : e.msg \in 1..MaxMessages /\ e.seq \in 1..seq
         /\ InHand \subseteq 1..MaxMessages
<1>1. ring \in Seq(Message) /\ batch \in Seq(Message) /\ Len(ring) \in Nat /\ seq \in Nat
  BY LenProperties DEF DeliveryInv, RingIsNumbered, BatchIsNewer, TypeOK
<1>2. \A i \in 1..Len(ring) : ring[i].seq = seq - Len(ring) + i /\ Len(ring) <= seq
  BY DEF DeliveryInv, RingIsNumbered
<1>3. \A i \in 1..Len(ring) : ring[i].msg \in 1..MaxMessages /\ ring[i].seq \in 1..seq
  BY <1>1, <1>2, MessageNumbers
<1>4. \A i \in 1..Len(batch) : batch[i].msg \in 1..MaxMessages
  BY <1>1, MessageNumbers
<1> QED BY <1>3, <1>4 DEF OnRing, InHand, Messages

(* What an append leaves of a ring of messages.                            *)
LEMMA GrownRing ==
  ASSUME NEW old \in Seq(Message), NEW new, NEW e \in Message, NEW size \in Nat \ {0},
         Len(old) <= size, new = RingAppend(old, e, size)
  PROVE  /\ new \in Seq(Message)
         /\ Len(new) = IF Len(old) = size THEN size ELSE Len(old) + 1
         /\ new[Len(new)] = e
         /\ \A i \in 1..(Len(new) - 1) : new[i] = old[Len(old) - Len(new) + 1 + i]
BY ONLY RingAppendProperties, Len(old) <= size, new = RingAppend(old, e, size)

(* What the ring holds after an envelope was appended to it.               *)
LEMMA AppendedRing ==
  ASSUME DeliveryInv, Publish
  PROVE  \E env : /\ env.seq = seq + 1 /\ env.msg = published + 1
                  /\ OnRing' \subseteq OnRing \cup {env} /\ env \in OnRing'
                  /\ OnRing \subseteq OnRing' \cup RingEvicts(ring, RingSize)
                  /\ RingEvicts(ring, RingSize) \subseteq OnRing
<1> DEFINE env == [seq |-> seq + 1, msg |-> published + 1]
<1>1. /\ ring \in Seq(Message) /\ Len(ring) \in Nat /\ RingSize \in Nat \ {0}
      /\ Len(ring) <= RingSize /\ env \in Message
  BY DeliveryAssumption, LenProperties DEF DeliveryInv, RingIsNumbered, TypeOK, Publish, Message
<1>2. env.seq = seq + 1 /\ env.msg = published + 1 /\ ring' = RingAppend(ring, env, RingSize)
  BY DEF Publish
<1> HIDE DEF env
<1>3. /\ ring' \in Seq(Message)
      /\ Len(ring') = IF Len(ring) = RingSize THEN RingSize ELSE Len(ring) + 1
      /\ ring'[Len(ring')] = env
      /\ \A i \in 1..(Len(ring') - 1) : ring'[i] = ring[Len(ring) - Len(ring') + 1 + i]
  BY ONLY <1>1, <1>2, GrownRing
<1>4. CASE Len(ring) = RingSize
  <2>1. Len(ring') = Len(ring) /\ Len(ring) >= 1 /\ RingEvicts(ring, RingSize) = {ring[1]}
    BY <1>1, <1>3, <1>4 DEF RingEvicts
  <2>2. \A i \in 1..(Len(ring) - 1) : ring'[i] = ring[1 + i]
    <3>1. \A i \in 1..(Len(ring) - 1) : Len(ring) - Len(ring') + 1 + i = 1 + i
      BY <1>1, <2>1
    <3> QED BY <1>3, <2>1, <3>1
  <2>3. \A i \in 1..Len(ring') : i = Len(ring') \/ (ring'[i] = ring[1 + i] /\ 1 + i \in 1..Len(ring))
    BY <1>1, <2>1, <2>2
  <2>4. \A i \in 1..Len(ring) : i = 1 \/ (i - 1 \in 1..Len(ring') /\ ring[i] = ring'[i - 1])
    BY <1>1, <2>1, <2>2
  <2>5. Len(ring') \in 1..Len(ring') /\ 1 \in 1..Len(ring)
    BY <1>1, <2>1
  <2>6. OnRing' = {ring'[i] : i \in 1..Len(ring')}
    BY DEF OnRing
  <2>7. OnRing' \subseteq OnRing \cup {env} /\ env \in OnRing'
    <3>1. ASSUME NEW i \in 1..Len(ring') PROVE ring'[i] \in OnRing \cup {env}
      BY <1>3, <2>3 DEF OnRing
    <3>2. ring'[Len(ring')] \in OnRing'
      BY <2>5, <2>6
    <3>3. \A x \in OnRing' : x \in OnRing \cup {env}
      BY <2>6, <3>1
    <3> QED BY <1>3, <3>2, <3>3
  <2>8. OnRing \subseteq OnRing' \cup {ring[1]} /\ {ring[1]} \subseteq OnRing
    BY <2>4, <2>5, <2>6 DEF OnRing
  <2> QED BY <1>2, <2>1, <2>7, <2>8
<1>5. CASE Len(ring) # RingSize
  <2>1. Len(ring') = Len(ring) + 1 /\ RingEvicts(ring, RingSize) = {}
    BY <1>1, <1>3, <1>5 DEF RingEvicts
  <2>2. \A i \in 1..Len(ring) : ring'[i] = ring[i] /\ i \in 1..Len(ring')
    <3>1. \A i \in 1..Len(ring) : /\ Len(ring) - Len(ring') + 1 + i = i
                                  /\ i \in 1..(Len(ring') - 1) /\ i \in 1..Len(ring')
      BY <1>1, <2>1
    <3> QED BY <1>3, <3>1
  <2>3. \A i \in 1..Len(ring') : i = Len(ring') \/ i \in 1..Len(ring)
    BY <1>1, <2>1
  <2>4. Len(ring') \in 1..Len(ring')
    BY <1>1, <2>1
  <2>5. OnRing' = {ring'[i] : i \in 1..Len(ring')}
    BY DEF OnRing
  <2>6. OnRing' \subseteq OnRing \cup {env} /\ env \in OnRing'
    <3>1. ASSUME NEW i \in 1..Len(ring') PROVE ring'[i] \in OnRing \cup {env}
      BY <1>3, <2>2, <2>3 DEF OnRing
    <3>2. ring'[Len(ring')] \in OnRing'
      BY <2>4, <2>5
    <3>3. \A x \in OnRing' : x \in OnRing \cup {env}
      BY <2>5, <3>1
    <3> QED BY <1>3, <3>2, <3>3
  <2>7. OnRing \subseteq OnRing'
    BY <2>2, <2>5 DEF OnRing
  <2> QED BY <1>2, <2>1, <2>6, <2>7
<1> QED BY <1>4, <1>5

(* At the start nothing is published.                                      *)
LEMMA InitAccount == Init => AccountInv
<1> SUFFICES ASSUME Init PROVE AccountInv
  OBVIOUS
<1>1. DeliveryInv
  BY InitDeliveryInv
<1>2. OnRing = {} /\ HistoryTypeOK /\ NothingVanishes
  BY EmptySeq DEF Init, OnRing, HistoryTypeOK, NothingVanishes
<1> QED BY <1>1, <1>2 DEF AccountInv, Init, CursorsAreBehind

(* A step after which the same messages are held, or those that are not    *)
(* any more are delivered or lost.                                         *)
LEMMA StillAccounted ==
  ASSUME NothingVanishes, UNCHANGED published,
         delivered \cup lost \cup InHand \subseteq (delivered \cup lost \cup InHand)',
         \A e \in OnRing : (cursorFrom = daemonCrashes => e.seq > cursor) =>
           \/ e.msg \in (delivered \cup lost \cup InHand)'
           \/ e \in OnRing' /\ (cursorFrom' = daemonCrashes' => e.seq > cursor')
  PROVE  NothingVanishes'
BY DEF NothingVanishes

(* A new message is on the ring past the cursor; what it pushed out was    *)
(* delivered, is in hand, or is now lost.                                  *)
LEMMA PublishAccounts ==
  ASSUME AccountInv, Publish
  PROVE  HistoryTypeOK' /\ NothingVanishes' /\ CursorsAreBehind'
<1>1. /\ seq' = seq + 1 /\ published' = published + 1
      /\ UNCHANGED <<batch, cursor, stored, delivered, cursorFrom, storedFrom, daemonCrashes>>
      /\ lost' = lost \cup (Messages(RingEvicts(ring, RingSize)) \ (delivered \cup InHand))
  BY DEF Publish, phoneVars, origins, crashVars, LosesUnfetched
<1>2. /\ seq \in Nat /\ published \in Nat /\ cursor \in Nat /\ stored \in Nat
      /\ HistoryTypeOK /\ NothingVanishes /\ CursorsAreBehind
  BY DEF AccountInv, DeliveryInv, TypeOK
<1>3. PICK env : /\ env.seq = seq + 1 /\ env.msg = published + 1
                 /\ OnRing' \subseteq OnRing \cup {env} /\ env \in OnRing'
                 /\ OnRing \subseteq OnRing' \cup RingEvicts(ring, RingSize)
                 /\ RingEvicts(ring, RingSize) \subseteq OnRing
  BY AppendedRing DEF AccountInv
<1>4. InHand' = InHand /\ \A e \in OnRing : e.msg \in 1..MaxMessages /\ e.seq \in 1..seq
  BY <1>1, HeldMessages DEF AccountInv, InHand
<1>5. HistoryTypeOK'
  BY <1>1, <1>2, <1>3, <1>4 DEF HistoryTypeOK, Messages
<1>6. NothingVanishes'
  <2> SUFFICES ASSUME NEW m \in 1..(published + 1)
               PROVE  \/ m \in (delivered \cup lost \cup InHand)'
                      \/ \E e \in OnRing' : /\ e.msg = m
                                            /\ cursorFrom' = daemonCrashes' => e.seq > cursor'
    BY <1>1 DEF NothingVanishes
  <2>1. CASE m = published + 1
    BY <1>1, <1>2, <1>3, <2>1 DEF CursorsAreBehind
  <2>2. CASE m # published + 1
    <3>1. m \in 1..published
      BY <1>2, <2>2
    <3>2. CASE m \in delivered \cup lost \cup InHand
      BY <1>1, <1>4, <3>2
    <3>3. CASE \E e \in OnRing : e.msg = m /\ (cursorFrom = daemonCrashes => e.seq > cursor)
      <4>1. PICK e \in OnRing : e.msg = m /\ (cursorFrom = daemonCrashes => e.seq > cursor)
        BY <3>3
      <4>2. CASE e \in OnRing'
        BY <1>1, <4>1, <4>2
      <4>3. CASE e \in RingEvicts(ring, RingSize)
        BY <1>1, <1>4, <4>1, <4>3 DEF Messages
      <4> QED BY <1>3, <4>2, <4>3
    <3> QED BY <1>2, <3>1, <3>2, <3>3 DEF NothingVanishes
  <2> QED BY <2>1, <2>2
<1>7. CursorsAreBehind'
  <2>1. ASSUME storedFrom = daemonCrashes, NEW e \in OnRing', e.seq > cursor
        PROVE  e.seq > stored
    BY <1>2, <1>3, <2>1 DEF CursorsAreBehind
  <2> QED BY <1>1, <1>2, <2>1 DEF CursorsAreBehind
<1> QED BY <1>5, <1>6, <1>7

(* What dies with the daemon and nobody has is lost; its cursors become an *)
(* earlier daemon's.                                                       *)
LEMMA DaemonAccounts ==
  ASSUME AccountInv, DaemonCrash \/ DaemonStart
  PROVE  HistoryTypeOK' /\ NothingVanishes' /\ CursorsAreBehind'
<1>1. /\ HistoryTypeOK /\ NothingVanishes /\ CursorsAreBehind /\ daemonCrashes \in Nat
  BY DeliveryAssumption DEF AccountInv, DeliveryInv, TypeOK
<1>2. CASE DaemonCrash
  <2>1. /\ ring' = <<>> /\ seq' = 0 /\ daemonCrashes' = daemonCrashes + 1
        /\ UNCHANGED <<batch, cursor, stored, published, delivered, cursorFrom, storedFrom>>
        /\ lost' = lost \cup (Messages(OnRing) \ (delivered \cup InHand))
    BY <1>2 DEF DaemonCrash, phoneVars, origins, LosesUnfetched
  <2>2. InHand' = InHand /\ \A e \in OnRing : e.msg \in 1..MaxMessages
    BY <2>1, HeldMessages DEF AccountInv, InHand
  <2>3. HistoryTypeOK'
    BY <1>1, <2>1, <2>2 DEF HistoryTypeOK, Messages
  <2>4. NothingVanishes'
    BY <1>1, <2>1, <2>2 DEF NothingVanishes, Messages
  <2>5. CursorsAreBehind'
    BY <1>1, <2>1 DEF CursorsAreBehind, HistoryTypeOK
  <2> QED BY <2>3, <2>4, <2>5
<1>3. CASE DaemonStart
  BY <1>1, <1>3 DEF DaemonStart, phoneVars, history, origins, crashVars, HistoryTypeOK,
                    NothingVanishes, CursorsAreBehind, InHand, OnRing
<1> QED BY <1>2, <1>3

(* The reset passes over nothing.                                          *)
LEMMA PollTooOldAccounts ==
  ASSUME AccountInv, PollTooOld
  PROVE  HistoryTypeOK' /\ NothingVanishes' /\ CursorsAreBehind'
<1>1. /\ cursor' = 0 /\ cursorFrom' = daemonCrashes /\ CursorTooOld(ring, seq, cursor)
      /\ UNCHANGED <<ring, seq, batch, stored, storedFrom, published, delivered, lost,
                     daemonCrashes>>
  BY DEF PollTooOld, daemonVars, crashVars
<1>2. /\ HistoryTypeOK /\ NothingVanishes /\ CursorsAreBehind /\ daemonCrashes \in Nat
      /\ cursor \in Nat /\ seq \in Nat /\ stored \in Nat /\ Len(ring) \in Nat
  BY DeliveryAssumption, LenProperties DEF AccountInv, DeliveryInv, TypeOK
<1>3. InHand' = InHand /\ OnRing' = OnRing /\ \A e \in OnRing : e.seq \in 1..seq
  BY <1>1, HeldMessages DEF AccountInv, InHand, OnRing
<1>4. HistoryTypeOK'
  BY <1>1, <1>2 DEF HistoryTypeOK
<1>5. NothingVanishes'
  <2>1. \A e \in OnRing' : e.seq > cursor'
    BY <1>1, <1>2, <1>3
  <2> QED BY <1>1, <1>2, <1>3, <2>1 DEF NothingVanishes
<1>6. CursorsAreBehind'
  <2>1. ASSUME storedFrom = daemonCrashes, NEW e \in OnRing
        PROVE  e.seq > stored
    <3>1. cursorFrom = daemonCrashes
      BY <1>2, <2>1 DEF CursorsAreBehind, HistoryTypeOK
    <3>2. cursor <= seq /\ Len(ring) > 0 /\ cursor + 1 < ring[1].seq
      BY <1>1, <1>2, <3>1 DEF CursorsAreBehind, CursorTooOld
    <3>3. PICK i \in 1..Len(ring) : e = ring[i]
      BY DEF OnRing
    <3>4. 1 \in 1..Len(ring)
      BY <1>2, <3>2
    <3>5. ring[1].seq = seq - Len(ring) + 1 /\ ring[i].seq = seq - Len(ring) + i
      BY <3>4 DEF AccountInv, DeliveryInv, RingIsNumbered
    <3>6. e.seq > cursor
      BY <1>2, <3>2, <3>3, <3>5
    <3> QED BY <1>2, <2>1, <3>6 DEF CursorsAreBehind
  <2> QED BY <1>1, <1>2, <1>3, <2>1 DEF CursorsAreBehind, HistoryTypeOK
<1> QED BY <1>4, <1>5, <1>6

(* What a poll passes over has been brought before, or is lost now.        *)
LEMMA PollAccounts ==
  ASSUME AccountInv, Poll
  PROVE  HistoryTypeOK' /\ NothingVanishes' /\ CursorsAreBehind'
<1>1. /\ cursor' = seq /\ cursorFrom' = daemonCrashes /\ batch' = EventsAfter(ring, cursor)
      /\ ~CursorTooOld(ring, seq, cursor) /\ batch = <<>>
      /\ UNCHANGED <<ring, seq, stored, storedFrom, published, delivered, daemonCrashes>>
      /\ lost' = lost \cup (Messages({e \in OnRing : cursorFrom # daemonCrashes /\ e.seq <= cursor})
                              \ (delivered \cup InHand))
  BY DEF Poll, Fetch, daemonVars, crashVars, LosesUnfetched
<1>2. /\ HistoryTypeOK /\ NothingVanishes /\ CursorsAreBehind /\ daemonCrashes \in Nat
      /\ seq \in Nat /\ stored \in Nat /\ Len(ring) \in Nat /\ cursor \in 0..seq
      /\ RingIsNumbered
  BY <1>1, DeliveryAssumption, LenProperties
     DEF AccountInv, DeliveryInv, TypeOK, CursorTooOld
<1>3. InHand = {} /\ OnRing' = OnRing
  BY <1>1, EmptySeq DEF InHand, Messages, OnRing
<1>4. \A e \in OnRing : e.msg \in 1..MaxMessages /\ e.seq \in 1..seq
  BY HeldMessages DEF AccountInv
<1>5. \A e \in OnRing : e.seq > cursor => e.msg \in InHand'
  <2>1. PICK a \in 1..(Len(ring) + 1) :
          /\ \A i \in 1..Len(ring) : ring[i].seq > cursor => i \in a..Len(ring)
          /\ Len(batch') = Len(ring) + 1 - a
          /\ \A k \in 1..Len(batch') : batch'[k] = ring[a + k - 1]
    BY <1>1, <1>2, FetchedSuffix
  <2> SUFFICES ASSUME NEW i \in 1..Len(ring), ring[i].seq > cursor
               PROVE  \E k \in 1..Len(batch') : batch'[k] = ring[i]
    BY DEF OnRing, InHand, Messages
  <2>2. i \in a..Len(ring)
    BY <2>1
  <2>3. i - a + 1 \in 1..Len(batch') /\ a + (i - a + 1) - 1 = i
    BY <1>2, <2>1, <2>2
  <2> QED BY <2>1, <2>3
<1>6. HistoryTypeOK'
  BY <1>1, <1>2, <1>4 DEF HistoryTypeOK, Messages
<1>7. NothingVanishes'
  <2>1. ASSUME NEW e \in OnRing, cursorFrom = daemonCrashes => e.seq > cursor
        PROVE  e.msg \in (delivered \cup lost \cup InHand)'
    <3>1. CASE e.seq > cursor
      BY <1>5, <3>1
    <3>2. CASE ~(e.seq > cursor)
      <4>1. cursorFrom # daemonCrashes /\ e.seq <= cursor
        BY <1>2, <1>4, <2>1, <3>2
      <4>2. e.msg \in Messages({x \in OnRing : cursorFrom # daemonCrashes /\ x.seq <= cursor})
        BY <4>1 DEF Messages
      <4> QED BY <1>1, <1>3, <4>2
    <3> QED BY <3>1, <3>2
  <2> QED BY <1>1, <1>2, <1>3, <2>1, StillAccounted
<1>8. CursorsAreBehind'
  BY <1>1, <1>2, <1>3, <1>4 DEF CursorsAreBehind, HistoryTypeOK
<1> QED BY <1>6, <1>7, <1>8

(* The companion's steps turn what is in hand into deliveries or losses;   *)
(* after a kill the older cursor passes over nothing that is on the ring.  *)
LEMMA PhoneAccounts ==
  ASSUME AccountInv, SaveCursor \/ Deliver \/ DeliverThrows \/ PhoneCrash
  PROVE  HistoryTypeOK' /\ NothingVanishes' /\ CursorsAreBehind'
<1>1. /\ HistoryTypeOK /\ NothingVanishes /\ CursorsAreBehind /\ daemonCrashes \in Nat
      /\ seq \in Nat /\ stored \in Nat /\ cursor \in Nat
      /\ \A e \in OnRing : e.seq \in 1..seq
      /\ InHand \subseteq 1..MaxMessages
  BY DeliveryAssumption, HeldMessages DEF AccountInv, DeliveryInv, TypeOK
<1>2. OnRing' = OnRing /\ UNCHANGED <<seq, published, daemonCrashes>>
  BY DEF SaveCursor, Deliver, DeliverThrows, PhoneCrash, daemonVars, crashVars, OnRing
<1>3. CASE SaveCursor
  <2>1. stored' = cursor /\ storedFrom' = cursorFrom /\ UNCHANGED <<cursor, cursorFrom, batch, delivered, lost>>
    BY <1>3 DEF SaveCursor
  <2> QED BY <1>1, <1>2, <2>1
          DEF HistoryTypeOK, NothingVanishes, CursorsAreBehind, InHand
<1>4. CASE Deliver
  <2>1. /\ batch # <<>> /\ delivered' = delivered \cup {Head(batch).msg}
        /\ batch' = Tail(batch)
        /\ UNCHANGED <<cursor, stored, lost, cursorFrom, storedFrom>>
    BY <1>4 DEF Deliver, origins
  <2>2. /\ Head(batch) = batch[1] /\ Len(batch) \in Nat \ {0}
        /\ Len(Tail(batch)) = Len(batch) - 1
        /\ \A i \in 1..Len(Tail(batch)) : Tail(batch)[i] = batch[i + 1]
    BY <2>1, HeadTailProperties, LenProperties, EmptySeq
       DEF AccountInv, DeliveryInv, BatchIsNewer
  <2>3. \A i \in 1..Len(batch) : i = 1 \/ (i - 1 \in 1..Len(batch') /\ batch'[i - 1] = batch[i])
    BY <2>1, <2>2
  <2>4. InHand \subseteq (delivered \cup InHand)'
    <3>1. ASSUME NEW i \in 1..Len(batch)
          PROVE  batch[i].msg \in delivered' \cup InHand'
      <4>1. CASE i = 1
        BY <2>1, <2>2, <4>1
      <4>2. CASE i # 1
        <5>1. i - 1 \in 1..Len(batch') /\ batch'[i - 1] = batch[i]
          BY <2>3, <4>2
        <5> QED BY <5>1 DEF InHand, Messages
      <4> QED BY <4>1, <4>2
    <3> QED BY <2>1, <3>1 DEF InHand, Messages
  <2>5. NothingVanishes'
    BY <1>1, <1>2, <2>1, <2>4, StillAccounted
  <2> QED BY <1>1, <1>2, <2>1, <2>5 DEF HistoryTypeOK, CursorsAreBehind
<1>5. CASE DeliverThrows
  <2>1. lost' = lost \cup InHand /\ UNCHANGED <<cursor, stored, delivered, cursorFrom, storedFrom>>
    BY <1>5 DEF DeliverThrows, origins
  <2>2. NothingVanishes'
    BY <1>1, <1>2, <2>1, StillAccounted
  <2> QED BY <1>1, <1>2, <2>1, <2>2 DEF HistoryTypeOK, CursorsAreBehind
<1>6. CASE PhoneCrash
  <2>1. /\ lost' = lost \cup InHand /\ cursor' = stored /\ cursorFrom' = storedFrom
        /\ UNCHANGED <<stored, delivered, storedFrom>>
    BY <1>6 DEF PhoneCrash
  <2>2. storedFrom = daemonCrashes => cursorFrom = daemonCrashes
    BY <1>1 DEF CursorsAreBehind, HistoryTypeOK
  <2>3. NothingVanishes'
    <3>1. ASSUME NEW e \in OnRing, cursorFrom = daemonCrashes => e.seq > cursor
          PROVE  cursorFrom' = daemonCrashes' => e.seq > cursor'
      BY <1>1, <1>2, <2>1, <2>2, <3>1 DEF CursorsAreBehind
    <3> QED BY <1>1, <1>2, <2>1, <3>1, StillAccounted
  <2> QED BY <1>1, <1>2, <2>1, <2>3 DEF HistoryTypeOK, CursorsAreBehind
<1> QED BY <1>3, <1>4, <1>5, <1>6

(* A published message has been delivered or lost in one of the known      *)
(* ways, or is in hand, or can still be polled with the companion's        *)
(* cursor: nothing else makes one disappear (publishLocked, pollOnce and   *)
(* PrhService.kt's loop).                                                  *)
THEOREM NoMessageVanishes == Spec => []NothingVanishes
<1>1. Init => AccountInv
  BY InitAccount
<1>2. AccountInv /\ [Next]_vars => AccountInv'
  <2> SUFFICES ASSUME AccountInv, [Next]_vars PROVE AccountInv'
    OBVIOUS
  <2>1. DeliveryInv'
    BY DeliveryStep DEF AccountInv
  <2>2. CASE UNCHANGED vars
    BY <2>1, <2>2 DEF vars, daemonVars, phoneVars, history, origins, crashVars, AccountInv,
                      HistoryTypeOK, NothingVanishes, CursorsAreBehind, InHand, OnRing
  <2>3. CASE Next
    <3>1. HistoryTypeOK' /\ NothingVanishes' /\ CursorsAreBehind'
      BY <2>3, PublishAccounts, DaemonAccounts, PollTooOldAccounts, PollAccounts,
         PhoneAccounts DEF Next
    <3> QED BY <2>1, <3>1 DEF AccountInv
  <2> QED BY <2>2, <2>3
<1>3. AccountInv => NothingVanishes
  BY DEF AccountInv
<1> QED BY <1>1, <1>2, <1>3, PTL DEF Spec

--------------------------------------------------------------------------------
(* Publishing is publishing, delivering hands over a newer message, a      *)
(* killed service starts again; everything else the phone does not see.    *)
LEMMA StepMapsToOutbox ==
  ASSUME DeliveryInv, [Next]_vars
  PROVE  [Abstract!Next]_<<published, last>>
<1> USE DEF Abstract!Next
<1>1. CASE Publish
  BY <1>1 DEF Publish, Abstract!Publish
<1>2. CASE Deliver
  <2>1. batch # <<>> /\ last' = Head(batch).msg /\ UNCHANGED published
    BY <1>2 DEF Deliver
  <2>2. batch \in Seq(Message) /\ Head(batch) = batch[1] /\ 1 \in 1..Len(batch)
    BY <2>1, HeadTailProperties, LenProperties, EmptySeq DEF DeliveryInv, BatchIsNewer
  <2>3. last < batch[1].msg /\ batch[1].msg <= published /\ batch[1].msg \in Nat
    BY <2>2, MessageNumbers DEF DeliveryInv, BatchIsNewer
  <2>4. batch[1].msg \in (last + 1)..published
    BY <2>3 DEF DeliveryInv, TypeOK
  <2> QED BY <2>1, <2>2, <2>4 DEF Abstract!HandOver
<1>3. CASE PhoneCrash
  BY <1>3 DEF PhoneCrash, Abstract!Restart
<1>4. CASE DaemonCrash \/ DaemonStart \/ PollTooOld \/ Poll \/ SaveCursor \/ DeliverThrows
           \/ UNCHANGED vars
  BY <1>4 DEF DaemonCrash, DaemonStart, PollTooOld, Poll, Fetch, SaveCursor, DeliverThrows,
              vars, history
<1> QED BY <1>1, <1>2, <1>3, <1>4 DEF Next

(* Through daemon restarts, refused cursors, killed services and failing   *)
(* deliveries, one life of the companion's service is handed messages in   *)
(* the order they were published and none of them twice (PrhService.kt's   *)
(* loop against pollOnce).                                                 *)
THEOREM StreamImplementsOutbox == Spec => ImplementsOutbox
<1>1. Init => Abstract!Init
  BY DEF Init, Abstract!Init
<1>2. Init => DeliveryInv
  BY InitDeliveryInv
<1>3. DeliveryInv /\ [Next]_vars => DeliveryInv'
  BY DeliveryStep
<1>4. DeliveryInv /\ [Next]_vars => [Abstract!Next]_<<published, last>>
  BY StepMapsToOutbox
<1> QED BY <1>1, <1>2, <1>3, <1>4, PTL DEF Spec, ImplementsOutbox, Abstract!Spec
--------------------------------------------------------------------------------
(* The waiting of a single Poll above, in critical sections: LongPoll,     *)
(* which shares no variable with Delivery.                                 *)

(* WakeInv is five facts of one request at a time.                         *)
Asleep(p) == pc[p] = "wait" /\ ~token[p] /\ Live(kind[p]) /\ on[p] = gen[kind[p]]
Request(p) ==
  /\ Asleep(p) => ~Newer(p)
  /\ pc[p] = "idle" => on[p] = 0
  /\ pc[p] = "lookup" => kind[p] = "decisions"
  /\ on[p] <= gen[kind[p]] /\ found[p] <= gen[kind[p]]

(* WakeInv says the same of the requests one by one.                       *)
LEMMA WakeInvIsRequests == WakeInv <=> WaitTypeOK /\ \A p \in Pollers : Request(p)
BY DEF WakeInv, NoLostWakeup, NoWakerLeaks, Request, Asleep

(* Before any request, there is nothing to lose.                           *)
LEMMA InitWakeInv == WaitInit => WakeInv
<1> SUFFICES ASSUME WaitInit PROVE WakeInv
  OBVIOUS
<1>1. WaitTypeOK
  BY LongPollAssumption DEF WaitInit, WaitTypeOK
<1> QED BY <1>1, LongPollAssumption
        DEF WaitInit, WakeInv, NoLostWakeup, NoWakerLeaks, Kinds

--------------------------------------------------------------------------------
(* A writer that adds news also fills the channel of every request         *)
(* registered on that source; one that only drops or creates a source      *)
(* leaves no request asleep on it with news.                               *)
LEMMA WriterStep ==
  ASSUME WaitTypeOK, \A q \in Pollers : Request(q),
         \/ \E k \in Kinds : Write(k) \/ DropSilently(k)
         \/ DeleteSession \/ Recreate \/ Nudge
  PROVE  WaitTypeOK' /\ \A q \in Pollers : Request(q)'
<1> USE LongPollAssumption DEF srcVars, pollVars, WaitTypeOK, Request, Asleep, Newer, Live
<1>1. ASSUME NEW k \in Kinds, Write(k)
      PROVE  WaitTypeOK' /\ \A q \in Pollers : Request(q)'
  <2>1. WaitTypeOK'
    BY <1>1 DEF Write, Wake
  <2>2. ASSUME NEW q \in Pollers PROVE Request(q)'
    <3>1. Asleep(q)' => ~Newer(q)'
      BY <1>1 DEF Write, Wake
    <3> QED BY <1>1, <3>1 DEF Write
  <2> QED BY <2>1, <2>2
<1>2. ASSUME NEW k \in Kinds, DropSilently(k)
      PROVE  WaitTypeOK' /\ \A q \in Pollers : Request(q)'
  <2>1. WaitTypeOK'
    BY <1>2 DEF DropSilently
  <2> QED BY <1>2, <2>1 DEF DropSilently
<1>3. CASE DeleteSession
  <2>1. WaitTypeOK'
    BY <1>3 DEF DeleteSession, Wake, Kinds
  <2> QED BY <1>3, <2>1 DEF DeleteSession, Wake
<1>4. CASE Recreate
  <2>1. WaitTypeOK'
    BY <1>4 DEF Recreate, Kinds
  <2> QED BY <1>4, <2>1 DEF Recreate, Kinds
<1>5. CASE Nudge
  <2>1. WaitTypeOK'
    BY <1>5 DEF Nudge, Wake
  <2> QED BY <1>5, <2>1 DEF Nudge, Wake
<1> QED BY <1>1, <1>2, <1>3, <1>4, <1>5

(* A step of request p leaves the others as they are.                      *)
LEMMA PollerStep ==
  ASSUME WaitTypeOK, \A q \in Pollers : Request(q), NEW p \in Pollers,
         \/ Begin(p) \/ Proceed(p)
         \/ ReadWithoutWaiting(p) \/ TimerFires(p) \/ CallerLeaves(p)
  PROVE  WaitTypeOK' /\ \A q \in Pollers : Request(q)'
<1> USE LongPollAssumption DEF srcVars, pollVars, WaitTypeOK, Request, Asleep, Newer, Live
<1>1. CASE Begin(p)
  <2>1. WaitTypeOK'
    BY <1>1 DEF Begin
  <2> QED BY <1>1, <2>1 DEF Begin
<1>2. CASE FirstRead(p)
  <2>1. WaitTypeOK'
    BY <1>2 DEF FirstRead, ReadOr, Return
  <2> QED BY <1>2, <2>1 DEF FirstRead, ReadOr, Return
<1>3. CASE LookupUpstream(p)
  <2>1. WaitTypeOK'
    BY <1>3 DEF LookupUpstream, Return, Kinds
  <2> QED BY <1>3, <2>1 DEF LookupUpstream, Return, Kinds
<1>4. CASE SubscribeUpstream(p)
  <2>1. WaitTypeOK'
    BY <1>4 DEF SubscribeUpstream
  <2> QED BY <1>4, <2>1 DEF SubscribeUpstream
<1>5. CASE SubscribeRing(p)
  <2>1. WaitTypeOK'
    BY <1>5 DEF SubscribeRing, Kinds
  <2> QED BY <1>5, <2>1 DEF SubscribeRing, Kinds
<1>6. CASE SubscribeSession(p)
  <2>1. WaitTypeOK'
    BY <1>6 DEF SubscribeSession, Return, Kinds
  <2> QED BY <1>6, <2>1 DEF SubscribeSession, Return, Kinds
<1>7. CASE Recheck(p)
  <2>1. WaitTypeOK'
    BY <1>7 DEF Recheck, ReadOr, Return
  <2> QED BY <1>7, <2>1 DEF Recheck, ReadOr, Return
<1>8. CASE Woken(p)
  <2>1. WaitTypeOK'
    BY <1>8 DEF Woken, ReadOr, Return
  <2> QED BY <1>8, <2>1 DEF Woken, ReadOr, Return
<1>9. CASE Unsubscribe(p)
  <2>1. WaitTypeOK'
    BY <1>9 DEF Unsubscribe
  <2> QED BY <1>9, <2>1 DEF Unsubscribe
<1>10. CASE ReadWithoutWaiting(p) \/ TimerFires(p) \/ CallerLeaves(p)
  <2>1. WaitTypeOK'
    BY <1>10
       DEF ReadWithoutWaiting, TimerFires, CallerLeaves, LastRead, Return
  <2> QED
    BY <1>10, <2>1
       DEF ReadWithoutWaiting, TimerFires, CallerLeaves, LastRead, Return
<1> QED BY <1>1, <1>2, <1>3, <1>4, <1>5, <1>6, <1>7, <1>8, <1>9, <1>10 DEF Proceed

(* Every step, of a writer or of a request, keeps WakeInv.                 *)
LEMMA WakeInvStep ==
  ASSUME WakeInv, [WaitNext]_waitVars
  PROVE  WakeInv'
<1>1. WaitTypeOK /\ \A q \in Pollers : Request(q)
  BY WakeInvIsRequests
<1>2. WaitTypeOK' /\ \A q \in Pollers : Request(q)'
  <2>1. CASE UNCHANGED waitVars
    BY <1>1, <2>1 DEF waitVars, srcVars, pollVars, WaitTypeOK, Request, Asleep, Newer,
                      Live
  <2>2. CASE WaitNext
    <3>1. \A k \in {kind[p] : p \in Pollers} : k \in Kinds
      BY <1>1 DEF WaitTypeOK
    <3> QED BY <1>1, <2>2, <3>1, WriterStep, PollerStep DEF WaitNext
  <2> QED BY <2>1, <2>2
<1> QED BY <1>2 DEF WakeInv, NoLostWakeup, NoWakerLeaks, Request, Asleep

(* A request that sleeps on a source that is still its own, with an empty  *)
(* channel, has nothing to read, and a finished request has left no waker  *)
(* behind.                                                                 *)
THEOREM WakeUpsAreNotLost ==
  WaitSpec => []WakeInv
<1>1. WakeInv /\ [WaitNext]_waitVars => WakeInv'
  BY WakeInvStep
<1> QED BY <1>1, InitWakeInv, PTL DEF WaitSpec

--------------------------------------------------------------------------------
(* The way of a conversation into the stream: Transcript, which shares no  *)
(* variable with the two above.                                            *)

(* The newest of what s says about x is as new as the newest of it, and 0  *)
(* if it says nothing.                                                     *)
LEMMA NewestProperties ==
  ASSUME NEW s, NEW x, \A i \in DOMAIN s : s[i].ver \in Version
  PROVE  /\ NewestIn(s, x) \in Version /\ NewestIn(s, x) \in Nat
         /\ \A i \in DOMAIN s : s[i].id = x => s[i].ver <= NewestIn(s, x)
         /\ NewestIn(s, x) = 0 \/ \E i \in DOMAIN s : s[i].id = x /\ s[i].ver = NewestIn(s, x)
<1> DEFINE V == {0} \cup {s[i].ver : i \in {j \in DOMAIN s : s[j].id = x}}
<1>1. MaxEdits + 2 \in Nat
  BY TranscriptAssumption
<1>2. V \subseteq 0..(MaxEdits + 2) /\ V # {}
  BY <1>1 DEF Version
<1>3. \E u \in V : \A v \in V : v <= u
  <2> HIDE DEF V
  <2> QED BY <1>1, <1>2, LastPosition
<1>4. Max(V) \in V /\ \A v \in V : v <= Max(V)
  <2> HIDE DEF V
  <2>1. \A u, v \in V : v <= u <=> u >= v
    BY <1>1, <1>2
  <2> QED BY <1>3, <2>1 DEF Max
<1>5. NewestIn(s, x) = Max(V)
  BY DEF NewestIn
<1>6. \A i \in DOMAIN s : s[i].id = x => s[i].ver \in V
  OBVIOUS
<1>7. Max(V) = 0 \/ \E i \in DOMAIN s : s[i].id = x /\ s[i].ver = Max(V)
  BY <1>4
<1>8. Max(V) \in Version /\ Max(V) \in Nat
  <2> HIDE DEF V
  <2>1. Max(V) \in 0..(MaxEdits + 2)
    BY <1>2, <1>4
  <2> QED BY <1>1, <2>1 DEF Version
<1> HIDE DEF V
<1> QED BY <1>4, <1>5, <1>6, <1>7, <1>8

(* Reports and entries are as new as a version.                            *)
LEMMA VersionsOf ==
  ASSUME NEW S, NEW s \in Seq(S), \A e \in S : e.ver \in Version
  PROVE  DOMAIN s = 1..Len(s) /\ Len(s) \in Nat /\ \A i \in DOMAIN s : s[i].ver \in Version
BY LenProperties, ElementOfSeq

(* What a sequence says nothing about, it has heard nothing of.            *)
LEMMA NewestOfNone ==
  ASSUME NEW s, NEW x, \A i \in DOMAIN s : s[i].ver \in Version,
         \A i \in DOMAIN s : s[i].id # x
  PROVE  NewestIn(s, x) = 0
BY NewestProperties

(* An only entry says how new its id is.                                   *)
LEMMA NewestOfOne ==
  ASSUME NEW s, NEW a \in DOMAIN s, \A i \in DOMAIN s : s[i].ver \in Version,
         \A i \in DOMAIN s : s[i].id = s[a].id => i = a
  PROVE  NewestIn(s, s[a].id) = s[a].ver
<1> DEFINE x == s[a].id
<1>1. /\ NewestIn(s, x) \in Nat /\ s[a].ver <= NewestIn(s, x)
      /\ NewestIn(s, x) = 0 \/ \E i \in DOMAIN s : s[i].id = x /\ s[i].ver = NewestIn(s, x)
  BY NewestProperties
<1>2. s[a].ver \in Nat
  BY TranscriptAssumption DEF Version
<1>3. CASE NewestIn(s, x) = 0
  BY <1>1, <1>2, <1>3
<1>4. CASE \E i \in DOMAIN s : s[i].id = x /\ s[i].ver = NewestIn(s, x)
  BY <1>4
<1> QED BY <1>1, <1>3, <1>4

(* Sequences with the same reports about x have heard the same.            *)
LEMMA NewestSame ==
  ASSUME NEW s, NEW t, NEW x,
         \A i \in DOMAIN s : s[i].ver \in Version, \A i \in DOMAIN t : t[i].ver \in Version,
         \A i \in DOMAIN s : s[i].id = x => \E j \in DOMAIN t : t[j].id = x /\ t[j].ver = s[i].ver,
         \A i \in DOMAIN t : t[i].id = x => \E j \in DOMAIN s : s[j].id = x /\ s[j].ver = t[i].ver
  PROVE  NewestIn(s, x) = NewestIn(t, x)
<1> DEFINE a == NewestIn(s, x)  b == NewestIn(t, x)
<1>1. /\ a \in Nat /\ \A i \in DOMAIN s : s[i].id = x => s[i].ver <= a
      /\ a = 0 \/ \E i \in DOMAIN s : s[i].id = x /\ s[i].ver = a
  BY NewestProperties
<1>2. /\ b \in Nat /\ \A i \in DOMAIN t : t[i].id = x => t[i].ver <= b
      /\ b = 0 \/ \E i \in DOMAIN t : t[i].id = x /\ t[i].ver = b
  BY NewestProperties
<1> HIDE DEF a, b
<1>3. a <= b
  BY <1>1, <1>2
<1>4. b <= a
  BY <1>1, <1>2
<1>5. a = b
  BY <1>1, <1>2, <1>3, <1>4
<1> QED BY <1>5 DEF a, b

--------------------------------------------------------------------------------
(* Of what s says about x, what is of age n comes last and once.           *)
InOrder(s, x, n) ==
  \A i \in DOMAIN s :
    s[i].id = x => (s[i].ver = n <=> \A j \in DOMAIN s : j > i => s[j].id # x)

(* What t says about x is some of what s says about it, in that order.     *)
Kept(t, s, x) ==
  \E h \in [DOMAIN t -> Int] :
    /\ \A k \in DOMAIN t : t[k].id = x => h[k] \in DOMAIN s /\ t[k] = s[h[k]]
    /\ \A k, l \in DOMAIN t : k < l /\ t[k].id = x /\ t[l].id = x => h[k] < h[l]

(* What a sequence says about x, it says for a last time.                  *)
LEMMA LastAbout ==
  ASSUME NEW S, NEW s \in Seq(S), NEW x, NEW i \in DOMAIN s, s[i].id = x
  PROVE  \E m \in DOMAIN s : s[m].id = x /\ \A j \in DOMAIN s : j > m => s[j].id # x
<1> DEFINE T == {j \in DOMAIN s : s[j].id = x}
<1>1. DOMAIN s = 1..Len(s) /\ Len(s) \in Nat
  BY LenProperties
<1>2. T \subseteq 0..Len(s) /\ T # {} /\ T \subseteq DOMAIN s
  BY <1>1
<1>3. PICK m \in T : \A y \in T : y <= m
  <2> HIDE DEF T
  <2> QED BY <1>1, <1>2, LastPosition
<1>4. m \in DOMAIN s /\ s[m].id = x
  BY <1>3
<1>5. \A j \in DOMAIN s : j > m => s[j].id # x
  BY <1>1, <1>3, <1>4
<1> QED BY <1>4, <1>5

(* In what is in order about x, the newest is of age n.                    *)
LEMMA NewestInOrder ==
  ASSUME NEW S, NEW s \in Seq(S), NEW x, NEW n, InOrder(s, x, n),
         NEW i \in DOMAIN s, s[i].id = x
  PROVE  \E m \in DOMAIN s : s[m].id = x /\ s[m].ver = n /\ \A j \in DOMAIN s : j > m => s[j].id # x
<1>1. PICK m \in DOMAIN s : s[m].id = x /\ \A j \in DOMAIN s : j > m => s[j].id # x
  BY LastAbout
<1> QED BY <1>1 DEF InOrder

(* What is kept in order stays in order, if the newest is kept.            *)
LEMMA KeptInOrder ==
  ASSUME NEW S, NEW s \in Seq(S), NEW t \in Seq(S), NEW x, NEW n \in Nat,
         InOrder(s, x, n), Kept(t, s, x), \A e \in S : e.ver \in Version,
         \A i \in DOMAIN s : s[i].id = x => s[i].ver \in 1..n /\ s[i].ver <= NewestIn(t, x)
  PROVE  InOrder(t, x, n)
<1>1. /\ DOMAIN s = 1..Len(s) /\ Len(s) \in Nat /\ DOMAIN t = 1..Len(t) /\ Len(t) \in Nat
      /\ \A i \in DOMAIN t : t[i].ver \in Version
  BY VersionsOf
<1>2. PICK h \in [DOMAIN t -> Int] :
        /\ \A k \in DOMAIN t : t[k].id = x => h[k] \in DOMAIN s /\ t[k] = s[h[k]]
        /\ \A k, l \in DOMAIN t : k < l /\ t[k].id = x /\ t[l].id = x => h[k] < h[l]
  BY DEF Kept
<1> SUFFICES ASSUME NEW i \in DOMAIN t, t[i].id = x
             PROVE  t[i].ver = n <=> \A j \in DOMAIN t : j > i => t[j].id # x
  BY DEF InOrder
<1>3. h[i] \in DOMAIN s /\ s[h[i]].id = x /\ t[i] = s[h[i]]
  BY <1>2
<1>4. PICK m \in DOMAIN s : /\ s[m].id = x /\ s[m].ver = n
                            /\ \A j \in DOMAIN s : j > m => s[j].id # x
  BY <1>3, NewestInOrder
<1>5. n \in 1..n /\ n <= NewestIn(t, x)
  BY <1>4
<1>6. /\ NewestIn(t, x) \in Nat
      /\ NewestIn(t, x) = 0 \/ \E j \in DOMAIN t : t[j].id = x /\ t[j].ver = NewestIn(t, x)
  BY <1>1, NewestProperties
<1>7. PICK c \in DOMAIN t : t[c].id = x /\ t[c].ver = n
  <2>1. PICK c \in DOMAIN t : t[c].id = x /\ t[c].ver = NewestIn(t, x)
    BY <1>5, <1>6
  <2>2. h[c] \in DOMAIN s /\ t[c] = s[h[c]]
    BY <1>2, <2>1
  <2>3. t[c].ver \in 1..n
    BY <2>1, <2>2
  <2>4. t[c].ver = n
    BY <1>5, <1>6, <2>1, <2>3
  <2> QED BY <2>1, <2>4
<1>8. h[c] \in DOMAIN s /\ t[c] = s[h[c]] /\ \A j \in DOMAIN s : j > h[c] => s[j].id # x
  BY <1>2, <1>7 DEF InOrder
<1>9. \A k \in DOMAIN t : t[k].id = x => k <= c
  <2> SUFFICES ASSUME NEW k \in DOMAIN t, t[k].id = x, c < k PROVE FALSE
    BY <1>1
  <2>1. h[c] < h[k] /\ h[k] \in DOMAIN s /\ s[h[k]].id = x
    BY <1>2, <1>7
  <2> QED BY <1>1, <1>8, <2>1
<1>10. CASE i = c
  BY <1>1, <1>7, <1>9, <1>10
<1>11. CASE i # c
  <2>1. i < c
    BY <1>1, <1>9, <1>11
  <2>2. h[i] < h[c] /\ h[c] \in DOMAIN s /\ s[h[c]].id = x
    BY <1>2, <1>7, <2>1
  <2>3. s[h[i]].ver # n
    BY <1>1, <1>3, <2>2 DEF InOrder
  <2> QED BY <1>1, <1>3, <1>7, <2>1, <2>3
<1> QED BY <1>10, <1>11

(* What comes last is in order by itself.                                  *)
LEMMA RestInOrder ==
  ASSUME NEW S, NEW s \in Seq(S), NEW t \in Seq(S), NEW x, NEW n, InOrder(s \o t, x, n)
  PROVE  InOrder(t, x, n)
<1>1. /\ Len(s) \in Nat /\ DOMAIN t = 1..Len(t) /\ Len(t) \in Nat
      /\ s \o t \in Seq(S) /\ Len(s \o t) = Len(s) + Len(t)
      /\ \A i \in 1..(Len(s) + Len(t)) : (s \o t)[i] = IF i <= Len(s) THEN s[i] ELSE t[i - Len(s)]
  BY LenProperties, ConcatProperties
<1>2. DOMAIN (s \o t) = 1..(Len(s) + Len(t))
  BY <1>1, LenProperties
<1>3. \A i \in DOMAIN t : Len(s) + i \in DOMAIN (s \o t) /\ (s \o t)[Len(s) + i] = t[i]
  <2> SUFFICES ASSUME NEW i \in DOMAIN t
               PROVE  Len(s) + i \in DOMAIN (s \o t) /\ (s \o t)[Len(s) + i] = t[i]
    OBVIOUS
  <2>1. /\ Len(s) + i \in 1..(Len(s) + Len(t)) /\ ~(Len(s) + i <= Len(s))
        /\ (Len(s) + i) - Len(s) = i
    BY <1>1
  <2> QED BY <1>1, <1>2, <2>1
<1> SUFFICES ASSUME NEW i \in DOMAIN t, t[i].id = x
             PROVE  t[i].ver = n <=> \A j \in DOMAIN t : j > i => t[j].id # x
  BY DEF InOrder
<1> DEFINE u == s \o t
<1>4. u[Len(s) + i].ver = n <=> \A j \in DOMAIN u : j > Len(s) + i => u[j].id # x
  BY <1>3 DEF InOrder
<1>5. (\A j \in DOMAIN u : j > Len(s) + i => u[j].id # x) => \A j \in DOMAIN t : j > i => t[j].id # x
  <2> SUFFICES ASSUME \A j \in DOMAIN u : j > Len(s) + i => u[j].id # x,
                      NEW j \in DOMAIN t, j > i
               PROVE  t[j].id # x
    OBVIOUS
  <2>1. Len(s) + j \in DOMAIN u /\ u[Len(s) + j] = t[j] /\ Len(s) + j > Len(s) + i
    BY <1>1, <1>3
  <2> QED BY <2>1
<1>6. (\A j \in DOMAIN t : j > i => t[j].id # x) => \A j \in DOMAIN u : j > Len(s) + i => u[j].id # x
  <2> SUFFICES ASSUME \A j \in DOMAIN t : j > i => t[j].id # x,
                      NEW j \in DOMAIN u, j > Len(s) + i
               PROVE  u[j].id # x
    OBVIOUS
  <2>1. j - Len(s) \in DOMAIN t /\ j - Len(s) > i /\ ~(j <= Len(s)) /\ j \in 1..(Len(s) + Len(t))
    BY <1>1, <1>2
  <2>2. u[j] = t[j - Len(s)]
    BY <1>1, <2>1
  <2> QED BY <2>1, <2>2
<1>7. u[Len(s) + i] = t[i]
  BY <1>3
<1> HIDE DEF u
<1> QED BY <1>4, <1>5, <1>6, <1>7

--------------------------------------------------------------------------------
(* The plugin's queue.                                                     *)

(* What a report and the constants are made of.                            *)
LEMMA ReportType ==
  /\ \A e \in Report : e.ver \in Version /\ e.id \in Ids
  /\ Version \subseteq Nat /\ 0 \in Version /\ MaxEdits \in Nat /\ QueueMax \in Nat \ {0}
BY TranscriptAssumption DEF Report, Version

(* A full queue gives up one report.                                       *)
LEMMA MadeRoomProperties ==
  ASSUME NEW q \in Seq(Report), Len(q) <= QueueMax
  PROVE  LET t == MadeRoom(q)
         IN  /\ t \in Seq(Report) /\ Len(t) < QueueMax
             /\ \E a \in 1..(Len(q) + 1) :
                  /\ Len(t) = IF a <= Len(q) THEN Len(q) - 1 ELSE Len(q)
                  /\ \A k \in 1..Len(t) : t[k] = IF k < a THEN q[k] ELSE q[k + 1]
<1>1. DOMAIN q = 1..Len(q) /\ Len(q) \in Nat /\ QueueMax \in Nat \ {0}
  BY LenProperties, ReportType
<1>2. CASE Len(q) < QueueMax
  <2>1. MadeRoom(q) = q
    BY <1>2 DEF MadeRoom
  <2>2. /\ Len(q) + 1 \in 1..(Len(q) + 1) /\ ~(Len(q) + 1 <= Len(q))
        /\ \A k \in 1..Len(q) : k < Len(q) + 1
    BY <1>1
  <2>3. /\ Len(q) = IF Len(q) + 1 <= Len(q) THEN Len(q) - 1 ELSE Len(q)
        /\ \A k \in 1..Len(q) : q[k] = IF k < Len(q) + 1 THEN q[k] ELSE q[k + 1]
    BY <2>2
  <2> QED BY <1>2, <2>1, <2>2, <2>3
<1>3. CASE ~(Len(q) < QueueMax) /\ \E i \in DOMAIN q : isChatter(q[i])
  <2> DEFINE T == {i \in 1..Len(q) : isChatter(q[i])}
             a == Min(T)
             p == SubSeq(q, 1, a - 1)
             r == SubSeq(q, a + 1, Len(q))
             t == p \o r
  <2>1. T \subseteq Nat /\ T # {}
    BY <1>1, <1>3
  <2>2. a \in T
    <3> HIDE DEF T
    <3>1. PICK i \in T : \A y \in T : i <= y
      BY <2>1, FirstPosition
    <3> QED BY <3>1 DEF Min
  <2>3. SelectInSeq(q, isChatter) = a
    BY <2>1 DEF SelectInSeq
  <2>4. MadeRoom(q) = t
    BY <1>3, <2>3 DEF MadeRoom, RemoveAt
  <2>5. a \in 1..Len(q)
    BY <2>2
  <2> HIDE DEF a, T
  <2>6. p \in Seq(Report) /\ Len(p) = a - 1 /\ \A i \in 1..(a - 1) : p[i] = q[i]
    <3>1. \A i \in 1..(a - 1) : q[i] \in Report
      BY <1>1, <2>5, ElementOfSeq
    <3>2. /\ SubSeq(q, 1, a - 1) \in Seq(Report)
          /\ Len(SubSeq(q, 1, a - 1)) = IF 1 <= a - 1 THEN (a - 1) - 1 + 1 ELSE 0
          /\ \A i \in 1..((a - 1) - 1 + 1) : SubSeq(q, 1, a - 1)[i] = q[1 + i - 1]
      BY <1>1, <2>5, <3>1, SubSeqProperties, a - 1 \in Int, 1 \in Int
    <3> QED BY <1>1, <2>5, <3>2
  <2>7. r \in Seq(Report) /\ Len(r) = Len(q) - a /\ \A i \in 1..(Len(q) - a) : r[i] = q[a + i]
    <3>1. \A i \in (a + 1)..Len(q) : q[i] \in Report
      BY <1>1, <2>5, ElementOfSeq
    <3>2. a + 1 \in Int /\ Len(q) \in Int
      BY <1>1, <2>5
    <3>3. /\ r \in Seq(Report)
          /\ Len(r) = IF a + 1 <= Len(q) THEN Len(q) - (a + 1) + 1 ELSE 0
          /\ \A i \in 1..(Len(q) - (a + 1) + 1) : r[i] = q[a + 1 + i - 1]
      BY <3>1, <3>2, SubSeqProperties
    <3> HIDE DEF r
    <3>4. Len(r) = Len(q) - a
      <4>1. CASE a + 1 <= Len(q)
        BY <1>1, <2>5, <3>3, <4>1
      <4>2. CASE a = Len(q)
        BY <1>1, <3>3, <4>2
      <4>3. Len(q) \in Nat /\ a \in Nat /\ a <= Len(q)
        BY <1>1, <2>5
      <4>4. a + 1 <= Len(q) \/ a = Len(q)
        BY <4>3
      <4> QED BY <4>1, <4>2, <4>4
    <3>5. ASSUME NEW i \in 1..(Len(q) - a) PROVE r[i] = q[a + i]
      <4>1. i \in 1..(Len(q) - (a + 1) + 1) /\ a + 1 + i - 1 = a + i
        BY <1>1, <2>5
      <4> QED BY <3>3, <4>1
    <3> QED BY <3>3, <3>4, <3>5
  <2> HIDE DEF p, r
  <2>8. /\ t \in Seq(Report) /\ Len(t) = (a - 1) + (Len(q) - a)
        /\ \A k \in 1..((a - 1) + (Len(q) - a)) : t[k] = IF k <= a - 1 THEN p[k] ELSE r[k - (a - 1)]
    <3>1. /\ t \in Seq(Report) /\ Len(t) = Len(p) + Len(r)
          /\ \A k \in 1..(Len(p) + Len(r)) : t[k] = IF k <= Len(p) THEN p[k] ELSE r[k - Len(p)]
      BY <2>6, <2>7, ConcatProperties
    <3> HIDE DEF t
    <3> QED BY <2>6, <2>7, <3>1
  <2> HIDE DEF t
  <2>9. Len(t) = Len(q) - 1 /\ Len(t) < QueueMax
    BY <1>1, <2>5, <2>8
  <2>10. ASSUME NEW k \in 1..Len(t) PROVE t[k] = IF k < a THEN q[k] ELSE q[k + 1]
    <3>1. CASE k < a
      <4>1. k \in 1..(a - 1) /\ k <= a - 1 /\ k \in 1..((a - 1) + (Len(q) - a))
        BY <1>1, <2>5, <2>9, <3>1
      <4> QED BY <2>6, <2>8, <3>1, <4>1
    <3>2. CASE ~(k < a)
      <4>1. /\ k - (a - 1) \in 1..(Len(q) - a) /\ ~(k <= a - 1) /\ a + (k - (a - 1)) = k + 1
            /\ k \in 1..((a - 1) + (Len(q) - a))
        BY <1>1, <2>5, <2>9, <3>2
      <4> QED BY <2>7, <2>8, <3>2, <4>1
    <3> QED BY <3>1, <3>2
  <2>11. a \in 1..(Len(q) + 1) /\ a <= Len(q)
    BY <1>1, <2>5
  <2>12. MadeRoom(q) = t
    BY <2>4 DEF t, p, r
  <2> QED BY <2>8, <2>9, <2>10, <2>11, <2>12
<1>4. CASE ~(Len(q) < QueueMax) /\ ~\E i \in DOMAIN q : isChatter(q[i])
  <2>1. MadeRoom(q) = Tail(q)
    BY <1>4 DEF MadeRoom
  <2>2. q # <<>> /\ Len(q) >= 1
    BY <1>1, <1>4
  <2>3. /\ Tail(q) \in Seq(Report) /\ Len(Tail(q)) = Len(q) - 1
        /\ \A i \in 1..Len(Tail(q)) : Tail(q)[i] = q[i + 1]
    BY <2>2, HeadTailProperties
  <2>4. /\ 1 \in 1..(Len(q) + 1) /\ 1 <= Len(q) /\ Len(q) - 1 < QueueMax
        /\ \A k \in 1..(Len(q) - 1) : ~(k < 1)
    BY <1>1, <2>2
  <2> QED BY <2>1, <2>3, <2>4
<1> QED BY <1>2, <1>3, <1>4

(* report puts e in the queue; what else is queued was queued before, and  *)
(* in that order, and only a part that is queued twice can follow e.       *)
LEMMA EnqueuedProperties ==
  ASSUME NEW q \in Seq(Report), Len(q) <= QueueMax, NEW e \in Report
  PROVE  LET t == Enqueued(q, e)
         IN  /\ t \in Seq(Report) /\ Len(t) <= QueueMax
             /\ \E a \in 1..Len(t), g \in [1..Len(t) -> Int] :
                  /\ t[a] = e
                  /\ \A k \in 1..Len(t) : k # a => g[k] \in 1..Len(q) /\ t[k] = q[g[k]]
                  /\ \A k, l \in 1..Len(t) : k < l => g[k] < g[l]
                  /\ \A k \in 1..Len(t) : k > a /\ t[k].id = e.id => e.id \in Overtaken(q, e)
<1>1. DOMAIN q = 1..Len(q) /\ Len(q) \in Nat
  BY LenProperties
<1>2. CASE Supersedes(q, e)
  <2> DEFINE a == FirstEntry(q, e.id)
             t == [q EXCEPT ![a] = e]
             g == [k \in 1..Len(q) |-> k]
  <2>1. a \in 1..Len(q) /\ q[a].id = e.id
    BY <1>2, FirstEntryProperties DEF Supersedes
  <2>2. Enqueued(q, e) = t
    BY <1>2 DEF Enqueued
  <2> HIDE DEF a
  <2>3. /\ t \in Seq(Report) /\ Len(t) = Len(q)
        /\ \A i \in 1..Len(q) : t[i] = IF i = a THEN e ELSE q[i]
    BY <2>1, ExceptSeq
  <2> HIDE DEF t
  <2>4. g \in [1..Len(t) -> Int] /\ \A k \in 1..Len(t) : g[k] = k
    BY <2>3
  <2>5. ASSUME NEW k \in 1..Len(t), k > a, t[k].id = e.id PROVE e.id \in Overtaken(q, e)
    <3> DEFINE D == {i \in DOMAIN q : q[i].id = e.id}
    <3>1. a \in D /\ k \in D /\ k # a
      BY <1>1, <2>1, <2>3, <2>5
    <3>2. D \in SUBSET (1..Len(q))
      BY <1>1
    <3>3. IsFiniteSet(1..Len(q))
      BY <1>1, FS_Interval
    <3> HIDE DEF D
    <3>4. IsFiniteSet(D)
      BY <3>2, <3>3, FS_Subset
    <3>5. {a, k} \in SUBSET D
      BY <3>1
    <3>6. Cardinality({a, k}) = 2
      BY <3>1, PairCardinality
    <3>7. 2 <= Cardinality(D) /\ Cardinality(D) \in Nat
      BY <3>4, <3>5, <3>6, FS_Subset, FS_CardinalityType
    <3>8. Cardinality({i \in DOMAIN q : q[i].id = e.id}) > 1
      BY <3>7 DEF D
    <3>9. e.id \in Parts
      BY <1>2 DEF Supersedes, isChatter
    <3> QED BY <3>8, <3>9 DEF Overtaken
  <2>6. Len(t) <= QueueMax /\ a \in 1..Len(t) /\ t[a] = e
    BY <2>1, <2>3
  <2>7. \A k \in 1..Len(t) : k # a => g[k] \in 1..Len(q) /\ t[k] = q[g[k]]
    BY <2>3, <2>4
  <2>8. \A k, l \in 1..Len(t) : k < l => g[k] < g[l]
    BY <2>4
  <2> HIDE DEF g
  <2> QED BY <2>2, <2>3, <2>4, <2>5, <2>6, <2>7, <2>8
<1>3. CASE ~Supersedes(q, e)
  <2> DEFINE m == MadeRoom(q)
             t == Append(m, e)
  <2>1. Enqueued(q, e) = t
    BY <1>3 DEF Enqueued
  <2>2. PICK d \in 1..(Len(q) + 1) :
          /\ Len(m) = IF d <= Len(q) THEN Len(q) - 1 ELSE Len(q)
          /\ \A k \in 1..Len(m) : m[k] = IF k < d THEN q[k] ELSE q[k + 1]
    BY MadeRoomProperties
  <2>3. m \in Seq(Report) /\ Len(m) < QueueMax /\ Len(m) \in Nat
    BY MadeRoomProperties, LenProperties
  <2> HIDE DEF m
  <2>4. /\ t \in Seq(Report) /\ Len(t) = Len(m) + 1
        /\ \A i \in 1..Len(m) : t[i] = m[i]
        /\ t[Len(m) + 1] = e
    BY <2>3, AppendProperties
  <2> HIDE DEF t
  <2> DEFINE g == [k \in 1..Len(t) |-> IF k < d THEN k ELSE k + 1]
             a == Len(m) + 1
  <2>5. Len(t) <= QueueMax /\ a \in 1..Len(t) /\ t[a] = e
    BY <2>3, <2>4, ReportType
  <2>6. g \in [1..Len(t) -> Int]
    BY <2>3, <2>4
  <2>7. ASSUME NEW k \in 1..Len(t), k # a PROVE g[k] \in 1..Len(q) /\ t[k] = q[g[k]]
    <3>1. k \in 1..Len(m)
      BY <2>3, <2>4, <2>7
    <3>2. t[k] = IF k < d THEN q[k] ELSE q[k + 1]
      BY <2>2, <2>4, <3>1
    <3>3. (IF k < d THEN k ELSE k + 1) \in 1..Len(q)
      <4>1. CASE d <= Len(q)
        BY <1>1, <2>2, <3>1, <4>1
      <4>2. CASE ~(d <= Len(q))
        <5>1. Len(m) = Len(q) /\ d = Len(q) + 1
          BY <1>1, <2>2, <4>2
        <5> QED BY <1>1, <3>1, <5>1
      <4> QED BY <4>1, <4>2
    <3> QED BY <3>2, <3>3
  <2>8. \A k, l \in 1..Len(t) : k < l => g[k] < g[l]
    BY <2>2, <2>3, <2>4
  <2>9. \A k \in 1..Len(t) : ~(k > a)
    BY <2>3, <2>4
  <2> HIDE DEF g, a
  <2> QED BY <2>1, <2>4, <2>5, <2>6, <2>7, <2>8, <2>9
<1> QED BY <1>2, <1>3

(* What a failed flush sorts is the batch, every id's reports in order.    *)
LEMMA PromptsFirstProperties ==
  ASSUME NEW b \in Seq(Report)
  PROVE  /\ PromptsFirst(b) \in Seq(Report)
         /\ \E f \in [1..Len(PromptsFirst(b)) -> 1..Len(b)] :
              /\ \A k \in 1..Len(PromptsFirst(b)) : PromptsFirst(b)[k] = b[f[k]]
              /\ \A k, l \in 1..Len(PromptsFirst(b)) :
                   k < l /\ PromptsFirst(b)[k].id = PromptsFirst(b)[l].id => f[k] < f[l]
<1> DEFINE chatter == {i \in DOMAIN b : isChatter(b[i])}
           rest == DOMAIN b \ chatter
           u == Pick(b, rest)
           v == Pick(b, chatter)
           o == u \o v
           m == Cardinality(rest)
           n == Cardinality(chatter)
<1>1. DOMAIN b = 1..Len(b) /\ Len(b) \in Nat
  BY LenProperties
<1>2. chatter \subseteq 1..Len(b) /\ rest \subseteq 1..Len(b) /\ PromptsFirst(b) = o
  BY <1>1 DEF PromptsFirst
<1>3. /\ \A i \in chatter : b[i].id \in Parts
      /\ \A i \in rest : b[i].id \notin Parts
  BY DEF isChatter
<1> HIDE DEF chatter, rest
<1>4. /\ u \in Seq(Report) /\ m \in Nat /\ Len(u) = m
      /\ \A k \in 1..m : NthOf(rest, k) \in rest /\ u[k] = b[NthOf(rest, k)]
      /\ \A k, l \in 1..m : k < l => NthOf(rest, k) < NthOf(rest, l)
  <2>1. rest \subseteq 1..Len(b)
    BY <1>2
  <2>2. u \in Seq(Report) /\ Cardinality(rest) \in Nat /\ PickedBy(u, b, rest)
    BY <2>1, PickProperties
  <2> HIDE DEF u
  <2> QED BY <2>2 DEF PickedBy
<1>5. /\ v \in Seq(Report) /\ n \in Nat /\ Len(v) = n
      /\ \A k \in 1..n : NthOf(chatter, k) \in chatter /\ v[k] = b[NthOf(chatter, k)]
      /\ \A k, l \in 1..n : k < l => NthOf(chatter, k) < NthOf(chatter, l)
  <2>1. chatter \subseteq 1..Len(b)
    BY <1>2
  <2>2. v \in Seq(Report) /\ Cardinality(chatter) \in Nat /\ PickedBy(v, b, chatter)
    BY <2>1, PickProperties
  <2> HIDE DEF v
  <2> QED BY <2>2 DEF PickedBy
<1> HIDE DEF u, v, m, n
<1> DEFINE f == [k \in 1..m |-> NthOf(rest, k)]
           g == [k \in 1..n |-> NthOf(chatter, k)]
<1>6. /\ \A k \in 1..m : f[k] \in rest /\ u[k] = b[f[k]]
      /\ \A k, l \in 1..m : k < l => f[k] < f[l]
  BY <1>4
<1>7. /\ \A k \in 1..n : g[k] \in chatter /\ v[k] = b[g[k]]
      /\ \A k, l \in 1..n : k < l => g[k] < g[l]
  BY <1>5
<1> HIDE DEF f, g
<1>8. /\ o \in Seq(Report) /\ Len(o) = m + n
      /\ \A k \in 1..(m + n) : o[k] = IF k <= m THEN u[k] ELSE v[k - m]
  <2>1. /\ o \in Seq(Report) /\ Len(o) = Len(u) + Len(v)
        /\ \A k \in 1..(Len(u) + Len(v)) : o[k] = IF k <= Len(u) THEN u[k] ELSE v[k - Len(u)]
    <3>1. u \in Seq(Report) /\ v \in Seq(Report)
      BY <1>4, <1>5
    <3> QED BY <3>1, ConcatProperties
  <2> HIDE DEF o
  <2> QED BY <1>4, <1>5, <2>1
<1> HIDE DEF o
<1> DEFINE h == [k \in 1..(m + n) |-> IF k <= m THEN f[k] ELSE g[k - m]]
<1>9. ASSUME NEW k \in 1..(m + n)
      PROVE  /\ h[k] \in 1..Len(b) /\ o[k] = b[h[k]]
             /\ k <= m => k \in 1..m /\ h[k] = f[k] /\ o[k].id \notin Parts
             /\ ~(k <= m) => k - m \in 1..n /\ h[k] = g[k - m] /\ o[k].id \in Parts
  <2>1. CASE k <= m
    <3>1. k \in 1..m
      BY <1>4, <2>1
    <3>2. h[k] = f[k] /\ f[k] \in rest /\ o[k] = u[k]
      BY <1>6, <1>8, <2>1, <3>1
    <3> HIDE DEF h
    <3> QED BY <1>2, <1>3, <1>6, <2>1, <3>1, <3>2
  <2>2. CASE ~(k <= m)
    <3>1. k - m \in 1..n
      BY <1>4, <1>5, <2>2
    <3>2. h[k] = g[k - m] /\ g[k - m] \in chatter /\ o[k] = v[k - m]
      BY <1>7, <1>8, <2>2, <3>1
    <3> HIDE DEF h
    <3> QED BY <1>2, <1>3, <1>7, <2>2, <3>1, <3>2
  <2> QED BY <2>1, <2>2
<1>10. h \in [1..(m + n) -> 1..Len(b)]
  <2>1. \A k \in 1..(m + n) : h[k] \in 1..Len(b)
    BY <1>9
  <2> QED BY <2>1
<1> HIDE DEF h
<1>11. ASSUME NEW k \in 1..(m + n), NEW l \in 1..(m + n), k < l, o[k].id = o[l].id
       PROVE  h[k] < h[l]
  <2>1. CASE l <= m
    <3>1. k <= m
      BY <1>4, <1>11, <2>1
    <3>2. h[k] = f[k] /\ h[l] = f[l] /\ k \in 1..m /\ l \in 1..m
      BY <1>9, <2>1, <3>1
    <3> QED BY <1>6, <1>11, <3>2
  <2>2. CASE ~(l <= m) /\ k <= m
    BY <1>9, <1>11, <2>2
  <2>3. CASE ~(l <= m) /\ ~(k <= m)
    <3>1. h[k] = g[k - m] /\ h[l] = g[l - m] /\ k - m \in 1..n /\ l - m \in 1..n
      BY <1>9, <2>3
    <3>2. k - m < l - m
      BY <1>4, <1>11
    <3> QED BY <1>7, <3>1, <3>2
  <2> QED BY <2>1, <2>2, <2>3
<1> QED BY <1>2, <1>8, <1>9, <1>10, <1>11

(* A failed flush puts back some of the batch, in front of what is queued, *)
(* without overfilling the queue or mixing up what is about one id.        *)
LEMMA RequeuedProperties ==
  ASSUME NEW b \in Seq(Report), NEW q \in Seq(Report), Len(q) <= QueueMax
  PROVE  /\ Requeued(b, q) \in Seq(Report) /\ Len(Requeued(b, q)) <= QueueMax
         /\ \A x \in Ids : Kept(Requeued(b, q), b \o q, x)
<1> DEFINE o == PromptsFirst(b)
           room == IF Len(q) >= RequeueMax THEN 0 ELSE RequeueMax - Len(q)
           r == IF room < Len(o) THEN room ELSE Len(o)
           p == SubSeq(o, 1, r)
           t == p \o q
           s == b \o q
<1>1. /\ Len(b) \in Nat /\ Len(q) \in Nat /\ RequeueMax \in Nat /\ RequeueMax <= QueueMax
      /\ QueueMax \in Nat
  BY LenProperties, TranscriptAssumption
<1>2. o \in Seq(Report) /\ Len(o) \in Nat
  BY PromptsFirstProperties, LenProperties
<1>3. PICK f \in [1..Len(o) -> 1..Len(b)] :
        /\ \A k \in 1..Len(o) : o[k] = b[f[k]]
        /\ \A k, l \in 1..Len(o) : k < l /\ o[k].id = o[l].id => f[k] < f[l]
  BY PromptsFirstProperties
<1>4. Requeued(b, q) = t
  BY DEF Requeued
<1> HIDE DEF o
<1>5. room \in Nat /\ room + Len(q) <= QueueMax
  <2>1. CASE Len(q) >= RequeueMax
    BY <1>1, <2>1
  <2>2. CASE ~(Len(q) >= RequeueMax)
    BY <1>1, <2>2
  <2> QED BY <2>1, <2>2
<1> HIDE DEF room
<1>6. r \in Nat /\ r <= Len(o) /\ r + Len(q) <= QueueMax
  BY <1>1, <1>2, <1>5
<1> HIDE DEF r
<1>7. p \in Seq(Report) /\ Len(p) = r /\ \A k \in 1..r : p[k] = o[k]
  <2>1. \A k \in 1..r : o[k] \in Report
    BY <1>2, <1>6, ElementOfSeq
  <2>2. /\ p \in Seq(Report) /\ Len(p) = IF 1 <= r THEN r - 1 + 1 ELSE 0
        /\ \A k \in 1..(r - 1 + 1) : p[k] = o[1 + k - 1]
    BY <1>6, <2>1, SubSeqProperties, 1 \in Int, r \in Int
  <2> HIDE DEF p
  <2>3. Len(p) = r
    BY <1>6, <2>2
  <2>4. ASSUME NEW k \in 1..r PROVE p[k] = o[k]
    <3>1. k \in 1..(r - 1 + 1) /\ 1 + k - 1 = k
      BY <1>6
    <3> QED BY <2>2, <3>1
  <2> QED BY <2>2, <2>3, <2>4
<1> HIDE DEF p
<1>8. /\ t \in Seq(Report) /\ Len(t) = r + Len(q)
      /\ \A k \in 1..(r + Len(q)) : t[k] = IF k <= r THEN p[k] ELSE q[k - r]
  <2>1. /\ t \in Seq(Report) /\ Len(t) = Len(p) + Len(q)
        /\ \A k \in 1..(Len(p) + Len(q)) : t[k] = IF k <= Len(p) THEN p[k] ELSE q[k - Len(p)]
    BY <1>7, ConcatProperties
  <2> HIDE DEF t
  <2> QED BY <1>7, <2>1
<1>9. /\ s \in Seq(Report) /\ Len(s) = Len(b) + Len(q) /\ DOMAIN s = 1..(Len(b) + Len(q))
      /\ \A k \in 1..(Len(b) + Len(q)) : s[k] = IF k <= Len(b) THEN b[k] ELSE q[k - Len(b)]
  <2>1. /\ s \in Seq(Report) /\ Len(s) = Len(b) + Len(q)
        /\ \A k \in 1..(Len(b) + Len(q)) : s[k] = IF k <= Len(b) THEN b[k] ELSE q[k - Len(b)]
    BY ConcatProperties
  <2> HIDE DEF s
  <2>2. DOMAIN s = 1..Len(s)
    BY <2>1, LenProperties
  <2> QED BY <2>1, <2>2
<1>10. DOMAIN t = 1..(r + Len(q))
  <2> HIDE DEF t
  <2>1. DOMAIN t = 1..Len(t)
    BY <1>8, LenProperties
  <2> QED BY <1>8, <2>1
<1> HIDE DEF t, s
<1> DEFINE h == [k \in 1..(r + Len(q)) |-> IF k <= r THEN f[k] ELSE Len(b) + (k - r)]
<1>11. ASSUME NEW k \in 1..(r + Len(q))
       PROVE  /\ h[k] \in Int /\ h[k] \in DOMAIN s /\ t[k] = s[h[k]]
              /\ k <= r => k \in 1..Len(o) /\ h[k] = f[k] /\ h[k] <= Len(b) /\ t[k] = o[k]
              /\ ~(k <= r) => h[k] = Len(b) + (k - r)
  <2>1. CASE k <= r
    <3>1. k \in 1..r /\ k \in 1..Len(o)
      BY <1>2, <1>6, <2>1
    <3>2. h[k] = f[k] /\ f[k] \in 1..Len(b) /\ t[k] = o[k]
      BY <1>3, <1>7, <1>8, <2>1, <3>1
    <3> HIDE DEF h
    <3>3. h[k] \in 1..(Len(b) + Len(q)) /\ h[k] <= Len(b) /\ h[k] \in Int
      BY <1>1, <3>2
    <3>4. s[h[k]] = b[h[k]]
      BY <1>9, <3>3
    <3>5. t[k] = s[h[k]]
      BY <1>3, <3>1, <3>2, <3>4
    <3> QED BY <1>9, <2>1, <3>1, <3>2, <3>3, <3>5
  <2>2. CASE ~(k <= r)
    <3>1. h[k] = Len(b) + (k - r) /\ t[k] = q[k - r]
      BY <1>8, <2>2
    <3> HIDE DEF h
    <3>2. /\ h[k] \in 1..(Len(b) + Len(q)) /\ ~(h[k] <= Len(b)) /\ h[k] - Len(b) = k - r
          /\ h[k] \in Int
      BY <1>1, <1>6, <2>2, <3>1
    <3>3. s[h[k]] = q[h[k] - Len(b)]
      BY <1>9, <3>2
    <3>4. t[k] = s[h[k]]
      BY <3>1, <3>2, <3>3
    <3> QED BY <1>9, <2>2, <3>1, <3>2, <3>4
  <2> QED BY <2>1, <2>2
<1>12. h \in [DOMAIN t -> Int]
  <2>1. \A k \in 1..(r + Len(q)) : h[k] \in Int
    BY <1>11
  <2> QED BY <1>10, <2>1
<1> HIDE DEF h
<1>13. ASSUME NEW k \in DOMAIN t, NEW l \in DOMAIN t, k < l, t[k].id = t[l].id
       PROVE  h[k] < h[l]
  <2>1. k \in 1..(r + Len(q)) /\ l \in 1..(r + Len(q))
    BY <1>10
  <2>2. CASE l <= r
    <3>1. k <= r
      BY <1>6, <1>13, <2>1, <2>2
    <3>2. /\ k \in 1..Len(o) /\ l \in 1..Len(o) /\ h[k] = f[k] /\ h[l] = f[l]
          /\ t[k] = o[k] /\ t[l] = o[l]
      BY <1>11, <2>1, <2>2, <3>1
    <3>3. o[k].id = o[l].id
      BY <1>13, <3>2
    <3> QED BY <1>3, <1>13, <3>2, <3>3
  <2>3. CASE ~(l <= r) /\ k <= r
    <3>1. h[k] <= Len(b) /\ h[l] = Len(b) + (l - r) /\ h[k] \in Int
      BY <1>11, <2>1, <2>3
    <3> QED BY <1>1, <1>6, <2>1, <2>3, <3>1
  <2>4. CASE ~(l <= r) /\ ~(k <= r)
    <3>1. h[k] = Len(b) + (k - r) /\ h[l] = Len(b) + (l - r)
      BY <1>11, <2>1, <2>4
    <3> QED BY <1>1, <1>6, <1>13, <2>1, <3>1
  <2> QED BY <2>2, <2>3, <2>4
<1>14. ASSUME NEW x \in Ids PROVE Kept(t, s, x)
  <2>1. \A k \in DOMAIN t : h[k] \in DOMAIN s /\ t[k] = s[h[k]]
    BY <1>10, <1>11
  <2>2. \A k, l \in DOMAIN t : k < l /\ t[k].id = x /\ t[l].id = x => h[k] < h[l]
    BY <1>13
  <2> QED BY <1>12, <2>1, <2>2 DEF Kept
<1>15. Len(t) <= QueueMax
  BY <1>6, <1>8
<1> QED BY <1>4, <1>8, <1>14, <1>15 DEF s

--------------------------------------------------------------------------------
(* The daemon's conversation.                                              *)

(* An entry.                                                               *)
Entry == [id : Ids, seq : Nat, ver : Version]

(* No id has two entries in c.                                             *)
IdsOnce(c) == \A i, j \in 1..Len(c) : c[i].id = c[j].id => i = j

(* What is put into a conversation is in it, with its other entries but    *)
(* for those that it has no room for.                                      *)
LEMMA PutConvKeeps ==
  ASSUME NEW c \in Seq(Entry), IdsOnce(c), NEW e \in Entry
  PROVE  LET t == PutConv(c, e, ConvMax)
         IN  /\ t \in Seq(Entry) /\ IdsOnce(t)
             /\ NewestIn(t, e.id) = e.ver
             /\ \A i \in 1..Len(t) : t[i] = e \/ \E j \in 1..Len(c) : c[j] = t[i]
             /\ \A x : x # e.id /\ (HasEntry(c, x) => HasEntry(t, x)) =>
                  NewestIn(t, x) = NewestIn(c, x)
<1> DEFINE t == PutConv(c, e, ConvMax)
<1>1. Len(c) \in Nat /\ DOMAIN c = 1..Len(c)
  BY LenProperties
<1>2. /\ t \in Seq(Entry)
      /\ \A i \in 1..Len(t) : t[i] = e \/ \E j \in 1..Len(c) : c[j] = t[i]
      /\ \E i \in 1..Len(t) : t[i] = e
      /\ \A i, j \in 1..Len(t) : t[i].id = t[j].id => i = j
  BY TranscriptAssumption, PutConvProperties DEF IdsOnce
<1> HIDE DEF t
<1>3. /\ DOMAIN t = 1..Len(t)
      /\ \A i \in DOMAIN t : t[i].ver \in Version
      /\ \A i \in DOMAIN c : c[i].ver \in Version
  <2>1. \A d \in Entry : d.ver \in Version
    BY DEF Entry
  <2> QED BY <1>2, <2>1, VersionsOf
<1>4. NewestIn(t, e.id) = e.ver
  <2>1. PICK i \in DOMAIN t : t[i] = e
    BY <1>2, <1>3
  <2>2. \A j \in DOMAIN t : t[j].id = t[i].id => j = i
    BY <1>2, <1>3
  <2>3. NewestIn(t, t[i].id) = t[i].ver
    BY <1>3, <2>2, NewestOfOne
  <2> QED BY <2>1, <2>3
<1>5. ASSUME NEW x, x # e.id, HasEntry(c, x) => HasEntry(t, x)
      PROVE  NewestIn(t, x) = NewestIn(c, x)
  <2>1. CASE HasEntry(c, x)
    <3>1. PICK i \in DOMAIN t : t[i].id = x
      BY <1>5, <2>1 DEF HasEntry
    <3>2. PICK j \in DOMAIN c : c[j] = t[i]
      BY <1>1, <1>2, <1>3, <1>5, <3>1
    <3>3. (\A k \in DOMAIN t : t[k].id = t[i].id => k = i) /\ \A k \in DOMAIN c : c[k].id = c[j].id => k = j
      BY <1>1, <1>2, <1>3 DEF IdsOnce
    <3>4. NewestIn(t, t[i].id) = t[i].ver
      BY <1>3, <3>3, NewestOfOne
    <3>5. NewestIn(c, c[j].id) = c[j].ver
      BY <1>3, <3>3, NewestOfOne
    <3> QED BY <3>1, <3>2, <3>4, <3>5
  <2>2. CASE ~HasEntry(c, x)
    <3>1. \A j \in DOMAIN c : c[j].id # x
      BY <2>2 DEF HasEntry
    <3>2. \A i \in DOMAIN t : t[i].id # x
      BY <1>1, <1>2, <1>3, <1>5, <3>1
    <3>3. NewestIn(c, x) = 0
      BY <1>3, <3>1, NewestOfNone
    <3>4. NewestIn(t, x) = 0
      BY <1>3, <3>2, NewestOfNone
    <3> QED BY <3>3, <3>4
  <2> QED BY <2>1, <2>2
<1> QED BY <1>2, <1>4, <1>5 DEF t, IdsOnce

(* The next conversation n, numbered up to m, has taken in e.              *)
TakesIn(n, m, e) ==
  /\ n \in Seq(Entry) /\ IdsOnce(n) /\ m = convSeq + 1
  /\ NewestIn(n, e.id) = e.ver
  /\ \A i \in 1..Len(n) :
       \/ n[i].id = e.id /\ n[i].seq = m /\ n[i].ver = e.ver
       \/ \E j \in 1..Len(conv) : conv[j] = n[i]
  /\ \A x : x # e.id /\ (HasEntry(conv, x) => HasEntry(n, x)) => NewestIn(n, x) = NewestIn(conv, x)

(* appendConv.                                                             *)
LEMMA AppendTakesIn ==
  ASSUME conv \in Seq(Entry), convSeq \in Nat, IdsOnce(conv), NEW e \in Report, appendConv(e)
  PROVE  TakesIn(conv', convSeq', e)
<1> DEFINE d == [id |-> e.id, seq |-> convSeq + 1, ver |-> e.ver]
           n == PutConv(conv, d, ConvMax)
<1>1. d \in Entry /\ d.id = e.id /\ d.ver = e.ver /\ d.seq = convSeq + 1
  BY DEF Entry, Report
<1>2. conv' = n /\ convSeq' = convSeq + 1
  BY DEF appendConv
<1> HIDE DEF d
<1>3. /\ n \in Seq(Entry) /\ IdsOnce(n)
      /\ NewestIn(n, d.id) = d.ver
      /\ \A i \in 1..Len(n) : n[i] = d \/ \E j \in 1..Len(conv) : conv[j] = n[i]
      /\ \A x : x # d.id /\ (HasEntry(conv, x) => HasEntry(n, x)) => NewestIn(n, x) = NewestIn(conv, x)
  BY <1>1, PutConvKeeps
<1> HIDE DEF n
<1>4. TakesIn(n, convSeq + 1, e)
  BY <1>1, <1>3 DEF TakesIn
<1> QED BY <1>2, <1>4

(* What a report does to the daemon: the conversation takes it in, or it   *)
(* settles a request that is not open, or has no entry any more.  What it  *)
(* pushes out is missed.                                                   *)
Heeds(e) ==
  /\ conv' \in Seq(Entry) /\ convSeq' \in Nat /\ convSeq <= convSeq' /\ IdsOnce(conv')
  /\ badge' \in Requests \cup {NoRequest} /\ onRing' \in Seq(Requests \cup {NoRequest})
  /\ missed \subseteq missed' /\ missed' \subseteq Ids
  /\ \A r \in asking' : (r = e.id /\ e.ver = 1) \/ (r \in asking /\ r # e.id)
  /\ \A i \in 1..Len(conv') :
       \/ conv'[i].id = e.id /\ conv'[i].seq = convSeq' /\ convSeq < convSeq' /\ conv'[i].ver = e.ver
       \/ \E j \in 1..Len(conv) : conv[j] = conv'[i]
  /\ \A x \in Ids \ missed' : x # e.id => NewestIn(conv', x) = NewestIn(conv, x)
  /\ \/ NewestIn(conv', e.id) = e.ver
     \/ /\ conv' = conv /\ e.id \in Requests /\ e.ver = 2
        /\ e.id \in missed' \/ NewestIn(conv, e.id) # 1

(* Publishing leaves a ring of requests.                                   *)
LEMMA RingStaysRing ==
  ASSUME onRing \in Seq(Requests \cup {NoRequest}), NEW r \in Requests \cup {NoRequest},
         publishLocked(r)
  PROVE  onRing' \in Seq(Requests \cup {NoRequest})
<1> DEFINE S == Requests \cup {NoRequest}  a == Append(onRing, r)
<1>1. a \in Seq(S) /\ a # <<>>
  BY AppendProperties
<1> HIDE DEF S
<1>2. Tail(a) \in Seq(S)
  BY <1>1, HeadTailProperties
<1>3. onRing' = Tail(a) \/ onRing' = a
  BY DEF publishLocked, RingAppend
<1> QED BY <1>1, <1>2, <1>3 DEF S

(* A part of a message, a prompt and its retraction.                       *)
LEMMA ReportHeeded ==
  ASSUME conv \in Seq(Entry), convSeq \in Nat, IdsOnce(conv), NEW e \in Report,
         badge \in Requests \cup {NoRequest}, onRing \in Seq(Requests \cup {NoRequest}),
         asking \subseteq Requests, missed \subseteq Ids,
         IngestPart(e) \/ IngestAsked(e) \/ IngestReplied(e)
  PROVE  Heeds(e)
<1>1. e.id \in Ids /\ e.ver \in Nat /\ Ids = Parts \cup Requests /\ Parts \cap Requests = {}
  BY ReportType, TranscriptAssumption DEF Ids
<1>2. ASSUME appendConv(e), missed' = missed \cup Dropped
      PROVE  \A x \in Ids \ missed' : x # e.id => NewestIn(conv', x) = NewestIn(conv, x)
  BY <1>2, AppendTakesIn DEF TakesIn, Dropped
<1>3. ASSUME appendConv(e)
      PROVE  /\ conv' \in Seq(Entry) /\ convSeq' \in Nat /\ convSeq < convSeq' /\ convSeq <= convSeq'
             /\ IdsOnce(conv') /\ NewestIn(conv', e.id) = e.ver
             /\ \A i \in 1..Len(conv') :
                  \/ conv'[i].id = e.id /\ conv'[i].seq = convSeq' /\ conv'[i].ver = e.ver
                  \/ \E j \in 1..Len(conv) : conv[j] = conv'[i]
  <2>1. TakesIn(conv', convSeq', e)
    BY <1>3, AppendTakesIn
  <2> QED BY <2>1 DEF TakesIn
<1>4. Dropped \subseteq Ids
  BY DEF Dropped
<1>5. CASE IngestPart(e)
  <2>1. /\ e.id \in Parts /\ appendConv(e) /\ missed' = missed \cup Dropped
        /\ UNCHANGED <<badge, asking, onRing>>
    BY <1>5 DEF IngestPart
  <2> HIDE DEF Dropped
  <2> QED BY <1>1, <1>2, <1>3, <1>4, <2>1 DEF Heeds
<1>6. CASE IngestAsked(e)
  <2>1. /\ e.id \in Requests /\ e.ver = 1 /\ appendConv(e) /\ missed' = missed \cup Dropped
        /\ publishLocked(e.id) /\ badge' = e.id /\ asking' = (asking \ Fallen) \cup {e.id}
    BY <1>6 DEF IngestAsked
  <2>2. onRing' \in Seq(Requests \cup {NoRequest})
    BY <2>1, RingStaysRing
  <2> HIDE DEF Dropped
  <2> QED BY <1>1, <1>2, <1>3, <1>4, <2>1, <2>2 DEF Heeds
<1>7. CASE IngestReplied(e)
  <2>1. e.id \in Requests /\ e.ver = 2
    BY <1>7 DEF IngestReplied
  <2>2. CASE /\ e.id \in asking /\ Retract(e)
             /\ publishLocked(e.id) /\ asking' = (asking \ {e.id}) \ Fallen
             /\ UNCHANGED missed
    <3>1. onRing' \in Seq(Requests \cup {NoRequest}) /\ badge' \in Requests \cup {NoRequest}
      <4>1. badge' = IF badge = e.id THEN NoRequest ELSE badge
        BY <2>2 DEF Retract
      <4> QED BY <2>1, <2>2, <4>1, RingStaysRing
    <3>2. CASE HasEntry(conv, e.id) /\ appendConv(e)
      <4>1. \A x : x # e.id => NewestIn(conv', x) = NewestIn(conv, x)
        <5>1. TakesIn(conv', convSeq', e)
          BY <3>2, AppendTakesIn
        <5>2. ASSUME NEW x, HasEntry(conv, x) PROVE HasEntry(conv', x)
          <6> DEFINE d == [id |-> e.id, seq |-> convSeq + 1, ver |-> e.ver]
                     f == FirstEntry(conv, e.id)
          <6>1. d.id = e.id /\ d \in Entry
            BY DEF Entry, Report
          <6>2. conv' = [conv EXCEPT ![f] = d]
            BY <3>2, <6>1 DEF appendConv, PutConv
          <6>3. f \in 1..Len(conv) /\ conv[f].id = e.id
            BY <3>2, FirstEntryProperties
          <6> HIDE DEF d, f
          <6>4. DOMAIN conv' = DOMAIN conv /\ \A i \in DOMAIN conv : conv'[i].id = conv[i].id
            BY <6>1, <6>2, <6>3
          <6> QED BY <5>2, <6>4 DEF HasEntry
        <5> QED BY <5>1, <5>2 DEF TakesIn
      <4> QED BY <1>3, <2>1, <2>2, <3>1, <3>2, <4>1 DEF Heeds
    <3>3. CASE ~HasEntry(conv, e.id) /\ UNCHANGED <<conv, convSeq>>
      <4>1. NewestIn(conv, e.id) = 0
        <5>1. \A d \in Entry : d.ver \in Version
          BY DEF Entry
        <5>2. \A i \in DOMAIN conv : conv[i].ver \in Version
          BY <5>1, VersionsOf
        <5> QED BY <3>3, <5>2, NewestOfNone DEF HasEntry
      <4>2. convSeq <= convSeq
        OBVIOUS
      <4>3. \A i \in 1..Len(conv) : \E j \in 1..Len(conv) : conv[j] = conv[i]
        OBVIOUS
      <4> QED BY <1>1, <2>1, <2>2, <3>1, <3>3, <4>1, <4>2, <4>3 DEF Heeds
    <3> QED BY <2>2, <3>2, <3>3 DEF Retract
  <2>3. CASE /\ e.id \notin asking /\ UNCHANGED hub
             /\ missed' = IF NewestIn(conv, e.id) = 1 THEN missed \cup {e.id} ELSE missed
    <3>1. UNCHANGED <<conv, convSeq, badge, asking, onRing>>
      BY <2>3 DEF hub
    <3>2. missed \subseteq missed' /\ missed' \subseteq Ids /\ (e.id \in missed' \/ NewestIn(conv, e.id) # 1)
      BY <1>1, <2>3
    <3>3. convSeq <= convSeq
      OBVIOUS
    <3>4. \A i \in 1..Len(conv) : \E j \in 1..Len(conv) : conv[j] = conv[i]
      OBVIOUS
    <3> QED BY <2>1, <2>3, <3>1, <3>2, <3>3, <3>4 DEF Heeds
  <2> QED BY <1>7, <2>2, <2>3 DEF IngestReplied
<1> QED BY <1>5, <1>6, <1>7

--------------------------------------------------------------------------------
(* The screen that shows the conversation.                                *)

(* What the view and its panel may show, and what they show now.           *)
Screen == [view : [Parts -> Version], panel : Requests \cup {NoRequest}]
ScreenNow == [view |-> view, panel |-> panel]

(* Rendering an entry leaves a screen.                                     *)
LEMMA RenderType ==
  ASSUME NEW z \in Screen, NEW e \in Entry
  PROVE  Render(z, e) \in Screen
<1>1. e.ver \in Version /\ e.id \in Parts \cup Requests
  BY DEF Entry, Ids
<1>2. CASE isChatter(e)
  <2>1. Render(z, e) = [z EXCEPT !.view[e.id] = e.ver]
    BY <1>2 DEF Render
  <2> QED BY <1>1, <1>2, <2>1 DEF Screen, isChatter
<1>3. CASE ~isChatter(e)
  <2>1. e.id \in Requests
    BY <1>1, <1>3 DEF isChatter
  <2>2. Render(z, e) = IF e.ver = 1 THEN showPrompt(z, e.id) ELSE dismissPrompt(z, e.id)
    BY <1>3 DEF Render
  <2>3. showPrompt(z, e.id) \in Screen
    BY <2>1 DEF showPrompt, Screen
  <2>4. dismissPrompt(z, e.id) \in Screen
    BY DEF dismissPrompt, Screen
  <2> QED BY <2>2, <2>3, <2>4
<1> QED BY <1>2, <1>3

(* The view's loop over the events of an answer: what is shown after n.    *)
LEMMA RenderedEquation ==
  ASSUME view \in [Parts -> Version], panel \in Requests \cup {NoRequest}, NEW b \in Seq(Entry)
  PROVE  \E h : /\ \A n \in 0..Len(b) : h[n] = IF n = 0 THEN ScreenNow ELSE Render(h[n - 1], b[n])
                /\ Rendered(b) = h[Len(b)]
<1> DEFINE Solves(h) == h = [n \in 0..Len(b) |-> IF n = 0 THEN ScreenNow ELSE Render(h[n - 1], b[n])]
           F == [c \in Screen |-> [e \in Entry |-> Render(c, e)]]
           after == CHOOSE h : Solves(h)
<1>1. Len(b) \in Nat /\ \A i \in 1..Len(b) : b[i] \in Entry
  BY LenProperties, ElementOfSeq
<1>2. ScreenNow \in Screen
  BY DEF ScreenNow, Screen
<1>3. F \in [Screen -> [Entry -> Screen]]
  BY RenderType
<1>4. \A c \in Screen, e \in Entry : F[c][e] = Render(c, e)
  OBVIOUS
<1> HIDE DEF F
<1>5. PICK h : LoopValues(h, Screen, ScreenNow, b, F)
  BY <1>2, <1>3, LoopSolution
<1>6. ASSUME NEW n \in 0..Len(b)
      PROVE  h[n] = IF n = 0 THEN ScreenNow ELSE Render(h[n - 1], b[n])
  <2>1. CASE n = 0
    BY <1>5, <2>1 DEF LoopValues
  <2>2. CASE n # 0
    <3>1. n \in 1..Len(b) /\ n - 1 \in 0..Len(b)
      BY <1>1, <2>2
    <3> QED BY <1>1, <1>4, <1>5, <2>2, <3>1 DEF LoopValues
  <2> QED BY <2>1, <2>2
<1>7. Solves(h)
  BY <1>5, <1>6 DEF LoopValues
<1>8. Solves(after)
  <2> HIDE DEF Solves
  <2> QED BY <1>7
<1>9. Rendered(b) = after[Len(b)]
  BY Zenon DEF Rendered, ScreenNow
<1> HIDE DEF after
<1>10. \A n \in 0..Len(b) : after[n] = IF n = 0 THEN ScreenNow ELSE Render(after[n - 1], b[n])
  BY <1>8
<1> QED BY <1>9, <1>10

(* What rendering an entry changes.                                        *)
LEMMA RenderChanges ==
  ASSUME NEW z \in Screen, NEW e \in Entry
  PROVE  LET t == Render(z, e)
         IN  /\ t \in Screen
             /\ e.id \in Parts => t.view[e.id] = e.ver /\ t.panel = z.panel
             /\ \A p \in Parts : p # e.id => t.view[p] = z.view[p]
             /\ e.id \in Requests /\ e.ver = 1 => t.panel = e.id
             /\ e.id \in Requests /\ e.ver # 1 =>
                  t.panel # e.id /\ (t.panel = z.panel \/ t.panel = NoRequest)
<1> DEFINE t == Render(z, e)
<1>1. /\ e.ver \in Version /\ e.id \in Parts \cup Requests /\ Parts \cap Requests = {}
      /\ NoRequest \notin Ids
  BY TranscriptAssumption DEF Entry, Ids
<1>2. t \in Screen
  BY RenderType
<1>3. CASE isChatter(e)
  <2>1. t = [z EXCEPT !.view[e.id] = e.ver]
    BY <1>3 DEF Render
  <2>2. e.id \in Parts /\ e.id \notin Requests
    BY <1>1, <1>3 DEF isChatter
  <2>3. /\ t.panel = z.panel /\ t.view[e.id] = e.ver
        /\ \A p \in Parts : p # e.id => t.view[p] = z.view[p]
    <3> HIDE DEF t
    <3> QED BY <2>1, <2>2 DEF Screen
  <2> HIDE DEF t
  <2> QED BY <1>2, <2>2, <2>3 DEF t
<1>4. CASE ~isChatter(e)
  <2>1. e.id \in Requests /\ e.id \notin Parts /\ e.id # NoRequest
    BY <1>1, <1>4 DEF isChatter, Ids
  <2>2. t = IF e.ver = 1 THEN showPrompt(z, e.id) ELSE dismissPrompt(z, e.id)
    BY <1>4 DEF Render
  <2> HIDE DEF t
  <2>3. CASE e.ver = 1
    <3>1. t = [z EXCEPT !.panel = e.id]
      BY <2>2, <2>3 DEF showPrompt
    <3>2. t.view = z.view /\ t.panel = e.id
      BY <3>1 DEF Screen
    <3> QED BY <1>2, <2>1, <2>3, <3>2 DEF t
  <2>4. CASE e.ver # 1
    <3>1. t = [z EXCEPT !.panel = IF @ = e.id THEN NoRequest ELSE @]
      BY <2>2, <2>4 DEF dismissPrompt
    <3>2. t.view = z.view /\ t.panel = IF z.panel = e.id THEN NoRequest ELSE z.panel
      BY <3>1 DEF Screen
    <3> QED BY <1>2, <2>1, <2>4, <3>2 DEF t
  <2> QED BY <2>3, <2>4
<1> QED BY <1>3, <1>4

(* Rendering the events of an answer, each of its own id, shows them: the  *)
(* texts of the parts, and not the panel of a settled prompt.              *)
LEMMA RenderedProperties ==
  ASSUME view \in [Parts -> Version], panel \in Requests \cup {NoRequest},
         NEW b \in Seq(Entry), IdsOnce(b)
  PROVE  LET t == Rendered(b)
         IN  /\ t \in Screen
             /\ \A p \in Parts : (\A k \in 1..Len(b) : b[k].id # p) => t.view[p] = view[p]
             /\ \A k \in 1..Len(b) : b[k].id \in Parts => t.view[b[k].id] = b[k].ver
             /\ \A k \in 1..Len(b) : b[k].id \in Requests /\ b[k].ver = 2 => t.panel # b[k].id
             /\ \/ t.panel = panel \/ t.panel = NoRequest
                \/ \E k \in 1..Len(b) :
                     b[k].id \in Requests /\ b[k].ver = 1 /\ t.panel = b[k].id
<1>1. /\ Len(b) \in Nat /\ \A i \in 1..Len(b) : b[i] \in Entry
      /\ Parts \cap Requests = {} /\ NoRequest \notin Requests
  BY TranscriptAssumption, LenProperties, ElementOfSeq DEF Ids
<1>2. PICK h : /\ \A n \in 0..Len(b) : h[n] = IF n = 0 THEN ScreenNow ELSE Render(h[n - 1], b[n])
               /\ Rendered(b) = h[Len(b)]
  BY RenderedEquation
<1> DEFINE Left(t, n) == \A p \in Parts : (\A k \in 1..n : b[k].id # p) => t.view[p] = view[p]
           Texts(t, n) == \A k \in 1..n : b[k].id \in Parts => t.view[b[k].id] = b[k].ver
           Gone(t, n) == \A k \in 1..n : b[k].id \in Requests /\ b[k].ver = 2 => t.panel # b[k].id
           Panel(t, n) == \/ t.panel = panel \/ t.panel = NoRequest
                          \/ \E k \in 1..n :
                               b[k].id \in Requests /\ b[k].ver = 1 /\ t.panel = b[k].id
           Right(t, n) == t \in Screen /\ Left(t, n) /\ Texts(t, n) /\ Gone(t, n) /\ Panel(t, n)
           G == {n \in 0..Len(b) : Right(h[n], n)}
<1>3. Right(ScreenNow, 0)
  BY DEF ScreenNow, Screen
<1>4. ASSUME NEW n \in 1..Len(b), NEW z, Right(z, n - 1) PROVE Right(Render(z, b[n]), n)
  <2> DEFINE e == b[n]
             t == Render(z, e)
  <2>1. /\ e \in Entry /\ z \in Screen
        /\ Left(z, n - 1) /\ Texts(z, n - 1) /\ Gone(z, n - 1) /\ Panel(z, n - 1)
    BY <1>1, <1>4
  <2>2. /\ n \in 1..n /\ \A k \in 1..n : k \in 1..Len(b) /\ (k # n => k \in 1..(n - 1))
        /\ \A k \in 1..(n - 1) : k \in 1..n /\ k # n
    BY <1>1
  <2>3. \A k \in 1..(n - 1) : b[k].id # e.id
    BY <2>2 DEF IdsOnce
  <2>4. e.id \in Parts \cup Requests
    BY <2>1 DEF Entry, Ids
  <2>5. e = b[n]
    OBVIOUS
  <2> HIDE DEF e, Left, Texts, Gone, Panel
  <2>6. /\ t \in Screen
        /\ e.id \in Parts => t.view[e.id] = e.ver /\ t.panel = z.panel
        /\ \A p \in Parts : p # e.id => t.view[p] = z.view[p]
        /\ e.id \in Requests /\ e.ver = 1 => t.panel = e.id
        /\ e.id \in Requests /\ e.ver # 1 =>
             t.panel # e.id /\ (t.panel = z.panel \/ t.panel = NoRequest)
    BY <2>1, RenderChanges
  <2> HIDE DEF t
  <2>7. Left(t, n)
    <3> SUFFICES ASSUME NEW p \in Parts, \A k \in 1..n : b[k].id # p PROVE t.view[p] = view[p]
      BY DEF Left
    <3>1. p # e.id /\ \A k \in 1..(n - 1) : b[k].id # p
      BY <2>2, <2>5
    <3> QED BY <2>1, <2>6, <3>1 DEF Left
  <2>8. Texts(t, n)
    <3> SUFFICES ASSUME NEW k \in 1..n, b[k].id \in Parts PROVE t.view[b[k].id] = b[k].ver
      BY DEF Texts
    <3>1. CASE k = n
      BY <2>5, <2>6, <3>1
    <3>2. CASE k # n
      BY <2>1, <2>2, <2>3, <2>6, <3>2 DEF Texts
    <3> QED BY <3>1, <3>2
  <2>9. Gone(t, n)
    <3> SUFFICES ASSUME NEW k \in 1..n, b[k].id \in Requests, b[k].ver = 2 PROVE t.panel # b[k].id
      BY DEF Gone
    <3>1. CASE k = n
      BY <2>5, <2>6, <3>1
    <3>2. CASE k # n
      <4>1. b[k].id # e.id /\ z.panel # b[k].id /\ b[k].id # NoRequest
        BY <1>1, <2>1, <2>2, <2>3, <3>2 DEF Gone
      <4> QED BY <2>4, <2>6, <4>1
    <3> QED BY <3>1, <3>2
  <2>10. Panel(t, n)
    <3>1. CASE e.id \in Requests /\ e.ver = 1
      BY <2>2, <2>5, <2>6, <3>1 DEF Panel
    <3>2. CASE ~(e.id \in Requests /\ e.ver = 1)
      <4>1. t.panel = z.panel \/ t.panel = NoRequest
        BY <2>4, <2>6, <3>2
      <4> QED BY <2>1, <2>2, <4>1 DEF Panel
    <3> QED BY <3>1, <3>2
  <2>11. Right(t, n)
    BY <2>6, <2>7, <2>8, <2>9, <2>10
  <2> HIDE DEF Right
  <2> QED BY <2>11 DEF t, e
<1> HIDE DEF Right
<1>5. 0 \in G
  <2>1. 0 \in 0..Len(b) /\ h[0] = ScreenNow
    BY <1>1, <1>2
  <2> QED BY <1>3, <2>1
<1>6. ASSUME NEW n \in 1..Len(b), n - 1 \in G PROVE n \in G
  <2>1. n \in 0..Len(b) /\ h[n] = Render(h[n - 1], b[n])
    BY <1>1, <1>2
  <2>2. Right(h[n - 1], n - 1)
    BY <1>6
  <2> QED BY <1>4, <2>1, <2>2
<1>7. Right(h[Len(b)], Len(b))
  <2>1. Len(b) \in G
    <3>1. Len(b) \in 0..Len(b)
      BY <1>1
    <3> HIDE DEF G
    <3> QED BY <1>1, <1>5, <1>6, <3>1, LoopInduction
  <2> QED BY <2>1
<1>8. h[Len(b)] = Rendered(b)
  BY <1>2
<1>9. Right(Rendered(b), Len(b))
  BY <1>7, <1>8, Zenon
<1> QED BY <1>9 DEF Right

(* What an answer has: what the conversation says after the cursor.        *)
LEMMA AnswerProperties ==
  ASSUME NEW c \in Seq(Entry), IdsOnce(c), NEW past
  PROVE  LET b == EventsAfter(c, past)
         IN  /\ b \in Seq(Entry) /\ IdsOnce(b)
             /\ \A k \in 1..Len(b) : \E i \in 1..Len(c) : b[k] = c[i] /\ c[i].seq > past
             /\ \A i \in 1..Len(c) : c[i].seq > past => \E k \in 1..Len(b) : b[k] = c[i]
<1> DEFINE I == {i \in DOMAIN c : c[i].seq > past}
           b == EventsAfter(c, past)
<1>1. DOMAIN c = 1..Len(c) /\ I \subseteq 1..Len(c)
  BY LenProperties
<1>2. b = Pick(c, I)
  BY DEF EventsAfter
<1> HIDE DEF b
<1>3. \A i \in 1..Len(c) : i \in I <=> c[i].seq > past
  BY <1>1
<1> HIDE DEF I
<1>4. b \in Seq(Entry) /\ Cardinality(I) \in Nat /\ PickedBy(b, c, I)
  BY <1>1, <1>2, PickProperties
<1>5. /\ \A k \in 1..Len(b) : NthOf(I, k) \in I /\ b[k] = c[NthOf(I, k)]
      /\ \A i \in I : \E k \in 1..Len(b) : NthOf(I, k) = i
      /\ \A k, l \in 1..Len(b) : k < l => NthOf(I, k) < NthOf(I, l)
  BY <1>4 DEF PickedBy
<1>6. IdsOnce(b)
  <2> SUFFICES ASSUME NEW k \in 1..Len(b), NEW l \in 1..Len(b), b[k].id = b[l].id
               PROVE  k = l
    BY DEF IdsOnce
  <2>1. NthOf(I, k) = NthOf(I, l) /\ NthOf(I, k) \in 1..Len(c)
    BY <1>1, <1>5 DEF IdsOnce
  <2>2. k \in Nat /\ l \in Nat
    BY <1>4, LenProperties
  <2>3. ~(k < l) /\ ~(l < k)
    BY <1>5, <2>1
  <2> QED BY <2>2, <2>3
<1>7. \A k \in 1..Len(b) : \E i \in 1..Len(c) : b[k] = c[i] /\ c[i].seq > past
  BY <1>1, <1>3, <1>5
<1>8. \A i \in 1..Len(c) : c[i].seq > past => \E k \in 1..Len(b) : b[k] = c[i]
  BY <1>3, <1>5
<1> QED BY <1>4, <1>6, <1>7, <1>8 DEF b

--------------------------------------------------------------------------------
(* What is on its way.                                                     *)

(* Two sequences of reports, one after the other.                          *)
LEMMA OneAfterTheOther ==
  ASSUME NEW b \in Seq(Report), NEW q \in Seq(Report)
  PROVE  /\ b \o q \in Seq(Report)
         /\ DOMAIN b = 1..Len(b) /\ DOMAIN q = 1..Len(q) /\ Len(b) \in Nat /\ Len(q) \in Nat
         /\ DOMAIN (b \o q) = 1..(Len(b) + Len(q))
         /\ \A i \in 1..Len(b) : i \in DOMAIN (b \o q) /\ (b \o q)[i] = b[i]
         /\ \A i \in 1..Len(q) : Len(b) + i \in DOMAIN (b \o q) /\ (b \o q)[Len(b) + i] = q[i]
         /\ \A i \in DOMAIN (b \o q) :
              \/ i \in 1..Len(b)
              \/ i - Len(b) \in 1..Len(q) /\ i = Len(b) + (i - Len(b))
<1> DEFINE s == b \o q
<1>1. DOMAIN b = 1..Len(b) /\ DOMAIN q = 1..Len(q) /\ Len(b) \in Nat /\ Len(q) \in Nat
  BY LenProperties
<1>2. /\ s \in Seq(Report) /\ Len(s) = Len(b) + Len(q)
      /\ \A i \in 1..(Len(b) + Len(q)) : s[i] = IF i <= Len(b) THEN b[i] ELSE q[i - Len(b)]
  BY ConcatProperties
<1> HIDE DEF s
<1>3. DOMAIN s = 1..(Len(b) + Len(q))
  BY <1>2, LenProperties
<1>4. ASSUME NEW i \in 1..Len(b) PROVE i \in DOMAIN s /\ s[i] = b[i]
  <2>1. i \in 1..(Len(b) + Len(q)) /\ i <= Len(b)
    BY <1>1
  <2> QED BY <1>2, <1>3, <2>1
<1>5. ASSUME NEW i \in 1..Len(q) PROVE Len(b) + i \in DOMAIN s /\ s[Len(b) + i] = q[i]
  <2>1. /\ Len(b) + i \in 1..(Len(b) + Len(q)) /\ ~(Len(b) + i <= Len(b))
        /\ (Len(b) + i) - Len(b) = i
    BY <1>1
  <2> QED BY <1>2, <1>3, <2>1
<1>6. ASSUME NEW i \in DOMAIN s
      PROVE  i \in 1..Len(b) \/ (i - Len(b) \in 1..Len(q) /\ i = Len(b) + (i - Len(b)))
  BY <1>1, <1>3
<1> QED BY <1>1, <1>2, <1>3, <1>4, <1>5, <1>6 DEF s

(* s becomes t as the report e enters the queue q, of which z is made: e    *)
(* is in t, last of its id unless overtaken, and all else is from s, in    *)
(* its order, with what is not lost in making z.                           *)
Enters(t, s, q, z, e) ==
  /\ \E a \in DOMAIN t :
       /\ t[a] = e
       /\ \A k \in DOMAIN t : k # a => \E i \in DOMAIN s : t[k] = s[i]
       /\ \A k \in DOMAIN t : k > a /\ t[k].id = e.id => e.id \in Overtaken(q, e)
  /\ \A y : y # e.id => Kept(t, s, y)
  /\ \A y \in Ids \ Lost(Append(q, e), z) :
       y # e.id => \A i \in DOMAIN s : s[i].id = y => s[i].ver <= NewestIn(t, y)

(* What report makes of what is on its way.                                *)
LEMMA ReportOnItsWay ==
  ASSUME NEW b \in Seq(Report), NEW q \in Seq(Report), Len(q) <= QueueMax, NEW e \in Report
  PROVE  Enters(b \o Enqueued(q, e), b \o q, q, Enqueued(q, e), e)
<1> DEFINE z == Enqueued(q, e)
           t == b \o z
           s == b \o q
<1>1. z \in Seq(Report)
  BY EnqueuedProperties
<1>2. PICK a \in 1..Len(z), g \in [1..Len(z) -> Int] :
        /\ z[a] = e
        /\ \A k \in 1..Len(z) : k # a => g[k] \in 1..Len(q) /\ z[k] = q[g[k]]
        /\ \A k, l \in 1..Len(z) : k < l => g[k] < g[l]
        /\ \A k \in 1..Len(z) : k > a /\ z[k].id = e.id => e.id \in Overtaken(q, e)
  BY EnqueuedProperties
<1> HIDE DEF z
<1>3. /\ t \in Seq(Report) /\ DOMAIN z = 1..Len(z) /\ Len(b) \in Nat /\ Len(z) \in Nat
      /\ DOMAIN t = 1..(Len(b) + Len(z))
      /\ \A i \in 1..Len(b) : i \in DOMAIN t /\ t[i] = b[i]
      /\ \A i \in 1..Len(z) : Len(b) + i \in DOMAIN t /\ t[Len(b) + i] = z[i]
      /\ \A i \in DOMAIN t :
           i \in 1..Len(b) \/ (i - Len(b) \in 1..Len(z) /\ i = Len(b) + (i - Len(b)))
  BY <1>1, OneAfterTheOther
<1>4. /\ s \in Seq(Report) /\ DOMAIN q = 1..Len(q) /\ Len(q) \in Nat
      /\ DOMAIN s = 1..(Len(b) + Len(q))
      /\ \A i \in 1..Len(b) : i \in DOMAIN s /\ s[i] = b[i]
      /\ \A i \in 1..Len(q) : Len(b) + i \in DOMAIN s /\ s[Len(b) + i] = q[i]
      /\ \A i \in DOMAIN s :
           i \in 1..Len(b) \/ (i - Len(b) \in 1..Len(q) /\ i = Len(b) + (i - Len(b)))
  BY OneAfterTheOther
<1> HIDE DEF t, s
<1>5. Len(b) + a \in DOMAIN t /\ t[Len(b) + a] = e
  BY <1>2, <1>3
<1> DEFINE h == [k \in DOMAIN t |-> IF k <= Len(b) THEN k ELSE Len(b) + g[k - Len(b)]]
<1>6. ASSUME NEW k \in DOMAIN t, k # Len(b) + a
      PROVE  h[k] \in DOMAIN s /\ t[k] = s[h[k]]
  <2>1. CASE k \in 1..Len(b)
    <3>1. h[k] = k
      BY <1>3, <2>1
    <3> HIDE DEF h
    <3> QED BY <1>3, <1>4, <2>1, <3>1
  <2>2. CASE k - Len(b) \in 1..Len(z) /\ k = Len(b) + (k - Len(b))
    <3>1. k - Len(b) # a /\ ~(k <= Len(b))
      <4>1. k - Len(b) # a
        BY <1>6, <2>2, Zenon
      <4>2. k \in Nat /\ Len(b) \in Nat /\ k - Len(b) >= 1
        BY <1>3, <2>2
      <4> QED BY <4>1, <4>2
    <3>2. h[k] = Len(b) + g[k - Len(b)]
      BY <3>1
    <3> HIDE DEF h
    <3>3. g[k - Len(b)] \in 1..Len(q) /\ z[k - Len(b)] = q[g[k - Len(b)]]
      BY <1>2, <2>2, <3>1
    <3>4. t[k] = z[k - Len(b)]
      BY <1>3, <2>2
    <3> QED BY <1>4, <3>2, <3>3, <3>4
  <2> HIDE DEF h
  <2> QED BY <1>3, <2>1, <2>2
<1>7. \A k \in DOMAIN t : k # Len(b) + a => \E i \in DOMAIN s : t[k] = s[i]
  <2> HIDE DEF h
  <2> QED BY <1>6
<1>8. ASSUME NEW k \in DOMAIN t, k > Len(b) + a, t[k].id = e.id PROVE e.id \in Overtaken(q, e)
  <2>1. k - Len(b) \in 1..Len(z) /\ k = Len(b) + (k - Len(b)) /\ k - Len(b) > a
    BY <1>3, <1>8
  <2>2. t[k] = z[k - Len(b)]
    BY <1>3, <2>1
  <2> QED BY <1>2, <1>8, <2>1, <2>2
<1>9. ASSUME NEW y, y # e.id PROVE Kept(t, s, y)
  <2>1. h \in [DOMAIN t -> Int]
    <3> SUFFICES ASSUME NEW k \in DOMAIN t
                 PROVE  (IF k <= Len(b) THEN k ELSE Len(b) + g[k - Len(b)]) \in Int
      OBVIOUS
    <3>1. CASE k \in 1..Len(b)
      BY <1>3, <3>1
    <3>2. CASE k - Len(b) \in 1..Len(z) /\ k = Len(b) + (k - Len(b))
      <4>1. g[k - Len(b)] \in Int /\ k \in Int
        BY <1>3, <3>2
      <4> QED BY <1>3, <4>1
    <3> QED BY <1>3, <3>1, <3>2
  <2>2. \A k \in DOMAIN t : t[k].id = y => k # Len(b) + a
    BY <1>5, <1>9
  <2>3. \A k \in DOMAIN t : t[k].id = y => h[k] \in DOMAIN s /\ t[k] = s[h[k]]
    <3> HIDE DEF h
    <3> QED BY <1>6, <2>2
  <2>4. ASSUME NEW k \in DOMAIN t, NEW l \in DOMAIN t, k < l, t[k].id = y, t[l].id = y
        PROVE  h[k] < h[l]
    <3>1. CASE l \in 1..Len(b)
      <4>1. h[l] = l /\ h[k] = k
        BY <1>3, <2>4, <3>1
      <4> HIDE DEF h
      <4> QED BY <2>4, <4>1
    <3>2. CASE k \in 1..Len(b) /\ l - Len(b) \in 1..Len(z) /\ l = Len(b) + (l - Len(b))
      <4>1. l - Len(b) # a /\ ~(l <= Len(b))
        BY <1>3, <2>2, <2>4, <3>2
      <4>2. h[k] = k /\ h[l] = Len(b) + g[l - Len(b)] /\ g[l - Len(b)] \in 1..Len(q)
        BY <1>2, <1>3, <3>2, <4>1
      <4> HIDE DEF h
      <4> QED BY <1>3, <1>4, <3>2, <4>2
    <3>3. CASE /\ k - Len(b) \in 1..Len(z) /\ k = Len(b) + (k - Len(b))
               /\ l - Len(b) \in 1..Len(z) /\ l = Len(b) + (l - Len(b))
      <4>1. ~(k <= Len(b)) /\ ~(l <= Len(b)) /\ k - Len(b) < l - Len(b)
        BY <1>3, <2>4, <3>3
      <4>2. h[k] = Len(b) + g[k - Len(b)] /\ h[l] = Len(b) + g[l - Len(b)]
        BY <4>1
      <4> HIDE DEF h
      <4>3. g[k - Len(b)] < g[l - Len(b)] /\ g[k - Len(b)] \in Int /\ g[l - Len(b)] \in Int
        BY <1>2, <3>3, <4>1
      <4> QED BY <1>3, <4>2, <4>3
    <3> HIDE DEF h
    <3>4. k \in 1..Len(b) \/ ~(l \in 1..Len(b)) \/ k - Len(b) \in 1..Len(z)
      BY <1>3
    <3>5. l \notin 1..Len(b) \/ k \in 1..Len(b)
      BY <1>3, <2>4
    <3> QED BY <1>3, <3>1, <3>2, <3>3, <3>4, <3>5
  <2> HIDE DEF h
  <2> QED BY <2>1, <2>3, <2>4 DEF Kept
<1>10. ASSUME NEW y \in Ids \ Lost(Append(q, e), z), y # e.id, NEW i \in DOMAIN s, s[i].id = y
       PROVE  s[i].ver <= NewestIn(t, y)
  <2>1. /\ NewestIn(t, y) \in Nat
        /\ \A j \in DOMAIN t : t[j].id = y => t[j].ver <= NewestIn(t, y)
    BY <1>3, ReportType, VersionsOf, NewestProperties
  <2>2. CASE i \in 1..Len(b)
    <3>1. i \in DOMAIN t /\ t[i] = s[i]
      BY <1>3, <1>4, <2>2
    <3> QED BY <1>10, <2>1, <3>1
  <2>3. CASE i - Len(b) \in 1..Len(q) /\ i = Len(b) + (i - Len(b))
    <3> DEFINE A == Append(q, e)
    <3>1. s[i] = q[i - Len(b)]
      BY <1>4, <2>3
    <3>2. A \in Seq(Report) /\ i - Len(b) \in DOMAIN A /\ A[i - Len(b)] = q[i - Len(b)]
      <4>1. A \in Seq(Report) /\ Len(A) = Len(q) + 1 /\ \A j \in 1..Len(q) : A[j] = q[j]
        BY AppendProperties
      <4> HIDE DEF A
      <4>2. DOMAIN A = 1..(Len(q) + 1)
        BY <4>1, LenProperties
      <4> QED BY <1>4, <2>3, <4>1, <4>2
    <3>3. ~(NewestIn(A, y) > NewestIn(z, y))
      BY <1>10 DEF Lost
    <3> HIDE DEF A
    <3>4. /\ NewestIn(A, y) \in Nat
          /\ \A j \in DOMAIN A : A[j].id = y => A[j].ver <= NewestIn(A, y)
      BY <3>2, ReportType, VersionsOf, NewestProperties
    <3>5. /\ NewestIn(z, y) \in Nat
          /\ NewestIn(z, y) = 0 \/ \E j \in DOMAIN z : z[j].id = y /\ z[j].ver = NewestIn(z, y)
      BY <1>1, ReportType, VersionsOf, NewestProperties
    <3>6. s[i].ver <= NewestIn(A, y) /\ s[i].ver \in Nat
      <4>1. s[i].ver <= NewestIn(A, y)
        BY <1>10, <3>1, <3>2, <3>4
      <4>2. s[i] \in Report
        BY <1>4, LenProperties, ElementOfSeq
      <4> QED BY <4>1, <4>2, ReportType
    <3>7. NewestIn(z, y) <= NewestIn(t, y)
      <4>1. CASE NewestIn(z, y) = 0
        BY <2>1, <4>1
      <4>2. CASE \E j \in DOMAIN z : z[j].id = y /\ z[j].ver = NewestIn(z, y)
        <5>1. PICK j \in 1..Len(z) : z[j].id = y /\ z[j].ver = NewestIn(z, y)
          BY <1>3, <4>2
        <5>2. Len(b) + j \in DOMAIN t /\ t[Len(b) + j] = z[j]
          BY <1>3
        <5> QED BY <2>1, <5>1, <5>2
      <4> QED BY <3>5, <4>1, <4>2
    <3> QED BY <2>1, <3>3, <3>4, <3>5, <3>6, <3>7
  <2> QED BY <1>4, <2>2, <2>3
<1> HIDE DEF h
<1>11. Enters(t, s, q, z, e)
  BY <1>5, <1>7, <1>8, <1>9, <1>10 DEF Enters
<1> QED BY <1>11 DEF t, s, z

(* What a request has left to bring, followed by a queue, is what comes    *)
(* last of the two.                                                        *)
LEMMA RestOfFlight ==
  ASSUME NEW b \in Seq(Report), NEW q \in Seq(Report), NEW n \in 0..Len(b)
  PROVE  LET r == SubSeq(b, n + 1, Len(b))
             u == r \o q
             s == b \o q
         IN  /\ r \in Seq(Report) /\ u \in Seq(Report) /\ (n = 0 => r = b)
             /\ \A i \in DOMAIN u : n + i \in DOMAIN s /\ s[n + i] = u[i]
             /\ \A i \in DOMAIN s : i > n => i - n \in DOMAIN u /\ u[i - n] = s[i]
<1> DEFINE r == SubSeq(b, n + 1, Len(b))
           u == r \o q
           s == b \o q
<1>1. Len(b) \in Nat /\ Len(q) \in Nat /\ n \in Nat /\ n <= Len(b)
  BY LenProperties
<1>2. \A i \in (n + 1)..Len(b) : b[i] \in Report
  BY <1>1, ElementOfSeq
<1>3. /\ r \in Seq(Report) /\ Len(r) = Len(b) - n
      /\ \A i \in 1..(Len(b) - n) : r[i] = b[n + i]
  <2>1. /\ r \in Seq(Report)
        /\ Len(r) = IF n + 1 <= Len(b) THEN Len(b) - (n + 1) + 1 ELSE 0
        /\ \A i \in 1..(Len(b) - (n + 1) + 1) : r[i] = b[(n + 1) + i - 1]
    <3>1. n + 1 \in Int /\ Len(b) \in Int
      BY <1>1
    <3> HIDE DEF r
    <3> QED BY <1>2, <3>1, SubSeqProperties DEF r
  <2> HIDE DEF r
  <2>2. Len(r) = Len(b) - n
    BY <1>1, <2>1
  <2>3. \A i \in 1..(Len(b) - n) : i \in 1..(Len(b) - (n + 1) + 1) /\ (n + 1) + i - 1 = n + i
    BY <1>1
  <2> QED BY <2>1, <2>2, <2>3
<1>4. n = 0 => r = b
  BY SubSeqFull
<1> HIDE DEF r
<1>5. /\ u \in Seq(Report) /\ DOMAIN u = 1..(Len(r) + Len(q))
      /\ \A i \in 1..(Len(r) + Len(q)) : u[i] = IF i <= Len(r) THEN r[i] ELSE q[i - Len(r)]
  <2>1. u \in Seq(Report) /\ Len(u) = Len(r) + Len(q)
        /\ \A i \in 1..(Len(r) + Len(q)) : u[i] = IF i <= Len(r) THEN r[i] ELSE q[i - Len(r)]
    BY <1>3, ConcatProperties
  <2> HIDE DEF u
  <2> QED BY <2>1, LenProperties
<1>6. /\ DOMAIN s = 1..(Len(b) + Len(q))
      /\ \A i \in 1..(Len(b) + Len(q)) : s[i] = IF i <= Len(b) THEN b[i] ELSE q[i - Len(b)]
  <2>1. s \in Seq(Report) /\ Len(s) = Len(b) + Len(q)
        /\ \A i \in 1..(Len(b) + Len(q)) : s[i] = IF i <= Len(b) THEN b[i] ELSE q[i - Len(b)]
    BY ConcatProperties
  <2> HIDE DEF s
  <2> QED BY <2>1, LenProperties
<1> HIDE DEF u, s
<1>7. ASSUME NEW i \in DOMAIN u PROVE n + i \in DOMAIN s /\ s[n + i] = u[i]
  <2>1. i \in 1..(Len(r) + Len(q)) /\ n + i \in 1..(Len(b) + Len(q)) /\ i \in Nat
    BY <1>1, <1>3, <1>5
  <2>2. CASE i <= Len(r)
    <3>1. i \in 1..(Len(b) - n) /\ n + i <= Len(b)
      BY <1>1, <1>3, <2>1, <2>2
    <3> QED BY <1>3, <1>5, <1>6, <2>1, <2>2, <3>1
  <2>3. CASE ~(i <= Len(r))
    <3>1. ~(n + i <= Len(b)) /\ (n + i) - Len(b) = i - Len(r)
      BY <1>1, <1>3, <2>1, <2>3
    <3> QED BY <1>5, <1>6, <2>1, <2>3, <3>1
  <2> QED BY <2>2, <2>3
<1>8. ASSUME NEW i \in DOMAIN s, i > n PROVE i - n \in DOMAIN u /\ u[i - n] = s[i]
  <2>1. i - n \in DOMAIN u /\ n + (i - n) = i
    BY <1>1, <1>3, <1>5, <1>6, <1>8
  <2> QED BY <1>7, <2>1
<1> QED BY <1>3, <1>4, <1>5, <1>7, <1>8 DEF r, u, s

(* After the first n of s there is nothing about x.                        *)
Silent(s, n, x) == \A j \in DOMAIN s : j > n => s[j].id # x

(* What comes last says something about x unless it says nothing.          *)
LEMMA RestSilent ==
  ASSUME NEW b \in Seq(Report), NEW q \in Seq(Report), NEW n \in 0..Len(b), NEW x,
         \A i \in DOMAIN (b \o q) : (b \o q)[i].ver # 0
  PROVE  NewestIn(SubSeq(b, n + 1, Len(b)) \o q, x) = 0 <=> Silent(b \o q, n, x)
<1> DEFINE u == SubSeq(b, n + 1, Len(b)) \o q
           s == b \o q
<1>1. /\ u \in Seq(Report)
      /\ \A i \in DOMAIN u : n + i \in DOMAIN s /\ s[n + i] = u[i]
      /\ \A i \in DOMAIN s : i > n => i - n \in DOMAIN u /\ u[i - n] = s[i]
  BY RestOfFlight
<1>2. \A i \in DOMAIN s : s[i].ver # 0
  OBVIOUS
<1> HIDE DEF u, s
<1>3. /\ DOMAIN u = 1..Len(u) /\ Len(u) \in Nat /\ n \in Nat
      /\ \A i \in DOMAIN u : u[i].ver \in Version
  BY <1>1, LenProperties, VersionsOf, ReportType
<1>4. ASSUME Silent(s, n, x) PROVE NewestIn(u, x) = 0
  <2>1. \A i \in DOMAIN u : n + i > n
    BY <1>3
  <2>2. \A i \in DOMAIN u : u[i].id # x
    BY <1>1, <1>4, <2>1 DEF Silent
  <2> QED BY <1>3, <2>2, NewestOfNone
<1>5. ASSUME NewestIn(u, x) = 0 PROVE Silent(s, n, x)
  <2> SUFFICES ASSUME NEW j \in DOMAIN s, j > n, s[j].id = x PROVE FALSE
    BY DEF Silent
  <2>1. j - n \in DOMAIN u /\ u[j - n].id = x /\ u[j - n].ver # 0
    BY <1>1, <1>2
  <2>2. u[j - n].ver <= 0 /\ u[j - n].ver \in Nat
    BY <1>3, <1>5, <2>1, NewestProperties, ReportType
  <2> QED BY <2>1, <2>2
<1> QED BY <1>4, <1>5 DEF u, s

(* What the invariant says of the sequences it is about.                   *)
LEMMA InvFacts ==
  ASSUME ReportsInv
  PROVE  /\ queue \in Seq(Report) /\ Len(queue) <= QueueMax
         /\ flight.batch \in Seq(Report) /\ taken \in 0..Len(flight.batch)
         /\ OnItsWay \in Seq(Report) /\ Unheard \in Seq(Report)
         /\ DOMAIN OnItsWay = 1..Len(OnItsWay) /\ Len(OnItsWay) \in Nat
         /\ \A i \in DOMAIN OnItsWay :
              OnItsWay[i].id \in Ids /\ OnItsWay[i].ver \in Version /\ OnItsWay[i].ver \in Nat
         /\ \A x \in Ids : now[x] \in Version /\ now[x] \in Nat
         /\ \A x \in Ids \ missed : InOrder(OnItsWay, x, now[x])
         /\ \A x : NewestIn(Unheard, x) = 0 <=> Silent(OnItsWay, taken, x)
         /\ \A x \in Ids \ missed :
              Silent(OnItsWay, taken, x) =>
                \/ NewestIn(conv, x) = now[x]
                \/ x \in Requests /\ now[x] = 2 /\ NewestIn(conv, x) # 1
         /\ \A i \in DOMAIN OnItsWay : OnItsWay[i].ver \in 1..now[OnItsWay[i].id]
         /\ conv \in Seq(Entry) /\ convSeq \in Nat /\ IdsOnce(conv)
<1>1. /\ queue \in Seq(Report) /\ Len(queue) <= QueueMax /\ flight.batch \in Seq(Report)
      /\ taken \in 0..Len(flight.batch)
  BY DEF ReportsInv, TranscriptTypeOK, Flight
<1>2. OnItsWay \in Seq(Report) /\ Unheard \in Seq(Report)
  <2>1. OnItsWay \in Seq(Report)
    BY <1>1, OneAfterTheOther DEF OnItsWay
  <2>2. Unheard \in Seq(Report)
    BY <1>1, RestOfFlight DEF Unheard
  <2> QED BY <2>1, <2>2
<1>3. DOMAIN OnItsWay = 1..Len(OnItsWay) /\ Len(OnItsWay) \in Nat
  BY <1>2, LenProperties
<1>4. \A i \in DOMAIN OnItsWay :
        OnItsWay[i].id \in Ids /\ OnItsWay[i].ver \in Version /\ OnItsWay[i].ver \in Nat
  BY <1>2, <1>3, ElementOfSeq, ReportType
<1>5. \A x \in Ids : now[x] \in Version /\ now[x] \in Nat
  BY ReportType DEF ReportsInv, TranscriptTypeOK
<1>6. \A x \in Ids \ missed : InOrder(OnItsWay, x, now[x])
  BY DEF ReportsInv, LastIsNewest, InOrder
<1>7. conv \in Seq(Entry) /\ convSeq \in Nat
  BY DEF ReportsInv, TranscriptTypeOK, Entry
<1>8. IdsOnce(conv)
  BY <1>7, LenProperties DEF ReportsInv, OneEntryEach, IdsOnce
<1>9. \A i \in DOMAIN OnItsWay : OnItsWay[i].ver \in 1..now[OnItsWay[i].id]
  BY DEF ReportsInv, HasHappened
<1>10. ASSUME NEW x PROVE NewestIn(Unheard, x) = 0 <=> Silent(OnItsWay, taken, x)
  <2>1. \A i \in DOMAIN OnItsWay : OnItsWay[i].ver # 0
    BY <1>9
  <2> QED BY <1>1, <2>1, RestSilent DEF OnItsWay, Unheard
<1>11. \A x \in Ids \ missed :
         Silent(OnItsWay, taken, x) =>
           \/ NewestIn(conv, x) = now[x]
           \/ x \in Requests /\ now[x] = 2 /\ NewestIn(conv, x) # 1
  BY <1>10 DEF ReportsInv, HeardIsNewest, Heard
<1> QED BY <1>1, <1>2, <1>3, <1>4, <1>5, <1>6, <1>7, <1>8, <1>9, <1>10, <1>11

(* The sequences of the next state: Rested says that they are what they    *)
(* should be, of which HeardNext and its like make use.                    *)
Rested ==
  /\ queue \in Seq(Report) /\ flight.batch \in Seq(Report) /\ taken \in 0..Len(flight.batch)
  /\ \A i \in DOMAIN OnItsWay : OnItsWay[i].ver # 0

(* What is not heard of yet, in the next state.                            *)
LEMMA UnheardNext ==
  ASSUME Rested', NEW x
  PROVE  NewestIn(Unheard', x) = 0 <=> Silent(OnItsWay', taken', x)
<1> DEFINE b == flight'.batch  q == queue'  n == taken'
<1>1. /\ q \in Seq(Report) /\ b \in Seq(Report) /\ n \in 0..Len(b)
      /\ \A i \in DOMAIN (b \o q) : (b \o q)[i].ver # 0
  BY DEF Rested, OnItsWay
<1>2. Unheard' = SubSeq(b, n + 1, Len(b)) \o q /\ OnItsWay' = b \o q
  BY DEF Unheard, OnItsWay
<1> HIDE DEF b, q, n
<1>3. NewestIn(SubSeq(b, n + 1, Len(b)) \o q, x) = 0 <=> Silent(b \o q, n, x)
  BY <1>1, RestSilent
<1> QED BY <1>2, <1>3, Zenon DEF n

(* HeardIsNewest of the next state, in the variables' next values.         *)
LEMMA HeardNext ==
  HeardIsNewest' <=>
    \A x \in Ids \ missed' :
      NewestIn(Unheard', x) = 0 =>
        \/ NewestIn(conv', x) = now'[x]
        \/ x \in Requests /\ now'[x] = 2 /\ NewestIn(conv', x) # 1
  BY DEF HeardIsNewest, Heard, NewestIn

(* LastIsNewest of the next state, id by id.                               *)
LEMMA OrderNext ==
  LastIsNewest' <=> \A x \in Ids \ missed' : InOrder(OnItsWay', x, now'[x])
  BY DEF LastIsNewest, InOrder

(* Everything but the types, in the next state.                            *)
Heeded == HasHappened /\ OneEntryEach /\ LastIsNewest /\ HeardIsNewest

(* A step that reports nothing, loses nothing and leaves the conversation. *)
LEMMA SameOnItsWay ==
  ASSUME ReportsInv, OnItsWay' = OnItsWay, Unheard' = Unheard,
         UNCHANGED <<now, edits, conv, missed>>
  PROVE  Heeded'
<1>1. HasHappened'
  BY Zenon DEF ReportsInv, HasHappened
<1>2. OneEntryEach'
  BY Zenon DEF ReportsInv, OneEntryEach
<1>3. LastIsNewest'
  <2>1. \A x \in Ids \ missed : InOrder(OnItsWay, x, now[x])
    BY InvFacts
  <2> QED BY <2>1, OrderNext, Zenon
<1>4. HeardIsNewest'
  <2>1. \A x \in Ids \ missed :
          NewestIn(Unheard, x) = 0 =>
            \/ NewestIn(conv, x) = now[x]
            \/ x \in Requests /\ now[x] = 2 /\ NewestIn(conv, x) # 1
    BY DEF ReportsInv, HeardIsNewest, Heard
  <2> QED BY <2>1, HeardNext, Zenon
<1> QED BY <1>1, <1>2, <1>3, <1>4 DEF Heeded

(* The plugin's part of the types.                                         *)
PluginOK ==
  /\ life \in Nat /\ upId \in 0..life
  /\ queue \in Seq(Report) /\ Len(queue) <= QueueMax /\ flight \in Flight
  /\ flight.as <= flight.on /\ flight.on <= life
  /\ taken \in 0..Len(flight.batch)
  /\ (taken # 0 => phase = "sent" /\ daemonUp /\ flight.as = life)
  /\ phase \in {"idle", "sent", "settling"} /\ (phase = "idle" => queue = <<>>)
  /\ (phase # "sent" => flight = NoFlight)

(* No flight has no batch.                                                 *)
LEMMA NoBatch ==
  /\ NoFlight \in Flight /\ NoFlight.batch = <<>> /\ NoFlight.as = 0 /\ NoFlight.on = 0
  /\ Len(<<>>) = 0 /\ <<>> \in Seq(Report) /\ SubSeq(<<>>, 1, 0) = <<>>
  /\ \A q \in Seq(Report) : <<>> \o q = q /\ q \o <<>> = q /\ SubSeq(q, 1, Len(q)) = q
<1>1. NoFlight.batch = <<>> /\ NoFlight.as = 0 /\ NoFlight.on = 0 /\ <<>> \in Seq(Report)
  BY DEF NoFlight
<1>2. \A q \in Seq(Report) : <<>> \o q = q /\ q \o <<>> = q /\ SubSeq(q, 1, Len(q)) = q
  BY ConcatEmptySeq, SubSeqFull
<1>3. Len(<<>>) = 0
  OBVIOUS
<1>4. SubSeq(<<>>, 1, 0) = <<>>
  BY <1>1, <1>2, <1>3
<1>5. NoFlight \in Flight
  BY <1>1 DEF NoFlight, Flight
<1> QED BY <1>1, <1>2, <1>3, <1>4, <1>5

(* A queue that is sent is on its way as before.                           *)
LEMMA SendSteps ==
  ASSUME PluginOK, phase # "sent", NEW q \in Seq(Report), Len(q) <= QueueMax, Send(q),
         UNCHANGED <<upId, daemonUp, life, taken>>
  PROVE  OnItsWay' = q /\ Unheard' = q /\ PluginOK' /\ taken = 0
<1>1. flight = NoFlight /\ taken = 0
  BY NoBatch DEF PluginOK
<1>2. /\ flight' = [batch |-> q, as |-> upId, on |-> life]
      /\ queue' = <<>> /\ phase' = "sent" /\ taken' = 0
  BY <1>1 DEF Send
<1>3. flight'.batch = q /\ flight'.as = upId /\ flight'.on = life /\ flight' \in Flight
  BY <1>2 DEF PluginOK, Flight
<1>4. OnItsWay' = q \o <<>> /\ Unheard' = SubSeq(q, 0 + 1, Len(q)) \o <<>>
  BY <1>2, <1>3 DEF OnItsWay, Unheard
<1>5. 0 + 1 = 1
  OBVIOUS
<1>6. OnItsWay' = q /\ Unheard' = q
  BY <1>4, <1>5, NoBatch
<1>7. Len(q) \in Nat /\ Len(queue') <= QueueMax
  BY <1>2, NoBatch, LenProperties, ReportType
<1>8. PluginOK'
  BY <1>2, <1>3, <1>7, NoBatch DEF PluginOK
<1> QED BY <1>1, <1>6, <1>8

(* A step of report: q is the queue it makes.                              *)
LEMMA ReportSteps ==
  ASSUME ReportsInv, NEW e \in Report, report(e), UNCHANGED <<upId, daemonUp, life, taken>>
  PROVE  LET q == Enqueued(queue, e)
         IN  /\ OnItsWay' = flight.batch \o q
             /\ Unheard' = SubSeq(flight.batch, taken + 1, Len(flight.batch)) \o q
             /\ PluginOK'
             /\ missed' = (missed \ ({e.id} \cap Parts))
                            \cup Lost(Append(queue, e), q) \cup Overtaken(queue, e)
<1> DEFINE q == Enqueued(queue, e)
<1>1. PluginOK
  BY DEF ReportsInv, TranscriptTypeOK, PluginOK
<1>2. q \in Seq(Report) /\ Len(q) <= QueueMax
  BY <1>1, EnqueuedProperties DEF PluginOK
<1>3. missed' = (missed \ ({e.id} \cap Parts))
                  \cup Lost(Append(queue, e), q) \cup Overtaken(queue, e)
  BY DEF report
<1>4. (phase = "idle" /\ Send(q)) \/ (phase # "idle" /\ queue' = q /\ UNCHANGED <<flight, phase>>)
  BY DEF report
<1> HIDE DEF q
<1>5. CASE phase = "idle" /\ Send(q)
  <2>1. OnItsWay' = q /\ Unheard' = q /\ PluginOK' /\ taken = 0
    BY <1>1, <1>2, <1>5, SendSteps
  <2>2. flight.batch = <<>> /\ Len(flight.batch) = 0
    BY <1>1, <1>5, NoBatch DEF PluginOK
  <2>3. SubSeq(flight.batch, taken + 1, Len(flight.batch)) = <<>>
    <3>1. 0 + 1 = 1
      OBVIOUS
    <3> QED BY <2>1, <2>2, <3>1, NoBatch
  <2>4. flight.batch \o q = q /\ SubSeq(flight.batch, taken + 1, Len(flight.batch)) \o q = q
    BY <1>2, <2>2, <2>3, NoBatch
  <2> QED BY <1>3, <2>1, <2>4 DEF q
<1>6. CASE phase # "idle" /\ queue' = q /\ UNCHANGED <<flight, phase>>
  <2>1. OnItsWay' = flight.batch \o q
    BY <1>6 DEF OnItsWay
  <2>2. Unheard' = SubSeq(flight.batch, taken + 1, Len(flight.batch)) \o q
    BY <1>6 DEF Unheard
  <2>3. PluginOK'
    BY <1>1, <1>2, <1>6 DEF PluginOK
  <2> QED BY <1>3, <2>1, <2>2, <2>3 DEF q
<1> QED BY <1>4, <1>5, <1>6

(* What is not heard of yet has happened, too.                             *)
LEMMA UnheardHappened ==
  ASSUME ReportsInv
  PROVE  \A i \in DOMAIN Unheard : /\ Unheard[i].id \in Ids /\ Unheard[i].ver \in Version
                                   /\ Unheard[i].ver \in 1..now[Unheard[i].id]
<1> DEFINE b == flight.batch
<1>1. /\ queue \in Seq(Report) /\ b \in Seq(Report) /\ taken \in 0..Len(b)
      /\ \A i \in DOMAIN OnItsWay : /\ OnItsWay[i].id \in Ids /\ OnItsWay[i].ver \in Version
                                    /\ OnItsWay[i].ver \in 1..now[OnItsWay[i].id]
  BY InvFacts
<1>2. Unheard = SubSeq(b, taken + 1, Len(b)) \o queue /\ OnItsWay = b \o queue
  BY DEF Unheard, OnItsWay
<1> HIDE DEF b
<1>3. \A i \in DOMAIN Unheard : taken + i \in DOMAIN OnItsWay /\ OnItsWay[taken + i] = Unheard[i]
  BY <1>1, <1>2, RestOfFlight
<1> QED BY <1>1, <1>3

(* The hook, for a text or a state newer than the id's last.               *)
LEMMA EventHeeded ==
  ASSUME ReportsInv, NEW x \in Ids, NEW ver \in Version, event(x, ver),
         ver > now[x], x \in Parts => ver <= edits', x \in Requests => ver <= 2,
         edits' \in Nat, edits <= edits'
  PROVE  Heeded'
<1> DEFINE e == [id |-> x, ver |-> ver]
           s == OnItsWay
           t == OnItsWay'
           rest == SubSeq(flight.batch, taken + 1, Len(flight.batch))
<1>1. /\ queue \in Seq(Report) /\ Len(queue) <= QueueMax
      /\ flight.batch \in Seq(Report) /\ s \in Seq(Report)
      /\ DOMAIN s = 1..Len(s) /\ Len(s) \in Nat
      /\ \A i \in DOMAIN s : s[i].id \in Ids /\ s[i].ver \in Version /\ s[i].ver \in Nat
      /\ \A y \in Ids : now[y] \in Version /\ now[y] \in Nat
      /\ \A y \in Ids \ missed : InOrder(s, y, now[y])
      /\ s = flight.batch \o queue
  BY InvFacts DEF OnItsWay
<1>2. /\ now' = [now EXCEPT ![x] = ver] /\ conv' = conv
      /\ UNCHANGED <<upId, daemonUp, life, taken>>
      /\ (upId # 0 /\ report(e)) \/ (upId = 0 /\ missed' = missed \cup {x} /\ UNCHANGED plugin)
  BY DEF event, daemon, hub
<1>3. now'[x] = ver /\ ver \in Nat /\ \A y \in Ids : now[y] <= now'[y] /\ (y # x => now'[y] = now[y])
  <2>1. now \in [Ids -> Version] /\ ver \in Nat
    BY ReportType DEF ReportsInv, TranscriptTypeOK
  <2> QED BY <1>1, <1>2, <2>1
<1>4. /\ \A i \in DOMAIN s : s[i].ver \in 1..now[s[i].id]
      /\ \A p \in Parts : now[p] <= edits
      /\ \A r \in Requests : now[r] <= 2
  BY DEF ReportsInv, HasHappened
<1>5. OneEntryEach'
  BY <1>2, Zenon DEF ReportsInv, OneEntryEach
<1>6. /\ \A p \in Parts : now'[p] <= edits'
      /\ \A r \in Requests : now'[r] <= 2
  <2>1. edits \in Nat /\ Parts \subseteq Ids /\ Requests \subseteq Ids
    BY DEF ReportsInv, TranscriptTypeOK, Ids
  <2>2. ASSUME NEW p \in Parts PROVE now'[p] <= edits'
    <3>1. CASE p = x
      BY <1>3, <3>1
    <3>2. CASE p # x
      <4>1. now'[p] = now[p] /\ now[p] \in Nat /\ now[p] <= edits
        BY <1>1, <1>3, <1>4, <2>1, <3>2
      <4> QED BY <2>1, <4>1
    <3> QED BY <3>1, <3>2
  <2>3. ASSUME NEW r \in Requests PROVE now'[r] <= 2
    <3>1. CASE r = x
      BY <1>3, <3>1
    <3>2. CASE r # x
      BY <1>3, <1>4, <2>1, <3>2
    <3> QED BY <3>1, <3>2
  <2> QED BY <2>2, <2>3
<1>7. CASE upId = 0 /\ missed' = missed \cup {x} /\ UNCHANGED plugin
  <2>1. t = s /\ Unheard' = Unheard
    BY <1>2, <1>7 DEF OnItsWay, Unheard, plugin
  <2> HIDE DEF s
  <2>2. \A i \in DOMAIN s : s[i].ver \in 1..now'[s[i].id]
    <3> SUFFICES ASSUME NEW i \in DOMAIN s PROVE s[i].ver \in 1..now'[s[i].id]
      OBVIOUS
    <3>1. /\ s[i].ver \in 1..now[s[i].id] /\ s[i].id \in Ids /\ now[s[i].id] <= now'[s[i].id]
          /\ now[s[i].id] \in Nat /\ now'[s[i].id] \in Nat
      BY <1>1, <1>3, <1>4
    <3> QED BY <3>1
  <2>3. HasHappened'
    BY <1>6, <2>1, <2>2, Zenon DEF HasHappened
  <2>4. \A y \in Ids \ missed' : y \notin missed /\ y # x /\ now'[y] = now[y]
    BY <1>3, <1>7
  <2>5. LastIsNewest'
    <3>1. \A y \in Ids \ missed' : InOrder(s, y, now'[y])
      BY <1>1, <2>4
    <3> QED BY <2>1, <3>1, OrderNext, Zenon DEF t
  <2>6. HeardIsNewest'
    <3>1. \A y \in Ids \ missed' :
            NewestIn(Unheard, y) = 0 =>
              \/ NewestIn(conv, y) = now'[y]
              \/ y \in Requests /\ now'[y] = 2 /\ NewestIn(conv, y) # 1
      BY <2>4 DEF ReportsInv, HeardIsNewest, Heard
    <3> QED BY <1>2, <2>1, <3>1, HeardNext, Zenon
  <2> QED BY <1>5, <2>3, <2>5, <2>6 DEF Heeded
<1>8. CASE upId # 0 /\ report(e)
  <2>1. e \in Report /\ e.id = x /\ e.ver = ver
    BY DEF Report
  <2> HIDE DEF e
  <2> DEFINE q == Enqueued(queue, e)
  <2>2. /\ t = flight.batch \o q /\ Unheard' = rest \o q
        /\ missed' = (missed \ ({e.id} \cap Parts))
                       \cup Lost(Append(queue, e), q) \cup Overtaken(queue, e)
    BY <1>2, <1>8, <2>1, ReportSteps
  <2>3. q \in Seq(Report)
    BY <1>1, <2>1, EnqueuedProperties
  <2> HIDE DEF q
  <2>4. t \in Seq(Report) /\ DOMAIN t = 1..Len(t) /\ Len(t) \in Nat
    BY <1>1, <2>2, <2>3, OneAfterTheOther, LenProperties
  <2>5. Enters(t, s, queue, q, e)
    <3> DEFINE b == flight.batch
    <3> HIDE DEF t, s, b
    <3>1. b \in Seq(Report) /\ t = b \o q /\ s = b \o queue
      BY <1>1, <2>2 DEF b
    <3>2. Enters(b \o q, b \o queue, queue, q, e)
      BY <1>1, <2>1, <3>1, ReportOnItsWay DEF q
    <3> QED BY <3>1, <3>2
  <2> HIDE DEF t, s
  <2>6. PICK a \in DOMAIN t :
             /\ t[a] = e
             /\ \A k \in DOMAIN t : k # a => \E i \in DOMAIN s : t[k] = s[i]
             /\ \A k \in DOMAIN t : k > a /\ t[k].id = e.id => e.id \in Overtaken(queue, e)
    BY <2>5 DEF Enters
  <2>7. \A y \in Ids \ missed' : y # x => y \notin missed /\ y \notin Lost(Append(queue, e), q)
    BY <2>1, <2>2
  <2>8. x \notin missed' => x \notin Overtaken(queue, e)
    BY <2>2
  <2>9. ASSUME NEW k \in DOMAIN t PROVE t[k].ver \in 1..now'[t[k].id]
    <3>1. CASE k = a
      <4>1. t[k].ver = ver /\ t[k].id = x
        BY <2>1, <2>6, <3>1
      <4>2. ver \in 1..ver
        BY <1>1, <1>3
      <4> QED BY <1>3, <4>1, <4>2
    <3>2. CASE k # a
      <4>1. PICK i \in DOMAIN s : t[k] = s[i]
        BY <2>6, <3>2
      <4>2. /\ s[i].ver \in 1..now[s[i].id] /\ s[i].id \in Ids
            /\ now[s[i].id] <= now'[s[i].id]
            /\ now[s[i].id] \in Nat /\ now'[s[i].id] \in Nat
        BY <1>1, <1>3, <1>4
      <4> QED BY <4>1, <4>2
    <3> QED BY <3>1, <3>2
  <2>10. HasHappened'
    BY <1>6, <2>9, Zenon DEF HasHappened, t
  <2>11. ASSUME NEW y \in Ids \ missed' PROVE InOrder(t, y, now'[y])
    <3>1. CASE y # x
      <4>1. y \notin missed /\ y \in Ids \ Lost(Append(queue, e), q) /\ y # e.id
        BY <2>1, <2>7, <3>1
      <4>2. Kept(t, s, y) /\ InOrder(s, y, now[y]) /\ now[y] \in Nat /\ now'[y] = now[y]
        BY <1>1, <1>3, <2>5, <3>1, <4>1 DEF Enters
      <4>3. \A i \in DOMAIN s : s[i].id = y => s[i].ver \in 1..now[y] /\ s[i].ver <= NewestIn(t, y)
        BY <1>4, <2>5, <4>1 DEF Enters
      <4>4. InOrder(t, y, now[y])
        BY <1>1, <2>4, <4>2, <4>3, ReportType, KeptInOrder
      <4> QED BY <4>2, <4>4
    <3>2. CASE y = x
      <4> SUFFICES ASSUME NEW k \in DOMAIN t, t[k].id = x
                   PROVE  t[k].ver = ver <=> \A j \in DOMAIN t : j > k => t[j].id # x
        BY <1>3, <3>2 DEF InOrder
      <4>1. \A j \in DOMAIN t : j > a => t[j].id # x
        BY <2>1, <2>6, <2>8, <3>2
      <4>2. CASE k = a
        BY <2>1, <2>6, <4>1, <4>2
      <4>3. CASE k # a
        <5>1. k < a
          BY <2>4, <4>1, <4>3
        <5>2. PICK i \in DOMAIN s : t[k] = s[i]
          BY <2>6, <4>3
        <5>3. t[k].ver \in 1..now[x]
          BY <1>4, <5>2
        <5>4. t[k].ver # ver
          BY <1>1, <1>3, <5>3
        <5>5. a > k /\ t[a].id = x
          BY <2>1, <2>4, <2>6, <5>1
        <5> QED BY <5>4, <5>5
      <4> QED BY <4>2, <4>3
    <3> QED BY <3>1, <3>2
  <2>12. LastIsNewest'
    BY <2>11, OrderNext, Zenon DEF t
  <2> DEFINE u == Unheard
             w == Unheard'
  <2>13. /\ rest \in Seq(Report) /\ u = rest \o queue /\ w = rest \o q
         /\ \A i \in DOMAIN u : u[i].ver \in Version /\ u[i].ver \in 1..now[u[i].id]
    <3>1. taken \in 0..Len(flight.batch)
      BY InvFacts
    <3>2. rest \in Seq(Report)
      BY <1>1, <3>1, RestOfFlight
    <3> QED BY <2>2, <3>2, UnheardHappened DEF Unheard
  <2> HIDE DEF rest, u, w
  <2>14. Enters(w, u, queue, q, e) /\ w \in Seq(Report)
    <3>1. Enters(rest \o q, rest \o queue, queue, q, e)
      BY <1>1, <2>1, <2>13, ReportOnItsWay DEF q
    <3>2. rest \o q \in Seq(Report)
      BY <2>3, <2>13, OneAfterTheOther
    <3> QED BY <2>13, <3>1, <3>2
  <2>15. ASSUME NEW y \in Ids \ missed', NewestIn(w, y) = 0
         PROVE  \/ NewestIn(conv, y) = now'[y]
                \/ y \in Requests /\ now'[y] = 2 /\ NewestIn(conv, y) # 1
    <3>1. \A k \in DOMAIN w : w[k].ver \in Version
      BY <2>14, VersionsOf, ReportType
    <3>2. y # x
      <4>1. PICK k \in DOMAIN w : w[k] = e
        BY <2>14 DEF Enters
      <4>2. w[k].ver <= NewestIn(w, w[k].id)
        BY <3>1, NewestProperties
      <4>3. w[k].id = x /\ w[k].ver = ver /\ ver >= 1
        BY <1>1, <1>3, <2>1, <4>1
      <4> QED BY <1>3, <2>15, <4>2, <4>3
    <3>3. y \notin missed /\ y \in Ids \ Lost(Append(queue, e), q) /\ y # e.id /\ now'[y] = now[y]
      BY <1>3, <2>1, <2>7, <3>2
    <3>4. ASSUME NEW i \in DOMAIN u, u[i].id = y PROVE FALSE
      <4>1. u[i].ver <= 0 /\ u[i].ver \in 1..now[y]
        BY <2>13, <2>14, <2>15, <3>3, <3>4 DEF Enters
      <4> QED BY <1>1, <4>1
    <3>5. NewestIn(u, y) = 0
      BY <2>13, <3>4, NewestOfNone
    <3> QED BY <3>3, <3>5 DEF ReportsInv, HeardIsNewest, Heard, u
  <2>16. HeardIsNewest'
    BY <1>2, <2>15, HeardNext, Zenon DEF w
  <2> QED BY <1>5, <2>10, <2>12, <2>16 DEF Heeded
<1> QED BY <1>2, <1>7, <1>8

--------------------------------------------------------------------------------
(* The steps.                                                              *)

(* A flight that is over leaves nothing but the queue on its way.          *)
LEMMA FlightOver ==
  ASSUME flight' = NoFlight, taken' = 0, queue' \in Seq(Report)
  PROVE  OnItsWay' = queue' /\ Unheard' = queue'
<1>1. flight'.batch = <<>> /\ Len(flight'.batch) = 0 /\ 0 + 1 = 1
  BY NoBatch
<1>2. OnItsWay' = <<>> \o queue' /\ Unheard' = SubSeq(<<>>, 1, 0) \o queue'
  BY <1>1 DEF OnItsWay, Unheard
<1> QED BY <1>2, NoBatch

(* Nothing of what is on its way was taken in.                             *)
LEMMA NoneTaken ==
  ASSUME flight.batch \in Seq(Report), taken = 0
  PROVE  Unheard = OnItsWay
<1>1. 0 + 1 = 1
  OBVIOUS
<1>2. SubSeq(flight.batch, taken + 1, Len(flight.batch)) = flight.batch
  BY <1>1, NoBatch
<1> QED BY <1>2 DEF Unheard, OnItsWay

(* A flight that is over and whose losses are written down.                *)
LEMMA BatchLost ==
  ASSUME ReportsInv, flight' = NoFlight, taken = 0, taken' = 0, queue' \in Seq(Report),
         \A x \in Ids : Kept(queue', OnItsWay, x),
         missed' = missed \cup Lost(OnItsWay, queue'), UNCHANGED <<now, edits, conv>>
  PROVE  Heeded'
<1> DEFINE s == OnItsWay
           t == queue'
<1>1. /\ s \in Seq(Report)
      /\ DOMAIN s = 1..Len(s) /\ Len(s) \in Nat
      /\ \A i \in DOMAIN s : s[i].id \in Ids /\ s[i].ver \in Version /\ s[i].ver \in Nat
      /\ \A y \in Ids : now[y] \in Version /\ now[y] \in Nat
      /\ \A y \in Ids \ missed : InOrder(s, y, now[y])
  BY InvFacts
<1>2. \A i \in DOMAIN s : s[i].ver \in 1..now[s[i].id]
  BY DEF ReportsInv, HasHappened
<1>3. \A y \in Ids \ missed :
        NewestIn(s, y) = 0 =>
          \/ NewestIn(conv, y) = now[y]
          \/ y \in Requests /\ now[y] = 2 /\ NewestIn(conv, y) # 1
  <2>1. Unheard = s
    BY InvFacts, NoneTaken
  <2> HIDE DEF s
  <2> QED BY <2>1 DEF ReportsInv, HeardIsNewest, Heard
<1>4. t \in Seq(Report) /\ OnItsWay' = t /\ Unheard' = t /\ \A y \in Ids : Kept(t, s, y)
  BY FlightOver
<1>5. \A y \in Ids \ missed' : y \notin missed /\ y \notin Lost(s, t)
  OBVIOUS
<1> HIDE DEF s, t
<1>6. DOMAIN t = 1..Len(t) /\ Len(t) \in Nat /\ \A k \in DOMAIN t : t[k].ver \in Version
  BY <1>4, VersionsOf, ReportType
<1>7. \A k \in DOMAIN t : t[k].id \in Ids
  BY <1>4, <1>6, ElementOfSeq, ReportType
<1>8. ASSUME NEW k \in DOMAIN t PROVE t[k].ver \in 1..now[t[k].id]
  <2>1. Kept(t, s, t[k].id)
    BY <1>4, <1>7
  <2>2. \E i \in DOMAIN s : t[k] = s[i]
    BY <2>1 DEF Kept
  <2> QED BY <1>2, <2>2
<1>9. HasHappened'
  <2>1. /\ \A p \in Parts : now[p] <= edits
        /\ \A r \in Requests : now[r] <= 2
    BY DEF ReportsInv, HasHappened
  <2> QED BY <1>4, <1>8, <2>1, Zenon DEF HasHappened
<1>10. OneEntryEach'
  BY Zenon DEF ReportsInv, OneEntryEach
<1>11. ASSUME NEW y \in Ids \ missed', NEW i \in DOMAIN s, s[i].id = y
       PROVE  s[i].ver \in 1..now[y] /\ s[i].ver <= NewestIn(t, y)
  <2>1. s[i].ver <= NewestIn(s, y) /\ NewestIn(s, y) \in Nat
    BY <1>1, <1>11, NewestProperties
  <2>2. NewestIn(t, y) \in Nat /\ ~(NewestIn(s, y) > NewestIn(t, y))
    BY <1>5, <1>6, NewestProperties DEF Lost
  <2> QED BY <1>1, <1>2, <1>11, <2>1, <2>2
<1>12. LastIsNewest'
  <2>1. ASSUME NEW y \in Ids \ missed' PROVE InOrder(t, y, now[y])
    <3>1. InOrder(s, y, now[y]) /\ Kept(t, s, y) /\ now[y] \in Nat
      BY <1>1, <1>4, <1>5
    <3> QED BY <1>1, <1>4, <1>11, <3>1, ReportType, KeptInOrder
  <2> QED BY <1>4, <2>1, OrderNext, Zenon
<1>13. HeardIsNewest'
  <2>1. ASSUME NEW y \in Ids \ missed', NewestIn(t, y) = 0
        PROVE  \/ NewestIn(conv, y) = now[y]
               \/ y \in Requests /\ now[y] = 2 /\ NewestIn(conv, y) # 1
    <3>1. ASSUME NEW i \in DOMAIN s, s[i].id = y PROVE FALSE
      BY <1>1, <1>11, <2>1, <3>1
    <3>2. NewestIn(s, y) = 0
      BY <1>1, <3>1, NewestOfNone
    <3> QED BY <1>3, <1>5, <3>2
  <2> QED BY <1>4, <2>1, HeardNext, Zenon
<1> QED BY <1>9, <1>10, <1>12, <1>13 DEF Heeded

(* The 200 of the POST, of which all is taken in.                          *)
LEMMA AcceptedKeeps ==
  ASSUME ReportsInv, Accepted
  PROVE  ReportsInv' /\ Unheard' = Unheard
<1> DEFINE b == flight.batch
           s == OnItsWay
<1>1. /\ queue \in Seq(Report) /\ b \in Seq(Report) /\ s = b \o queue
      /\ s \in Seq(Report) /\ DOMAIN s = 1..Len(s) /\ Len(s) \in Nat
      /\ \A y \in Ids \ missed : InOrder(s, y, now[y])
      /\ \A i \in DOMAIN s : s[i].ver \in 1..now[s[i].id]
  BY InvFacts DEF OnItsWay
<1>2. /\ flight' = NoFlight /\ taken' = 0 /\ taken = Len(b) /\ phase' = "settling"
      /\ UNCHANGED <<kilo, upId, queue, daemonUp, life, crashes, hub, phone, missed>>
  BY DEF Accepted
<1>3. OnItsWay' = queue /\ Unheard' = queue
  <2>1. queue' = queue
    BY <1>2
  <2> QED BY <1>1, <1>2, <2>1, FlightOver
<1>4. Unheard = queue
  <2>1. Len(b) \in Nat
    BY <1>1, LenProperties
  <2>2. SubSeq(b, Len(b) + 1, Len(b)) = <<>>
    BY <1>1, <2>1, SubSeqEmpty
  <2>3. Unheard = SubSeq(b, Len(b) + 1, Len(b)) \o queue
    BY <1>2 DEF Unheard
  <2> QED BY <1>1, <2>2, <2>3, NoBatch
<1>5. TranscriptTypeOK'
  <2>1. life \in Nat
    BY DEF ReportsInv, TranscriptTypeOK
  <2> QED BY <1>2, <2>1, NoBatch DEF ReportsInv, TranscriptTypeOK, kilo, hub, phone
<1>6. OneEntryEach'
  BY <1>2, Zenon DEF ReportsInv, OneEntryEach, hub
<1> HIDE DEF b, s
<1>7. HasHappened'
  <2>1. /\ DOMAIN queue = 1..Len(queue)
        /\ \A i \in 1..Len(queue) : Len(b) + i \in DOMAIN s /\ s[Len(b) + i] = queue[i]
    BY <1>1, OneAfterTheOther
  <2>2. \A i \in DOMAIN queue : queue[i].ver \in 1..now[queue[i].id]
    BY <1>1, <2>1
  <2>3. (\A p \in Parts : now[p] <= edits) /\ \A r \in Requests : now[r] <= 2
    BY DEF ReportsInv, HasHappened
  <2>4. now' = now /\ edits' = edits
    BY <1>2 DEF kilo
  <2> QED BY <1>3, <2>2, <2>3, <2>4, Zenon DEF HasHappened
<1>8. LastIsNewest'
  <2>1. ASSUME NEW y \in Ids \ missed PROVE InOrder(queue, y, now[y])
    <3>1. InOrder(b \o queue, y, now[y])
      BY <1>1
    <3> QED BY <1>1, <3>1, RestInOrder
  <2>2. now' = now /\ missed' = missed
    BY <1>2 DEF kilo
  <2> QED BY <1>3, <2>1, <2>2, OrderNext, Zenon
<1>9. HeardIsNewest'
  <2>1. \A y \in Ids \ missed :
          NewestIn(Unheard, y) = 0 =>
            \/ NewestIn(conv, y) = now[y]
            \/ y \in Requests /\ now[y] = 2 /\ NewestIn(conv, y) # 1
    BY DEF ReportsInv, HeardIsNewest, Heard
  <2>2. now' = now /\ missed' = missed /\ conv' = conv /\ Unheard' = Unheard
    BY <1>2, <1>3, <1>4 DEF kilo, hub
  <2> QED BY <2>1, <2>2, HeardNext, Zenon
<1> QED BY <1>3, <1>4, <1>5, <1>6, <1>7, <1>8, <1>9 DEF ReportsInv

(* The report that Ingest heeds, and what is then known of it.             *)
LEMMA IngestHeeds ==
  ASSUME ReportsInv, Ingest
  PROVE  LET e == OnItsWay[taken + 1]
         IN  /\ Heeds(e) /\ e \in Report
             /\ e.ver \in 1..now[e.id] /\ now[e.id] \in Nat
             /\ \A x : Silent(OnItsWay, taken + 1, x) /\ x # e.id => Silent(OnItsWay, taken, x)
             /\ e.id \notin missed =>
                  (e.ver = now[e.id] <=> Silent(OnItsWay, taken + 1, e.id))
             /\ \A x : NewestIn(Unheard', x) = 0 <=> Silent(OnItsWay, taken + 1, x)
             /\ OnItsWay' = OnItsWay /\ taken' = taken + 1 /\ taken' \in 0..Len(flight.batch)
             /\ UNCHANGED <<kilo, upId, plugin, daemonUp, life, crashes, phone>>
             /\ phase = "sent" /\ daemonUp /\ flight.as = life
<1> DEFINE b == flight.batch
           s == OnItsWay
           e == s[taken + 1]
<1>1. /\ queue \in Seq(Report) /\ b \in Seq(Report) /\ s = b \o queue /\ s \in Seq(Report)
      /\ taken \in 0..Len(b) /\ DOMAIN s = 1..Len(s) /\ Len(s) \in Nat
      /\ \A y \in Ids : now[y] \in Nat
      /\ \A y \in Ids \ missed : InOrder(s, y, now[y])
      /\ \A i \in DOMAIN s : s[i].id \in Ids /\ s[i].ver \in 1..now[s[i].id]
      /\ conv \in Seq(Entry) /\ convSeq \in Nat /\ IdsOnce(conv)
  BY InvFacts DEF OnItsWay
<1>2. /\ taken < Len(b) /\ taken' = taken + 1 /\ phase = "sent" /\ daemonUp /\ flight.as = life
      /\ UNCHANGED <<kilo, upId, plugin, daemonUp, life, crashes, phone>>
      /\ IngestPart(b[taken + 1]) \/ IngestAsked(b[taken + 1]) \/ IngestReplied(b[taken + 1])
  BY DEF Ingest
<1>3. s' = s
  BY <1>2 DEF OnItsWay, plugin
<1>4. Rested'
  <2>1. queue' = queue /\ flight' = flight
    BY <1>2 DEF plugin
  <2>2. taken' \in 0..Len(b)
    <3>1. Len(b) \in Nat
      BY <1>1, LenProperties
    <3> QED BY <1>1, <1>2, <3>1
  <2>3. \A i \in DOMAIN s : s[i].ver # 0
    BY <1>1
  <2> QED BY <1>1, <1>3, <2>1, <2>2, <2>3 DEF Rested
<1>5. \A x : NewestIn(Unheard', x) = 0 <=> Silent(s, taken + 1, x)
  <2>1. \A x : NewestIn(Unheard', x) = 0 <=> Silent(OnItsWay', taken', x)
    BY <1>4, UnheardNext
  <2> QED BY <1>2, <1>3, <2>1
<1> HIDE DEF b, s
<1>6. taken + 1 \in 1..Len(b) /\ taken + 1 \in DOMAIN s /\ e = b[taken + 1]
  <2>1. taken + 1 \in 1..Len(b)
    <3>1. Len(b) \in Nat
      BY <1>1, LenProperties
    <3> QED BY <1>1, <1>2, <3>1
  <2>2. \A i \in 1..Len(b) : i \in DOMAIN s /\ s[i] = b[i]
    BY <1>1, OneAfterTheOther
  <2> QED BY <2>1, <2>2
<1>7. e \in Report /\ e.id \in Ids
  BY <1>1, <1>6, ElementOfSeq, ReportType
<1>8. IngestPart(e) \/ IngestAsked(e) \/ IngestReplied(e)
  BY <1>2, <1>6
<1> HIDE DEF e
<1>9. Heeds(e)
  <2>1. /\ badge \in Requests \cup {NoRequest} /\ onRing \in Seq(Requests \cup {NoRequest})
        /\ asking \subseteq Requests /\ missed \subseteq Ids
    BY DEF ReportsInv, TranscriptTypeOK
  <2> QED BY <1>1, <1>7, <1>8, <2>1, ReportHeeded
<1>10. \A x : Silent(s, taken + 1, x) /\ x # e.id => Silent(s, taken, x)
  <2> SUFFICES ASSUME NEW x, Silent(s, taken + 1, x), x # e.id, NEW j \in DOMAIN s, j > taken
               PROVE  s[j].id # x
    BY DEF Silent
  <2>1. j = taken + 1 \/ j > taken + 1
    BY <1>1
  <2> QED BY <2>1 DEF Silent, e
<1>11. e.id \notin missed => (e.ver = now[e.id] <=> Silent(s, taken + 1, e.id))
  BY <1>1, <1>6, <1>7 DEF InOrder, Silent, e
<1>12. taken' \in 0..Len(b)
  BY <1>2, <1>6
<1>13. e.ver \in 1..now[e.id] /\ now[e.id] \in Nat
  BY <1>1, <1>6 DEF e
<1> QED BY <1>2, <1>3, <1>5, <1>7, <1>9, <1>10, <1>11, <1>12, <1>13 DEF s, b, e

(* The plugin's reports become what the daemon has heard.                  *)
LEMMA IngestKeeps ==
  ASSUME ReportsInv, Ingest
  PROVE  ReportsInv'
<1> DEFINE s == OnItsWay
           e == s[taken + 1]
<1>1. /\ Heeds(e) /\ e \in Report
      /\ \A x : Silent(s, taken + 1, x) /\ x # e.id => Silent(s, taken, x)
      /\ e.id \notin missed => (e.ver = now[e.id] <=> Silent(s, taken + 1, e.id))
      /\ \A x : NewestIn(Unheard', x) = 0 <=> Silent(s, taken + 1, x)
      /\ s' = s /\ taken' = taken + 1 /\ taken' \in 0..Len(flight.batch)
      /\ UNCHANGED <<kilo, upId, plugin, daemonUp, life, crashes, phone>>
      /\ phase = "sent" /\ daemonUp /\ flight.as = life
  BY IngestHeeds
<1>2. /\ \A y \in Ids \ missed : InOrder(s, y, now[y])
      /\ \A y \in Ids \ missed :
           Silent(s, taken, y) =>
             \/ NewestIn(conv, y) = now[y]
             \/ y \in Requests /\ now[y] = 2 /\ NewestIn(conv, y) # 1
  BY InvFacts
<1>3. now' = now /\ edits' = edits
  BY <1>1 DEF kilo
<1>4. HasHappened'
  BY <1>1, <1>3, Zenon DEF ReportsInv, HasHappened
<1> HIDE DEF e, s
<1>5. TranscriptTypeOK'
  <2>1. /\ conv' \in Seq([id : Ids, seq : Nat, ver : Version]) /\ convSeq' \in Nat
        /\ badge' \in Requests \cup {NoRequest} /\ onRing' \in Seq(Requests \cup {NoRequest})
        /\ missed' \subseteq Ids
        /\ \A r \in asking' : (r = e.id /\ e.ver = 1) \/ r \in asking
    BY <1>1 DEF Heeds, Entry
  <2>2. asking' \subseteq Requests
    BY <1>1 DEF Ingest, IngestPart, IngestAsked, IngestReplied, hub, ReportsInv, TranscriptTypeOK
  <2> QED BY <1>1, <2>1, <2>2 DEF ReportsInv, TranscriptTypeOK, kilo, plugin, phone
<1>6. OneEntryEach'
  <2>1. conv' \in Seq(Entry) /\ IdsOnce(conv')
    BY <1>1 DEF Heeds
  <2>2. DOMAIN conv' = 1..Len(conv')
    BY <2>1, LenProperties
  <2> QED BY <2>1, <2>2, Zenon DEF OneEntryEach, IdsOnce
<1>7. missed \subseteq missed'
  BY <1>1 DEF Heeds
<1>8. LastIsNewest'
  <2>1. \A y \in Ids \ missed' : InOrder(s, y, now[y])
    BY <1>2, <1>7
  <2> QED BY <1>1, <1>3, <2>1, OrderNext, Zenon DEF s
<1>9. HeardIsNewest'
  <2>1. ASSUME NEW y \in Ids \ missed', NewestIn(Unheard', y) = 0
        PROVE  \/ NewestIn(conv', y) = now[y]
               \/ y \in Requests /\ now[y] = 2 /\ NewestIn(conv', y) # 1
    <3>1. y \notin missed /\ Silent(s, taken + 1, y)
      BY <1>1, <1>7, <2>1
    <3>2. CASE y = e.id
      <4>1. e.ver = now[y]
        BY <1>1, <3>1, <3>2
      <4> QED BY <1>1, <2>1, <3>2, <4>1 DEF Heeds
    <3>3. CASE y # e.id
      <4>1. NewestIn(conv', y) = NewestIn(conv, y)
        BY <1>1, <2>1, <3>3 DEF Heeds
      <4> QED BY <1>1, <1>2, <3>1, <3>3, <4>1
    <3> QED BY <3>2, <3>3
  <2> QED BY <1>3, <2>1, HeardNext, Zenon
<1> QED BY <1>4, <1>5, <1>6, <1>8, <1>9 DEF ReportsInv

(* The hook, whatever it was called for.                                   *)
LEMMA EventKeeps ==
  ASSUME ReportsInv, NEW x \in Ids, NEW ver \in Version, event(x, ver),
         ver > now[x], x \in Parts => ver <= edits', x \in Requests => ver <= 2,
         edits' \in 0..MaxEdits, edits <= edits'
  PROVE  ReportsInv'
<1> DEFINE e == [id |-> x, ver |-> ver]
<1>1. /\ now' = [now EXCEPT ![x] = ver]
      /\ UNCHANGED <<upId, daemon, phone>>
      /\ (upId # 0 /\ report(e)) \/ (upId = 0 /\ missed' = missed \cup {x} /\ UNCHANGED plugin)
  BY DEF event
<1>2. PluginOK' /\ missed' \subseteq Ids
  <2>1. UNCHANGED <<upId, daemonUp, life, taken>> /\ missed \subseteq Ids
    BY <1>1 DEF daemon, ReportsInv, TranscriptTypeOK
  <2>2. CASE upId # 0 /\ report(e)
    <3>1. e \in Report
      BY DEF Report
    <3> HIDE DEF e
    <3>2. /\ PluginOK'
          /\ missed' = (missed \ ({e.id} \cap Parts))
                         \cup Lost(Append(queue, e), Enqueued(queue, e)) \cup Overtaken(queue, e)
      BY <2>1, <2>2, <3>1, ReportSteps
    <3>3. missed' \subseteq Ids
      BY <2>1, <3>2 DEF Lost, Overtaken, Ids
    <3> QED BY <3>2, <3>3
  <2>3. CASE upId = 0 /\ missed' = missed \cup {x} /\ UNCHANGED plugin
    BY <2>1, <2>3 DEF ReportsInv, TranscriptTypeOK, PluginOK, plugin
  <2> QED BY <1>1, <2>2, <2>3
<1>3. TranscriptTypeOK'
  <2>1. now' \in [Ids -> Version]
    BY <1>1 DEF ReportsInv, TranscriptTypeOK
  <2> QED BY <1>1, <1>2, <2>1 DEF ReportsInv, TranscriptTypeOK, PluginOK, daemon, hub, phone
<1>4. Heeded'
  <2>1. edits' \in Nat
    BY DEF ReportsInv, TranscriptTypeOK
  <2> QED BY <2>1, EventHeeded
<1> QED BY <1>3, <1>4 DEF Heeded, ReportsInv

(* A part's next text, and the two states of a request.                    *)
LEMMA KiloKeeps ==
  ASSUME ReportsInv,
         (\E p \in Parts : Edit(p)) \/ (\E r \in Requests : Ask(r) \/ Settle(r))
  PROVE  ReportsInv'
<1>1. /\ edits \in 0..MaxEdits /\ MaxEdits \in Nat /\ Version = 0..(MaxEdits + 2)
      /\ Parts \subseteq Ids /\ Requests \subseteq Ids /\ Parts \cap Requests = {}
  BY TranscriptAssumption DEF ReportsInv, TranscriptTypeOK, Version, Ids
<1>2. (\A y \in Ids : now[y] \in Nat) /\ (\A p \in Parts : now[p] <= edits)
  BY InvFacts DEF ReportsInv, HasHappened
<1>3. ASSUME NEW p \in Parts, Edit(p) PROVE ReportsInv'
  <2>1. edits < MaxEdits /\ edits' = edits + 1 /\ event(p, edits + 1)
    BY <1>3 DEF Edit
  <2>2. /\ p \in Ids /\ p \notin Requests /\ edits + 1 \in Version /\ edits + 1 > now[p]
        /\ edits + 1 <= edits' /\ edits' \in 0..MaxEdits /\ edits <= edits'
    BY <1>1, <1>2, <2>1
  <2> QED BY <2>1, <2>2, EventKeeps
<1>4. ASSUME NEW r \in Requests, Ask(r) PROVE ReportsInv'
  <2>1. now[r] = 0 /\ edits' = edits /\ event(r, 1)
    BY <1>4 DEF Ask
  <2>2. /\ r \in Ids /\ r \notin Parts /\ 1 \in Version /\ 1 > now[r] /\ 1 <= 2
        /\ edits' \in 0..MaxEdits /\ edits <= edits'
    BY <1>1, <2>1
  <2> QED BY <2>1, <2>2, EventKeeps
<1>5. ASSUME NEW r \in Requests, Settle(r) PROVE ReportsInv'
  <2>1. now[r] = 1 /\ edits' = edits /\ event(r, 2)
    BY <1>5 DEF Settle
  <2>2. /\ r \in Ids /\ r \notin Parts /\ 2 \in Version /\ 2 > now[r] /\ 2 <= 2
        /\ edits' \in 0..MaxEdits /\ edits <= edits'
    BY <1>1, <2>1
  <2> QED BY <2>1, <2>2, EventKeeps
<1> QED BY <1>3, <1>4, <1>5

(* The 400 of the POST, and its failure: what is left of the batch.        *)
LEMMA FlightLost ==
  ASSUME ReportsInv, Refused \/ FlushFails
  PROVE  /\ flight' = NoFlight /\ phase' = "settling" /\ taken = 0 /\ taken' = 0
         /\ UNCHANGED <<kilo, upId, daemon, phone>>
         /\ missed' = missed \cup Lost(OnItsWay, queue')
         /\ queue' \in Seq(Report) /\ Len(queue') <= QueueMax
         /\ \A x \in Ids : Kept(queue', OnItsWay, x)
<1>1. /\ queue \in Seq(Report) /\ Len(queue) <= QueueMax /\ flight.batch \in Seq(Report)
      /\ OnItsWay = flight.batch \o queue
  BY InvFacts DEF OnItsWay
<1>2. /\ flight' = NoFlight /\ phase' = "settling"
      /\ UNCHANGED <<kilo, upId, daemon, phone>>
      /\ missed' = missed \cup Lost(OnItsWay, queue')
      /\ queue' = queue \/ queue' = Requeued(flight.batch, queue)
  BY <1>1 DEF Refused, FlushFails
<1>3. /\ queue' \in Seq(Report) /\ Len(queue') <= QueueMax
      /\ \A x \in Ids : Kept(queue', OnItsWay, x)
  <2>1. CASE queue' = Requeued(flight.batch, queue)
    <3> DEFINE b == flight.batch
    <3>1. b \in Seq(Report) /\ queue' = Requeued(b, queue) /\ OnItsWay = b \o queue
      BY <1>1, <2>1
    <3> HIDE DEF b
    <3>2. /\ Requeued(b, queue) \in Seq(Report) /\ Len(Requeued(b, queue)) <= QueueMax
          /\ \A x \in Ids : Kept(Requeued(b, queue), b \o queue, x)
      BY <1>1, <3>1, RequeuedProperties
    <3> QED BY <3>1, <3>2
  <2>2. CASE queue' = queue
    <3> DEFINE b == flight.batch
               s == b \o queue
               h == [k \in DOMAIN queue |-> Len(b) + k]
    <3>1. b \in Seq(Report)
      BY <1>1
    <3> HIDE DEF b
    <3>2. /\ DOMAIN queue = 1..Len(queue) /\ Len(b) \in Nat /\ Len(queue) \in Nat
          /\ \A i \in 1..Len(queue) : Len(b) + i \in DOMAIN s /\ s[Len(b) + i] = queue[i]
      BY <1>1, <3>1, OneAfterTheOther
    <3> HIDE DEF s
    <3>3. h \in [DOMAIN queue -> Int] /\ \A k \in DOMAIN queue : h[k] = Len(b) + k
      BY <3>2
    <3> HIDE DEF h
    <3>4. ASSUME NEW x PROVE Kept(queue, s, x)
      <4>1. \A k \in DOMAIN queue : h[k] \in DOMAIN s /\ queue[k] = s[h[k]]
        BY <3>2, <3>3
      <4>2. \A k, l \in DOMAIN queue : k < l => h[k] < h[l]
        BY <3>2, <3>3
      <4> QED BY <3>3, <4>1, <4>2 DEF Kept
    <3>5. s = OnItsWay
      BY <1>1 DEF s, b
    <3> QED BY <1>1, <2>2, <3>4, <3>5
  <2> QED BY <1>2, <2>1, <2>2
<1>4. taken = 0 /\ taken' = 0
  <2>1. flight.as <= flight.on /\ flight.on <= life /\ life \in Nat /\ flight \in Flight
    BY DEF ReportsInv, TranscriptTypeOK
  <2>2. taken # 0 => daemonUp /\ flight.as = life
    BY DEF ReportsInv, TranscriptTypeOK
  <2>3. flight.as = life => flight.on = life
    BY <2>1 DEF Flight
  <2>4. ~(daemonUp /\ flight.as = life)
    BY <2>3 DEF Refused, FlushFails
  <2> QED BY <1>2, <2>2, <2>4 DEF daemon
<1> QED BY <1>2, <1>3, <1>4

(* The batch that is lost.                                                 *)
LEMMA FlightLostKeeps ==
  ASSUME ReportsInv, Refused \/ FlushFails
  PROVE  ReportsInv'
<1>1. /\ flight' = NoFlight /\ phase' = "settling" /\ taken = 0 /\ taken' = 0
      /\ UNCHANGED <<kilo, upId, daemon, phone>>
      /\ missed' = missed \cup Lost(OnItsWay, queue')
      /\ queue' \in Seq(Report) /\ Len(queue') <= QueueMax
      /\ \A x \in Ids : Kept(queue', OnItsWay, x)
  BY FlightLost
<1>2. Heeded'
  <2>1. UNCHANGED <<now, edits, conv>>
    BY <1>1 DEF kilo, daemon, hub
  <2> QED BY <1>1, <2>1, BatchLost
<1>3. TranscriptTypeOK'
  <2>1. life \in Nat /\ missed' \subseteq Ids
    BY <1>1 DEF ReportsInv, TranscriptTypeOK, Lost
  <2> QED BY <1>1, <2>1, NoBatch DEF ReportsInv, TranscriptTypeOK, kilo, daemon, hub, phone
<1> QED BY <1>2, <1>3 DEF Heeded, ReportsInv

(* The finally: what is queued leaves, and nothing else was on its way.    *)
LEMMA FinallySends ==
  ASSUME ReportsInv, Finally
  PROVE  /\ UNCHANGED <<kilo, upId, daemon, phone, missed>> /\ PluginOK'
         /\ OnItsWay' = OnItsWay /\ Unheard' = Unheard
<1>1. /\ phase = "settling" /\ UNCHANGED <<kilo, upId, daemon, phone, missed>>
      /\ \/ queue = <<>> /\ phase' = "idle" /\ UNCHANGED <<queue, flight>>
         \/ queue # <<>> /\ Send(queue)
  BY DEF Finally
<1>2. PluginOK /\ UNCHANGED <<upId, daemonUp, life, taken>>
  BY <1>1 DEF ReportsInv, TranscriptTypeOK, PluginOK, daemon
<1>3. CASE queue = <<>> /\ phase' = "idle" /\ UNCHANGED <<queue, flight>>
  <2>1. OnItsWay' = OnItsWay /\ Unheard' = Unheard
    BY <1>2, <1>3 DEF OnItsWay, Unheard
  <2>2. PluginOK'
    BY <1>1, <1>2, <1>3 DEF PluginOK
  <2> QED BY <1>1, <2>1, <2>2
<1>4. CASE queue # <<>> /\ Send(queue)
  <2>1. queue \in Seq(Report) /\ Len(queue) <= QueueMax
    BY <1>2 DEF PluginOK
  <2>2. OnItsWay' = queue /\ Unheard' = queue /\ PluginOK' /\ taken = 0
    BY <1>1, <1>2, <1>4, <2>1, SendSteps
  <2>3. flight.batch = <<>>
    BY <1>1, <1>2, NoBatch DEF PluginOK
  <2>4. OnItsWay = queue /\ Unheard = queue
    <3>1. OnItsWay = queue
      BY <2>1, <2>3, NoBatch DEF OnItsWay
    <3> QED BY <2>2, <2>3, <3>1, NoBatch, NoneTaken
  <2> QED BY <1>1, <2>2, <2>4
<1> QED BY <1>1, <1>3, <1>4

(* What is sent stays on its way.                                          *)
LEMMA FinallyKeeps ==
  ASSUME ReportsInv, Finally
  PROVE  ReportsInv'
<1>1. /\ UNCHANGED <<kilo, upId, daemon, phone, missed>> /\ PluginOK'
      /\ OnItsWay' = OnItsWay /\ Unheard' = Unheard
  BY FinallySends
<1>2. Heeded'
  <2>1. UNCHANGED <<now, edits, conv, missed>>
    BY <1>1 DEF kilo, daemon, hub
  <2> QED BY <1>1, <2>1, SameOnItsWay
<1>3. TranscriptTypeOK'
  BY <1>1 DEF ReportsInv, TranscriptTypeOK, PluginOK, kilo, daemon, hub, phone
<1> QED BY <1>2, <1>3 DEF Heeded, ReportsInv

(* Another session's envelope pushes prompts off the ring.                 *)
LEMMA OthersKeep ==
  ASSUME ReportsInv, OthersPublish
  PROVE  TranscriptTypeOK'
<1>1. /\ onRing \in Seq(Requests \cup {NoRequest}) /\ publishLocked(NoRequest)
      /\ asking' = asking \ Fallen
      /\ UNCHANGED <<kilo, upId, plugin, daemonUp, life, crashes, conv, convSeq, badge, taken,
                     phone, missed>>
  BY DEF OthersPublish, ReportsInv, TranscriptTypeOK
<1>2. onRing' \in Seq(Requests \cup {NoRequest})
  BY <1>1, RingStaysRing
<1>3. asking' \subseteq Requests
  BY <1>1 DEF ReportsInv, TranscriptTypeOK
<1> QED BY <1>1, <1>2, <1>3 DEF ReportsInv, TranscriptTypeOK, kilo, plugin, phone

(* Registrations, a start of the daemon, other sessions, and the view that *)
(* comes and goes.                                                         *)
LEMMA AsideKeeps ==
  ASSUME ReportsInv,
         Downlink \/ Start \/ OthersPublish \/ OpenView \/ SessionGone \/ UNCHANGED transcriptVars
  PROVE  ReportsInv' /\ OnItsWay' = OnItsWay /\ Unheard' = Unheard
<1>1. /\ UNCHANGED <<now, edits, conv, missed>> /\ OnItsWay' = OnItsWay /\ Unheard' = Unheard
  <2>1. UNCHANGED <<now, edits, conv, missed>> /\ UNCHANGED <<flight, queue, taken>>
    BY DEF Downlink, Forget, hello, Start, OthersPublish, OpenView, SessionGone, transcriptVars,
           kilo, plugin, daemon, hub, phone
  <2> QED BY <2>1 DEF OnItsWay, Unheard
<1>2. Heeded'
  BY <1>1, SameOnItsWay
<1>3. TranscriptTypeOK'
  <2>1. CASE Downlink
    BY <2>1 DEF Downlink, Forget, hello, ReportsInv, TranscriptTypeOK,
                kilo, plugin, daemon, hub, phone
  <2>2. CASE Start
    <3>1. taken = 0 /\ upId \in 0..(life + 1) /\ flight.on <= life + 1
      BY <2>2 DEF Start, ReportsInv, TranscriptTypeOK, Flight
    <3> QED BY <2>2, <3>1 DEF Start, ReportsInv, TranscriptTypeOK, kilo, plugin, hub, phone
  <2>3. CASE OthersPublish
    BY <2>3, OthersKeep
  <2>4. CASE OpenView
    <3>1. Blank \in [Parts -> Version]
      BY ReportType DEF Blank
    <3>2. views' \in 0..MaxViews
      BY <2>4, TranscriptAssumption DEF OpenView, ReportsInv, TranscriptTypeOK
    <3> QED BY <2>4, <3>1, <3>2
          DEF OpenView, ReportsInv, TranscriptTypeOK, kilo, plugin, daemon, hub
  <2>5. CASE SessionGone
    BY <2>5 DEF SessionGone, ReportsInv, TranscriptTypeOK, kilo, plugin, daemon, hub
  <2>6. CASE UNCHANGED transcriptVars
    BY <2>6 DEF transcriptVars, ReportsInv, TranscriptTypeOK, kilo, plugin, daemon, hub, phone
  <2> QED BY <2>1, <2>2, <2>3, <2>4, <2>5, <2>6
<1> QED BY <1>1, <1>2, <1>3 DEF Heeded, ReportsInv

(* The end of a conversation: what it knew better than what is still to    *)
(* come, and the prompts that it or the screen shows, are missed.          *)
Ends ==
  /\ conv' = <<>> /\ convSeq' = 0 /\ badge' = NoRequest /\ UNCHANGED now
  /\ UNCHANGED <<view, panel, viewCursor, skipped>>
  /\ from' = Outlives
  /\ missed \subseteq missed' /\ missed' \subseteq Ids /\ Orphans \subseteq missed'
  /\ asking' \subseteq asking
  /\ \A x \in Ids \ missed' : NewestIn(Unheard', x) = 0 => NewestIn(conv, x) = 0
  /\ \A x : NewestIn(Unheard', x) = 0 => NewestIn(Unheard, x) = 0
  /\ OnItsWay' = OnItsWay

(* What is missed then is enough.                                          *)
LEMMA EndsHeeded ==
  ASSUME ReportsInv, Ends, UNCHANGED edits
  PROVE  Heeded'
<1>1. HasHappened'
  BY Zenon DEF ReportsInv, HasHappened, Ends
<1>2. OneEntryEach'
  BY DEF OneEntryEach, Ends
<1>3. LastIsNewest'
  <2>1. \A y \in Ids \ missed' : InOrder(OnItsWay, y, now[y])
    BY InvFacts DEF Ends
  <2>2. OnItsWay' = OnItsWay /\ now' = now
    BY DEF Ends
  <2> QED BY <2>1, <2>2, OrderNext, Zenon
<1>4. HeardIsNewest'
  <2>1. ASSUME NEW y \in Ids \ missed', NewestIn(Unheard', y) = 0
        PROVE  \/ NewestIn(<<>>, y) = now[y]
               \/ y \in Requests /\ now[y] = 2 /\ NewestIn(<<>>, y) # 1
    <3>1. NewestIn(<<>>, y) = 0
      BY NewestOfNone
    <3>2. NewestIn(conv, y) = 0 /\ NewestIn(Unheard, y) = 0 /\ y \in Ids \ missed
      BY <2>1 DEF Ends
    <3>3. NewestIn(conv, y) = now[y] \/ (y \in Requests /\ now[y] = 2)
      BY <3>2 DEF ReportsInv, HeardIsNewest, Heard
    <3> QED BY <3>1, <3>2, <3>3
  <2>2. conv' = <<>> /\ now' = now
    BY DEF Ends
  <2> QED BY <2>1, <2>2, HeardNext, Zenon
<1> QED BY <1>1, <1>2, <1>3, <1>4 DEF Heeded

(* What is newer than nothing was lost.                                    *)
LEMMA LostOfConv ==
  ASSUME ReportsInv, NEW u, NEW x \in Ids \ Lost(conv, u), NewestIn(u, x) = 0
  PROVE  NewestIn(conv, x) = 0
<1>1. \A i \in DOMAIN conv : conv[i].ver \in Version
  <2>1. \A d \in Entry : d.ver \in Version
    BY DEF Entry
  <2> QED BY <2>1, InvFacts, VersionsOf
<1>2. NewestIn(conv, x) \in Nat
  BY <1>1, NewestProperties
<1>3. ~(NewestIn(conv, x) > NewestIn(u, x))
  BY DEF Lost
<1> QED BY <1>2, <1>3

(* A crash: the request that was under way will be told of again.          *)
LEMMA CrashEnds ==
  ASSUME ReportsInv, Crash
  PROVE  Ends /\ TranscriptTypeOK'
<1>1. /\ daemonUp' = FALSE /\ crashes < MaxCrashes /\ crashes' = crashes + 1
      /\ conv' = <<>> /\ convSeq' = 0 /\ badge' = NoRequest /\ asking' = {} /\ onRing' = <<>>
      /\ taken' = 0 /\ from' = Outlives
      /\ missed' = missed \cup Lost(conv, OnItsWay) \cup Orphans
      /\ UNCHANGED <<kilo, upId, plugin, life, open, views, view, panel, viewCursor, skipped>>
  BY DEF Crash, OnItsWay
<1>2. OnItsWay' = OnItsWay
  BY <1>1 DEF OnItsWay, plugin
<1>3. /\ queue \in Seq(Report) /\ flight.batch \in Seq(Report) /\ Len(flight.batch) \in Nat
      /\ \A i \in DOMAIN OnItsWay : OnItsWay[i].ver \in 1..now[OnItsWay[i].id]
      /\ DOMAIN OnItsWay = 1..Len(OnItsWay) /\ Len(OnItsWay) \in Nat /\ taken \in Nat
      /\ \A x : NewestIn(Unheard, x) = 0 <=> Silent(OnItsWay, taken, x)
  BY InvFacts, LenProperties
<1>4. Unheard' = OnItsWay
  <2>1. queue' = queue /\ flight' = flight
    BY <1>1 DEF plugin
  <2>2. SubSeq(flight.batch, 0 + 1, Len(flight.batch)) = flight.batch
    <3>1. 0 + 1 = 1
      OBVIOUS
    <3> QED BY <1>3, <3>1, NoBatch
  <2>3. Unheard' = SubSeq(flight.batch, 0 + 1, Len(flight.batch)) \o queue
    BY <1>1, <2>1 DEF Unheard
  <2> QED BY <2>2, <2>3 DEF OnItsWay
<1>5. \A x : NewestIn(Unheard', x) = 0 => NewestIn(Unheard, x) = 0
  <2>1. Rested'
    <3>1. queue' = queue /\ flight' = flight /\ taken' \in 0..Len(flight.batch)
      BY <1>1, <1>3 DEF plugin
    <3>2. \A i \in DOMAIN OnItsWay : OnItsWay[i].ver # 0
      BY <1>3
    <3> QED BY <1>2, <1>3, <3>1, <3>2 DEF Rested
  <2>2. \A x : NewestIn(Unheard', x) = 0 <=> Silent(OnItsWay', taken', x)
    BY <2>1, UnheardNext
  <2>3. \A x : NewestIn(Unheard', x) = 0 <=> Silent(OnItsWay, 0, x)
    BY <1>1, <1>2, <2>2
  <2>4. \A x : Silent(OnItsWay, 0, x) => Silent(OnItsWay, taken, x)
    <3> HIDE DEF OnItsWay
    <3> QED BY <1>3 DEF Silent
  <2> QED BY <1>3, <2>3, <2>4
<1>6. missed \subseteq missed' /\ missed' \subseteq Ids /\ Orphans \subseteq missed'
  BY <1>1 DEF ReportsInv, TranscriptTypeOK, Lost, Orphans, Ids
<1>7. \A x \in Ids \ missed' : NewestIn(Unheard', x) = 0 => NewestIn(conv, x) = 0
  <2> SUFFICES ASSUME NEW x \in Ids \ missed', NewestIn(OnItsWay, x) = 0 PROVE NewestIn(conv, x) = 0
    BY <1>4
  <2>1. x \in Ids \ Lost(conv, OnItsWay)
    BY <1>1
  <2> QED BY <2>1, LostOfConv
<1>8. Ends
  BY <1>1, <1>2, <1>5, <1>6, <1>7, Zenon DEF Ends, kilo
<1>9. TranscriptTypeOK'
  <2>1. crashes' \in 0..MaxCrashes
    BY <1>1, TranscriptAssumption DEF ReportsInv, TranscriptTypeOK
  <2>2. from' \in {"none", "this", "earlier"}
    BY <1>1 DEF Outlives, ReportsInv, TranscriptTypeOK
  <2>3. /\ taken' \in 0..Len(flight'.batch) /\ flight' = flight
        /\ conv' \in Seq([id : Ids, seq : Nat, ver : Version])
        /\ onRing' \in Seq(Requests \cup {NoRequest})
    BY <1>1, <1>3 DEF plugin
  <2>4. /\ convSeq' \in Nat /\ badge' \in Requests \cup {NoRequest} /\ asking' \subseteq Requests
        /\ daemonUp' \in BOOLEAN /\ ~(taken' # 0)
    BY <1>1
  <2>5. /\ now' = now /\ edits' = edits /\ upId' = upId /\ life' = life
        /\ queue' = queue /\ phase' = phase
        /\ UNCHANGED <<open, views, view, panel, viewCursor, skipped>>
    BY <1>1 DEF kilo, plugin
  <2> HIDE DEF NoFlight
  <2> QED BY <1>6, <2>1, <2>2, <2>3, <2>4, <2>5 DEF ReportsInv, TranscriptTypeOK
<1> QED BY <1>8, <1>9

(* An eviction: the rest of the request under way begins a new one.        *)
LEMMA EvictedEnds ==
  ASSUME ReportsInv, Evicted
  PROVE  Ends /\ TranscriptTypeOK'
<1>1. /\ badge = NoRequest /\ conv' = <<>> /\ convSeq' = 0 /\ from' = Outlives
      /\ missed' = missed \cup Lost(conv, Unheard) \cup Orphans
      /\ UNCHANGED <<kilo, upId, plugin, daemonUp, life, crashes, badge, asking, onRing, taken,
                     open, views, view, panel, viewCursor, skipped>>
  BY DEF Evicted
<1>2. OnItsWay' = OnItsWay /\ Unheard' = Unheard
  BY <1>1 DEF OnItsWay, Unheard, plugin
<1>3. missed \subseteq missed' /\ missed' \subseteq Ids /\ Orphans \subseteq missed'
  BY <1>1 DEF ReportsInv, TranscriptTypeOK, Lost, Orphans, Ids
<1>4. \A x \in Ids \ missed' : NewestIn(Unheard', x) = 0 => NewestIn(conv, x) = 0
  <2> SUFFICES ASSUME NEW x \in Ids \ missed', NewestIn(Unheard, x) = 0 PROVE NewestIn(conv, x) = 0
    BY <1>2
  <2>1. x \in Ids \ Lost(conv, Unheard)
    BY <1>1
  <2> QED BY <2>1, LostOfConv
<1>5. \A x : NewestIn(Unheard', x) = 0 => NewestIn(Unheard, x) = 0
  BY <1>2, Zenon
<1>6. Ends
  BY <1>1, <1>2, <1>3, <1>4, <1>5, Zenon DEF Ends, kilo
<1>7. TranscriptTypeOK'
  <2>1. from' \in {"none", "this", "earlier"}
    BY <1>1 DEF Outlives, ReportsInv, TranscriptTypeOK
  <2> QED BY <1>1, <1>3, <2>1 DEF ReportsInv, TranscriptTypeOK, kilo, plugin
<1> QED BY <1>6, <1>7

(* Both ends of a conversation.                                            *)
LEMMA EndKeeps ==
  ASSUME ReportsInv, Crash \/ Evicted
  PROVE  ReportsInv' /\ Ends
<1>1. Ends /\ TranscriptTypeOK'
  BY CrashEnds, EvictedEnds
<1>2. UNCHANGED edits
  BY DEF Crash, Evicted, kilo
<1>3. Heeded'
  BY <1>1, <1>2, EndsHeeded
<1> QED BY <1>1, <1>3 DEF Heeded, ReportsInv

(* An answer of the conversation's long-poll.                              *)
LEMMA ReadKeeps ==
  ASSUME ReportsInv, Read
  PROVE  ReportsInv'
<1> DEFINE events == EventsAfter(conv, viewCursor)
<1>1. /\ view' = Rendered(events).view /\ panel' = Rendered(events).panel
      /\ skipped' = (skipped \cup PassedOver) \ {events[i].id : i \in DOMAIN events}
      /\ viewCursor' = convSeq /\ from' = "this"
      /\ UNCHANGED <<kilo, upId, plugin, daemon, open, views, missed>>
  BY DEF Read
<1>2. /\ conv \in Seq(Entry)
      /\ view \in [Parts -> Version] /\ panel \in Requests \cup {NoRequest}
  BY InvFacts DEF ReportsInv, TranscriptTypeOK
<1>3. events \in Seq(Entry) /\ IdsOnce(events)
  <2>1. conv \in Seq(Entry) /\ IdsOnce(conv)
    BY InvFacts
  <2> QED BY <2>1, AnswerProperties
<1> HIDE DEF events
<1>4. Rendered(events) \in Screen
  BY <1>2, <1>3, RenderedProperties
<1>5. view' \in [Parts -> Version] /\ panel' \in Requests \cup {NoRequest}
  BY <1>1, <1>4 DEF Screen
<1>6. PassedOver \subseteq Ids
  <2>1. \A i \in DOMAIN conv : conv[i].id \in Ids
    <3>1. \A d \in Entry : d.id \in Ids
      BY DEF Entry
    <3>2. \A i \in DOMAIN conv : conv[i] \in Entry
      BY <1>2, LenProperties, ElementOfSeq
    <3> QED BY <3>1, <3>2
  <2> QED BY <2>1 DEF PassedOver
<1>7. TranscriptTypeOK'
  <2>1. skipped' \subseteq Ids
    BY <1>1, <1>6 DEF ReportsInv, TranscriptTypeOK
  <2> QED BY <1>1, <1>5, <2>1 DEF ReportsInv, TranscriptTypeOK, kilo, plugin, daemon, hub
<1>8. Heeded'
  <2>1. UNCHANGED <<now, edits, conv, missed>> /\ UNCHANGED <<flight, queue, taken>>
    BY <1>1 DEF kilo, plugin, daemon, hub
  <2>2. OnItsWay' = OnItsWay /\ Unheard' = Unheard
    BY <2>1 DEF OnItsWay, Unheard
  <2> QED BY <2>1, <2>2, SameOnItsWay
<1> QED BY <1>7, <1>8 DEF Heeded, ReportsInv

(* Nothing has happened at first.                                          *)
LEMMA TranscriptAtFirst ==
  ASSUME TranscriptInit
  PROVE  ReportsInv
<1>1. TranscriptTypeOK
  <2>1. 0 \in Version /\ NoFlight \in Flight /\ Len(<<>>) <= QueueMax
    BY NoBatch, ReportType
  <2>2. /\ now \in [Ids -> Version] /\ edits \in 0..MaxEdits /\ view \in [Parts -> Version]
        /\ crashes \in 0..MaxCrashes /\ views \in 0..MaxViews
    BY <2>1, TranscriptAssumption DEF TranscriptInit, Blank
  <2>3. /\ upId \in 0..life /\ life \in Nat /\ from \in {"none", "this", "earlier"} /\ viewCursor \in Nat
        /\ convSeq \in Nat /\ conv \in Seq([id : Ids, seq : Nat, ver : Version])
        /\ panel \in Requests \cup {NoRequest} /\ missed \subseteq Ids /\ skipped \subseteq Ids
        /\ badge \in Requests \cup {NoRequest} /\ asking \subseteq Requests
        /\ onRing \in Seq(Requests \cup {NoRequest})
    BY DEF TranscriptInit
  <2>4. /\ queue \in Seq(Report) /\ Len(queue) <= QueueMax /\ flight \in Flight
        /\ phase \in {"idle", "sent", "settling"} /\ (phase = "idle" => queue = <<>>)
        /\ (phase # "sent" => flight = NoFlight)
        /\ flight.as <= flight.on /\ flight.on <= life
        /\ taken = 0 /\ taken \in 0..Len(flight.batch)
    BY <2>1, NoBatch DEF TranscriptInit
  <2>5. daemonUp \in BOOLEAN /\ open \in BOOLEAN
    BY DEF TranscriptInit
  <2> QED BY <2>2, <2>3, <2>4, <2>5 DEF TranscriptTypeOK
<1>2. OnItsWay = <<>>
  <2>1. flight.batch = <<>> /\ queue = <<>>
    BY DEF TranscriptInit, NoFlight
  <2>2. <<>> \o <<>> = <<>>
    OBVIOUS
  <2> QED BY <2>1, <2>2 DEF OnItsWay
<1>3. DOMAIN OnItsWay = {}
  BY <1>2
<1>4. HasHappened
  <2>1. \A x \in Ids : now[x] = 0
    BY DEF TranscriptInit
  <2> QED BY <1>3, <2>1 DEF HasHappened, TranscriptInit, Ids
<1>5. OneEntryEach
  BY DEF TranscriptInit, OneEntryEach
<1>6. LastIsNewest
  BY <1>3 DEF LastIsNewest
<1>7. HeardIsNewest
  <2>1. \A x : NewestIn(<<>>, x) = 0
    BY NewestOfNone
  <2> QED BY <2>1 DEF TranscriptInit, HeardIsNewest, Heard
<1> QED BY <1>1, <1>4, <1>5, <1>6, <1>7 DEF ReportsInv

(* Every step.                                                             *)
LEMMA ReportsStep ==
  ASSUME ReportsInv, [TranscriptNext]_transcriptVars
  PROVE  ReportsInv'
<1>1. CASE (\E p \in Parts : Edit(p)) \/ (\E r \in Requests : Ask(r) \/ Settle(r))
  BY <1>1, KiloKeeps
<1>2. CASE Ingest \/ Accepted
  BY <1>2, IngestKeeps, AcceptedKeeps
<1>3. CASE Refused \/ FlushFails
  BY <1>3, FlightLostKeeps
<1>4. CASE Finally
  BY <1>4, FinallyKeeps
<1>5. CASE Crash \/ Evicted
  BY <1>5, EndKeeps
<1>6. CASE Read
  BY <1>6, ReadKeeps
<1>7. CASE Downlink \/ Start \/ OthersPublish \/ OpenView \/ SessionGone \/ UNCHANGED transcriptVars
  BY <1>7, AsideKeeps
<1> QED BY <1>1, <1>2, <1>3, <1>4, <1>5, <1>6, <1>7 DEF TranscriptNext, Flush, ViewLoop

--------------------------------------------------------------------------------
(* What has left the daemon is on the phone.                               *)

(* What the rest of the invariant says, in the terms of its proof.         *)
LEMMA ViewFacts ==
  ASSUME TranscriptInv
  PROVE  /\ ReportsInv
         /\ conv \in Seq(Entry) /\ convSeq \in Nat /\ IdsOnce(conv) /\ DOMAIN conv = 1..Len(conv)
         /\ \A i \in DOMAIN conv :
              /\ conv[i].id \in Ids /\ conv[i].ver \in Version /\ conv[i].ver \in Nat
              /\ conv[i].seq \in 1..convSeq /\ conv[i].ver \in 1..now[conv[i].id]
         /\ \A x \in Ids : now[x] \in Nat
         /\ \A r \in Requests : r \in Ids /\ r \notin Parts /\ r # NoRequest /\ now[r] <= 2
         /\ viewCursor \in Nat /\ from \in {"none", "this", "earlier"}
         /\ view \in [Parts -> Version] /\ panel \in Requests \cup {NoRequest}
         /\ \A x : Heard(x) \in Nat
         /\ \A r \in Ids : Heard(r) # 0 =>
              \E i \in DOMAIN conv : conv[i].id = r /\ conv[i].ver = Heard(r)
         /\ \A i \in DOMAIN conv : Heard(conv[i].id) = conv[i].ver
<1>1. ReportsInv
  BY DEF TranscriptInv
<1>2. conv \in Seq(Entry) /\ convSeq \in Nat /\ IdsOnce(conv) /\ \A x \in Ids : now[x] \in Nat
  BY <1>1, InvFacts
<1>3. DOMAIN conv = 1..Len(conv) /\ \A i \in DOMAIN conv : conv[i] \in Entry
  BY <1>2, LenProperties, ElementOfSeq
<1>4. \A i \in DOMAIN conv : conv[i].id \in Ids /\ conv[i].ver \in Version /\ conv[i].ver \in Nat
  BY <1>3, ReportType DEF Entry
<1>5. \A i \in DOMAIN conv : conv[i].seq \in 1..convSeq /\ conv[i].ver \in 1..now[conv[i].id]
  BY DEF TranscriptInv, ConvIsTrue
<1>6. \A r \in Requests : r \in Ids /\ r \notin Parts /\ r # NoRequest /\ now[r] <= 2
  BY <1>1, TranscriptAssumption DEF ReportsInv, HasHappened, Ids
<1>7. /\ viewCursor \in Nat /\ from \in {"none", "this", "earlier"}
      /\ view \in [Parts -> Version] /\ panel \in Requests \cup {NoRequest}
  BY <1>1 DEF ReportsInv, TranscriptTypeOK
<1>8. \A x : Heard(x) \in Nat /\
             (Heard(x) = 0 \/ \E i \in DOMAIN conv : conv[i].id = x /\ conv[i].ver = Heard(x))
  BY <1>4, NewestProperties DEF Heard
<1>9. ASSUME NEW i \in DOMAIN conv PROVE Heard(conv[i].id) = conv[i].ver
  <2>1. \A j \in DOMAIN conv : conv[j].id = conv[i].id => j = i
    BY <1>2, <1>3 DEF IdsOnce
  <2> QED BY <1>4, <2>1, NewestOfOne DEF Heard
<1> QED BY <1>1, <1>2, <1>3, <1>4, <1>5, <1>6, <1>7, <1>8, <1>9

(* The invariant of the next state, in the variables' next values.         *)
LEMMA ConvNext ==
  ConvIsTrue' <=>
    /\ \A i \in DOMAIN conv' :
         conv'[i].seq \in 1..convSeq' /\ conv'[i].ver \in 1..now'[conv'[i].id]
    /\ ~daemonUp' => conv' = <<>> /\ asking' = {} /\ from' # "this"
    /\ daemonUp' => life' # 0
  BY DEF ConvIsTrue

(* What is to come of settled requests, in the next values.                *)
LEMMA SettledNext ==
  SettledIsLast' <=>
    /\ \A r \in Requests \ missed' : NewestIn(conv', r) = 2 => NewestIn(Unheard', r) = 0
    /\ \A r \in asking' \ missed' : NewestIn(conv', r) = 1
  BY DEF SettledIsLast, Heard, NewestIn

(* The entry e is on a screen with the texts v and the panel p.            *)
ShownOn(v, p, e) == IF e.id \in Parts THEN v[e.id] = e.ver ELSE e.ver = 2 => p # e.id

(* The truth of the view, in the next values.                              *)
LEMMA ViewNext ==
  ViewIsTrue' <=>
    /\ from' = "none" => viewCursor' = 0
    /\ from' = "this" => viewCursor' <= convSeq'
    /\ \A i \in DOMAIN conv' :
         from' = "this" /\ conv'[i].seq <= viewCursor' /\ conv'[i].id \notin skipped' =>
           ShownOn(view', panel', conv'[i])
    /\ \A p \in Parts : view'[p] <= now'[p]
    /\ panel' \in Requests \ missed' => NewestIn(conv', panel') # 0
  BY DEF ViewIsTrue, Shows, isChatter, ShownOn, Heard, NewestIn

(* The view of this state, in the same terms.                              *)
LEMMA ViewShown ==
  ViewIsTrue <=>
    /\ from = "none" => viewCursor = 0
    /\ from = "this" => viewCursor <= convSeq
    /\ \A i \in DOMAIN conv :
         from = "this" /\ conv[i].seq <= viewCursor /\ conv[i].id \notin skipped =>
           ShownOn(view, panel, conv[i])
    /\ \A p \in Parts : view[p] <= now[p]
    /\ panel \in Requests \ missed => NewestIn(conv, panel) # 0
  BY DEF ViewIsTrue, Shows, isChatter, ShownOn, Heard, NewestIn

(* A step of which neither conversation nor view take notice, after which  *)
(* there is nothing new to come about a settled request.                   *)
LEMMA QuietStep ==
  ASSUME TranscriptInv, ReportsInv', UNCHANGED <<conv, convSeq, daemonUp, life>>,
         UNCHANGED <<view, panel, viewCursor, from, skipped>>, asking' \subseteq asking,
         \A x \in Ids : now[x] <= now'[x],
         Requests \ missed' \subseteq Requests \ missed,
         \A r \in Requests \ missed' :
           Heard(r) = 2 /\ NewestIn(Unheard, r) = 0 => NewestIn(Unheard', r) = 0
  PROVE  TranscriptInv'
<1>1. /\ \A i \in DOMAIN conv : conv[i].id \in Ids /\ conv[i].ver \in Nat
      /\ \A x \in Ids : now[x] \in Nat
      /\ ReportsInv
  BY ViewFacts
<1>2. \A x \in Ids : now'[x] \in Nat
  <2>1. now' \in [Ids -> Version]
    BY DEF ReportsInv, TranscriptTypeOK
  <2> QED BY <2>1, ReportType
<1>3. ConvIsTrue'
  <2>1. /\ \A i \in DOMAIN conv : conv[i].seq \in 1..convSeq /\ conv[i].ver \in 1..now[conv[i].id]
        /\ ~daemonUp => conv = <<>> /\ asking = {} /\ from # "this"
        /\ daemonUp => life # 0
    BY DEF TranscriptInv, ConvIsTrue
  <2>2. \A i \in DOMAIN conv : conv[i].ver \in 1..now'[conv[i].id]
    <3> SUFFICES ASSUME NEW i \in DOMAIN conv PROVE conv[i].ver \in 1..now'[conv[i].id]
      OBVIOUS
    <3>1. /\ conv[i].ver \in 1..now[conv[i].id] /\ now[conv[i].id] <= now'[conv[i].id]
          /\ now[conv[i].id] \in Nat /\ now'[conv[i].id] \in Nat
      BY <1>1, <1>2, <2>1
    <3> QED BY <3>1
  <2>3. asking = {} => asking' = {}
    OBVIOUS
  <2> QED BY <2>1, <2>2, <2>3, ConvNext, Zenon
<1>4. SettledIsLast'
  <2>1. ASSUME NEW r \in Requests \ missed', NewestIn(conv, r) = 2
        PROVE  NewestIn(Unheard', r) = 0
    <3>1. r \in Requests \ missed /\ Heard(r) = 2 /\ NewestIn(Unheard, r) = 0
      BY <2>1 DEF Heard, TranscriptInv, SettledIsLast
    <3> HIDE DEF Unheard
    <3> QED BY <3>1
  <2>2. ASSUME NEW r \in asking' \ missed' PROVE NewestIn(conv, r) = 1
    <3>1. asking \subseteq Requests
      BY <1>1 DEF ReportsInv, TranscriptTypeOK
    <3>2. r \in asking \ missed
      BY <3>1
    <3> QED BY <3>2 DEF TranscriptInv, SettledIsLast, Heard
  <2> QED BY <2>1, <2>2, SettledNext, Zenon
<1>5. ViewIsTrue'
  <2>1. /\ from = "none" => viewCursor = 0
        /\ from = "this" => viewCursor <= convSeq
        /\ \A i \in DOMAIN conv :
             from = "this" /\ conv[i].seq <= viewCursor /\ conv[i].id \notin skipped =>
               ShownOn(view, panel, conv[i])
        /\ \A p \in Parts : view[p] <= now[p]
        /\ panel \in Requests \ missed => NewestIn(conv, panel) # 0
    BY ViewShown DEF TranscriptInv
  <2>2. \A p \in Parts : view[p] <= now'[p]
    <3> SUFFICES ASSUME NEW p \in Parts PROVE view[p] <= now'[p]
      OBVIOUS
    <3>1. p \in Ids /\ view[p] <= now[p] /\ view[p] \in Nat
      BY <2>1, ViewFacts, ReportType DEF Ids
    <3>2. now[p] <= now'[p] /\ now[p] \in Nat /\ now'[p] \in Nat
      BY <1>1, <1>2, <3>1
    <3> QED BY <3>1, <3>2
  <2>3. panel \in Requests \ missed' => NewestIn(conv, panel) # 0
    BY <2>1
  <2> QED BY <2>1, <2>2, <2>3, ViewNext, Zenon
<1> QED BY <1>3, <1>4, <1>5 DEF TranscriptInv

(* What there is to come about another id, the hook leaves as it is.       *)
LEMMA EventUnheard ==
  ASSUME ReportsInv, NEW x \in Ids, NEW ver \in Version, event(x, ver)
  PROVE  /\ \A y : y # x /\ NewestIn(Unheard, y) = 0 => NewestIn(Unheard', y) = 0
         /\ Requests \ missed' \subseteq Requests \ missed
<1> DEFINE e == [id |-> x, ver |-> ver]
           rest == SubSeq(flight.batch, taken + 1, Len(flight.batch))
           q == Enqueued(queue, e)
           u == Unheard
           w == Unheard'
<1>1. /\ queue \in Seq(Report) /\ Len(queue) <= QueueMax /\ rest \in Seq(Report)
      /\ u = rest \o queue
  <2>1. /\ queue \in Seq(Report) /\ Len(queue) <= QueueMax
        /\ flight.batch \in Seq(Report) /\ taken \in 0..Len(flight.batch)
    BY InvFacts
  <2>2. rest \in Seq(Report)
    BY <2>1, RestOfFlight
  <2> QED BY <2>1, <2>2 DEF Unheard
<1>2. /\ UNCHANGED <<upId, daemonUp, life, taken>>
      /\ (upId # 0 /\ report(e)) \/ (upId = 0 /\ missed' = missed \cup {x} /\ UNCHANGED plugin)
  BY DEF event, daemon
<1>3. CASE upId = 0 /\ missed' = missed \cup {x} /\ UNCHANGED plugin
  <2>1. Unheard' = Unheard
    BY <1>2, <1>3 DEF Unheard, plugin
  <2> HIDE DEF Unheard
  <2> QED BY <1>3, <2>1
<1>4. CASE upId # 0 /\ report(e)
  <2>1. e \in Report /\ e.id = x
    BY DEF Report
  <2> HIDE DEF e
  <2>2. /\ w = rest \o q
        /\ missed' = (missed \ ({e.id} \cap Parts))
                       \cup Lost(Append(queue, e), q) \cup Overtaken(queue, e)
    BY <1>2, <1>4, <2>1, ReportSteps
  <2>3. Requests \cap Parts = {}
    BY TranscriptAssumption
  <2>4. Requests \ missed' \subseteq Requests \ missed
    BY <2>2, <2>3
  <2>5. q \in Seq(Report)
    BY <1>1, <2>1, EnqueuedProperties
  <2>6. \A i \in DOMAIN u : u[i].ver \in Version /\ u[i].ver \in 1..now[u[i].id]
    BY UnheardHappened
  <2> HIDE DEF rest, u, w, q
  <2>7. Enters(w, u, queue, q, e) /\ w \in Seq(Report)
    <3>1. Enters(rest \o q, rest \o queue, queue, q, e)
      BY <1>1, <2>1, ReportOnItsWay DEF q
    <3>2. rest \o q \in Seq(Report)
      BY <1>1, <2>5, OneAfterTheOther
    <3> QED BY <1>1, <2>2, <3>1, <3>2
  <2>8. \A k \in DOMAIN w : w[k].id = x \/ \E i \in DOMAIN u : w[k] = u[i]
    BY <2>1, <2>7 DEF Enters
  <2>9. ASSUME NEW y, y # x, NewestIn(u, y) = 0 PROVE NewestIn(w, y) = 0
    <3>1. ASSUME NEW i \in DOMAIN u, u[i].id = y PROVE FALSE
      <4>1. u[i].ver <= 0
        BY <2>6, <2>9, <3>1, NewestProperties
      <4>2. u[i].ver \in Nat /\ u[i].ver \in 1..now[y]
        BY <2>6, <3>1, ReportType
      <4> QED BY <4>1, <4>2
    <3>2. \A k \in DOMAIN w : w[k].id # y
      BY <2>8, <2>9, <3>1
    <3>3. \A k \in DOMAIN w : w[k].ver \in Version
      BY <2>7, VersionsOf, ReportType
    <3> QED BY <3>2, <3>3, NewestOfNone
  <2> QED BY <2>4, <2>9 DEF u, w
<1> QED BY <1>2, <1>3, <1>4

(* The hook is not called for a request that is settled.                   *)
LEMMA EventViewed ==
  ASSUME TranscriptInv, ReportsInv', NEW x \in Ids, NEW ver \in Version, event(x, ver),
         ver > now[x], x \in Requests => ver <= 2
  PROVE  TranscriptInv'
<1>1. /\ \A y : y # x /\ NewestIn(Unheard, y) = 0 => NewestIn(Unheard', y) = 0
      /\ Requests \ missed' \subseteq Requests \ missed
  BY EventUnheard DEF TranscriptInv
<1>2. /\ UNCHANGED <<conv, convSeq, daemonUp, life, asking>>
      /\ UNCHANGED <<view, panel, viewCursor, from, skipped>>
  BY DEF event, daemon, hub, phone
<1>3. \A y \in Ids : now[y] <= now'[y]
  <2>1. now' = [now EXCEPT ![x] = ver] /\ now \in [Ids -> Version] /\ ver \in Nat
    BY ReportType DEF event, TranscriptInv, ReportsInv, TranscriptTypeOK
  <2>2. \A y \in Ids : now[y] \in Nat
    BY ViewFacts
  <2> QED BY <2>1, <2>2
<1>4. ASSUME NEW r \in Requests \ missed', Heard(r) = 2, NewestIn(Unheard, r) = 0 PROVE r # x
  <2>1. r \in Ids \ missed
    BY <1>1 DEF Ids
  <2>2. now[r] = 2
    BY <1>4, <2>1 DEF TranscriptInv, ReportsInv, HeardIsNewest
  <2>3. ver \in Nat
    BY ReportType
  <2> QED BY <2>2, <2>3
<1> HIDE DEF Unheard
<1>5. \A r \in Requests \ missed' :
        Heard(r) = 2 /\ NewestIn(Unheard, r) = 0 => NewestIn(Unheard', r) = 0
  BY <1>1, <1>4
<1> QED BY <1>1, <1>2, <1>3, <1>5, QuietStep

(* A part's next text, and the two states of a request.                    *)
LEMMA KiloViewed ==
  ASSUME TranscriptInv, ReportsInv',
         (\E p \in Parts : Edit(p)) \/ (\E r \in Requests : Ask(r) \/ Settle(r))
  PROVE  TranscriptInv'
<1>1. /\ edits \in 0..MaxEdits /\ MaxEdits \in Nat /\ Version = 0..(MaxEdits + 2)
      /\ Parts \subseteq Ids /\ Requests \subseteq Ids /\ Parts \cap Requests = {}
  BY TranscriptAssumption DEF TranscriptInv, ReportsInv, TranscriptTypeOK, Version, Ids
<1>2. (\A y \in Ids : now[y] \in Nat) /\ (\A p \in Parts : now[p] <= edits)
  BY InvFacts DEF TranscriptInv, ReportsInv, HasHappened
<1>3. ASSUME NEW p \in Parts, Edit(p) PROVE TranscriptInv'
  <2>1. event(p, edits + 1)
    BY <1>3 DEF Edit
  <2>2. p \in Ids /\ p \notin Requests /\ edits + 1 \in Version /\ edits + 1 > now[p]
    BY <1>1, <1>2
  <2> QED BY <2>1, <2>2, EventViewed
<1>4. ASSUME NEW r \in Requests, Ask(r) PROVE TranscriptInv'
  <2>1. now[r] = 0 /\ event(r, 1)
    BY <1>4 DEF Ask
  <2>2. r \in Ids /\ 1 \in Version /\ 1 > now[r] /\ 1 <= 2
    BY <1>1, <2>1
  <2> QED BY <2>1, <2>2, EventViewed
<1>5. ASSUME NEW r \in Requests, Settle(r) PROVE TranscriptInv'
  <2>1. now[r] = 1 /\ event(r, 2)
    BY <1>5 DEF Settle
  <2>2. r \in Ids /\ 2 \in Version /\ 2 > now[r] /\ 2 <= 2
    BY <1>1, <2>1
  <2> QED BY <2>1, <2>2, EventViewed
<1> QED BY <1>3, <1>4, <1>5

(* Steps that report nothing and that conversation and view take no notice *)
(* of.                                                                     *)
LEMMA AsideViewed ==
  ASSUME TranscriptInv, ReportsInv',
         \/ Accepted \/ Refused \/ FlushFails \/ Finally \/ Downlink \/ OthersPublish
         \/ SessionGone \/ UNCHANGED transcriptVars
  PROVE  TranscriptInv'
<1>1. ReportsInv
  BY DEF TranscriptInv
<1>2. /\ UNCHANGED <<conv, convSeq, daemonUp, life>> /\ UNCHANGED now
      /\ UNCHANGED <<view, panel, viewCursor, from, skipped>> /\ asking' \subseteq asking
  BY DEF Accepted, Refused, FlushFails, Finally, Downlink, Forget, hello, OthersPublish,
         SessionGone, transcriptVars, kilo, daemon, hub, phone
<1>3. \A x \in Ids : now[x] <= now'[x]
  BY <1>2, ViewFacts
<1>4. missed \subseteq missed' /\
      \A x \in Ids : NewestIn(Unheard, x) = 0 => NewestIn(Unheard', x) = 0
  <2>1. CASE Refused \/ FlushFails
    <3>1. /\ flight' = NoFlight /\ taken = 0 /\ taken' = 0 /\ queue' \in Seq(Report)
          /\ missed' = missed \cup Lost(OnItsWay, queue')
          /\ \A x \in Ids : Kept(queue', OnItsWay, x)
      BY <1>1, <2>1, FlightLost
    <3>2. Unheard' = queue' /\ Unheard = OnItsWay
      BY <1>1, <3>1, FlightOver, InvFacts, NoneTaken
    <3>3. \A i \in DOMAIN OnItsWay : OnItsWay[i].ver \in Version /\ OnItsWay[i].ver # 0
      BY <1>1, InvFacts
    <3>4. \A k \in DOMAIN queue' : queue'[k].ver \in Version
      BY <3>1, VersionsOf, ReportType
    <3> DEFINE s == OnItsWay  t == queue'
    <3> HIDE DEF s, t
    <3>5. ASSUME NEW x \in Ids, NewestIn(s, x) = 0 PROVE NewestIn(t, x) = 0
      <4>1. Kept(t, s, x)
        BY <3>1 DEF s, t
      <4>2. ASSUME NEW i \in DOMAIN s, s[i].id = x PROVE FALSE
        <5>1. \A j \in DOMAIN s : s[j].ver \in Version /\ s[j].ver # 0
          BY <3>3 DEF s
        <5>2. s[i].ver <= 0 /\ s[i].ver \in Nat /\ s[i].ver # 0
          BY <3>5, <4>2, <5>1, NewestProperties, ReportType
        <5> QED BY <5>2
      <4>3. \A k \in DOMAIN t : t[k].id # x
        BY <4>1, <4>2 DEF Kept
      <4>4. \A k \in DOMAIN t : t[k].ver \in Version
        BY <3>4 DEF t
      <4> QED BY <4>3, <4>4, NewestOfNone
    <3> QED BY <3>1, <3>2, <3>5 DEF s, t
  <2>2. CASE \/ Accepted \/ Finally \/ Downlink \/ OthersPublish
             \/ SessionGone \/ UNCHANGED transcriptVars
    <3>1. Unheard' = Unheard /\ missed' = missed
      <4>1. CASE Accepted
        BY <1>1, <4>1, AcceptedKeeps DEF Accepted
      <4>2. CASE Finally
        BY <1>1, <4>2, FinallySends
      <4>3. CASE Downlink \/ OthersPublish \/ SessionGone \/ UNCHANGED transcriptVars
        <5>1. Unheard' = Unheard
          BY <1>1, <4>3, AsideKeeps
        <5>2. missed' = missed
          BY <4>3 DEF Downlink, Forget, hello, OthersPublish, SessionGone, transcriptVars
        <5> QED BY <5>1, <5>2
      <4> QED BY <2>2, <4>1, <4>2, <4>3
    <3> HIDE DEF Unheard
    <3> QED BY <3>1
  <2> QED BY <2>1, <2>2
<1>5. \A r \in Requests : r \in Ids
  BY DEF Ids
<1> HIDE DEF Unheard
<1>6. /\ Requests \ missed' \subseteq Requests \ missed
      /\ \A r \in Requests \ missed' :
           Heard(r) = 2 /\ NewestIn(Unheard, r) = 0 => NewestIn(Unheard', r) = 0
  BY <1>4, <1>5
<1> QED BY <1>2, <1>3, <1>6, QuietStep

(* New entries are beyond every cursor, and what settles a request is the  *)
(* last about it.                                                          *)
LEMMA IngestViewed ==
  ASSUME TranscriptInv, Ingest
  PROVE  ConvIsTrue' /\ SettledIsLast' /\ ViewIsTrue'
<1> DEFINE s == OnItsWay
           e == s[taken + 1]
<1>1. /\ ReportsInv /\ convSeq \in Nat /\ DOMAIN conv = 1..Len(conv)
      /\ \A i \in DOMAIN conv :
           conv[i].seq \in 1..convSeq /\ conv[i].ver \in 1..now[conv[i].id]
      /\ \A r \in Requests : r \in Ids /\ now[r] <= 2
      /\ viewCursor \in Nat
  BY ViewFacts
<1>2. /\ Heeds(e) /\ e \in Report /\ e.ver \in 1..now[e.id] /\ now[e.id] \in Nat
      /\ \A x : Silent(s, taken + 1, x) /\ x # e.id => Silent(s, taken, x)
      /\ e.id \notin missed => (e.ver = now[e.id] <=> Silent(s, taken + 1, e.id))
      /\ \A x : NewestIn(Unheard', x) = 0 <=> Silent(s, taken + 1, x)
      /\ UNCHANGED <<kilo, upId, plugin, daemonUp, life, crashes, phone>> /\ daemonUp
  BY <1>1, IngestHeeds
<1>3. \A x : NewestIn(Unheard, x) = 0 <=> Silent(s, taken, x)
  BY <1>1, InvFacts
<1>4. now' = now /\ daemonUp' = daemonUp /\ life' = life
      /\ UNCHANGED <<view, panel, viewCursor, from, skipped>>
  BY <1>2 DEF kilo, phone
<1>5. \A x : Silent(s, taken, x) => Silent(s, taken + 1, x)
  <2>1. taken \in Nat /\ DOMAIN s = 1..Len(s) /\ Len(s) \in Nat
    <3>1. taken \in 0..Len(flight.batch) /\ DOMAIN s = 1..Len(s) /\ Len(s) \in Nat
      BY <1>1, InvFacts
    <3> QED BY <3>1
  <2> HIDE DEF s
  <2> QED BY <2>1 DEF Silent
<1> HIDE DEF e, s
<1>6. /\ missed \subseteq missed'
      /\ convSeq' \in Nat /\ convSeq <= convSeq' /\ DOMAIN conv' = 1..Len(conv')
      /\ \A r \in asking' : (r = e.id /\ e.ver = 1) \/ (r \in asking /\ r # e.id)
      /\ \A i \in 1..Len(conv') :
           \/ conv'[i].id = e.id /\ conv'[i].seq = convSeq' /\ convSeq < convSeq' /\ conv'[i].ver = e.ver
           \/ \E j \in 1..Len(conv) : conv[j] = conv'[i]
      /\ \A x \in Ids \ missed' : x # e.id => NewestIn(conv', x) = NewestIn(conv, x)
      /\ \/ NewestIn(conv', e.id) = e.ver
         \/ conv' = conv /\ e.id \in Requests /\ e.ver = 2
  BY <1>2, LenProperties DEF Heeds
<1>7. ASSUME NEW i \in DOMAIN conv'
      PROVE  /\ conv'[i].seq \in 1..convSeq' /\ conv'[i].ver \in 1..now[conv'[i].id]
             /\ conv'[i].seq <= convSeq => \E j \in DOMAIN conv : conv[j] = conv'[i]
  <2>1. CASE \E j \in 1..Len(conv) : conv[j] = conv'[i]
    <3>1. PICK j \in DOMAIN conv : conv[j] = conv'[i]
      BY <1>1, <2>1
    <3>2. conv'[i].seq \in 1..convSeq /\ conv'[i].ver \in 1..now[conv'[i].id]
      BY <1>1, <3>1
    <3> QED BY <1>1, <1>6, <3>1, <3>2
  <2>2. CASE conv'[i].id = e.id /\ conv'[i].seq = convSeq' /\ convSeq < convSeq' /\ conv'[i].ver = e.ver
    BY <1>1, <1>2, <1>6, <2>2
  <2> QED BY <1>6, <2>1, <2>2
<1>8. ConvIsTrue'
  <2>1. daemonUp /\ life # 0
    BY <1>2 DEF TranscriptInv, ConvIsTrue
  <2> QED BY <1>4, <1>7, <2>1, ConvNext, Zenon
<1>9. SettledIsLast'
  <2>1. ASSUME NEW r \in Requests \ missed', NewestIn(conv', r) = 2
        PROVE  NewestIn(Unheard', r) = 0
    <3>1. r \in Ids \ missed' /\ r \notin missed /\ now[r] <= 2
      BY <1>1, <1>6
    <3>2. CASE r = e.id
      <4>1. e.ver = 2
        BY <1>6, <2>1, <3>2
      <4>2. e.ver = now[e.id]
        BY <1>2, <3>1, <3>2, <4>1
      <4> QED BY <1>2, <3>1, <3>2, <4>2
    <3>3. CASE r # e.id
      <4>1. NewestIn(conv, r) = 2
        BY <1>6, <2>1, <3>1, <3>3
      <4>2. NewestIn(Unheard, r) = 0
        BY <3>1, <4>1 DEF TranscriptInv, SettledIsLast, Heard
      <4> QED BY <1>2, <1>3, <1>5, <4>2
    <3> QED BY <3>2, <3>3
  <2>2. ASSUME NEW r \in asking' \ missed' PROVE NewestIn(conv', r) = 1
    <3>1. CASE r = e.id /\ e.ver = 1
      BY <1>6, <3>1
    <3>2. CASE r \in asking /\ r # e.id
      <4>1. asking \subseteq Requests
        BY <1>1 DEF ReportsInv, TranscriptTypeOK
      <4>2. r \in Ids \ missed'
        BY <1>1, <3>2, <4>1
      <4>3. NewestIn(conv, r) = 1
        BY <1>6, <3>2, <4>2 DEF TranscriptInv, SettledIsLast, Heard
      <4> QED BY <1>6, <3>2, <4>2, <4>3
    <3> QED BY <1>6, <3>1, <3>2
  <2> QED BY <2>1, <2>2, SettledNext, Zenon
<1>10. ViewIsTrue'
  <2>1. /\ from = "none" => viewCursor = 0
        /\ from = "this" => viewCursor <= convSeq
        /\ \A i \in DOMAIN conv :
             from = "this" /\ conv[i].seq <= viewCursor /\ conv[i].id \notin skipped =>
               ShownOn(view, panel, conv[i])
        /\ \A p \in Parts : view[p] <= now[p]
        /\ panel \in Requests \ missed => NewestIn(conv, panel) # 0
    BY ViewShown DEF TranscriptInv
  <2>2. from = "this" => viewCursor <= convSeq'
    BY <1>1, <1>6, <2>1
  <2>3. ASSUME NEW i \in DOMAIN conv', from = "this", conv'[i].seq <= viewCursor,
               conv'[i].id \notin skipped
        PROVE  ShownOn(view, panel, conv'[i])
    <3>1. conv'[i].seq <= convSeq
      BY <1>1, <1>6, <1>7, <2>1, <2>3
    <3>2. PICK j \in DOMAIN conv : conv[j] = conv'[i]
      BY <1>7, <3>1
    <3> QED BY <2>1, <2>3, <3>2
  <2>4. panel \in Requests \ missed' => NewestIn(conv', panel) # 0
    <3> SUFFICES ASSUME panel \in Requests \ missed' PROVE NewestIn(conv', panel) # 0
      OBVIOUS
    <3>1. NewestIn(conv, panel) # 0 /\ panel \in Ids \ missed'
      BY <1>1, <1>6, <2>1
    <3>2. CASE panel = e.id
      <4>1. e.ver # 0
        BY <1>2
      <4> QED BY <1>6, <3>1, <3>2, <4>1
    <3>3. CASE panel # e.id
      BY <1>6, <3>1, <3>3
    <3> QED BY <3>2, <3>3
  <2> QED BY <1>4, <2>1, <2>2, <2>3, <2>4, ViewNext, Zenon
<1> QED BY <1>8, <1>9, <1>10

(* With a conversation goes what could retract the prompts it showed.      *)
LEMMA EndViewed ==
  ASSUME TranscriptInv, Crash \/ Evicted
  PROVE  ConvIsTrue' /\ SettledIsLast' /\ ViewIsTrue'
<1>1. /\ Ends /\ ReportsInv
  BY EndKeeps DEF TranscriptInv
<1>2. /\ conv' = <<>> /\ convSeq' = 0 /\ now' = now /\ from' = Outlives
      /\ UNCHANGED <<view, panel, viewCursor, skipped>>
      /\ missed \subseteq missed' /\ Orphans \subseteq missed' /\ asking' \subseteq asking
  BY <1>1 DEF Ends
<1>3. from' # "this" /\ (from' = "none" => from = "none")
  BY <1>2 DEF Outlives
<1>4. ConvIsTrue'
  <2>1. DOMAIN conv' = {}
    BY <1>2
  <2>2. (~daemonUp' => asking' = {}) /\ (daemonUp' => life' # 0)
    <3>1. CASE Crash
      BY <3>1 DEF Crash
    <3>2. CASE Evicted
      BY <3>2 DEF Evicted, TranscriptInv, ConvIsTrue
    <3> QED BY <3>1, <3>2
  <2> QED BY <1>2, <1>3, <2>1, <2>2, ConvNext, Zenon
<1>5. SettledIsLast'
  <2>1. \A r : NewestIn(<<>>, r) = 0
    BY NewestOfNone
  <2>2. \A r \in Requests \ missed' : NewestIn(<<>>, r) # 2
    BY <2>1
  <2>3. ASSUME NEW r \in asking' \ missed' PROVE FALSE
    <3>1. r \in asking \ missed /\ r \in Requests
      BY <1>1, <1>2 DEF ReportsInv, TranscriptTypeOK
    <3>2. NewestIn(conv, r) = 1
      BY <3>1 DEF TranscriptInv, SettledIsLast, Heard
    <3> QED BY <1>2, <3>1, <3>2 DEF Orphans
  <2> QED BY <1>2, <2>2, <2>3, SettledNext, Zenon
<1>6. ViewIsTrue'
  <2>1. (from = "none" => viewCursor = 0) /\ \A p \in Parts : view[p] <= now[p]
    BY DEF TranscriptInv, ViewIsTrue
  <2>2. panel \notin Requests \ missed'
    BY <1>2 DEF Orphans
  <2>3. DOMAIN conv' = {}
    BY <1>2
  <2> QED BY <1>2, <1>3, <2>1, <2>2, <2>3, ViewNext, Zenon
<1> QED BY <1>4, <1>5, <1>6

(* The daemon starts with nothing to show.                                 *)
LEMMA StartViewed ==
  ASSUME TranscriptInv, Start
  PROVE  ConvIsTrue' /\ SettledIsLast' /\ ViewIsTrue'
<1>1. /\ ~daemonUp /\ daemonUp' = TRUE /\ life' = life + 1
      /\ UNCHANGED <<now, conv, convSeq, asking, missed, queue, flight, taken>>
      /\ UNCHANGED <<view, panel, viewCursor, from, skipped>>
  BY DEF Start, kilo, plugin, hub, phone
<1>2. /\ conv = <<>> /\ asking = {} /\ from # "this"
      /\ \A i \in DOMAIN conv : conv[i].seq \in 1..convSeq /\ conv[i].ver \in 1..now[conv[i].id]
  BY <1>1 DEF TranscriptInv, ConvIsTrue
<1>3. life + 1 # 0
  BY DEF TranscriptInv, ReportsInv, TranscriptTypeOK
<1>4. ConvIsTrue'
  BY <1>1, <1>2, <1>3, ConvNext, Zenon
<1>5. SettledIsLast'
  <2>1. \A r : NewestIn(<<>>, r) = 0
    BY NewestOfNone
  <2>2. \A r \in Requests \ missed : NewestIn(<<>>, r) # 2
    BY <2>1
  <2> QED BY <1>1, <1>2, <2>2, SettledNext, Zenon
<1>6. ViewIsTrue'
  <2>1. /\ from = "none" => viewCursor = 0
        /\ \A p \in Parts : view[p] <= now[p]
        /\ panel \in Requests \ missed => NewestIn(conv, panel) # 0
    BY ViewShown DEF TranscriptInv
  <2> QED BY <1>1, <1>2, <2>1, ViewNext, Zenon
<1> QED BY <1>4, <1>5, <1>6

(* A view opens blank.                                                     *)
LEMMA OpenViewed ==
  ASSUME TranscriptInv, OpenView
  PROVE  ConvIsTrue' /\ SettledIsLast' /\ ViewIsTrue'
<1>1. /\ UNCHANGED <<now, conv, convSeq, asking, daemonUp, life, missed, queue, flight, taken>>
      /\ view' = Blank /\ panel' = NoRequest /\ viewCursor' = 0 /\ from' = "none" /\ skipped' = {}
  BY DEF OpenView, kilo, plugin, daemon, hub
<1>2. ConvIsTrue'
  <2>1. "none" # "this"
    OBVIOUS
  <2> QED BY <1>1, <2>1, Zenon DEF TranscriptInv, ConvIsTrue
<1>3. SettledIsLast'
  <2>1. /\ \A r \in Requests \ missed : NewestIn(conv, r) = 2 => NewestIn(Unheard, r) = 0
        /\ \A r \in asking \ missed : NewestIn(conv, r) = 1
    BY DEF TranscriptInv, SettledIsLast, Heard
  <2>2. Unheard' = Unheard
    BY <1>1 DEF Unheard
  <2> QED BY <1>1, <2>1, <2>2, SettledNext, Zenon
<1>4. ViewIsTrue'
  <2>1. 0 <= convSeq /\ \A i \in DOMAIN conv : ~(conv[i].seq <= 0)
    <3>1. convSeq \in Nat /\ \A i \in DOMAIN conv : conv[i].seq \in 1..convSeq
      BY ViewFacts
    <3> QED BY <3>1
  <2>2. \A p \in Parts : Blank[p] <= now[p]
    <3>1. \A p \in Parts : now[p] \in Nat /\ Blank[p] = 0
      BY ViewFacts DEF Ids, Blank
    <3> QED BY <3>1
  <2>3. NoRequest \notin Requests /\ "none" # "this"
    BY TranscriptAssumption DEF Ids
  <2> QED BY <1>1, <2>1, <2>2, <2>3, ViewNext, Zenon
<1> QED BY <1>2, <1>3, <1>4

(* An answer shows what the conversation says after the cursor; what it    *)
(* says before the cursor the view shows, or the cursor passed over it.    *)
LEMMA ReadViewed ==
  ASSUME TranscriptInv, Read
  PROVE  ConvIsTrue' /\ SettledIsLast' /\ ViewIsTrue'
<1> DEFINE b == EventsAfter(conv, viewCursor)
           t == Rendered(b)
<1>1. /\ conv \in Seq(Entry) /\ convSeq \in Nat /\ IdsOnce(conv) /\ DOMAIN conv = 1..Len(conv)
      /\ \A i \in DOMAIN conv :
           /\ conv[i].id \in Ids /\ conv[i].seq \in 1..convSeq
           /\ conv[i].ver \in Nat /\ conv[i].ver \in 1..now[conv[i].id]
      /\ \A r \in Requests : r \in Ids /\ r \notin Parts /\ r # NoRequest
      /\ viewCursor \in Nat /\ from \in {"none", "this", "earlier"}
      /\ view \in [Parts -> Version] /\ panel \in Requests \cup {NoRequest}
      /\ \A i \in DOMAIN conv : Heard(conv[i].id) = conv[i].ver
  BY ViewFacts
<1>2. /\ view' = t.view /\ panel' = t.panel
      /\ skipped' = (skipped \cup PassedOver) \ {b[i].id : i \in DOMAIN b}
      /\ viewCursor' = convSeq /\ from' = "this" /\ daemonUp
      /\ UNCHANGED <<now, conv, convSeq, asking, daemonUp, life, missed, queue, flight, taken>>
  BY DEF Read, kilo, plugin, daemon, hub
<1>3. /\ b \in Seq(Entry) /\ IdsOnce(b)
      /\ \A k \in 1..Len(b) : \E i \in 1..Len(conv) : b[k] = conv[i] /\ conv[i].seq > viewCursor
      /\ \A i \in 1..Len(conv) : conv[i].seq > viewCursor => \E k \in 1..Len(b) : b[k] = conv[i]
  <2>1. conv \in Seq(Entry) /\ IdsOnce(conv)
    BY <1>1
  <2> QED BY <2>1, AnswerProperties
<1> HIDE DEF b, t
<1>4. /\ t \in Screen
      /\ \A p \in Parts : (\A k \in 1..Len(b) : b[k].id # p) => t.view[p] = view[p]
      /\ \A k \in 1..Len(b) : b[k].id \in Parts => t.view[b[k].id] = b[k].ver
      /\ \A k \in 1..Len(b) : b[k].id \in Requests /\ b[k].ver = 2 => t.panel # b[k].id
      /\ \/ t.panel = panel \/ t.panel = NoRequest
         \/ \E k \in 1..Len(b) : b[k].id \in Requests /\ b[k].ver = 1 /\ t.panel = b[k].id
  BY <1>1, <1>3, RenderedProperties DEF t
<1>5. DOMAIN b = 1..Len(b)
  BY <1>3, LenProperties
<1>6. /\ from = "none" => viewCursor = 0
      /\ \A i \in DOMAIN conv :
           from = "this" /\ conv[i].seq <= viewCursor /\ conv[i].id \notin skipped =>
             ShownOn(view, panel, conv[i])
      /\ \A p \in Parts : view[p] <= now[p]
      /\ panel \in Requests \ missed => NewestIn(conv, panel) # 0
  BY <1>2, ViewShown DEF TranscriptInv, ConvIsTrue
<1>7. ConvIsTrue'
  BY <1>2, Zenon DEF TranscriptInv, ConvIsTrue
<1>8. SettledIsLast'
  <2>1. /\ \A r \in Requests \ missed : NewestIn(conv, r) = 2 => NewestIn(Unheard, r) = 0
        /\ \A r \in asking \ missed : NewestIn(conv, r) = 1
    BY DEF TranscriptInv, SettledIsLast, Heard
  <2>2. Unheard' = Unheard
    BY <1>2 DEF Unheard
  <2> QED BY <1>2, <2>1, <2>2, SettledNext, Zenon
<1>9. ASSUME NEW i \in DOMAIN conv, conv[i].id \notin skipped'
      PROVE  ShownOn(t.view, t.panel, conv[i])
  <2> DEFINE e == conv[i]
  <2>1. CASE e.seq > viewCursor
    <3>1. PICK k \in 1..Len(b) : b[k] = e
      BY <1>1, <1>3, <2>1
    <3>2. e.id \in Parts => t.view[e.id] = e.ver
      BY <1>4, <3>1
    <3>3. e.id \notin Parts /\ e.ver = 2 => t.panel # e.id
      BY <1>1, <1>4, <3>1 DEF Ids
    <3> QED BY <3>2, <3>3 DEF ShownOn
  <2>2. CASE ~(e.seq > viewCursor)
    <3>1. e.seq <= viewCursor
      BY <1>1, <2>2
    <3>2. ASSUME NEW k \in 1..Len(b) PROVE b[k].id # e.id
      <4>1. PICK j \in 1..Len(conv) : b[k] = conv[j] /\ conv[j].seq > viewCursor
        BY <1>3
      <4>2. j # i
        BY <2>2, <4>1
      <4> QED BY <1>1, <4>1, <4>2 DEF IdsOnce
    <3>3. e.id \notin skipped /\ e.id \notin PassedOver
      BY <1>2, <1>5, <1>9, <3>2
    <3>4. from # "earlier"
      BY <3>1, <3>3 DEF PassedOver
    <3>5. from # "none"
      BY <1>1, <1>6, <3>1
    <3>6. ShownOn(view, panel, e)
      BY <1>1, <1>6, <3>1, <3>3, <3>4, <3>5
    <3> HIDE DEF e
    <3>7. e.id \in Parts => t.view[e.id] = e.ver
      BY <1>4, <3>2, <3>6 DEF ShownOn
    <3>8. e.id \notin Parts /\ e.ver = 2 => t.panel # e.id
      <4>1. e.id \in Ids
        BY <1>1 DEF e
      <4>2. e.id \notin Parts => e.id # NoRequest
        BY <1>1, <4>1 DEF Ids
      <4> QED BY <1>4, <3>2, <3>6, <4>2 DEF ShownOn
    <3>9. ShownOn(t.view, t.panel, e)
      BY <3>7, <3>8 DEF ShownOn
    <3> QED BY <3>9 DEF e
  <2> QED BY <2>1, <2>2
<1>10. ASSUME NEW p \in Parts PROVE t.view[p] <= now[p]
  <2>1. CASE \A k \in 1..Len(b) : b[k].id # p
    BY <1>4, <1>6, <2>1
  <2>2. CASE \E k \in 1..Len(b) : b[k].id = p
    <3>1. PICK k \in 1..Len(b) : b[k].id = p
      BY <2>2
    <3>2. PICK i \in DOMAIN conv : b[k] = conv[i]
      BY <1>1, <1>3
    <3>3. conv[i].ver \in 1..now[p] /\ t.view[p] = conv[i].ver
      BY <1>1, <1>4, <3>1, <3>2
    <3>4. now[p] \in Nat
      BY ViewFacts DEF Ids
    <3> QED BY <3>3, <3>4
  <2> QED BY <2>1, <2>2
<1>11. t.panel \in Requests \ missed => NewestIn(conv, t.panel) # 0
  <2>1. CASE t.panel = panel \/ t.panel = NoRequest
    BY <1>1, <1>6, <2>1
  <2>2. CASE \E k \in 1..Len(b) : b[k].id \in Requests /\ b[k].ver = 1 /\ t.panel = b[k].id
    <3>1. PICK k \in 1..Len(b) : b[k].ver = 1 /\ t.panel = b[k].id
      BY <2>2
    <3>2. PICK i \in DOMAIN conv : b[k] = conv[i]
      BY <1>1, <1>3
    <3>3. NewestIn(conv, t.panel) = 1
      BY <1>1, <3>1, <3>2 DEF Heard
    <3> QED BY <3>3
  <2> QED BY <1>4, <2>1, <2>2
<1>12. ViewIsTrue'
  <2>1. convSeq <= convSeq
    BY <1>1
  <2> QED BY <1>2, <1>6, <1>9, <1>10, <1>11, <2>1, ViewNext, Zenon
<1> QED BY <1>7, <1>8, <1>12

(* Nothing is shown at first.                                              *)
LEMMA TranscriptStarts ==
  ASSUME TranscriptInit
  PROVE  TranscriptInv
<1>1. /\ now = [x \in Ids |-> 0] /\ conv = <<>> /\ convSeq = 0 /\ daemonUp = FALSE /\ life = 0
      /\ view = Blank /\ panel = NoRequest /\ viewCursor = 0 /\ from = "none" /\ asking = {}
  BY DEF TranscriptInit
<1>2. ReportsInv
  BY TranscriptAtFirst
<1>3. ConvIsTrue
  BY <1>1 DEF ConvIsTrue
<1>4. SettledIsLast
  <2>1. NewestIn(<<>>, 0) = 0 /\ \A r \in Requests : NewestIn(<<>>, r) = 0
    BY NewestOfNone
  <2> QED BY <1>1, <2>1 DEF SettledIsLast, Heard
<1>5. ViewIsTrue
  <2>1. \A p \in Parts : view[p] = 0 /\ now[p] = 0
    BY <1>1 DEF Blank, Ids
  <2>2. NoRequest \notin Requests
    BY TranscriptAssumption DEF Ids
  <2>3. DOMAIN conv = {}
    BY <1>1
  <2> QED BY <1>1, <2>1, <2>2, <2>3 DEF ViewIsTrue
<1> QED BY <1>2, <1>3, <1>4, <1>5 DEF TranscriptInv

(* A view that has read all of the conversation shows what was heard.      *)
LEMMA ReadViewShowsIt == TranscriptInv => ReadViewIsUpToDate
<1> SUFFICES ASSUME TranscriptInv, open, daemonUp, from = "this", viewCursor = convSeq,
                    NEW x \in Ids \ (missed \cup skipped), NewestIn(Unheard, x) = 0
             PROVE  UpToDate(x)
  BY DEF ReadViewIsUpToDate
<1>1. Heard(x) = now[x] \/ (x \in Requests /\ now[x] = 2 /\ Heard(x) # 1)
  BY DEF TranscriptInv, ReportsInv, HeardIsNewest
<1>2. ASSUME NEW i \in DOMAIN conv, conv[i].id = x PROVE ShownOn(view, panel, conv[i])
  <2>1. conv[i].seq \in 1..convSeq /\ convSeq \in Nat
    BY ViewFacts
  <2> QED BY <1>2, <2>1, ViewShown DEF TranscriptInv
<1>3. CASE x \in Parts
  <2>1. Heard(x) = now[x] /\ now[x] \in Nat /\ view[x] \in Nat /\ view[x] <= now[x]
    BY <1>1, <1>3, ViewFacts, ReportType DEF TranscriptInv, ViewIsTrue
  <2>2. CASE now[x] = 0
    BY <1>3, <2>1, <2>2 DEF UpToDate
  <2>3. CASE now[x] # 0
    <3>1. PICK i \in DOMAIN conv : conv[i].id = x /\ conv[i].ver = now[x]
      BY <2>1, <2>3, ViewFacts
    <3>2. view[x] = now[x]
      BY <1>2, <1>3, <3>1 DEF ShownOn
    <3> QED BY <1>3, <3>2 DEF UpToDate
  <2> QED BY <2>2, <2>3
<1>4. CASE x \in Requests
  <2> SUFFICES ASSUME now[x] = 2 PROVE panel # x
    BY <1>4 DEF UpToDate
  <2>1. CASE Heard(x) = 0
    BY <1>4, <2>1 DEF TranscriptInv, ViewIsTrue
  <2>2. CASE Heard(x) # 0
    <3>1. PICK i \in DOMAIN conv : conv[i].id = x /\ conv[i].ver = Heard(x)
      BY <2>2, ViewFacts
    <3>2. conv[i].ver = 2 /\ x \notin Parts
      <4>1. conv[i].ver \in 1..now[x] /\ Heard(x) # 1 /\ x \notin Parts
        BY <1>1, <1>4, <3>1, ViewFacts
      <4> QED BY <3>1, <4>1
    <3> QED BY <1>2, <3>1, <3>2 DEF ShownOn
  <2> QED BY <2>1, <2>2
<1> QED BY <1>3, <1>4 DEF Ids

(* Across full queues, failed and refused posts, crashes of the daemon     *)
(* between any two reports, edits that come while a post is under way,     *)
(* full conversations, evicted sessions, prompts pushed off the ring, and  *)
(* views that come and go: what is on its way about an id ends with the    *)
(* newest of it; what the daemon has heard of it once nothing more is to   *)
(* come is the newest, unless one of the places that lose reports lost it; *)
(* and what the view shows, up to its cursor, is what the conversation     *)
(* says, except for what a cursor from an earlier one passed over.         *)
THEOREM TranscriptHolds == TranscriptSpec => []TranscriptInv
<1>1. TranscriptInit => TranscriptInv
  BY TranscriptStarts
<1>2. TranscriptInv /\ [TranscriptNext]_transcriptVars => TranscriptInv'
  <2> SUFFICES ASSUME TranscriptInv, [TranscriptNext]_transcriptVars PROVE TranscriptInv'
    OBVIOUS
  <2>1. ReportsInv'
    BY ReportsStep DEF TranscriptInv
  <2>2. CASE (\E p \in Parts : Edit(p)) \/ (\E r \in Requests : Ask(r) \/ Settle(r))
    BY <2>1, <2>2, KiloViewed
  <2>3. CASE \/ Accepted \/ Refused \/ FlushFails \/ Finally \/ Downlink \/ OthersPublish
             \/ SessionGone \/ UNCHANGED transcriptVars
    BY <2>1, <2>3, AsideViewed
  <2>4. CASE Ingest
    BY <2>1, <2>4, IngestViewed DEF TranscriptInv
  <2>5. CASE Start
    BY <2>1, <2>5, StartViewed DEF TranscriptInv
  <2>6. CASE Crash \/ Evicted
    BY <2>1, <2>6, EndViewed DEF TranscriptInv
  <2>7. CASE OpenView
    BY <2>1, <2>7, OpenViewed DEF TranscriptInv
  <2>8. CASE Read
    BY <2>1, <2>8, ReadViewed DEF TranscriptInv
  <2> QED BY <2>2, <2>3, <2>4, <2>5, <2>6, <2>7, <2>8 DEF TranscriptNext, Flush, ViewLoop
<1> QED BY <1>1, <1>2, PTL DEF TranscriptSpec

(* From end to end: an open view whose cursor is that of the conversation  *)
(* has the newest text of every part and no panel of a settled prompt, of  *)
(* what is not on its way, was not lost and was not passed over.           *)
THEOREM ReadViewHolds == TranscriptSpec => []ReadViewIsUpToDate
BY TranscriptHolds, ReadViewShowsIt, PTL
================================================================================
