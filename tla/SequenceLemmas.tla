----------------------------- MODULE SequenceLemmas -----------------------------
(***************************************************************************)
(* What the helpers on sequences return, for every capacity and every      *)
(* content: the hub's bounded ring and queues, the filters, the lookups by *)
(* id, and the loops over a batch.  The facts that the proofs about the    *)
(* components rest on.                                                     *)
(***************************************************************************)
EXTENDS HubOps, SequenceTheorems, FiniteSetTheorems, WellFoundedInduction, TLAPS

(* A set of positions that is not empty has a first one.                   *)
LEMMA FirstPosition ==
  ASSUME NEW T, T \subseteq Nat, T # {}
  PROVE  \E x \in T : \A y \in T : x <= y
<1> DEFINE R == {ss \in Nat \X Nat : ss[1] < ss[2]}
<1>1. IsWellFoundedOn(R, Nat)
  BY NatLessThanWellFounded, Zenon DEF OpToRel
<1>2. PICK x \in T : \A y \in T : ~(<<y, x>> \in R)
  <2> HIDE DEF R
  <2> QED BY <1>1, WFMin, Zenon
<1>3. ASSUME NEW y \in T PROVE x <= y
  <2>1. x \in Nat /\ y \in Nat /\ <<y, x>> \notin R
    BY <1>2
  <2>2. ~(y < x)
    BY <2>1
  <2> QED BY <2>1, <2>2
<1> QED BY <1>3

(* LastN, the trim of a decision queue or of a conversation, yields a      *)
(* sequence of the same elements, at the same distance from the end.       *)
LEMMA LastNProperties ==
  ASSUME NEW S, NEW s \in Seq(S), NEW n \in Nat
  PROVE  /\ LastN(s, n) \in Seq(S)
         /\ Len(LastN(s, n)) = IF Len(s) > n THEN n ELSE Len(s)
         /\ \A i \in 1..Len(LastN(s, n)) :
              LastN(s, n)[i] = s[Len(s) - Len(LastN(s, n)) + i]
<1>1. CASE Len(s) > n
  <2>1. \A i \in (Len(s) - n + 1)..Len(s) : s[i] \in S
    BY <1>1, ElementOfSeq
  <2>2. /\ SubSeq(s, Len(s) - n + 1, Len(s)) \in Seq(S)
        /\ Len(SubSeq(s, Len(s) - n + 1, Len(s))) = n
        /\ \A i \in 1..n : SubSeq(s, Len(s) - n + 1, Len(s))[i] = s[Len(s) - n + i]
    BY <1>1, <2>1, SubSeqProperties
  <2> QED BY <1>1, <2>2 DEF LastN
<1>2. CASE ~(Len(s) > n)
  BY <1>2 DEF LastN
<1> QED BY <1>1, <1>2

(* publishLocked's append moves every retained envelope at most one place  *)
(* forward, puts the new one last, and keeps the ring within its size.     *)
LEMMA RingAppendProperties ==
  ASSUME NEW S, NEW ring \in Seq(S), NEW env \in S, NEW size \in Nat \ {0},
         Len(ring) <= size
  PROVE  LET new == RingAppend(ring, env, size)
         IN  /\ new \in Seq(S)
             /\ Len(new) = IF Len(ring) = size THEN size ELSE Len(ring) + 1
             /\ new[Len(new)] = env
             /\ \A i \in 1..(Len(new) - 1) : new[i] = ring[Len(ring) - Len(new) + 1 + i]
<1>1. /\ Append(ring, env) \in Seq(S)
      /\ Append(ring, env) # <<>>
      /\ Len(Append(ring, env)) = Len(ring) + 1
      /\ \A i \in 1..Len(ring) : Append(ring, env)[i] = ring[i]
      /\ Append(ring, env)[Len(ring) + 1] = env
  BY AppendProperties
<1>2. /\ Tail(Append(ring, env)) \in Seq(S)
      /\ Len(Tail(Append(ring, env))) = Len(ring)
      /\ \A i \in 1..Len(ring) : Tail(Append(ring, env))[i] = Append(ring, env)[i + 1]
  BY <1>1, HeadTailProperties
<1>3. CASE Len(ring) = size
  <2>1. RingAppend(ring, env, size) = Tail(Append(ring, env))
    BY <1>3 DEF RingAppend
  <2> QED BY <1>1, <1>2, <1>3, <2>1
<1>4. CASE Len(ring) # size
  <2>1. RingAppend(ring, env, size) = Append(ring, env)
    BY <1>4 DEF RingAppend
  <2> QED BY <1>1, <1>4, <2>1
<1> QED BY <1>3, <1>4

(* The elements from position a on, taken by position, are the suffix.     *)
LEMMA PickSuffix ==
  ASSUME NEW S, NEW s \in Seq(S), NEW a \in 1..(Len(s) + 1)
  PROVE  /\ Pick(s, a..Len(s)) \in Seq(S)
         /\ Len(Pick(s, a..Len(s))) = Len(s) + 1 - a
         /\ \A k \in 1..(Len(s) + 1 - a) : Pick(s, a..Len(s))[k] = s[a + k - 1]
<1> DEFINE n == Len(s) + 1 - a
           nth(k) == CHOOSE i \in a..Len(s) : Cardinality({j \in a..Len(s) : j <= i}) = k
<1>1. Len(s) \in Nat /\ n \in Nat /\ a \in Int
  BY LenProperties
<1>2. Cardinality(a..Len(s)) = n
  <2>1. \A b \in Int : Cardinality(a..b) = IF a > b THEN 0 ELSE b - a + 1
    BY <1>1, FS_Interval
  <2>2. Len(s) \in Int
    BY <1>1
  <2>3. Cardinality(a..Len(s)) = IF a > Len(s) THEN 0 ELSE Len(s) - a + 1
    BY <2>1, <2>2
  <2> QED BY <1>1, <2>3
<1>3. ASSUME NEW i \in a..Len(s)
      PROVE  Cardinality({j \in a..Len(s) : j <= i}) = i - a + 1
  <2>1. {j \in a..Len(s) : j <= i} = a..i
    BY <1>1
  <2>2. i \in Int /\ ~(a > i)
    BY <1>1
  <2> QED BY <1>1, <2>1, <2>2, FS_Interval
<1>4. ASSUME NEW k \in 1..n PROVE nth(k) = a + k - 1
  <2>1. a + k - 1 \in a..Len(s) /\ (a + k - 1) - a + 1 = k
    BY <1>1
  <2>2. ASSUME NEW i \in a..Len(s)
        PROVE  Cardinality({j \in a..Len(s) : j <= i}) = k <=> i = a + k - 1
    <3>1. Cardinality({j \in a..Len(s) : j <= i}) = i - a + 1
      BY <1>3
    <3> QED BY <1>1, <3>1
  <2> QED BY <2>1, <2>2
<1>5. Pick(s, a..Len(s)) = [k \in 1..n |-> s[nth(k)]]
  BY <1>2 DEF Pick
<1> HIDE DEF nth
<1>6. Pick(s, a..Len(s)) = [k \in 1..n |-> s[a + k - 1]]
  BY <1>4, <1>5
<1>7. \A k \in 1..n : s[a + k - 1] \in S
  <2> SUFFICES ASSUME NEW k \in 1..n PROVE s[a + k - 1] \in S
    OBVIOUS
  <2>1. a + k - 1 \in 1..Len(s)
    BY <1>1
  <2> QED BY <2>1, ElementOfSeq
<1>8. [k \in 1..n |-> s[a + k - 1]] \in Seq(S)
  BY <1>1, <1>7, SeqDef
<1>9. Len([k \in 1..n |-> s[a + k - 1]]) = n
  BY <1>1, <1>8, LenProperties
<1> QED BY <1>1, <1>6, <1>8, <1>9

(* The id that FirstEntry looks up is there.                               *)
LEMMA FirstEntryProperties ==
  ASSUME NEW S, NEW q \in Seq(S), NEW id, HasEntry(q, id)
  PROVE  FirstEntry(q, id) \in 1..Len(q) /\ q[FirstEntry(q, id)].id = id
<1>1. DOMAIN q = 1..Len(q) /\ Len(q) \in Nat
  BY LenProperties
<1> DEFINE T == {i \in 1..Len(q) : q[i].id = id}
<1>2. T \subseteq Nat /\ T # {}
  BY <1>1 DEF HasEntry
<1>3. PICK i \in T : \A y \in T : i <= y
  <2> HIDE DEF T
  <2> QED BY <1>2, FirstPosition
<1>4. i \in DOMAIN q /\ q[i].id = id /\ \A j \in DOMAIN q : j < i => q[j].id # id
  BY <1>1, <1>3
<1> QED BY <1>1, <1>4 DEF FirstEntry

(* sess.appendConv puts the entry into the conversation, keeps no other    *)
(* than the entries it had, and leaves an id to one entry.                 *)
LEMMA PutConvProperties ==
  ASSUME NEW S, NEW conv \in Seq(S), NEW entry \in S, NEW size \in Nat \ {0},
         \A i, j \in 1..Len(conv) : conv[i].id = conv[j].id => i = j
  PROVE  LET new == PutConv(conv, entry, size)
         IN  /\ new \in Seq(S)
             /\ \A i \in 1..Len(new) :
                  new[i] = entry \/ \E j \in 1..Len(conv) : conv[j] = new[i]
             /\ \E i \in 1..Len(new) : new[i] = entry
             /\ \A i, j \in 1..Len(new) : new[i].id = new[j].id => i = j
<1> DEFINE new == PutConv(conv, entry, size)
<1>1. Len(conv) \in Nat
  BY LenProperties
<1>2. CASE HasEntry(conv, entry.id)
  <2> DEFINE f == FirstEntry(conv, entry.id)
  <2>1. f \in 1..Len(conv) /\ conv[f].id = entry.id
    BY <1>2, FirstEntryProperties
  <2>2. new = [conv EXCEPT ![f] = entry]
    BY <1>2 DEF PutConv
  <2> HIDE DEF f, new
  <2>3. new \in Seq(S) /\ Len(new) = Len(conv)
    BY <2>1, <2>2, ExceptSeq
  <2>4. \A i \in 1..Len(conv) : new[i] = IF i = f THEN entry ELSE conv[i]
    BY <2>1, <2>2, ExceptSeq
  <2>5. \A i \in 1..Len(conv) : new[i].id = conv[i].id
    BY <2>1, <2>4
  <2> QED BY <2>1, <2>3, <2>4, <2>5 DEF new
<1>3. CASE ~HasEntry(conv, entry.id)
  <2> DEFINE all == Append(conv, entry)
             drop == Len(all) - Len(new)
  <2>1. /\ all \in Seq(S) /\ Len(all) = Len(conv) + 1
        /\ \A i \in 1..Len(conv) : all[i] = conv[i]
        /\ all[Len(conv) + 1] = entry
    BY AppendProperties
  <2>2. new = LastN(all, size)
    BY <1>3 DEF PutConv
  <2>3. DOMAIN conv = 1..Len(conv)
    BY LenProperties
  <2>4. \A i \in 1..Len(conv) : conv[i].id # entry.id
    BY <1>3, <2>3 DEF HasEntry
  <2> HIDE DEF all, new
  <2>5. /\ new \in Seq(S) /\ Len(new) \in 1..Len(all)
        /\ \A i \in 1..Len(new) : new[i] = all[drop + i]
    <3>1. /\ LastN(all, size) \in Seq(S)
          /\ Len(LastN(all, size)) = IF Len(all) > size THEN size ELSE Len(all)
          /\ \A i \in 1..Len(LastN(all, size)) :
               LastN(all, size)[i] = all[Len(all) - Len(LastN(all, size)) + i]
      <4>1. all \in Seq(S) /\ size \in Nat
        BY <2>1
      <4> QED BY <4>1, LastNProperties
    <3>2. Len(new) = IF Len(all) > size THEN size ELSE Len(all)
      BY <2>2, <3>1
    <3>3. Len(new) \in 1..Len(all)
      BY <1>1, <2>1, <3>2
    <3> QED BY <2>2, <3>1, <3>3
  <2>6. drop \in Nat /\ Len(new) \in Nat \ {0} /\ drop + Len(new) = Len(conv) + 1
    BY <1>1, <2>1, <2>5
  <2> HIDE DEF drop
  <2>7. \A i \in 1..Len(new) : drop + i \in 1..(Len(conv) + 1)
    BY <1>1, <2>6
  <2>8. new[Len(new)] = entry /\ Len(new) \in 1..Len(new)
    BY <2>1, <2>5, <2>6
  <2>9. \A i \in 1..Len(new) : new[i] = entry \/ \E j \in 1..Len(conv) : conv[j] = new[i]
    <3> SUFFICES ASSUME NEW i \in 1..Len(new)
                 PROVE  new[i] = entry \/ \E j \in 1..Len(conv) : conv[j] = new[i]
      OBVIOUS
    <3>1. CASE drop + i = Len(conv) + 1
      BY <2>1, <2>5, <3>1
    <3>2. CASE drop + i # Len(conv) + 1
      <4>1. drop + i \in 1..Len(conv)
        BY <1>1, <2>6, <2>7, <3>2
      <4> QED BY <2>1, <2>5, <4>1
    <3> QED BY <3>1, <3>2
  <2>10. \A m, n \in 1..(Len(conv) + 1) : all[m].id = all[n].id => m = n
    <3> SUFFICES ASSUME NEW m \in 1..(Len(conv) + 1), NEW n \in 1..(Len(conv) + 1),
                        all[m].id = all[n].id
                 PROVE  m = n
      OBVIOUS
    <3>1. CASE m \in 1..Len(conv) /\ n \in 1..Len(conv)
      BY <2>1, <3>1
    <3>2. CASE m = Len(conv) + 1 /\ n \in 1..Len(conv)
      BY <2>1, <2>4, <3>2
    <3>3. CASE n = Len(conv) + 1 /\ m \in 1..Len(conv)
      BY <2>1, <2>4, <3>3
    <3> QED BY <1>1, <3>1, <3>2, <3>3
  <2>11. \A i, j \in 1..Len(new) : new[i].id = new[j].id => i = j
    <3> SUFFICES ASSUME NEW i \in 1..Len(new), NEW j \in 1..Len(new), new[i].id = new[j].id
                 PROVE  i = j
      OBVIOUS
    <3>1. drop + i = drop + j
      BY <2>5, <2>7, <2>10
    <3> QED BY <2>6, <3>1
  <2> QED BY <2>5, <2>8, <2>9, <2>11 DEF new
<1> QED BY <1>2, <1>3

(* sess.appendConv keeps a conversation a sequence of entries.             *)
LEMMA PutConvType ==
  ASSUME NEW S, NEW conv \in Seq(S), NEW entry \in S, NEW size \in Nat
  PROVE  PutConv(conv, entry, size) \in Seq(S)
<1>1. \A i : [conv EXCEPT ![i] = entry] \in Seq(S)
  <2> SUFFICES ASSUME NEW i PROVE [conv EXCEPT ![i] = entry] \in Seq(S)
    OBVIOUS
  <2>1. CASE i \in 1..Len(conv)
    BY <2>1, ExceptSeq
  <2>2. CASE i \notin 1..Len(conv)
    BY <2>2, LenProperties, [conv EXCEPT ![i] = entry] = conv
  <2> QED BY <2>1, <2>2
<1>2. LastN(Append(conv, entry), size) \in Seq(S)
  BY AppendProperties, LastNProperties
<1> QED BY <1>1, <1>2 DEF PutConv

(* What is greater than c in a sorted sequence of numbers is a suffix.     *)
LEMMA SortedSuffix ==
  ASSUME NEW s \in Seq(Nat), NEW c \in Int,
         \A i, j \in 1..Len(s) : i <= j => s[i] <= s[j]
  PROVE  \E a \in 1..(Len(s) + 1) : {i \in DOMAIN s : s[i] > c} = a..Len(s)
<1>1. DOMAIN s = 1..Len(s) /\ Len(s) \in Nat /\ \A i \in 1..Len(s) : s[i] \in Nat
  BY LenProperties, ElementOfSeq
<1> DEFINE I == {i \in 1..Len(s) : s[i] > c}
<1>2. CASE I = {}
  <2>1. I = (Len(s) + 1)..Len(s) /\ Len(s) + 1 \in 1..(Len(s) + 1)
    BY <1>1, <1>2
  <2> QED BY <1>1, <2>1
<1>3. CASE I # {}
  <2>1. I \subseteq Nat
    BY <1>1
  <2>2. PICK a \in I : \A y \in I : a <= y
    BY <1>3, <2>1, FirstPosition
  <2>3. ASSUME NEW i \in a..Len(s) PROVE i \in I
    <3>1. a \in 1..Len(s) /\ s[a] > c /\ i \in 1..Len(s) /\ a <= i
      BY <1>1, <2>2, <2>3
    <3>2. s[a] <= s[i] /\ s[a] \in Nat /\ s[i] \in Nat
      BY <1>1, <3>1
    <3> QED BY <3>1, <3>2
  <2>4. I = a..Len(s)
    BY <1>1, <2>2, <2>3
  <2> QED BY <1>1, <2>2, <2>4
<1> QED BY <1>2, <1>3

(* Two segments of the same length have as many positions.                 *)
LEMMA SegmentLength ==
  ASSUME NEW a \in Int, NEW b \in Int, a <= b + 1
  PROVE  IsFiniteSet(a..b) /\ Cardinality(a..b) = b + 1 - a
<1>1. Cardinality(a..b) = IF a > b THEN 0 ELSE b - a + 1
  BY FS_Interval
<1> QED BY <1>1, FS_Interval

(* What holds at first and is kept by every pass of a loop holds always.   *)
LEMMA LoopInduction ==
  ASSUME NEW n \in Nat, NEW G, 0 \in G, \A k \in 1..n : k - 1 \in G => k \in G
  PROVE  \A k \in 0..n : k \in G
<1> DEFINE T == {k \in 0..n : k \notin G}
<1>1. T = {}
  <2> SUFFICES ASSUME T # {} PROVE FALSE
    OBVIOUS
  <2>1. T \subseteq Nat
    OBVIOUS
  <2>2. PICK k \in T : \A y \in T : k <= y
    <3> HIDE DEF T
    <3> QED BY <2>1, FirstPosition
  <2>3. k \in 0..n /\ k \notin G /\ k # 0
    BY <2>2
  <2>4. k \in 1..n /\ k - 1 \in 0..n /\ ~(k <= k - 1)
    BY <2>3
  <2>5. k - 1 \in G
    BY <2>2, <2>4
  <2> QED BY <2>3, <2>4, <2>5
<1> QED BY <1>1

(* A set of positions that is not empty has a last one.                    *)
LEMMA LastPosition ==
  ASSUME NEW n \in Nat, NEW T, T \subseteq 0..n, T # {}
  PROVE  \E x \in T : \A y \in T : y <= x
<1> DEFINE U == {u \in Nat : \A y \in T : y <= u}
<1>1. n \in U
  OBVIOUS
<1>2. PICK u \in U : \A v \in U : u <= v
  <2>1. U \subseteq Nat /\ U # {}
    BY <1>1
  <2> HIDE DEF U
  <2> QED BY <2>1, FirstPosition
<1>3. u \in T
  <2> SUFFICES ASSUME u \notin T PROVE FALSE
    OBVIOUS
  <2>1. PICK t \in T : TRUE
    OBVIOUS
  <2>2. \A y \in T : y \in Nat /\ y <= u /\ y # u
    BY <1>2
  <2>3. u - 1 \in U
    BY <1>2, <2>1, <2>2
  <2> QED BY <1>2, <2>3
<1> QED BY <1>2, <1>3

(* The k-th of the positions I.                                            *)
NthOf(I, k) == CHOOSE i \in I : Cardinality({j \in I : j <= i}) = k

(* t is of the elements of s, one for every position in I, in their order. *)
PickedBy(t, s, I) ==
  /\ Len(t) = Cardinality(I)
  /\ \A k \in 1..Cardinality(I) : NthOf(I, k) \in I /\ t[k] = s[NthOf(I, k)]
  /\ \A i \in I : \E k \in 1..Cardinality(I) : NthOf(I, k) = i
  /\ \A k, l \in 1..Cardinality(I) : k < l => NthOf(I, k) < NthOf(I, l)

(* A filter returns the elements of the slice that it keeps.               *)
LEMMA PickProperties ==
  ASSUME NEW S, NEW s \in Seq(S), NEW I, I \subseteq 1..Len(s)
  PROVE  /\ Pick(s, I) \in Seq(S)
         /\ IsFiniteSet(I) /\ Cardinality(I) \in Nat
         /\ PickedBy(Pick(s, I), s, I)
<1> DEFINE upTo(i) == {j \in I : j <= i}
           c == Cardinality(I)
<1>1. /\ Len(s) \in Nat /\ I \subseteq Nat
      /\ \A j \in I : j \in Nat /\ 1 <= j /\ j <= Len(s)
  BY LenProperties
<1> HIDE DEF c
<1>2. IsFiniteSet(I) /\ c \in Nat
  <2>1. \A x \in I : x <= Len(s)
    OBVIOUS
  <2>2. IsFiniteSet(I)
    BY <1>1, <2>1, FS_BoundedSetOfNaturals
  <2> QED BY <2>2, FS_CardinalityType DEF c
<1>3. \A i \in Nat : IsFiniteSet(upTo(i)) /\ Cardinality(upTo(i)) \in Nat
  <2> SUFFICES ASSUME NEW i \in Nat
               PROVE  IsFiniteSet(upTo(i)) /\ Cardinality(upTo(i)) \in Nat
    OBVIOUS
  <2>1. upTo(i) \in SUBSET I
    OBVIOUS
  <2>2. IsFiniteSet(upTo(i))
    <3> HIDE DEF upTo
    <3> QED BY <1>2, <2>1, FS_Subset
  <2> QED BY <2>2, FS_CardinalityType
<1>4. \A i \in Nat : Cardinality(upTo(i + 1)) <= Cardinality(upTo(i)) + 1
                     /\ (i + 1 \notin I => upTo(i + 1) = upTo(i))
  <2> SUFFICES ASSUME NEW i \in Nat
               PROVE  /\ Cardinality(upTo(i + 1)) <= Cardinality(upTo(i)) + 1
                      /\ (i + 1 \notin I => upTo(i + 1) = upTo(i))
    OBVIOUS
  <2>1. CASE i + 1 \in I
    <3>1. \A j \in I : j <= i + 1 <=> (j <= i \/ j = i + 1)
      BY <1>1
    <3>2. ~(i + 1 <= i)
      OBVIOUS
    <3>3. i + 1 <= i + 1
      OBVIOUS
    <3>4. upTo(i + 1) = upTo(i) \cup {i + 1} /\ i + 1 \notin upTo(i)
      BY <2>1, <3>1, <3>2, <3>3, Zenon
    <3>5. IsFiniteSet(upTo(i)) /\ Cardinality(upTo(i)) \in Nat
      BY <1>3
    <3> HIDE DEF upTo
    <3>6. Cardinality(upTo(i) \cup {i + 1}) = Cardinality(upTo(i)) + 1
      BY <3>4, <3>5, FS_AddElement
    <3>7. Cardinality(upTo(i + 1)) = Cardinality(upTo(i)) + 1
      BY <3>4, <3>6, Zenon
    <3>8. Cardinality(upTo(i + 1)) <= Cardinality(upTo(i)) + 1
      BY <3>5, <3>7
    <3> QED BY <2>1, <3>8, Zenon
  <2>2. CASE i + 1 \notin I
    <3>1. \A j \in I : j <= i + 1 <=> j <= i
      BY <1>1, <2>2
    <3>2. upTo(i + 1) = upTo(i)
      BY <3>1, Zenon
    <3>3. Cardinality(upTo(i)) \in Nat
      BY <1>3
    <3> HIDE DEF upTo
    <3>4. Cardinality(upTo(i + 1)) = Cardinality(upTo(i))
      BY <3>2, Zenon
    <3>5. Cardinality(upTo(i + 1)) <= Cardinality(upTo(i)) + 1
      BY <3>3, <3>4
    <3> QED BY <3>2, <3>5, Zenon
  <2> HIDE DEF upTo
  <2> QED BY <2>1, <2>2
<1>5. Cardinality(upTo(0)) = 0 /\ upTo(Len(s)) = I
  <2>1. \A j \in I : ~(j <= 0) /\ j <= Len(s)
    BY <1>1
  <2>2. upTo(0) = {} /\ upTo(Len(s)) = I
    BY <2>1, Zenon
  <2> QED BY <2>2, FS_EmptySet
<1>6. ASSUME NEW k \in 1..c PROVE \E i \in I : Cardinality(upTo(i)) = k
  <2> DEFINE T == {i \in Nat : k <= Cardinality(upTo(i))}
  <2>1. T \subseteq Nat /\ T # {}
    <3> HIDE DEF upTo
    <3>1. Len(s) \in T
      <4>1. Cardinality(upTo(Len(s))) = c
        BY <1>5, Zenon DEF c
      <4> QED BY <1>1, <1>2, <4>1
    <3> QED BY <3>1
  <2>2. PICK i \in T : \A y \in T : i <= y
    <3> HIDE DEF T
    <3> QED BY <2>1, FirstPosition
  <2>3. i \in Nat /\ k <= Cardinality(upTo(i))
    BY <2>2
  <2>4. i # 0
    <3> HIDE DEF upTo
    <3> QED BY <1>5, <2>3
  <2>5. i - 1 \in Nat /\ i - 1 \notin T /\ (i - 1) + 1 = i
    <3>1. ~(i <= i - 1) /\ i - 1 \in Nat /\ (i - 1) + 1 = i
      BY <2>3, <2>4
    <3> HIDE DEF T
    <3> QED BY <2>2, <3>1
  <2>6. Cardinality(upTo(i - 1)) \in Nat /\ Cardinality(upTo(i)) \in Nat
    <3> HIDE DEF upTo
    <3> QED BY <1>3, <2>3, <2>5
  <2>7. /\ Cardinality(upTo(i)) <= Cardinality(upTo(i - 1)) + 1
        /\ (i \notin I => upTo(i) = upTo(i - 1))
    <3> HIDE DEF upTo
    <3>1. /\ Cardinality(upTo((i - 1) + 1)) <= Cardinality(upTo(i - 1)) + 1
          /\ ((i - 1) + 1 \notin I => upTo((i - 1) + 1) = upTo(i - 1))
      BY <1>4, <2>5
    <3> QED BY <2>5, <3>1
  <2>8. ~(k <= Cardinality(upTo(i - 1)))
    BY <2>5
  <2> HIDE DEF upTo, T
  <2> QED BY <1>2, <2>3, <2>6, <2>7, <2>8
<1>7. \A k \in 1..c : NthOf(I, k) \in I /\ Cardinality(upTo(NthOf(I, k))) = k
  <2> SUFFICES ASSUME NEW k \in 1..c
               PROVE  NthOf(I, k) \in I /\ Cardinality(upTo(NthOf(I, k))) = k
    OBVIOUS
  <2>1. NthOf(I, k) = CHOOSE i \in I : Cardinality(upTo(i)) = k
    BY DEF NthOf
  <2> HIDE DEF upTo
  <2> QED BY <1>6, <2>1
<1>8. Pick(s, I) = [k \in 1..c |-> s[NthOf(I, k)]]
  BY DEF Pick, NthOf, c
<1>9. \A k \in 1..c : Pick(s, I)[k] = s[NthOf(I, k)]
  BY <1>8
<1>10. ASSUME NEW k \in 1..c, NEW l \in 1..c, k < l PROVE NthOf(I, k) < NthOf(I, l)
  <2>1. /\ NthOf(I, k) \in I /\ NthOf(I, l) \in I
        /\ NthOf(I, k) \in Nat /\ NthOf(I, l) \in Nat
        /\ Cardinality(upTo(NthOf(I, k))) = k /\ Cardinality(upTo(NthOf(I, l))) = l
    BY <1>1, <1>7
  <2>2. ASSUME NthOf(I, l) <= NthOf(I, k) PROVE l <= k
    <3>1. \A j \in I : j <= NthOf(I, l) => j <= NthOf(I, k)
      BY <1>1, <2>1, <2>2
    <3>2. upTo(NthOf(I, l)) \in SUBSET upTo(NthOf(I, k))
      BY <3>1, Zenon
    <3>3. IsFiniteSet(upTo(NthOf(I, k)))
      BY <1>3, <2>1
    <3> HIDE DEF upTo
    <3>4. Cardinality(upTo(NthOf(I, l))) <= Cardinality(upTo(NthOf(I, k)))
      BY <3>2, <3>3, FS_Subset
    <3> QED BY <2>1, <3>4
  <2> HIDE DEF upTo
  <2>3. ~(NthOf(I, l) <= NthOf(I, k))
    BY <1>2, <1>10, <2>2
  <2> QED BY <2>1, <2>3
<1>11. \A k \in 1..c : s[NthOf(I, k)] \in S
  BY <1>7, ElementOfSeq
<1>12. ASSUME NEW i \in I PROVE \E k \in 1..c : NthOf(I, k) = i
  <2> DEFINE k == Cardinality(upTo(i))
  <2>1. i \in Nat /\ i \in upTo(i) /\ upTo(i) \in SUBSET I
    BY <1>1
  <2>2. k \in Nat /\ k <= c /\ k # 0
    <3>1. IsFiniteSet(upTo(i))
      BY <1>3, <2>1
    <3> HIDE DEF upTo
    <3> QED BY <1>2, <2>1, <3>1, FS_Subset, FS_CardinalityType, FS_EmptySet DEF c
  <2>3. k \in 1..c
    <3> HIDE DEF k
    <3> QED BY <1>2, <2>2
  <2> DEFINE j == NthOf(I, k)
  <2>4. j \in I /\ j \in Nat /\ Cardinality(upTo(j)) = k
    <3> HIDE DEF k, upTo
    <3> QED BY <1>1, <1>7, <2>3
  <2>5. ASSUME NEW a \in I, NEW d \in I, a < d
        PROVE  Cardinality(upTo(a)) # Cardinality(upTo(d))
    <3>1. a \in Nat /\ d \in Nat /\ d <= d /\ ~(d <= a) /\ \A y \in I : y <= a => y <= d
      BY <1>1, <2>5
    <3>2. upTo(a) \in SUBSET upTo(d) /\ d \in upTo(d) /\ d \notin upTo(a)
      BY <3>1, Zenon
    <3>3. IsFiniteSet(upTo(d))
      BY <1>3, <3>1
    <3> HIDE DEF upTo
    <3> QED BY <3>2, <3>3, FS_Subset
  <2> HIDE DEF upTo
  <2>6. ~(i < j) /\ ~(j < i)
    BY <2>4, <2>5
  <2>7. i = j
    <3> HIDE DEF j
    <3> QED BY <2>1, <2>4, <2>6
  <2> QED BY <2>3, <2>7
<1> HIDE DEF upTo
<1>13. Pick(s, I) \in Seq(S)
  <2>1. Pick(s, I) \in [1..c -> S]
    BY <1>8, <1>11
  <2> QED BY <1>2, <2>1, SeqDef
<1>14. Len(Pick(s, I)) = c
  <2>1. DOMAIN Pick(s, I) = 1..c
    BY <1>8
  <2>2. DOMAIN Pick(s, I) = 1..Len(Pick(s, I)) /\ Len(Pick(s, I)) \in Nat
    BY <1>13, LenProperties
  <2> QED BY <1>2, <2>1, <2>2
<1>15. PickedBy(Pick(s, I), s, I)
  BY <1>7, <1>9, <1>10, <1>14, <1>12 DEF PickedBy, c
<1> QED BY <1>2, <1>13, <1>15 DEF c

(* Two elements are two.                                                   *)
LEMMA PairCardinality ==
  ASSUME NEW a, NEW b, a # b
  PROVE  Cardinality({a, b}) = 2
<1>1. Cardinality({a}) = 1 /\ IsFiniteSet({a}) /\ b \notin {a}
  BY FS_Singleton
<1>2. Cardinality({a} \cup {b}) = Cardinality({a}) + 1
  BY <1>1, FS_AddElement
<1>3. Cardinality({a} \cup {b}) = 2
  BY <1>1, <1>2
<1>4. {a} \cup {b} = {a, b}
  OBVIOUS
<1> QED BY <1>3, <1>4, Zenon

(* The values, from base on, of a loop over s that applies F.              *)
LoopValues(h, S, base, s, F) ==
  /\ h \in [0..Len(s) -> S] /\ h[0] = base
  /\ \A n \in 1..Len(s) : h[n] = F[h[n - 1]][s[n]]

(* A loop over a sequence has a value after each of its elements: the      *)
(* equation that defines a recursive function on positions has a solution. *)
LEMMA LoopSolution ==
  ASSUME NEW S, NEW base \in S, NEW R, NEW s \in Seq(R), NEW F \in [S -> [R -> S]]
  PROVE  \E h : LoopValues(h, S, base, s, F)
<1> DEFINE Solves(h, n) == /\ h \in [0..n -> S] /\ h[0] = base
                           /\ \A i \in 1..n : h[i] = F[h[i - 1]][s[i]]
           G == {n \in 0..Len(s) : \E h : Solves(h, n)}
<1>1. Len(s) \in Nat /\ \A i \in 1..Len(s) : s[i] \in R
  BY LenProperties, ElementOfSeq
<1>2. \E h : Solves(h, 0)
  <2> DEFINE h == [i \in 0..0 |-> base]
  <2>1. h \in [0..0 -> S] /\ h[0] = base /\ \A i \in 1..0 : FALSE
    OBVIOUS
  <2> HIDE DEF h
  <2>2. Solves(h, 0)
    BY <2>1
  <2> QED BY <2>2
<1>3. ASSUME NEW n \in 1..Len(s), NEW h, Solves(h, n - 1) PROVE \E g : Solves(g, n)
  <2> DEFINE g == [i \in 0..n |-> IF i = n THEN F[h[n - 1]][s[n]] ELSE h[i]]
  <2>1. /\ h \in [0..(n - 1) -> S] /\ h[0] = base
        /\ \A i \in 1..(n - 1) : h[i] = F[h[i - 1]][s[i]]
    BY <1>3
  <2>2. n - 1 \in 0..(n - 1) /\ n \in Nat /\ n # 0 /\ \A i \in 0..n : i # n => i \in 0..(n - 1)
    BY <1>1
  <2>3. F[h[n - 1]][s[n]] \in S
    BY <1>1, <2>1, <2>2
  <2>4. g \in [0..n -> S] /\ g[0] = base
    BY <2>1, <2>2, <2>3
  <2>5. ASSUME NEW i \in 1..n PROVE g[i] = F[g[i - 1]][s[i]]
    <3>1. i - 1 \in 0..n /\ i - 1 # n /\ i \in 0..n /\ (i # n => i \in 1..(n - 1))
      BY <2>2
    <3>2. g[i - 1] = h[i - 1] /\ g[i] = IF i = n THEN F[h[n - 1]][s[n]] ELSE h[i]
      BY <3>1
    <3> HIDE DEF g
    <3> QED BY <2>1, <3>1, <3>2
  <2> HIDE DEF g
  <2>6. Solves(g, n)
    BY <2>4, <2>5
  <2> QED BY <2>6
<1> HIDE DEF Solves
<1>4. 0 \in G /\ \A n \in 1..Len(s) : n - 1 \in G => n \in G
  <2>1. 0 \in 0..Len(s) /\ \A n \in 1..Len(s) : n \in 0..Len(s)
    BY <1>1
  <2> QED BY <1>2, <1>3, <2>1
<1>5. PICK h : Solves(h, Len(s))
  <2>1. Len(s) \in 0..Len(s)
    BY <1>1
  <2>2. Len(s) \in G
    <3> HIDE DEF G
    <3> QED BY <1>1, <1>4, <2>1, LoopInduction
  <2> QED BY <2>2
<1> QED BY <1>5 DEF Solves, LoopValues

================================================================================
