---------------------------- MODULE ElectionProofs ----------------------------
(***************************************************************************)
(* Proofs about Election, for any number of windows, daemons and crashes:  *)
(* the pin does not move, the serving daemon is reachable, and a start     *)
(* that fails has a reason.                                                *)
(***************************************************************************)
EXTENDS Election, FiniteSetTheorems, TLAPS

(* What starts and stops one at a time has been so all along.              *)
LEMMA CalmBefore ==
  ASSUME TypeOK, [Next]_vars, calm'
  PROVE  calm
BY DEF TypeOK, Next, vars, hist, marks, WindowStep, DaemonStep, Start, TryAdopt, CleanUp, TryLock,
       WriteLock, Spawn, BinaryMissing, WaitEnds, Close, StopOwn, StopAdopted, StopCleans, Serve, Pair, PostPairing, EnsureCert,
       LoadOrCreateKey, WriteFile, LoadCert, Dial, RemoveStale, Listen, ListenAndServe, Exit,
       Crash, RemoveCert

(* Nothing is under way when it is quiet.                                  *)
LEMMA WhenQuiet ==
  ASSUME TypeOK, Quiet
  PROVE  /\ \A d \in Daemons : ~InTransit(d) /\ dmn[d] \in {"new", "serving", "dead"}
         /\ \A w \in Windows : win[w] \notin Electing \cup {"stopping"}
<1>1. \A d \in Daemons : dmn[d] \in {"new", "serving", "dead"}
  BY DEF Quiet, Settled
<1> QED BY <1>1 DEF Quiet, Settled, InTransit, Preparing, Binding

(* What holds of the state whether or not it is calm.                      *)
StateInv == TypeOK /\ KeysAreCounted /\ KeyInMemory /\ PortIsServing /\ ToolsAreRun

(* A daemon that goes on has not made fewer keys.                          *)
LEMMA CountedKeys ==
  ASSUME TypeOK, KeysAreCounted, UNCHANGED keys, PastKey \subseteq PastKey'
  PROVE  KeysAreCounted'
<1>1. IsFiniteSet(PastKey')
  <2>1. PastKey' \subseteq Daemons
    BY DEF PastKey
  <2> QED BY <2>1, ElectionAssumption, FS_Subset
<1>2. Cardinality(PastKey) <= Cardinality(PastKey') /\ IsFiniteSet(PastKey)
  BY <1>1, FS_Subset
<1>3. Cardinality(PastKey) \in Nat /\ Cardinality(PastKey') \in Nat
  BY <1>1, <1>2, FS_CardinalityType
<1>4. keys \in Nat
  <2>1. Cardinality(Daemons) \in Nat
    BY ElectionAssumption, FS_CardinalityType
  <2> QED BY <2>1 DEF TypeOK
<1> QED BY <1>2, <1>3, <1>4 DEF KeysAreCounted

(* The types, the daemons that are past the key, and the port.             *)
LEMMA TypesStep ==
  ASSUME ElectionInv, [Next]_vars
  PROVE  StateInv'
<1>1. /\ TypeOK /\ KeysAreCounted /\ KeyInMemory /\ PortIsServing /\ ToolsAreRun
      /\ MaxCrashes \in Nat
      /\ Cardinality(Daemons) \in Nat /\ None \notin Daemons
  BY ElectionAssumption, FS_CardinalityType DEF ElectionInv
<1> USE DEF StateInv, KeyInMemory, files, hist, marks, TypeOK, WStep, DStep, Preparing, Binding,
            Electing, File, Keys, Absent, Torn, PortIsServing, ToolsAreRun, PastKey,
            Starting
<1>2. ASSUME NEW w \in Windows, Start(w) PROVE StateInv'
  BY <1>1, <1>2, CountedKeys DEF Start
<1>3. ASSUME NEW w \in Windows, TryAdopt(w) PROVE StateInv'
  BY <1>1, <1>3, CountedKeys DEF TryAdopt
<1>4. ASSUME NEW w \in Windows, CleanUp(w) PROVE StateInv'
  BY <1>1, <1>4, CountedKeys DEF CleanUp
<1>5. ASSUME NEW w \in Windows, TryLock(w) PROVE StateInv'
  BY <1>1, <1>5, CountedKeys DEF TryLock, Alive, Reclaims
<1>6. ASSUME NEW w \in Windows, WriteLock(w) PROVE StateInv'
  BY <1>1, <1>6, CountedKeys DEF WriteLock
<1>7. ASSUME NEW w \in Windows, NEW d \in Daemons, Spawn(w, d) PROVE StateInv'
  BY <1>1, <1>7, CountedKeys DEF Spawn
<1>8. ASSUME NEW w \in Windows, WaitEnds(w) PROVE StateInv'
  BY <1>1, <1>8, CountedKeys DEF WaitEnds
<1>9. ASSUME NEW w \in Windows, Close(w) PROVE StateInv'
  BY <1>1, <1>9, CountedKeys DEF Close, Alive
<1>10. ASSUME NEW w \in Windows, StopOwn(w) PROVE StateInv'
  BY <1>1, <1>10, CountedKeys DEF StopOwn, Terminated
<1>11. ASSUME NEW w \in Windows, StopAdopted(w) PROVE StateInv'
  BY <1>1, <1>11, CountedKeys DEF StopAdopted, Alive
<1>12. ASSUME NEW w \in Windows, StopCleans(w) PROVE StateInv'
  BY <1>1, <1>12, CountedKeys DEF StopCleans
<1>13. ASSUME NEW d \in Daemons, Serve(d) PROVE StateInv'
  BY <1>1, <1>13, CountedKeys DEF Serve
<1>14. ASSUME NEW d \in Daemons, EnsureCert(d) PROVE StateInv'
  BY <1>1, <1>14, CountedKeys DEF EnsureCert
<1>15. ASSUME NEW d \in Daemons, LoadOrCreateKey(d) PROVE StateInv'
  <2>1. CASE UNCHANGED keys
    BY <1>1, <1>15, <2>1, CountedKeys DEF LoadOrCreateKey, HasKey, HalfAFile
  <2>2. CASE /\ DStep(d, "key", "openkey") /\ calm' = (calm /\ ~HasKey(d))
             /\ keys' = keys + 1 /\ own' = [own EXCEPT ![d] = keys + 1]
    <3>1. d \notin PastKey /\ PastKey' = PastKey \cup {d} /\ IsFiniteSet(PastKey)
          /\ PastKey \cup {d} \subseteq Daemons
      <4>1. PastKey \subseteq Daemons
        OBVIOUS
      <4> QED BY <1>1, <2>2, <4>1, ElectionAssumption, FS_Subset
    <3>2. Cardinality(PastKey') = Cardinality(PastKey) + 1
      <4> HIDE DEF PastKey
      <4> QED BY <3>1, FS_AddElement
    <3>3. Cardinality(PastKey') <= Cardinality(Daemons) /\ Cardinality(PastKey) \in Nat
      <4> HIDE DEF PastKey
      <4> QED BY <3>1, ElectionAssumption, FS_Subset, FS_CardinalityType
    <3> HIDE DEF PastKey
    <3>4. keys + 1 \in Keys /\ KeysAreCounted'
      BY <1>1, <2>2, <3>2, <3>3 DEF KeysAreCounted
    <3>5. /\ UNCHANGED <<win, proc, tool, told, sock, lock, keyFile, certFile, port, crashes, pins>>
          /\ excused' \subseteq Windows
      BY <1>1, <1>15 DEF LoadOrCreateKey, HalfAFile
    <3>6. calm' \in BOOLEAN
      BY <2>2
    <3>7. PortIsServing' /\ ToolsAreRun' /\ KeyInMemory'
      BY <1>1, <2>2, <3>4, <3>5
    <3>8. TypeOK'
      BY <1>1, <2>2, <3>4, <3>5, <3>6
    <3> QED BY <3>4, <3>7, <3>8
  <2> QED BY <1>15, <2>1, <2>2 DEF LoadOrCreateKey
<1>16. ASSUME NEW d \in Daemons, WriteFile(d) PROVE StateInv'
  BY <1>1, <1>16, CountedKeys DEF WriteFile
<1>17. ASSUME NEW d \in Daemons, LoadCert(d) PROVE StateInv'
  BY <1>1, <1>17, CountedKeys DEF LoadCert, IsPair, HalfAFile
<1>18. ASSUME NEW d \in Daemons, Dial(d) PROVE StateInv'
  BY <1>1, <1>18, CountedKeys DEF Dial
<1>19. ASSUME NEW d \in Daemons, RemoveStale(d) PROVE StateInv'
  BY <1>1, <1>19, CountedKeys DEF RemoveStale
<1>20. ASSUME NEW d \in Daemons, Listen(d) PROVE StateInv'
  BY <1>1, <1>20, CountedKeys DEF Listen
<1>21. ASSUME NEW d \in Daemons, ListenAndServe(d) PROVE StateInv'
  BY <1>1, <1>21, CountedKeys DEF ListenAndServe
<1>22. ASSUME NEW d \in Daemons, Exit(d) PROVE StateInv'
  BY <1>1, <1>22, CountedKeys DEF Exit
<1>23. ASSUME NEW d \in Daemons, Crash(d) PROVE StateInv'
  BY <1>1, <1>23, CountedKeys DEF Crash, Live
<1>24. CASE RemoveCert
  BY <1>1, <1>24, CountedKeys DEF RemoveCert
<1>25. ASSUME NEW w \in Windows, BinaryMissing(w) PROVE StateInv'
  BY <1>1, <1>25, CountedKeys DEF BinaryMissing
<1>26. ASSUME NEW d \in Daemons, Pair(d) PROVE StateInv'
  BY <1>1, <1>26, CountedKeys DEF Pair
<1>27. ASSUME NEW d \in Daemons, PostPairing(d) PROVE StateInv'
  BY <1>1, <1>27, CountedKeys DEF PostPairing
<1>28. CASE UNCHANGED vars
  BY <1>1, <1>28, CountedKeys DEF vars
<1> QED BY <1>1, <1>2, <1>3, <1>4, <1>5, <1>6, <1>7, <1>8, <1>9, <1>10, <1>11,
       <1>12, <1>13, <1>14, <1>15, <1>16, <1>17, <1>18, <1>19, <1>20, <1>21,
       <1>22, <1>23, <1>24, <1>25, <1>26, <1>27, <1>28
     DEF Next, WindowStep, DaemonStep

(* A daemon at the key is at no other place, and gives up on half a file.  *)
LEMMA KeyStep ==
  ASSUME TypeOK, NEW d \in Daemons, LoadOrCreateKey(d)
  PROVE  /\ UNCHANGED <<win, proc, tool, told, sock>>
         /\ dmn[d] = "key" /\ dmn'[d] \in {"dead", "opencert", "openkey"}
         /\ \A e \in Daemons : e # d => dmn'[e] = dmn[e]
         /\ dmn'[d] = "dead" => keyFile = Torn
BY DEF LoadOrCreateKey, DStep, TypeOK

(* One window at work, and one daemon on its way.                          *)
LEMMA OneAtATimeStep ==
  ASSUME ElectionInv, [Next]_vars, calm'
  PROVE  OneAtATime'
<1>1. TypeOK /\ OneAtATime /\ calm /\ calm'
  BY CalmBefore DEF ElectionInv, CalmInv
<1> USE DEF files, hist, marks, OneAtATime, InTransit, Starting, TypeOK, WStep, DStep, Electing, Preparing,
            Binding
<1>2. ASSUME NEW w \in Windows, Start(w) PROVE OneAtATime'
  <2>1. Quiet
    BY <1>2 DEF Start
  <2> QED BY <1>1, <1>2, <2>1, WhenQuiet DEF Start
<1>3. ASSUME NEW w \in Windows, TryAdopt(w) PROVE OneAtATime'
  BY <1>1, <1>3 DEF TryAdopt
<1>4. ASSUME NEW w \in Windows, CleanUp(w) PROVE OneAtATime'
  BY <1>1, <1>4 DEF CleanUp
<1>5. ASSUME NEW w \in Windows, TryLock(w) PROVE OneAtATime'
  BY <1>1, <1>5 DEF TryLock, Alive
<1>6. ASSUME NEW w \in Windows, WriteLock(w) PROVE OneAtATime'
  BY <1>1, <1>6 DEF WriteLock
<1>7. ASSUME NEW w \in Windows, NEW d \in Daemons, Spawn(w, d) PROVE OneAtATime'
  BY <1>1, <1>7 DEF Spawn
<1>8. ASSUME NEW w \in Windows, WaitEnds(w) PROVE OneAtATime'
  BY <1>1, <1>8 DEF WaitEnds
<1>9. ASSUME NEW w \in Windows, Close(w) PROVE OneAtATime'
  BY <1>1, <1>9 DEF Close, Alive
<1>10. ASSUME NEW w \in Windows, StopOwn(w) PROVE OneAtATime'
  <2>1. Quiet /\ proc[w] \in Daemons /\ dmn[proc[w]] = "serving"
    BY <1>1, <1>10 DEF StopOwn
  <2>2. /\ \A d \in Daemons : dmn'[d] = IF d = proc[w] THEN "exit" ELSE dmn[d]
        /\ \A v \in Windows : win'[v] = IF v = w THEN "stopping" ELSE win[v]
    BY <1>1, <1>10, <2>1 DEF StopOwn, Terminated
  <2> QED BY <1>1, <2>1, <2>2, WhenQuiet
<1>11. ASSUME NEW w \in Windows, StopCleans(w) PROVE OneAtATime'
  BY <1>1, <1>11 DEF StopCleans, Live
<1>12. ASSUME NEW d \in Daemons, Serve(d) PROVE OneAtATime'
  <2>1. Quiet
    BY <1>12 DEF Serve
  <2> QED BY <1>1, <1>12, <2>1, WhenQuiet DEF Serve
<1>13. ASSUME NEW d \in Daemons, EnsureCert(d) PROVE OneAtATime'
  BY <1>1, <1>13 DEF EnsureCert
<1>14. ASSUME NEW d \in Daemons, LoadOrCreateKey(d) PROVE OneAtATime'
  <2>1. /\ UNCHANGED win /\ dmn[d] = "key"
        /\ \A e \in Daemons : e # d => dmn'[e] = dmn[e]
    BY <1>1, <1>14, KeyStep
  <2> QED BY <1>1, <2>1
<1>15. ASSUME NEW d \in Daemons, WriteFile(d) PROVE OneAtATime'
  BY <1>1, <1>15 DEF WriteFile
<1>16. ASSUME NEW d \in Daemons, LoadCert(d) PROVE OneAtATime'
  BY <1>1, <1>16 DEF LoadCert
<1>17. ASSUME NEW d \in Daemons, Dial(d) PROVE OneAtATime'
  BY <1>1, <1>17 DEF Dial
<1>18. ASSUME NEW d \in Daemons, RemoveStale(d) PROVE OneAtATime'
  BY <1>1, <1>18 DEF RemoveStale
<1>19. ASSUME NEW d \in Daemons, Listen(d) PROVE OneAtATime'
  BY <1>1, <1>19 DEF Listen
<1>20. ASSUME NEW d \in Daemons, ListenAndServe(d) PROVE OneAtATime'
  BY <1>1, <1>20 DEF ListenAndServe
<1>21. ASSUME NEW d \in Daemons, Exit(d) PROVE OneAtATime'
  BY <1>1, <1>21 DEF Exit
<1>22. ASSUME NEW d \in Daemons, Crash(d) PROVE OneAtATime'
  BY <1>1, <1>22 DEF Crash, Live
<1>23. CASE RemoveCert
  BY <1>1, <1>23 DEF RemoveCert
<1>24. ASSUME NEW w \in Windows, BinaryMissing(w) PROVE OneAtATime'
  BY <1>1, <1>24 DEF BinaryMissing
<1>25. ASSUME NEW d \in Daemons, Pair(d) PROVE OneAtATime'
  <2>1. Quiet
    BY <1>25 DEF Pair
  <2> QED BY <1>1, <1>25, <2>1, WhenQuiet DEF Pair
<1>26. ASSUME NEW d \in Daemons, PostPairing(d) PROVE OneAtATime'
  BY <1>1, <1>26 DEF PostPairing
<1>27. CASE UNCHANGED vars
  BY <1>1, <1>27 DEF vars
<1> QED BY <1>1, <1>2, <1>3, <1>4, <1>5, <1>6, <1>7, <1>8, <1>9, <1>10, <1>11,
       <1>12, <1>13, <1>14, <1>15, <1>16, <1>17, <1>18, <1>19, <1>20, <1>21,
       <1>22, <1>23, <1>24, <1>25, <1>26, <1>27
     DEF Next, WindowStep, DaemonStep, StopAdopted

(* The socket stays the serving daemon's.                                  *)
LEMMA ReachableStep ==
  ASSUME ElectionInv, [Next]_vars, calm'
  PROVE  ServingIsReachable'
<1>1. /\ TypeOK /\ calm /\ calm' /\ None \notin Daemons
      /\ OneAtATime /\ SocketIsOwned /\ ServingIsReachable
  BY CalmBefore, ElectionAssumption DEF ElectionInv, CalmInv
<1> USE DEF files, hist, marks, ServingIsReachable, SocketIsOwned, NobodyServes, Starting, TypeOK, WStep,
            DStep, Electing, Preparing, Binding
<1>2. ASSUME NEW w \in Windows, Start(w) PROVE ServingIsReachable'
  BY <1>1, <1>2 DEF Start
<1>3. ASSUME NEW w \in Windows, TryAdopt(w) PROVE ServingIsReachable'
  BY <1>1, <1>3 DEF TryAdopt
<1>4. ASSUME NEW w \in Windows, CleanUp(w) PROVE ServingIsReachable'
  BY <1>1, <1>4 DEF CleanUp
<1>5. ASSUME NEW w \in Windows, TryLock(w) PROVE ServingIsReachable'
  BY <1>1, <1>5 DEF TryLock, Alive
<1>6. ASSUME NEW w \in Windows, WriteLock(w) PROVE ServingIsReachable'
  BY <1>1, <1>6 DEF WriteLock
<1>7. ASSUME NEW w \in Windows, NEW d \in Daemons, Spawn(w, d) PROVE ServingIsReachable'
  BY <1>1, <1>7 DEF Spawn
<1>8. ASSUME NEW w \in Windows, WaitEnds(w) PROVE ServingIsReachable'
  BY <1>1, <1>8 DEF WaitEnds
<1>9. ASSUME NEW w \in Windows, Close(w) PROVE ServingIsReachable'
  BY <1>1, <1>9 DEF Close, Alive
<1>10. ASSUME NEW w \in Windows, StopOwn(w) PROVE ServingIsReachable'
  <2>1. Quiet /\ proc[w] \in Daemons /\ dmn[proc[w]] = "serving"
    BY <1>1, <1>10 DEF StopOwn
  <2>2. /\ \A d \in Daemons : dmn'[d] = IF d = proc[w] THEN "exit" ELSE dmn[d]
        /\ \A v \in Windows : win'[v] = IF v = w THEN "stopping" ELSE win[v]
        /\ UNCHANGED <<proc, own, sock, lock, files, pins, excused>>
    BY <1>1, <1>10, <2>1 DEF StopOwn, Terminated
  <2> QED BY <1>1, <2>1, <2>2, WhenQuiet
<1>11. ASSUME NEW w \in Windows, StopCleans(w) PROVE ServingIsReachable'
  BY <1>1, <1>11 DEF StopCleans, Live
<1>12. ASSUME NEW d \in Daemons, Serve(d) PROVE ServingIsReachable'
  BY <1>1, <1>12 DEF Serve
<1>13. ASSUME NEW d \in Daemons, EnsureCert(d) PROVE ServingIsReachable'
  BY <1>1, <1>13 DEF EnsureCert
<1>14. ASSUME NEW d \in Daemons, LoadOrCreateKey(d) PROVE ServingIsReachable'
  BY <1>1, <1>14, KeyStep
<1>15. ASSUME NEW d \in Daemons, WriteFile(d) PROVE ServingIsReachable'
  BY <1>1, <1>15 DEF WriteFile
<1>16. ASSUME NEW d \in Daemons, LoadCert(d) PROVE ServingIsReachable'
  BY <1>1, <1>16 DEF LoadCert
<1>17. ASSUME NEW d \in Daemons, Dial(d) PROVE ServingIsReachable'
  BY <1>1, <1>17 DEF Dial
<1>18. ASSUME NEW d \in Daemons, RemoveStale(d) PROVE ServingIsReachable'
  BY <1>1, <1>18 DEF RemoveStale
<1>19. ASSUME NEW d \in Daemons, Listen(d) PROVE ServingIsReachable'
  BY <1>1, <1>19 DEF Listen
<1>20. ASSUME NEW d \in Daemons, ListenAndServe(d) PROVE ServingIsReachable'
  BY <1>1, <1>20 DEF ListenAndServe
<1>21. ASSUME NEW d \in Daemons, Exit(d) PROVE ServingIsReachable'
  BY <1>1, <1>21 DEF Exit
<1>22. ASSUME NEW d \in Daemons, Crash(d) PROVE ServingIsReachable'
  BY <1>1, <1>22 DEF Crash, Live
<1>23. CASE RemoveCert
  BY <1>1, <1>23 DEF RemoveCert
<1>24. ASSUME NEW w \in Windows, BinaryMissing(w) PROVE ServingIsReachable'
  BY <1>1, <1>24 DEF BinaryMissing
<1>25. ASSUME NEW d \in Daemons, Pair(d) PROVE ServingIsReachable'
  BY <1>1, <1>25 DEF Pair
<1>26. ASSUME NEW d \in Daemons, PostPairing(d) PROVE ServingIsReachable'
  BY <1>1, <1>26 DEF PostPairing
<1>27. CASE UNCHANGED vars
  BY <1>1, <1>27 DEF vars
<1> QED BY <1>1, <1>2, <1>3, <1>4, <1>5, <1>6, <1>7, <1>8, <1>9, <1>10, <1>11,
       <1>12, <1>13, <1>14, <1>15, <1>16, <1>17, <1>18, <1>19, <1>20, <1>21,
       <1>22, <1>23, <1>24, <1>25, <1>26, <1>27
     DEF Next, WindowStep, DaemonStep, StopAdopted

(* Whoever touches the socket file does so while no daemon serves.         *)
LEMMA SocketStep ==
  ASSUME ElectionInv, [Next]_vars, calm'
  PROVE  SocketIsOwned'
<1>1. /\ TypeOK /\ calm /\ calm' /\ None \notin Daemons
      /\ OneAtATime /\ SocketIsOwned /\ ServingIsReachable
  BY CalmBefore, ElectionAssumption DEF ElectionInv, CalmInv
<1> USE DEF files, hist, marks, ServingIsReachable, SocketIsOwned, OneAtATime, InTransit, NobodyServes,
            Starting, TypeOK, WStep, DStep, Electing, Preparing, Binding
<1>2. ASSUME NEW w \in Windows, Start(w) PROVE SocketIsOwned'
  <2>1. Quiet
    BY <1>2 DEF Start
  <2> QED BY <1>1, <1>2, <2>1, WhenQuiet DEF Start
<1>3. ASSUME NEW w \in Windows, TryAdopt(w) PROVE SocketIsOwned'
  BY <1>1, <1>3 DEF TryAdopt, Answers
<1>4. ASSUME NEW w \in Windows, CleanUp(w) PROVE SocketIsOwned'
  BY <1>1, <1>4 DEF CleanUp
<1>5. ASSUME NEW w \in Windows, TryLock(w) PROVE SocketIsOwned'
  BY <1>1, <1>5 DEF TryLock, Alive
<1>6. ASSUME NEW w \in Windows, WriteLock(w) PROVE SocketIsOwned'
  BY <1>1, <1>6 DEF WriteLock
<1>7. ASSUME NEW w \in Windows, NEW d \in Daemons, Spawn(w, d) PROVE SocketIsOwned'
  BY <1>1, <1>7 DEF Spawn
<1>8. ASSUME NEW w \in Windows, WaitEnds(w) PROVE SocketIsOwned'
  BY <1>1, <1>8 DEF WaitEnds, Answers
<1>9. ASSUME NEW w \in Windows, Close(w) PROVE SocketIsOwned'
  BY <1>1, <1>9 DEF Close, Alive
<1>10. ASSUME NEW w \in Windows, StopOwn(w) PROVE SocketIsOwned'
  <2>1. Quiet /\ proc[w] \in Daemons /\ dmn[proc[w]] = "serving"
    BY <1>1, <1>10 DEF StopOwn
  <2>2. /\ \A d \in Daemons : dmn'[d] = IF d = proc[w] THEN "exit" ELSE dmn[d]
        /\ \A v \in Windows : win'[v] = IF v = w THEN "stopping" ELSE win[v]
        /\ UNCHANGED <<proc, own, sock, lock, files, pins, excused>>
    BY <1>1, <1>10, <2>1 DEF StopOwn, Terminated
  <2> QED BY <1>1, <2>1, <2>2, WhenQuiet
<1>11. ASSUME NEW w \in Windows, StopCleans(w) PROVE SocketIsOwned'
  BY <1>1, <1>11 DEF StopCleans, Live
<1>12. ASSUME NEW d \in Daemons, Serve(d) PROVE SocketIsOwned'
  <2>1. Quiet
    BY <1>12 DEF Serve
  <2> QED BY <1>1, <1>12, <2>1, WhenQuiet DEF Serve
<1>13. ASSUME NEW d \in Daemons, EnsureCert(d) PROVE SocketIsOwned'
  BY <1>1, <1>13 DEF EnsureCert
<1>14. ASSUME NEW d \in Daemons, LoadOrCreateKey(d) PROVE SocketIsOwned'
  <2>1. /\ UNCHANGED <<win, sock>> /\ dmn'[d] \in {"dead", "opencert", "openkey"}
        /\ \A e \in Daemons : e # d => dmn'[e] = dmn[e]
    BY <1>1, <1>14, KeyStep
  <2> QED BY <1>1, <2>1
<1>15. ASSUME NEW d \in Daemons, WriteFile(d) PROVE SocketIsOwned'
  BY <1>1, <1>15 DEF WriteFile
<1>16. ASSUME NEW d \in Daemons, LoadCert(d) PROVE SocketIsOwned'
  BY <1>1, <1>16 DEF LoadCert
<1>17. ASSUME NEW d \in Daemons, Dial(d) PROVE SocketIsOwned'
  <2>1. ~Answers => NobodyServes
    BY <1>1 DEF Answers
  <2>2. CASE sock = None
    BY <1>1, <1>17, <2>1, <2>2 DEF Dial, Answers
  <2>3. CASE sock # None /\ Answers
    BY <1>1, <1>17, <2>3 DEF Dial
  <2>4. CASE sock # None /\ ~Answers
    BY <1>1, <1>17, <2>1, <2>4 DEF Dial
  <2> QED BY <2>2, <2>3, <2>4
<1>18. ASSUME NEW d \in Daemons, RemoveStale(d) PROVE SocketIsOwned'
  BY <1>1, <1>18 DEF RemoveStale
<1>19. ASSUME NEW d \in Daemons, Listen(d) PROVE SocketIsOwned'
  BY <1>1, <1>19 DEF Listen
<1>20. ASSUME NEW d \in Daemons, ListenAndServe(d) PROVE SocketIsOwned'
  BY <1>1, <1>20 DEF ListenAndServe
<1>21. ASSUME NEW d \in Daemons, Exit(d) PROVE SocketIsOwned'
  BY <1>1, <1>21 DEF Exit
<1>22. ASSUME NEW d \in Daemons, Crash(d) PROVE SocketIsOwned'
  BY <1>1, <1>22 DEF Crash, Live
<1>23. CASE RemoveCert
  BY <1>1, <1>23 DEF RemoveCert
<1>24. ASSUME NEW w \in Windows, BinaryMissing(w) PROVE SocketIsOwned'
  BY <1>1, <1>24 DEF BinaryMissing
<1>25. ASSUME NEW d \in Daemons, Pair(d) PROVE SocketIsOwned'
  <2>1. Quiet
    BY <1>25 DEF Pair
  <2> QED BY <1>1, <1>25, <2>1, WhenQuiet DEF Pair
<1>26. ASSUME NEW d \in Daemons, PostPairing(d) PROVE SocketIsOwned'
  BY <1>1, <1>26 DEF PostPairing
<1>27. CASE UNCHANGED vars
  BY <1>1, <1>27 DEF vars
<1> QED BY <1>1, <1>2, <1>3, <1>4, <1>5, <1>6, <1>7, <1>8, <1>9, <1>10, <1>11,
       <1>12, <1>13, <1>14, <1>15, <1>16, <1>17, <1>18, <1>19, <1>20, <1>21,
       <1>22, <1>23, <1>24, <1>25, <1>26, <1>27
     DEF Next, WindowStep, DaemonStep, StopAdopted

(* Key and certificate on disk stay the pair that was served.             *)
LEMMA FilesStep ==
  ASSUME ElectionInv, [Next]_vars, calm'
  PROVE  FilesMatch'
<1>1. /\ TypeOK /\ calm /\ calm' /\ None \notin Daemons
      /\ OneAtATime /\ FilesMatch /\ KeyInMemory
      /\ Absent \notin Keys /\ Torn \notin Keys /\ Absent # Torn
  BY CalmBefore, ElectionAssumption, FS_CardinalityType
     DEF Keys, Absent, Torn, ElectionInv, CalmInv
<1> USE DEF files, hist, marks, FilesMatch, OneAtATime, InTransit, KeyInMemory,
            TypeOK, WStep, DStep, Preparing, Binding, File
<1>2. ASSUME NEW w \in Windows, Start(w) PROVE FilesMatch'
  <2>1. Quiet
    BY <1>2 DEF Start
  <2> QED BY <1>1, <1>2, <2>1, WhenQuiet DEF Start
<1>3. ASSUME NEW w \in Windows, TryAdopt(w) PROVE FilesMatch'
  BY <1>1, <1>3 DEF TryAdopt
<1>4. ASSUME NEW w \in Windows, CleanUp(w) PROVE FilesMatch'
  BY <1>1, <1>4 DEF CleanUp
<1>5. ASSUME NEW w \in Windows, TryLock(w) PROVE FilesMatch'
  BY <1>1, <1>5 DEF TryLock, Alive
<1>6. ASSUME NEW w \in Windows, WriteLock(w) PROVE FilesMatch'
  BY <1>1, <1>6 DEF WriteLock
<1>7. ASSUME NEW w \in Windows, NEW d \in Daemons, Spawn(w, d) PROVE FilesMatch'
  BY <1>1, <1>7 DEF Spawn
<1>8. ASSUME NEW w \in Windows, WaitEnds(w) PROVE FilesMatch'
  BY <1>1, <1>8 DEF WaitEnds
<1>9. ASSUME NEW w \in Windows, Close(w) PROVE FilesMatch'
  BY <1>1, <1>9 DEF Close, Alive
<1>10. ASSUME NEW w \in Windows, StopOwn(w) PROVE FilesMatch'
  <2>1. Quiet /\ proc[w] \in Daemons /\ dmn[proc[w]] = "serving"
    BY <1>1, <1>10 DEF StopOwn
  <2>2. /\ \A d \in Daemons : dmn'[d] = IF d = proc[w] THEN "exit" ELSE dmn[d]
        /\ \A v \in Windows : win'[v] = IF v = w THEN "stopping" ELSE win[v]
        /\ UNCHANGED <<proc, own, sock, lock, files, pins, excused>>
    BY <1>1, <1>10, <2>1 DEF StopOwn, Terminated
  <2> QED BY <1>1, <2>1, <2>2, WhenQuiet
<1>11. ASSUME NEW w \in Windows, StopCleans(w) PROVE FilesMatch'
  BY <1>1, <1>11 DEF StopCleans, Live
<1>12. ASSUME NEW d \in Daemons, Serve(d) PROVE FilesMatch'
  <2>1. Quiet
    BY <1>12 DEF Serve
  <2> QED BY <1>1, <1>12, <2>1, WhenQuiet DEF Serve
<1>13. ASSUME NEW d \in Daemons, EnsureCert(d) PROVE FilesMatch'
  BY <1>1, <1>13 DEF EnsureCert
<1>14. ASSUME NEW d \in Daemons, LoadOrCreateKey(d) PROVE FilesMatch'
  <2>1. \A e \in Daemons : e # d => ~InTransit(e) /\ dmn'[e] = dmn[e] /\ own'[e] = own[e]
    BY <1>1, <1>14 DEF LoadOrCreateKey, HalfAFile
  <2>2. UNCHANGED <<keyFile, certFile, pins>>
    BY <1>14 DEF LoadOrCreateKey
  <2>3. CASE HasKey(d) /\ keyFile = Torn /\ DStep(d, "key", "dead")
    BY <1>1, <2>1, <2>2, <2>3
  <2>4. CASE HasKey(d) /\ keyFile # Torn /\ DStep(d, "key", "opencert")
             /\ own' = [own EXCEPT ![d] = keyFile]
    BY <1>1, <2>1, <2>2, <2>4
  <2>5. CASE ~HasKey(d) /\ DStep(d, "key", "openkey")
    BY <1>1, <2>1, <2>2, <2>5 DEF HasKey
  <2> QED BY <1>14, <2>3, <2>4, <2>5 DEF LoadOrCreateKey
<1>15. ASSUME NEW d \in Daemons, WriteFile(d) PROVE FilesMatch'
  <2>1. \A e \in Daemons : e # d => ~InTransit(e) /\ dmn'[e] = dmn[e]
    BY <1>1, <1>15 DEF WriteFile
  <2>2. UNCHANGED <<own, pins>>
    BY <1>15 DEF WriteFile
  <2>3. CASE DStep(d, "openkey", "writekey") /\ keyFile' = Torn /\ UNCHANGED certFile
    BY <1>1, <2>1, <2>2, <2>3
  <2>4. CASE DStep(d, "writekey", "opencert") /\ keyFile' = own[d] /\ UNCHANGED certFile
    BY <1>1, <2>1, <2>2, <2>4
  <2>5. CASE DStep(d, "opencert", "writecert") /\ certFile' = Torn /\ UNCHANGED keyFile
    BY <1>1, <2>1, <2>2, <2>5
  <2>6. CASE DStep(d, "writecert", "load") /\ certFile' = own[d] /\ UNCHANGED keyFile
    BY <1>1, <2>1, <2>2, <2>6
  <2> QED BY <1>15, <2>3, <2>4, <2>5, <2>6 DEF WriteFile
<1>16. ASSUME NEW d \in Daemons, LoadCert(d) PROVE FilesMatch'
  BY <1>1, <1>16 DEF LoadCert
<1>17. ASSUME NEW d \in Daemons, Dial(d) PROVE FilesMatch'
  BY <1>1, <1>17 DEF Dial
<1>18. ASSUME NEW d \in Daemons, RemoveStale(d) PROVE FilesMatch'
  BY <1>1, <1>18 DEF RemoveStale
<1>19. ASSUME NEW d \in Daemons, Listen(d) PROVE FilesMatch'
  BY <1>1, <1>19 DEF Listen
<1>20. ASSUME NEW d \in Daemons, ListenAndServe(d) PROVE FilesMatch'
  BY <1>1, <1>20 DEF ListenAndServe
<1>21. ASSUME NEW d \in Daemons, Exit(d) PROVE FilesMatch'
  BY <1>1, <1>21 DEF Exit
<1>22. ASSUME NEW d \in Daemons, Crash(d) PROVE FilesMatch'
  BY <1>1, <1>22 DEF Crash, Live
<1>23. CASE RemoveCert
  <2>1. Quiet
    BY <1>23 DEF RemoveCert
  <2> QED BY <1>1, <1>23, <2>1, WhenQuiet DEF RemoveCert
<1>24. ASSUME NEW w \in Windows, BinaryMissing(w) PROVE FilesMatch'
  BY <1>1, <1>24 DEF BinaryMissing
<1>25. ASSUME NEW d \in Daemons, Pair(d) PROVE FilesMatch'
  <2>1. Quiet
    BY <1>25 DEF Pair
  <2> QED BY <1>1, <1>25, <2>1, WhenQuiet DEF Pair
<1>26. ASSUME NEW d \in Daemons, PostPairing(d) PROVE FilesMatch'
  BY <1>1, <1>26 DEF PostPairing
<1>27. CASE UNCHANGED vars
  BY <1>1, <1>27 DEF vars
<1> QED BY <1>1, <1>2, <1>3, <1>4, <1>5, <1>6, <1>7, <1>8, <1>9, <1>10, <1>11,
       <1>12, <1>13, <1>14, <1>15, <1>16, <1>17, <1>18, <1>19, <1>20, <1>21,
       <1>22, <1>23, <1>24, <1>25, <1>26, <1>27
     DEF Next, WindowStep, DaemonStep, StopAdopted

(* A window without an excuse waits for a daemon that comes up.            *)
LEMMA WaitsStep ==
  ASSUME ElectionInv, [Next]_vars, calm'
  PROVE  WaitsForDaemon'
<1>1. /\ TypeOK /\ calm /\ calm' /\ None \notin Daemons
      /\ OneAtATime /\ SocketIsOwned /\ FilesMatch
      /\ WaitsForDaemon /\ PortIsServing /\ KeyInMemory /\ ToolsAreRun
  BY CalmBefore, ElectionAssumption DEF ElectionInv, CalmInv
<1> USE DEF files, hist, marks, FilesMatch, WaitsForDaemon, SocketIsOwned, OneAtATime, InTransit,
            NobodyServes, Starting, TypeOK, WStep, DStep, Electing, Preparing, Binding
<1>2. ASSUME NEW w \in Windows, Start(w) PROVE WaitsForDaemon'
  <2>1. Quiet
    BY <1>2 DEF Start
  <2> QED BY <1>1, <1>2, <2>1, WhenQuiet DEF Start
<1>3. ASSUME NEW w \in Windows, TryAdopt(w) PROVE WaitsForDaemon'
  BY <1>1, <1>3 DEF TryAdopt, Answers
<1>4. ASSUME NEW w \in Windows, CleanUp(w) PROVE WaitsForDaemon'
  BY <1>1, <1>4 DEF CleanUp
<1>5. ASSUME NEW w \in Windows, TryLock(w) PROVE WaitsForDaemon'
  BY <1>1, <1>5 DEF TryLock, Reclaims, Alive
<1>6. ASSUME NEW w \in Windows, WriteLock(w) PROVE WaitsForDaemon'
  BY <1>1, <1>6 DEF WriteLock
<1>7. ASSUME NEW w \in Windows, NEW d \in Daemons, Spawn(w, d) PROVE WaitsForDaemon'
  BY <1>1, <1>7 DEF Spawn, ToolsAreRun
<1>8. ASSUME NEW w \in Windows, WaitEnds(w) PROVE WaitsForDaemon'
  BY <1>1, <1>8 DEF WaitEnds, Answers
<1>9. ASSUME NEW w \in Windows, Close(w) PROVE WaitsForDaemon'
  BY <1>1, <1>9 DEF Close, Alive
<1>10. ASSUME NEW w \in Windows, StopOwn(w) PROVE WaitsForDaemon'
  <2>1. Quiet /\ proc[w] \in Daemons /\ dmn[proc[w]] = "serving"
    BY <1>1, <1>10 DEF StopOwn
  <2>2. /\ \A d \in Daemons : dmn'[d] = IF d = proc[w] THEN "exit" ELSE dmn[d]
        /\ \A v \in Windows : win'[v] = IF v = w THEN "stopping" ELSE win[v]
        /\ UNCHANGED <<proc, tool, told, excused>>
    BY <1>1, <1>10, <2>1 DEF StopOwn, Terminated
  <2> QED BY <1>1, <2>1, <2>2, WhenQuiet
<1>11. ASSUME NEW w \in Windows, StopCleans(w) PROVE WaitsForDaemon'
  BY <1>1, <1>11 DEF StopCleans, Live
<1>12. ASSUME NEW d \in Daemons, Serve(d) PROVE WaitsForDaemon'
  <2>1. Quiet
    BY <1>12 DEF Serve
  <2> QED BY <1>1, <1>12, <2>1, WhenQuiet DEF Serve
<1>13. ASSUME NEW d \in Daemons, EnsureCert(d) PROVE WaitsForDaemon'
  BY <1>1, <1>13 DEF EnsureCert
<1>14. ASSUME NEW d \in Daemons, LoadOrCreateKey(d) PROVE WaitsForDaemon'
  <2>1. /\ UNCHANGED <<win, proc, tool, told>> /\ dmn[d] = "key"
        /\ dmn'[d] \in {"dead", "opencert", "openkey"}
        /\ \A e \in Daemons : e # d => dmn'[e] = dmn[e]
    BY <1>1, <1>14, KeyStep
  <2>2. CASE dmn'[d] = "dead"
    <3>1. keyFile = Torn
      BY <1>1, <1>14, <2>2, KeyStep
    <3>2. excused' = excused \cup {w \in Windows : win[w] \in Electing}
      BY <1>14, <2>2, <3>1 DEF LoadOrCreateKey, HalfAFile
    <3> QED BY <1>1, <2>1, <2>2, <3>2
  <2>3. CASE dmn'[d] # "dead"
    <3>1. UNCHANGED excused
      BY <1>14, <2>3 DEF LoadOrCreateKey, HalfAFile
    <3> QED BY <1>1, <2>1, <2>3, <3>1
  <2> QED BY <2>2, <2>3
<1>15. ASSUME NEW d \in Daemons, WriteFile(d) PROVE WaitsForDaemon'
  BY <1>1, <1>15 DEF WriteFile
<1>16. ASSUME NEW d \in Daemons, LoadCert(d) PROVE WaitsForDaemon'
  BY <1>1, <1>16 DEF LoadCert, IsPair, HalfAFile, File, Keys, Absent, Torn
<1>17. ASSUME NEW d \in Daemons, Dial(d) PROVE WaitsForDaemon'
  BY <1>1, <1>17 DEF Dial, Answers
<1>18. ASSUME NEW d \in Daemons, RemoveStale(d) PROVE WaitsForDaemon'
  BY <1>1, <1>18 DEF RemoveStale
<1>19. ASSUME NEW d \in Daemons, Listen(d) PROVE WaitsForDaemon'
  BY <1>1, <1>19 DEF Listen
<1>20. ASSUME NEW d \in Daemons, ListenAndServe(d) PROVE WaitsForDaemon'
  BY <1>1, <1>20 DEF ListenAndServe, PortIsServing
<1>21. ASSUME NEW d \in Daemons, Exit(d) PROVE WaitsForDaemon'
  BY <1>1, <1>21 DEF Exit
<1>22. ASSUME NEW d \in Daemons, Crash(d) PROVE WaitsForDaemon'
  BY <1>1, <1>22 DEF Crash, Live
<1>23. CASE RemoveCert
  BY <1>1, <1>23 DEF RemoveCert
<1>24. ASSUME NEW w \in Windows, BinaryMissing(w) PROVE WaitsForDaemon'
  BY <1>1, <1>24 DEF BinaryMissing
<1>25. ASSUME NEW d \in Daemons, Pair(d) PROVE WaitsForDaemon'
  <2>1. Quiet
    BY <1>25 DEF Pair
  <2> QED BY <1>1, <1>25, <2>1, WhenQuiet DEF Pair
<1>26. ASSUME NEW d \in Daemons, PostPairing(d) PROVE WaitsForDaemon'
  BY <1>1, <1>26 DEF PostPairing
<1>27. CASE UNCHANGED vars
  BY <1>1, <1>27 DEF vars
<1> QED BY <1>1, <1>2, <1>3, <1>4, <1>5, <1>6, <1>7, <1>8, <1>9, <1>10, <1>11,
       <1>12, <1>13, <1>14, <1>15, <1>16, <1>17, <1>18, <1>19, <1>20, <1>21,
       <1>22, <1>23, <1>24, <1>25, <1>26, <1>27
     DEF Next, WindowStep, DaemonStep, StopAdopted

(* A window keeps its excuse until it starts again.                        *)
LEMMA ExcusesLast ==
  ASSUME TypeOK, [Next]_vars
  PROVE  \A w \in excused : w \in excused' \/ win'[w] = "connect"
<1> USE DEF TypeOK, hist, WStep
<1>1. ASSUME NEW w \in Windows, Start(w)
      PROVE  \A v \in excused : v \in excused' \/ win'[v] = "connect"
  BY <1>1 DEF Start
<1>2. ASSUME excused \subseteq excused'
      PROVE  \A v \in excused : v \in excused' \/ win'[v] = "connect"
  BY <1>2
<1>3. (\A w \in Windows : ~Start(w)) => excused \subseteq excused'
  BY DEF Next, vars, WindowStep, DaemonStep, TryAdopt, CleanUp, TryLock, WriteLock, Spawn,
         BinaryMissing, WaitEnds, Close, StopOwn, StopAdopted, StopCleans, Serve, Pair,
         PostPairing, EnsureCert, LoadOrCreateKey, WriteFile, LoadCert, Dial, RemoveStale,
         Listen, ListenAndServe, Exit, Crash, RemoveCert, HalfAFile
<1> QED BY <1>1, <1>2, <1>3

(* A window that gives up has no daemon coming up: the one it spawned      *)
(* would have to serve, and then its socket answers.                       *)
LEMMA NoAnswerIsExcused ==
  ASSUME ElectionInv, calm, NEW w \in Windows, win[w] = "wait", ~Answers, Settled
  PROVE  w \in excused
<1>1. TypeOK /\ ServingIsReachable /\ WaitsForDaemon /\ None \notin Daemons
  BY ElectionAssumption DEF ElectionInv, CalmInv
<1>2. SUFFICES ASSUME w \notin excused PROVE FALSE
  OBVIOUS
<1>3. proc[w] \in Daemons /\ dmn[proc[w]] \in Preparing \cup Binding \cup {"serving"}
  BY <1>1, <1>2 DEF WaitsForDaemon
<1>4. dmn[proc[w]] = "serving"
  BY <1>3 DEF Settled, Preparing, Binding
<1>5. sock = proc[w]
  BY <1>1, <1>3, <1>4 DEF ServingIsReachable
<1> QED BY <1>1, <1>3, <1>4, <1>5 DEF Answers

(* Who fails, fails at the end of a wait.                                  *)
LEMMA FailedStep ==
  ASSUME ElectionInv, FailedHasReason, [Next]_vars, calm'
  PROVE  FailedHasReason'
<1>1. /\ TypeOK /\ calm /\ calm' /\ None \notin Daemons
      /\ FailedHasReason /\ \A v \in excused : v \in excused' \/ win'[v] = "connect"
  BY CalmBefore, ExcusesLast, ElectionAssumption DEF ElectionInv, CalmInv
<1> USE DEF files, hist, marks, FailedHasReason, TypeOK, WStep, DStep, Electing
<1>2. ASSUME NEW w \in Windows, Start(w) PROVE FailedHasReason'
  BY <1>1, <1>2 DEF Start
<1>3. ASSUME NEW w \in Windows, TryAdopt(w) PROVE FailedHasReason'
  BY <1>1, <1>3 DEF TryAdopt
<1>4. ASSUME NEW w \in Windows, CleanUp(w) PROVE FailedHasReason'
  BY <1>1, <1>4 DEF CleanUp
<1>5. ASSUME NEW w \in Windows, TryLock(w) PROVE FailedHasReason'
  BY <1>1, <1>5 DEF TryLock
<1>6. ASSUME NEW w \in Windows, WriteLock(w) PROVE FailedHasReason'
  BY <1>1, <1>6 DEF WriteLock
<1>7. ASSUME NEW w \in Windows, NEW d \in Daemons, Spawn(w, d) PROVE FailedHasReason'
  BY <1>1, <1>7 DEF Spawn
<1>8. ASSUME NEW w \in Windows, WaitEnds(w) PROVE FailedHasReason'
  <2>1. CASE Answers /\ WStep(w, {"wait"}, "up")
    BY <1>1, <1>8, <2>1 DEF WaitEnds
  <2>2. CASE ~Answers /\ Settled /\ WStep(w, {"wait"}, "failed")
    BY <1>1, <1>8, <2>2, NoAnswerIsExcused DEF WaitEnds
  <2> QED BY <1>8, <2>1, <2>2 DEF WaitEnds
<1>9. ASSUME NEW w \in Windows, Close(w) PROVE FailedHasReason'
  BY <1>1, <1>9 DEF Close
<1>10. ASSUME NEW w \in Windows, StopOwn(w) PROVE FailedHasReason'
  <2>1. \A v \in Windows : win'[v] = IF v = w THEN "stopping" ELSE win[v]
    BY <1>1, <1>10 DEF StopOwn
  <2> QED BY <1>1, <2>1
<1>11. ASSUME NEW w \in Windows, StopCleans(w) PROVE FailedHasReason'
  BY <1>1, <1>11 DEF StopCleans, Live
<1>12. ASSUME NEW d \in Daemons, Serve(d) PROVE FailedHasReason'
  BY <1>1, <1>12 DEF Serve
<1>13. ASSUME NEW d \in Daemons, EnsureCert(d) PROVE FailedHasReason'
  BY <1>1, <1>13 DEF EnsureCert
<1>14. ASSUME NEW d \in Daemons, LoadOrCreateKey(d) PROVE FailedHasReason'
  BY <1>1, <1>14 DEF LoadOrCreateKey
<1>15. ASSUME NEW d \in Daemons, WriteFile(d) PROVE FailedHasReason'
  BY <1>1, <1>15 DEF WriteFile
<1>16. ASSUME NEW d \in Daemons, LoadCert(d) PROVE FailedHasReason'
  BY <1>1, <1>16 DEF LoadCert
<1>17. ASSUME NEW d \in Daemons, Dial(d) PROVE FailedHasReason'
  BY <1>1, <1>17 DEF Dial
<1>18. ASSUME NEW d \in Daemons, RemoveStale(d) PROVE FailedHasReason'
  BY <1>1, <1>18 DEF RemoveStale
<1>19. ASSUME NEW d \in Daemons, Listen(d) PROVE FailedHasReason'
  BY <1>1, <1>19 DEF Listen
<1>20. ASSUME NEW d \in Daemons, ListenAndServe(d) PROVE FailedHasReason'
  BY <1>1, <1>20 DEF ListenAndServe
<1>21. ASSUME NEW d \in Daemons, Exit(d) PROVE FailedHasReason'
  BY <1>1, <1>21 DEF Exit
<1>22. ASSUME NEW d \in Daemons, Crash(d) PROVE FailedHasReason'
  BY <1>1, <1>22 DEF Crash, Live
<1>23. CASE RemoveCert
  BY <1>1, <1>23 DEF RemoveCert
<1>24. ASSUME NEW w \in Windows, BinaryMissing(w) PROVE FailedHasReason'
  BY <1>1, <1>24 DEF BinaryMissing
<1>25. ASSUME NEW d \in Daemons, Pair(d) PROVE FailedHasReason'
  BY <1>1, <1>25 DEF Pair
<1>26. ASSUME NEW d \in Daemons, PostPairing(d) PROVE FailedHasReason'
  BY <1>1, <1>26 DEF PostPairing
<1>27. CASE UNCHANGED vars
  BY <1>1, <1>27 DEF vars
<1> QED BY <1>1, <1>2, <1>3, <1>4, <1>5, <1>6, <1>7, <1>8, <1>9, <1>10, <1>11,
       <1>12, <1>13, <1>14, <1>15, <1>16, <1>17, <1>18, <1>19, <1>20, <1>21,
       <1>22, <1>23, <1>24, <1>25, <1>26, <1>27
     DEF Next, WindowStep, DaemonStep, StopAdopted

(* In the initial state nothing runs and nothing is on disk.               *)
LEMMA InitElectionInv == Init => ElectionInv
<1> SUFFICES ASSUME Init PROVE ElectionInv
  OBVIOUS
<1>1. Cardinality(Daemons) \in Nat /\ None \notin Daemons /\ MaxCrashes \in Nat
  BY ElectionAssumption, FS_CardinalityType
<1>2. TypeOK
  BY <1>1 DEF Init, TypeOK, File, Keys, Absent, Torn
<1>3. KeysAreCounted
  <2>1. PastKey = {}
    BY DEF Init, PastKey
  <2> QED BY <2>1, FS_EmptySet DEF Init, KeysAreCounted
<1>4. KeyInMemory /\ PortIsServing /\ ToolsAreRun /\ ServingIsReachable
  BY DEF Init, KeyInMemory, PortIsServing, ToolsAreRun, ServingIsReachable, Binding
<1>5. OneAtATime /\ SocketIsOwned /\ WaitsForDaemon
  BY
     DEF Init, OneAtATime, SocketIsOwned, WaitsForDaemon, InTransit, Starting, NobodyServes,
         Electing, Preparing, Binding
<1>6. FilesMatch
  BY DEF Init, FilesMatch, Binding, Keys, Absent
<1> QED BY <1>2, <1>3, <1>4, <1>5, <1>6 DEF ElectionInv, CalmInv

(* Every step preserves the invariant; the history of starts and stops     *)
(* decides whether there is anything more than types to say.               *)
LEMMA ElectionStep == ElectionInv /\ [Next]_vars => ElectionInv'
<1> SUFFICES ASSUME ElectionInv, [Next]_vars PROVE ElectionInv'
  OBVIOUS
<1>1. StateInv'
  BY TypesStep
<1>2. CASE ~calm'
  BY <1>1, <1>2 DEF StateInv, ElectionInv, ServingIsReachable, CalmInv
<1>3. CASE calm'
  BY <1>1, <1>3, OneAtATimeStep, ReachableStep, SocketStep, FilesStep, WaitsStep
     DEF StateInv, ElectionInv, CalmInv
<1> QED BY <1>2, <1>3

(* The daemon that serves the phones is the one the plugins and windows    *)
(* reach: a start clears debris, never the socket of a daemon that serves, *)
(* as long as starts and stops come one at a time.                         *)
THEOREM ServingStaysReachable == Spec => []ElectionInv
BY InitElectionInv, ElectionStep, PTL DEF Spec

(* As long as starts come one at a time and a key file that is there can   *)
(* be read: whatever crashed between two steps of writing key and          *)
(* certificate, the phones are served one key for good, the one in the     *)
(* key file.                                                               *)
THEOREM ThePinStays == Spec => []PinIsStable
<1>1. ElectionInv => PinIsStable
  <2>1. SUFFICES ASSUME ElectionInv, calm PROVE Cardinality(pins) <= 1
    BY DEF PinIsStable
  <2>2. pins \subseteq {keyFile}
    BY <2>1 DEF ElectionInv, CalmInv, FilesMatch
  <2>3. Cardinality({keyFile}) = 1 /\ IsFiniteSet({keyFile})
    BY FS_Singleton
  <2> QED BY <2>2, <2>3, FS_Subset, FS_CardinalityType
<1> QED BY <1>1, ServingStaysReachable, PTL

(* As long as starts and stops come one at a time, a start that fails met  *)
(* a live lock, the death of a daemon or half a TLS file, or found no      *)
(* binary; what crashed daemons and closed windows left behind is cleared. *)
THEOREM FailuresHaveReasons == Spec => []FailedHasReason
<1>1. Init => FailedHasReason
  BY DEF Init, FailedHasReason
<1>2. ElectionInv /\ FailedHasReason /\ [Next]_vars => FailedHasReason'
  <2>1. CASE ~calm'
    BY <2>1 DEF FailedHasReason
  <2>2. CASE calm'
    BY <2>2, FailedStep
  <2> QED BY <2>1, <2>2
<1> QED BY <1>1, <1>2, ServingStaysReachable, PTL DEF Spec

================================================================================
