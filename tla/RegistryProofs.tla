---------------------------- MODULE RegistryProofs ----------------------------
(***************************************************************************)
(* Proofs about Registry, for any number of devices, requests, windows,    *)
(* sessions and restarts, and for saves that overlap as they like: the     *)
(* registry implements DeviceBook.                                         *)
(***************************************************************************)
EXTENDS Registry, TLAPS, FiniteSetTheorems

--------------------------------------------------------------------------------
(* A device that is kept, or struck, since the n-th list is so since every *)
(* later one.                                                              *)
LEMMA SinceLater ==
  ASSUME NEW d, NEW n \in Nat, NEW m \in Nat, n <= m, TypeOK
  PROVE  /\ Kept(d, n) => Kept(d, m)
         /\ Struck(d, n) => Struck(d, m)
<1>1. Lists(m) \subseteq Lists(n)
  <2>1. fileNo \in Nat /\ \A h \in Handlers : req[h].no \in Nat
    BY DEF TypeOK, Request
  <2>2. \A k \in Nat : k >= m => k >= n
    OBVIOUS
  <2> QED BY <2>1, <2>2 DEF Lists
<1> QED BY <1>1 DEF Kept, Struck

(* What is said of a device stays while nothing of it is registered,       *)
(* revoked, copied or written.                                             *)
LEMMA ListsStay ==
  ASSUME NEW d, NEW n, UNCHANGED <<devices, file, fileNo>>,
         \A h \in Handlers : req'[h].at = "rename" =>
            req[h].at = "rename" /\ req'[h].no = req[h].no /\ req'[h].list = req[h].list
  PROVE  /\ Kept(d, n) => Kept(d, n)'
         /\ Struck(d, n) => Struck(d, n)'
<1>1. Lists(n)' \subseteq Lists(n)
  BY DEF Lists
<1> QED BY <1>1 DEF Kept, Struck

(* Settled comes to PairingsSurvive and RevokedStaysOut.                   *)
LEMMA SettledShows ==
  ASSUME TypeOK, Settled
  PROVE  PairingsSurvive /\ RevokedStaysOut
<1>1. ~Regressed => file \in Lists(landed)
  BY DEF Regressed, Lists, TypeOK
<1> QED BY <1>1 DEF Settled, Kept, Struck, PairingsSurvive, RevokedStaysOut

(* The invariant holds at the start.                                       *)
LEMMA InitAgree == Init => Agree
<1> SUFFICES ASSUME Init PROVE Agree
  OBVIOUS
<1> USE RegistryAssumption
<1>1. NoRequest \in Request
  BY DEF NoRequest, Request, Saving
<1>2. \A h \in Handlers : req[h].at = "idle" /\ req[h].code = 0
  BY DEF Init, NoRequest
<1>3. TypeOK
  BY <1>1 DEF Init, TypeOK
<1>4. Drawn /\ Locals
  BY <1>2 DEF Init, Drawn, Locals, Local, Saves, Saving
<1> QED BY <1>2, <1>3, <1>4 DEF Init, Agree, Settled, Paired, Revoked, RevokedIsRefused

(* No list is copied or written: what the other requests and the devices   *)
(* rely on stays.                                                          *)
LEMMA QuietStep ==
  ASSUME Agree, TypeOK', RevokedIsRefused',
         UNCHANGED <<book, paired, enrolled, asked, revoked, order>>,
         codes \in Nat, codes' \in Nat, codes' >= codes,
         \A h \in Handlers : req'[h] = req[h] \/ (Local(h)' /\ req'[h].at # "rename")
  PROVE  Agree'
<1> USE DEF book, order
<1>1. Drawn'
  BY RegistryAssumption DEF Agree, Drawn, Code
<1>2. ASSUME NEW d, NEW n
      PROVE  (Kept(d, n) => Kept(d, n)') /\ (Struck(d, n) => Struck(d, n)')
  BY ListsStay
<1>3. Settled'
  <2>1. Paired' = Paired /\ Revoked' = Revoked /\ landed' = landed
    BY DEF Paired, Revoked
  <2>2. (\A d \in Paired : Kept(d, landed)) /\ (\A d \in Revoked : Struck(d, landed))
    BY DEF Agree, Settled
  <2>3. (\A d \in Paired : Kept(d, landed)') /\ (\A d \in Revoked : Struck(d, landed)')
    BY <1>2, <2>1, <2>2 DEF Kept, Struck, Lists
  <2> QED BY <2>1, <2>3 DEF Settled
<1>4. Locals'
  <2> SUFFICES ASSUME NEW h \in Handlers, req'[h] = req[h] PROVE Local(h)'
    BY DEF Locals
  <2>1. Local(h)
    BY DEF Agree, Locals
  <2> DEFINE d == req[h].dev
             n == req[h].no
  <2>2. (Kept(d, n) => Kept(req[h].dev, req[h].no)') /\ (Struck(d, n) => Struck(req[h].dev, req[h].no)')
    BY <1>2 DEF Kept, Struck, Lists
  <2>3. Enrols(h) => Enrols(h)'
    BY <2>2 DEF Enrols
  <2>4. Strikes(h) => Strikes(h)'
    BY <2>2 DEF Strikes
  <2> QED BY <2>1, <2>3, <2>4 DEF Local, Saves
<1> QED BY <1>1, <1>3, <1>4 DEF Agree

(* The window opens or closes, a session expires, or nothing happens.      *)
LEMMA WindowStep ==
  ASSUME Agree,
         \/ OpenPairing \/ ClosePairing \/ UNCHANGED vars
         \/ \E s \in sessions : SessionExpires(s)
  PROVE  Agree'
<1> USE RegistryAssumption DEF book, arm, sess, hist, told
<1>1. /\ UNCHANGED <<book, keys, req, restarts, hist>> /\ sessions' \subseteq sessions
      /\ codes \in Nat /\ codes' \in 0..MaxWindows /\ codes' >= codes /\ window' \in 0..codes'
  BY DEF OpenPairing, ClosePairing, SessionExpires, vars, Agree, TypeOK
<1>2. TypeOK' /\ RevokedIsRefused'
  BY <1>1 DEF Agree, TypeOK, RevokedIsRefused, order
<1>3. codes' \in Nat
  BY <1>1
<1> QED BY <1>1, <1>2, <1>3, QuietStep

(* A request moves to a place at which it has copied nothing.              *)
LEMMA RequestStep ==
  ASSUME Agree, NEW h \in Handlers, NEW r \in Request, req' = [req EXCEPT ![h] = r],
         r.at # "rename", TypeOK', RevokedIsRefused',
         UNCHANGED <<book, arm, paired, enrolled, asked, revoked, order>>,
         Local(h)'
  PROVE  Agree'
<1>1. codes \in Nat /\ codes' = codes
  BY DEF Agree, TypeOK, arm
<1>2. req'[h] = r /\ \A g \in Handlers \ {h} : req'[g] = req[g]
  BY DEF Agree, TypeOK
<1> QED BY <1>1, <1>2, QuietStep

(* A handler between two requests.                                         *)
LEMMA NothingBegun == NoRequest \in Request /\ NoRequest.at = "idle" /\ NoRequest.code = 0
BY RegistryAssumption DEF NoRequest, Request

(* Logging in and signing leave the lists alone; a revoked device that is *)
(* not astray is not known.                                                *)
LEMMA SessionStep ==
  ASSUME Agree, NEW h \in Handlers,
         \/ \E s \in sessions : Signed(h, s)
         \/ NewSession(h) \/ Device(h) \/ \E d \in Devices : Login(h, d)
  PROVE  Agree'
<1> USE RegistryAssumption DEF Idle, Goto, Done
<1>0. TypeOK /\ Local(h) /\ NoRequest \in Request /\ RevokedIsRefused
  BY NothingBegun DEF Agree, Locals
<1>1. ASSUME NEW s \in sessions, Signed(h, s) PROVE Agree'
  <2> DEFINE r == [req[h] EXCEPT !.at = "device", !.dev = s.device, !.late = s.device \in revoked]
  <2>1. s.device \in Devices /\ req[h] \in Request /\ (s.device \in revoked) \in BOOLEAN
    BY <1>0 DEF TypeOK, Session
  <2>2. r \in Request /\ r.at = "device" /\ r.dev = s.device /\ r.late = (s.device \in revoked)
    BY <2>1 DEF Request, Saving
  <2>3. req' = [req EXCEPT ![h] = r]
    BY <1>0, <1>1 DEF Signed, TypeOK
  <2>4. UNCHANGED <<book, arm, sess, restarts, hist>>
    BY <1>1 DEF Signed
  <2> HIDE DEF r
  <2>5. TypeOK' /\ RevokedIsRefused' /\ req'[h] = r
    BY <1>0, <2>2, <2>3, <2>4 DEF TypeOK, RevokedIsRefused, book, arm, sess, hist, told, order
  <2>6. Local(h)'
    BY <2>1, <2>2, <2>4, <2>5 DEF Local, Saves, Saving, hist, told
  <2> QED BY <2>2, <2>3, <2>4, <2>5, <2>6, RequestStep DEF hist, told
<1>2. ASSUME NewSession(h) PROVE Agree'
  <2>1. req' = [req EXCEPT ![h] = NoRequest] /\ req[h].dev \in Devices
        /\ UNCHANGED <<book, arm, restarts, hist>>
    BY <1>0, <1>2 DEF NewSession, Local
  <2>2. TypeOK' /\ RevokedIsRefused' /\ req'[h] = NoRequest
    BY <1>0, <1>2, <2>1 DEF NewSession, TypeOK, Session, RevokedIsRefused, book, arm, hist, told, order
  <2>3. Local(h)'
    BY <2>2, NothingBegun DEF Local, Saves, Saving
  <2> QED BY <1>0, <2>1, <2>2, <2>3, RequestStep, NothingBegun DEF hist, told
<1>3. ASSUME Device(h) PROVE Agree'
  <2>1. /\ req' = [req EXCEPT ![h] = NoRequest] /\ req[h].dev \in Devices /\ req[h].late \in BOOLEAN
        /\ UNCHANGED <<book, arm, sess, restarts, paired, enrolled, asked, revoked, order>>
    BY <1>0, <1>3 DEF Device, Local, TypeOK, Request
  <2>2. TypeOK' /\ req'[h] = NoRequest
    BY <1>0, <1>3, <2>1 DEF Device, TypeOK, book, arm, sess, order
  <2>3. Local(h)'
    BY <2>2, NothingBegun DEF Local, Saves, Saving
  <2>4. Known(req[h].dev) /\ req[h].late => req[h].dev \in strayed
    <3>1. Known(req[h].dev) /\ req[h].late => req[h].dev \in revoked \cap devices
      BY <1>0, <1>3 DEF Known, Device, Local
    <3> QED BY <3>1 DEF Agree, Settled, Revoked, Struck
  <2>5. RevokedIsRefused'
    BY <1>0, <1>3, <2>1, <2>4 DEF Device, RevokedIsRefused, order
  <2> QED BY <1>0, <2>1, <2>2, <2>3, <2>5, RequestStep, NothingBegun
<1>4. ASSUME NEW d \in Devices, Login(h, d) PROVE Agree'
  <2> DEFINE r == [req[h] EXCEPT !.at = "mint", !.dev = d]
  <2>1. req[h] \in Request
    BY <1>0 DEF TypeOK
  <2>2. r \in Request /\ r.at = "mint" /\ r.dev = d
    BY <2>1 DEF Request, Saving
  <2>3. req' = [req EXCEPT ![h] = r] /\ UNCHANGED <<book, arm, sess, restarts, hist>>
    BY <1>0, <1>4 DEF Login, TypeOK
  <2> HIDE DEF r
  <2>4. TypeOK' /\ RevokedIsRefused' /\ req'[h] = r
    BY <1>0, <2>2, <2>3 DEF TypeOK, RevokedIsRefused, book, arm, sess, hist, told, order
  <2>5. Local(h)'
    BY <2>2, <2>4 DEF Local, Saves, Saving
  <2> QED BY <2>2, <2>3, <2>4, <2>5, RequestStep DEF hist, told
<1> QED BY <1>1, <1>2, <1>3, <1>4

(* A request begins to enrol with the armed code.                          *)
LEMMA BeginStep ==
  ASSUME Agree, NEW h \in Handlers, registerSealed(h) \/ registerWithPassphrase(h)
  PROVE  Agree'
<1>0. TypeOK /\ RevokedIsRefused
  BY DEF Agree
<1>1. PICK c : BeginRegister(h, c)
  BY DEF registerSealed, registerWithPassphrase
<1>2. c \in 1..codes /\ c \in 0..MaxWindows
  BY <1>0, <1>1, RegistryAssumption DEF BeginRegister, PairingKey, TypeOK
<1> DEFINE r == [req[h] EXCEPT !.at = "insert", !.code = c]
<1>3. req[h] \in Request
  BY <1>0 DEF TypeOK
<1>4. r \in Request /\ r.at = "insert" /\ r.code = c
  BY <1>2, <1>3 DEF Request, Saving
<1>5. req' = [req EXCEPT ![h] = r] /\ UNCHANGED <<book, arm, sess, restarts, hist>>
  BY <1>0, <1>1 DEF BeginRegister, TypeOK
<1> HIDE DEF r
<1>6. TypeOK' /\ RevokedIsRefused' /\ req'[h] = r /\ codes' = codes
  BY <1>0, <1>4, <1>5 DEF TypeOK, RevokedIsRefused, book, arm, sess, hist, told, order
<1>7. Local(h)'
  BY <1>2, <1>4, <1>6 DEF Local, Enrols, Saves, Saving
<1> QED BY <1>4, <1>5, <1>6, <1>7, RequestStep DEF hist, told

(* A list that cannot be written leaves file and memory as they are.       *)
LEMMA PersistFailsStep ==
  ASSUME Agree, NEW h \in Handlers, PersistFails(h)
  PROVE  Agree'
<1>0. TypeOK /\ RevokedIsRefused
  BY DEF Agree
<1>1. req' = [req EXCEPT ![h] = NoRequest] /\ UNCHANGED <<book, arm, sess, restarts, hist>>
  BY DEF PersistFails, Done
<1>2. TypeOK' /\ RevokedIsRefused' /\ req'[h] = NoRequest
  BY <1>0, <1>1, NothingBegun DEF TypeOK, RevokedIsRefused, book, arm, sess, hist, told, order
<1>3. Local(h)'
  BY <1>2, NothingBegun DEF Local, Saves, Saving
<1> QED BY <1>1, <1>2, <1>3, RequestStep, NothingBegun DEF hist, told

(* What a request at its place relies on survives a step of another one    *)
(* that leaves devices kept, but for those it revokes, and struck.         *)
LEMMA OthersKeep ==
  ASSUME TypeOK, NEW g \in Handlers, Local(g), req'[g] = req[g],
         issued \subseteq issued', asked \subseteq asked', revoked \subseteq revoked',
         codes' = codes, \A n \in Nat : (n <= copies => n <= copies') /\ (n <= landed => n <= landed'),
         \A d \in issued : (d \in devices => d \in devices' \cup asked')
                           /\ (d \notin devices => d \notin devices'),
         \A d \in issued, n \in Nat : (Kept(d, n) => d \in asked' \/ Kept(d, n)')
                                      /\ (Struck(d, n) => Struck(d, n)'),
         asked \subseteq issued
  PROVE  Local(g)'
<1> DEFINE d == req[g].dev
           n == req[g].no
<1>1. req[g].no \in Nat
  BY DEF TypeOK, Request
<1>2. d \in issued => /\ Kept(d, n) => d \in asked' \/ Kept(req[g].dev, req[g].no)'
                      /\ Struck(d, n) => Struck(req[g].dev, req[g].no)'
  BY <1>1 DEF Kept, Struck, Lists
<1>3. Enrols(g) => Enrols(g)'
  BY <1>2 DEF Enrols
<1>4. Strikes(g) => Strikes(g)'
  BY <1>2 DEF Strikes
<1> QED BY <1>1, <1>3, <1>4 DEF Local, Saves

(* A device enters the memory under an id of its own.                      *)
LEMMA RegisterStep ==
  ASSUME Agree, NEW h \in Handlers, Register(h)
  PROVE  Agree'
<1>0. TypeOK /\ Drawn /\ Local(h) /\ Settled /\ RevokedIsRefused
  BY DEF Agree, Locals
<1>1. PICK x \in Devices \ issued :
        /\ devices' = devices \cup {x} /\ issued' = issued \cup {x}
        /\ req' = [req EXCEPT ![h].at = "persist", ![h].dev = x]
  BY DEF Register
<1>2. UNCHANGED <<file, arm, sess, restarts, hist>> /\ req[h].at = "insert" /\ req[h] \in Request
  BY <1>0 DEF Register, TypeOK
<1>3. /\ req' \in [Handlers -> Request]
      /\ req'[h].at = "persist" /\ req'[h].dev = x /\ req'[h].code = req[h].code
      /\ \A g \in Handlers \ {h} : req'[g] = req[g]
  BY <1>0, <1>1, <1>2 DEF TypeOK, Request, Saving
<1>4. TypeOK' /\ Drawn' /\ RevokedIsRefused'
  BY <1>0, <1>1, <1>2, <1>3 DEF TypeOK, Drawn, RevokedIsRefused, arm, sess, hist, told, order
<1>5. ASSUME NEW d \in issued, NEW n
      PROVE  (Kept(d, n) => Kept(d, n)') /\ (Struck(d, n) => Struck(d, n)')
  <2>1. Lists(n)' = Lists(n)
    BY <1>2, <1>3 DEF Lists, hist, order
  <2> QED BY <1>1, <2>1 DEF Kept, Struck
<1>6. Settled'
  <2>1. Paired' = Paired /\ Revoked' = Revoked /\ landed' = landed
        /\ Paired \subseteq issued /\ Revoked \subseteq issued
    BY <1>0, <1>2 DEF Paired, Revoked, hist, told, order, Drawn
  <2>2. (\A d \in Paired : Kept(d, landed)') /\ (\A d \in Revoked : Struck(d, landed)')
    BY <1>0, <1>5, <2>1 DEF Settled, Kept, Struck, Lists
  <2> QED BY <2>1, <2>2 DEF Settled
<1>7. Local(h)'
  <2>1. req[h].code \in 1..codes
    BY <1>0, <1>2 DEF Local, Saves, Saving, Enrols, Strikes
  <2> QED BY <1>1, <1>2, <1>3, <2>1 DEF Local, Saves, Saving, Enrols, arm
<1>8. ASSUME NEW g \in Handlers \ {h} PROVE Local(g)'
  <2>1. UNCHANGED <<asked, revoked, codes, copies, landed>>
    BY <1>2 DEF arm, hist, told, order
  <2>2. Local(g) /\ asked \subseteq issued
    BY <1>0 DEF Agree, Locals, Drawn
  <2>3. \A d \in issued : (d \in devices => d \in devices') /\ (d \notin devices => d \notin devices')
    BY <1>1
  <2> QED BY <1>0, <1>1, <1>3, <1>5, <2>1, <2>2, <2>3, OthersKeep
<1> QED BY <1>4, <1>6, <1>7, <1>8 DEF Agree, Locals

(* A device leaves the memory.                                             *)
LEMMA RevokeStep ==
  ASSUME Agree, NEW h \in Handlers, NEW x \in Devices, Revoke(h, x)
  PROVE  Agree'
<1>0. TypeOK /\ Drawn /\ Local(h) /\ Settled /\ RevokedIsRefused
  BY DEF Agree, Locals
<1>1. /\ devices' = devices \ {x} /\ asked' = asked \cup {x} /\ x \in devices
      /\ sessions' \subseteq sessions
      /\ req' = [req EXCEPT ![h].at = "persist", ![h].dev = x]
      /\ UNCHANGED <<file, issued, arm, keys, restarts, paired, enrolled, revoked, served, order>>
      /\ req[h].at = "idle" /\ req[h] \in Request
  BY <1>0 DEF Revoke, Idle, TypeOK
<1>2. /\ req' \in [Handlers -> Request]
      /\ req'[h].at = "persist" /\ req'[h].dev = x /\ req'[h].code = 0
      /\ \A g \in Handlers \ {h} : req'[g] = req[g]
  BY <1>0, <1>1 DEF TypeOK, Request, Saving, Local
<1>3. TypeOK' /\ Drawn' /\ RevokedIsRefused'
  BY <1>0, <1>1, <1>2 DEF TypeOK, Drawn, RevokedIsRefused, arm, order
<1>4. ASSUME NEW d, NEW n
      PROVE  (Kept(d, n) => d \in asked' \/ Kept(d, n)') /\ (Struck(d, n) => Struck(d, n)')
  <2>1. Lists(n)' = Lists(n)
    BY <1>1, <1>2 DEF Lists, order
  <2> QED BY <1>1, <2>1 DEF Kept, Struck
<1>5. Settled'
  <2>1. Paired' \subseteq Paired /\ Paired' \cap asked' = {} /\ Revoked' = Revoked /\ landed' = landed
    BY <1>1 DEF Paired, Revoked, order
  <2>2. (\A d \in Paired' : Kept(d, landed)') /\ (\A d \in Revoked : Struck(d, landed)')
    BY <1>0, <1>4, <2>1 DEF Settled, Kept, Struck, Lists
  <2> QED BY <2>1, <2>2 DEF Settled
<1>6. Local(h)'
  BY <1>1, <1>2 DEF Local, Saves, Saving, Strikes
<1>7. ASSUME NEW g \in Handlers \ {h} PROVE Local(g)'
  <2>1. UNCHANGED <<issued, revoked, codes, copies, landed>>
    BY <1>1 DEF arm, order
  <2>2. Local(g) /\ asked \subseteq issued /\ asked \subseteq asked'
    BY <1>0, <1>1 DEF Agree, Locals, Drawn
  <2>3. \A d \in issued : (d \in devices => d \in devices' \cup asked')
                          /\ (d \notin devices => d \notin devices')
    BY <1>1
  <2> QED BY <1>0, <1>2, <1>4, <2>1, <2>2, <2>3, OthersKeep
<1> QED BY <1>3, <1>5, <1>6, <1>7 DEF Agree, Locals

(* The list is copied: it has what the memory has, and is the newest.      *)
LEMMA PersistStep ==
  ASSUME Agree, NEW h \in Handlers, Persist(h)
  PROVE  Agree'
<1>0. TypeOK /\ Drawn /\ Local(h) /\ Settled /\ RevokedIsRefused /\ Locals
  BY DEF Agree, Locals
<1>1. /\ copies' = copies + 1 /\ req[h].at = "persist" /\ req[h] \in Request /\ copies \in Nat
      /\ devices \in SUBSET Devices
      /\ UNCHANGED <<book, arm, sess, restarts, told, fileNo, landed, strayed>>
  BY <1>0 DEF Persist, TypeOK
<1> DEFINE r == [req[h] EXCEPT !.at = "rename", !.list = devices, !.no = copies + 1]
<1>2. /\ r \in Request /\ r.at = "rename" /\ r.list = devices /\ r.no = copies + 1
      /\ r.dev = req[h].dev /\ r.code = req[h].code
  <2>1. copies + 1 \in Nat
    BY <1>1
  <2> QED BY <1>1, <2>1 DEF Request, Saving
<1>3. req' = [req EXCEPT ![h] = r]
  BY <1>0 DEF Persist, TypeOK
<1> HIDE DEF r
<1>4. /\ req' \in [Handlers -> Request] /\ req'[h].at = "rename" /\ req'[h].list = devices
      /\ req'[h].no = copies + 1
      /\ req'[h].dev = req[h].dev /\ req'[h].code = req[h].code
      /\ \A g \in Handlers \ {h} : req'[g] = req[g]
  BY <1>0, <1>2, <1>3 DEF TypeOK
<1>5. TypeOK' /\ Drawn' /\ RevokedIsRefused'
  BY <1>0, <1>1, <1>4 DEF TypeOK, Drawn, RevokedIsRefused, book, arm, sess, told
<1>6. ASSUME NEW d, NEW n
      PROVE  (Kept(d, n) => Kept(d, n)') /\ (Struck(d, n) => Struck(d, n)')
  <2>1. Lists(n)' \subseteq Lists(n) \cup {devices}
    BY <1>1, <1>4 DEF Lists, book
  <2> QED BY <1>1, <2>1 DEF Kept, Struck, book
<1>7. Settled'
  <2>1. Paired' = Paired /\ Revoked' = Revoked /\ landed' = landed
    BY <1>1 DEF Paired, Revoked, told
  <2>2. ASSUME NEW n, n = landed
        PROVE  (\A d \in Paired : Kept(d, n)') /\ (\A d \in Revoked : Struck(d, n)')
    BY <1>0, <1>6, <2>2 DEF Settled
  <2>3. (\A d \in Paired : Kept(d, landed)') /\ (\A d \in Revoked : Struck(d, landed)')
    BY <2>1, <2>2 DEF Kept, Struck, Lists
  <2> QED BY <2>1, <2>3 DEF Settled
<1>8. ASSUME NEW n, n = copies + 1 PROVE Lists(n)' \subseteq {devices}
  <2>1. \A g \in Handlers \ {h} : req[g].at = "rename" => req[g].no <= copies /\ req[g].no \in Nat
    BY <1>0 DEF Locals, Local, TypeOK, Request
  <2>2. \A k \in Nat : k <= copies => ~(k >= copies + 1)
    BY <1>1
  <2>3. ~(fileNo' >= n)
    BY <1>0, <1>1, <1>8 DEF TypeOK
  <2>4. \A g \in Handlers : req'[g].at = "rename" /\ req'[g].no >= n => g = h
    BY <1>4, <1>8, <2>1, <2>2
  <2> QED BY <1>4, <2>3, <2>4 DEF Lists
<1>9. Local(h)'
  <2>1. Enrols(h) \/ Strikes(h)
    BY <1>0, <1>1 DEF Local, Saves, Saving
  <2>2. Lists(req[h].no)' \subseteq {devices}
    BY <1>4, <1>8 DEF Lists
  <2>3. devices' = devices /\ UNCHANGED <<issued, asked, codes>>
    BY <1>1 DEF book, arm, told
  <2>4. Enrols(h) => Enrols(h)'
    BY <1>1, <1>4, <2>2, <2>3 DEF Enrols, Kept
  <2>5. Strikes(h) => Strikes(h)'
    BY <1>1, <1>4, <2>2, <2>3 DEF Strikes, Struck
  <2> QED BY <1>0, <1>1, <1>4, <2>1, <2>3, <2>4, <2>5 DEF Local, Drawn
<1>10. ASSUME NEW g \in Handlers \ {h} PROVE Local(g)'
  <2>1. UNCHANGED <<devices, issued, asked, revoked, codes, landed>>
    BY <1>1 DEF book, arm, told
  <2>2. Local(g) /\ asked \subseteq issued
    BY <1>0 DEF Locals, Drawn
  <2>3. \A n \in Nat : n <= copies => n <= copies'
    BY <1>1
  <2> QED BY <1>0, <1>4, <1>6, <2>1, <2>2, <2>3, OthersKeep
<1> QED BY <1>5, <1>7, <1>9, <1>10 DEF Agree, Locals

(* A list replaces the file, newer than what was there or older.           *)
LEMMA RenameStep ==
  ASSUME Agree, NEW h \in Handlers, Rename(h)
  PROVE  Agree'
<1> DEFINE no == req[h].no
           x  == req[h].dev
<1>1. TypeOK /\ Drawn /\ Local(h) /\ Settled /\ RevokedIsRefused /\ Locals
  BY DEF Agree, Locals
<1>2. /\ req[h].at = "rename" /\ file' = req[h].list /\ fileNo' = no /\ req[h] \in Request
      /\ landed' = IF no > landed THEN no ELSE landed
      /\ UNCHANGED <<devices, issued, arm, sess, restarts, paired, enrolled, asked, served,
                     copies, strayed>>
      /\ file' \subseteq issued
  BY <1>1 DEF Rename, TypeOK, Local
<1>3. /\ no \in Nat /\ no <= copies /\ landed \in Nat /\ landed' \in Nat /\ landed <= landed'
      /\ no <= landed' /\ landed' <= copies /\ copies \in Nat
  BY <1>1, <1>2 DEF TypeOK, Request, Local
<1>4. \/ /\ req[h].code # 0 /\ UNCHANGED revoked
         /\ req'[h].at = "answer" /\ req'[h].dev = x /\ req'[h].no = no
         /\ req'[h].code = req[h].code /\ req'[h] \in Request
      \/ /\ req[h].code = 0 /\ revoked' = revoked \cup {x}
         /\ req'[h] = NoRequest
  <2> DEFINE r == [req[h] EXCEPT !.at = "answer"]
  <2>1. r \in Request /\ r.at = "answer" /\ r.dev = x /\ r.no = no /\ r.code = req[h].code
    BY <1>2 DEF Request, Saving
  <2>2. \/ req[h].code # 0 /\ UNCHANGED revoked /\ req' = [req EXCEPT ![h] = r]
        \/ req[h].code = 0 /\ revoked' = revoked \cup {x} /\ req' = [req EXCEPT ![h] = NoRequest]
    BY <1>1 DEF Rename, Goto, Done, TypeOK
  <2> HIDE DEF r
  <2> QED BY <1>1, <2>1, <2>2 DEF TypeOK
<1>5. /\ req' \in [Handlers -> Request] /\ req'[h].at # "rename"
      /\ \A g \in Handlers \ {h} : req'[g] = req[g]
  <2>1. req'[h] \in Request /\ req'[h].at # "rename"
    BY <1>4, NothingBegun
  <2>2. \A r : [req EXCEPT ![h] = r] = [g \in Handlers |-> IF g = h THEN r ELSE req[g]]
    BY <1>1 DEF TypeOK
  <2>3. \E r : req' = [req EXCEPT ![h] = r]
    BY <1>1 DEF Rename, Goto, Done, TypeOK
  <2> QED BY <1>1, <2>1, <2>2, <2>3 DEF TypeOK
<1>6. ASSUME NEW d, NEW n
      PROVE  (Kept(d, n) => Kept(d, n)') /\ (Struck(d, n) => Struck(d, n)')
  <2>1. Lists(n)' \subseteq Lists(n)
    <3>1. (fileNo' >= n) => file' \in Lists(n)
      BY <1>2 DEF Lists
    <3> QED BY <1>5, <3>1 DEF Lists
  <2> QED BY <1>2, <2>1 DEF Kept, Struck
<1>7. ASSUME NEW d, NEW n \in Nat, n <= landed'
      PROVE  (Kept(d, n) => Kept(d, landed)') /\ (Struck(d, n) => Struck(d, landed)')
  <2>1. ASSUME NEW m, m = landed'
        PROVE  (Kept(d, n) => Kept(d, m)') /\ (Struck(d, n) => Struck(d, m)')
    <3>1. (Kept(d, n) => Kept(d, m)) /\ (Struck(d, n) => Struck(d, m))
      BY <1>1, <1>3, <1>7, <2>1, SinceLater
    <3> QED BY <1>6, <3>1
  <2> QED BY <2>1 DEF Kept, Struck, Lists
<1>8. Strikes(h) \/ Enrols(h)
  BY <1>1, <1>2 DEF Local, Saves, Saving
<1>9. TypeOK' /\ Drawn' /\ RevokedIsRefused'
  <2>1. req[h].code = 0 => x \in asked /\ x \in Devices
    BY <1>1, <1>8 DEF Strikes, Enrols, TypeOK, Drawn
  <2>2. revoked' \subseteq asked /\ revoked' \subseteq Devices
    BY <1>1, <1>4, <2>1 DEF Drawn, TypeOK
  <2>3. landed' \in 0..copies /\ fileNo' \in 0..landed'
    BY <1>2, <1>3
  <2> QED BY <1>1, <1>2, <1>5, <2>2, <2>3 DEF TypeOK, Drawn, RevokedIsRefused, arm, sess
<1>10. Settled'
  <2>1. Paired' = Paired /\ Revoked' \subseteq Revoked \cup {x} /\ (req[h].code # 0 => Revoked' = Revoked)
    BY <1>2, <1>4 DEF Paired, Revoked
  <2>2. req[h].code = 0 => Struck(x, no)
    BY <1>2, <1>8 DEF Enrols, Strikes
  <2>3. \A d \in Paired' : Kept(d, landed)'
    BY <1>1, <1>3, <1>7, <2>1 DEF Settled
  <2>4. \A d \in Revoked' : Struck(d, landed)'
    BY <1>1, <1>3, <1>7, <2>1, <2>2 DEF Settled
  <2> QED BY <2>3, <2>4 DEF Settled
<1>11. Local(h)'
  <2>1. CASE req[h].code # 0
    <3>1. Enrols(h)
      BY <1>8, <2>1 DEF Strikes
    <3>2. Kept(x, no) => Kept(req[h].dev, req[h].no)'
      <4>1. req'[h].dev = x /\ req'[h].no = no
        BY <1>4, <2>1
      <4>2. ASSUME NEW d, NEW n, d = x, n = no PROVE Kept(x, no) => Kept(d, n)'
        BY <1>6, <4>2
      <4> QED BY <4>1, <4>2 DEF Kept, Lists
    <3>3. Enrols(h)'
      BY <1>2, <1>4, <2>1, <3>1, <3>2 DEF Enrols, arm
    <3> QED BY <1>3, <1>4, <2>1, <3>3 DEF Local
  <2>2. CASE req[h].code = 0
    BY <1>4, <2>2, NothingBegun DEF Local, Saves, Saving
  <2> QED BY <2>1, <2>2
<1>12. ASSUME NEW g \in Handlers \ {h} PROVE Local(g)'
  <2>1. UNCHANGED <<devices, issued, asked, codes, copies>> /\ revoked \subseteq revoked'
    BY <1>2, <1>4 DEF arm
  <2>2. Local(g) /\ asked \subseteq issued
    BY <1>1 DEF Locals, Drawn
  <2>3. \A n \in Nat : n <= landed => n <= landed'
    BY <1>3
  <2> QED BY <1>1, <1>5, <1>6, <2>1, <2>2, <2>3, OthersKeep
<1> QED BY <1>9, <1>10, <1>11, <1>12 DEF Agree, Locals

(* The secret goes out for a device whose list got to the file.            *)
LEMMA AnswerStep ==
  ASSUME Agree, NEW h \in Handlers, Answer(h)
  PROVE  Agree'
<1> DEFINE x == req[h].dev
<1>1. TypeOK /\ Drawn /\ Local(h) /\ Settled /\ RevokedIsRefused /\ Locals
  BY DEF Agree, Locals
<1>2. /\ req[h].at = "answer" /\ window' = 0 /\ paired' = paired \cup {x}
      /\ enrolled' = [enrolled EXCEPT ![req[h].code] = @ \cup {x}]
      /\ req' = [req EXCEPT ![h] = NoRequest]
      /\ UNCHANGED <<book, codes, sess, restarts, asked, revoked, served, order>>
  BY DEF Answer, Told, Done
<1>3. /\ req[h].code \in 1..codes /\ req[h].code \in Code /\ x \in issued /\ x \in Devices
      /\ x \in asked \/ Kept(x, req[h].no)
      /\ req[h].no \in Nat /\ req[h].no <= landed /\ landed \in Nat
  BY <1>1, <1>2 DEF Local, Saves, Saving, Strikes, Enrols, TypeOK, Request, Code
<1>4. /\ req' \in [Handlers -> Request] /\ req'[h] = NoRequest
      /\ \A g \in Handlers \ {h} : req'[g] = req[g]
  BY <1>1, <1>2, NothingBegun DEF TypeOK
<1>5. TypeOK' /\ RevokedIsRefused'
  <2>1. window' \in 0..codes'
    BY <1>1, <1>2 DEF TypeOK
  <2>2. enrolled' \in [Code -> SUBSET Devices]
    BY <1>1, <1>2, <1>3 DEF TypeOK
  <2> QED BY <1>1, <1>2, <1>3, <1>4, <2>1, <2>2 DEF TypeOK, RevokedIsRefused, book, sess, order
<1>6. Drawn'
  <2>1. \A c \in Code : c > codes => enrolled'[c] = enrolled[c]
    BY <1>1, <1>2, <1>3, RegistryAssumption DEF TypeOK, Code
  <2> QED BY <1>1, <1>2, <1>3, <2>1 DEF Drawn, book
<1>7. ASSUME NEW d, NEW n
      PROVE  (Kept(d, n) => Kept(d, n)') /\ (Struck(d, n) => Struck(d, n)')
  <2>1. \A g \in Handlers : req'[g].at = "rename" => req'[g] = req[g]
    BY <1>4, NothingBegun
  <2> QED BY <1>2, <2>1, ListsStay DEF book, order
<1>8. Settled'
  <2>1. /\ Paired' \subseteq Paired \cup {x} /\ (x \in asked => Paired' = Paired)
        /\ Revoked' = Revoked /\ landed' = landed
    BY <1>2 DEF Paired, Revoked, order
  <2>2. x \in asked \/ Kept(x, landed)
    BY <1>1, <1>3, SinceLater
  <2>3. ASSUME NEW n, n = landed
        PROVE  (\A d \in Paired' : Kept(d, n)') /\ (\A d \in Revoked' : Struck(d, n)')
    BY <1>1, <1>7, <2>1, <2>2, <2>3 DEF Settled
  <2>4. (\A d \in Paired' : Kept(d, landed)') /\ (\A d \in Revoked' : Struck(d, landed)')
    BY <2>1, <2>3 DEF Kept, Struck, Lists
  <2> QED BY <2>4 DEF Settled
<1>9. Local(h)'
  BY <1>4, NothingBegun DEF Local, Saves, Saving
<1>10. ASSUME NEW g \in Handlers \ {h} PROVE Local(g)'
  <2>1. UNCHANGED <<devices, issued, asked, revoked, codes, copies, landed>>
    BY <1>2 DEF book, order
  <2>2. Local(g) /\ asked \subseteq issued
    BY <1>1 DEF Locals, Drawn
  <2> QED BY <1>1, <1>4, <1>7, <2>1, <2>2, OthersKeep
<1> QED BY <1>5, <1>6, <1>8, <1>9, <1>10 DEF Agree, Locals

(* The memory becomes what is in the file; if that is an older list, the   *)
(* devices that come or go with it are the ones that went astray.          *)
LEMMA LoadStep ==
  ASSUME Agree, LoadRegistry
  PROVE  Agree'
<1> USE DEF sess, arm, hist, told, order
<1>1. /\ devices' = file /\ sessions' = {} /\ window' = 0
      /\ req' = [h \in Handlers |-> NoRequest] /\ restarts' \in 0..MaxRestarts
      /\ copies' = 0 /\ fileNo' = 0 /\ landed' = 0
      /\ strayed' = IF Regressed THEN strayed \cup (devices \ file) \cup (file \ devices)
                    ELSE strayed
      /\ UNCHANGED <<file, issued, codes, keys, told>>
      /\ TypeOK /\ Drawn /\ Settled /\ RevokedIsRefused
  BY RegistryAssumption DEF LoadRegistry, Agree, TypeOK
<1>2. \A h \in Handlers : req'[h] = NoRequest
  BY <1>1
<1>3. TypeOK' /\ Drawn' /\ RevokedIsRefused' /\ strayed \subseteq strayed'
  BY <1>1, NothingBegun DEF TypeOK, Drawn, RevokedIsRefused
<1>4. Locals'
  BY <1>2, NothingBegun DEF Locals, Local, Saves, Saving
<1>5. ASSUME NEW n PROVE Lists(n)' \subseteq {file}
  BY <1>1, <1>2, NothingBegun DEF Lists
<1>6. \A d \in Paired' : d \in file
  <2> SUFFICES ASSUME NEW d \in Paired' PROVE d \in file
    OBVIOUS
  <2>1. d \in Paired /\ d \notin strayed'
    BY <1>1, <1>3 DEF Paired
  <2>2. Kept(d, landed)
    BY <1>1, <2>1 DEF Settled
  <2>3. CASE Regressed
    BY <1>1, <2>1, <2>2, <2>3 DEF Kept
  <2>4. CASE ~Regressed
    BY <1>1, <2>1, <2>4, SettledShows DEF PairingsSurvive
  <2> QED BY <2>3, <2>4
<1>7. \A d \in Revoked' : d \notin file
  <2> SUFFICES ASSUME NEW d \in Revoked' PROVE d \notin file
    OBVIOUS
  <2>1. d \in Revoked /\ d \notin strayed'
    BY <1>1, <1>3 DEF Revoked
  <2>2. Struck(d, landed)
    BY <1>1, <2>1 DEF Settled
  <2>3. CASE Regressed
    BY <1>1, <2>1, <2>2, <2>3 DEF Struck
  <2>4. CASE ~Regressed
    BY <1>1, <2>1, <2>4, SettledShows DEF RevokedStaysOut
  <2> QED BY <2>3, <2>4
<1>8. Settled'
  BY <1>1, <1>5, <1>6, <1>7 DEF Settled, Kept, Struck, Lists
<1> QED BY <1>3, <1>4, <1>8 DEF Agree

--------------------------------------------------------------------------------
(* Every step keeps the invariant.                                         *)
LEMMA RegistryStep ==
  ASSUME Agree, [Next]_vars
  PROVE  Agree'
<1>1. CASE OpenPairing \/ ClosePairing \/ UNCHANGED vars \/ \E s \in sessions : SessionExpires(s)
  BY <1>1, WindowStep
<1>2. CASE LoadRegistry
  BY <1>2, LoadStep
<1>3. ASSUME NEW h \in Handlers,
             \/ \E s \in sessions : Signed(h, s)
             \/ NewSession(h) \/ Device(h) \/ \E d \in Devices : Login(h, d)
      PROVE  Agree'
  BY <1>3, SessionStep
<1>4. ASSUME NEW h \in Handlers, registerSealed(h) \/ registerWithPassphrase(h)
      PROVE  Agree'
  BY <1>4, BeginStep
<1>5. ASSUME NEW h \in Handlers, Register(h) \/ Persist(h) \/ Rename(h)
      PROVE  Agree'
  BY <1>5, RegisterStep, PersistStep, RenameStep
<1>6. ASSUME NEW h \in Handlers, PersistFails(h) \/ Answer(h)
      PROVE  Agree'
  BY <1>6, PersistFailsStep, AnswerStep
<1>7. ASSUME NEW h \in Handlers, NEW d \in Devices, Revoke(h, d)
      PROVE  Agree'
  BY <1>7, RevokeStep
<1> QED BY <1>1, <1>2, <1>3, <1>4, <1>5, <1>6, <1>7 DEF Next

(* RegistryInv holds in every reachable state.                             *)
THEOREM RegistryInvariance == Spec => []RegistryInv
<1>1. Agree /\ [Next]_vars => Agree'
  BY RegistryStep
<1>2. Agree => RegistryInv
  BY SettledShows DEF Agree, RegistryInv
<1> QED BY <1>1, <1>2, InitAgree, PTL DEF Spec

(* A phone that was told it is paired is known, in memory and on disk,     *)
(* until somebody asks for it to be revoked; what a save that overtook a   *)
(* newer one leaves in the file is the one exception, which it names.      *)
THEOREM PairedPhonesAreKept == Spec => []PairingsSurvive
BY RegistryInvariance, PTL DEF RegistryInv

(* A device whose revocation was confirmed does not come back, and nothing *)
(* it asks for afterwards is served, with the same exception.              *)
THEOREM RevocationIsFinal == Spec => [](RevokedStaysOut /\ RevokedIsRefused)
<1>1. RegistryInv => RevokedStaysOut /\ RevokedIsRefused
  BY DEF RegistryInv, Agree
<1> QED BY <1>1, RegistryInvariance, PTL

(* What EnrolledTogether needs besides, to count.                          *)
Countable == \A c \in Code : IsFiniteSet(enrolled[c])

(* At the start no secret has been handed out.                             *)
LEMMA InitTogether == Init => EnrolledTogether /\ Countable
<1>1. \A c \in Code : Init => enrolled[c] = {}
  BY DEF Init
<1> QED BY <1>1, FS_EmptySet DEF EnrolledTogether, Countable

(* While nobody is handed a secret, codes that handed one out are not      *)
(* taken up again.                                                         *)
LEMMA NobodyJoins ==
  ASSUME TypeOK, EnrolledTogether, Countable, UNCHANGED enrolled,
         \A c \in Code : window' = c => window = c \/ c > codes,
         \A c \in Code : c > codes => enrolled[c] = {},
         \A h \in Handlers : Saves(h)' /\ req'[h].code \in Code =>
            (Saves(h) /\ req'[h].code = req[h].code) \/ req'[h].code = window
  PROVE  EnrolledTogether' /\ Countable'
<1> SUFFICES ASSUME NEW c \in Code, enrolled[c] # {}
             PROVE  /\ window' # c
                    /\ Cardinality(enrolled[c]) + Cardinality(Holders(c)') <= Cardinality(Handlers)
  BY DEF EnrolledTogether, Countable
<1>1. /\ window # c /\ IsFiniteSet(enrolled[c])
      /\ Cardinality(enrolled[c]) + Cardinality(Holders(c)) <= Cardinality(Handlers)
  BY DEF EnrolledTogether, Countable
<1>2. window' # c
  BY <1>1
<1>3. Holders(c)' \subseteq Holders(c)
  BY <1>1 DEF Holders
<1>4. IsFiniteSet(Holders(c)) /\ IsFiniteSet(Handlers)
  BY RegistryAssumption, FS_Subset DEF Holders
<1>5. Cardinality(Holders(c)') <= Cardinality(Holders(c)) /\ IsFiniteSet(Holders(c)')
  BY <1>3, <1>4, FS_Subset
<1>6. /\ Cardinality(enrolled[c]) \in Nat /\ Cardinality(Holders(c)) \in Nat
      /\ Cardinality(Holders(c)') \in Nat /\ Cardinality(Handlers) \in Nat
  BY <1>1, <1>4, <1>5, FS_CardinalityType
<1> QED BY <1>1, <1>2, <1>5, <1>6

(* The secret's answer counts one device more and one holder less.         *)
LEMMA AnswerJoins ==
  ASSUME Agree, EnrolledTogether, Countable, NEW h \in Handlers, Answer(h)
  PROVE  EnrolledTogether' /\ Countable'
<1> DEFINE e == req[h].code
           x == req[h].dev
<1>1. TypeOK /\ Local(h) /\ 0 \notin Code
  BY DEF Agree, Locals, Code
<1>2. /\ req[h].at = "answer" /\ window' = 0
      /\ enrolled' = [enrolled EXCEPT ![e] = @ \cup {x}]
      /\ req' = [req EXCEPT ![h] = NoRequest]
  BY DEF Answer, Told, Done
<1>3. e \in Code
  <2>1. e \in 1..codes
    BY <1>1, <1>2 DEF Local, Saves, Saving, Enrols, Strikes
  <2> QED BY <1>1, <2>1, RegistryAssumption DEF TypeOK, Code
<1>4. /\ req'[h] = NoRequest /\ ~Saves(h)' /\ h \in Holders(e)
      /\ \A g \in Handlers \ {h} : req'[g] = req[g]
  BY <1>1, <1>2, NothingBegun DEF TypeOK, Saves, Saving, Holders
<1> SUFFICES ASSUME NEW c \in Code
             PROVE  /\ IsFiniteSet(enrolled'[c]) /\ window' # c
                    /\ enrolled'[c] # {} =>
                         Cardinality(enrolled'[c]) + Cardinality(Holders(c)') <= Cardinality(Handlers)
  BY DEF EnrolledTogether, Countable
<1>5. Holders(c)' \subseteq Holders(c) \ {h} /\ Holders(c) \subseteq Handlers
  BY <1>4 DEF Holders, Saves
<1>6. IsFiniteSet(Holders(c)) /\ IsFiniteSet(Handlers) /\ IsFiniteSet(enrolled[c])
  BY <1>5, RegistryAssumption, FS_Subset DEF Countable
<1>7. /\ Cardinality(enrolled[c]) \in Nat /\ Cardinality(Holders(c)) \in Nat
      /\ Cardinality(Handlers) \in Nat /\ Cardinality(Holders(c)) <= Cardinality(Handlers)
  BY <1>5, <1>6, FS_CardinalityType, FS_Subset
<1>8. IsFiniteSet(Holders(c)') /\ Cardinality(Holders(c)') \in Nat
      /\ Cardinality(Holders(c)') <= Cardinality(Holders(c))
  BY <1>5, <1>6, FS_Subset, FS_CardinalityType
<1>9. CASE c # e
  <2>1. enrolled'[c] = enrolled[c]
    BY <1>1, <1>2, <1>9 DEF TypeOK
  <2>2. enrolled[c] # {} =>
          Cardinality(enrolled[c]) + Cardinality(Holders(c)) <= Cardinality(Handlers)
    BY DEF EnrolledTogether
  <2> QED BY <1>1, <1>2, <1>6, <1>7, <1>8, <2>1, <2>2
<1>10. CASE c = e
  <2>1. enrolled'[c] = enrolled[c] \cup {x}
    BY <1>1, <1>2, <1>3, <1>10 DEF TypeOK
  <2>2. /\ IsFiniteSet(enrolled'[c]) /\ Cardinality(enrolled'[c]) \in Nat
        /\ Cardinality(enrolled'[c]) <= Cardinality(enrolled[c]) + 1
    <3>1. /\ IsFiniteSet(enrolled[c] \cup {x})
          /\ x \in enrolled[c] => Cardinality(enrolled[c] \cup {x}) = Cardinality(enrolled[c])
          /\ x \notin enrolled[c] => Cardinality(enrolled[c] \cup {x}) = Cardinality(enrolled[c]) + 1
      BY <1>6, FS_AddElement
    <3> QED BY <1>7, <2>1, <3>1
  <2>3. Cardinality(Holders(c) \ {h}) = Cardinality(Holders(c)) - 1 /\ IsFiniteSet(Holders(c) \ {h})
    BY <1>4, <1>6, <1>10, FS_RemoveElement
  <2>4. Cardinality(Holders(c)') <= Cardinality(Holders(c)) - 1
    BY <1>5, <2>3, FS_Subset
  <2>5. Cardinality(enrolled[c]) + Cardinality(Holders(c)) <= Cardinality(Handlers)
    <3>1. CASE enrolled[c] = {}
      BY <1>7, <3>1, FS_EmptySet
    <3>2. CASE enrolled[c] # {}
      BY <3>2 DEF EnrolledTogether
    <3> QED BY <3>1, <3>2
  <2> QED BY <1>1, <1>2, <1>7, <1>8, <2>2, <2>4, <2>5
<1> QED BY <1>9, <1>10

(* Only a request that finds the window open takes up a code.              *)
LEMMA TogetherStep ==
  ASSUME Agree, EnrolledTogether, Countable, [Next]_vars
  PROVE  EnrolledTogether' /\ Countable'
<1> USE DEF book, arm, sess, hist, told, order
<1>1. TypeOK /\ (\A c \in Code : c > codes => enrolled[c] = {}) /\ 0 \notin Code /\ codes \in Nat
  BY DEF Agree, Drawn, Code, TypeOK
<1>2. CASE OpenPairing \/ ClosePairing \/ UNCHANGED vars \/ \E s \in sessions : SessionExpires(s)
  <2>1. UNCHANGED <<enrolled, req>> /\ (window' = window \/ window' = 0 \/ window' = codes + 1)
    BY <1>2 DEF OpenPairing, ClosePairing, SessionExpires, vars
  <2>2. \A c \in Code : window' = c => window = c \/ c > codes
    BY <1>1, <2>1
  <2> QED BY <1>1, <2>1, <2>2, NobodyJoins DEF Saves
<1>3. CASE LoadRegistry
  <2>1. UNCHANGED enrolled /\ window' = 0 /\ \A h \in Handlers : req'[h] = NoRequest
    BY <1>3 DEF LoadRegistry
  <2> QED BY <1>1, <2>1, NobodyJoins, NothingBegun DEF Saves, Saving
<1>4. ASSUME NEW h \in Handlers, Answer(h) PROVE EnrolledTogether' /\ Countable'
  BY <1>4, AnswerJoins
<1>5. ASSUME NEW h \in Handlers, UNCHANGED <<enrolled, window>>,
             \A g \in Handlers \ {h} : req'[g] = req[g],
             \/ ~Saves(h)' \/ req'[h].code = 0
             \/ Saves(h) /\ req'[h].code = req[h].code
             \/ req'[h].code = window
      PROVE  EnrolledTogether' /\ Countable'
  <2>1. \A g \in Handlers : Saves(g)' /\ req'[g].code \in Code =>
           (Saves(g) /\ req'[g].code = req[g].code) \/ req'[g].code = window
    BY <1>1, <1>5 DEF Saves
  <2> QED BY <1>1, <1>5, <2>1, NobodyJoins
<1>6. ASSUME NEW h \in Handlers,
             \/ \E s \in sessions : Signed(h, s)
             \/ NewSession(h) \/ Device(h) \/ PersistFails(h)
             \/ \E d \in Devices : Login(h, d)
      PROVE  EnrolledTogether' /\ Countable'
  <2>1. UNCHANGED <<enrolled, window>> /\ ~Saves(h)' /\ \A g \in Handlers \ {h} : req'[g] = req[g]
    <3>1. CASE NewSession(h) \/ Device(h) \/ PersistFails(h)
      <4>1. UNCHANGED <<enrolled, window>> /\ req' = [req EXCEPT ![h] = NoRequest]
        BY <3>1 DEF NewSession, Device, PersistFails, Done
      <4> QED BY <1>1, <4>1, NothingBegun DEF TypeOK, Saves, Saving
    <3>2. ASSUME NEW s \in sessions, Signed(h, s)
          PROVE  /\ UNCHANGED <<enrolled, window>> /\ ~Saves(h)'
                 /\ \A g \in Handlers \ {h} : req'[g] = req[g]
      BY <1>1, <3>2 DEF Signed, TypeOK, Saves, Saving, Request
    <3>3. ASSUME NEW d \in Devices, Login(h, d)
          PROVE  /\ UNCHANGED <<enrolled, window>> /\ ~Saves(h)'
                 /\ \A g \in Handlers \ {h} : req'[g] = req[g]
      BY <1>1, <3>3 DEF Login, TypeOK, Saves, Saving, Request
    <3> QED BY <1>6, <3>1, <3>2, <3>3
  <2> QED BY <1>5, <2>1
<1>7. ASSUME NEW h \in Handlers, Register(h) \/ Persist(h)
      PROVE  EnrolledTogether' /\ Countable'
  <2>1. /\ UNCHANGED <<enrolled, window>> /\ Saves(h) /\ req'[h].code = req[h].code
        /\ \A g \in Handlers \ {h} : req'[g] = req[g]
    BY <1>1, <1>7 DEF Register, Persist, TypeOK, Saves, Saving, Request
  <2> QED BY <1>5, <2>1
<1>8. ASSUME NEW h \in Handlers, Rename(h) PROVE EnrolledTogether' /\ Countable'
  <2>1. /\ UNCHANGED <<enrolled, window>> /\ Saves(h) /\ (~Saves(h)' \/ req'[h].code = req[h].code)
        /\ \A g \in Handlers \ {h} : req'[g] = req[g]
    BY <1>1, <1>8, NothingBegun DEF Rename, Goto, Done, TypeOK, Saves, Saving, Request
  <2> QED BY <1>5, <2>1
<1>9. ASSUME NEW h \in Handlers, registerSealed(h) \/ registerWithPassphrase(h)
      PROVE  EnrolledTogether' /\ Countable'
  <2>1. PICK c : BeginRegister(h, c)
    BY <1>9 DEF registerSealed, registerWithPassphrase
  <2>2. c = window /\ window \in 0..MaxWindows
    BY <1>1, <2>1, RegistryAssumption DEF BeginRegister, PairingKey, TypeOK
  <2>3. /\ UNCHANGED <<enrolled, window>> /\ req'[h].code = window
        /\ \A g \in Handlers \ {h} : req'[g] = req[g]
    BY <1>1, <2>1, <2>2 DEF BeginRegister, TypeOK, Request
  <2> QED BY <1>5, <2>3
<1>10. ASSUME NEW h \in Handlers, NEW d \in Devices, Revoke(h, d)
       PROVE  EnrolledTogether' /\ Countable'
  <2>1. /\ UNCHANGED <<enrolled, window>> /\ req'[h].code = 0
        /\ \A g \in Handlers \ {h} : req'[g] = req[g]
    BY <1>1, <1>10 DEF Revoke, Idle, TypeOK, Request, Agree, Locals, Local
  <2> QED BY <1>5, <2>1
<1> QED BY <1>2, <1>3, <1>4, <1>6, <1>7, <1>8, <1>9, <1>10 DEF Next

(* The devices that one pairing code enrolled were being enrolled together *)
(* when the first of them got its secret.                                  *)
THEOREM CodesEnrolTogether == Spec => []EnrolledTogether
<1> DEFINE Inv == Agree /\ EnrolledTogether /\ Countable
<1>1. Init => Inv
  BY InitAgree, InitTogether
<1>2. Inv /\ [Next]_vars => Inv'
  BY RegistryStep, TogetherStep
<1>3. Inv => EnrolledTogether
  OBVIOUS
<1> QED BY <1>1, <1>2, <1>3, PTL DEF Spec

--------------------------------------------------------------------------------
(* Every step is a step of the book, or leaves the book alone.             *)
LEMMA StepRefines ==
  ASSUME Agree, Agree', [Next]_vars
  PROVE  [Book!Next]_<<devices, Regressed, Book!told, strayed>>
<1> USE DEF book, arm, sess, hist, told, order, Done, Goto, Told, Book!told
<1> DEFINE Alone == UNCHANGED <<devices, Regressed, paired, asked, revoked, strayed>>
<1>1. TypeOK /\ Drawn /\ Locals /\ Settled /\ TypeOK' /\ Settled'
  BY DEF Agree
<1>2. /\ Regressed \in BOOLEAN /\ Regressed' \in BOOLEAN
      /\ (UNCHANGED <<fileNo, landed>> => Regressed' = Regressed)
  BY DEF Regressed
<1>3. Paired' \subseteq devices' /\ devices' \cap Revoked' = {}
  BY <1>1 DEF Settled, Kept, Struck
<1>4. CASE OpenPairing \/ ClosePairing \/ UNCHANGED vars \/ \E s \in sessions : SessionExpires(s)
  BY <1>2, <1>4 DEF OpenPairing, ClosePairing, SessionExpires, vars
<1>5. ASSUME NEW h \in Handlers,
             \/ registerSealed(h) \/ registerWithPassphrase(h) \/ Persist(h)
             \/ PersistFails(h) \/ NewSession(h) \/ Device(h)
             \/ \E d \in Devices : Login(h, d)
             \/ \E s \in sessions : Signed(h, s)
      PROVE  Alone
  BY <1>2, <1>5 DEF registerSealed, registerWithPassphrase, BeginRegister, Persist,
              PersistFails, NewSession, Device, Login, Signed
<1>6. ASSUME UNCHANGED <<Regressed, paired, asked, revoked, strayed>>, devices' \subseteq Devices
      PROVE  Book!Next
  <2>1. Book!Amend(devices')
    BY <1>3, <1>6 DEF Book!Amend, Paired, Revoked
  <2> QED BY <1>6, <2>1 DEF Book!Next
<1>7. ASSUME NEW h \in Handlers, Register(h) PROVE Book!Next
  BY <1>1, <1>2, <1>6, <1>7 DEF Register, TypeOK
<1>8. CASE LoadRegistry
  <2>1. devices' = file /\ file \subseteq Devices /\ UNCHANGED <<paired, asked, revoked>> /\ ~Regressed'
    BY <1>1, <1>8 DEF LoadRegistry, TypeOK, Regressed
  <2>2. CASE Regressed
    <3>1. Book!Stray(file)
      BY <1>8, <2>1, <2>2, <1>2 DEF LoadRegistry, Book!Stray
    <3> QED BY <2>1, <3>1 DEF Book!Next
  <2>3. CASE ~Regressed
    BY <1>6, <1>8, <2>1, <2>3, <1>2 DEF LoadRegistry
  <2> QED BY <2>2, <2>3
<1>9. ASSUME NEW h \in Handlers, NEW d \in Devices, Revoke(h, d) PROVE Book!Next
  <2>1. Book!AskToRevoke(d)
    BY <1>2, <1>9 DEF Revoke, Book!AskToRevoke
  <2> QED BY <2>1 DEF Book!Next
<1>10. ASSUME NEW h \in Handlers, Answer(h) PROVE Book!Next
  <2>1. req[h].dev \in Devices /\ req[h].dev \in devices \cup asked
    BY <1>1, <1>10 DEF Answer, TypeOK, Locals, Local, Saves, Saving, Enrols, Strikes, Kept, Drawn
  <2>2. Book!TellPaired(req[h].dev)
    BY <1>2, <1>10, <2>1 DEF Answer, Book!TellPaired
  <2> QED BY <2>1, <2>2 DEF Book!Next
<1>11. ASSUME NEW h \in Handlers, Rename(h) PROVE Book!Next
  <2>1. Book!Race
    BY <1>2, <1>11 DEF Rename, Book!Race
  <2>2. CASE UNCHANGED revoked
    BY <2>1, <2>2 DEF Book!Next
  <2>3. CASE req[h].code = 0 /\ revoked' = revoked \cup {req[h].dev}
    <3>1. req[h].dev \in asked \ devices /\ req[h].dev \in Devices
      BY <1>1, <1>11, <2>3 DEF Rename, TypeOK, Locals, Local, Saves, Saving, Enrols, Strikes
    <3>2. Book!ConfirmRevoked(req[h].dev)
      BY <2>3, <3>1 DEF Book!ConfirmRevoked
    <3> QED BY <2>1, <3>1, <3>2 DEF Book!Next
  <2> QED BY <1>11, <2>2, <2>3 DEF Rename
<1> QED BY <1>4, <1>5, <1>7, <1>8, <1>9, <1>10, <1>11 DEF Next

(* The registry implements the book.                                       *)
THEOREM RegistryImplementsBook == Spec => ImplementsDeviceBook
<1>1. Init => Book!Init
  BY DEF Init, Book!Init, Regressed
<1>2. Agree /\ Agree' /\ [Next]_vars => [Book!Next]_<<devices, Regressed, Book!told, strayed>>
  BY StepRefines
<1>3. Agree /\ [Next]_vars => Agree'
  BY RegistryStep
<1> QED BY <1>1, <1>2, <1>3, InitAgree, PTL DEF Spec, ImplementsDeviceBook, Book!Spec
===============================================================================
