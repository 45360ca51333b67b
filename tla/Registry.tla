------------------------------- MODULE Registry -------------------------------
(***************************************************************************)
(* The daemon's registry (api/internal/auth): paired devices and the file  *)
(* they are kept in, the pairing window, session keys; and the HTTP        *)
(* handlers that use it (api/internal/httpapi).                            *)
(*                                                                         *)
(* Every request is a goroutine of its own, and none of the operations is  *)
(* one critical section: a handler is cut wherever the code releases       *)
(* Registry.mu, and what it carries across is its local state.  A request  *)
(* that is refused changes nothing and is not modelled as a step.          *)
(*                                                                         *)
(* Secrets are random and never repeat, so a device, a pairing code and a  *)
(* session key are identified with their names; what a phone can sign with *)
(* is what it was handed.  Windows and sessions expire when they are read; *)
(* as nothing sees an expired one, expiry is a step of its own.            *)
(***************************************************************************)
EXTENDS Naturals, FiniteSets

CONSTANTS
  Devices,       \* device ids, each handed out once
  NoDevice,
  Handlers,      \* requests in progress at a time
  MaxWindows, MaxKeys, MaxRestarts  \* bounds of the model

ASSUME RegistryAssumption ==
  /\ NoDevice \notin Devices /\ IsFiniteSet(Devices) /\ IsFiniteSet(Handlers)
  /\ MaxWindows \in Nat /\ MaxKeys \in Nat /\ MaxRestarts \in Nat

VARIABLES
  devices, file,  \* Registry.devices; devices.json
  issued,         \* device ids drawn so far
  window, codes,  \* the armed pairing code, 0 = shut; codes drawn so far
  sessions, keys, \* live session keys; keys drawn so far
  req,            \* the requests in progress: where they are, and their locals
  restarts,
  paired,         \* history: devices whose secret was handed out
  enrolled,       \* history: pairing code -> devices whose secret it handed out
  asked, revoked, \* history: devices Revoke was called for; was carried out for
  served,         \* history: devices of requests that began late and were served
  copies,         \* history: device lists this daemon copied, which numbers them
  fileNo, landed, \* history: number of the list in the file; highest that got there
  strayed         \* history: devices a restart lost or brought back, its file
                  \* being an older list than one that had been there

book   == <<devices, file, issued>>
arm    == <<window, codes>>
sess   == <<sessions, keys>>
told   == <<paired, enrolled, asked, revoked, served>>
order  == <<copies, fileNo, landed, strayed>>
hist   == <<told, order>>
vars   == <<book, arm, sess, req, restarts, hist>>

Session == [id : 1..MaxKeys, device : Devices]
Code    == 1..MaxWindows
Saving  == {"insert", "persist", "rename", "answer"}

(* code: the pairing code it was begun with, 0 for a revocation; list: the *)
(* device list it is about to write, the no-th copied; late: history,      *)
(* begun after its device was revoked.                                     *)
Request == [at : Saving \cup {"idle", "mint", "device"}, dev : Devices \cup {NoDevice},
            code : 0..MaxWindows, list : SUBSET Devices, no : Nat, late : BOOLEAN]
NoRequest == [at |-> "idle", dev |-> NoDevice, code |-> 0, list |-> {}, no |-> 0,
              late |-> FALSE]

TypeOK ==
  /\ devices \subseteq Devices /\ file \subseteq Devices /\ issued \subseteq Devices
  /\ codes \in 0..MaxWindows /\ window \in 0..codes
  /\ keys \in 0..MaxKeys /\ sessions \subseteq Session
  /\ req \in [Handlers -> Request] /\ restarts \in 0..MaxRestarts
  /\ paired \subseteq Devices /\ enrolled \in [Code -> SUBSET Devices]
  /\ asked \subseteq Devices /\ revoked \subseteq Devices
  /\ served \subseteq Devices
  /\ copies \in Nat /\ landed \in 0..copies /\ fileNo \in 0..landed
  /\ strayed \subseteq Devices

(* NewRegistry, with a file that does not exist yet.                       *)
Init ==
  /\ devices = {} /\ file = {} /\ issued = {}
  /\ window = 0 /\ codes = 0 /\ sessions = {} /\ keys = 0
  /\ req = [h \in Handlers |-> NoRequest] /\ restarts = 0
  /\ paired = {} /\ enrolled = [c \in Code |-> {}]
  /\ asked = {} /\ revoked = {} /\ served = {}
  /\ copies = 0 /\ fileNo = 0 /\ landed = 0 /\ strayed = {}

Idle(h)    == req[h].at = "idle"
Goto(h, l) == req' = [req EXCEPT ![h].at = l]
Done(h)    == req' = [req EXCEPT ![h] = NoRequest]

--------------------------------------------------------------------------------
(* The pairing window.                                                     *)

(* handleOpenPairing; a new code replaces the armed one.                   *)
OpenPairing ==
  /\ codes < MaxWindows
  /\ codes' = codes + 1 /\ window' = codes + 1
  /\ UNCHANGED <<book, sess, req, restarts, hist>>

(* handleClosePairing, or the window's deadline.                           *)
ClosePairing ==
  /\ window # 0 /\ window' = 0
  /\ UNCHANGED <<book, codes, sess, req, restarts, hist>>

--------------------------------------------------------------------------------
(* Enrolment.  The window is looked at first, whatever the mode, and       *)
(* nothing keeps a second request from doing so before the first closes it.*)

(* Mutant: any code ever shown will do.                                    *)
PairingKeyAny(c) == window # 0 /\ c \in 1..codes

PairingKey(c) == window # 0 /\ c = window

BeginRegister(h, c) ==
  /\ Idle(h) /\ PairingKey(c)
  /\ req' = [req EXCEPT ![h].at = "insert", ![h].code = c]
  /\ UNCHANGED <<book, arm, sess, restarts, hist>>

(* A phone that scanned code c signs with it.                              *)
registerSealed(h) == \E c \in 1..codes : BeginRegister(h, c)

(* A phone that typed the right passphrase; guesses are Admission's.       *)
registerWithPassphrase(h) == BeginRegister(h, window)

(* Register, up to its persist.                                            *)
Register(h) ==
  /\ req[h].at = "insert"
  /\ \E d \in Devices \ issued :
       /\ devices' = devices \cup {d} /\ issued' = issued \cup {d}
       /\ req' = [req EXCEPT ![h].at = "persist", ![h].dev = d]
  /\ UNCHANGED <<file, arm, sess, restarts, hist>>

(* Revoke, up to its persist: the device and its sessions leave together.  *)
(* Any device the list shows may be named, its phone told or not.          *)
Revoke(h, d) ==
  /\ Idle(h) /\ d \in devices
  /\ devices' = devices \ {d} /\ asked' = asked \cup {d}
  /\ sessions' = {s \in sessions : s.device # d}
  /\ req' = [req EXCEPT ![h].at = "persist", ![h].dev = d]
  /\ UNCHANGED <<file, issued, arm, keys, restarts, paired, enrolled, revoked, served, order>>

(* Mutant: what is in the file already is kept.                            *)
PersistMerges(h) ==
  /\ req[h].at = "persist"
  /\ copies' = copies + 1
  /\ req' = [req EXCEPT ![h].at = "rename", ![h].list = devices \cup file,
                        ![h].no = copies + 1]
  /\ UNCHANGED <<book, arm, sess, restarts, told, fileNo, landed, strayed>>

(* persist: the list is copied under the lock ...                          *)
Persist(h) ==
  /\ req[h].at = "persist"
  /\ copies' = copies + 1
  /\ req' = [req EXCEPT ![h].at = "rename", ![h].list = devices, ![h].no = copies + 1]
  /\ UNCHANGED <<book, arm, sess, restarts, told, fileNo, landed, strayed>>

(* ... and replaces the file after the lock is released, whichever list is *)
(* there by then; Revoke returns.                                          *)
Rename(h) ==
  /\ req[h].at = "rename"
  /\ file' = req[h].list /\ fileNo' = req[h].no
  /\ landed' = IF req[h].no > landed THEN req[h].no ELSE landed
  /\ \/ req[h].code # 0 /\ Goto(h, "answer") /\ UNCHANGED revoked
     \/ req[h].code = 0 /\ Done(h) /\ revoked' = revoked \cup {req[h].dev}
  /\ UNCHANGED <<devices, issued, arm, sess, restarts, paired, enrolled, asked, served,
                 copies, strayed>>

(* Mutant: Register does not look at persist's error.                      *)
PersistFailsQuietly(h) ==
  /\ req[h].at = "rename" /\ req[h].code # 0
  /\ Goto(h, "answer")
  /\ UNCHANGED <<book, arm, sess, restarts, hist>>

(* The file cannot be written: the caller is told, the memory stays as it  *)
(* is and the window stays open.                                           *)
PersistFails(h) ==
  /\ req[h].at = "rename"
  /\ Done(h)
  /\ UNCHANGED <<book, arm, sess, restarts, hist>>

Told(h) ==
  /\ paired' = paired \cup {req[h].dev}
  /\ enrolled' = [enrolled EXCEPT ![req[h].code] = @ \cup {req[h].dev}]

(* The end of both modes: close whatever window is open, hand the secret   *)
(* out.                                                                    *)
Answer(h) ==
  /\ req[h].at = "answer"
  /\ window' = 0
  /\ Told(h) /\ Done(h)
  /\ UNCHANGED <<book, codes, sess, restarts, asked, revoked, served, order>>

--------------------------------------------------------------------------------
(* Sessions.                                                               *)

(* handleLogin: the signature is checked with the device's secret, and     *)
(* NewSession looks the device up ...                                      *)
Login(h, d) ==
  /\ Idle(h) /\ d \in devices \cap paired
  /\ req' = [req EXCEPT ![h].at = "mint", ![h].dev = d]
  /\ UNCHANGED <<book, arm, sess, restarts, hist>>

(* ... and stores the key in another critical section, instead of the      *)
(* device's old one.                                                       *)
NewSession(h) ==
  /\ req[h].at = "mint" /\ keys < MaxKeys
  /\ keys' = keys + 1
  /\ sessions' = {s \in sessions : s.device # req[h].dev}
                   \cup {[id |-> keys + 1, device |-> req[h].dev]}
  /\ Done(h)
  /\ UNCHANGED <<book, arm, restarts, hist>>

SessionExpires(s) ==
  /\ sessions' = sessions \ {s}
  /\ UNCHANGED <<book, arm, keys, req, restarts, hist>>

(* signed: the session is looked up and the signature checked ...          *)
Signed(h, s) ==
  /\ Idle(h)
  /\ req' = [req EXCEPT ![h].at = "device", ![h].dev = s.device,
                        ![h].late = s.device \in revoked]
  /\ UNCHANGED <<book, arm, sess, restarts, hist>>

(* Registry.Device.                                                        *)
Known(d) == d \in devices

(* ... and then its device, which may be gone by now.                      *)
Device(h) ==
  /\ req[h].at = "device"
  /\ Done(h)
  /\ served' = served \cup {d \in {req[h].dev} : Known(d) /\ req[h].late}
  /\ UNCHANGED <<book, arm, sess, restarts, paired, enrolled, asked, revoked, order>>

--------------------------------------------------------------------------------
(* The daemon dies, with every request in progress, and starts again:      *)
(* LoadRegistry.  Windows and sessions live in memory only.                *)

(* An older list was renamed over a newer one, as two that were saving at  *)
(* once may do; the next save puts it right.                               *)
Regressed == fileNo < landed

LoadRegistry ==
  /\ restarts < MaxRestarts
  /\ restarts' = restarts + 1
  /\ devices' = file /\ sessions' = {} /\ window' = 0
  /\ req' = [h \in Handlers |-> NoRequest]
  /\ copies' = 0 /\ fileNo' = 0 /\ landed' = 0
  /\ strayed' = IF Regressed THEN strayed \cup (devices \ file) \cup (file \ devices)
                ELSE strayed
  /\ UNCHANGED <<file, issued, codes, keys, told>>

Next ==
  \/ OpenPairing \/ ClosePairing \/ LoadRegistry
  \/ \E s \in sessions : SessionExpires(s) \/ \E h \in Handlers : Signed(h, s)
  \/ \E h \in Handlers :
       \/ registerSealed(h) \/ registerWithPassphrase(h)
       \/ Register(h) \/ Persist(h) \/ Rename(h) \/ PersistFails(h) \/ Answer(h)
       \/ NewSession(h) \/ Device(h)
       \/ \E d \in Devices : Revoke(h, d) \/ Login(h, d)

Spec == Init /\ [][Next]_vars

--------------------------------------------------------------------------------
(* The registry with its file, its locks, its overlapping saves and its    *)
(* restarts implements the book: what a restart changes, it changes only   *)
(* after an older list overtook a newer one.                               *)
Book == INSTANCE DeviceBook WITH book <- devices, raced <- Regressed, Devices <- Devices,
          paired <- paired, asked <- asked, revoked <- revoked, strayed <- strayed
ImplementsDeviceBook == Book!Spec

(* A phone whose secret was handed out can sign, now and after a crash at  *)
(* any point, unless two saves landed out of order before that crash:      *)
(* auth.go, Register, "A device that is not persisted stops working at the *)
(* next restart, which is precisely the failure the persistence exists to  *)
(* prevent".                                                               *)
Paired == paired \ (asked \cup strayed)
PairingsSurvive == Paired \subseteq devices /\ (~Regressed => Paired \subseteq file)

(* A device whose revocation was reported done is neither in memory nor,   *)
(* but for saves landing out of order, in the file a restart would load.   *)
Revoked == revoked \ strayed
RevokedStaysOut == Revoked \cap devices = {} /\ (~Regressed => Revoked \cap file = {})

(* A request that begins after the revocation was reported done is not     *)
(* served, although a login that raced the revocation may have left a      *)
(* session behind: server.go, signed, "A revoked phone must stop approving *)
(* immediately".  Only a restart from a file that regressed brings the     *)
(* device back.                                                            *)
RevokedIsRefused == served \subseteq strayed

(* pairing.go says that "one window enrols one device"; what closes the    *)
(* window is the first secret, handed out some time after the window was   *)
(* looked at.  So the devices of one code are those whose enrolment was    *)
(* under way by then: with the requests that still hold the code they are  *)
(* no more than there can be requests at a time, and nobody else gets in.  *)
Saves(h) == req[h].at \in Saving
Holders(c) == {h \in Handlers : Saves(h) /\ req[h].code = c}
EnrolledTogether ==
  \A c \in Code : enrolled[c] # {} =>
    window # c /\ Cardinality(enrolled[c]) + Cardinality(Holders(c)) <= Cardinality(Handlers)

--------------------------------------------------------------------------------
(* What every request may rely on at its place; inductive (RegistryProofs).*)

(* Ids are handed out once, and only known devices are asked about.        *)
Drawn ==
  /\ devices \subseteq issued /\ file \subseteq issued /\ paired \subseteq issued
  /\ asked \subseteq issued /\ revoked \subseteq asked
  /\ \A c \in Code : c > codes => enrolled[c] = {}

(* A device is in (or not in) memory, and every list copied since the n-th *)
(* that may be in the file now or later has it (or has not).               *)
Lists(n) == {req[g].list : g \in {h \in Handlers : req[h].at = "rename" /\ req[h].no >= n}}
              \cup {f \in {file} : fileNo >= n}
Kept(d, n)   == d \in devices /\ \A L \in Lists(n) : d \in L
Struck(d, n) == d \notin devices /\ \A L \in Lists(n) : d \notin L

(* A request with a code enrols a device that is kept since the request    *)
(* copied the list, one without strikes a device; an answer is for a       *)
(* device whose list got to the file.                                      *)
Enrols(h) ==
  /\ req[h].code \in 1..codes
  /\ req[h].at # "insert" => req[h].dev \in issued
  /\ req[h].at = "persist" => req[h].dev \in devices \cup asked
  /\ req[h].at \in {"rename", "answer"} => req[h].dev \in asked \/ Kept(req[h].dev, req[h].no)
Strikes(h) ==
  /\ req[h].code = 0 /\ req[h].at \in {"persist", "rename"}
  /\ req[h].dev \in asked /\ req[h].dev \notin devices
  /\ req[h].at = "rename" => Struck(req[h].dev, req[h].no)
Local(h) ==
  /\ req[h].at = "idle" => req[h].code = 0
  /\ Saves(h) => Enrols(h) \/ Strikes(h)
  /\ req[h].at = "rename" => req[h].list \subseteq issued /\ req[h].no <= copies
  /\ req[h].at = "answer" => req[h].no <= landed
  /\ req[h].at \in {"mint", "device"} => req[h].dev \in Devices
  /\ req[h].at = "device" /\ req[h].late => req[h].dev \in revoked
Locals == \A h \in Handlers : Local(h)

(* Whoever was told he is paired is in memory and in every list that may   *)
(* yet be the newest in the file; whoever was revoked is in none.          *)
Settled ==
  /\ \A d \in Paired : Kept(d, landed)
  /\ \A d \in Revoked : Struck(d, landed)

Agree == TypeOK /\ Drawn /\ Locals /\ Settled /\ RevokedIsRefused

(* Map, file, pairing codes, sessions and the requests in progress agree;  *)
(* whoever was told he is paired can sign, whoever was revoked cannot.     *)
RegistryInv == Agree /\ PairingsSurvive /\ RevokedStaysOut
================================================================================
