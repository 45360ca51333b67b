------------------------------- MODULE Election -------------------------------
(***************************************************************************)
(* One daemon for all windows: how the editor extension (daemon.ts) finds  *)
(* or starts it and stops it, and how the daemon (main.go, tlsconf.go)     *)
(* comes up, refuses to be the second one, and goes away.                  *)
(*                                                                         *)
(* Windows and daemons are processes that share nothing but files: the     *)
(* plugin socket, the lock file, the TLS key and certificate; and the TCP  *)
(* port.  Every step is one look at, or one change of, a shared thing.  A  *)
(* process may die between any two of its steps.  Process ids are not      *)
(* reused: a window or daemon that is gone is gone for good.               *)
(***************************************************************************)
EXTENDS Integers, FiniteSets

CONSTANTS
  Windows, Daemons,
  None,           \* no process
  MaxCrashes      \* bound of the model

ASSUME ElectionAssumption ==
  /\ Windows \cap Daemons = {} /\ None \notin Windows \cup Daemons
  /\ IsFiniteSet(Daemons) /\ MaxCrashes \in Nat

(* Daemons are the runs of prh: most serve, some are the pair command.     *)
(* The content of a file: nothing, less than all of it, or the key with    *)
(* this number (for the certificate: one made for that key).               *)
Absent == 0
Torn == -1
Keys == 1..Cardinality(Daemons)
File == Keys \cup {Absent, Torn}

VARIABLES
  win, proc,          \* window: where it is; the daemon it spawned
  dmn, own,           \* daemon: where it is; the key it holds in memory
  tool, told,         \* daemons that run the pair command; that SIGTERM was caught by
  sock, lock,         \* whose listener the socket file leads to; whose pid is in the lock
  keyFile, certFile, keys,  \* the TLS files; keys generated so far
  port,               \* the daemon that holds the TCP port
  crashes,
  pins,               \* history: keys that were served to phones
  excused,            \* history: windows whose last start met a live lock, a death,
                      \*   half a file or no binary
  calm                \* history: starts and stops came one at a time, no window but
                      \*   the one whose daemon was serving stopped it, and a key
                      \*   file that was there could be read

marks == <<own, tool, told>>
files == <<keyFile, certFile, keys>>
hist  == <<pins, excused, calm>>
vars  == <<win, proc, dmn, marks, sock, lock, files, port, crashes, hist>>

Starting == {"connect", "clean", "lock", "write", "spawn"}
Electing == Starting \cup {"wait"}
Preparing == {"stat", "key", "openkey", "writekey", "opencert", "writecert", "load"}
Binding == {"dial", "remove", "listen", "tcp"}

TypeOK ==
  /\ win \in [Windows -> Electing \cup {"new", "up", "failed", "stopping", "stopped", "closed"}]
  /\ proc \in [Windows -> Daemons \cup {None}]
  /\ dmn \in [Daemons -> Preparing \cup Binding \cup {"new", "post", "serving", "exit", "dead"}]
  /\ own \in [Daemons -> Keys \cup {0}] /\ tool \subseteq Daemons /\ told \subseteq Daemons
  /\ sock \in Daemons \cup {None} /\ port \in Daemons \cup {None}
  /\ lock \in Windows \cup {None}
  /\ keyFile \in File /\ certFile \in File /\ keys \in 0..Cardinality(Daemons)
  /\ pins \subseteq Keys /\ excused \subseteq Windows
  /\ crashes \in 0..MaxCrashes /\ calm \in BOOLEAN

Init ==
  /\ win = [w \in Windows |-> "new"] /\ proc = [w \in Windows |-> None]
  /\ dmn = [d \in Daemons |-> "new"] /\ own = [d \in Daemons |-> 0] /\ tool = {} /\ told = {}
  /\ sock = None /\ lock = None /\ port = None
  /\ keyFile = Absent /\ certFile = Absent /\ keys = 0
  /\ crashes = 0 /\ pins = {} /\ excused = {} /\ calm = TRUE

Alive(w) == win[w] \notin {"new", "closed"}
Live(d)  == dmn[d] \notin {"new", "dead"}

(* A connection to the socket file is accepted, also by a daemon that is   *)
(* on its way out; the debris of a crash refuses it.                       *)
Answers == sock # None /\ dmn[sock] \in {"tcp", "serving", "exit"}

(* No daemon is on its way up or down, and no window about to start one.   *)
Settled ==
  /\ \A d \in Daemons : dmn[d] \in {"new", "serving", "dead"}
  /\ \A w \in Windows : win[w] \notin {"write", "spawn"}
Quiet == Settled /\ \A w \in Windows : win[w] \notin Electing \cup {"stopping"}

(* Bound: the windows that start keep a daemon each to spawn.              *)
Spare ==
  Cardinality({d \in Daemons : dmn[d] = "new"})
    > Cardinality({w \in Windows : win[w] \in Starting})

--------------------------------------------------------------------------------
(* The extension.  WStep and DStep: a window or daemon goes on to its next *)
(* step and changes nothing but what the action says.                      *)

WStep(w, from, to) == win[w] \in from /\ win' = [win EXCEPT ![w] = to]
DStep(d, from, to) == dmn[d] = from /\ dmn' = [dmn EXCEPT ![d] = to]

(* start: activate calls it when a window opens, and prh.start again.      *)
Start(w) ==
  /\ Spare
  /\ WStep(w, {"new", "up", "failed", "stopped"}, "connect")
  /\ excused' = excused \ {w} /\ calm' = (calm /\ Quiet)
  /\ UNCHANGED <<proc, dmn, marks, sock, lock, files, port, crashes, pins>>

(* tryAdopt.                                                               *)
TryAdopt(w) ==
  /\ \/ Answers /\ WStep(w, {"connect"}, "up")
     \/ ~Answers /\ WStep(w, {"connect"}, "clean")
  /\ UNCHANGED <<proc, dmn, marks, sock, lock, files, port, crashes, hist>>

(* Step 2 of start: whatever is at the path by now is unlinked.            *)
CleanUp(w) ==
  /\ WStep(w, {"clean"}, "lock")
  /\ sock' = None
  /\ UNCHANGED <<proc, dmn, marks, lock, files, port, crashes, hist>>

(* Mutant: a lock file is a lock, whoever wrote it.                        *)
ReclaimsNever(w) == FALSE

(* tryLock: the window that wrote the lock file is gone.                   *)
Reclaims(w) == lock # None /\ ~Alive(lock)

(* tryLock, up to the write.                                               *)
TryLock(w) ==
  /\ \/ /\ lock = None \/ Reclaims(w)
        /\ WStep(w, {"lock"}, "write") /\ lock' = None /\ UNCHANGED excused
     \/ /\ ~(lock = None \/ Reclaims(w))
        /\ WStep(w, {"lock"}, "wait") /\ UNCHANGED lock
        /\ excused' = IF Alive(lock) THEN excused \cup {w} ELSE excused
  /\ UNCHANGED <<proc, dmn, marks, sock, files, port, crashes, pins, calm>>

(* The lock file gets the pid of the window, and is never given back.      *)
WriteLock(w) ==
  /\ WStep(w, {"write"}, "spawn")
  /\ lock' = w
  /\ UNCHANGED <<proc, dmn, marks, sock, files, port, crashes, hist>>

Spawn(w, d) ==
  /\ WStep(w, {"spawn"}, "wait") /\ DStep(d, "new", "stat")
  /\ proc' = [proc EXCEPT ![w] = d]
  /\ UNCHANGED <<marks, sock, lock, files, port, crashes, hist>>

(* resolveBinary finds none: start fails, and the lock stays.              *)
BinaryMissing(w) ==
  /\ WStep(w, {"spawn"}, "failed")
  /\ excused' = excused \cup {w}
  /\ UNCHANGED <<proc, dmn, marks, sock, lock, files, port, crashes, pins, calm>>

(* waitForSocket: a connection succeeds, or the time is up.  5 and 10      *)
(* seconds are long against what the others still have to do.              *)
WaitEnds(w) ==
  /\ \/ Answers /\ WStep(w, {"wait"}, "up")
     \/ ~Answers /\ Settled /\ WStep(w, {"wait"}, "failed")
  /\ UNCHANGED <<proc, dmn, marks, sock, lock, files, port, crashes, hist>>

(* The window is closed or reloaded; the daemon is detached and stays.     *)
Close(w) ==
  /\ Alive(w)
  /\ win' = [win EXCEPT ![w] = "closed"]
  /\ UNCHANGED <<proc, dmn, marks, sock, lock, files, port, crashes, hist>>

(* SIGTERM kills until it is caught, some time after the TLS files are     *)
(* loaded.  Caught, it ends what serves or is about to; a daemon that      *)
(* still claims the socket first gets that done.                           *)
Terminated(d) ==
  \/ /\ dmn[d] \in Preparing \cup {"post", "dial"}
     /\ dmn' = [dmn EXCEPT ![d] = "dead"] /\ UNCHANGED told
  \/ /\ dmn[d] \in {"dial", "remove", "listen"}
     /\ told' = told \cup {d} /\ UNCHANGED dmn
  \/ /\ dmn[d] \in {"tcp", "serving"}
     /\ dmn' = [dmn EXCEPT ![d] = "exit"] /\ UNCHANGED told
  \/ dmn[d] \in {"exit", "dead"} /\ UNCHANGED <<dmn, told>>

(* stop, in the window that spawned the daemon ...                         *)
StopOwn(w) ==
  /\ proc[w] # None
  /\ WStep(w, {"up", "failed"}, "stopping")
  /\ Terminated(proc[w])
  /\ port' = IF port = proc[w] THEN None ELSE port
  /\ calm' = (calm /\ Quiet /\ dmn[proc[w]] = "serving")
  /\ UNCHANGED <<proc, own, tool, sock, lock, files, crashes, pins, excused>>

(* ... and in one that adopted it: the pid in the lock file is a window's, *)
(* perhaps its own.                                                        *)
StopAdopted(w) ==
  /\ proc[w] = None /\ win[w] \in {"up", "failed", "stopped"}
  /\ win' = [v \in Windows |-> IF v = lock /\ Alive(v) THEN "closed"
                               ELSE IF v = w THEN "stopping" ELSE win[v]]
  /\ calm' = FALSE
  /\ UNCHANGED <<proc, dmn, marks, sock, lock, files, port, crashes, pins, excused>>

(* The process is gone; socket and lock are unlinked, whoever owns them.   *)
StopCleans(w) ==
  /\ proc[w] # None => ~Live(proc[w])
  /\ WStep(w, {"stopping"}, "stopped")
  /\ proc' = [proc EXCEPT ![w] = None]
  /\ sock' = None /\ lock' = None
  /\ UNCHANGED <<dmn, marks, files, port, crashes, hist>>

--------------------------------------------------------------------------------
(* The daemon.                                                             *)

(* Started from a shell.                                                   *)
Serve(d) ==
  /\ Spare /\ DStep(d, "new", "stat")
  /\ calm' = (calm /\ Quiet)
  /\ UNCHANGED <<win, proc, marks, sock, lock, files, port, crashes, pins, excused>>

(* prh pair: it reads or makes the TLS files as a daemon does.             *)
Pair(d) ==
  /\ Spare /\ DStep(d, "new", "stat")
  /\ tool' = tool \cup {d} /\ calm' = (calm /\ Quiet)
  /\ UNCHANGED <<win, proc, own, told, sock, lock, files, port, crashes, pins, excused>>

(* EnsureCert: both files are there, or Stat could not tell of one.        *)
EnsureCert(d) ==
  /\ \/ DStep(d, "stat", "key")
     \/ Absent \notin {keyFile, certFile} /\ DStep(d, "stat", "load")
  /\ UNCHANGED <<win, proc, marks, sock, lock, files, port, crashes, hist>>

(* Mutant: a key file without a certificate is replaced as well.           *)
HasKeyNever(d) == FALSE

HasKey(d) == keyFile # Absent

(* History: a daemon gives up on half a file.                              *)
HalfAFile(fails) ==
  excused' = IF fails /\ Torn \in {keyFile, certFile}
             THEN excused \cup {w \in Windows : win[w] \in Electing} ELSE excused

(* loadOrCreateKey: read the key file, or generate a key; also when there  *)
(* is a file and the read fails.                                           *)
LoadOrCreateKey(d) ==
  /\ \/ /\ HasKey(d) /\ keyFile = Torn /\ DStep(d, "key", "dead")
        /\ UNCHANGED <<own, keys, calm>>
     \/ /\ HasKey(d) /\ keyFile # Torn /\ DStep(d, "key", "opencert")
        /\ own' = [own EXCEPT ![d] = keyFile] /\ UNCHANGED <<keys, calm>>
     \/ /\ DStep(d, "key", "openkey") /\ calm' = (calm /\ ~HasKey(d))
        /\ keys' = keys + 1 /\ own' = [own EXCEPT ![d] = keys + 1]
  /\ HalfAFile(dmn'[d] = "dead")
  /\ UNCHANGED <<win, proc, tool, told, sock, lock, keyFile, certFile, port, crashes, pins>>

(* os.WriteFile truncates, then writes; first the key, then writeCert.     *)
WriteFile(d) ==
  /\ \/ DStep(d, "openkey", "writekey") /\ keyFile' = Torn /\ UNCHANGED certFile
     \/ DStep(d, "writekey", "opencert") /\ keyFile' = own[d] /\ UNCHANGED certFile
     \/ DStep(d, "opencert", "writecert") /\ certFile' = Torn /\ UNCHANGED keyFile
     \/ DStep(d, "writecert", "load") /\ certFile' = own[d] /\ UNCHANGED keyFile
  /\ UNCHANGED <<win, proc, marks, sock, lock, keys, port, crashes, hist>>

(* tls.LoadX509KeyPair.                                                    *)
IsPair(d) == keyFile = certFile /\ keyFile \in Keys

(* loadCert: both files are read back, and must belong together.           *)
LoadCert(d) ==
  /\ \/ /\ IsPair(d)
        /\ DStep(d, "load", IF d \in tool THEN "post" ELSE "dial") /\ own' = [own EXCEPT ![d] = keyFile]
     \/ /\ ~IsPair(d)
        /\ DStep(d, "load", "dead") /\ UNCHANGED own
  /\ HalfAFile(dmn'[d] = "dead")
  /\ UNCHANGED <<win, proc, tool, told, sock, lock, files, port, crashes, pins, calm>>

(* pairCommand opens the window at the daemon that answers, and shows the  *)
(* pin of the files.                                                       *)
PostPairing(d) ==
  /\ DStep(d, "post", "dead")
  /\ pins' = IF Answers THEN pins \cup {own[d]} ELSE pins
  /\ UNCHANGED <<win, proc, marks, sock, lock, files, port, crashes, excused, calm>>

(* Mutant: the second daemon takes the path over.                          *)
DialTakesOver(d) ==
  /\ DStep(d, "dial", IF sock = None THEN "listen" ELSE "remove")
  /\ UNCHANGED <<win, proc, marks, sock, lock, files, port, crashes, hist>>

(* listenPluginSocket: if the path exists and answers, another prh runs.   *)
Dial(d) ==
  /\ DStep(d, "dial", IF sock = None THEN "listen" ELSE IF Answers THEN "dead" ELSE "remove")
  /\ UNCHANGED <<win, proc, marks, sock, lock, files, port, crashes, hist>>

(* A stale path is removed, a path that is gone already is an error.       *)
RemoveStale(d) ==
  /\ DStep(d, "remove", IF sock = None THEN "dead" ELSE "listen")
  /\ sock' = None
  /\ UNCHANGED <<win, proc, marks, lock, files, port, crashes, hist>>

Listen(d) ==
  /\ \/ /\ sock = None /\ sock' = d
        /\ DStep(d, "listen", IF d \in told THEN "exit" ELSE "tcp")
     \/ sock # None /\ DStep(d, "listen", "dead") /\ UNCHANGED sock
  /\ UNCHANGED <<win, proc, marks, lock, files, port, crashes, hist>>

(* ListenAndServeTLS.                                                      *)
ListenAndServe(d) ==
  /\ \/ /\ port = None /\ DStep(d, "tcp", "serving")
        /\ port' = d /\ pins' = pins \cup {own[d]}
     \/ port # None /\ DStep(d, "tcp", "exit") /\ UNCHANGED <<port, pins>>
  /\ UNCHANGED <<win, proc, marks, sock, lock, files, crashes, excused, calm>>

(* run returns: the deferred os.Remove of the path, whoever listens there. *)
Exit(d) ==
  /\ DStep(d, "exit", "dead")
  /\ sock' = None
  /\ UNCHANGED <<win, proc, marks, lock, files, port, crashes, hist>>

(* Killed, or ended by a file it cannot read or write; the path stays.     *)
Crash(d) ==
  /\ Live(d) /\ crashes < MaxCrashes /\ crashes' = crashes + 1
  /\ dmn' = [dmn EXCEPT ![d] = "dead"]
  /\ port' = IF port = d THEN None ELSE port
  /\ excused' = excused \cup {w \in Windows : win[w] \in Electing}
  /\ UNCHANGED <<win, proc, marks, sock, lock, files, pins, calm>>

(* The user deletes the certificate, to have a new one issued.             *)
RemoveCert ==
  /\ certFile # Absent /\ certFile' = Absent
  /\ calm' = (calm /\ Quiet)
  /\ UNCHANGED <<win, proc, dmn, marks, sock, lock, keyFile, keys, port, crashes, pins, excused>>

WindowStep(w) == TryAdopt(w) \/ CleanUp(w) \/ TryLock(w) \/ WriteLock(w)
                 \/ BinaryMissing(w) \/ WaitEnds(w) \/ StopCleans(w)
                 \/ \E d \in Daemons : Spawn(w, d)
DaemonStep(d) == EnsureCert(d) \/ LoadOrCreateKey(d) \/ WriteFile(d) \/ LoadCert(d)
                 \/ PostPairing(d) \/ Dial(d) \/ RemoveStale(d) \/ Listen(d)
                 \/ ListenAndServe(d) \/ Exit(d)

Next ==
  \/ \E w \in Windows : Start(w) \/ WindowStep(w) \/ Close(w) \/ StopOwn(w) \/ StopAdopted(w)
  \/ RemoveCert
  \/ \E d \in Daemons : Serve(d) \/ Pair(d) \/ DaemonStep(d) \/ Crash(d)

Spec == Init /\ [][Next]_vars

--------------------------------------------------------------------------------
(* tlsconf.go, EnsureCert: "the key file is never overwritten once it      *)
(* exists [...] and the pin does not move": phones that paired with one    *)
(* daemon know every later one, whatever crashed in between.  As long as   *)
(* starts came one at a time and a key file that was there could be read.  *)
PinIsStable == calm => Cardinality(pins) <= 1

(* The plugins reach the daemon the phones reach: debris is replaced, and  *)
(* a daemon that is refused leaves the socket of the other alone.          *)
ServingIsReachable == calm => \A d \in Daemons : dmn[d] = "serving" => sock = d

(* As long as starts and stops come one at a time, the debris of crashed   *)
(* daemons, of closed windows and of earlier attempts is no reason for     *)
(* start to fail: there is no binary, the window named in the lock file    *)
(* lives, a daemon died during the attempt, or an earlier death left half  *)
(* a TLS file.                                                             *)
FailedHasReason ==
  calm => \A w \in Windows : win[w] = "failed" => w \in excused

(* No more keys than daemons that have got so far as to make one; a daemon *)
(* that writes or serves one has it; the port is a serving daemon's.       *)
PastKey == {d \in Daemons : dmn[d] \notin {"new", "stat", "key"}}
KeysAreCounted == keys <= Cardinality(PastKey)
KeyInMemory ==
  \A d \in Daemons :
    dmn[d] \in {"openkey", "writekey", "opencert", "writecert", "post"} \cup Binding
      => own[d] \in Keys
PortIsServing  == port # None => dmn[port] = "serving"
ToolsAreRun    == \A d \in tool : dmn[d] # "new"

(* What holds as long as starts and stops come one at a time.  There is    *)
(* one window at work, and one daemon on its way up or down; not while a   *)
(* window prepares a start, and down while one stops.                      *)
InTransit(d) == dmn[d] \in Preparing \cup Binding \cup {"post", "exit"}
NobodyServes == \A d \in Daemons : dmn[d] # "serving"
OneAtATime ==
  /\ \A v, w \in Windows :
       win[v] \in Electing \cup {"stopping"} /\ win[w] \in Electing \cup {"stopping"} => v = w
  /\ \A d, e \in Daemons : InTransit(d) /\ InTransit(e) => d = e
  /\ \A w \in Windows, d \in Daemons :
       InTransit(d) => win[w] \notin Starting /\ (win[w] = "stopping" => dmn[d] = "exit")

(* Who removes the socket file, or is about to claim it, met no daemon     *)
(* that serves, and the file is as it was found or made.                   *)
SocketIsOwned ==
  /\ \A w \in Windows : win[w] \in (Starting \ {"connect"}) \cup {"stopping"} => NobodyServes
  /\ \A d \in Daemons :
       /\ dmn[d] \in {"remove", "listen", "tcp", "exit"} => NobodyServes
       /\ dmn[d] = "remove" => sock # None
       /\ dmn[d] = "listen" => sock = None
       /\ dmn[d] = "tcp" => sock = d

(* The certificate is the key's, and the key file what was served and what *)
(* the daemon on its way up has in memory.                                 *)
FilesMatch ==
  /\ keyFile = Absent => certFile = Absent
  /\ certFile \in Keys => keyFile = certFile
  /\ pins \subseteq {keyFile}
  /\ \A d \in Daemons :
       /\ dmn[d] = "openkey" => keyFile = Absent
       /\ dmn[d] = "writekey" => keyFile = Torn
       /\ dmn[d] \in {"opencert", "writecert", "post"} \cup Binding => own[d] = keyFile
       /\ dmn[d] = "load" => Absent \notin {keyFile, certFile}

(* A window that waits without an excuse has a daemon coming up, which     *)
(* nobody told to stop.                                                    *)
WaitsForDaemon ==
  /\ told = {}
  /\ \A w \in Windows : win[w] = "wait" /\ w \notin excused =>
       /\ proc[w] \in Daemons \ tool
       /\ dmn[proc[w]] \in Preparing \cup Binding \cup {"serving"}
       /\ \A d \in Daemons : d # proc[w] => dmn[d] \in {"new", "dead"}

CalmInv == calm => OneAtATime /\ SocketIsOwned /\ FilesMatch /\ WaitsForDaemon

(* The serving daemon has the socket, and the shared files hold what some  *)
(* window or daemon wrote there.                                           *)
ElectionInv ==
  /\ TypeOK /\ KeysAreCounted /\ KeyInMemory /\ PortIsServing /\ ToolsAreRun
  /\ ServingIsReachable /\ CalmInv
================================================================================
