-------------------------------- MODULE Delivery --------------------------------
(***************************************************************************)
(* The phone's notification stream, end to end: the hub's ring, GET        *)
(* /v1/poll, and the companion's poll loop (companion/.../PrhService.kt),  *)
(* with crashes of the daemon and of the companion.                        *)
(*                                                                         *)
(* The ring lives in the daemon's memory: a restart starts the sequence    *)
(* over.  The companion keeps its cursor in memory and in its preferences, *)
(* which it updates before it delivers what it fetched; Android writes the *)
(* preference to disk some time later (SharedPreferences.apply), so a kill *)
(* of the process may bring back an older cursor.                          *)
(*                                                                         *)
(* A message is an envelope with its number in the life of the whole       *)
(* system, so that envelopes of different daemons can be told apart.       *)
(***************************************************************************)
EXTENDS HubOps

CONSTANTS
  RingSize,                                      \* ring capacity
  MaxMessages, MaxDaemonCrashes, MaxPhoneCrashes, MaxThrows \* bounds of the model

ASSUME DeliveryAssumption ==
  /\ RingSize \in Nat \ {0} /\ MaxMessages \in Nat
  /\ MaxDaemonCrashes \in Nat /\ MaxPhoneCrashes \in Nat /\ MaxThrows \in Nat

VARIABLES
  running, seq, ring,      \* the daemon: up?, newest number, retained envelopes
  cursor, stored,          \* the companion: cursor in memory, on disk
  batch,                   \* the companion: fetched, still to be delivered
  published,               \* messages published so far
  delivered,               \* history: messages handed to deliver()
  last,                    \* history: the newest of them since the service started
  lost,                    \* history: messages lost at one of the places that may lose them
  cursorFrom, storedFrom,  \* history: the daemon that gave out cursor, stored
  daemonCrashes, phoneCrashes, throws \* how often each has happened

daemonVars == <<running, seq, ring>>
phoneVars  == <<cursor, stored, batch>>
crashVars  == <<daemonCrashes, phoneCrashes, throws>>
origins == <<cursorFrom, storedFrom>>
history == <<delivered, last, lost, origins>>
vars == <<daemonVars, phoneVars, published, history, crashVars>>

Message == [seq : 1..MaxMessages, msg : 1..MaxMessages]

(* What the variables range over.                                         *)
TypeOK ==
  /\ running \in BOOLEAN /\ seq \in 0..MaxMessages /\ ring \in Seq(Message)
  /\ cursor \in 0..MaxMessages /\ stored \in 0..MaxMessages /\ batch \in Seq(Message)
  /\ published \in 0..MaxMessages /\ delivered \subseteq 1..MaxMessages
  /\ last \in 0..MaxMessages
  /\ daemonCrashes \in 0..MaxDaemonCrashes /\ phoneCrashes \in 0..MaxPhoneCrashes
  /\ throws \in 0..MaxThrows
HistoryTypeOK == lost \subseteq 1..MaxMessages /\ cursorFrom \in Nat /\ storedFrom \in Nat

Init ==
  /\ running = TRUE /\ seq = 0 /\ ring = <<>>
  /\ cursor = 0 /\ stored = 0 /\ batch = <<>>
  /\ published = 0 /\ delivered = {} /\ last = 0 /\ lost = {}
  /\ cursorFrom = 0 /\ storedFrom = 0
  /\ daemonCrashes = 0 /\ phoneCrashes = 0 /\ throws = 0

--------------------------------------------------------------------------------
(* The daemon.  The number of crashes before it names it.                  *)

Messages(envs) == {e.msg : e \in envs}
InHand == Messages({batch[i] : i \in 1..Len(batch)})
OnRing == {ring[i] : i \in 1..Len(ring)}

(* Of the messages of these envelopes, those that nobody has now.          *)
LosesUnfetched(envs) == lost' = lost \cup (Messages(envs) \ (delivered \cup InHand))

(* publishLocked.                                                          *)
Publish ==
  /\ running /\ published < MaxMessages
  /\ seq' = seq + 1 /\ published' = published + 1
  /\ ring' = RingAppend(ring, [seq |-> seq + 1, msg |-> published + 1], RingSize)
  /\ LosesUnfetched(RingEvicts(ring, RingSize))
  /\ UNCHANGED <<running, phoneVars, delivered, last, origins, crashVars>>

DaemonCrash ==
  /\ running /\ daemonCrashes < MaxDaemonCrashes
  /\ running' = FALSE /\ seq' = 0 /\ ring' = <<>>
  /\ daemonCrashes' = daemonCrashes + 1
  /\ LosesUnfetched(OnRing)
  /\ UNCHANGED <<phoneVars, published, delivered, last, origins, phoneCrashes, throws>>

DaemonStart ==
  /\ ~running /\ running' = TRUE
  /\ UNCHANGED <<seq, ring, phoneVars, published, history, crashVars>>

--------------------------------------------------------------------------------
(* The companion's poll loop.  A poll that fails (daemon down, response    *)
(* lost) only backs off and changes nothing.                               *)

(* Mutant: 410 is retried like any other failure.                          *)
PollTooOldRetries ==
  /\ running /\ batch = <<>> /\ CursorTooOld(ring, seq, cursor)
  /\ UNCHANGED vars

(* 410: back to cursor 0.                                                  *)
PollTooOld ==
  /\ running /\ batch = <<>> /\ CursorTooOld(ring, seq, cursor)
  /\ cursor' = 0 /\ cursorFrom' = daemonCrashes
  /\ UNCHANGED <<stored, batch, daemonVars, published, delivered, last, lost, storedFrom,
                 crashVars>>

(* What an answered poll brings: the events past the cursor.  A cursor of  *)
(* an earlier daemon passes over what this one has numbered up to it.      *)
Fetch ==
  /\ running /\ batch = <<>> /\ ~CursorTooOld(ring, seq, cursor)
  /\ batch' = EventsAfter(ring, cursor)
  /\ LosesUnfetched({e \in OnRing : cursorFrom # daemonCrashes /\ e.seq <= cursor})
  /\ cursorFrom' = daemonCrashes
  /\ UNCHANGED <<stored, daemonVars, published, delivered, last, storedFrom, crashVars>>

(* Mutant: the cursor stays where it was.                                  *)
PollKeepsCursor == Fetch /\ UNCHANGED cursor

(* 200: the daemon's newest number is the next cursor, before anything is  *)
(* delivered.  An empty answer leaves the cursor at that number, where it  *)
(* was.                                                                    *)
Poll == Fetch /\ cursor' = seq

(* The preference that setCursor changed in memory reaches the disk.       *)
SaveCursor ==
  /\ <<stored, storedFrom>> # <<cursor, cursorFrom>>
  /\ stored' = cursor /\ storedFrom' = cursorFrom
  /\ UNCHANGED <<cursor, batch, daemonVars, published, delivered, last, lost, cursorFrom,
                 crashVars>>

(* deliver(env): the watch and the phone's notification.                   *)
Deliver ==
  /\ batch # <<>>
  /\ delivered' = delivered \cup {Head(batch).msg}
  /\ last' = Head(batch).msg
  /\ batch' = Tail(batch)
  /\ UNCHANGED <<cursor, stored, daemonVars, published, lost, origins, crashVars>>

(* deliver throws: the loop logs it, backs off and polls past the rest.    *)
DeliverThrows ==
  /\ throws < MaxThrows /\ batch # <<>>
  /\ batch' = <<>> /\ throws' = throws + 1
  /\ lost' = lost \cup InHand
  /\ UNCHANGED <<cursor, stored, daemonVars, published, delivered, last, origins,
                 daemonCrashes, phoneCrashes>>

(* The process dies and Android starts the service again.                  *)
PhoneCrash ==
  /\ phoneCrashes < MaxPhoneCrashes
  /\ phoneCrashes' = phoneCrashes + 1
  /\ cursor' = stored /\ cursorFrom' = storedFrom /\ batch' = <<>> /\ last' = 0
  /\ lost' = lost \cup InHand
  /\ UNCHANGED <<stored, storedFrom, daemonVars, published, delivered, daemonCrashes,
                 throws>>

Next == \/ Publish \/ DaemonCrash \/ DaemonStart
        \/ PollTooOld \/ Poll \/ SaveCursor \/ Deliver \/ DeliverThrows \/ PhoneCrash

(* The extension restarts the daemon and the poll loop never ends.  Polls  *)
(* are not lost forever, which weak fairness of the poll says.             *)
Spec ==
  /\ Init /\ [][Next]_vars
  /\ WF_vars(DaemonStart) /\ WF_vars(PollTooOld \/ Poll) /\ WF_vars(Deliver)

--------------------------------------------------------------------------------
(* However often the daemon restarts and deliveries fail, one life of the  *)
(* companion's service is handed messages in the order they were published *)
(* and none of them twice: the stream implements the outbox.               *)
Abstract == INSTANCE Outbox WITH published <- published, last <- last
ImplementsOutbox == Abstract!Spec

(* A published message has been delivered or lost, or is about to be       *)
(* delivered, or can still be polled: past the cursor if this daemon gave  *)
(* the cursor out.  The companion moves its cursor before it delivers; but *)
(* for the places that lost names, nothing falls between the two.          *)
NothingVanishes ==
  \A m \in 1..published :
    \/ m \in delivered \cup lost \cup InHand
    \/ \E e \in OnRing : e.msg = m /\ (cursorFrom = daemonCrashes => e.seq > cursor)

(* This daemon's cursors are not ahead of it, and the one on disk is not   *)
(* ahead of the one in memory but for what has left the ring.              *)
CursorsAreBehind ==
  /\ cursorFrom <= daemonCrashes /\ storedFrom <= cursorFrom
  /\ cursorFrom = daemonCrashes => cursor <= seq
  /\ storedFrom = daemonCrashes =>
       stored <= seq /\ \A e \in OnRing : e.seq > cursor => e.seq > stored

(* The companion is refused for good: its cursor is 0 and the ring has     *)
(* evicted an envelope, so that the reset leads to another 410.  This is   *)
(* what the code does, against its documentation (GapIsAccepted).          *)
Starved == running /\ cursor = 0 /\ seq > RingSize

(* A message is delivered or it was lost in one of five ways: the daemon   *)
(* died or its ring overflowed before the message was fetched; the phone   *)
(* died, or a delivery threw, after the cursor was moved past it; or a     *)
(* cursor of an earlier daemon passed over it.  Or the companion is        *)
(* refused for good.                                                       *)
EverythingIsDelivered ==
  \A m \in 1..MaxMessages : published >= m ~> (m \in delivered \cup lost \/ Starved)

(* A companion that outlives daemons catches up with the last of them: it  *)
(* ends at that daemon's newest number with nothing left in hand, whatever *)
(* its cursor was, unless it is refused for good.                          *)
CatchesUp == <>[](running /\ batch = <<>> /\ (cursor = seq \/ Starved))

--------------------------------------------------------------------------------
(* hub.go, ErrCursorTooOld: "The companion should reset to the newest      *)
(* cursor and accept the gap": a poll that was refused is followed by one  *)
(* that is answered.                                                       *)
GapIsAccepted ==
  CursorTooOld(ring, seq, cursor) ~> ~CursorTooOld(ring, seq, cursor)
================================================================================
