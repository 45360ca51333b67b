------------------------------- MODULE LongPoll -------------------------------
(***************************************************************************)
(* The three long-polls of hub.go: Poll (the phone, on the ring),          *)
(* PollDecisions (a plugin, on its upstream's queue) and Conversation (the *)
(* phone, on one session).  Each reads, registers a one-slot wake channel, *)
(* reads again, and then waits for a wake, a timer or its caller's         *)
(* departure.  Reads and registrations are separate critical sections of   *)
(* Hub.mu, so writers run between them.                                    *)
(*                                                                         *)
(* A source is what a poll waits on.  Sessions and upstreams can be        *)
(* dropped and created again, which makes a new structure: `gen` is its    *)
(* identity and a waker stays registered on the structure it was put on.   *)
(* Only whether something is newer than the cursor matters here, so a      *)
(* source is its newest position, and `since` is the request's cursor.     *)
(***************************************************************************)
EXTENDS Naturals

CONSTANTS
  Pollers,  \* the concurrent requests
  MaxSeq,   \* bound on positions and on the caller's cursor
  MaxGen    \* bound on how often a source is created

Kinds == {"ring", "decisions", "conversation"}

ASSUME LongPollAssumption ==
  /\ MaxSeq \in Nat /\ MaxGen \in Nat \ {0}

VARIABLES
  is, gen, newest, \* per kind: does the source exist, which one, newest position
  kind,            \* per poller: which of the three it is, for good
  pc, since,       \* per poller: where it is, the cursor it came with
  on,              \* per poller: generation its waker is registered on, 0 = none
  found,           \* per poller: generation PollDecisions looked up
  token,           \* per poller: its channel's one slot
  answer           \* per poller: what the request returned

srcVars == <<is, gen, newest>>
pollVars == <<kind, pc, since, on, found, token, answer>>
waitVars == <<srcVars, pollVars>>

WaitTypeOK ==
  /\ is \in [Kinds -> {"live", "deleted", "dropped"}] /\ gen \in [Kinds -> 1..MaxGen]
  /\ newest \in [Kinds -> 0..MaxSeq]
  /\ kind \in [Pollers -> Kinds]
  /\ pc \in [Pollers -> {"idle", "read", "lookup", "subscribe", "recheck", "wait", "leave"}]
  /\ since \in [Pollers -> 0..MaxSeq]
  /\ on \in [Pollers -> 0..MaxGen] /\ found \in [Pollers -> 0..MaxGen]
  /\ token \in [Pollers -> BOOLEAN]
  /\ answer \in [Pollers -> {"none", "events", "empty", "error", "cancelled"}]

Live(k) == is[k] = "live"

WaitInit ==
  /\ is = [k \in Kinds |-> "live"] /\ gen = [k \in Kinds |-> 1]
  /\ newest = [k \in Kinds |-> 0]
  /\ kind \in [Pollers -> Kinds]
  /\ pc = [p \in Pollers |-> "idle"] /\ since = [p \in Pollers |-> 0]
  /\ on = [p \in Pollers |-> 0] /\ found = [p \in Pollers |-> 0]
  /\ token = [p \in Pollers |-> FALSE] /\ answer = [p \in Pollers |-> "none"]

--------------------------------------------------------------------------------
(* Writers.                                                                *)

(* A non-blocking send to every channel registered on source k.            *)
Wake(k) ==
  token' = [p \in Pollers |-> token[p] \/ (kind[p] = k /\ on[p] = gen[k])]

(* publishLocked, queueDecisionLocked, or a conversation entry and wake(). *)
Write(k) ==
  /\ Live(k) /\ newest[k] < MaxSeq
  /\ newest' = [newest EXCEPT ![k] = @ + 1]
  /\ Wake(k)
  /\ UNCHANGED <<kind, is, gen, pc, since, on, found, answer>>

(* A status change, or a prompt retracted after its conversation entry was *)
(* trimmed, wakes the session's readers with nothing for them to read.     *)
Nudge ==
  /\ Live("conversation") /\ Wake("conversation")
  /\ UNCHANGED <<kind, srcVars, pc, since, on, found, answer>>

(* Mutant: the session goes, its readers are not told.                     *)
DeleteSessionQuietly ==
  /\ Live("conversation")
  /\ is' = [is EXCEPT !["conversation"] = "deleted"]
  /\ UNCHANGED <<gen, newest, pollVars>>

(* session.deleted wakes the session's readers before it drops it.         *)
DeleteSession ==
  /\ Live("conversation")
  /\ is' = [is EXCEPT !["conversation"] = "deleted"]
  /\ Wake("conversation")
  /\ UNCHANGED <<kind, gen, newest, pc, since, on, found, answer>>

(* Eviction from a full registry and RemoveUpstream wake nobody.           *)
DropSilently(k) ==
  /\ k # "ring" /\ Live(k)
  /\ is' = [is EXCEPT ![k] = "dropped"]
  /\ UNCHANGED <<gen, newest, pollVars>>

(* The session is heard of again: a new structure, positions from zero.    *)
(* Upstream ids are never reused by a running daemon.                      *)
Recreate ==
  /\ ~Live("conversation") /\ gen["conversation"] < MaxGen
  /\ is' = [is EXCEPT !["conversation"] = "live"]
  /\ gen' = [gen EXCEPT !["conversation"] = @ + 1]
  /\ newest' = [newest EXCEPT !["conversation"] = 0]
  /\ UNCHANGED pollVars

--------------------------------------------------------------------------------
(* Pollers.                                                                *)

(* pollOnce, pollDecisionsOnce, conversationOnce.  Only the ring refuses a *)
(* cursor ahead of the source (one that fell off its end is refused too,   *)
(* which ends the request just as the events would: see Hub for that).     *)
Fails(p) == ~Live(kind[p]) \/ (kind[p] = "ring" /\ since[p] > newest[kind[p]])
Newer(p) == Live(kind[p]) /\ newest[kind[p]] > since[p]

(* `return resp, err`; the deferred unsubscribe is still to come.          *)
Return(p, what) ==
  /\ answer' = [answer EXCEPT ![p] = what]
  /\ pc' = [pc EXCEPT ![p] = "leave"]

(* Read once: return an error or events, else go on to the next step.      *)
ReadOr(p, next) ==
  \/ Fails(p) /\ Return(p, "error")
  \/ ~Fails(p) /\ Newer(p) /\ Return(p, "events")
  \/ ~Fails(p) /\ ~Newer(p) /\ pc' = [pc EXCEPT ![p] = next] /\ UNCHANGED answer

(* What a read that no longer waits returns.                               *)
LastRead(p) ==
  Return(p, IF Fails(p) THEN "error" ELSE IF Newer(p) THEN "events" ELSE "empty")

Begin(p) ==
  /\ pc[p] = "idle"
  /\ \E c \in 0..MaxSeq : since' = [since EXCEPT ![p] = c]
  /\ pc' = [pc EXCEPT ![p] = "read"]
  /\ answer' = [answer EXCEPT ![p] = "none"]
  /\ UNCHANGED <<kind, srcVars, on, found, token>>

FirstRead(p) ==
  /\ pc[p] = "read"
  /\ ReadOr(p, IF kind[p] = "decisions" THEN "lookup" ELSE "subscribe")
  /\ UNCHANGED <<kind, srcVars, since, on, found, token>>

(* `wait <= 0`: the second read is the answer.                             *)
ReadWithoutWaiting(p) ==
  /\ pc[p] \in {"lookup", "subscribe"}
  /\ found[p] = 0
  /\ LastRead(p)
  /\ UNCHANGED <<kind, srcVars, since, on, found, token>>

(* PollDecisions finds its upstream in one critical section ...            *)
LookupUpstream(p) ==
  /\ pc[p] = "lookup"
  /\ \/ Live("decisions") /\ found' = [found EXCEPT ![p] = gen["decisions"]]
        /\ pc' = [pc EXCEPT ![p] = "subscribe"] /\ UNCHANGED answer
     \/ ~Live("decisions") /\ Return(p, "error") /\ UNCHANGED found
  /\ UNCHANGED <<kind, srcVars, since, on, token>>

(* ... and registers on that structure in the next.                        *)
SubscribeUpstream(p) ==
  /\ kind[p] = "decisions" /\ pc[p] = "subscribe"
  /\ on' = [on EXCEPT ![p] = found[p]]
  /\ pc' = [pc EXCEPT ![p] = "recheck"]
  /\ UNCHANGED <<kind, srcVars, since, found, token, answer>>

SubscribeRing(p) ==
  /\ kind[p] = "ring" /\ pc[p] = "subscribe"
  /\ on' = [on EXCEPT ![p] = gen["ring"]]
  /\ pc' = [pc EXCEPT ![p] = "recheck"]
  /\ UNCHANGED <<kind, srcVars, since, found, token, answer>>

(* Conversation looks up and registers in one critical section.            *)
SubscribeSession(p) ==
  /\ kind[p] = "conversation" /\ pc[p] = "subscribe"
  /\ \/ Live("conversation") /\ on' = [on EXCEPT ![p] = gen["conversation"]]
        /\ pc' = [pc EXCEPT ![p] = "recheck"] /\ UNCHANGED answer
     \/ ~Live("conversation") /\ Return(p, "error") /\ UNCHANGED on
  /\ UNCHANGED <<kind, srcVars, since, found, token>>

(* Mutant: straight to the wait.                                           *)
RecheckSkipped(p) ==
  /\ pc[p] = "recheck"
  /\ pc' = [pc EXCEPT ![p] = "wait"]
  /\ UNCHANGED <<kind, srcVars, since, on, found, token, answer>>

(* The read after registering, which closes the window between the two.    *)
Recheck(p) ==
  /\ pc[p] = "recheck"
  /\ ReadOr(p, "wait")
  /\ UNCHANGED <<kind, srcVars, since, on, found, token>>

Woken(p) ==
  /\ pc[p] = "wait" /\ token[p]
  /\ token' = [token EXCEPT ![p] = FALSE]
  /\ ReadOr(p, "wait")
  /\ UNCHANGED <<kind, srcVars, since, on, found>>

TimerFires(p) ==
  /\ pc[p] = "wait"
  /\ LastRead(p)
  /\ UNCHANGED <<kind, srcVars, since, on, found, token>>

CallerLeaves(p) ==
  /\ pc[p] = "wait"
  /\ Return(p, "cancelled")
  /\ UNCHANGED <<kind, srcVars, since, on, found, token>>

(* The deferred delete of the waker; the channel goes with the request.    *)
Unsubscribe(p) ==
  /\ pc[p] = "leave"
  /\ pc' = [pc EXCEPT ![p] = "idle"]
  /\ on' = [on EXCEPT ![p] = 0]
  /\ found' = [found EXCEPT ![p] = 0]
  /\ token' = [token EXCEPT ![p] = FALSE]
  /\ UNCHANGED <<kind, srcVars, since, answer>>

(* What a request does by itself, neither timed out nor abandoned.         *)
Proceed(p) ==
  \/ FirstRead(p) \/ LookupUpstream(p)
  \/ SubscribeUpstream(p) \/ SubscribeRing(p) \/ SubscribeSession(p)
  \/ Recheck(p) \/ Woken(p) \/ Unsubscribe(p)

WaitNext ==
  \/ \E k \in {kind[p] : p \in Pollers} : Write(k) \/ DropSilently(k)
  \/ DeleteSession \/ Recreate \/ Nudge
  \/ \E p \in Pollers :
       \/ Begin(p) \/ Proceed(p)
       \/ ReadWithoutWaiting(p) \/ TimerFires(p) \/ CallerLeaves(p)

(* Go runs every runnable goroutine; the timer is left out on purpose, so  *)
(* that what is shown does not rest on the poll timing out.                *)
WaitSpec == WaitInit /\ [][WaitNext]_waitVars /\ \A p \in Pollers : WF_waitVars(Proceed(p))

--------------------------------------------------------------------------------
(* No wake-up is lost: a request that sleeps with an empty channel, on a   *)
(* source that is still the one it registered on, has nothing to read.     *)
(* Publishing between the first read and the subscription is the case the  *)
(* second read is there for.                                               *)
NoLostWakeup ==
  \A p \in Pollers :
    (pc[p] = "wait" /\ ~token[p] /\ Live(kind[p]) /\ on[p] = gen[kind[p]])
      => ~Newer(p)

(* An answer that arrives while a request sleeps ends the request without  *)
(* waiting for the timer, unless the source is taken away first.           *)
NewsEndsTheWait ==
  \A p \in Pollers :
    (pc[p] = "wait" /\ on[p] = gen[kind[p]] /\ Newer(p))
      ~> (pc[p] # "wait" \/ ~Live(kind[p]))

(* Deleting a session ends the requests that sleep on it, so that the      *)
(* phone closes the view instead of waiting out the poll.  A request whose *)
(* session was evicted and created again sleeps on the old structure, and  *)
(* is not covered: nothing wakes that one any more.                        *)
DeletionEndsTheWait ==
  \A p \in Pollers :
    (pc[p] = "wait" /\ is[kind[p]] = "deleted" /\ on[p] = gen[kind[p]]) ~> (pc[p] # "wait" \/ Live(kind[p]))

(* A request leaves no waker behind, on whichever structure it was put.    *)
NoWakerLeaks == \A p \in Pollers : pc[p] = "idle" => on[p] = 0

(* The inductive invariant: a waker is registered on a structure that has  *)
(* existed, so a new one never finds an old waker on it (StreamProofs).    *)
WakeInv ==
  /\ WaitTypeOK /\ NoLostWakeup /\ NoWakerLeaks
  /\ \A p \in Pollers :
       /\ on[p] <= gen[kind[p]] /\ found[p] <= gen[kind[p]]
       /\ pc[p] = "lookup" => kind[p] = "decisions"
================================================================================
