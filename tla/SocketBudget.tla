---------------------------- MODULE SocketBudget ----------------------------
(***************************************************************************)
(* A worker keeps at most MaxSockets actors with an OpenAI session.  A     *)
(* slot belongs to "this actor has a session", not to a connection: an     *)
(* actor that replaces its session keeps the slot it has.  Whether a slot  *)
(* is needed, and whether one is given back, is read off a.session, under  *)
(* a.mu, but long before or after the session itself is dialled or closed. *)
(*                                                                         *)
(* Two goroutines of an actor do this: the one that handles commands and   *)
(* the one that renews the lease and tears the actor down when it is lost. *)
(* The service's shutdown is a third.  An actor here is one incarnation:   *)
(* when its context is cancelled the thread's next command gets a new one. *)
(***************************************************************************)
EXTENDS Integers, FiniteSets

CONSTANTS Actors, MaxSockets

ASSUME ActorsAreFinite == IsFiniteSet(Actors)
ASSUME MaxSocketsIsPositive == MaxSockets \in Nat \ {0}

VARIABLES
  used,      \* socketBudgetUsed
  session,   \* actor -> a.session # nil
  had,       \* actor -> alreadyHaveSession of its handler's open
  rotating,  \* actor -> that open is a rotation's
  handler,   \* actor -> where its command handler stands
  loss,      \* actor -> where handleLeaseLoss stands
  closing,   \* actor -> where the service's Close of it stands
  live,      \* actor -> its context is not cancelled
  raced      \* history: actors that lost the lease while they opened or closed

socketVars == <<used, session, had, rotating, handler, loss, closing, live, raced>>

SocketInit ==
  /\ used = 0
  /\ session = [a \in Actors |-> FALSE]
  /\ had = [a \in Actors |-> FALSE]
  /\ rotating = [a \in Actors |-> FALSE]
  /\ handler = [a \in Actors |-> "idle"]
  /\ loss = [a \in Actors |-> "quiet"]
  /\ closing = [a \in Actors |-> "quiet"]
  /\ live = [a \in Actors |-> TRUE]
  /\ raced = {}
-----------------------------------------------------------------------------
Goto(a, place) == handler' = [handler EXCEPT ![a] = place]
At(a, place) == handler[a] = place

(* releaseSocketSlot *)
Released == IF used > 0 THEN used - 1 ELSE 0

(* closeAndRelease, after the close: is there a session now? *)
ReleaseUnlessReplaced(a) == used' = IF session[a] THEN used ELSE Released

(* Mutation: a replacement reserves a slot of its own. *)
OpenFreshSession_AlwaysReserves(a, rotate) ==
  /\ At(a, "idle") /\ live[a]
  /\ had' = [had EXCEPT ![a] = session[a]]
  /\ rotating' = [rotating EXCEPT ![a] = rotate]
  /\ Goto(a, "reserve")
  /\ raced' = IF loss[a] = "quiet" THEN raced ELSE raced \cup {a}
  /\ UNCHANGED <<used, session, loss, closing, live>>

(* openFreshSession, from ensureSession, a failed send, or a rotation. *)
OpenFreshSession(a, rotate) ==
  /\ At(a, "idle") /\ live[a]
  /\ had' = [had EXCEPT ![a] = session[a]]
  /\ rotating' = [rotating EXCEPT ![a] = rotate]
  /\ Goto(a, IF session[a] THEN "dial" ELSE "reserve")
  /\ raced' = IF loss[a] = "quiet" THEN raced ELSE raced \cup {a}
  /\ UNCHANGED <<used, session, loss, closing, live>>

(* Mutation: one slot too many. *)
ReserveSocketSlot_OffByOne(a) ==
  /\ At(a, "reserve") /\ used <= MaxSockets
  /\ used' = used + 1
  /\ Goto(a, "dial")
  /\ UNCHANGED <<session, had, rotating, loss, closing, live, raced>>

(* reserveSocketSlot, and how it fails. *)
ReserveSocketSlot(a) ==
  /\ At(a, "reserve") /\ used < MaxSockets
  /\ used' = used + 1
  /\ Goto(a, "dial")
  /\ UNCHANGED <<session, had, rotating, loss, closing, live, raced>>

BudgetExhausted(a) ==
  /\ At(a, "reserve") /\ used >= MaxSockets
  /\ Goto(a, "idle")
  /\ UNCHANGED <<used, session, had, rotating, loss, closing, live, raced>>

(* Connect runs under the actor's context. *)
ConnectFails(a) ==
  /\ At(a, "dial")
  /\ used' = IF had[a] THEN used ELSE Released
  /\ Goto(a, "idle")
  /\ UNCHANGED <<session, had, rotating, loss, closing, live, raced>>

Connect(a) ==
  /\ At(a, "dial") /\ live[a]
  /\ Goto(a, "opened")
  /\ UNCHANGED <<used, session, had, rotating, loss, closing, live, raced>>

(* swapSessionState; what was there before is closed. *)
SwapSession(a) ==
  /\ At(a, "opened")
  /\ session' = [session EXCEPT ![a] = TRUE]
  /\ Goto(a, IF session[a] THEN "closed" ELSE "idle")
  /\ UNCHANGED <<used, had, rotating, loss, closing, live, raced>>

(* RotateOwnership failed, or was refused: the fresh session is closed. *)
RotateError(a) ==
  /\ At(a, "opened") /\ rotating[a]
  /\ Goto(a, "closed")
  /\ UNCHANGED <<used, session, had, rotating, loss, closing, live, raced>>

RotateRefused(a) ==
  /\ At(a, "opened") /\ rotating[a]
  /\ Goto(a, "refused")
  /\ UNCHANGED <<used, session, had, rotating, loss, closing, live, raced>>

(* resetSession: the turn, the thread or its socket is at an end. *)
ResetSession(a) ==
  /\ At(a, "idle") /\ session[a]
  /\ session' = [session EXCEPT ![a] = FALSE]
  /\ Goto(a, "closed")
  /\ UNCHANGED <<used, had, rotating, loss, closing, live, raced>>

(* The second half of the handler's closeAndRelease. *)
CloseAndRelease(a) ==
  /\ handler[a] \in {"closed", "refused"}
  /\ ReleaseUnlessReplaced(a)
  /\ Goto(a, IF At(a, "refused") THEN "lost" ELSE "idle")
  /\ UNCHANGED <<session, had, rotating, loss, closing, live, raced>>
-----------------------------------------------------------------------------
(* handleLeaseLoss, called by the lease loop, or by the handler itself     *)
(* after a refused rotation.                                               *)
HandleLeaseLoss(a) ==
  /\ loss[a] = "quiet" /\ live[a]
  /\ session' = [session EXCEPT ![a] = FALSE]
  /\ loss' = [loss EXCEPT ![a] = IF session[a] THEN "closed" ELSE "cancel"]
  /\ raced' = IF handler[a] \in {"idle", "lost"} THEN raced ELSE raced \cup {a}
  /\ UNCHANGED <<used, had, rotating, handler, closing, live>>

LossReleases(a) ==
  /\ loss[a] = "closed"
  /\ ReleaseUnlessReplaced(a)
  /\ loss' = [loss EXCEPT ![a] = "cancel"]
  /\ UNCHANGED <<session, had, rotating, handler, closing, live, raced>>

CancelActor(a) ==
  /\ loss[a] = "cancel"
  /\ live' = [live EXCEPT ![a] = FALSE]
  /\ loss' = [loss EXCEPT ![a] = "quiet"]
  /\ UNCHANGED <<used, session, had, rotating, handler, closing, raced>>

(* The refused rotation returns, its context cancelled or, when the        *)
(* generation of a.meta had moved on, not.                                 *)
RotationReturns(a) ==
  /\ At(a, "lost") /\ loss[a] = "quiet"
  /\ Goto(a, "idle")
  /\ UNCHANGED <<used, session, had, rotating, loss, closing, live, raced>>

(* A child's actor ends after a terminal status, which reset its session. *)
SelfDestruct(a) ==
  /\ At(a, "idle") /\ live[a] /\ ~session[a]
  /\ live' = [live EXCEPT ![a] = FALSE]
  /\ UNCHANGED <<used, session, had, rotating, handler, loss, closing, raced>>

(* closeActors at shutdown: cancel, wait for the handler, take the session. *)
Close(a) ==
  /\ closing[a] = "quiet"
  /\ live' = [live EXCEPT ![a] = FALSE]
  /\ closing' = [closing EXCEPT ![a] = "wait"]
  /\ UNCHANGED <<used, session, had, rotating, handler, loss, raced>>

CloseTakesSession(a) ==
  /\ closing[a] = "wait" /\ At(a, "idle")
  /\ session' = [session EXCEPT ![a] = FALSE]
  /\ closing' = [closing EXCEPT ![a] = IF session[a] THEN "closed" ELSE "done"]
  /\ UNCHANGED <<used, had, rotating, handler, loss, live, raced>>

CloseReleases(a) ==
  /\ closing[a] = "closed"
  /\ ReleaseUnlessReplaced(a)
  /\ closing' = [closing EXCEPT ![a] = "done"]
  /\ UNCHANGED <<session, had, rotating, handler, loss, live, raced>>
-----------------------------------------------------------------------------
Handler(a) ==
  \/ \E rotate \in BOOLEAN : OpenFreshSession(a, rotate)
  \/ ReserveSocketSlot(a) \/ BudgetExhausted(a) \/ ConnectFails(a) \/ Connect(a)
  \/ SwapSession(a) \/ RotateError(a) \/ RotateRefused(a)
  \/ ResetSession(a) \/ CloseAndRelease(a) \/ RotationReturns(a) \/ SelfDestruct(a)

LeaseLoop(a) == HandleLeaseLoss(a) \/ LossReleases(a) \/ CancelActor(a)
Shutdown(a) == Close(a) \/ CloseTakesSession(a) \/ CloseReleases(a)

SocketNext == \E a \in Actors : Handler(a) \/ LeaseLoop(a) \/ Shutdown(a)

SocketSpec == SocketInit /\ [][SocketNext]_socketVars
-----------------------------------------------------------------------------
SocketTypeOK ==
  /\ used \in 0..MaxSockets
  /\ session \in [Actors -> BOOLEAN] /\ had \in [Actors -> BOOLEAN]
  /\ rotating \in [Actors -> BOOLEAN] /\ live \in [Actors -> BOOLEAN]
  /\ handler \in [Actors -> {"idle", "reserve", "dial", "opened", "closed",
                             "refused", "lost"}]
  /\ loss \in [Actors -> {"quiet", "closed", "cancel"}]
  /\ closing \in [Actors -> {"quiet", "wait", "closed", "done"}]
  /\ raced \subseteq Actors

Holders == {a \in Actors : session[a]}
Settled == \A a \in Actors : /\ handler[a] \in {"idle", "lost"}
                             /\ loss[a] # "closed" /\ closing[a] # "closed"

(* actor.go: "so the process-wide socket budget stays accurate across all  *)
(* close paths".  When nobody is opening or closing, the slots in use are  *)
(* the actors with a session.                                              *)
BudgetIsAccurate == Settled => used = Cardinality(Holders)

(* What holds of it: no sequence of opens, replacements, failed dials,     *)
(* rotations, resets, losses and shutdowns miscounts, but an actor that    *)
(* loses its lease while its handler opens or closes a session: such an    *)
(* actor leaks one slot, or is counted by none, and no more than one.      *)
DriftIsBounded ==
  Settled => /\ used <= Cardinality(Holders) + Cardinality(raced)
             /\ Cardinality(Holders) <= used + Cardinality(raced)
=============================================================================
