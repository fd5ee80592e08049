-------------------------- MODULE CommandDelivery --------------------------
(***************************************************************************)
(* How a worker takes the commands of a thread from JetStream and answers  *)
(* them.  Each worker has two dispatchers, one for the dispatch subject    *)
(* that all share and one for the subject of its own; they look up the     *)
(* thread's actor, or make one, and put the command into its mailbox.  The *)
(* actor is a goroutine that handles one command after another, records it *)
(* as processed and acknowledges it.  An actor ends when its thread is a   *)
(* terminal child or when its worker lost the lease; first its context is  *)
(* cancelled, later its done channel is closed, and in between it is still *)
(* the thread's actor.                                                     *)
(*                                                                         *)
(* Threads share nothing here, so there is one.  What a handler does to it *)
(* is one step, Effect; the claim that comes first is what ThreadOwnership *)
(* is about.                                                               *)
(***************************************************************************)
EXTENDS Integers, Sequences, FiniteSets

CONSTANTS Workers, Commands, NoOne,
          Dispatch,              \* the shared subject
          MailboxSize,           \* room in an actor's mailbox
          MaxTransientDeliveries,
          MaxEnds,               \* bound: actors that end
          MaxErrors,             \* bound: failed calls
          MaxTimeouts,           \* bound: AckWaits that pass for a command in hand
          MaxCrashes,            \* bound: workers that die
          MaxFaults              \* bound: of the last three together

ASSUME NamesDiffer == NoOne \notin Workers /\ Dispatch \notin Workers
ASSUME DeliveryBounds ==
  /\ MailboxSize \in Nat \ {0} /\ MaxTransientDeliveries \in Nat \ {0}
  /\ MaxEnds \in Nat /\ MaxErrors \in Nat /\ MaxTimeouts \in Nat
  /\ MaxCrashes \in Nat /\ MaxFaults \in Nat

VARIABLES
  msg,        \* command -> its state in JetStream, its subject and its deliveries
  hand,       \* dispatcher -> the command it holds, and for which actor
  actor,      \* actor -> its life, mailbox, place, command and the thread's end
  current,    \* worker -> its actor in Service.actors, 0 for none yet
  owner,      \* the worker with the lease
  up,         \* workers alive
  processed,  \* thread_processed_commands
  faults      \* bound -> what is spent of it

vars == <<msg, hand, actor, current, owner, up, processed, faults>>

(* Of the actors a worker makes for the thread, one after the other.  An   *)
(* actor that ends makes room for one more.                                *)
Serial == 1..MaxEnds + 1
Actors == Workers \X Serial
Dispatchers == Workers \X {"dispatch", "own"}
WorkerOf(x) == x[1]

Places == {"idle", "check", "claim", "work", "mark", "ack"}
Unmade == [life |-> "none", box |-> <<>>, pc |-> "idle", job |-> NoOne, ends |-> FALSE]
NewActor == [Unmade EXCEPT !.life = "alive"]
EmptyHand == [cmd |-> NoOne, to |-> 0]

Init ==
  /\ msg = [c \in Commands |-> [state |-> "none", subject |-> Dispatch, deliveries |-> 0]]
  /\ hand = [d \in Dispatchers |-> EmptyHand]
  /\ actor = [a \in Actors |-> Unmade]
  /\ current = [w \in Workers |-> 0]
  /\ owner = NoOne
  /\ up = Workers
  /\ processed = {}
  /\ faults = [ends |-> 0, errors |-> 0, timeouts |-> 0, crashes |-> 0]
-----------------------------------------------------------------------------
Spend(fault) ==
  /\ faults' = [faults EXCEPT ![fault] = @ + 1]
  /\ faults'.ends <= MaxEnds /\ faults'.errors <= MaxErrors
  /\ faults'.timeouts <= MaxTimeouts /\ faults'.crashes <= MaxCrashes
  /\ faults'.errors + faults'.timeouts + faults'.crashes <= MaxFaults

Settle(c) == msg' = [msg EXCEPT ![c].state = "gone"]
GiveBack(c) == msg' = [msg EXCEPT ![c].state = IF @ = "gone" THEN "gone" ELSE "waiting"]

(* publishCommand: to the owner's subject while there is a lease. *)
Publish(c) ==
  /\ msg[c].state = "none"
  /\ msg' = [msg EXCEPT ![c].state = "waiting",
                        ![c].subject = IF owner = NoOne THEN Dispatch ELSE owner]
  /\ UNCHANGED <<hand, actor, current, owner, up, processed, faults>>
-----------------------------------------------------------------------------
(* The dispatchers. *)

Reads(d, c) == msg[c].subject = IF d[2] = "own" THEN d[1] ELSE Dispatch

(* Mutation: an actor that was cancelled counts as closed. *)
IsClosed_Cancelled(a) == actor[a].life \in {"cancelled", "closed"}

IsClosed(a) == actor[a].life = "closed"

(* Mutation: the actor in the map is used, closed or not. *)
GetActor_Kept(w) == IF current[w] = 0 THEN 1 ELSE current[w]

(* getActor: the one in the map, or a new one if that one is done. *)
GetActor(w) ==
  IF current[w] = 0 \/ IsClosed(<<w, current[w]>>) THEN current[w] + 1 ELSE current[w]

DispatchMessage(d, c) ==
  LET w == WorkerOf(d)
      n == GetActor(w)
  IN /\ w \in up /\ hand[d] = EmptyHand
     /\ msg[c].state = "waiting" /\ Reads(d, c)
     /\ n \in Serial
     /\ msg' = [msg EXCEPT ![c].state = "out",
                  ![c].deliveries = IF @ < MaxTransientDeliveries THEN @ + 1 ELSE @]
     /\ hand' = [hand EXCEPT ![d] = [cmd |-> c, to |-> n]]
     /\ actor' = [actor EXCEPT ![<<w, n>>] = IF n = current[w] THEN @ ELSE NewActor]
     /\ current' = [current EXCEPT ![w] = n]
     /\ UNCHANGED <<owner, up, processed, faults>>

Target(d) == <<WorkerOf(d), hand[d].to>>

(* Mutation: the mailbox has no limit. *)
Room_Always(a) == TRUE

Room(a) == Len(actor[a].box) < MailboxSize

(* Enqueue: a select between room in the mailbox and a cancelled context.  *)
(* With both it takes either; nobody reads the mailbox of an actor that is *)
(* done.                                                                   *)
Enqueue(d) ==
  LET a == Target(d)
  IN /\ WorkerOf(d) \in up /\ hand[d] # EmptyHand
     /\ Room(a)
     /\ actor' = IF IsClosed(a) THEN actor
                 ELSE [actor EXCEPT ![a].box = Append(@, hand[d].cmd)]
     /\ hand' = [hand EXCEPT ![d] = EmptyHand]
     /\ UNCHANGED <<msg, current, owner, up, processed, faults>>

EnqueueRefused(d) ==
  /\ WorkerOf(d) \in up /\ hand[d] # EmptyHand
  /\ actor[Target(d)].life # "alive"
  /\ GiveBack(hand[d].cmd)
  /\ hand' = [hand EXCEPT ![d] = EmptyHand]
  /\ UNCHANGED <<actor, current, owner, up, processed, faults>>
-----------------------------------------------------------------------------
(* The actor. *)

At(a, place) == WorkerOf(a) \in up /\ actor[a].pc = place
Goto(a, place) == actor' = [actor EXCEPT ![a].pc = place]

(* The command is done with; a terminal child's actor destroys itself: it  *)
(* cancels its context and reads its mailbox no more.                      *)
Return(a, ends) ==
  actor' = [actor EXCEPT ![a].pc = "idle", ![a].job = NoOne, ![a].ends = ends,
              ![a].life = IF ends THEN "ending" ELSE @]

Cancelled(a) == actor[a].life = "cancelled"
Job(a) == actor[a].job

(* run: the next command, also when the context is cancelled already. *)
Receive(a) ==
  /\ At(a, "idle") /\ actor[a].life \in {"alive", "cancelled"}
  /\ actor[a].box # <<>>
  /\ actor' = [actor EXCEPT ![a].job = Head(actor[a].box), ![a].box = Tail(@), ![a].pc = "check"]
  /\ UNCHANGED <<msg, hand, current, owner, up, processed, faults>>

(* Mutation: the table of processed commands is not asked. *)
CommandProcessed_Never(a) == FALSE

CommandProcessed(a) == Job(a) \in processed

SkipProcessed(a) ==
  /\ At(a, "check") /\ ~Cancelled(a) /\ CommandProcessed(a)
  /\ Settle(Job(a))
  /\ Return(a, actor[a].ends)
  /\ UNCHANGED <<hand, current, owner, up, processed, faults>>

CheckCommand(a) ==
  /\ At(a, "check") /\ ~Cancelled(a) /\ ~CommandProcessed(a)
  /\ Goto(a, "claim")
  /\ UNCHANGED <<msg, hand, current, owner, up, processed, faults>>

Claim(a) ==
  /\ At(a, "claim") /\ ~Cancelled(a)
  /\ owner \in {NoOne, WorkerOf(a)}
  /\ owner' = WorkerOf(a)
  /\ Goto(a, "work")
  /\ UNCHANGED <<msg, hand, current, up, processed, faults>>

(* A foreign owner, a precondition that fails, a thread that is gone, or   *)
(* an error of OpenAI's that is final: the command is dropped.             *)
DropCommand(a) ==
  /\ \/ At(a, "claim") /\ owner \notin {NoOne, WorkerOf(a)}
     \/ At(a, "work")
  /\ ~Cancelled(a)
  /\ Settle(Job(a))
  /\ Return(a, actor[a].ends)
  /\ UNCHANGED <<hand, current, owner, up, processed, faults>>

(* The handler has done its work; a child may be terminal now, and gives   *)
(* its lease back.                                                         *)
Effect(a) ==
  /\ At(a, "work") /\ ~Cancelled(a)
  /\ \/ Goto(a, "mark") /\ UNCHANGED <<owner, faults>>
     \/ /\ Spend("ends")
        /\ actor' = [actor EXCEPT ![a].pc = "mark", ![a].ends = TRUE]
        /\ owner' = IF owner = WorkerOf(a) THEN NoOne ELSE owner
  /\ UNCHANGED <<msg, hand, current, up, processed>>

MarkCommandProcessed(a) ==
  /\ At(a, "mark") /\ ~Cancelled(a)
  /\ processed' = processed \cup {Job(a)}
  /\ Goto(a, "ack")
  /\ UNCHANGED <<msg, hand, current, owner, up, faults>>

AckCommand(a) ==
  /\ At(a, "ack")
  /\ Settle(Job(a))
  /\ Return(a, actor[a].ends)
  /\ UNCHANGED <<hand, current, owner, up, processed, faults>>

(* Any call under a cancelled context fails, and that is no transient      *)
(* error; others fail at times.                                            *)
Nak(a) ==
  /\ \E place \in {"check", "claim", "work", "mark"} : At(a, place)
  /\ \/ Cancelled(a) /\ UNCHANGED faults
     \/ ~Cancelled(a) /\ Spend("errors")
  /\ GiveBack(Job(a))
  /\ Return(a, actor[a].ends)
  /\ UNCHANGED <<hand, current, owner, up, processed>>

(* A transient error that came once too often: the thread is failed, its   *)
(* lease released, the command acknowledged.  Before that it is a Nak.     *)
RetriesExhausted(a) ==
  /\ At(a, "work") /\ ~Cancelled(a)
  /\ msg[Job(a)].deliveries = MaxTransientDeliveries
  /\ Settle(Job(a))
  /\ owner' = IF owner = WorkerOf(a) THEN NoOne ELSE owner
  /\ \/ Return(a, actor[a].ends) /\ UNCHANGED faults
     \/ Return(a, TRUE) /\ Spend("ends")
  /\ UNCHANGED <<hand, current, up, processed>>

CloseDone(a) ==
  /\ At(a, "idle") /\ actor[a].life \in {"cancelled", "ending"}
  /\ actor' = [actor EXCEPT ![a] = [Unmade EXCEPT !.life = "closed"]]
  /\ UNCHANGED <<msg, hand, current, owner, up, processed, faults>>

(* handleLeaseLoss, in the lease loop's goroutine, whatever the actor does. *)
HandleLeaseLoss(a) ==
  /\ WorkerOf(a) \in up /\ owner = WorkerOf(a)
  /\ actor[a].life = "alive" /\ ~actor[a].ends
  /\ Spend("ends")
  /\ owner' = NoOne
  /\ actor' = [actor EXCEPT ![a].life = "cancelled"]
  /\ UNCHANGED <<msg, hand, current, up, processed>>
-----------------------------------------------------------------------------
(* JetStream and the processes. *)

HeldBy(a, c) ==
  /\ WorkerOf(a) \in up
  /\ \/ c = actor[a].job
     \/ actor[a].life \in {"alive", "cancelled"}
        /\ c \in {actor[a].box[i] : i \in DOMAIN actor[a].box}
Held(c) == \/ \E a \in Actors : HeldBy(a, c)
           \/ \E d \in Dispatchers : WorkerOf(d) \in up /\ hand[d].cmd = c

(* AckWait has passed for a command that nobody will answer ... *)
Redeliver(c) ==
  /\ msg[c].state = "out" /\ ~Held(c)
  /\ GiveBack(c)
  /\ UNCHANGED <<hand, actor, current, owner, up, processed, faults>>

(* ... or for one that waits or is at work. *)
AckTimeout(c) ==
  /\ msg[c].state = "out" /\ Held(c)
  /\ Spend("timeouts")
  /\ GiveBack(c)
  /\ UNCHANGED <<hand, actor, current, owner, up, processed>>

Crash(w) ==
  /\ w \in up
  /\ Spend("crashes")
  /\ up' = up \ {w}
  /\ hand' = [d \in Dispatchers |-> IF WorkerOf(d) = w THEN EmptyHand ELSE hand[d]]
  /\ actor' = [a \in Actors |-> IF WorkerOf(a) = w THEN Unmade ELSE actor[a]]
  /\ UNCHANGED <<msg, current, owner, processed>>

LeaseExpires ==
  /\ owner # NoOne /\ owner \notin up
  /\ owner' = NoOne
  /\ UNCHANGED <<msg, hand, actor, current, up, processed, faults>>
-----------------------------------------------------------------------------
Dispatcher(d) == \/ Enqueue(d) \/ EnqueueRefused(d)
                 \/ \E c \in Commands : DispatchMessage(d, c)
Handle(a) ==
  \/ Receive(a) \/ SkipProcessed(a) \/ CheckCommand(a) \/ Claim(a)
  \/ DropCommand(a) \/ Effect(a) \/ MarkCommandProcessed(a) \/ AckCommand(a)
  \/ Nak(a) \/ RetriesExhausted(a) \/ CloseDone(a)

Next ==
  \/ \E c \in Commands : Publish(c) \/ Redeliver(c) \/ AckTimeout(c)
  \/ \E d \in Dispatchers : Dispatcher(d)
  \/ \E a \in Actors : Handle(a) \/ HandleLeaseLoss(a)
  \/ \E w \in Workers : Crash(w)
  \/ LeaseExpires

Spec == Init /\ [][Next]_vars

(* Goroutines run, and JetStream delivers what is not acknowledged.  A     *)
(* select that finds its context cancelled again and again takes that      *)
(* branch in the end: Go chooses among the ready ones at random.           *)
FairSpec ==
  /\ Spec
  /\ \A d \in Dispatchers : WF_vars(Dispatcher(d))
  /\ \A a \in Actors : WF_vars(Handle(a)) /\ SF_vars(CloseDone(a))
  /\ \A c \in Commands : WF_vars(Redeliver(c))
  /\ WF_vars(LeaseExpires)
-----------------------------------------------------------------------------
TypeOK ==
  /\ msg \in [Commands -> [state : {"none", "waiting", "out", "gone"},
                           subject : Workers \cup {Dispatch},
                           deliveries : 0..MaxTransientDeliveries]]
  /\ hand \in [Dispatchers -> [cmd : Commands \cup {NoOne}, to : 0..MaxEnds + 1]]
  /\ \A a \in Actors :
       /\ actor[a].life \in {"none", "alive", "cancelled", "ending", "closed"}
       /\ actor[a].box \in Seq(Commands) /\ Len(actor[a].box) <= MailboxSize
       /\ actor[a].pc \in Places
       /\ actor[a].job \in Commands \cup {NoOne}
       /\ actor[a].ends \in BOOLEAN
  /\ current \in [Workers -> 0..MaxEnds + 1]
  /\ owner \in Workers \cup {NoOne}
  /\ up \subseteq Workers /\ processed \subseteq Commands
  /\ DOMAIN faults = {"ends", "errors", "timeouts", "crashes"}

(* A worker never runs two handlers of one thread at a time, although an   *)
(* actor that ends is replaced while it may still be at work: the next one *)
(* is made only when the last one is done, not when it is cancelled.       *)
OneHandlerPerWorker ==
  \A a, b \in Actors :
    /\ WorkerOf(a) = WorkerOf(b)
    /\ actor[a].life \notin {"none", "closed"}
    /\ actor[b].life \notin {"none", "closed"}
    => a = b

(* A command that is recorded as processed is not carried out again, not   *)
(* after a crash between record and acknowledgement and not by another     *)
(* actor; only a second copy, sent out because AckWait passed, may slip    *)
(* in between the check and the record.                                    *)
EffectIsNotRepeated ==
  faults.timeouts = 0 =>
    \A a \in Actors : actor[a].pc = "work" => Job(a) \notin processed

(* Whatever mailboxes, actors and workers end, a command is answered, as   *)
(* long as it is not addressed to a worker that died.                      *)
CommandsAreAnswered ==
  \A c \in Commands :
    msg[c].state = "waiting"
      ~> msg[c].state = "gone" \/ msg[c].subject \in Workers \ up
=============================================================================
