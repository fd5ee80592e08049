----------------------- MODULE CommandDelivery_proofs -----------------------
(***************************************************************************)
(* The delivery of commands, proved for any number of workers, commands,   *)
(* mailbox slots and faults.                                               *)
(*                                                                         *)
(* That a worker has one handler of a thread follows from Shape: only the  *)
(* actor that is in the map is neither unmade nor done.  That no effect is *)
(* repeated takes more: while no AckWait has passed under a handler, a     *)
(* command is in at most one place, a dispatcher's hand, a mailbox or an   *)
(* actor's hands, and in none unless JetStream counts it as delivered      *)
(* (InOnePlace).                                                           *)
(***************************************************************************)
EXTENDS CommandDelivery, TLAPS

USE NamesDiffer, DeliveryBounds

Lives == {"none", "alive", "cancelled", "ending", "closed"}
ActorStates == [life : Lives, box : Seq(Commands), pc : Places,
                job : Commands \cup {NoOne}, ends : BOOLEAN]

(* The parts of the type invariant, one for each lemma below. *)
MsgOK == msg \in [Commands -> [state : {"none", "waiting", "out", "gone"},
                               subject : Workers \cup {Dispatch},
                               deliveries : 0..MaxTransientDeliveries]]
ActorsOK == /\ actor \in [Actors -> ActorStates]
            /\ \A a \in Actors : Len(actor[a].box) <= MailboxSize
HandOK == hand \in [Dispatchers -> [cmd : Commands \cup {NoOne}, to : 0..MaxEnds + 1]]
PlainOK == /\ current \in [Workers -> 0..MaxEnds + 1]
           /\ owner \in Workers \cup {NoOne}
           /\ up \subseteq Workers /\ processed \subseteq Commands
FaultsOK == faults \in [ends : Nat, errors : Nat, timeouts : Nat, crashes : Nat]
Types == MsgOK /\ ActorsOK /\ HandOK /\ PlainOK /\ FaultsOK

(* What dispatchers and actors rely on: a hand that is not empty has a     *)
(* command and an actor to give it to, an actor that is not idle has a     *)
(* command and is neither unmade nor done, only the actor in the map is    *)
(* neither, and a dead worker has nothing left.                            *)
Shape ==
  /\ \A d \in Dispatchers :
       /\ hand[d] = EmptyHand \/ (hand[d].cmd \in Commands /\ hand[d].to \in Serial)
       /\ WorkerOf(d) \notin up => hand[d] = EmptyHand
  /\ \A a \in Actors :
       /\ actor[a].pc # "idle" => /\ actor[a].job \in Commands
                                  /\ actor[a].life \in {"alive", "cancelled"}
       /\ actor[a].life \notin {"none", "closed"} => a[2] = current[a[1]]
       /\ WorkerOf(a) \notin up => actor[a] = Unmade

LEMMA TypesGiveTypeOK == Types => TypeOK
  BY DEF Types, MsgOK, ActorsOK, HandOK, PlainOK, FaultsOK, TypeOK, ActorStates, Lives

(* A dispatcher and an actor name their worker. *)
LEMMA Names == /\ \A d \in Dispatchers : WorkerOf(d) \in Workers
               /\ \A a \in Actors : WorkerOf(a) \in Workers /\ a[1] = WorkerOf(a) /\ a[2] \in Serial
               /\ \A w \in Workers, n \in Serial : <<w, n>> \in Actors
                                                   /\ WorkerOf(<<w, n>>) = w
               /\ \A a, b \in Actors : a[1] = b[1] /\ a[2] = b[2] => a = b
  BY DEF Dispatchers, Actors, WorkerOf

(* An actor's record after a step, field by field, and no other's changes. *)
Becomes(a, life, box, place, job) ==
  /\ \A b \in Actors : b # a => actor'[b] = actor[b]
  /\ actor'[a].life = life /\ actor'[a].box = box
  /\ actor'[a].pc = place /\ actor'[a].job = job

LEMMA FreshActor ==
  /\ Unmade \in ActorStates /\ Unmade.life = "none" /\ Unmade.box = <<>>
  /\ Unmade.pc = "idle" /\ Unmade.job = NoOne
  /\ NewActor \in ActorStates /\ NewActor.life = "alive" /\ NewActor.box = <<>>
  /\ NewActor.pc = "idle" /\ NewActor.job = NoOne
<1>1. <<>> \in Seq(Commands)
  OBVIOUS
<1>2. /\ Unmade \in ActorStates /\ Unmade.life = "none" /\ Unmade.box = <<>>
      /\ Unmade.pc = "idle" /\ Unmade.job = NoOne
  BY <1>1 DEF Unmade, ActorStates, Lives, Places
<1>3. /\ NewActor \in ActorStates /\ NewActor.life = "alive" /\ NewActor.box = Unmade.box
      /\ NewActor.pc = Unmade.pc /\ NewActor.job = Unmade.job
  BY <1>2 DEF NewActor, ActorStates, Lives
<1>4. QED
  BY <1>2, <1>3

(* One actor's record is replaced by another. *)
LEMMA ActorReplaced ==
  ASSUME ActorsOK, NEW a \in Actors, NEW r \in ActorStates, Len(r.box) <= MailboxSize,
         actor' = [actor EXCEPT ![a] = r]
  PROVE  ActorsOK' /\ Becomes(a, r.life, r.box, r.pc, r.job)
  BY DEF ActorsOK, Becomes

(* What the operators of the actor's goroutine do to its record. *)
LEMMA GotoIs ==
  ASSUME ActorsOK, NEW a \in Actors, NEW place \in Places, Goto(a, place)
  PROVE  ActorsOK' /\ Becomes(a, actor[a].life, actor[a].box, place, actor[a].job)
<1>1. actor[a] \in ActorStates /\ Len(actor[a].box) <= MailboxSize
  BY DEF ActorsOK
<1> DEFINE r == [actor[a] EXCEPT !.pc = place]
<1>2. /\ r \in ActorStates /\ r.life = actor[a].life /\ r.box = actor[a].box
      /\ r.pc = place /\ r.job = actor[a].job
  BY <1>1 DEF ActorStates
<1>3. actor' = [actor EXCEPT ![a] = r]
  BY DEF Goto
<1> HIDE DEF r
<1>4. QED
  BY <1>1, <1>2, <1>3, ActorReplaced

LEMMA ReturnIs ==
  ASSUME ActorsOK, NEW a \in Actors, NEW e \in BOOLEAN, Return(a, e)
  PROVE  /\ ActorsOK'
         /\ Becomes(a, IF e THEN "ending" ELSE actor[a].life, actor[a].box, "idle", NoOne)
<1>1. actor[a] \in ActorStates /\ Len(actor[a].box) <= MailboxSize
  BY DEF ActorsOK
<1> DEFINE l == IF e THEN "ending" ELSE actor[a].life
           r == [actor[a] EXCEPT !.pc = "idle", !.job = NoOne, !.ends = e, !.life = l]
<1>2. l \in Lives
  BY <1>1 DEF ActorStates, Lives
<1>3. actor' = [actor EXCEPT ![a] = r]
  BY DEF Return
<1>4. /\ r \in ActorStates /\ r.life = l /\ r.box = actor[a].box
      /\ r.pc = "idle" /\ r.job = NoOne
  <2> HIDE DEF l
  <2>1. QED
    BY <1>1, <1>2 DEF ActorStates, Places
<1> HIDE DEF r
<1>5. ActorsOK' /\ Becomes(a, l, actor[a].box, "idle", NoOne)
  BY <1>1, <1>3, <1>4, ActorReplaced
<1>6. QED
  BY <1>5

LEMMA ReceiveIs ==
  ASSUME ActorsOK, NEW a \in Actors, Receive(a)
  PROVE  /\ ActorsOK' /\ Head(actor[a].box) \in Commands
         /\ Becomes(a, actor[a].life, Tail(actor[a].box), "check", Head(actor[a].box))
<1>1. actor[a] \in ActorStates /\ Len(actor[a].box) <= MailboxSize
  BY DEF ActorsOK
<1>2. actor[a].box \in Seq(Commands) /\ actor[a].box # <<>>
  BY <1>1 DEF Receive, ActorStates
<1>3. /\ Head(actor[a].box) \in Commands /\ Tail(actor[a].box) \in Seq(Commands)
      /\ Len(Tail(actor[a].box)) <= MailboxSize
  BY <1>1, <1>2
<1> DEFINE h == Head(actor[a].box)
           q == Tail(actor[a].box)
           r == [actor[a] EXCEPT !.job = h, !.box = q, !.pc = "check"]
<1>4. actor' = [actor EXCEPT ![a] = r]
  BY DEF Receive
<1>5. r \in ActorStates /\ r.life = actor[a].life /\ r.box = q /\ r.pc = "check" /\ r.job = h
  <2> HIDE DEF h, q
  <2>1. QED
    BY <1>1, <1>3 DEF ActorStates, Places, h, q
<1> HIDE DEF r
<1>6. QED
  BY <1>3, <1>4, <1>5, ActorReplaced

(* The effect of a handler after which its thread has ended. *)
LEMMA EndsIs ==
  ASSUME ActorsOK, NEW a \in Actors,
         actor' = [actor EXCEPT ![a].pc = "mark", ![a].ends = TRUE]
  PROVE  ActorsOK' /\ Becomes(a, actor[a].life, actor[a].box, "mark", actor[a].job)
<1>1. actor[a] \in ActorStates /\ Len(actor[a].box) <= MailboxSize
  BY DEF ActorsOK
<1> DEFINE r == [actor[a] EXCEPT !.pc = "mark", !.ends = TRUE]
<1>2. /\ r \in ActorStates /\ r.life = actor[a].life /\ r.box = actor[a].box
      /\ r.pc = "mark" /\ r.job = actor[a].job
  BY <1>1 DEF ActorStates, Places
<1>3. actor' = [actor EXCEPT ![a] = r]
  OBVIOUS
<1> HIDE DEF r
<1>4. QED
  BY <1>1, <1>2, <1>3, ActorReplaced

LEMMA CloseDoneIs ==
  ASSUME ActorsOK, NEW a \in Actors, CloseDone(a)
  PROVE  ActorsOK' /\ Becomes(a, "closed", <<>>, "idle", NoOne)
<1> DEFINE r == [Unmade EXCEPT !.life = "closed"]
<1>1. /\ r \in ActorStates /\ r.life = "closed" /\ r.box = Unmade.box
      /\ r.pc = Unmade.pc /\ r.job = Unmade.job
  BY FreshActor DEF ActorStates, Lives
<1>2. actor' = [actor EXCEPT ![a] = r]
  BY DEF CloseDone
<1>3. Len(<<>>) <= MailboxSize
  OBVIOUS
<1> HIDE DEF r
<1>4. QED
  BY <1>1, <1>2, <1>3, FreshActor, ActorReplaced

LEMMA LeaseLossIs ==
  ASSUME ActorsOK, NEW a \in Actors, HandleLeaseLoss(a)
  PROVE  ActorsOK' /\ Becomes(a, "cancelled", actor[a].box, actor[a].pc, actor[a].job)
<1>1. actor[a] \in ActorStates /\ Len(actor[a].box) <= MailboxSize
  BY DEF ActorsOK
<1> DEFINE r == [actor[a] EXCEPT !.life = "cancelled"]
<1>2. /\ r \in ActorStates /\ r.life = "cancelled" /\ r.box = actor[a].box
      /\ r.pc = actor[a].pc /\ r.job = actor[a].job
  BY <1>1 DEF ActorStates, Lives
<1>3. actor' = [actor EXCEPT ![a] = r]
  BY DEF HandleLeaseLoss
<1> HIDE DEF r
<1>4. QED
  BY <1>1, <1>2, <1>3, ActorReplaced

LEMMA AppendIs ==
  ASSUME ActorsOK, NEW a \in Actors, NEW c \in Commands, Room(a),
         actor' = [actor EXCEPT ![a].box = Append(@, c)]
  PROVE  /\ ActorsOK'
         /\ Becomes(a, actor[a].life, Append(actor[a].box, c), actor[a].pc, actor[a].job)
<1>1. actor[a] \in ActorStates /\ actor[a].box \in Seq(Commands)
  BY DEF ActorsOK, ActorStates
<1> DEFINE q == Append(actor[a].box, c)
           r == [actor[a] EXCEPT !.box = q]
<1>2. q \in Seq(Commands) /\ Len(q) <= MailboxSize
  BY <1>1 DEF Room
<1>3. actor' = [actor EXCEPT ![a] = r]
  OBVIOUS
<1>4. /\ r \in ActorStates /\ r.life = actor[a].life /\ r.box = q
      /\ r.pc = actor[a].pc /\ r.job = actor[a].job
  <2> HIDE DEF q
  <2>1. QED
    BY <1>1, <1>2 DEF ActorStates
<1> HIDE DEF r
<1>5. QED
  BY <1>2, <1>3, <1>4, ActorReplaced

(* A worker's next actor, when there is room for one. *)
LEMMA GetActorIs ==
  ASSUME Types, NEW w \in Workers, GetActor(w) \in Serial
  PROVE  /\ GetActor(w) = current[w] \/ GetActor(w) = current[w] + 1
         /\ GetActor(w) # current[w] => current[w] = 0 \/ actor[<<w, current[w]>>].life = "closed"
         /\ GetActor(w) \in 0..MaxEnds + 1
  BY DEF GetActor, IsClosed, Serial

LEMMA DispatchIs ==
  ASSUME Types, NEW d \in Dispatchers, NEW c \in Commands, DispatchMessage(d, c)
  PROVE  /\ ActorsOK'
         /\ \/ UNCHANGED actor
            \/ Becomes(<<WorkerOf(d), GetActor(WorkerOf(d))>>, "alive", <<>>, "idle", NoOne)
<1> DEFINE a == <<WorkerOf(d), GetActor(WorkerOf(d))>>
<1>1. a \in Actors
  BY Names DEF DispatchMessage
<1>2. Len(NewActor.box) <= MailboxSize
  <2>1. Len(<<>>) <= MailboxSize
    OBVIOUS
  <2>2. QED
    BY <2>1, FreshActor
<1>3. CASE GetActor(WorkerOf(d)) = current[WorkerOf(d)]
  <2>1. actor' = [actor EXCEPT ![a] = actor[a]]
    BY <1>3 DEF DispatchMessage
  <2>2. actor' = actor
    BY <2>1, <1>1 DEF Types, ActorsOK
  <2>3. QED
    BY <2>2 DEF Types, ActorsOK
<1>4. CASE GetActor(WorkerOf(d)) # current[WorkerOf(d)]
  <2>1. actor' = [actor EXCEPT ![a] = NewActor]
    BY <1>4 DEF DispatchMessage
  <2>2. ActorsOK' /\ Becomes(a, NewActor.life, NewActor.box, NewActor.pc, NewActor.job)
    BY <1>1, <1>2, <2>1, FreshActor, ActorReplaced DEF Types
  <2>3. QED
    BY <2>2, FreshActor
<1>5. QED
  BY <1>3, <1>4

LEMMA CrashIs ==
  ASSUME Types, NEW w \in Workers, Crash(w)
  PROVE  /\ ActorsOK'
         /\ \A a \in Actors : actor'[a] = IF WorkerOf(a) = w THEN Unmade ELSE actor[a]
<1>1. Len(Unmade.box) <= MailboxSize
  <2>1. Len(<<>>) <= MailboxSize
    OBVIOUS
  <2>2. QED
    BY <2>1, FreshActor
<1>2. QED
  BY <1>1, FreshActor DEF Crash, Types, ActorsOK

LEMMA MsgNext == Types /\ Shape /\ [Next]_vars => MsgOK'
<1> SUFFICES ASSUME Types, Shape, Next, msg' # msg PROVE MsgOK'
  BY DEF Types, MsgOK, vars
<1> USE DEF Types
<1>s. ASSUME NEW c, Settle(c) \/ GiveBack(c) PROVE MsgOK'
  BY <1>s DEF Settle, GiveBack, MsgOK
<1>1. ASSUME NEW c \in Commands, Publish(c) \/ Redeliver(c) \/ AckTimeout(c) PROVE MsgOK'
  <2>1. CASE Publish(c)
    <3>1. (IF owner = NoOne THEN Dispatch ELSE owner) \in Workers \cup {Dispatch}
      BY DEF PlainOK
    <3>2. QED
      BY ZenonT(40), <2>1, <3>1 DEF Publish, MsgOK
  <2>2. QED
    BY <1>1, <1>s, <2>1 DEF Redeliver, AckTimeout
<1>2. ASSUME NEW d \in Dispatchers, Dispatcher(d) PROVE MsgOK'
  <2>1. ASSUME NEW c \in Commands, DispatchMessage(d, c) PROVE MsgOK'
    <3>1. (IF msg[c].deliveries < MaxTransientDeliveries THEN msg[c].deliveries + 1
           ELSE msg[c].deliveries) \in 0..MaxTransientDeliveries
      BY DEF MsgOK
    <3>2. QED
      BY <2>1, <3>1 DEF DispatchMessage, MsgOK
  <2>2. QED
    BY <1>2, <1>s, <2>1 DEF Dispatcher, Enqueue, EnqueueRefused
<1>3. ASSUME NEW a \in Actors, Handle(a) \/ HandleLeaseLoss(a) PROVE MsgOK'
  BY <1>3, <1>s DEF Handle, HandleLeaseLoss, Receive, SkipProcessed, CheckCommand, Claim,
         DropCommand, Effect, MarkCommandProcessed, AckCommand, Nak, RetriesExhausted, CloseDone
<1>4. QED
  BY <1>1, <1>2, <1>3 DEF Next, Crash, LeaseExpires

LEMMA HandNext == Types /\ Shape /\ [Next]_vars => HandOK'
<1> SUFFICES ASSUME Types, Shape, Next, hand' # hand PROVE HandOK'
  BY DEF Types, HandOK, vars
<1> USE DEF Types
<1>0. EmptyHand \in [cmd : Commands \cup {NoOne}, to : 0..MaxEnds + 1]
  BY DEF EmptyHand
<1>1. ASSUME NEW d \in Dispatchers, Dispatcher(d) PROVE HandOK'
  <2>1. ASSUME NEW c \in Commands, DispatchMessage(d, c) PROVE HandOK'
    BY <2>1, Names, GetActorIs DEF DispatchMessage, HandOK
  <2>2. CASE Enqueue(d) \/ EnqueueRefused(d)
    BY <2>2, <1>0 DEF Enqueue, EnqueueRefused, HandOK
  <2>3. QED
    BY <1>1, <2>1, <2>2 DEF Dispatcher
<1>2. ASSUME NEW w \in Workers, Crash(w) PROVE HandOK'
  BY <1>2, <1>0 DEF Crash, HandOK
<1>3. QED
  BY <1>1, <1>2 DEF Next, Publish, Redeliver, AckTimeout, Handle, HandleLeaseLoss, Receive,
         SkipProcessed, CheckCommand, Claim, DropCommand, Effect, MarkCommandProcessed, AckCommand,
         Nak, RetriesExhausted, CloseDone, LeaseExpires

LEMMA PlainNext == Types /\ Shape /\ [Next]_vars => PlainOK'
<1> SUFFICES ASSUME Types, Shape, Next PROVE PlainOK'
  BY DEF Types, PlainOK, vars
<1> USE DEF Types, PlainOK
<1>1. ASSUME NEW c \in Commands, Publish(c) \/ Redeliver(c) \/ AckTimeout(c) PROVE PlainOK'
  BY <1>1 DEF Publish, Redeliver, AckTimeout
<1>2. ASSUME NEW d \in Dispatchers, Dispatcher(d) PROVE PlainOK'
  <2>1. ASSUME NEW c \in Commands, DispatchMessage(d, c) PROVE PlainOK'
    BY <2>1, Names, GetActorIs DEF DispatchMessage
  <2>2. QED
    BY <1>2, <2>1 DEF Dispatcher, Enqueue, EnqueueRefused
<1>3. ASSUME NEW a \in Actors, Handle(a) \/ HandleLeaseLoss(a) PROVE PlainOK'
  <2>1. WorkerOf(a) \in Workers
    BY Names
  <2>2. CASE MarkCommandProcessed(a)
    <3>1. Job(a) \in Commands
      BY <2>2 DEF MarkCommandProcessed, At, Shape, Job
    <3>2. QED
      BY <2>2, <3>1 DEF MarkCommandProcessed
  <2>3. QED
    BY <1>3, <2>1, <2>2 DEF Handle, HandleLeaseLoss, Receive, SkipProcessed, CheckCommand, Claim,
         DropCommand, Effect, AckCommand, Nak, RetriesExhausted, CloseDone
<1>4. QED
  BY <1>1, <1>2, <1>3 DEF Next, Crash, LeaseExpires

(* A bound is spent one at a time, and never given back. *)
LEMMA SpendIs ==
  ASSUME FaultsOK, NEW f \in {"ends", "errors", "timeouts", "crashes"}, Spend(f)
  PROVE  /\ FaultsOK'
         /\ faults'.timeouts = faults.timeouts + (IF f = "timeouts" THEN 1 ELSE 0)
  BY DEF FaultsOK, Spend

LEMMA FaultsNext == Types /\ [Next]_vars => FaultsOK' /\ (faults'.timeouts = 0 => faults.timeouts = 0)
<1> SUFFICES ASSUME FaultsOK, Next, faults' # faults
             PROVE  FaultsOK' /\ (faults'.timeouts = 0 => faults.timeouts = 0)
  BY DEF Types, FaultsOK, vars
<1>1. PICK f \in {"ends", "errors", "timeouts", "crashes"} : Spend(f)
  BY DEF Next, Publish, Redeliver, AckTimeout, Dispatcher, DispatchMessage, Enqueue,
         EnqueueRefused, Handle, HandleLeaseLoss, Receive, SkipProcessed, CheckCommand, Claim,
         DropCommand, Effect, MarkCommandProcessed, AckCommand, Nak, RetriesExhausted, CloseDone,
         Crash, LeaseExpires
<1>2. faults.timeouts \in Nat
  BY DEF FaultsOK
<1>3. QED
  BY <1>1, <1>2, SpendIs

(* What a step of an actor's goroutine, or the loss of its lease, makes of *)
(* the actor.                                                              *)
LEMMA HandleIs ==
  ASSUME Types, Shape, NEW a \in Actors, Handle(a) \/ HandleLeaseLoss(a)
  PROVE  /\ ActorsOK' /\ UNCHANGED <<hand, current, up>> /\ WorkerOf(a) \in up
         /\ \E l \in Lives, b \in Seq(Commands), p \in Places, j \in Commands \cup {NoOne} :
              /\ Becomes(a, l, b, p, j)
              /\ p # "idle" => j \in Commands /\ l \in {"alive", "cancelled"}
              /\ l \notin {"none", "closed"} => actor[a].life \notin {"none", "closed"}
<1> DEFINE Fine(l, b, p, j) == /\ l \in Lives /\ b \in Seq(Commands) /\ p \in Places
                               /\ j \in Commands \cup {NoOne}
                               /\ Becomes(a, l, b, p, j)
                               /\ p # "idle" => j \in Commands /\ l \in {"alive", "cancelled"}
                               /\ l \notin {"none", "closed"} =>
                                    actor[a].life \notin {"none", "closed"}
<1> SUFFICES /\ ActorsOK' /\ UNCHANGED <<hand, current, up>> /\ WorkerOf(a) \in up
             /\ \E l, b, p, j : Fine(l, b, p, j)
  OBVIOUS
<1>a. /\ ActorsOK
      /\ actor[a].life \in Lives /\ actor[a].box \in Seq(Commands) /\ actor[a].pc \in Places
      /\ actor[a].job \in Commands \cup {NoOne}
  BY DEF Types, ActorsOK, ActorStates
<1>e. actor[a].ends \in BOOLEAN
  BY DEF Types, ActorsOK, ActorStates
<1>s. actor[a].pc # "idle" => actor[a].job \in Commands /\ actor[a].life \in {"alive", "cancelled"}
  BY DEF Shape
<1>g. ASSUME NEW p \in Places, Goto(a, p), actor[a].pc # "idle"
      PROVE  ActorsOK' /\ Fine(actor[a].life, actor[a].box, p, actor[a].job)
  BY <1>g, <1>a, <1>s, GotoIs
<1>r. ASSUME NEW e \in BOOLEAN, Return(a, e), actor[a].pc # "idle"
      PROVE  /\ ActorsOK'
             /\ Fine(IF e THEN "ending" ELSE actor[a].life, actor[a].box, "idle", NoOne)
  <2> DEFINE l == IF e THEN "ending" ELSE actor[a].life
  <2>1. l \in Lives /\ "idle" \in Places
    BY <1>a DEF Lives, Places
  <2>2. ActorsOK' /\ Becomes(a, l, actor[a].box, "idle", NoOne)
    BY <1>r, <1>a, ReturnIs
  <2> HIDE DEF l
  <2>3. ActorsOK' /\ Fine(l, actor[a].box, "idle", NoOne)
    BY <1>r, <2>1, <2>2, <1>a, <1>s
  <2>4. QED
    BY <2>3 DEF l
<1>1. CASE Receive(a)
  <2>1. /\ ActorsOK' /\ Head(actor[a].box) \in Commands
        /\ Becomes(a, actor[a].life, Tail(actor[a].box), "check", Head(actor[a].box))
    BY <1>1, <1>a, ReceiveIs
  <2>2. Tail(actor[a].box) \in Seq(Commands) /\ "check" \in Places
    BY <1>1, <1>a DEF Receive, Places
  <2>3. Fine(actor[a].life, Tail(actor[a].box), "check", Head(actor[a].box))
    BY <1>1, <2>1, <2>2, <1>a DEF Receive
  <2>4. QED
    BY <1>1, <2>1, <2>3 DEF Receive, At
<1>2. CASE CheckCommand(a)
  BY <1>2, <1>g DEF CheckCommand, At, Places
<1>3. CASE Claim(a)
  BY <1>3, <1>g DEF Claim, At, Places
<1>4. CASE MarkCommandProcessed(a)
  BY <1>4, <1>g DEF MarkCommandProcessed, At, Places
<1>5. CASE Effect(a)
  <2>1. WorkerOf(a) \in up /\ actor[a].pc # "idle" /\ UNCHANGED <<hand, current, up>>
    BY <1>5 DEF Effect, At
  <2>2. CASE Goto(a, "mark")
    BY <2>1, <2>2, <1>g DEF Places
  <2>3. CASE actor' = [actor EXCEPT ![a].pc = "mark", ![a].ends = TRUE]
    <3>1. ActorsOK' /\ Becomes(a, actor[a].life, actor[a].box, "mark", actor[a].job)
      BY <2>3, <1>a, EndsIs
    <3>2. Fine(actor[a].life, actor[a].box, "mark", actor[a].job)
      BY <2>1, <3>1, <1>a, <1>s DEF Places
    <3>3. QED
      BY <2>1, <3>1, <3>2
  <2>4. QED
    BY <1>5, <2>2, <2>3 DEF Effect
<1>6. CASE SkipProcessed(a) \/ DropCommand(a) \/ AckCommand(a) \/ Nak(a)
  <2>1. /\ WorkerOf(a) \in up /\ actor[a].pc # "idle" /\ UNCHANGED <<hand, current, up>>
        /\ Return(a, actor[a].ends)
    BY <1>6 DEF SkipProcessed, DropCommand, AckCommand, Nak, At
  <2>2. QED
    BY <2>1, <1>r, <1>e
<1>7. CASE RetriesExhausted(a)
  <2>1. /\ WorkerOf(a) \in up /\ actor[a].pc # "idle" /\ UNCHANGED <<hand, current, up>>
        /\ Return(a, actor[a].ends) \/ Return(a, TRUE)
    BY <1>7 DEF RetriesExhausted, At
  <2>2. QED
    BY <2>1, <1>r, <1>e
<1>8. CASE CloseDone(a)
  <2>1. ActorsOK' /\ Becomes(a, "closed", <<>>, "idle", NoOne)
    BY <1>8, <1>a, CloseDoneIs
  <2>2. <<>> \in Seq(Commands) /\ "closed" \in Lives /\ "idle" \in Places
    BY DEF Lives, Places
  <2>3. Fine("closed", <<>>, "idle", NoOne)
    BY <2>1, <2>2
  <2>4. QED
    BY <1>8, <2>1, <2>3 DEF CloseDone, At
<1>9. CASE HandleLeaseLoss(a)
  <2>1. ActorsOK' /\ Becomes(a, "cancelled", actor[a].box, actor[a].pc, actor[a].job)
    BY <1>9, <1>a, LeaseLossIs
  <2>2. Fine("cancelled", actor[a].box, actor[a].pc, actor[a].job)
    BY <1>9, <2>1, <1>a, <1>s DEF HandleLeaseLoss, Lives
  <2>3. QED
    BY <1>9, <2>1, <2>2 DEF HandleLeaseLoss
<1>10. QED
  BY <1>1, <1>2, <1>3, <1>4, <1>5, <1>6, <1>7, <1>8, <1>9 DEF Handle

(* What a dispatcher does to the mailbox of its actor. *)
LEMMA EnqueueIs ==
  ASSUME Types, Shape, NEW d \in Dispatchers, Enqueue(d)
  PROVE  LET a == Target(d)
         IN /\ ActorsOK' /\ a \in Actors /\ hand[d].cmd \in Commands
            /\ \/ UNCHANGED actor
               \/ Becomes(a, actor[a].life, Append(actor[a].box, hand[d].cmd), actor[a].pc,
                          actor[a].job)
<1>1. Target(d) \in Actors /\ hand[d].cmd \in Commands
  BY Names DEF Enqueue, Shape, Target
<1>2. ActorsOK /\ Room(Target(d))
  BY DEF Enqueue, Types
<1>3. CASE actor' = actor
  BY <1>1, <1>2, <1>3 DEF ActorsOK
<1>4. CASE actor' = [actor EXCEPT ![Target(d)].box = Append(@, hand[d].cmd)]
  BY <1>1, <1>2, <1>4, AppendIs
<1>5. QED
  BY <1>3, <1>4 DEF Enqueue

LEMMA ActorsNext == Types /\ Shape /\ [Next]_vars => ActorsOK'
<1> SUFFICES ASSUME Types, Shape, Next, actor' # actor PROVE ActorsOK'
  BY DEF Types, ActorsOK, vars
<1>1. ASSUME NEW d \in Dispatchers, Dispatcher(d) PROVE ActorsOK'
  <2>1. CASE Enqueue(d)
    BY <2>1, EnqueueIs
  <2>2. QED
    BY <1>1, <2>1, DispatchIs DEF Dispatcher, EnqueueRefused
<1>2. ASSUME NEW a \in Actors, Handle(a) \/ HandleLeaseLoss(a) PROVE ActorsOK'
  BY <1>2, HandleIs
<1>3. QED
  BY <1>1, <1>2, CrashIs DEF Next, Publish, Redeliver, AckTimeout, LeaseExpires

LEMMA ShapeNext == Types /\ Shape /\ [Next]_vars => Shape'
<1> SUFFICES ASSUME Types, Shape, Next PROVE Shape'
  BY DEF Shape, vars
<1>0. CASE UNCHANGED <<hand, actor, current, up>>
  BY <1>0 DEF Shape
<1>1. ASSUME NEW d \in Dispatchers, Dispatcher(d) PROVE Shape'
  <2>1. CASE Enqueue(d)
    <3>1. UNCHANGED <<current, up>> /\ WorkerOf(d) \in up /\ hand' = [hand EXCEPT ![d] = EmptyHand]
      BY <2>1 DEF Enqueue
    <3>2. WorkerOf(Target(d)) = WorkerOf(d)
      BY DEF Target, WorkerOf
    <3>3. \A e \in Dispatchers : hand'[e] = IF e = d THEN EmptyHand ELSE hand[e]
      BY <3>1 DEF Types, HandOK
    <3>4. QED
      BY <2>1, <3>1, <3>2, <3>3, EnqueueIs DEF Shape, Becomes
  <2>2. CASE EnqueueRefused(d)
    <3>1. UNCHANGED <<actor, current, up>> /\ hand' = [hand EXCEPT ![d] = EmptyHand]
      BY <2>2 DEF EnqueueRefused
    <3>2. \A e \in Dispatchers : hand'[e] = IF e = d THEN EmptyHand ELSE hand[e]
      BY <3>1 DEF Types, HandOK
    <3>3. QED
      BY <3>1, <3>2 DEF Shape
  <2>3. ASSUME NEW c \in Commands, DispatchMessage(d, c) PROVE Shape'
    <3> DEFINE w == WorkerOf(d)
               n == GetActor(w)
    <3>1. /\ w \in Workers /\ w \in up /\ n \in Serial /\ UNCHANGED up
          /\ hand' = [hand EXCEPT ![d] = [cmd |-> c, to |-> n]]
          /\ current' = [current EXCEPT ![w] = n]
      BY <2>3, Names DEF DispatchMessage
    <3>2. \A e \in Dispatchers : hand'[e] = IF e = d THEN [cmd |-> c, to |-> n] ELSE hand[e]
      BY <3>1 DEF Types, HandOK
    <3>3. \A v \in Workers : current'[v] = IF v = w THEN n ELSE current[v]
      BY <3>1 DEF Types, PlainOK
    <3>4. n # current[w] => current[w] = 0 \/ actor[<<w, current[w]>>].life = "closed"
      BY <3>1, GetActorIs
    <3>5. \A a \in Actors : actor[a].life \notin {"none", "closed"} => a[2] = current'[a[1]]
      <4> SUFFICES ASSUME NEW a \in Actors, actor[a].life \notin {"none", "closed"}
                   PROVE  a[2] = current'[a[1]]
        OBVIOUS
      <4>1. a[1] \in Workers /\ a[2] \in Serial /\ a = <<a[1], a[2]>> /\ a[2] = current[a[1]]
        BY Names DEF Shape, Actors
      <4>2. a[2] # 0
        BY <4>1 DEF Serial
      <4>3. QED
        BY <3>3, <3>4, <4>1, <4>2
    <3>6. /\ UNCHANGED actor \/ Becomes(<<w, n>>, "alive", <<>>, "idle", NoOne)
          /\ <<w, n>> \in Actors /\ <<w, n>>[1] = w /\ <<w, n>>[2] = n /\ WorkerOf(<<w, n>>) = w
      BY <2>3, <3>1, DispatchIs, Names
    <3> HIDE DEF n, w
    <3>7. CASE UNCHANGED actor
      BY <3>7, <3>1, <3>2, <3>3, <3>5 DEF Shape, w
    <3>8. CASE Becomes(<<w, n>>, "alive", <<>>, "idle", NoOne)
      <4> DEFINE b == <<w, n>>
      <4>1. b \in Actors /\ b[1] = w /\ b[2] = n /\ WorkerOf(b) = w
        BY <3>6
      <4>2. /\ \A a \in Actors : a # b => actor'[a] = actor[a]
            /\ actor'[b].life = "alive" /\ actor'[b].pc = "idle"
        BY <3>8 DEF Becomes
      <4> HIDE DEF b
      <4>3. QED
        BY <3>1, <3>2, <3>3, <3>5, <4>1, <4>2 DEF Shape, w
    <3>9. QED
      BY <3>6, <3>7, <3>8
  <2>4. QED
    BY <1>1, <2>1, <2>2, <2>3 DEF Dispatcher
<1>2. ASSUME NEW a \in Actors, Handle(a) \/ HandleLeaseLoss(a) PROVE Shape'
  <2>1. PICK l \in Lives, b \in Seq(Commands), p \in Places, j \in Commands \cup {NoOne} :
          /\ Becomes(a, l, b, p, j)
          /\ p # "idle" => j \in Commands /\ l \in {"alive", "cancelled"}
          /\ l \notin {"none", "closed"} => actor[a].life \notin {"none", "closed"}
    BY <1>2, HandleIs
  <2>2. UNCHANGED <<hand, current, up>> /\ WorkerOf(a) \in up
    BY <1>2, HandleIs
  <2>3. QED
    BY <2>1, <2>2 DEF Shape, Becomes
<1>3. ASSUME NEW w \in Workers, Crash(w) PROVE Shape'
  <2>1. \A a \in Actors : actor'[a] = IF WorkerOf(a) = w THEN Unmade ELSE actor[a]
    BY <1>3, CrashIs
  <2>2. /\ \A d \in Dispatchers : hand'[d] = IF WorkerOf(d) = w THEN EmptyHand ELSE hand[d]
        /\ UNCHANGED current /\ up' = up \ {w}
    BY <1>3 DEF Crash
  <2>3. QED
    BY <2>1, <2>2, FreshActor DEF Shape
<1>4. QED
  BY <1>0, <1>1, <1>2, <1>3 DEF Next, Publish, Redeliver, AckTimeout, LeaseExpires

LEMMA InitShape == Init => Types /\ Shape
<1> SUFFICES ASSUME Init PROVE Types /\ Shape
  OBVIOUS
<1>1. MsgOK /\ PlainOK /\ FaultsOK
  BY DEF Init, MsgOK, PlainOK, FaultsOK
<1>2. HandOK
  BY DEF Init, HandOK, EmptyHand
<1>3. ActorsOK
  <2>1. Len(<<>>) <= MailboxSize
    OBVIOUS
  <2>2. QED
    BY <2>1, FreshActor DEF Init, ActorsOK
<1>4. Shape
  BY FreshActor DEF Init, Shape
<1>5. QED
  BY <1>1, <1>2, <1>3, <1>4 DEF Types

(* The variables keep their types and the shape above. *)
LEMMA ShapeHolds == Spec => [](Types /\ Shape)
<1>1. Types /\ Shape /\ [Next]_vars => Types' /\ Shape'
  BY MsgNext, HandNext, ActorsNext, PlainNext, FaultsNext, ShapeNext DEF Types
<1>2. QED
  BY InitShape, <1>1, PTL DEF Spec

(* Every variable keeps its type; in particular no mailbox ever holds more *)
(* commands than it has room for.                                          *)
THEOREM TypeCorrect == Spec => []TypeOK
  BY ShapeHolds, TypesGiveTypeOK, PTL

(* A worker has at most one actor of the thread that is neither unmade nor *)
(* done, the one in the map: getActor replaces an actor only once its done *)
(* channel is closed, although its context was cancelled long before.      *)
THEOREM OneHandler == Spec => []OneHandlerPerWorker
<1>1. Shape => OneHandlerPerWorker
  BY Names DEF Shape, OneHandlerPerWorker
<1>2. QED
  BY <1>1, ShapeHolds, PTL
-----------------------------------------------------------------------------
(* Where a command can be: in a dispatcher's hand, in a mailbox that is    *)
(* still read, or in an actor's hands.                                     *)
InHand(d, c) == hand[d] # EmptyHand /\ hand[d].cmd = c
Live(a) == actor[a].life \in {"alive", "cancelled"}
Contains(box, c) == \E i \in 1..Len(box) : box[i] = c
InBox(a, c) == Live(a) /\ Contains(actor[a].box, c)
AtWork(a, c) == actor[a].pc # "idle" /\ actor[a].job = c

Anywhere(c) == \/ \E d \in Dispatchers : InHand(d, c)
               \/ \E a \in Actors : InBox(a, c) \/ AtWork(a, c)

(* In at most one of them. *)
Once(c) ==
  /\ \A d, e \in Dispatchers : InHand(d, c) /\ InHand(e, c) => d = e
  /\ \A d \in Dispatchers, a \in Actors : InHand(d, c) => ~InBox(a, c) /\ ~AtWork(a, c)
  /\ \A a, b \in Actors : InBox(a, c) /\ InBox(b, c) => a = b
  /\ \A a, b \in Actors : InBox(a, c) => ~AtWork(b, c)
  /\ \A a, b \in Actors : AtWork(a, c) /\ AtWork(b, c) => a = b

Distinct(box) == \A i, j \in 1..Len(box) : box[i] = box[j] => i = j
BoxesDistinct == \A a \in Actors : Live(a) => Distinct(actor[a].box)

InOnePlace == /\ \A c \in Commands : Once(c) /\ (Anywhere(c) => msg[c].state = "out")
              /\ BoxesDistinct

(* An actor that is past the check carries out what is not yet recorded. *)
NotDone == \A a \in Actors : actor[a].pc \in {"claim", "work", "mark"} => Job(a) \notin processed

EffectsAreNew == faults.timeouts = 0 => InOnePlace /\ NotDone

(* A command is in no place where it was not before. *)
Fewer(c) ==
  /\ \A d \in Dispatchers : InHand(d, c)' => InHand(d, c)
  /\ \A a \in Actors : InBox(a, c)' => InBox(a, c)
  /\ \A a \in Actors : AtWork(a, c)' => AtWork(a, c)

LEMMA FewerStaysOnce ==
  ASSUME NEW c, Once(c), Fewer(c)
  PROVE  Once(c)' /\ (Anywhere(c)' => Anywhere(c))
  BY DEF Once, Fewer, Anywhere

(* A mailbox is a queue: what is appended is in it, and what is taken from *)
(* one without duplicates is no longer in it.                              *)
LEMMA QueueIs ==
  ASSUME NEW q \in Seq(Commands), NEW c \in Commands
  PROVE  /\ \A x : Contains(Append(q, c), x) => Contains(q, x) \/ x = c
         /\ Distinct(q) /\ ~Contains(q, c) => Distinct(Append(q, c))
         /\ q # <<>> => /\ Contains(q, Head(q))
                        /\ \A x : Contains(Tail(q), x) => Contains(q, x)
                        /\ Distinct(q) => Distinct(Tail(q)) /\ ~Contains(Tail(q), Head(q))
<1> USE DEF Contains, Distinct
<1>1. \A x : Contains(Append(q, c), x) => Contains(q, x) \/ x = c
  OBVIOUS
<1>2. Distinct(q) /\ ~Contains(q, c) => Distinct(Append(q, c))
  OBVIOUS
<1>3. ASSUME q # <<>>
      PROVE  /\ Contains(q, Head(q))
             /\ \A x : Contains(Tail(q), x) => Contains(q, x)
             /\ Distinct(q) => Distinct(Tail(q)) /\ ~Contains(Tail(q), Head(q))
  <2>1. /\ Len(q) \in Nat /\ Len(q) >= 1 /\ Head(q) = q[1] /\ Len(Tail(q)) = Len(q) - 1
        /\ \A i \in 1..Len(Tail(q)) : Tail(q)[i] = q[i + 1]
    BY <1>3
  <2>2. Contains(q, Head(q))
    BY <2>1
  <2>3. \A x : Contains(Tail(q), x) => Contains(q, x)
    BY <2>1
  <2>4. ASSUME Distinct(q) PROVE Distinct(Tail(q)) /\ ~Contains(Tail(q), Head(q))
    BY <2>1, <2>4
  <2>5. QED
    BY <2>2, <2>3, <2>4
<1>4. QED
  BY <1>1, <1>2, <1>3

(* A step of one actor that neither takes a command nor leaves it a        *)
(* mailbox that it did not have.                                           *)
LEMMA ActorFewer ==
  ASSUME NEW a \in Actors, NEW l, NEW b, NEW p, NEW j, Becomes(a, l, b, p, j),
         UNCHANGED hand, InOnePlace,
         l \in {"alive", "cancelled"} => Live(a) /\ b = actor[a].box,
         p # "idle" => actor[a].pc # "idle" /\ j = actor[a].job
  PROVE  BoxesDistinct' /\ \A c : Fewer(c)
<1>1. \A x \in Actors : Live(x)' => Live(x) /\ actor'[x].box = actor[x].box
  BY DEF Becomes, Live
<1>2. BoxesDistinct'
  BY <1>1 DEF InOnePlace, BoxesDistinct
<1>3. ASSUME NEW c PROVE Fewer(c)
  <2>1. \A d \in Dispatchers : InHand(d, c)' => InHand(d, c)
    BY DEF InHand
  <2>2. \A x \in Actors : InBox(x, c)' => InBox(x, c)
    BY <1>1 DEF InBox
  <2>3. \A x \in Actors : AtWork(x, c)' => AtWork(x, c)
    BY DEF Becomes, AtWork
  <2>4. QED
    BY <2>1, <2>2, <2>3 DEF Fewer
<1>4. QED
  BY <1>2, <1>3

(* When no command is in more places, only one that is nowhere may be      *)
(* settled or given back.                                                  *)
LEMMA FewerKeeps ==
  ASSUME InOnePlace, BoxesDistinct', \A c : Fewer(c),
         \A c \in Commands : msg'[c].state = msg[c].state \/ ~Anywhere(c)'
  PROVE  InOnePlace'
  BY FewerStaysOnce DEF InOnePlace

(* The command that an actor answers, and returns, is nowhere else. *)
LEMMA AnsweredIsNowhere ==
  ASSUME InOnePlace, NEW a \in Actors, NEW c \in Commands, AtWork(a, c), Fewer(c), ~AtWork(a, c)'
  PROVE  ~Anywhere(c)'
  BY DEF InOnePlace, Once, Fewer, Anywhere

(* JetStream hears of one command at a time. *)
LEMMA AnswerIs ==
  ASSUME Types, NEW c \in Commands, Settle(c) \/ GiveBack(c)
  PROVE  \A x \in Commands : x # c => msg'[x] = msg[x]
  BY DEF Types, MsgOK, Settle, GiveBack

LEMMA ReturnKeepsOne ==
  ASSUME Types, Shape, InOnePlace, NEW a \in Actors, NEW e \in BOOLEAN, Return(a, e),
         actor[a].pc # "idle", Settle(Job(a)) \/ GiveBack(Job(a)), UNCHANGED hand
  PROVE  InOnePlace'
<1>1. Becomes(a, IF e THEN "ending" ELSE actor[a].life, actor[a].box, "idle", NoOne)
  BY ReturnIs DEF Types
<1>2. Job(a) \in Commands /\ AtWork(a, Job(a)) /\ Live(a)
  BY DEF Shape, Job, AtWork, Live
<1>3. BoxesDistinct' /\ \A c : Fewer(c)
  BY <1>1, <1>2, ActorFewer
<1>4. ASSUME NEW c \in Commands, c = Job(a) PROVE ~Anywhere(c)'
  <2>1. actor'[a].pc = "idle"
    BY <1>1 DEF Becomes
  <2>2. ~AtWork(a, c)'
    BY <2>1 DEF AtWork
  <2>3. QED
    BY <1>2, <1>3, <1>4, <2>2, AnsweredIsNowhere
<1>5. QED
  BY <1>2, <1>3, <1>4, AnswerIs, FewerKeeps

(* Steps that take no command and answer none. *)
LEMMA QuietKeepsOne ==
  ASSUME InOnePlace, BoxesDistinct', \A c : Fewer(c), UNCHANGED msg
  PROVE  InOnePlace'
  BY FewerKeeps

LEMMA GotoKeepsOne ==
  ASSUME Types, InOnePlace, NEW a \in Actors, NEW p \in Places, Goto(a, p),
         actor[a].pc # "idle", UNCHANGED <<msg, hand>>
  PROVE  InOnePlace'
<1>1. Becomes(a, actor[a].life, actor[a].box, p, actor[a].job)
  BY GotoIs DEF Types
<1>2. BoxesDistinct' /\ \A c : Fewer(c)
  BY <1>1, ActorFewer DEF Live
<1>3. QED
  BY <1>2, QuietKeepsOne

LEMMA ReceiveKeepsOne ==
  ASSUME Types, Shape, InOnePlace, NEW a \in Actors, Receive(a)
  PROVE  InOnePlace'
<1> DEFINE q == actor[a].box
           h == Head(actor[a].box)
<1>1. /\ Becomes(a, actor[a].life, Tail(q), "check", h) /\ h \in Commands
      /\ Live(a) /\ actor[a].pc = "idle" /\ q # <<>> /\ q \in Seq(Commands) /\ UNCHANGED <<hand, msg>>
  BY ReceiveIs DEF Types, Receive, Live, At, ActorsOK, ActorStates
<1>2. /\ Contains(q, h) /\ \A x : Contains(Tail(q), x) => Contains(q, x)
      /\ Distinct(q) => Distinct(Tail(q)) /\ ~Contains(Tail(q), h)
  BY <1>1, QueueIs
<1>3. Distinct(q) /\ InBox(a, h)
  BY <1>1, <1>2 DEF InOnePlace, BoxesDistinct, InBox
<1> HIDE DEF q, h
<1>4. /\ \A b \in Actors : b # a => actor'[b] = actor[b]
      /\ actor'[a].life = actor[a].life /\ actor'[a].box = Tail(q)
      /\ actor'[a].pc = "check" /\ actor'[a].job = h
  BY <1>1 DEF Becomes
<1>5. BoxesDistinct'
  BY <1>2, <1>3, <1>4 DEF InOnePlace, BoxesDistinct, Live
<1>6. \A c : \A d \in Dispatchers : InHand(d, c)' <=> InHand(d, c)
  BY <1>1 DEF InHand
<1>7. \A c : \A b \in Actors : InBox(b, c)' => InBox(b, c) /\ ~(b = a /\ c = h)
  BY <1>1, <1>2, <1>3, <1>4 DEF InBox, Live, q
<1>8. \A c : \A b \in Actors : AtWork(b, c)' => AtWork(b, c) \/ (b = a /\ c = h)
  BY <1>4 DEF AtWork
<1>9. ASSUME NEW c \in Commands PROVE (Once(c) /\ (Anywhere(c) => msg[c].state = "out"))'
  <2>1. Once(c) /\ (Anywhere(c) => msg[c].state = "out") /\ msg' = msg
    BY <1>1 DEF InOnePlace
  <2>2. CASE c # h
    <3>1. Fewer(c)
      BY <2>2, <1>6, <1>7, <1>8 DEF Fewer
    <3>2. QED
      BY <2>1, <3>1, FewerStaysOnce
  <2>3. CASE c = h
    <3>1. Anywhere(c)
      BY <1>3, <2>3 DEF Anywhere
    <3>2. \A d \in Dispatchers : ~InHand(d, c)'
      BY <1>3, <1>6, <2>1, <2>3 DEF Once
    <3>3. \A b \in Actors : ~InBox(b, c)'
      BY <1>3, <1>7, <2>1, <2>3 DEF Once
    <3>4. \A b \in Actors : AtWork(b, c)' => b = a
      BY <1>3, <1>8, <2>1, <2>3 DEF Once
    <3>5. QED
      BY <2>1, <3>1, <3>2, <3>3, <3>4 DEF Once
  <2>4. QED
    BY <2>2, <2>3
<1>10. QED
  BY <1>5, <1>9 DEF InOnePlace

LEMMA HandleKeepsOne ==
  ASSUME Types, Shape, InOnePlace, NEW a \in Actors, Handle(a) \/ HandleLeaseLoss(a)
  PROVE  InOnePlace'
<1>a. ActorsOK /\ actor[a].ends \in BOOLEAN
  BY DEF Types, ActorsOK, ActorStates
<1>1. CASE Receive(a)
  BY <1>1, ReceiveKeepsOne
<1>2. CASE CheckCommand(a) \/ Claim(a) \/ MarkCommandProcessed(a)
  BY <1>2, GotoKeepsOne DEF CheckCommand, Claim, MarkCommandProcessed, At, Places
<1>3. CASE Effect(a)
  <2>1. actor[a].pc # "idle" /\ UNCHANGED <<hand, msg>>
    BY <1>3 DEF Effect, At
  <2>2. CASE Goto(a, "mark")
    BY <2>1, <2>2, GotoKeepsOne DEF Places
  <2>3. CASE actor' = [actor EXCEPT ![a].pc = "mark", ![a].ends = TRUE]
    <3>1. Becomes(a, actor[a].life, actor[a].box, "mark", actor[a].job)
      BY <1>a, <2>3, EndsIs
    <3>2. BoxesDistinct' /\ \A c : Fewer(c)
      BY <2>1, <3>1, ActorFewer DEF Live
    <3>3. QED
      BY <2>1, <3>2, QuietKeepsOne
  <2>4. QED
    BY <1>3, <2>2, <2>3 DEF Effect
<1>4. CASE SkipProcessed(a) \/ DropCommand(a) \/ AckCommand(a) \/ Nak(a)
  <2>1. /\ actor[a].pc # "idle" /\ UNCHANGED hand /\ Return(a, actor[a].ends)
        /\ Settle(Job(a)) \/ GiveBack(Job(a))
    BY <1>4 DEF SkipProcessed, DropCommand, AckCommand, Nak, At
  <2>2. QED
    BY <1>a, <2>1, ReturnKeepsOne
<1>5. CASE RetriesExhausted(a)
  <2>1. /\ actor[a].pc # "idle" /\ UNCHANGED hand /\ Settle(Job(a))
        /\ Return(a, actor[a].ends) \/ Return(a, TRUE)
    BY <1>5 DEF RetriesExhausted, At
  <2>2. QED
    BY <1>a, <2>1, ReturnKeepsOne
<1>6. CASE CloseDone(a)
  <2>1. Becomes(a, "closed", <<>>, "idle", NoOne) /\ UNCHANGED <<hand, msg>>
    BY <1>6, <1>a, CloseDoneIs DEF CloseDone
  <2>2. BoxesDistinct' /\ \A c : Fewer(c)
    BY <2>1, ActorFewer
  <2>3. QED
    BY <2>1, <2>2, QuietKeepsOne
<1>7. CASE HandleLeaseLoss(a)
  <2>1. /\ Becomes(a, "cancelled", actor[a].box, actor[a].pc, actor[a].job)
        /\ UNCHANGED <<hand, msg>> /\ Live(a)
    BY <1>7, <1>a, LeaseLossIs DEF HandleLeaseLoss, Live
  <2>2. BoxesDistinct' /\ \A c : Fewer(c)
    BY <2>1, ActorFewer
  <2>3. QED
    BY <2>1, <2>2, QuietKeepsOne
<1>8. QED
  BY <1>1, <1>2, <1>3, <1>4, <1>5, <1>6, <1>7 DEF Handle

(* A hand that is emptied holds nothing, and the others what they held. *)
LEMMA EmptiedHand ==
  ASSUME Types, NEW d \in Dispatchers, hand' = [hand EXCEPT ![d] = EmptyHand]
  PROVE  \A c : \A e \in Dispatchers : InHand(e, c)' => e # d /\ InHand(e, c)
  BY DEF Types, HandOK, InHand

LEMMA DispatchKeepsOne ==
  ASSUME Types, Shape, InOnePlace, NEW d \in Dispatchers, NEW c \in Commands, DispatchMessage(d, c)
  PROVE  InOnePlace'
<1> DEFINE n == GetActor(WorkerOf(d))
           a == <<WorkerOf(d), n>>
<1>1. /\ hand' = [hand EXCEPT ![d] = [cmd |-> c, to |-> n]] /\ n \in Serial
      /\ msg[c].state = "waiting" /\ a \in Actors
      /\ UNCHANGED actor \/ Becomes(a, "alive", <<>>, "idle", NoOne)
  BY DispatchIs, Names DEF DispatchMessage
<1>2. /\ msg'[c].state = "out"
      /\ \A x \in Commands : x # c => msg'[x] = msg[x]
  BY DEF DispatchMessage, Types, MsgOK
<1> HIDE DEF n, a
<1>3. ~Anywhere(c)
  BY <1>1 DEF InOnePlace
<1>4. \A x : \A e \in Dispatchers : InHand(e, x)' => InHand(e, x) \/ (e = d /\ x = c)
  <2>1. \A e \in Dispatchers : hand'[e] = IF e = d THEN [cmd |-> c, to |-> n] ELSE hand[e]
    BY <1>1 DEF Types, HandOK
  <2>2. QED
    BY <2>1 DEF InHand
<1>5. ~Contains(<<>>, c) /\ \A x : ~Contains(<<>>, x)
  BY DEF Contains
<1>6. \A b \in Actors : /\ \A x : InBox(b, x)' => InBox(b, x)
                        /\ \A x : AtWork(b, x)' => AtWork(b, x)
                        /\ Live(b)' => actor'[b] = actor[b] \/ actor'[b].box = <<>>
  BY <1>1, <1>5 DEF Becomes, InBox, AtWork, Live
<1>7. BoxesDistinct'
  <2>1. Distinct(<<>>)
    BY DEF Distinct
  <2>2. QED
    BY <2>1, <1>6 DEF InOnePlace, BoxesDistinct, Live
<1>8. ASSUME NEW x \in Commands PROVE (Once(x) /\ (Anywhere(x) => msg[x].state = "out"))'
  <2>1. CASE x = c
    <3>1. \A b \in Actors : ~InBox(b, x)' /\ ~AtWork(b, x)'
      BY <1>3, <1>6, <2>1 DEF Anywhere
    <3>2. \A e \in Dispatchers : InHand(e, x)' => e = d
      BY <1>3, <1>4, <2>1 DEF Anywhere
    <3>3. QED
      BY <1>2, <2>1, <3>1, <3>2 DEF Once
  <2>2. CASE x # c
    <3>1. Fewer(x)
      BY <1>4, <1>6, <2>2 DEF Fewer
    <3>2. QED
      BY <1>2, <2>2, <3>1, FewerStaysOnce DEF InOnePlace
  <2>3. QED
    BY <2>1, <2>2
<1>9. QED
  BY <1>7, <1>8 DEF InOnePlace

LEMMA EnqueueKeepsOne ==
  ASSUME Types, Shape, InOnePlace, NEW d \in Dispatchers, Enqueue(d)
  PROVE  InOnePlace'
<1> DEFINE a == Target(d)
           c == hand[d].cmd
<1>1. /\ a \in Actors /\ c \in Commands /\ InHand(d, c) /\ UNCHANGED msg
      /\ hand' = [hand EXCEPT ![d] = EmptyHand]
      /\ \/ UNCHANGED actor
         \/ Becomes(a, actor[a].life, Append(actor[a].box, c), actor[a].pc, actor[a].job)
  BY EnqueueIs DEF Enqueue, InHand
<1> HIDE DEF a, c
<1>2. \A x : \A e \in Dispatchers : InHand(e, x)' => e # d /\ InHand(e, x)
  BY <1>1, EmptiedHand
<1>3. CASE UNCHANGED actor
  <2>1. BoxesDistinct' /\ \A x : Fewer(x)
    BY <1>2, <1>3 DEF InOnePlace, BoxesDistinct, Live, Fewer, InBox, AtWork
  <2>2. QED
    BY <1>1, <2>1, QuietKeepsOne
<1>4. CASE Becomes(a, actor[a].life, Append(actor[a].box, c), actor[a].pc, actor[a].job)
  <2> DEFINE q == actor[a].box
  <2>1. q \in Seq(Commands)
    BY <1>1 DEF Types, ActorsOK, ActorStates
  <2>2. /\ \A x : Contains(Append(q, c), x) => Contains(q, x) \/ x = c
        /\ Distinct(q) /\ ~Contains(q, c) => Distinct(Append(q, c))
    BY <1>1, <2>1, QueueIs
  <2>3. Once(c) /\ msg[c].state = "out"
    BY <1>1 DEF InOnePlace, Anywhere
  <2>4. Live(a) => Distinct(q) /\ ~Contains(q, c)
    BY <1>1, <2>3 DEF InOnePlace, BoxesDistinct, Once, InBox
  <2> HIDE DEF q
  <2>5. /\ \A b \in Actors : b # a => actor'[b] = actor[b]
        /\ actor'[a].life = actor[a].life /\ actor'[a].box = Append(q, c)
        /\ actor'[a].pc = actor[a].pc /\ actor'[a].job = actor[a].job
    BY <1>4 DEF Becomes, q
  <2>6. BoxesDistinct'
    BY <2>2, <2>4, <2>5 DEF InOnePlace, BoxesDistinct, Live
  <2>7. \A x : \A b \in Actors : /\ InBox(b, x)' => InBox(b, x) \/ (b = a /\ x = c)
                                 /\ AtWork(b, x)' => AtWork(b, x)
    BY <2>2, <2>5 DEF InBox, AtWork, Live, q
  <2>8. ASSUME NEW x \in Commands PROVE (Once(x) /\ (Anywhere(x) => msg[x].state = "out"))'
    <3>1. CASE x = c
      <4>1. \A e \in Dispatchers : ~InHand(e, x)'
        BY <1>1, <1>2, <2>3, <3>1 DEF Once
      <4>2. \A b \in Actors : ~AtWork(b, x)' /\ (InBox(b, x)' => b = a)
        BY <1>1, <2>3, <2>7, <3>1 DEF Once
      <4>3. QED
        BY <1>1, <2>3, <3>1, <4>1, <4>2 DEF Once
    <3>2. CASE x # c
      <4>1. Fewer(x)
        BY <1>2, <2>7, <3>2 DEF Fewer
      <4>2. QED
        BY <1>1, <4>1, FewerStaysOnce DEF InOnePlace
    <3>3. QED
      BY <3>1, <3>2
  <2>9. QED
    BY <2>6, <2>8 DEF InOnePlace
<1>5. QED
  BY <1>1, <1>3, <1>4

LEMMA RefusedKeepsOne ==
  ASSUME Types, Shape, InOnePlace, NEW d \in Dispatchers, EnqueueRefused(d)
  PROVE  InOnePlace'
<1>1. PICK c \in Commands : /\ InHand(d, c) /\ UNCHANGED actor /\ GiveBack(c)
                            /\ hand' = [hand EXCEPT ![d] = EmptyHand]
  BY DEF EnqueueRefused, Shape, InHand
<1>2. \A x : \A e \in Dispatchers : InHand(e, x)' => e # d /\ InHand(e, x)
  BY <1>1, EmptiedHand
<1>3. BoxesDistinct' /\ \A x : Fewer(x)
  BY <1>1, <1>2 DEF InOnePlace, BoxesDistinct, Live, Fewer, InBox, AtWork
<1>4. ~Anywhere(c)'
  <2>1. Once(c)
    BY <1>1 DEF InOnePlace
  <2>2. QED
    BY <1>1, <1>2, <1>3, <2>1 DEF Once, Fewer, Anywhere
<1>5. QED
  <2>1. \A x \in Commands : x # c => msg'[x] = msg[x]
    BY <1>1, AnswerIs
  <2>2. \A x \in Commands : msg'[x].state = msg[x].state \/ ~Anywhere(x)'
    BY <1>4, <2>1
  <2>3. QED
    BY <1>3, <2>2, FewerKeeps

LEMMA CrashKeepsOne ==
  ASSUME Types, InOnePlace, NEW w \in Workers, Crash(w)
  PROVE  InOnePlace'
<1>1. /\ \A a \in Actors : actor'[a] = IF WorkerOf(a) = w THEN Unmade ELSE actor[a]
      /\ \A d \in Dispatchers : hand'[d] = IF WorkerOf(d) = w THEN EmptyHand ELSE hand[d]
      /\ UNCHANGED msg
  BY CrashIs DEF Crash
<1>2. \A a \in Actors : Live(a)' => actor'[a] = actor[a]
  BY <1>1, FreshActor DEF Live
<1>3. BoxesDistinct'
  BY <1>2 DEF BoxesDistinct, InOnePlace, Live
<1>4. ASSUME NEW c PROVE Fewer(c)
  <2>1. \A d \in Dispatchers : InHand(d, c)' => InHand(d, c)
    BY <1>1 DEF InHand
  <2>2. \A a \in Actors : InBox(a, c)' => InBox(a, c)
    BY <1>2 DEF InBox, Live
  <2>3. \A a \in Actors : AtWork(a, c)' => AtWork(a, c)
    BY <1>1, FreshActor DEF AtWork
  <2>4. QED
    BY <2>1, <2>2, <2>3 DEF Fewer
<1>5. QED
  BY <1>1, <1>3, <1>4, QuietKeepsOne

(* JetStream publishes a command that was nowhere, and sends out a second  *)
(* copy only of one that nobody holds, unless AckWait passes under its     *)
(* handler.                                                                *)
LEMMA JetStreamKeepsOne ==
  ASSUME Types, Shape, InOnePlace, NEW c \in Commands, Publish(c) \/ Redeliver(c)
  PROVE  InOnePlace'
<1>1. UNCHANGED <<hand, actor>> /\ \A x \in Commands : x # c => msg'[x] = msg[x]
  BY AnswerIs DEF Publish, Redeliver, Types, MsgOK
<1>2. BoxesDistinct' /\ \A x : Fewer(x)
  BY <1>1 DEF InOnePlace, BoxesDistinct, Live, Fewer, InHand, InBox, AtWork
<1>3. ~Anywhere(c)
  <2>1. CASE Publish(c)
    BY <2>1 DEF Publish, InOnePlace
  <2>2. CASE Redeliver(c)
    <3>1. ~Held(c)
      BY <2>2 DEF Redeliver
    <3>2. \A d \in Dispatchers : ~InHand(d, c)
      BY <3>1 DEF Held, InHand, Shape
    <3>3. \A a \in Actors : WorkerOf(a) \in up => ~InBox(a, c) /\ ~AtWork(a, c)
      <4> SUFFICES ASSUME NEW a \in Actors, WorkerOf(a) \in up PROVE ~InBox(a, c) /\ ~AtWork(a, c)
        OBVIOUS
      <4>1. c # actor[a].job
        BY <3>1 DEF Held, HeldBy
      <4>2. Live(a) => c \notin {actor[a].box[i] : i \in DOMAIN actor[a].box}
        BY <3>1 DEF Held, HeldBy, Live
      <4>3. DOMAIN actor[a].box = 1..Len(actor[a].box)
        BY DEF Types, ActorsOK, ActorStates
      <4>4. QED
        BY <4>1, <4>2, <4>3 DEF InBox, Contains, AtWork
    <3>4. \A a \in Actors : WorkerOf(a) \notin up => ~InBox(a, c) /\ ~AtWork(a, c)
      BY FreshActor DEF Shape, InBox, AtWork, Live
    <3>5. QED
      BY <3>2, <3>3, <3>4 DEF Anywhere
  <2>3. QED
    BY <2>1, <2>2
<1>4. \A x \in Commands : msg'[x].state = msg[x].state \/ ~Anywhere(x)'
  <2>1. ~Anywhere(c)'
    BY <1>1, <1>3 DEF Anywhere, InHand, InBox, AtWork, Live
  <2>2. QED
    BY <1>1, <2>1
<1>5. QED
  BY <1>2, <1>4, FewerKeeps

LEMMA OneNext == Types /\ Shape /\ InOnePlace /\ [Next]_vars /\ faults'.timeouts = 0 => InOnePlace'
<1> SUFFICES ASSUME Types, Shape, InOnePlace, Next, faults'.timeouts = 0 PROVE InOnePlace'
  BY DEF vars, InOnePlace, BoxesDistinct, Once, Anywhere, InHand, InBox, AtWork, Live
<1>1. ASSUME NEW c \in Commands, AckTimeout(c) PROVE FALSE
  <2>1. faults.timeouts \in Nat /\ FaultsOK
    BY DEF Types, FaultsOK
  <2>2. faults'.timeouts = faults.timeouts + 1
    BY <1>1, <2>1, SpendIs DEF AckTimeout
  <2>3. QED
    BY <2>1, <2>2
<1>2. CASE LeaseExpires
  BY <1>2 DEF LeaseExpires, InOnePlace, BoxesDistinct, Once, Anywhere, InHand, InBox, AtWork, Live
<1>3. QED
  BY <1>1, <1>2, JetStreamKeepsOne, HandleKeepsOne, DispatchKeepsOne, EnqueueKeepsOne,
     RefusedKeepsOne, CrashKeepsOne DEF Next, Dispatcher

(* An actor moves past the check with a command that is not recorded, and  *)
(* keeps it until it records it itself.                                    *)
LEMMA PastCheckNext ==
  ASSUME Types, Shape, Next, NEW a \in Actors, actor'[a].pc \in {"claim", "work", "mark"}
  PROVE  /\ actor'[a].job = actor[a].job /\ actor[a].job \in Commands
         /\ actor[a].pc \in {"claim", "work", "mark"} \/ actor[a].job \notin processed
         /\ actor[a].pc # "idle" /\ ~MarkCommandProcessed(a)
<1> DEFINE Goal == /\ actor'[a].job = actor[a].job /\ actor[a].job \in Commands
                   /\ actor[a].pc \in {"claim", "work", "mark"} \/ actor[a].job \notin processed
                   /\ actor[a].pc # "idle" /\ ~MarkCommandProcessed(a)
<1>p. actor[a].pc \in Places /\ (actor[a].pc # "idle" => actor[a].job \in Commands)
  BY DEF Types, ActorsOK, ActorStates, Shape
<1>m. MarkCommandProcessed(a) => actor'[a].pc = "ack"
  BY GotoIs DEF MarkCommandProcessed, Becomes, Types, Places
<1>u. CASE actor'[a].pc = actor[a].pc /\ actor'[a].job = actor[a].job
  BY <1>u, <1>p, <1>m DEF Places
<1>1. ASSUME NEW d \in Dispatchers, Dispatcher(d) PROVE Goal
  <2>1. CASE Enqueue(d)
    <3>1. \/ UNCHANGED actor
          \/ Becomes(Target(d), actor[Target(d)].life, Append(actor[Target(d)].box, hand[d].cmd),
                     actor[Target(d)].pc, actor[Target(d)].job)
      BY <2>1, EnqueueIs
    <3>2. QED
      BY <3>1, <1>u DEF Becomes
  <2>2. CASE EnqueueRefused(d)
    BY <2>2, <1>u DEF EnqueueRefused
  <2>3. ASSUME NEW c \in Commands, DispatchMessage(d, c) PROVE Goal
    BY <2>3, <1>u, DispatchIs DEF Becomes
  <2>4. QED
    BY <1>1, <2>1, <2>2, <2>3 DEF Dispatcher
<1>2. ASSUME NEW b \in Actors, Handle(b) \/ HandleLeaseLoss(b), b # a PROVE Goal
  BY <1>2, <1>u, HandleIs DEF Becomes
<1>3. CASE Handle(a) \/ HandleLeaseLoss(a)
  <2>o. ActorsOK /\ actor[a].ends \in BOOLEAN
    BY DEF Types, ActorsOK, ActorStates
  <2>1. CASE CheckCommand(a)
    <3>1. Becomes(a, actor[a].life, actor[a].box, "claim", actor[a].job)
      BY <2>1, <2>o, GotoIs DEF CheckCommand, Places
    <3>2. QED
      BY <2>1, <3>1, <1>p, <1>m DEF CheckCommand, At, CommandProcessed, Job, Becomes
  <2>2. CASE Claim(a)
    <3>1. Becomes(a, actor[a].life, actor[a].box, "work", actor[a].job)
      BY <2>2, <2>o, GotoIs DEF Claim, Places
    <3>2. QED
      BY <2>2, <3>1, <1>p, <1>m DEF Claim, At, Becomes
  <2>3. CASE Effect(a)
    <3>1. Becomes(a, actor[a].life, actor[a].box, "mark", actor[a].job)
      BY <2>3, <2>o, GotoIs, EndsIs DEF Effect, Places
    <3>2. QED
      BY <2>3, <3>1, <1>p, <1>m DEF Effect, At, Becomes
  <2>4. CASE Receive(a)
    BY <2>4, <2>o, ReceiveIs DEF Becomes
  <2>5. CASE MarkCommandProcessed(a)
    BY <2>5, <1>m
  <2>6. CASE SkipProcessed(a) \/ DropCommand(a) \/ AckCommand(a) \/ Nak(a) \/ RetriesExhausted(a)
    <3>1. Return(a, actor[a].ends) \/ Return(a, TRUE)
      BY <2>6 DEF SkipProcessed, DropCommand, AckCommand, Nak, RetriesExhausted
    <3>2. actor'[a].pc = "idle"
      BY <3>1, <2>o, ReturnIs DEF Becomes
    <3>3. QED
      BY <3>2
  <2>7. CASE CloseDone(a)
    BY <2>7, <2>o, CloseDoneIs DEF Becomes
  <2>8. CASE HandleLeaseLoss(a)
    BY <2>8, <2>o, <1>u, LeaseLossIs DEF Becomes
  <2>9. QED
    BY <1>3, <2>1, <2>2, <2>3, <2>4, <2>5, <2>6, <2>7, <2>8 DEF Handle
<1>4. ASSUME NEW w \in Workers, Crash(w) PROVE Goal
  BY <1>4, <1>u, CrashIs, FreshActor
<1>5. QED
  BY <1>1, <1>2, <1>3, <1>4, <1>u DEF Next, Publish, Redeliver, AckTimeout, LeaseExpires

LEMMA NotDoneNext == Types /\ Shape /\ InOnePlace /\ NotDone /\ [Next]_vars => NotDone'
<1> SUFFICES ASSUME Types, Shape, InOnePlace, NotDone, Next,
                    NEW a \in Actors, actor'[a].pc \in {"claim", "work", "mark"}
             PROVE  actor'[a].job \notin processed'
  BY DEF NotDone, vars, Job
<1>1. /\ actor'[a].job = actor[a].job /\ actor[a].job \in Commands /\ actor[a].pc # "idle"
      /\ ~MarkCommandProcessed(a) /\ actor[a].job \notin processed
  BY PastCheckNext DEF NotDone, Job
<1>2. ASSUME NEW b \in Actors, MarkCommandProcessed(b) PROVE actor[a].job \notin processed'
  <2>1. /\ b # a /\ actor[b].pc # "idle" /\ processed' = processed \cup {actor[b].job}
    BY <1>1, <1>2 DEF MarkCommandProcessed, At, Job
  <2>2. actor[b].job # actor[a].job
    BY <1>1, <2>1 DEF InOnePlace, Once, AtWork
  <2>3. QED
    BY <1>1, <2>1, <2>2
<1>3. CASE UNCHANGED processed
  BY <1>1, <1>3
<1>4. QED
  BY <1>1, <1>2, <1>3 DEF Next, Publish, Redeliver, AckTimeout, Dispatcher, DispatchMessage, Enqueue,
         EnqueueRefused, Handle, HandleLeaseLoss, Receive, SkipProcessed, CheckCommand, Claim,
         DropCommand, Effect, AckCommand, Nak, RetriesExhausted, CloseDone, Crash, LeaseExpires

LEMMA InitNew == Init => EffectsAreNew
<1> SUFFICES ASSUME Init PROVE InOnePlace /\ NotDone
  BY DEF EffectsAreNew
<1>1. \A a \in Actors : actor[a].pc = "idle" /\ actor[a].life = "none"
  BY FreshActor DEF Init
<1>2. \A d \in Dispatchers : hand[d] = EmptyHand
  BY DEF Init
<1>3. QED
  BY <1>1, <1>2 DEF InOnePlace, Once, Anywhere, BoxesDistinct, InHand, InBox, AtWork, Live, NotDone

(* As long as no AckWait passes under its handler, a command that is       *)
(* recorded as processed is never at work again, whatever actors, leases   *)
(* and workers end, and whatever calls fail.                               *)
THEOREM EffectsAreOnce == Spec => []EffectIsNotRepeated
<1>1. Types /\ Shape /\ EffectsAreNew /\ [Next]_vars => EffectsAreNew'
  BY FaultsNext, OneNext, NotDoneNext DEF EffectsAreNew
<1>2. EffectsAreNew => EffectIsNotRepeated
  BY DEF EffectsAreNew, NotDone, EffectIsNotRepeated
<1>3. QED
  BY InitNew, <1>1, <1>2, ShapeHolds, PTL DEF Spec
=============================================================================
