---------------------------- MODULE SpawnBarrier ----------------------------
(***************************************************************************)
(* A parent thread whose response calls spawn_threads opens a group of     *)
(* children and waits; each child runs its own response and publishes the  *)
(* outcome as a command to the parent; when the last outcome is in, the    *)
(* parent resumes with one function_call_output that aggregates them.      *)
(*                                                                         *)
(* Threads, groups and outcomes are rows in Postgres, the latest request   *)
(* of a thread is a checkpoint in THREAD_HISTORY, commands live in         *)
(* JetStream until they are acknowledged.  All else is in the memory of    *)
(* the worker that runs the thread's actor, and is gone when that worker   *)
(* crashes between any two writes.  Who may own a thread is the subject of *)
(* ThreadOwnership; here a thread has a seat while the worker that owns it *)
(* lives, and a crash takes the seat only when its lease has run out.      *)
(***************************************************************************)
EXTENDS Integers, FiniteSets

CONSTANTS Children,          \* the children of one group
          Parent,
          MaxGroups,         \* bound: groups the parent opens
          MaxCrashes,        \* bound: workers that crash
          MaxReleases,       \* bound: releases of the waiting parent
          MaxTools,          \* bound: children's turns that end in a tool call
          MaxRedeliveries,   \* bound: commands delivered once more by AckWait
          MaxFailures        \* bound: transient errors of a send

ASSUME BoundsAreNat == /\ MaxGroups \in Nat /\ MaxCrashes \in Nat
                       /\ MaxReleases \in Nat /\ MaxTools \in Nat
                       /\ MaxRedeliveries \in Nat /\ MaxFailures \in Nat

(* parseSpawnRequest refuses a call without children. *)
ASSUME AtLeastOneChild == Children # {}

Groups == 1..MaxGroups
Kids == Groups \X Children        \* a child thread is made for one group
ASSUME ParentIsNoChild == Parent \notin Kids
Threads == {Parent} \cup Kids
KidsOf(g) == {g} \X Children

VARIABLES
  row,        \* thread -> its threads row
  ckpt,       \* thread -> what its latest checkpoint replays
  result,     \* child -> its row in spawn_group_children
  submitted,  \* groups with aggregate_submitted_at set
  cmds,       \* commands not yet acknowledged
  seat,       \* threads whose owner lives and runs their actor
  pc,         \* thread -> where the handler of its actor stands
  job,        \* thread -> the command that handler works on
  ask,        \* thread -> the request its turn sends
  sent,       \* history: groups whose aggregate went to OpenAI
  tried,      \* start commands that were delivered before
  budget      \* what is left of the bounds

threadVars == <<row, ckpt, seat, pc, job, ask>>
vars == <<row, ckpt, result, submitted, cmds, seat, pc, job, ask, sent, tried, budget>>

(* Requests: none yet, the thread's own input, or the aggregate of a group. *)
NoRequest == -1
OwnInput == 0
Requests == {NoRequest, OwnInput} \cup Groups

Statuses == {"new", "running", "reconciling", "waiting_children",
             "waiting_tool", "ready", "completed", "failed", "incomplete"}
Outcomes == {"completed", "failed"}

NewRow(g) == [status |-> "new", group |-> g, active |-> FALSE, owned |-> FALSE]

Start(t) == [kind |-> "start", thread |-> t, to |-> "dispatch", outcome |-> "none"]
Report(k, to, outcome) ==
  [kind |-> "report", thread |-> k, to |-> to, outcome |-> outcome]
Recover == [kind |-> "recover", thread |-> Parent, to |-> "dispatch", outcome |-> "none"]
NoJob == [kind |-> "none", thread |-> Parent, to |-> "dispatch", outcome |-> "none"]

Init ==
  /\ row = [t \in Threads |-> NewRow(IF t = Parent THEN 0 ELSE t[1])]
  /\ ckpt = [t \in Threads |-> NoRequest]
  /\ result = [k \in Kids |-> "absent"]
  /\ submitted = {}
  /\ cmds = {Start(Parent)}
  /\ seat = {}
  /\ pc = [t \in Threads |-> "idle"]
  /\ job = [t \in Threads |-> NoJob]
  /\ ask = [t \in Threads |-> NoRequest]
  /\ sent = {}
  /\ tried = {}
  /\ budget = [groups |-> MaxGroups, crashes |-> MaxCrashes,
               releases |-> MaxReleases, tools |-> MaxTools,
               redeliveries |-> MaxRedeliveries, failures |-> MaxFailures]
-----------------------------------------------------------------------------
Idle(t) == pc[t] = "idle"
At(t, place) == pc[t] = place
Goto(t, place) == pc' = [pc EXCEPT ![t] = place]
Spend(what) == budget[what] > 0 /\ budget' = [budget EXCEPT ![what] = @ - 1]

Closed(g) == \A k \in KidsOf(g) : result[k] \in Outcomes

(* The handler returns without error: the command is acknowledged. *)
Return(t) == /\ Goto(t, "idle")
             /\ job' = [job EXCEPT ![t] = NoJob]
             /\ ask' = [ask EXCEPT ![t] = NoRequest]
             /\ cmds' = cmds \ {job[t]}

(* ... or with an error that has the message delivered again. *)
ReturnError(t) == /\ Goto(t, "idle")
                  /\ job' = [job EXCEPT ![t] = NoJob]
                  /\ ask' = [ask EXCEPT ![t] = NoRequest]
                  /\ UNCHANGED cmds

Terminal(status) == status \in {"completed", "failed", "incomplete"}
-----------------------------------------------------------------------------
(* thread.start.  It asks for no status: whatever the thread does, a start *)
(* that was not acknowledged starts it over.                               *)
Deliver(t) == IF t \in tried
              THEN Spend("redeliveries") /\ UNCHANGED tried
              ELSE tried' = tried \cup {t} /\ UNCHANGED budget

HandleStart(t) ==
  /\ Idle(t) /\ Start(t) \in cmds
  /\ Deliver(t)
  /\ row' = [row EXCEPT ![t].status = "running", ![t].owned = TRUE]
  /\ seat' = seat \cup {t}
  /\ job' = [job EXCEPT ![t] = Start(t)]
  /\ ask' = [ask EXCEPT ![t] = OwnInput]
  /\ Goto(t, "submit")
  /\ UNCHANGED <<ckpt, result, submitted, cmds, sent>>

(* A start that comes back to another worker than the owner: dropped. *)
StartConflict(t) ==
  /\ t \in seat /\ Start(t) \in cmds /\ job[t] # Start(t)
  /\ Spend("redeliveries")
  /\ cmds' = cmds \ {Start(t)}
  /\ UNCHANGED <<threadVars, result, submitted, sent, tried>>

(* submitResponseCreate: first the request goes out, then the checkpoint. *)
SendRequest(t) ==
  /\ At(t, "submit")
  /\ sent' = sent \cup ({ask[t]} \cap Groups)
  /\ Goto(t, "checkpoint")
  /\ UNCHANGED <<row, ckpt, result, submitted, cmds, seat, job, ask, tried, budget>>

SaveCheckpoint(t) ==
  /\ At(t, "checkpoint")
  /\ ckpt' = [ckpt EXCEPT ![t] = ask[t]]
  /\ Goto(t, "stream")
  /\ UNCHANGED <<row, result, submitted, cmds, seat, job, ask, sent, tried, budget>>

(* The dial or the send failed: the command comes back after a delay.  A   *)
(* start runs again; a report or a recovery finds the status, or the       *)
(* generation, that it changed itself, fails its preconditions and is      *)
(* acknowledged.                                                           *)
SendFails(t) ==
  /\ At(t, "submit")
  /\ Spend("failures")
  /\ IF job[t].kind = "start"
     THEN ReturnError(t) /\ tried' = tried \ {t}
     ELSE Return(t) /\ UNCHANGED tried
  /\ UNCHANGED <<row, ckpt, result, submitted, seat, sent>>

(* Or it was the last delivery: the thread is failed and released. *)
RetriesExhausted(t) ==
  /\ At(t, "submit") /\ job[t].kind = "start"
  /\ Spend("failures")
  /\ row' = [row EXCEPT ![t].status = "failed", ![t].active = FALSE,
                        ![t].owned = FALSE]
  /\ seat' = seat \ {t}
  /\ Return(t)
  /\ UNCHANGED <<ckpt, result, submitted, sent, tried>>
-----------------------------------------------------------------------------
(* streamUntilTerminal. *)

ResponseCreated(t) ==
  /\ At(t, "stream") /\ ~row[t].active
  /\ row' = [row EXCEPT ![t].status = "running", ![t].active = TRUE]
  /\ UNCHANGED <<ckpt, result, submitted, cmds, seat, pc, job, ask, sent, tried, budget>>

(* response.completed with a spawn_threads call: startSpawnGroup writes    *)
(* the group and its pending children, publishes their starts, and only    *)
(* then the parent's row says that it waits.                               *)
NextGroup == MaxGroups - budget.groups + 1

OpenGroup ==
  /\ At(Parent, "stream") /\ row[Parent].active
  /\ Spend("groups")
  /\ result' = [k \in Kids |-> IF k \in KidsOf(NextGroup) THEN "pending" ELSE result[k]]
  /\ ask' = [ask EXCEPT ![Parent] = NextGroup]
  /\ Goto(Parent, "dispatch")
  /\ UNCHANGED <<row, ckpt, submitted, cmds, seat, job, sent, tried>>

(* Here ask is the group being opened. *)
Undispatched == {k \in KidsOf(ask[Parent]) :
                   k \notin tried /\ Start(k) \notin cmds}

DispatchChild(k) ==
  /\ At(Parent, "dispatch") /\ k \in Undispatched
  /\ cmds' = cmds \cup {Start(k)}
  /\ UNCHANGED <<threadVars, result, submitted, sent, tried, budget>>

(* Mutation: the parent's row is saved first. *)
WaitForChildren_First ==
  /\ At(Parent, "dispatch")
  /\ row' = [row EXCEPT ![Parent].status = "waiting_children",
                        ![Parent].group = ask[Parent],
                        ![Parent].active = FALSE]
  /\ UNCHANGED <<ckpt, result, submitted, cmds, seat, pc, job, ask, sent, tried, budget>>

WaitForChildren ==
  /\ At(Parent, "dispatch") /\ Undispatched = {}
  /\ row' = [row EXCEPT ![Parent].status = "waiting_children",
                        ![Parent].group = ask[Parent],
                        ![Parent].active = FALSE]
  /\ Goto(Parent, "return")
  /\ UNCHANGED <<ckpt, result, submitted, cmds, seat, job, ask, sent, tried, budget>>

(* Any other end of the response. *)
EndTurn(t, status) ==
  /\ At(t, "stream") /\ row[t].active
  /\ row' = [row EXCEPT ![t].status = status, ![t].active = FALSE]
  /\ Goto(t, "clear")
  /\ UNCHANGED <<ckpt, result, submitted, cmds, seat, job, ask, sent, tried, budget>>

(* A child's response that calls a tool of the caller's completes, too; it  *)
(* keeps its group, and is reported as completed.                          *)
ChildCallsTool(k) ==
  /\ At(k, "stream") /\ row[k].active
  /\ Spend("tools")
  /\ row' = [row EXCEPT ![k].status = "waiting_tool", ![k].active = FALSE]
  /\ Goto(k, IF row[k].group > 0 THEN "publish" ELSE "return")
  /\ UNCHANGED <<ckpt, result, submitted, cmds, seat, job, ask, sent, tried>>

(* thread.submit_tool_output, from the API. *)
SubmitToolOutput(k) ==
  /\ Idle(k) /\ row[k].status = "waiting_tool"
  /\ row' = [row EXCEPT ![k].status = "running", ![k].owned = TRUE]
  /\ seat' = seat \cup {k}
  /\ ask' = [ask EXCEPT ![k] = OwnInput]
  /\ Goto(k, "submit")
  /\ UNCHANGED <<ckpt, result, submitted, cmds, job, sent, tried, budget>>

(* Mutation: an incomplete response is reported under its own name. *)
ChildEndsTurn_Incomplete(k) ==
  \E status \in Outcomes \cup {"incomplete"} : EndTurn(k, status)

ParentEndsTurn == \E status \in {"ready", "failed"} : EndTurn(Parent, status)
ChildEndsTurn(k) == \E status \in Outcomes : EndTurn(k, status)

(* An error event: failed, acknowledged for good, and nobody told. *)
RemoteError(t) ==
  /\ At(t, "stream")
  /\ row' = [row EXCEPT ![t].status = "failed", ![t].active = FALSE]
  /\ seat' = IF t = Parent THEN seat ELSE seat \ {t}
  /\ Return(t)
  /\ UNCHANGED <<ckpt, result, submitted, sent, tried, budget>>

(* A child lets go of its lease; either kind of thread leaves its group.   *)
(* What is published is decided on the meta from before.                   *)
ClearInvocation(t) ==
  /\ At(t, "clear")
  /\ row' = [row EXCEPT ![t].group = 0,
                        ![t].owned = (t = Parent) /\ @]
  /\ Goto(t, IF t # Parent /\ row[t].group > 0 THEN "publish" ELSE "return")
  /\ UNCHANGED <<ckpt, result, submitted, cmds, seat, job, ask, sent, tried, budget>>

(* The report goes to the worker that the parent's row names, alive or not. *)
Route == IF ~row[Parent].owned THEN "dispatch"
         ELSE IF Parent \in seat THEN "owner" ELSE "dead"

OutcomeOf(k) == IF row[k].status = "waiting_tool" THEN "completed" ELSE row[k].status

PublishReport(k) ==
  /\ At(k, "publish")
  /\ cmds' = cmds \cup {Report(k, Route, OutcomeOf(k))}
  /\ Goto(k, "return")
  /\ UNCHANGED <<row, ckpt, result, submitted, seat, job, ask, sent, tried, budget>>

(* The actor of a child whose status is terminal destroys itself. *)
HandlerReturns(t) ==
  /\ At(t, "return")
  /\ Return(t)
  /\ seat' = IF t # Parent /\ Terminal(row[t].status) THEN seat \ {t} ELSE seat
  /\ UNCHANGED <<row, ckpt, result, submitted, sent, tried, budget>>
-----------------------------------------------------------------------------
(* thread.child_completed and thread.child_failed, at the parent. *)

Reports == {m \in cmds : m.kind = "report"}
Waits == row[Parent].status = "waiting_children"
Expects(k) == Waits /\ row[Parent].group \in {0, k[1]}

(* A worker reads only its own subject and the dispatch subject. *)
ReachesParent(m) == m.to = "dispatch" \/ (m.to = "owner" /\ Parent \in seat)

(* Not waiting: the precondition fails and the report is dropped.  A       *)
(* report for another group than the one at hand is an error; it comes     *)
(* back at once, again and again, and changes nothing.                     *)
DropReport(m) ==
  /\ m \in Reports /\ ReachesParent(m) /\ Idle(Parent)
  /\ ~Waits
  /\ cmds' = cmds \ {m}
  /\ UNCHANGED <<threadVars, result, submitted, sent, tried, budget>>

(* Mutation: the last outcome stays. *)
Recorded_LastWins(m) == [result EXCEPT ![m.thread] = m.outcome]

(* UpsertSpawnResult: the first outcome of a child stays. *)
Recorded(m) == [result EXCEPT ![m.thread] = IF @ \in Outcomes THEN @ ELSE m.outcome]

HandleReport(m) ==
  /\ m \in Reports /\ ReachesParent(m) /\ Idle(Parent)
  /\ Expects(m.thread)
  /\ result' = Recorded(m)
  /\ job' = [job EXCEPT ![Parent] = m]
  /\ Goto(Parent, "count")
  /\ UNCHANGED <<row, ckpt, submitted, cmds, seat, ask, sent, tried, budget>>

(* Another worker than the owner got it: it records, counts, marks the     *)
(* aggregate as submitted, and then its claim is refused.                  *)
ReportConflict(m) ==
  LET g == m.thread[1]
      closes == \A k \in KidsOf(g) : Recorded(m)[k] \in Outcomes
  IN /\ m \in Reports /\ m.to = "dispatch" /\ Parent \in seat
     /\ Expects(m.thread)
     /\ result' = Recorded(m)
     /\ submitted' = IF closes THEN submitted \cup {g} ELSE submitted
     /\ cmds' = cmds \ {m}
     /\ UNCHANGED <<threadVars, sent, tried, budget>>

(* Mutation: one report short of the group. *)
CountResults_OneShort ==
  LET g == job[Parent].thread[1]
  IN /\ At(Parent, "count")
     /\ g \notin submitted
     /\ submitted' = submitted \cup {g}
     /\ ask' = [ask EXCEPT ![Parent] = g]
     /\ Goto(Parent, "resume")
     /\ UNCHANGED <<row, ckpt, result, cmds, seat, job, sent, tried, budget>>

(* Mutation: the results are counted as they were before the report. *)
CountResults_Before ==
  /\ At(Parent, "count")
  /\ Goto(Parent, "return")
  /\ UNCHANGED <<row, ckpt, result, submitted, cmds, seat, job, ask, sent, tried, budget>>

CountResults ==
  LET g == job[Parent].thread[1]
  IN /\ At(Parent, "count")
     /\ IF Closed(g) /\ g \notin submitted
        THEN /\ submitted' = submitted \cup {g}
             /\ ask' = [ask EXCEPT ![Parent] = g]
             /\ Goto(Parent, "resume")
        ELSE /\ Goto(Parent, "return")
             /\ UNCHANGED <<submitted, ask>>
     /\ UNCHANGED <<row, ckpt, result, cmds, seat, job, sent, tried, budget>>

(* The claim (after a report only) and the save of the running status. *)
Resume(t) ==
  /\ At(t, "resume")
  /\ row' = [row EXCEPT ![t].status = "running", ![t].owned = TRUE]
  /\ seat' = seat \cup {t}
  /\ Goto(t, "submit")
  /\ UNCHANGED <<ckpt, result, submitted, cmds, job, ask, sent, tried, budget>>
-----------------------------------------------------------------------------
(* The recovery sweep and what a recovery command does. *)

NeedsBarrier(t) == row[t].group > 0 /\ ~row[t].active

(* Mutation: the sweep looks at waiting threads only. *)
RecoverThread_WaitingOnly(t) ==
  /\ t \notin seat /\ Idle(t)
  /\ row[t].status = "waiting_children"
  /\ row' = [row EXCEPT ![t].owned = TRUE]
  /\ seat' = seat \cup {t}
  /\ job' = [job EXCEPT ![t] = Recover]
  /\ Goto(t, "recount")
  /\ UNCHANGED <<ckpt, result, submitted, cmds, ask, sent, tried, budget>>

(* Reconcile or adopt: claim, and save the status to recover under. *)
RecoverThread(t) ==
  /\ t \notin seat /\ Idle(t)
  /\ row[t].status \in {"running", "reconciling", "waiting_children"}
  /\ row' = [row EXCEPT
       ![t].status = IF NeedsBarrier(t) THEN "waiting_children" ELSE "reconciling",
       ![t].owned = TRUE]
  /\ seat' = seat \cup {t}
  /\ job' = [job EXCEPT ![t] = Recover]
  /\ Goto(t, IF NeedsBarrier(t) THEN "recount" ELSE "replay")
  /\ UNCHANGED <<ckpt, result, submitted, cmds, ask, sent, tried, budget>>

(* Mutation: a recovered barrier is taken for closed. *)
RecountResults_Unchecked(t) ==
  /\ At(t, "recount")
  /\ submitted' = submitted \cup {row[t].group}
  /\ ask' = [ask EXCEPT ![t] = row[t].group]
  /\ Goto(t, "resume")
  /\ UNCHANGED <<row, ckpt, result, cmds, seat, job, sent, tried, budget>>

(* recoverWaitingChildren: the aggregate goes out when all results are in, *)
(* whether it was submitted before or not.                                 *)
RecountResults(t) ==
  LET g == row[t].group
  IN /\ At(t, "recount")
     /\ IF Closed(g)
        THEN /\ submitted' = submitted \cup {g}
             /\ ask' = [ask EXCEPT ![t] = g]
             /\ Goto(t, "resume")
        ELSE /\ Goto(t, "return")
             /\ UNCHANGED <<submitted, ask>>
     /\ UNCHANGED <<row, ckpt, result, cmds, seat, job, sent, tried, budget>>

(* reconcileFromCheckpoint: send the latest request again ... *)
ReplayCheckpoint(t) ==
  /\ At(t, "replay") /\ ckpt[t] # NoRequest
  /\ row' = [row EXCEPT ![t].active = FALSE]
  /\ ask' = [ask EXCEPT ![t] = ckpt[t]]
  /\ Goto(t, "submit")
  /\ UNCHANGED <<ckpt, result, submitted, cmds, seat, job, sent, tried, budget>>

(* ... or, without one, release the thread and leave it incomplete. *)
MissingCheckpoint(t) ==
  /\ At(t, "replay") /\ ckpt[t] = NoRequest
  /\ row' = [row EXCEPT ![t].status = "incomplete", ![t].active = FALSE,
                        ![t].owned = FALSE]
  /\ seat' = seat \ {t}
  /\ Return(t)
  /\ UNCHANGED <<ckpt, result, submitted, sent, tried, budget>>

(* thread.disconnect_socket, or the owner's orderly shutdown, of a parent  *)
(* that waits: the lease is released.                                      *)
ReleaseWaiting ==
  /\ Parent \in seat /\ Idle(Parent) /\ Waits
  /\ Spend("releases")
  /\ row' = [row EXCEPT ![Parent].owned = FALSE]
  /\ seat' = seat \ {Parent}
  /\ cmds' = {m \in cmds : m.to # "owner"}
  /\ UNCHANGED <<ckpt, result, submitted, pc, job, ask, sent, tried>>

(* The worker that runs the thread dies.  What was addressed to it nobody  *)
(* will read; what it was handling, unless it was so addressed, comes      *)
(* back after AckWait.                                                     *)
Crash(t) ==
  /\ t \in seat \/ ~Idle(t)
  /\ Spend("crashes")
  /\ seat' = seat \ {t}
  /\ Goto(t, "idle")
  /\ job' = [job EXCEPT ![t] = NoJob]
  /\ ask' = [ask EXCEPT ![t] = NoRequest]
  /\ cmds' = IF t = Parent THEN {m \in cmds : m.to # "owner"} ELSE cmds
  /\ UNCHANGED <<row, ckpt, result, submitted, sent, tried>>
-----------------------------------------------------------------------------
Turn(t) ==
  \/ SendRequest(t) \/ SaveCheckpoint(t) \/ ResponseCreated(t)
  \/ ClearInvocation(t) \/ HandlerReturns(t) \/ Resume(t)
  \/ RecountResults(t) \/ ReplayCheckpoint(t) \/ MissingCheckpoint(t)

ParentTurn == \/ OpenGroup \/ (\E k \in Kids : DispatchChild(k)) \/ WaitForChildren
              \/ ParentEndsTurn \/ CountResults
ChildTurn(k) == ChildEndsTurn(k) \/ ChildCallsTool(k) \/ PublishReport(k)

Failure == \E t \in Threads : \/ SendFails(t) \/ RetriesExhausted(t)
                             \/ RemoteError(t) \/ Crash(t) \/ StartConflict(t)

Next ==
  \/ \E t \in Threads : HandleStart(t) \/ Turn(t) \/ RecoverThread(t)
  \/ ParentTurn
  \/ \E k \in Kids : ChildTurn(k) \/ SubmitToolOutput(k)
  \/ \E m \in Reports : DropReport(m) \/ HandleReport(m) \/ ReportConflict(m)
  \/ Failure \/ ReleaseWaiting

Spec == Init /\ [][Next]_vars

(* Handlers go on, sweeps come round, and JetStream delivers. *)
FairSpec ==
  /\ Spec
  /\ \A t \in Threads : WF_vars(HandleStart(t)) /\ WF_vars(Turn(t))
                         /\ WF_vars(RecoverThread(t))
  /\ WF_vars(ParentTurn)
  /\ \A k \in Kids : WF_vars(ChildTurn(k))
  /\ WF_vars(\E m \in Reports : DropReport(m) \/ HandleReport(m))
-----------------------------------------------------------------------------
(* Properties. *)

Rows == [status : Statuses, group : 0..MaxGroups, active : BOOLEAN, owned : BOOLEAN]
Commands == [kind : {"start", "report", "recover", "none"}, thread : Threads,
             to : {"dispatch", "owner", "dead"}, outcome : Outcomes \cup {"none"}]
Places == {"idle", "submit", "checkpoint", "stream", "dispatch", "clear", "publish",
           "return", "count", "resume", "recount", "replay"}

(* Every variable has its type. *)
TypeOK ==
  /\ row \in [Threads -> Rows]
  /\ ckpt \in [Threads -> Requests] /\ ask \in [Threads -> Requests]
  /\ result \in [Kids -> Outcomes \cup {"absent", "pending"}]
  /\ submitted \subseteq Groups
  /\ cmds \subseteq Commands
  /\ seat \subseteq Threads
  /\ pc \in [Threads -> Places]
  /\ job \in [Threads -> Commands]
  /\ sent \subseteq Groups
  /\ tried \subseteq Threads

(* The aggregate of a group goes to OpenAI only when every child of the    *)
(* group has reported: no crash, retry or stray report makes the barrier   *)
(* open early.                                                             *)
AggregateIsWhole ==
  \A g \in sent : Closed(g)

(* The group keeps the promise of the abstract barrier: it opens once, and *)
(* its aggregate goes out, perhaps again, when all of it has an outcome.   *)
Group == INSTANCE Barrier WITH Members <- Children, outcome <- result, submitted <- sent
IsBarrier == Group!Spec

(* An outcome the parent has recorded is never replaced: what was sent     *)
(* under AggregateIsWhole is what the rows say forever after.              *)
OutcomesAreFinal ==
  [][\A k \in Kids : result[k] \in Outcomes => result'[k] = result[k]]_result

(* A parent that waits has dispatched every child of the group it waits    *)
(* for: none is left new without a start on its way.                       *)
NoChildForgotten ==
  Waits => \A k \in KidsOf(row[Parent].group) :
             row[k].status # "new" \/ Start(k) \in cmds

(* docs/ARCHITECTURE.md: "Those child threads persist, publish events, and *)
(* recover exactly like any other thread."  A running child comes to an    *)
(* end, also when its worker crashes.                                      *)
ChildrenFinish ==
  \A k \in Kids : row[k].status = "running"
                  ~> Terminal(row[k].status) \/ row[k].status = "waiting_tool"

(* A parent whose children have all reported goes on, whatever crashes:    *)
(* the report or the next sweep finds the barrier closed.                  *)
BarrierReleases == (Waits /\ Closed(row[Parent].group)) ~> ~Waits

(* A running parent comes to the end of its turn or to a barrier: after a  *)
(* crash it is recovered from its group or its checkpoint.                 *)
ParentGoesOn ==
  row[Parent].status \in {"running", "reconciling"}
    ~> Waits \/ row[Parent].status \in {"ready", "failed", "incomplete"}
=============================================================================
