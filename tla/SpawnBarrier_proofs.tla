------------------------- MODULE SpawnBarrier_proofs -------------------------
(***************************************************************************)
(* The fan-out barrier, proved: the aggregate of a group goes out whole,   *)
(* and a recorded outcome is final.                                        *)
(*                                                                         *)
(* AggregateIsWhole speaks of what was sent.  It is not inductive: it      *)
(* takes Whole, that what is about to be sent, or would be replayed from a *)
(* checkpoint after a crash, is whole too, and that a closed barrier stays *)
(* closed.  The latter needs Births: OpenGroup writes rows that did not    *)
(* exist before.                                                           *)
(***************************************************************************)
EXTENDS SpawnBarrier, TLAPS

USE BoundsAreNat, ParentIsNoChild

(* Every child is a thread and belongs to the one group it was made for. *)
LEMMA KidsAreThreads == /\ Kids \subseteq Threads /\ Parent \in Threads
                        /\ \A k \in Kids : k[1] \in Groups /\ k \in KidsOf(k[1])
                        /\ \A g \in Groups : KidsOf(g) \subseteq Kids
                        /\ \A k \in Kids, g \in Groups : k \in KidsOf(g) <=> k[1] = g
  BY DEF Threads, Kids, KidsOf

(* What the handlers rely on at each place: a group that is being opened   *)
(* has its pending rows, a count follows a child's report, a recount a row *)
(* with a group, and a child that ends or reports has an outcome to        *)
(* report.                                                                 *)
Shape ==
  /\ budget.groups \in 0..MaxGroups
  /\ pc[Parent] = "dispatch" => /\ ask[Parent] \in Groups
                                /\ \A k \in KidsOf(ask[Parent]) : result[k] # "absent"
  /\ pc[Parent] = "count" => job[Parent].thread \in Kids
  /\ \A t \in Threads : pc[t] = "recount" => row[t].group \in Groups
  /\ \A k \in Kids : /\ pc[k] = "clear" => row[k].status \in Outcomes
                     /\ pc[k] = "publish" => row[k].status \in Outcomes \cup {"waiting_tool"}
  /\ \A m \in cmds : m.kind = "report" => m.thread \in Kids /\ m.outcome \in Outcomes

(* The parts of TypeOK, one for each lemma below. *)
RowOK == row \in [Threads -> Rows]

(* Saves that set some fields of a threads row leave a threads row. *)
LEMMA RowFields ==
  ASSUME NEW r \in Rows
  PROVE  /\ \A s \in Statuses : [r EXCEPT !.status = s] \in Rows
         /\ \A g \in 0..MaxGroups : [r EXCEPT !.group = g] \in Rows
         /\ \A s \in Statuses, g \in 0..MaxGroups :
              [r EXCEPT !.status = s, !.group = g, !.active = FALSE] \in Rows
         /\ \A b \in BOOLEAN : [r EXCEPT !.active = b] \in Rows /\ [r EXCEPT !.owned = b] \in Rows
  BY DEF Rows

(* A row without a group has the group 0. *)
LEMMA ZeroIsGroup == 0 \in 0..MaxGroups
  OBVIOUS

(* Every handler saves rows that are threads rows. *)
LEMMA RowNext == TypeOK /\ Shape /\ [Next]_vars => RowOK'
<1> SUFFICES ASSUME RowOK, TypeOK, Shape, Next, row' # row PROVE RowOK'
  BY DEF TypeOK, RowOK, vars
<1>1. ASSUME NEW t \in Threads, HandleStart(t) PROVE RowOK'
  BY <1>1 DEF HandleStart, RowOK, Rows, Statuses
<1>2. ASSUME NEW t \in Threads, RecoverThread(t) PROVE RowOK'
  BY ZenonT(40), <1>2 DEF RecoverThread, RowOK, Rows, Statuses
<1>3. ASSUME NEW t \in Threads, ClearInvocation(t) PROVE RowOK'
  <2>1. /\ row[t] \in Rows
        /\ row' = [row EXCEPT ![t] = [row[t] EXCEPT !.group = 0,
                                                   !.owned = (t = Parent) /\ row[t].owned]]
    BY <1>3 DEF ClearInvocation, RowOK
  <2>2. ((t = Parent) /\ row[t].owned) \in BOOLEAN
    OBVIOUS
  <2>3. [row[t] EXCEPT !.group = 0, !.owned = (t = Parent) /\ row[t].owned] \in Rows
    BY <2>1, <2>2, ZeroIsGroup DEF Rows
  <2>4. QED
    BY <2>1, <2>3 DEF RowOK
<1>4. ASSUME NEW t \in Threads, Resume(t) PROVE RowOK'
  BY <1>4 DEF Resume, RowOK, Rows, Statuses
<1>5. ASSUME NEW t \in Threads, ReplayCheckpoint(t) \/ ResponseCreated(t) PROVE RowOK'
  <2>1. CASE ReplayCheckpoint(t)
    BY <2>1, RowFields DEF ReplayCheckpoint, RowOK
  <2>2. CASE ResponseCreated(t)
    BY <2>2 DEF ResponseCreated, RowOK, Rows, Statuses
  <2>3. QED
    BY <1>5, <2>1, <2>2
<1>6. ASSUME NEW t \in Threads, MissingCheckpoint(t) \/ RetriesExhausted(t) \/ RemoteError(t)
      PROVE RowOK'
  BY <1>6 DEF MissingCheckpoint, RetriesExhausted, RemoteError, RowOK, Rows, Statuses
<1>7. ASSUME NEW t \in Threads, NEW status \in Statuses, EndTurn(t, status) PROVE RowOK'
  BY <1>7 DEF EndTurn, RowOK, Rows
<1>8. CASE WaitForChildren
  <2>1. ask[Parent] \in 0..MaxGroups
    BY <1>8 DEF WaitForChildren, Shape, Groups, At
  <2>2. [row[Parent] EXCEPT !.status = "waiting_children", !.group = ask[Parent],
                            !.active = FALSE] \in Rows
    BY <2>1, RowFields, KidsAreThreads DEF RowOK, Statuses
  <2>3. QED
    BY <1>8, <2>2, KidsAreThreads DEF WaitForChildren, RowOK
<1>9. ASSUME NEW k \in Kids, ChildCallsTool(k) \/ SubmitToolOutput(k) PROVE RowOK'
  BY <1>9, KidsAreThreads DEF ChildCallsTool, SubmitToolOutput, RowOK, Rows, Statuses
<1>10. CASE ReleaseWaiting
  BY <1>10, KidsAreThreads, RowFields DEF ReleaseWaiting, RowOK
<1>11. QED
  BY <1>1, <1>2, <1>3, <1>4, <1>5, <1>6, <1>7, <1>8, <1>9, <1>10, KidsAreThreads
  DEF Next, Turn, ParentTurn, ChildTurn, Failure, ParentEndsTurn, ChildEndsTurn, Statuses,
      Outcomes, StartConflict, SendRequest, SaveCheckpoint, SendFails, OpenGroup, DispatchChild,
      PublishReport, HandlerReturns, DropReport, HandleReport, ReportConflict, CountResults,
      RecountResults, Crash, threadVars

CmdOK == cmds \subseteq Commands /\ job \in [Threads -> Commands]

(* What the handlers publish are commands. *)
LEMMA CommandsAreTyped ==
  /\ NoJob \in Commands /\ Recover \in Commands
  /\ \A t \in Threads : Start(t) \in Commands
  /\ \A k \in Kids, to \in {"dispatch", "owner", "dead"}, outcome \in Outcomes :
       Report(k, to, outcome) \in Commands
  BY KidsAreThreads DEF NoJob, Recover, Start, Report, Commands, Outcomes

(* A child that reports has an outcome, and Route a subject to send it to. *)
LEMMA OutcomeIsTyped ==
  ASSUME NEW k \in Kids, Shape, PublishReport(k)
  PROVE  OutcomeOf(k) \in Outcomes /\ Route \in {"dispatch", "owner", "dead"}
  BY DEF Shape, PublishReport, OutcomeOf, Outcomes, Route, At

(* Every handler leaves commands in the stream and in the actors' hands. *)
LEMMA CmdNext == TypeOK /\ Shape /\ [Next]_vars => CmdOK'
<1> SUFFICES ASSUME CmdOK, Shape, Next, UNCHANGED <<cmds, job>> => FALSE PROVE CmdOK'
  BY DEF TypeOK, CmdOK, vars
<1> USE KidsAreThreads, CommandsAreTyped
<1>1. ASSUME NEW t \in Threads, Return(t) \/ ReturnError(t) PROVE CmdOK'
  BY <1>1 DEF Return, ReturnError, CmdOK
<1>2. ASSUME NEW t \in Threads, HandleStart(t) \/ RecoverThread(t) PROVE CmdOK'
  BY <1>2 DEF HandleStart, RecoverThread, CmdOK
<1>3. ASSUME NEW t \in Threads, Crash(t) \/ StartConflict(t) PROVE CmdOK'
  BY <1>3 DEF Crash, StartConflict, CmdOK, threadVars
<1>4. ASSUME NEW k \in Kids, DispatchChild(k) PROVE CmdOK'
  BY <1>4 DEF DispatchChild, CmdOK, threadVars
<1>5. ASSUME NEW k \in Kids, PublishReport(k) PROVE CmdOK'
  BY <1>5, OutcomeIsTyped DEF PublishReport, CmdOK
<1>6. ASSUME NEW m \in Reports, DropReport(m) \/ HandleReport(m) \/ ReportConflict(m)
      PROVE CmdOK'
  BY <1>6 DEF DropReport, HandleReport, ReportConflict, Reports, CmdOK, threadVars
<1>7. CASE ReleaseWaiting
  BY <1>7 DEF ReleaseWaiting, CmdOK
<1>8. QED
  BY <1>1, <1>2, <1>3, <1>4, <1>5, <1>6, <1>7
  DEF Next, Turn, ParentTurn, ChildTurn, Failure, ParentEndsTurn, ChildEndsTurn,
      SendRequest, SaveCheckpoint, ResponseCreated, ClearInvocation, HandlerReturns, Resume,
      RecountResults, ReplayCheckpoint, MissingCheckpoint, SendFails, RetriesExhausted,
      RemoteError, OpenGroup, WaitForChildren, EndTurn, ChildCallsTool, SubmitToolOutput,
      CountResults, threadVars

MemOK == /\ pc \in [Threads -> Places]
         /\ ask \in [Threads -> Requests] /\ ckpt \in [Threads -> Requests]

(* The requests a turn can send. *)
LEMMA RequestsAreTyped == /\ NoRequest \in Requests /\ OwnInput \in Requests
                          /\ Groups \subseteq Requests
  BY DEF Requests

(* While the bound on groups is not used up, the next one is a group. *)
LEMMA NextGroupIsGroup ==
  ASSUME budget.groups \in 0..MaxGroups, budget.groups > 0
  PROVE  NextGroup \in Groups
  BY DEF NextGroup, Groups

(* Every handler leaves the actors' memory and the checkpoints well typed. *)
LEMMA MemNext == TypeOK /\ Shape /\ [Next]_vars => MemOK'
<1> SUFFICES ASSUME MemOK, Shape, Next, UNCHANGED <<pc, ask, ckpt>> => FALSE PROVE MemOK'
  BY DEF TypeOK, MemOK, vars
<1> USE KidsAreThreads, RequestsAreTyped DEF MemOK, Goto, Places
<1>1. ASSUME NEW t \in Threads, Return(t) \/ ReturnError(t), UNCHANGED ckpt PROVE MemOK'
  BY <1>1 DEF Return, ReturnError
<1>2. ASSUME NEW t \in Threads, HandleStart(t) \/ RecoverThread(t) \/ Crash(t) PROVE MemOK'
  BY <1>2 DEF HandleStart, RecoverThread, Crash
<1>3. ASSUME NEW t \in Threads, SendRequest(t) \/ SaveCheckpoint(t) PROVE MemOK'
  BY <1>3 DEF SendRequest, SaveCheckpoint
<1>4. ASSUME NEW t \in Threads, ClearInvocation(t) \/ Resume(t) \/ ReplayCheckpoint(t)
      PROVE MemOK'
  BY <1>4 DEF ClearInvocation, Resume, ReplayCheckpoint
<1>5. ASSUME NEW t \in Threads, RecountResults(t) PROVE MemOK'
  BY <1>5 DEF RecountResults, Shape, At
<1>6. CASE OpenGroup
  BY <1>6, NextGroupIsGroup DEF OpenGroup, Shape, Spend
<1>7. CASE WaitForChildren
  BY <1>7 DEF WaitForChildren
<1>8. CASE CountResults
  BY <1>8 DEF CountResults, Shape, At
<1>9. ASSUME NEW t \in Threads, NEW status \in Statuses, EndTurn(t, status) PROVE MemOK'
  BY <1>9 DEF EndTurn
<1>10. ASSUME NEW k \in Kids, ChildCallsTool(k) \/ SubmitToolOutput(k) \/ PublishReport(k)
       PROVE MemOK'
  BY <1>10 DEF ChildCallsTool, SubmitToolOutput, PublishReport
<1>11. ASSUME NEW m \in Reports, HandleReport(m) PROVE MemOK'
  BY <1>11 DEF HandleReport
<1> HIDE DEF MemOK, Goto, Places
<1>12. QED
  BY ZenonT(40), <1>1, <1>2, <1>3, <1>4, <1>5, <1>6, <1>7, <1>8, <1>9, <1>10, <1>11
  DEF Next, Turn, ParentTurn, ChildTurn, Failure, ParentEndsTurn, ChildEndsTurn, Statuses,
      Outcomes, ResponseCreated, HandlerReturns, MissingCheckpoint, SendFails,
      RetriesExhausted, RemoteError, StartConflict, DispatchChild, DropReport,
      ReportConflict, ReleaseWaiting, threadVars

(* The bounds of the model: what is left of them are integers. *)
BudgetOK == budget \in [groups : Int, crashes : Int, releases : Int, tools : Int,
                        redeliveries : Int, failures : Int]
Pools == {"groups", "crashes", "releases", "tools", "redeliveries", "failures"}

(* Spending takes from one bound, and from that of the groups only when    *)
(* there is some left.                                                     *)
LEMMA Spending ==
  ASSUME BudgetOK, NEW what \in Pools, Spend(what)
  PROVE  /\ BudgetOK'
         /\ what # "groups" => budget'.groups = budget.groups
         /\ what = "groups" => budget.groups > 0 /\ budget'.groups = budget.groups - 1
<1>1. CASE what = "groups"
  BY <1>1 DEF BudgetOK, Spend
<1>2. CASE what = "crashes"
  BY <1>2 DEF BudgetOK, Spend
<1>3. CASE what = "releases"
  BY <1>3 DEF BudgetOK, Spend
<1>4. CASE what = "tools"
  BY <1>4 DEF BudgetOK, Spend
<1>5. CASE what = "redeliveries"
  BY <1>5 DEF BudgetOK, Spend
<1>6. CASE what = "failures"
  BY <1>6 DEF BudgetOK, Spend
<1>7. QED
  BY <1>1, <1>2, <1>3, <1>4, <1>5, <1>6 DEF Pools

(* Only OpenGroup uses up a group. *)
LEMMA BudgetNext ==
  BudgetOK /\ [Next]_vars =>
    /\ BudgetOK'
    /\ OpenGroup \/ budget'.groups = budget.groups
<1> SUFFICES ASSUME BudgetOK, Next
             PROVE  BudgetOK' /\ (OpenGroup \/ budget'.groups = budget.groups)
  BY DEF BudgetOK, vars
<1>1. CASE OpenGroup
  BY <1>1, Spending DEF OpenGroup, Pools
<1>2. CASE UNCHANGED budget
  BY <1>2 DEF BudgetOK
<1>3. ASSUME NEW what \in Pools \ {"groups"}, Spend(what)
      PROVE  BudgetOK' /\ budget'.groups = budget.groups
  BY <1>3, Spending
<1>4. \A what \in {"crashes", "releases", "tools", "redeliveries", "failures"} :
        what \in Pools \ {"groups"}
  BY DEF Pools
<1>5. QED
  BY <1>1, <1>2, <1>3, <1>4
  DEF Next, Turn, ParentTurn, ChildTurn, Failure, ParentEndsTurn, ChildEndsTurn, HandleStart,
      Deliver, RecoverThread, SendRequest, SaveCheckpoint, ResponseCreated, ClearInvocation,
      HandlerReturns, Resume, RecountResults, ReplayCheckpoint, MissingCheckpoint, SendFails,
      RetriesExhausted, RemoteError, Crash, StartConflict, DispatchChild, WaitForChildren,
      EndTurn, CountResults, ChildCallsTool, SubmitToolOutput, PublishReport, DropReport,
      HandleReport, ReportConflict, ReleaseWaiting

SetsOK == /\ result \in [Kids -> Outcomes \cup {"absent", "pending"}]
          /\ submitted \subseteq Groups /\ sent \subseteq Groups
          /\ seat \subseteq Threads /\ tried \subseteq Threads

(* Every handler records results of children, and groups in submitted and  *)
(* sent.                                                                   *)
LEMMA SetsNext == TypeOK /\ Shape /\ [Next]_vars => SetsOK'
<1> SUFFICES ASSUME SetsOK, Shape, Next,
                    UNCHANGED <<result, submitted, sent, seat, tried>> => FALSE
             PROVE  SetsOK'
  BY DEF TypeOK, SetsOK, vars
<1> USE KidsAreThreads DEF SetsOK
<1>1. ASSUME NEW t \in Threads,
             \/ HandleStart(t) \/ RecoverThread(t) \/ SendRequest(t) \/ HandlerReturns(t)
             \/ Resume(t) \/ MissingCheckpoint(t)
      PROVE  SetsOK'
  BY <1>1 DEF HandleStart, Deliver, RecoverThread, SendRequest, HandlerReturns, Resume,
              MissingCheckpoint
<1>2. ASSUME NEW t \in Threads, RecountResults(t) PROVE SetsOK'
  BY <1>2 DEF RecountResults, Shape, At
<1>3. ASSUME NEW t \in Threads,
             SendFails(t) \/ RetriesExhausted(t) \/ RemoteError(t) \/ Crash(t)
      PROVE  SetsOK'
  BY <1>3 DEF SendFails, RetriesExhausted, RemoteError, Crash
<1>4. CASE OpenGroup
  BY <1>4 DEF OpenGroup
<1>5. CASE CountResults
  BY <1>5 DEF CountResults, Shape, At
<1>6. ASSUME NEW k \in Kids, SubmitToolOutput(k) PROVE SetsOK'
  BY <1>6 DEF SubmitToolOutput
<1>7. ASSUME NEW m \in Reports, HandleReport(m) \/ ReportConflict(m) PROVE SetsOK'
  <2>1. m.thread \in Kids /\ m.outcome \in Outcomes
    BY <1>7 DEF Reports, Shape
  <2>2. Recorded(m) \in [Kids -> Outcomes \cup {"absent", "pending"}]
    BY <2>1 DEF Recorded
  <2>3. QED
    BY <1>7, <2>1, <2>2 DEF HandleReport, ReportConflict, threadVars
<1>8. CASE ReleaseWaiting
  BY <1>8 DEF ReleaseWaiting
<1> HIDE DEF SetsOK
<1>9. QED
  BY <1>1, <1>2, <1>3, <1>4, <1>5, <1>6, <1>7, <1>8
  DEF Next, Turn, ParentTurn, ChildTurn, Failure, ParentEndsTurn, ChildEndsTurn,
      SaveCheckpoint, ResponseCreated, ClearInvocation, ReplayCheckpoint, StartConflict,
      DispatchChild, WaitForChildren, EndTurn, ChildCallsTool, PublishReport, DropReport,
      threadVars

(* The type invariant is preserved. *)
LEMMA TypeNext ==
  TypeOK /\ Shape /\ [Next]_vars => TypeOK'
  BY RowNext, CmdNext, MemNext, SetsNext DEF TypeOK, RowOK, CmdOK, MemOK, SetsOK

(* A child that was not dispatched. *)
Unborn(k) == row[k].status = "new" /\ pc[k] = "idle" /\ \A m \in cmds : m.thread # k
(* A group that was not opened has no rows in spawn_group_children, and a  *)
(* child without a row has not run: it is new, idle, and no command names  *)
(* it.                                                                     *)
Births ==
  \A k \in Kids : /\ k[1] >= NextGroup => result[k] = "absent"
                  /\ result[k] = "absent" => Unborn(k)

(* A step replaces no outcome that is recorded, and takes no row away. *)
ResultSteps ==
  /\ \A k \in Kids : result[k] \in Outcomes => result'[k] = result[k]
  /\ \A k \in Kids : result[k] # "absent" => result'[k] # "absent"

(* Every step is such a step: OpenGroup writes rows of a new group only,   *)
(* and UpsertSpawnResult keeps the first outcome.                          *)
LEMMA ResultNext == TypeOK /\ Shape /\ Births /\ [Next]_vars => ResultSteps
<1> SUFFICES ASSUME TypeOK, Shape, Births, Next, result' # result PROVE ResultSteps
  BY DEF ResultSteps, vars
<1> USE KidsAreThreads DEF ResultSteps
<1>1. CASE OpenGroup
  <2>1. NextGroup \in Groups
    BY <1>1, NextGroupIsGroup DEF OpenGroup, Shape, Spend
  <2>2. \A k \in KidsOf(NextGroup) : k \in Kids /\ result[k] = "absent"
    BY <2>1 DEF Births, Groups
  <2>3. QED
    BY <1>1, <2>2 DEF OpenGroup, Outcomes
<1>2. ASSUME NEW m \in Reports, HandleReport(m) \/ ReportConflict(m) PROVE ResultSteps
  <2>1. m.outcome \in Outcomes
    BY <1>2 DEF Reports, Shape
  <2>2. QED
    BY <1>2, <2>1 DEF HandleReport, ReportConflict, Recorded, Outcomes, TypeOK
<1> HIDE DEF ResultSteps
<1>3. QED
  BY <1>1, <1>2
  DEF Next, Turn, ParentTurn, ChildTurn, Failure, ParentEndsTurn, ChildEndsTurn, HandleStart,
      RecoverThread, SendRequest, SaveCheckpoint, ResponseCreated, ClearInvocation,
      HandlerReturns, Resume, RecountResults, ReplayCheckpoint, MissingCheckpoint, SendFails,
      RetriesExhausted, RemoteError, Crash, StartConflict, DispatchChild, WaitForChildren,
      EndTurn, CountResults, ChildCallsTool, SubmitToolOutput, PublishReport, DropReport,
      ReleaseWaiting

(* A barrier that is closed stays closed. *)
LEMMA ClosedStays ==
  ASSUME ResultSteps, NEW g \in Groups, Closed(g)
  PROVE  Closed(g)'
  BY KidsAreThreads DEF ResultSteps, Closed

(* Shape is preserved. *)
LEMMA ShapeNext ==
  TypeOK /\ BudgetOK /\ Shape /\ Births /\ [Next]_vars => Shape'
<1> SUFFICES ASSUME TypeOK, BudgetOK, Shape, Next, ResultSteps, Births PROVE Shape'
  BY ResultNext DEF Shape, vars
<1>budget. budget'.groups \in 0..MaxGroups
  <2>1. CASE OpenGroup
    BY <2>1, Spending DEF OpenGroup, Pools, Shape
  <2>2. QED
    BY <2>1, BudgetNext DEF Shape
<1>types. TypeOK'
  BY TypeNext
<1> USE <1>budget, <1>types, KidsAreThreads DEF Shape, ResultSteps, At, Idle, Goto, Outcomes, TypeOK
<1>1. ASSUME NEW t \in Threads, HandleStart(t) PROVE Shape'
  BY <1>1 DEF HandleStart
<1>2. ASSUME NEW t \in Threads, RecoverThread(t) PROVE Shape'
  BY <1>2 DEF RecoverThread, NeedsBarrier, Rows, Groups
<1>3. ASSUME NEW t \in Threads, SendRequest(t) \/ SaveCheckpoint(t) \/ ResponseCreated(t) PROVE Shape'
  BY <1>3 DEF SendRequest, SaveCheckpoint, ResponseCreated
<1>4. ASSUME NEW t \in Threads, ClearInvocation(t) PROVE Shape'
  BY <1>4 DEF ClearInvocation
<1>5. ASSUME NEW t \in Threads,
             \/ HandlerReturns(t) \/ MissingCheckpoint(t) \/ SendFails(t)
             \/ RetriesExhausted(t) \/ RemoteError(t)
      PROVE  Shape'
  BY <1>5 DEF HandlerReturns, MissingCheckpoint, SendFails, RetriesExhausted, RemoteError,
              Return, ReturnError
<1>6. ASSUME NEW t \in Threads, Resume(t) \/ ReplayCheckpoint(t) PROVE Shape'
  BY <1>6 DEF Resume, ReplayCheckpoint
<1>7. ASSUME NEW t \in Threads, RecountResults(t) PROVE Shape'
  BY <1>7 DEF RecountResults
<1>8. ASSUME NEW t \in Threads, Crash(t) \/ StartConflict(t) PROVE Shape'
  BY <1>8 DEF Crash, StartConflict, threadVars
<1>9. CASE OpenGroup
  BY <1>9, NextGroupIsGroup DEF OpenGroup, Spend
<1>10. ASSUME NEW k \in Kids, DispatchChild(k) PROVE Shape'
  BY <1>10 DEF DispatchChild, threadVars, Start
<1>11. CASE WaitForChildren
  BY <1>11 DEF WaitForChildren
<1>12. CASE CountResults
  BY <1>12 DEF CountResults
<1>13. ASSUME NEW t \in Threads, NEW status \in Statuses, EndTurn(t, status),
              t = Parent \/ status \in Outcomes PROVE Shape'
  BY <1>13 DEF EndTurn
<1>14. ASSUME NEW k \in Kids, ChildCallsTool(k) \/ SubmitToolOutput(k) PROVE Shape'
  <2>1. CASE ChildCallsTool(k)
    <3>1. row'[k].status = "waiting_tool" /\ row'[k].group = row[k].group
      BY <2>1 DEF ChildCallsTool, Rows
    <3>2. \A t \in Threads \ {k} : row'[t] = row[t] /\ pc'[t] = pc[t]
      BY <2>1 DEF ChildCallsTool
    <3>3. pc'[k] \in {"publish", "return"} /\ UNCHANGED <<cmds, ask, job, result>>
      BY <2>1 DEF ChildCallsTool
    <3>4. Parent \in Threads \ {k} /\ \A j \in Kids \ {k} : j \in Threads \ {k}
      OBVIOUS
    <3> HIDE DEF TypeOK, ResultSteps
    <3>5. QED
      BY <3>1, <3>2, <3>3, <3>4
  <2>2. CASE SubmitToolOutput(k)
    BY <2>2 DEF SubmitToolOutput
  <2>3. QED
    BY <1>14, <2>1, <2>2
<1>15. ASSUME NEW k \in Kids, PublishReport(k) PROVE Shape'
  <2>1. OutcomeOf(k) \in Outcomes
    BY <1>15, OutcomeIsTyped
  <2>2. \A m \in cmds' : m \in cmds \/ (m.thread = k /\ m.outcome = OutcomeOf(k))
    BY <1>15 DEF PublishReport, Report
  <2>3. QED
    BY <1>15, <2>1, <2>2 DEF PublishReport
<1>16. ASSUME NEW m \in Reports, DropReport(m) \/ ReportConflict(m) PROVE Shape'
  BY <1>16 DEF DropReport, ReportConflict, threadVars
<1>17. ASSUME NEW m \in Reports, HandleReport(m) PROVE Shape'
  BY <1>17 DEF HandleReport, Reports
<1>18. CASE ReleaseWaiting
  BY <1>18 DEF ReleaseWaiting
<1> HIDE DEF Shape, ResultSteps, At, Idle, Goto, Outcomes, TypeOK
<1>19. QED
  BY <1>1, <1>2, <1>3, <1>4, <1>5, <1>6, <1>7, <1>8, <1>9, <1>10, <1>11, <1>12, <1>13,
     <1>14, <1>15, <1>16, <1>17, <1>18
  DEF Next, Turn, ParentTurn, ChildTurn, Failure, ParentEndsTurn, ChildEndsTurn, Outcomes,
      Statuses

(* Child k has no row and has not run after the step either. *)
KeptUnborn(k) == Unborn(k)' /\ result'[k] = "absent"

(* Only OpenGroup brings a child to life: a start goes out only to a child *)
(* that has a row, and no other handler touches a child that is new.       *)
LEMMA StaysUnborn ==
  ASSUME TypeOK, Shape, Next, ~OpenGroup, NEW k \in Kids, result[k] = "absent", Unborn(k)
  PROVE  KeptUnborn(k)
<1> USE KidsAreThreads, ParentIsNoChild DEF KeptUnborn, Unborn, TypeOK, At, Idle, Goto
<1>1. ASSUME NEW t \in Threads, HandleStart(t) PROVE KeptUnborn(k)
  BY <1>1 DEF HandleStart, Start
<1>2. ASSUME NEW t \in Threads, RecoverThread(t) PROVE KeptUnborn(k)
  BY <1>2 DEF RecoverThread
<1>3. ASSUME NEW t \in Threads,
             \/ SendRequest(t) \/ SaveCheckpoint(t) \/ ResponseCreated(t)
             \/ Resume(t) \/ ReplayCheckpoint(t)
      PROVE  KeptUnborn(k)
  BY <1>3 DEF SendRequest, SaveCheckpoint, ResponseCreated, Resume, ReplayCheckpoint
<1>4. ASSUME NEW t \in Threads, ClearInvocation(t) PROVE KeptUnborn(k)
  BY <1>4 DEF ClearInvocation
<1>5. ASSUME NEW t \in Threads, RecountResults(t) PROVE KeptUnborn(k)
  BY <1>5 DEF RecountResults
<1>6. ASSUME NEW t \in Threads,
             \/ HandlerReturns(t) \/ MissingCheckpoint(t) \/ SendFails(t)
             \/ RetriesExhausted(t) \/ RemoteError(t)
      PROVE  KeptUnborn(k)
  BY <1>6 DEF HandlerReturns, MissingCheckpoint, SendFails, RetriesExhausted, RemoteError,
              Return, ReturnError
<1>7. ASSUME NEW t \in Threads, Crash(t) \/ StartConflict(t) PROVE KeptUnborn(k)
  BY <1>7 DEF Crash, StartConflict, threadVars
<1>8. ASSUME NEW j \in Kids, DispatchChild(j) PROVE KeptUnborn(k)
  <2>1. j # k
    BY <1>8 DEF DispatchChild, Undispatched, Shape
  <2>2. QED
    BY <1>8, <2>1 DEF DispatchChild, Start, threadVars
<1>9. CASE WaitForChildren \/ CountResults
  BY <1>9 DEF WaitForChildren, CountResults
<1>10. ASSUME NEW t \in Threads, NEW status \in Statuses, EndTurn(t, status) PROVE KeptUnborn(k)
  BY <1>10 DEF EndTurn
<1>11. ASSUME NEW j \in Kids, ChildCallsTool(j) \/ SubmitToolOutput(j) PROVE KeptUnborn(k)
  BY <1>11 DEF ChildCallsTool, SubmitToolOutput
<1>12. ASSUME NEW j \in Kids, PublishReport(j) PROVE KeptUnborn(k)
  BY <1>12 DEF PublishReport, Report
<1>13. ASSUME NEW m \in Reports, DropReport(m) \/ HandleReport(m) \/ ReportConflict(m)
       PROVE  KeptUnborn(k)
  BY <1>13 DEF DropReport, HandleReport, ReportConflict, Recorded, Reports, threadVars
<1>14. CASE ReleaseWaiting
  BY <1>14 DEF ReleaseWaiting
<1> HIDE DEF KeptUnborn, Unborn, TypeOK, At, Idle, Goto
<1>15. QED
  BY <1>1, <1>2, <1>3, <1>4, <1>5, <1>6, <1>7, <1>8, <1>9, <1>10, <1>11, <1>12, <1>13, <1>14
  DEF Next, Turn, ParentTurn, ChildTurn, Failure, ParentEndsTurn, ChildEndsTurn,
      Statuses, Outcomes

(* Births is preserved. *)
LEMMA BirthsNext ==
  TypeOK /\ BudgetOK /\ Shape /\ Births /\ [Next]_vars => Births'
<1> SUFFICES ASSUME TypeOK, BudgetOK, Shape, Births, Next, ResultSteps PROVE Births'
  BY ResultNext DEF Births, Unborn, NextGroup, vars
<1> USE KidsAreThreads DEF Births, Unborn, TypeOK, At, Idle, Goto
<1>next. OpenGroup \/ NextGroup' = NextGroup
  BY BudgetNext DEF NextGroup
<1>1. CASE OpenGroup
  <2>1. budget.groups > 0 /\ budget'.groups = budget.groups - 1
    BY <1>1, Spending DEF OpenGroup, Pools
  <2>2. NextGroup \in Groups /\ NextGroup' = NextGroup + 1
    BY <2>1, NextGroupIsGroup DEF Shape, NextGroup
  <2>3. ASSUME NEW k \in Kids
        PROVE  /\ k[1] >= NextGroup' => result'[k] = "absent"
               /\ result'[k] = "absent" => result[k] = "absent"
    BY <1>1, <2>2 DEF OpenGroup, Groups
  <2>4. ASSUME NEW k \in Kids, result[k] = "absent" PROVE Unborn(k)'
    BY <1>1, <2>4 DEF OpenGroup
  <2>5. QED
    BY <2>3, <2>4
<1>2. CASE ~OpenGroup
  <2>1. \A k \in Kids : result[k] = "absent" => Unborn(k)' /\ result'[k] = "absent"
    BY <1>2, StaysUnborn DEF KeptUnborn
  <2>2. QED
    BY <1>next, <1>2, <2>1 DEF ResultSteps
<1>3. QED
  BY <1>1, <1>2

(* Places between the decision to send a request and its checkpoint's use. *)
Sends == {"resume", "submit", "checkpoint", "stream"}
(* Wherever an aggregate is found on its way, in the memory of an actor    *)
(* that sends it, in a checkpoint that would replay it, or at OpenAI, its  *)
(* group has closed.                                                       *)
Whole ==
  /\ \A g \in sent : Closed(g)
  /\ \A t \in Threads : /\ ckpt[t] \in Groups => Closed(ckpt[t])
                        /\ pc[t] \in Sends /\ ask[t] \in Groups => Closed(ask[t])

(* Neither the thread's own input nor a missing request is an aggregate. *)
LEMMA RequestsAreNoGroups == NoRequest \notin Groups /\ OwnInput \notin Groups
  BY DEF NoRequest, OwnInput, Groups

(* Whole is preserved: a request enters an actor's memory from a count     *)
(* that found the barrier closed, or from a checkpoint, and the barrier    *)
(* stays closed.                                                           *)
LEMMA WholeNext ==
  TypeOK /\ Shape /\ Births /\ Whole /\ [Next]_vars => Whole'
<1> SUFFICES ASSUME TypeOK, Shape, Whole, Next, ResultSteps PROVE Whole'
  BY ResultNext DEF Whole, Closed, vars
<1>closed. \A g \in Groups : Closed(g) => Closed(g)'
  BY ClosedStays
<1> USE <1>closed, KidsAreThreads, RequestsAreNoGroups DEF Whole, Sends, TypeOK, At, Idle, Goto
<1>1. ASSUME NEW t \in Threads, HandleStart(t) PROVE Whole'
  BY <1>1 DEF HandleStart
<1>2. ASSUME NEW t \in Threads, RecoverThread(t) PROVE Whole'
  BY <1>2 DEF RecoverThread
<1>3. ASSUME NEW t \in Threads, SendRequest(t) PROVE Whole'
  BY <1>3 DEF SendRequest
<1>4. ASSUME NEW t \in Threads, SaveCheckpoint(t) PROVE Whole'
  BY <1>4 DEF SaveCheckpoint
<1>5. ASSUME NEW t \in Threads, ResponseCreated(t) \/ ClearInvocation(t) \/ Resume(t)
      PROVE  Whole'
  BY <1>5 DEF ResponseCreated, ClearInvocation, Resume
<1>6. ASSUME NEW t \in Threads, ReplayCheckpoint(t) PROVE Whole'
  BY <1>6 DEF ReplayCheckpoint
<1>7. ASSUME NEW t \in Threads, RecountResults(t) PROVE Whole'
  BY <1>7 DEF RecountResults, Shape
<1>8. ASSUME NEW t \in Threads,
             \/ HandlerReturns(t) \/ MissingCheckpoint(t) \/ SendFails(t)
             \/ RetriesExhausted(t) \/ RemoteError(t)
      PROVE  Whole'
  BY <1>8 DEF HandlerReturns, MissingCheckpoint, SendFails, RetriesExhausted, RemoteError,
              Return, ReturnError
<1>9. ASSUME NEW t \in Threads, Crash(t) \/ StartConflict(t) PROVE Whole'
  BY <1>9 DEF Crash, StartConflict, threadVars
<1>10. CASE OpenGroup
  BY <1>10 DEF OpenGroup
<1>11. ASSUME NEW k \in Kids, DispatchChild(k) PROVE Whole'
  BY <1>11 DEF DispatchChild, threadVars
<1>12. CASE WaitForChildren
  BY <1>12 DEF WaitForChildren
<1>13. CASE CountResults
  BY <1>13 DEF CountResults, Shape
<1>14. ASSUME NEW t \in Threads, NEW status, EndTurn(t, status) PROVE Whole'
  BY <1>14 DEF EndTurn
<1>15. ASSUME NEW k \in Kids, ChildCallsTool(k) \/ SubmitToolOutput(k) \/ PublishReport(k)
       PROVE  Whole'
  BY <1>15 DEF ChildCallsTool, SubmitToolOutput, PublishReport
<1>16. ASSUME NEW m \in Reports, DropReport(m) \/ HandleReport(m) \/ ReportConflict(m)
       PROVE  Whole'
  BY <1>16 DEF DropReport, HandleReport, ReportConflict, threadVars
<1>17. CASE ReleaseWaiting
  BY <1>17 DEF ReleaseWaiting
<1> HIDE DEF Whole, Sends, TypeOK, At, Idle, Goto
<1>18. QED
  BY <1>1, <1>2, <1>3, <1>4, <1>5, <1>6, <1>7, <1>8, <1>9, <1>10, <1>11, <1>12, <1>13,
     <1>14, <1>15, <1>16, <1>17
  DEF Next, Turn, ParentTurn, ChildTurn, Failure, ParentEndsTurn, ChildEndsTurn

(* The inductive invariant. *)
IInv == TypeOK /\ BudgetOK /\ Shape /\ Births /\ Whole

(* It holds at first. *)
LEMMA InitIInv == Init => IInv
<1> SUFFICES ASSUME Init PROVE IInv
  OBVIOUS
<1> USE KidsAreThreads DEF Init
<1>1. TypeOK
  <2>1. NewRow(0) \in Rows /\ \A g \in Groups : NewRow(g) \in Rows
    BY DEF NewRow, Rows, Statuses, Groups
  <2>2. \A t \in Threads : t # Parent => t \in Kids
    BY DEF Threads
  <2>3. row \in [Threads -> Rows]
    BY <2>1, <2>2
  <2>4. QED
    BY <2>3, CommandsAreTyped, RequestsAreTyped DEF TypeOK, Places, Outcomes
<1>2. BudgetOK
  BY DEF BudgetOK
<1>3. Shape
  BY DEF Shape, Start
<1>4. Births
  <2>1. \A k \in Kids : row[k].status = "new"
    BY DEF NewRow
  <2>2. \A m \in cmds : m.thread = Parent
    BY DEF Start
  <2>3. ASSUME NEW k \in Kids PROVE result[k] = "absent" /\ Unborn(k)
    BY <2>1, <2>2, ParentIsNoChild DEF Unborn
  <2>4. QED
    BY <2>3 DEF Births
<1>5. Whole
  BY RequestsAreNoGroups DEF Whole, Sends
<1>6. QED
  BY <1>1, <1>2, <1>3, <1>4, <1>5 DEF IInv

(* It is preserved by every step. *)
LEMMA IInvNext == IInv /\ [Next]_vars => IInv'
  BY TypeNext, BudgetNext, ShapeNext, BirthsNext, WholeNext DEF IInv

(* It holds always. *)
LEMMA IInvHolds == Spec => []IInv
<1>1. QED
  BY InitIInv, IInvNext, PTL DEF Spec

(* The type invariant, for any number of children, groups, crashes,        *)
(* releases, redeliveries and failures.                                    *)
THEOREM TypeCorrect == Spec => []TypeOK
<1>1. IInv => TypeOK
  BY DEF IInv
<1>2. QED
  BY <1>1, IInvHolds, PTL

(* handleChildResult and recoverWaitingChildren never send the aggregate   *)
(* of a group before every child of the group has an outcome on record,    *)
(* whatever crashes and whatever is delivered twice, to another worker, or *)
(* not at all.                                                             *)
THEOREM BarrierOpensWhole == Spec => []AggregateIsWhole
<1>1. IInv => AggregateIsWhole
  BY DEF IInv, Whole, AggregateIsWhole
<1>2. QED
  BY <1>1, IInvHolds, PTL

(* UpsertSpawnResult: an outcome on record is never replaced, by a later   *)
(* report, by a redelivery, or by a group that is opened anew.             *)
THEOREM OutcomesStay == Spec => OutcomesAreFinal
<1>1. IInv /\ [Next]_vars
        => [\A k \in Kids : result[k] \in Outcomes => result'[k] = result[k]]_result
  BY ResultNext DEF IInv, ResultSteps
<1>2. QED
  BY <1>1, IInvHolds, PTL DEF Spec, OutcomesAreFinal
-----------------------------------------------------------------------------
(* What the parent relies on when it waits: a child that was tried, has a  *)
(* seat or is named by a start in somebody's hands is no longer new; a     *)
(* parent that waits has a group, and that group's children are all on     *)
(* their way, also while the parent runs again, for a crash may take it    *)
(* back to its barrier.                                                    *)
UnderWay(k) == row[k].status # "new" \/ Start(k) \in cmds

Dispatched ==
  /\ \A k \in Kids : /\ k \in tried \/ k \in seat => row[k].status # "new"
                     /\ \A t \in Threads : job[t] = Start(k) => row[k].status # "new"
  /\ pc[Parent] = "clear" => ~Waits
  /\ Waits => row[Parent].group \in Groups
  /\ row[Parent].group \in Groups => \A k \in KidsOf(row[Parent].group) : UnderWay(k)

(* No handler makes a thread new again. *)
LEMMA NewNoMore ==
  ASSUME TypeOK, Next, NEW t \in Threads, row'[t].status = "new"
  PROVE  row[t].status = "new"
<1>0. row[t] \in Rows /\ row \in [Threads -> Rows]
  BY DEF TypeOK
<1>u. CASE row'[t] = row[t]
  BY <1>u
<1> SUFFICES ASSUME row'[t] # row[t] PROVE row[t].status = "new"
  BY <1>u
<1>1. CASE HandleStart(t) \/ Resume(t)
  BY <1>0, <1>1 DEF HandleStart, Resume, Rows
<1>2. CASE RecoverThread(t)
  BY <1>0, <1>2 DEF RecoverThread, Rows
<1>3. CASE ResponseCreated(t)
  BY <1>0, <1>3 DEF ResponseCreated, Rows
<1>4. CASE ReplayCheckpoint(t)
  BY <1>0, <1>4 DEF ReplayCheckpoint, Rows
<1>5. CASE ClearInvocation(t)
  <2>1. row'[t] = [row[t] EXCEPT !.group = 0, !.owned = (t = Parent) /\ row[t].owned]
    BY <1>0, <1>5 DEF ClearInvocation
  <2>2. row'[t].status = row[t].status
    BY <1>0, <2>1 DEF Rows
  <2>3. QED
    BY <2>2
<1>6. CASE MissingCheckpoint(t) \/ RetriesExhausted(t) \/ RemoteError(t)
  BY <1>0, <1>6 DEF MissingCheckpoint, RetriesExhausted, RemoteError, Rows
<1>7. CASE WaitForChildren \/ ReleaseWaiting
  <2>1. t = Parent
    BY <1>0, <1>7 DEF WaitForChildren, ReleaseWaiting
  <2>2. QED
    BY <1>0, <1>7, <2>1 DEF WaitForChildren, ReleaseWaiting, Waits, Rows
<1>8. ASSUME NEW status \in {"ready", "failed", "completed"}, EndTurn(t, status)
      PROVE  row[t].status = "new"
  BY <1>0, <1>8 DEF EndTurn, Rows
<1>9. CASE ChildCallsTool(t) \/ SubmitToolOutput(t)
  BY <1>0, <1>9 DEF ChildCallsTool, SubmitToolOutput, Rows
<1>10. QED
  <2>1. ASSUME NEW s \in Threads,
               HandleStart(s) \/ Resume(s) \/ RecoverThread(s) \/ ResponseCreated(s)
               \/ ReplayCheckpoint(s) \/ ClearInvocation(s) \/ MissingCheckpoint(s)
               \/ RetriesExhausted(s) \/ RemoteError(s) \/ ChildCallsTool(s) \/ SubmitToolOutput(s)
        PROVE  s = t
    BY <1>0, <2>1 DEF HandleStart, Resume, RecoverThread, ResponseCreated, ReplayCheckpoint,
         ClearInvocation, MissingCheckpoint, RetriesExhausted, RemoteError, ChildCallsTool,
         SubmitToolOutput
  <2>2. ASSUME NEW s \in Threads, NEW status, EndTurn(s, status) PROVE s = t
    BY <1>0, <2>2 DEF EndTurn
  <2>3. CASE \E s \in Threads : HandleStart(s) \/ RecoverThread(s) \/ Turn(s)
    BY <2>1, <2>3, <1>1, <1>2, <1>3, <1>4, <1>5, <1>6 DEF Turn, SendRequest, SaveCheckpoint,
       HandlerReturns, RecountResults
  <2>4. CASE ParentTurn
    BY <2>2, <2>4, <1>7, <1>8, KidsAreThreads DEF ParentTurn, OpenGroup, DispatchChild, threadVars,
       CountResults, ParentEndsTurn
  <2>5. CASE \E k \in Kids : ChildTurn(k) \/ SubmitToolOutput(k)
    BY <2>1, <2>2, <2>5, <1>8, <1>9, KidsAreThreads DEF ChildTurn, ChildEndsTurn, PublishReport,
       Outcomes
  <2>6. CASE \E m \in Reports : DropReport(m) \/ HandleReport(m) \/ ReportConflict(m)
    BY <2>6 DEF DropReport, HandleReport, ReportConflict, threadVars
  <2>7. CASE Failure \/ ReleaseWaiting
    BY <2>1, <2>7, <1>6, <1>7 DEF Failure, SendFails, Crash, StartConflict, threadVars
  <2>8. QED
    BY <2>3, <2>4, <2>5, <2>6, <2>7 DEF Next

(* No handler acknowledges a start whose child is still new. *)
LEMMA StartStays ==
  ASSUME TypeOK, Shape, Dispatched, Next, NEW k \in Kids, Start(k) \in cmds, row[k].status = "new"
  PROVE  Start(k) \in cmds'
<1> USE KidsAreThreads DEF Dispatched, TypeOK
<1>r. ASSUME NEW t \in Threads, Return(t) \/ ReturnError(t) PROVE Start(k) \in cmds'
  BY <1>r DEF Return, ReturnError
<1>1. ASSUME NEW t \in Threads, HandleStart(t) \/ RecoverThread(t) \/ Turn(t)
      PROVE  Start(k) \in cmds'
  BY <1>1, <1>r DEF Turn, HandleStart, RecoverThread, SendRequest, SaveCheckpoint,
     ResponseCreated, ClearInvocation, Resume, RecountResults, ReplayCheckpoint, HandlerReturns,
     MissingCheckpoint
<1>2. CASE ParentTurn
  BY <1>2 DEF ParentTurn, OpenGroup, DispatchChild, WaitForChildren, ParentEndsTurn, EndTurn,
     CountResults
<1>3. ASSUME NEW c \in Kids, ChildTurn(c) \/ SubmitToolOutput(c) PROVE Start(k) \in cmds'
  BY <1>3 DEF ChildTurn, ChildEndsTurn, EndTurn, ChildCallsTool, PublishReport, SubmitToolOutput
<1>4. ASSUME NEW m \in Reports, DropReport(m) \/ HandleReport(m) \/ ReportConflict(m)
      PROVE  Start(k) \in cmds'
  <2>1. m # Start(k)
    BY <1>4 DEF Reports, Start
  <2>2. QED
    BY <1>4, <2>1 DEF DropReport, HandleReport, ReportConflict
<1>5. CASE Failure
  <2>1. ASSUME NEW t \in Threads, SendFails(t) \/ RetriesExhausted(t) \/ RemoteError(t)
        PROVE  Start(k) \in cmds'
    BY <2>1, <1>r DEF SendFails, RetriesExhausted, RemoteError
  <2>2. ASSUME NEW t \in Threads, Crash(t) PROVE Start(k) \in cmds'
    BY <2>2 DEF Crash, Start
  <2>3. ASSUME NEW t \in Threads, StartConflict(t) PROVE Start(k) \in cmds'
    <3>1. t # k
      BY <2>3 DEF StartConflict
    <3>2. Start(t) # Start(k)
      BY <3>1 DEF Start
    <3>3. QED
      BY <2>3, <3>2 DEF StartConflict
  <2>4. QED
    BY <1>5, <2>1, <2>2, <2>3 DEF Failure
<1>6. CASE ReleaseWaiting
  BY <1>6 DEF ReleaseWaiting, Start
<1> HIDE DEF Dispatched, TypeOK
<1>7. QED
  BY <1>1, <1>2, <1>3, <1>4, <1>5, <1>6 DEF Next

LEMMA UnderWayStays ==
  ASSUME TypeOK, Shape, Dispatched, Next, NEW k \in Kids, UnderWay(k)
  PROVE  UnderWay(k)'
  BY NewNoMore, StartStays, KidsAreThreads DEF UnderWay

(* What a step may make of the parent's barrier: nothing, the group that   *)
(* is being opened, or none, which the parent does not wait for; and it    *)
(* waits after a recovery only with a group.                               *)
LEMMA ParentRowNext ==
  ASSUME TypeOK, Next
  PROVE  /\ \/ row'[Parent].group = row[Parent].group
            \/ row'[Parent].group = 0 /\ pc[Parent] = "clear" /\ (Waits' => Waits)
            \/ WaitForChildren
         /\ Waits' => Waits \/ WaitForChildren \/ row'[Parent].group > 0
         /\ Waits' => pc'[Parent] # "clear" \/ (Waits /\ pc[Parent] = "clear")
<1> DEFINE Goal ==
       /\ \/ row'[Parent].group = row[Parent].group
          \/ row'[Parent].group = 0 /\ pc[Parent] = "clear" /\ (Waits' => Waits)
          \/ WaitForChildren
       /\ Waits' => Waits \/ WaitForChildren \/ row'[Parent].group > 0
       /\ Waits' => pc'[Parent] # "clear" \/ (Waits /\ pc[Parent] = "clear")
<1>0. /\ row[Parent] \in Rows /\ row \in [Threads -> Rows] /\ Parent \in Threads
      /\ pc \in [Threads -> Places]
  BY KidsAreThreads DEF TypeOK
<1>k. \A k \in Kids : k # Parent /\ k \in Threads
  BY ParentIsNoChild, KidsAreThreads
<1>u. CASE row'[Parent] = row[Parent] /\ pc'[Parent] = pc[Parent]
  BY <1>u DEF Waits
<1>v. CASE row'[Parent] = row[Parent] /\ pc'[Parent] # "clear"
  BY <1>v DEF Waits
<1>1. CASE HandleStart(Parent) \/ Resume(Parent)
  BY <1>0, <1>1 DEF HandleStart, Resume, Rows, Waits
<1>2. CASE RecoverThread(Parent)
  <2>1. CASE NeedsBarrier(Parent)
    BY <1>0, <1>2, <2>1 DEF RecoverThread, NeedsBarrier, Rows, Waits, Goto
  <2>2. CASE ~NeedsBarrier(Parent)
    BY <1>0, <1>2, <2>2 DEF RecoverThread, Rows, Waits, Goto
  <2>3. QED
    BY <2>1, <2>2
<1>3. CASE ResponseCreated(Parent)
  BY <1>0, <1>3 DEF ResponseCreated, Rows, Waits
<1>4. CASE ReplayCheckpoint(Parent)
  BY <1>0, <1>4 DEF ReplayCheckpoint, Rows, Waits, Goto
<1>5. CASE ClearInvocation(Parent)
  <2>1. row'[Parent] = [row[Parent] EXCEPT !.group = 0,
                                           !.owned = (Parent = Parent) /\ row[Parent].owned]
    BY <1>0, <1>5 DEF ClearInvocation
  <2>2. row'[Parent].status = row[Parent].status /\ row'[Parent].group = 0
    BY <1>0, <2>1 DEF Rows
  <2>3. pc[Parent] = "clear" /\ pc'[Parent] # "clear"
    BY <1>0, <1>5 DEF ClearInvocation, At, Goto
  <2>4. QED
    BY <2>2, <2>3 DEF Waits
<1>6. CASE MissingCheckpoint(Parent) \/ RetriesExhausted(Parent) \/ RemoteError(Parent)
  BY <1>0, <1>6 DEF MissingCheckpoint, RetriesExhausted, RemoteError, Rows, Waits
<1>7. CASE WaitForChildren
  BY <1>0, <1>7 DEF WaitForChildren, Goto
<1>8. ASSUME NEW status \in {"ready", "failed"}, EndTurn(Parent, status) PROVE Goal
  BY <1>0, <1>8 DEF EndTurn, Rows, Waits
<1>9. CASE ReleaseWaiting
  BY <1>0, <1>9 DEF ReleaseWaiting, Rows, Waits
<1>10. CASE SendRequest(Parent) \/ SaveCheckpoint(Parent) \/ HandlerReturns(Parent)
            \/ RecountResults(Parent) \/ SendFails(Parent) \/ Crash(Parent)
  BY <1>0, <1>10, <1>v DEF SendRequest, SaveCheckpoint, HandlerReturns, RecountResults, SendFails,
     Crash, Goto, Return, ReturnError
<1>11. CASE OpenGroup \/ CountResults
  BY <1>0, <1>11, <1>v DEF OpenGroup, CountResults, Goto
<1>12. ASSUME NEW m \in Reports, DropReport(m) \/ HandleReport(m) \/ ReportConflict(m) PROVE Goal
  BY <1>0, <1>12, <1>u, <1>v DEF DropReport, HandleReport, ReportConflict, threadVars, Goto
<1>13. ASSUME NEW t \in Threads, StartConflict(t) PROVE Goal
  BY <1>13, <1>u DEF StartConflict, threadVars
<1>14. ASSUME NEW k \in Kids, DispatchChild(k) PROVE Goal
  BY <1>14, <1>u DEF DispatchChild, threadVars
<1>15. ASSUME NEW k \in Kids, HandleStart(k) \/ Turn(k) \/ RecoverThread(k) PROVE Goal
  BY <1>0, <1>15, <1>k, <1>u DEF Turn, HandleStart, RecoverThread, SendRequest, SaveCheckpoint,
     ResponseCreated, ClearInvocation, Resume, RecountResults, ReplayCheckpoint, HandlerReturns,
     MissingCheckpoint, Goto, Return
<1>16. ASSUME NEW k \in Kids, ChildTurn(k) \/ SubmitToolOutput(k) PROVE Goal
  BY <1>0, <1>16, <1>k, <1>u DEF ChildTurn, ChildEndsTurn, EndTurn, ChildCallsTool, PublishReport,
     SubmitToolOutput, Goto
<1>17. ASSUME NEW k \in Kids, SendFails(k) \/ RetriesExhausted(k) \/ RemoteError(k) \/ Crash(k)
       PROVE  Goal
  BY <1>0, <1>17, <1>k, <1>u DEF SendFails, RetriesExhausted, RemoteError, Crash, Goto, Return,
     ReturnError
<1>p. \A t \in Threads : t = Parent \/ t \in Kids
  BY DEF Threads
<1> HIDE DEF Goal
<1>18. CASE \E t \in Threads : HandleStart(t) \/ Turn(t) \/ RecoverThread(t)
  BY <1>18, <1>p, <1>1, <1>2, <1>3, <1>4, <1>5, <1>6, <1>10, <1>15 DEF Turn, Goal
<1>19. CASE ParentTurn
  BY <1>19, <1>7, <1>8, <1>11, <1>14 DEF ParentTurn, ParentEndsTurn, Goal
<1>20. CASE Failure
  BY <1>20, <1>p, <1>6, <1>10, <1>13, <1>17 DEF Failure, Goal
<1>21. Goal
  BY <1>9, <1>12, <1>16, <1>18, <1>19, <1>20 DEF Next, Goal
<1>22. QED
  BY <1>21 DEF Goal

(* A child gets a seat, a place among the tried and a start in somebody's  *)
(* hands only when its row says that it runs.                              *)
LEMMA SeatsNext ==
  ASSUME TypeOK, Shape, Dispatched, Next, NEW k \in Kids
  PROVE  /\ k \in tried' \/ k \in seat' => row'[k].status # "new"
         /\ \A t \in Threads : job'[t] = Start(k) => row'[k].status # "new"
<1> USE KidsAreThreads DEF Dispatched
<1> DEFINE Goal == /\ k \in tried' \/ k \in seat' => row'[k].status # "new"
                   /\ \A t \in Threads : job'[t] = Start(k) => row'[k].status # "new"
<1>0. /\ row \in [Threads -> Rows] /\ job \in [Threads -> Commands]
  BY DEF TypeOK
<1>n. row'[k].status = "new" => row[k].status = "new"
  BY NewNoMore
<1>s. NoJob # Start(k) /\ Recover # Start(k) /\ \A t \in Threads : Start(t) = Start(k) => t = k
  BY DEF NoJob, Start, Recover
<1>u. CASE /\ tried' \subseteq tried /\ seat' \subseteq seat
           /\ \A t \in Threads : job'[t] = Start(k) => job[t] = Start(k)
  BY <1>n, <1>u
<1>v. ASSUME NEW t \in Threads, tried' \subseteq tried \cup {t}, seat' \subseteq seat \cup {t},
             \A x \in Threads : job'[x] = Start(k) => job[x] = Start(k) \/ t = k,
             row'[t].status # "new"
      PROVE  Goal
  BY <1>n, <1>v
<1>r. ASSUME NEW t \in Threads, Return(t) \/ ReturnError(t)
      PROVE  \A x \in Threads : job'[x] = Start(k) => job[x] = Start(k)
  BY <1>r, <1>0, <1>s DEF Return, ReturnError
<1>1. ASSUME NEW t \in Threads, HandleStart(t) PROVE Goal
  <2>1. row'[t].status # "new"
    BY <1>0, <1>1 DEF HandleStart, Rows
  <2>2. \A x \in Threads : job'[x] = Start(k) => job[x] = Start(k) \/ t = k
    BY <1>0, <1>1, <1>s DEF HandleStart
  <2>3. tried' \subseteq tried \cup {t} /\ seat' \subseteq seat \cup {t}
    BY <1>1 DEF HandleStart, Deliver
  <2>4. QED
    BY <2>1, <2>2, <2>3, <1>v
<1>2. ASSUME NEW t \in Threads, RecoverThread(t) PROVE Goal
  <2>1. row'[t].status # "new"
    BY <1>0, <1>2 DEF RecoverThread, Rows
  <2>2. \A x \in Threads : job'[x] = Start(k) => job[x] = Start(k) \/ t = k
    BY <1>0, <1>2, <1>s DEF RecoverThread
  <2>3. tried' \subseteq tried \cup {t} /\ seat' \subseteq seat \cup {t}
    BY <1>2 DEF RecoverThread
  <2>4. QED
    BY <2>1, <2>2, <2>3, <1>v
<1>3. ASSUME NEW t \in Threads, Resume(t) \/ SubmitToolOutput(t) PROVE Goal
  <2>1. row'[t].status # "new"
    BY <1>0, <1>3 DEF Resume, SubmitToolOutput, Rows
  <2>2. QED
    BY <1>3, <2>1, <1>v DEF Resume, SubmitToolOutput
<1>4. ASSUME NEW t \in Threads,
             \/ SendRequest(t) \/ SaveCheckpoint(t) \/ ResponseCreated(t) \/ ClearInvocation(t)
             \/ RecountResults(t) \/ ReplayCheckpoint(t)
      PROVE  Goal
  BY <1>4, <1>u DEF SendRequest, SaveCheckpoint, ResponseCreated, ClearInvocation,
     RecountResults, ReplayCheckpoint
<1>5. ASSUME NEW t \in Threads,
             \/ HandlerReturns(t) \/ MissingCheckpoint(t) \/ SendFails(t)
             \/ RetriesExhausted(t) \/ RemoteError(t)
      PROVE  Goal
  <2>1. (Return(t) \/ ReturnError(t)) /\ tried' \subseteq tried /\ seat' \subseteq seat
    BY <1>5 DEF HandlerReturns, MissingCheckpoint, SendFails, RetriesExhausted, RemoteError
  <2>2. QED
    BY <2>1, <1>r, <1>u
<1>6. ASSUME NEW t \in Threads, Crash(t) \/ StartConflict(t) PROVE Goal
  BY <1>0, <1>6, <1>s, <1>u DEF Crash, StartConflict, threadVars
<1>7. CASE ParentTurn
  BY <1>7, <1>u DEF ParentTurn, OpenGroup, DispatchChild, threadVars, WaitForChildren,
     ParentEndsTurn, EndTurn, CountResults
<1>8. ASSUME NEW c \in Kids, ChildTurn(c) PROVE Goal
  BY <1>8, <1>u DEF ChildTurn, ChildEndsTurn, EndTurn, ChildCallsTool, PublishReport
<1>9. ASSUME NEW m \in Reports, DropReport(m) \/ HandleReport(m) \/ ReportConflict(m)
      PROVE  Goal
  <2>1. m # Start(k)
    BY DEF Reports, Start
  <2>2. QED
    BY <1>0, <1>9, <2>1, <1>u DEF DropReport, HandleReport, ReportConflict, threadVars
<1>10. CASE ReleaseWaiting
  BY <1>10, <1>u DEF ReleaseWaiting
<1> HIDE DEF Goal
<1>11. CASE \E t \in Threads : HandleStart(t) \/ Turn(t) \/ RecoverThread(t)
  BY <1>11, <1>1, <1>2, <1>3, <1>4, <1>5 DEF Turn, Goal
<1>12. CASE \E c \in Kids : ChildTurn(c) \/ SubmitToolOutput(c)
  BY <1>12, <1>3, <1>8 DEF Goal
<1>13. CASE Failure
  BY <1>13, <1>5, <1>6 DEF Failure, Goal
<1>14. Goal
  BY <1>7, <1>9, <1>10, <1>11, <1>12, <1>13 DEF Next, Goal
<1>15. QED
  BY <1>14 DEF Goal

LEMMA DispatchedNext == TypeOK /\ Shape /\ Dispatched /\ [Next]_vars => Dispatched'
<1> SUFFICES ASSUME TypeOK, Shape, Dispatched, Next PROVE Dispatched'
  BY DEF Dispatched, UnderWay, Waits, vars
<1>1. \A k \in Kids : /\ k \in tried' \/ k \in seat' => row'[k].status # "new"
                      /\ \A t \in Threads : job'[t] = Start(k) => row'[k].status # "new"
  BY SeatsNext
<1>2. \A k \in Kids : UnderWay(k) => UnderWay(k)'
  BY UnderWayStays
<1>3. row'[Parent].group \in 0..MaxGroups
  BY RowNext, KidsAreThreads DEF RowOK, Rows
<1>4. CASE WaitForChildren
  <2>1. /\ ask[Parent] \in Groups /\ row'[Parent].group = ask[Parent]
        /\ pc'[Parent] = "return"
    BY <1>4, KidsAreThreads DEF WaitForChildren, Shape, At, Goto, TypeOK, Rows
  <2>2. \A k \in KidsOf(ask[Parent]) : k \in Kids /\ UnderWay(k)
    BY <1>4, <2>1, KidsAreThreads DEF WaitForChildren, Undispatched, Dispatched, UnderWay
  <2>3. QED
    BY <1>1, <1>2, <2>1, <2>2 DEF Dispatched
<1>5. CASE ~WaitForChildren
  <2>1. /\ \/ row'[Parent].group = row[Parent].group
           \/ row'[Parent].group = 0 /\ pc[Parent] = "clear" /\ (Waits' => Waits)
        /\ Waits' => Waits \/ row'[Parent].group > 0
        /\ Waits' => pc'[Parent] # "clear" \/ (Waits /\ pc[Parent] = "clear")
    BY <1>5, ParentRowNext
  <2>2. pc'[Parent] = "clear" => ~Waits'
    BY <2>1 DEF Dispatched
  <2>3. Waits' => row'[Parent].group \in Groups
    BY <1>3, <2>1 DEF Dispatched, Groups
  <2>4. row'[Parent].group \in Groups => \A k \in KidsOf(row'[Parent].group) : UnderWay(k)'
    BY <1>2, <2>1, KidsAreThreads DEF Dispatched, Groups
  <2>5. QED
    BY <1>1, <2>2, <2>3, <2>4 DEF Dispatched
<1>6. QED
  BY <1>4, <1>5

LEMMA InitDispatched == Init => Dispatched
<1> SUFFICES ASSUME Init PROVE Dispatched
  OBVIOUS
<1>1. row[Parent] = NewRow(0) /\ pc[Parent] = "idle"
  BY KidsAreThreads DEF Init
<1>2. ~Waits /\ row[Parent].group \notin Groups
  BY <1>1 DEF NewRow, Waits, Groups
<1>3. \A k \in Kids : k \notin tried /\ k \notin seat /\ \A t \in Threads : job[t] # Start(k)
  BY DEF Init, NoJob, Start
<1>4. QED
  BY <1>1, <1>2, <1>3 DEF Dispatched

(* A parent whose row says that it waits has dispatched every child of the *)
(* group: startSpawnGroup saves that row last, and no redelivery, refused  *)
(* start or crash loses the start of a child that has not run.             *)
THEOREM NoneForgotten == Spec => []NoChildForgotten
<1>1. Dispatched => NoChildForgotten
  BY DEF Dispatched, UnderWay, NoChildForgotten
<1>2. IInv /\ Dispatched /\ [Next]_vars => Dispatched'
  BY DispatchedNext DEF IInv
<1>3. QED
  BY InitDispatched, IInvHolds, <1>1, <1>2, PTL DEF Spec
-----------------------------------------------------------------------------
(* The slots of the abstract barrier are the children. *)
LEMMA SlotsAreKids == /\ Group!Slots = Kids
                      /\ \A g \in Groups, c \in Children : <<g, c>> \in Kids
                      /\ \A g \in Groups : KidsOf(g) = {<<g, c>> : c \in Children}
  BY DEF Group!Slots, Kids, KidsOf

(* A group that is opened had no rows, and gets all of its children. *)
LEMMA OpensOnce == TypeOK /\ Shape /\ Births /\ OpenGroup => Group!Open(NextGroup) /\ NextGroup \in Groups
<1> SUFFICES ASSUME TypeOK, Shape, Births, OpenGroup
             PROVE  Group!Open(NextGroup) /\ NextGroup \in Groups
  OBVIOUS
<1>1. NextGroup \in Groups
  BY NextGroupIsGroup DEF OpenGroup, Shape, Spend
<1>2. Group!MembersOf(NextGroup) = {}
  <2>1. \A k \in KidsOf(NextGroup) : result[k] = "absent"
    BY <1>1, KidsAreThreads DEF Births, Groups
  <2>2. QED
    BY <1>1, <2>1, SlotsAreKids DEF Group!MembersOf
<1>3. KidsOf(NextGroup) = {NextGroup} \X Children /\ Children \in SUBSET Children
  BY DEF KidsOf
<1>4. QED
  BY <1>1, <1>2, <1>3, SlotsAreKids DEF Group!Open, OpenGroup

(* A report settles its child, or finds it settled. *)
LEMMA SettlesOnce ==
  ASSUME TypeOK, Shape, Births, NEW m \in Reports, result' = Recorded(m)
  PROVE  UNCHANGED result \/ \E s \in Kids : \E o \in Outcomes :
           result[s] = "pending" /\ result' = [result EXCEPT ![s] = o]
<1>1. m.thread \in Kids /\ m.outcome \in Outcomes
  BY DEF Reports, Shape
<1>2. result[m.thread] # "absent"
  BY <1>1 DEF Births, Unborn, Reports
<1>3. result \in [Kids -> Outcomes \cup {"absent", "pending"}]
  BY DEF TypeOK
<1>4. CASE result[m.thread] \in Outcomes
  BY <1>1, <1>3, <1>4 DEF Recorded
<1>5. CASE result[m.thread] \notin Outcomes
  <2>1. result[m.thread] = "pending"
    BY <1>1, <1>2, <1>3, <1>5
  <2>2. result' = [result EXCEPT ![m.thread] = m.outcome]
    BY <1>5 DEF Recorded
  <2>3. QED
    BY <1>1, <2>1, <2>2
<1>6. QED
  BY <1>4, <1>5

(* A request that is sent is no aggregate, or that of a closed group. *)
LEMMA SubmitsWhole ==
  ASSUME TypeOK, Whole, NEW t \in Threads, SendRequest(t)
  PROVE  UNCHANGED sent \/ (ask[t] \in Groups /\ Group!Submit(ask[t]))
<1>1. CASE ask[t] \notin Groups
  BY <1>1 DEF SendRequest
<1>2. CASE ask[t] \in Groups
  <2>1. Closed(ask[t])
    BY <1>2 DEF Whole, SendRequest, At, Sends
  <2>2. \A c \in Children : result[<<ask[t], c>>] \in Outcomes
    BY <1>2, <2>1, SlotsAreKids DEF Closed
  <2>3. Group!MembersOf(ask[t]) = Children
    BY <2>2 DEF Group!MembersOf, Outcomes
  <2>4. sent' = sent \cup {ask[t]} /\ UNCHANGED result
    BY <1>2 DEF SendRequest
  <2>5. QED
    BY <1>2, <2>2, <2>3, <2>4, AtLeastOneChild DEF Group!Submit
<1>3. QED
  BY <1>1, <1>2

LEMMA BarrierStep == IInv /\ [Next]_vars => [Group!Next]_Group!barrierVars
<1> SUFFICES ASSUME IInv, Next, ~UNCHANGED <<result, sent>> PROVE Group!Next
  BY DEF vars, Group!barrierVars
<1>1. CASE OpenGroup
  BY <1>1, OpensOnce DEF IInv, Group!Next
<1>2. ASSUME NEW m \in Reports, HandleReport(m) \/ ReportConflict(m) PROVE Group!Next
  <2>1. result' = Recorded(m) /\ UNCHANGED sent
    BY <1>2 DEF HandleReport, ReportConflict
  <2>2. PICK s \in Kids, o \in Outcomes : result[s] = "pending" /\ result' = [result EXCEPT ![s] = o]
    BY <2>1, SettlesOnce DEF IInv
  <2>3. Group!Settle(s)
    BY <2>1, <2>2 DEF Group!Settle
  <2>4. QED
    BY <2>3, SlotsAreKids DEF Group!Next
<1>3. ASSUME NEW t \in Threads, SendRequest(t) PROVE Group!Next
  <2>1. UNCHANGED result
    BY <1>3 DEF SendRequest
  <2>2. QED
    BY <1>3, <2>1, SubmitsWhole DEF IInv, Group!Next
<1>4. QED
  BY <1>1, <1>2, <1>3
  DEF Next, Turn, ParentTurn, ChildTurn, Failure, ParentEndsTurn, ChildEndsTurn, HandleStart,
      RecoverThread, SaveCheckpoint, ResponseCreated, ClearInvocation, HandlerReturns, Resume,
      RecountResults, ReplayCheckpoint, MissingCheckpoint, SendFails, RetriesExhausted,
      RemoteError, Crash, StartConflict, DispatchChild, WaitForChildren, CountResults, EndTurn,
      ChildCallsTool, SubmitToolOutput, PublishReport, DropReport, ReleaseWaiting, threadVars

(* The group of a parent implements the abstract barrier: it opens once,   *)
(* with all of its children, each child settles once, and the aggregate is *)
(* submitted, as often as recovery sends it, when all have settled.        *)
THEOREM SpawnImplementsBarrier == Spec => IsBarrier
<1>1. Init => Group!Init
  BY SlotsAreKids DEF Init, Group!Init
<1>2. QED
  BY <1>1, BarrierStep, IInvHolds, PTL DEF Spec, IsBarrier, Group!Spec
=============================================================================
