--------------------------- MODULE DocumentQuery ---------------------------
(***************************************************************************)
(* A response of the parent thread calls query_document.  The parent opens *)
(* a group with one child thread per document and waits.  A document that  *)
(* OpenAI has not yet seen is first warmed up: the same child thread runs  *)
(* once over the pages, its report makes the parent record the base        *)
(* lineage of the document and start the child again, now with the         *)
(* question, and only the second report counts.                            *)
(*                                                                         *)
(* A parent keeps one child thread for each document and uses it again in  *)
(* its next round.  So a row is written by two parties: by the handler of  *)
(* the child, from the copy it has in memory, and by the parent, which     *)
(* reads the row, changes it, and saves it.                                *)
(*                                                                         *)
(* Ownership is a seat as in SpawnBarrier, which also has the windows      *)
(* between sending a request and its checkpoint; reports always find their *)
(* way here, since SpawnBarrier has the routing.                           *)
(***************************************************************************)
EXTENDS Integers, FiniteSets

CONSTANTS Docs,
          MaxRounds,       \* bound: responses that call query_document
          MaxCrashes,      \* bound: workers that crash
          MaxFailures,     \* bound: steps that fail, responses and RPCs
          MaxStrays,       \* bound: starts delivered to another worker
          MaxTroubles      \* bound: all of these together

ASSUME BoundsAreNat == /\ MaxRounds \in Nat /\ MaxCrashes \in Nat
                       /\ MaxFailures \in Nat /\ MaxStrays \in Nat /\ MaxTroubles \in Nat

Rounds == 1..MaxRounds      \* a round, its first call id and its group

VARIABLES
  parent,    \* the parent's row: status, group, active response
  pc,        \* where the parent's handler stands
  job,       \* the kind of command it works on
  up,        \* the parent's owner lives
  round,     \* the latest round
  todo,      \* documents of the round whose child is not prepared yet
  starts,    \* start commands of the round not yet published
  kid,       \* document -> row of its child thread
  mem,       \* document -> the copy of the row in its handler's memory
  kpc, kjob, \* document -> where that handler stands, and on which command
  kup,       \* documents whose child has a living owner
  ckpt,      \* document -> the start that its latest checkpoint replays
  base,      \* document -> documents.base_response_id
  result,    \* <<round, document>> -> its row in spawn_group_children
  sent,      \* history: rounds whose aggregate went to OpenAI
  cmds,      \* commands not acknowledged
  done,      \* start commands marked as processed
  handed,    \* history: warm-ups whose hand-over has begun
  late,      \* history: documents of which a start ran that the child's
             \* row had not, or no longer, been prepared for
  budget

parentVars == <<parent, pc, job, up, round, todo, starts>>
kidVars == <<kid, mem, kpc, kjob, kup, ckpt>>
vars == <<parentVars, kidVars, base, result, sent, cmds, done, handed, late, budget>>

(* A response at OpenAI: to which phase and round of which document, and   *)
(* whether it completed.  An aggregate sent by a child is to no round.     *)
NoResponse == [doc |-> "none", phase |-> "none", round |-> 0, ok |-> FALSE]
Response(d, phase, r, ok) == [doc |-> d, phase |-> phase, round |-> r, ok |-> ok]
Responses == [doc : Docs, phase : {"warmup", "query"}, round : 0..MaxRounds, ok : BOOLEAN]
               \cup {NoResponse}

Start(d, r, phase, previous) ==
  [kind |-> "start", doc |-> d, round |-> r, phase |-> phase, resp |-> previous]
Report(d, r, resp) ==
  [kind |-> "report", doc |-> d, round |-> r, phase |-> "none", resp |-> resp]
NoCommand == [kind |-> "none", doc |-> "none", round |-> 0, phase |-> "none",
              resp |-> NoResponse]

(* The dedupe key of a start: LoadOrCreateCommandID gives one command id to *)
(* all of the same call, document and phase.                               *)
CommandId(c) == <<c.doc, c.round, c.phase>>

(* A row of spawn_group_children. *)
Unsettled(mark) == [mark |-> mark, resp |-> NoResponse]
Result(resp) == [mark |-> IF resp.ok THEN "completed" ELSE "failed", resp |-> resp]

Untroubled == [crashes |-> MaxCrashes, failures |-> MaxFailures, strays |-> MaxStrays,
               total |-> MaxTroubles]

NoRow == [status |-> "absent", group |-> 0, mode |-> "none", phase |-> "none",
          last |-> NoResponse, active |-> FALSE]

Init ==
  /\ parent = [status |-> "running", group |-> 0, active |-> FALSE]
  /\ pc = "submit" /\ job = "start" /\ up = TRUE
  /\ round = 0 /\ todo = {} /\ starts = {}
  /\ kid = [d \in Docs |-> NoRow] /\ mem = [d \in Docs |-> NoRow]
  /\ kpc = [d \in Docs |-> "idle"] /\ kjob = [d \in Docs |-> NoCommand]
  /\ kup = {}
  /\ ckpt = [d \in Docs |-> NoCommand]
  /\ base = [d \in Docs |-> NoResponse]
  /\ result = [s \in Rounds \X Docs |-> Unsettled("absent")]
  /\ sent = {} /\ cmds = {} /\ done = {} /\ handed = {} /\ late = {}
  /\ budget = Untroubled

Spend(what) ==
  /\ budget[what] > 0 /\ budget.total > 0
  /\ budget' = [budget EXCEPT ![what] = @ - 1, !.total = @ - 1]
Terminal(status) == status \in {"completed", "failed"}

(* canReuseDocumentChildThread *)
Reusable(status) == status \in {"absent", "new", "ready"} \/ Terminal(status)

Settled(s) == result[s].mark \in {"completed", "failed"}
DocsOf(r) == {d \in Docs : result[<<r, d>>].mark # "absent"}

(* Mutation: one outcome closes the group. *)
Closed_Any(r) == \E d \in DocsOf(r) : Settled(<<r, d>>)

Closed(r) == \A d \in DocsOf(r) : Settled(<<r, d>>)
-----------------------------------------------------------------------------
(* The parent's response, and startDocumentQueryGroup. *)

ResponseCreated ==
  /\ pc = "submit"
  /\ parent' = [parent EXCEPT !.status = "running", !.active = TRUE]
  /\ pc' = "stream"
  /\ UNCHANGED <<job, up, round, todo, starts, kidVars, base, result, sent, cmds,
                 done, handed, late, budget>>

AskDocuments(S) ==
  /\ pc = "stream" /\ round < MaxRounds /\ S # {}
  /\ round' = round + 1
  /\ todo' = S
  /\ starts' = {}
  /\ pc' = "prepare"
  /\ UNCHANGED <<parent, job, up, kidVars, base, result, sent, cmds, done, handed, late, budget>>

(* LoadLatestCompletedDocumentQueryLineage, for the one child of d. *)
ThreadLineage(d) ==
  IF kid[d].phase = "query" /\ kid[d].status \in {"completed", "ready"}
  THEN kid[d].last ELSE NoResponse

(* The lineage of this parent, else the shared base if its model and       *)
(* reasoning are those chosen here, else none: then a warm-up.             *)
Lineages(d) ==
  IF ThreadLineage(d) # NoResponse THEN {ThreadLineage(d)}
  ELSE {base[d], NoResponse}

(* prepareDocumentChildThreadMeta: the child's row, made or made over. *)
Prepared(d, r, phase) ==
  [kid[d] EXCEPT !.status = IF @ = "absent" THEN "new" ELSE @,
                 !.group = r, !.mode = phase, !.phase = phase]

PrepareChild(d) ==
  /\ pc = "prepare" /\ d \in todo /\ Reusable(kid[d].status)
  /\ \E previous \in Lineages(d) :
       LET phase == IF previous = NoResponse THEN "warmup" ELSE "query"
       IN /\ kid' = [kid EXCEPT ![d] = Prepared(d, round, phase)]
          /\ starts' = starts \cup {Start(d, round, phase, previous)}
  /\ todo' = todo \ {d}
  /\ UNCHANGED <<parent, pc, job, up, round, mem, kpc, kjob, kup, ckpt, base,
                 result, sent, cmds, done, handed, late, budget>>

(* CreateSpawnGroup: the children's rows, all pending. *)
CreateGroup ==
  /\ pc = "prepare" /\ todo = {}
  /\ result' = [s \in DOMAIN result |->
                  IF s[1] = round /\ s[2] \in {c.doc : c \in starts}
                  THEN Unsettled("pending") ELSE result[s]]
  /\ pc' = "publish"
  /\ UNCHANGED <<parent, job, up, round, todo, starts, kidVars, base, sent, cmds,
                 done, handed, late, budget>>

PublishStart(c) ==
  /\ pc = "publish" /\ c \in starts
  /\ cmds' = cmds \cup {c}
  /\ starts' = starts \ {c}
  /\ UNCHANGED <<parent, pc, job, up, round, todo, kidVars, base, result, sent,
                 done, handed, late, budget>>

WaitForChildren ==
  /\ pc = "publish" /\ starts = {}
  /\ parent' = [status |-> "waiting_children", group |-> round, active |-> FALSE]
  /\ pc' = "idle" /\ job' = "none"
  /\ UNCHANGED <<up, round, todo, starts, kidVars, base, result, sent, cmds, done,
                 handed, late, budget>>

(* A child that is not reusable, an RPC or a publish that fails: the       *)
(* command comes back.  A start runs again from its request; a report or a *)
(* recovery then fails its own preconditions.                              *)
OpeningFails ==
  /\ \/ pc = "prepare" /\ \E d \in todo : ~Reusable(kid[d].status) /\ UNCHANGED budget
     \/ pc \in {"prepare", "publish"} /\ Spend("failures")
  /\ pc' = IF job = "start" THEN "submit" ELSE "idle"
  /\ todo' = {} /\ starts' = {}
  /\ UNCHANGED <<parent, job, up, round, kidVars, base, result, sent, cmds, done, handed, late>>

(* A document that is not attached: the command is dropped as if it had    *)
(* failed its preconditions, and the thread stays as it is.                *)
NotAttached ==
  /\ pc = "prepare" /\ starts = {}
  /\ Spend("failures")
  /\ pc' = "idle" /\ job' = "none" /\ todo' = {}
  /\ UNCHANGED <<parent, up, round, starts, kidVars, base, result, sent, cmds, done, handed, late>>

EndTurn ==
  /\ pc = "stream"
  /\ \E status \in {"ready", "failed"} :
       parent' = [status |-> status, group |-> 0, active |-> FALSE]
  /\ pc' = "idle" /\ job' = "none"
  /\ UNCHANGED <<up, round, todo, starts, kidVars, base, result, sent, cmds, done,
                 handed, late, budget>>
-----------------------------------------------------------------------------
(* The child's handler. *)

Starts == {c \in cmds : c.kind = "start"}

HandleStart(c) ==
  /\ c \in Starts /\ kpc[c.doc] = "idle" /\ CommandId(c) \notin done
  /\ mem' = [mem EXCEPT ![c.doc] =
               [kid[c.doc] EXCEPT !.status = "running", !.mode = c.phase]]
  /\ kid' = [kid EXCEPT ![c.doc] = mem'[c.doc]]
  /\ kup' = kup \cup {c.doc}
  /\ kpc' = [kpc EXCEPT ![c.doc] = "submit"]
  /\ kjob' = [kjob EXCEPT ![c.doc] = c]
  /\ late' = IF kid[c.doc].group = c.round /\ kid[c.doc].mode = c.phase
             THEN late ELSE late \cup {c.doc}
  /\ UNCHANGED <<parentVars, ckpt, base, result, sent, cmds, done, handed, budget>>

(* Processed before, and delivered or published once more. *)
SkipStart(c) ==
  /\ c \in Starts /\ CommandId(c) \in done
  /\ cmds' = cmds \ {c}
  /\ UNCHANGED <<parentVars, kidVars, base, result, sent, done, handed, late, budget>>

(* All starts go to the shared dispatch subject.  A worker that is not the *)
(* owner of the child cannot claim it, and acknowledges.                   *)
StartConflict(c) ==
  /\ c \in Starts /\ c.doc \in kup /\ kjob[c.doc] # c /\ CommandId(c) \notin done
  /\ Spend("strays")
  /\ cmds' = cmds \ {c}
  /\ UNCHANGED <<parentVars, kidVars, base, result, sent, done, handed, late>>

KidResponds(d) ==
  /\ kpc[d] = "submit"
  /\ mem' = [mem EXCEPT ![d] = [@ EXCEPT !.active = TRUE, !.status = "running"]]
  /\ kid' = [kid EXCEPT ![d] = mem'[d]]
  /\ ckpt' = [ckpt EXCEPT ![d] = kjob[d]]
  /\ kpc' = [kpc EXCEPT ![d] = "stream"]
  /\ UNCHANGED <<parentVars, kjob, kup, base, result, sent, cmds, done, handed, late, budget>>

(* successfulResponseThreadStatus: a child that answered stays ready, one  *)
(* that warmed up is completed.                                            *)
StatusAfter(d, ok) ==
  IF ~ok THEN "failed" ELSE IF mem[d].mode = "query" THEN "ready" ELSE "completed"

KidEndsTurn(d, ok) ==
  /\ kpc[d] = "stream"
  /\ IF ok THEN UNCHANGED budget ELSE Spend("failures")
  /\ mem' = [mem EXCEPT ![d] = [@ EXCEPT
       !.status = StatusAfter(d, ok), !.active = FALSE,
       !.last = Response(d, mem[d].mode, kjob[d].round, ok)]]
  /\ kid' = [kid EXCEPT ![d] = mem'[d]]
  /\ kpc' = [kpc EXCEPT ![d] = "clear"]
  /\ UNCHANGED <<parentVars, kjob, kup, ckpt, base, result, sent, cmds, done, handed, late>>

(* An error event: failed, acknowledged, the group kept, and nobody told. *)
KidErrs(d) ==
  /\ kpc[d] = "stream"
  /\ Spend("failures")
  /\ mem' = [mem EXCEPT ![d] = [@ EXCEPT !.status = "failed", !.active = FALSE]]
  /\ kid' = [kid EXCEPT ![d] = mem'[d]]
  /\ kpc' = [kpc EXCEPT ![d] = "idle"]
  /\ kjob' = [kjob EXCEPT ![d] = NoCommand]
  /\ kup' = kup \ {d}
  /\ cmds' = cmds \ {kjob[d]}
  /\ UNCHANGED <<parentVars, ckpt, base, result, sent, done, handed, late>>

(* Mutation: what is published is decided after the row left its group. *)
ClearInvocation_Publish(d) ==
  /\ kpc[d] = "clear"
  /\ kid' = [kid EXCEPT ![d] = [mem[d] EXCEPT !.group = 0]]
  /\ kup' = IF Terminal(mem[d].status) THEN kup \ {d} ELSE kup
  /\ kpc' = [kpc EXCEPT ![d] = "return"]
  /\ UNCHANGED <<parentVars, mem, kjob, ckpt, base, result, sent, cmds, done, handed, late, budget>>

(* The row leaves its group, and a terminal child its lease; mem stays what *)
(* the report is made of.                                                  *)
ClearInvocation(d) ==
  /\ kpc[d] = "clear"
  /\ kid' = IF mem[d].group = 0 THEN kid
            ELSE [kid EXCEPT ![d] = [mem[d] EXCEPT !.group = 0]]
  /\ kup' = IF Terminal(mem[d].status) THEN kup \ {d} ELSE kup
  /\ kpc' = [kpc EXCEPT ![d] = IF mem[d].group = 0 THEN "return" ELSE "publish"]
  /\ UNCHANGED <<parentVars, mem, kjob, ckpt, base, result, sent, cmds, done, handed, late, budget>>

PublishReport(d) ==
  /\ kpc[d] = "publish"
  /\ cmds' = cmds \cup {Report(d, mem[d].group, mem[d].last)}
  /\ kpc' = [kpc EXCEPT ![d] = "return"]
  /\ UNCHANGED <<parentVars, kid, mem, kjob, kup, ckpt, base, result, sent, done,
                 handed, late, budget>>

KidReturns(d) ==
  /\ kpc[d] = "return"
  /\ done' = IF kjob[d].kind = "start" THEN done \cup {CommandId(kjob[d])} ELSE done
  /\ cmds' = cmds \ {kjob[d]}
  /\ kpc' = [kpc EXCEPT ![d] = "idle"]
  /\ kjob' = [kjob EXCEPT ![d] = NoCommand]
  /\ UNCHANGED <<parentVars, kid, mem, kup, ckpt, base, result, sent, handed, late, budget>>

(* The idle timer, or the expiry, of a ready child's socket. *)
IdleRelease(d) ==
  /\ d \in kup /\ kpc[d] = "idle" /\ kid[d].status = "ready"
  /\ kup' = kup \ {d}
  /\ UNCHANGED <<parentVars, kid, mem, kpc, kjob, ckpt, base, result, sent, cmds,
                 done, handed, late, budget>>

KidCrash(d) ==
  /\ d \in kup \/ kpc[d] # "idle"
  /\ Spend("crashes")
  /\ kup' = kup \ {d}
  /\ kpc' = [kpc EXCEPT ![d] = "idle"]
  /\ kjob' = [kjob EXCEPT ![d] = NoCommand]
  /\ UNCHANGED <<parentVars, kid, mem, ckpt, base, result, sent, cmds, done, handed, late>>

(* Mutation: only a thread whose row says so waits for a group. *)
TakenForWaiting_Status(d) == kid[d].status = "waiting_children"

(* A recovered child without an active response is taken for one that      *)
(* waits for the group it belongs to; else its latest request is replayed. *)
TakenForWaiting(d) == kid[d].group > 0 /\ ~kid[d].active

RecoverKid(d) ==
  LET barrier == TakenForWaiting(d)
      closed == barrier /\ Closed(kid[d].group)
      replays == ~barrier \/ closed
      request == IF closed \/ ckpt[d].kind = "none"
                 THEN [NoCommand EXCEPT !.doc = d] ELSE [ckpt[d] EXCEPT !.kind = "replay"]
  IN /\ d \notin kup /\ kpc[d] = "idle"
     /\ kid[d].status \in {"running", "reconciling", "waiting_children"}
     /\ mem' = [mem EXCEPT ![d] = [kid[d] EXCEPT
          !.active = FALSE,
          !.status = IF closed THEN "running"
                     ELSE IF barrier THEN "waiting_children" ELSE "reconciling"]]
     /\ kid' = [kid EXCEPT ![d] = mem'[d]]
     /\ kup' = kup \cup {d}
     /\ kpc' = [kpc EXCEPT ![d] = IF replays THEN "submit" ELSE "idle"]
     /\ kjob' = [kjob EXCEPT ![d] = IF replays THEN request ELSE NoCommand]
     /\ UNCHANGED <<parentVars, ckpt, base, result, sent, cmds, done, handed, late, budget>>
-----------------------------------------------------------------------------
(* The reports, at the parent. *)

Reports == {m \in cmds : m.kind = "report"}
Waits == parent.status = "waiting_children"
Expected(m) == m \in Reports /\ pc = "idle" /\ Waits /\ parent.group = m.round

(* Not waiting: dropped.  A report of another group comes back, for ever. *)
DropReport(m) ==
  /\ m \in Reports /\ pc = "idle" /\ ~Waits
  /\ cmds' = cmds \ {m}
  /\ UNCHANGED <<parentVars, kidVars, base, result, sent, done, handed, late, budget>>

(* Mutation: a document with a base lineage is not warmed up. *)
IsWarmup_NoBase(m) == m.resp.ok /\ kid[m.doc].mode = "warmup" /\ base[m.doc] = NoResponse

(* Mutation: a warm-up that failed is handed over, too. *)
IsWarmup_AnyEnd(m) == kid[m.doc].mode = "warmup"

(* handleDocumentWarmupChildResult asks the child's row as it is now. *)
IsWarmup(m) == m.resp.ok /\ kid[m.doc].mode = "warmup"

(* The base lineage, then the child's row. *)
HandOver(m) ==
  /\ Expected(m) /\ IsWarmup(m)
  /\ base' = [base EXCEPT ![m.doc] = m.resp]
  /\ IF Reusable(kid[m.doc].status)
     THEN /\ kid' = [kid EXCEPT ![m.doc] = Prepared(m.doc, m.round, "query")]
          /\ handed' = handed \cup {<<m.doc, m.round>>}
          /\ starts' = {Start(m.doc, m.round, "query", m.resp)}
          /\ pc' = "hand_over"
     ELSE UNCHANGED <<kid, handed, starts, pc>>
  /\ UNCHANGED <<parent, job, up, round, todo, mem, kpc, kjob, kup, ckpt, result,
                 sent, cmds, done, late, budget>>

(* Then the start of the query, and the report is done with. *)
PublishQuery ==
  /\ pc = "hand_over"
  /\ \E c \in starts :
       cmds' = (cmds \ {Report(c.doc, c.round, c.resp)}) \cup {c}
  /\ starts' = {} /\ pc' = "idle"
  /\ UNCHANGED <<parent, job, up, round, todo, kidVars, base, result, sent, done,
                 handed, late, budget>>

(* The publish fails: the report comes back and finds the row changed. *)
HandOverFails ==
  /\ pc = "hand_over"
  /\ Spend("failures")
  /\ starts' = {} /\ pc' = "idle"
  /\ UNCHANGED <<parent, job, up, round, todo, kidVars, base, result, sent, cmds,
                 done, handed, late>>

Recorded(m) ==
  [result EXCEPT ![<<m.round, m.doc>>] =
     IF Settled(<<m.round, m.doc>>) THEN @ ELSE Result(m.resp)]

(* Any other report: UpsertSpawnResult, and if it was the last, the claim  *)
(* and the status running; then the aggregate.                             *)
RecordReport(m) ==
  /\ Expected(m) /\ ~IsWarmup(m)
  /\ result' = Recorded(m)
  /\ cmds' = cmds \ {m}
  /\ IF Closed(m.round)'
     THEN /\ parent' = [parent EXCEPT !.status = "running"]
          /\ pc' = "aggregate" /\ job' = "report" /\ up' = TRUE
     ELSE UNCHANGED <<parent, pc, job, up>>
  /\ UNCHANGED <<round, todo, starts, kidVars, base, sent, done, handed, late, budget>>

SendAggregate ==
  /\ pc = "aggregate"
  /\ sent' = sent \cup {parent.group}
  /\ pc' = "submit"
  /\ UNCHANGED <<parent, job, up, round, todo, starts, kidVars, base, result, cmds,
                 done, handed, late, budget>>

(* The parent's worker dies at any point; what it had not acknowledged     *)
(* comes back.                                                             *)
ParentCrash ==
  /\ up /\ Spend("crashes")
  /\ up' = FALSE /\ pc' = "idle" /\ job' = "none" /\ todo' = {} /\ starts' = {}
  /\ UNCHANGED <<parent, round, kidVars, base, result, sent, cmds, done, handed, late>>

(* recoverThread: to the barrier, whose aggregate is sent, again if it     *)
(* must be, or to the latest checkpoint.                                   *)
RecoverParent ==
  LET barrier == parent.group > 0 /\ ~parent.active
  IN /\ ~up /\ pc = "idle" /\ parent.status \in {"running", "reconciling", "waiting_children"}
     /\ up' = TRUE /\ job' = "recover"
     /\ parent' = [parent EXCEPT
          !.active = FALSE,
          !.status = IF ~barrier THEN "reconciling"
                     ELSE IF Closed(parent.group) THEN "running" ELSE "waiting_children"]
     /\ pc' = IF ~barrier THEN "submit"
              ELSE IF Closed(parent.group) THEN "aggregate" ELSE "idle"
     /\ UNCHANGED <<round, todo, starts, kidVars, base, result, sent, cmds, done,
                    handed, late, budget>>
-----------------------------------------------------------------------------
ParentStep ==
  \/ ResponseCreated \/ CreateGroup \/ WaitForChildren \/ EndTurn
  \/ (\E S \in SUBSET Docs : AskDocuments(S)) \/ (\E d \in Docs : PrepareChild(d))
  \/ (\E c \in starts : PublishStart(c))
  \/ PublishQuery \/ SendAggregate \/ RecoverParent

KidStep(d) ==
  \/ KidResponds(d) \/ KidEndsTurn(d, TRUE) \/ ClearInvocation(d) \/ PublishReport(d)
  \/ KidReturns(d) \/ RecoverKid(d)

Deliver ==
  \/ \E c \in Starts : HandleStart(c) \/ SkipStart(c)
  \/ \E m \in Reports : DropReport(m) \/ HandOver(m) \/ RecordReport(m)

Trouble ==
  \/ OpeningFails \/ NotAttached \/ HandOverFails \/ ParentCrash
  \/ \E d \in Docs : KidEndsTurn(d, FALSE) \/ KidErrs(d) \/ KidCrash(d) \/ IdleRelease(d)
  \/ \E c \in Starts : StartConflict(c)

Next == ParentStep \/ (\E d \in Docs : KidStep(d)) \/ Deliver \/ Trouble

Spec == Init /\ [][Next]_vars

(* Handlers go on and commands are delivered. *)
FairSpec ==
  /\ Spec
  /\ WF_vars(ParentStep) /\ \A d \in Docs : WF_vars(KidStep(d))
  /\ WF_vars(Deliver)
-----------------------------------------------------------------------------
(* Properties. *)

Statuses == {"absent", "new", "running", "reconciling", "waiting_children", "ready",
             "completed", "failed"}
Phases == {"none", "warmup", "query"}
Rows == [status : Statuses, group : 0..MaxRounds, mode : Phases, phase : Phases,
         last : Responses, active : BOOLEAN]
StartCommands == [kind : {"start"}, doc : Docs, round : Rounds,
                  phase : {"warmup", "query"}, resp : Responses]
ReportCommands == [kind : {"report"}, doc : Docs, round : Rounds, phase : {"none"},
                   resp : Responses]

(* Every variable has its type. *)
TypeOK ==
  /\ parent \in [status : Statuses, group : 0..MaxRounds, active : BOOLEAN]
  /\ pc \in {"idle", "submit", "stream", "prepare", "publish", "hand_over", "aggregate"}
  /\ job \in {"none", "start", "report", "recover"}
  /\ round \in 0..MaxRounds /\ todo \subseteq Docs /\ starts \subseteq StartCommands
  /\ kid \in [Docs -> Rows] /\ mem \in [Docs -> Rows] /\ kup \subseteq Docs
  /\ kpc \in [Docs -> {"idle", "submit", "stream", "clear", "publish", "return"}]
  /\ base \in [Docs -> Responses]
  /\ cmds \subseteq StartCommands \cup ReportCommands
  /\ \A s \in Rounds \X Docs : result[s] \in [mark : {"absent", "pending", "completed", "failed"}, resp : Responses]
  /\ sent \subseteq Rounds /\ handed \subseteq Docs \X Rounds /\ late \subseteq Docs

(* DOCUMENT_CHAT_INTEGRATION.md: warm-ups are bootstrap steps, not final   *)
(* results.  A warm-up's own response is on record as the answer of a      *)
(* document only if its report was handled twice (the second time the      *)
(* child's row no longer says that it is one), or if a start ran late.     *)
WarmupIsNoAnswer ==
  \A r \in Rounds, d \in Docs :
    /\ result[<<r, d>>].mark = "completed" /\ result[<<r, d>>].resp.phase = "warmup"
    => <<d, r>> \in handed \/ d \in late

(* DOCUMENT_CHAT_INTEGRATION.md: "no inheritance of one thread's document   *)
(* Q&A history into another thread by default".  The base lineage that all *)
(* threads share is a completed warm-up, never an answer to one of them.   *)
BaseIsWarm ==
  \A d \in Docs : base[d] = NoResponse \/ (base[d].phase = "warmup" /\ base[d].ok)

(* ... which only a start that runs late or again can break: a start asks  *)
(* the child for no status, and makes its row what the start says.         *)
BaseIsWarmOnTime ==
  \A d \in Docs : \/ base[d] = NoResponse \/ d \in late
                  \/ (base[d].phase = "warmup" /\ base[d].ok)

(* With warm-ups, reuse, retries and recovery the group keeps the promise  *)
(* of an abstract barrier: one outcome for each document, and no aggregate *)
(* before the last.                                                        *)
Group == INSTANCE Barrier WITH
  Groups <- Rounds, Members <- Docs, Outcomes <- {"completed", "failed"},
  outcome <- [s \in Rounds \X Docs |-> result[s].mark], submitted <- sent

IsBarrier == Group!Spec

(* What a round gets as its answer was asked in that round, but for such a *)
(* late start: no reused child, lineage or recovery brings up an old one.  *)
AnswersItsRound ==
  \A r \in Rounds, d \in Docs :
    Settled(<<r, d>>) => result[<<r, d>>].resp.round = r \/ d \in late

(* A parent that waits for its documents goes on, if nothing fails, nobody *)
(* crashes and every start finds its way to the child's owner.             *)
RoundsEnd == Waits ~> ~Waits \/ budget # Untroubled
=============================================================================
