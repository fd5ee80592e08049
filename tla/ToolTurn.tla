------------------------------ MODULE ToolTurn ------------------------------
(***************************************************************************)
(* The chain of responses of one root thread at OpenAI.  Every request     *)
(* names the response it goes on from, and must carry the outputs of all   *)
(* function calls of that response, or OpenAI refuses it.  The outputs     *)
(* come from four places: the handler itself, which reads pages and goes   *)
(* on at once; a barrier, when the children of a group have answered; the  *)
(* client, by a tool output; and the latest checkpoint, which a recovery   *)
(* sends again.                                                            *)
(*                                                                         *)
(* Children and their reports are in SpawnBarrier, DocumentQuery and       *)
(* CitationRound: here a group is open until its aggregate is due.  What a *)
(* command does when it is delivered twice is in CommandDelivery.          *)
(***************************************************************************)
EXTENDS Integers, Sequences, FiniteSets, SequencesExt

CONSTANTS MaxResponses,    \* bound: responses that end
          MaxCalls,        \* bound: function calls of one response
          MaxInputs,       \* bound: commands of the client
          MaxCrashes,      \* bound: workers that crash
          MaxFailures      \* bound: handlers that fail, responses that err

ASSUME BoundsAreNat == /\ MaxResponses \in Nat /\ MaxCalls \in Nat /\ MaxInputs \in Nat
                       /\ MaxCrashes \in Nat /\ MaxFailures \in Nat

(* The tools that a root thread with documents is offered; those whose     *)
(* calls open a group; and "other", a call that the worker cannot serve:   *)
(* an unknown tool, bad arguments, or one too many of its kind.            *)
DocumentKinds == {"query", "read", "cite"}
GroupKinds == {"spawn", "query", "cite"}
Kinds == DocumentKinds \cup GroupKinds \cup {"other"}

Responses == 1..MaxResponses
CallIds == Responses \X (1..MaxCalls)

VARIABLES
  row,       \* threads row: status, last and active response, group
  pc,        \* where the thread's handler stands
  job,       \* the kind of command it works on
  id,        \* <<command, turn>>: what the event id of the request is made of
  up,        \* the owner lives
  request,   \* the latest response.create: what it goes on from, its outputs
  sent,      \* the latest request that went out
  ckpt,      \* the latest checkpoint, a request
  saved,     \* ids under which a checkpoint was saved
  items,     \* kinds of the calls streamed so far
  ended,     \* number of responses that ended
  asked,     \* response -> number of its calls
  group,     \* response -> the group its calls opened
  odd,       \* history: what happened that the worker does not provide for
  answered,  \* history: groups with a response to their aggregate
  inputs, budget

turnVars == <<pc, job, id, request, items>>
logVars == <<sent, ckpt, saved>>
groupVars == <<ended, asked, group, answered>>
vars == <<row, turnVars, up, logVars, groupVars, odd, inputs, budget>>

NoRequest == [from |-> 0, outputs |-> {}, why |-> "none"]
NoGroup == [open |-> FALSE, calls |-> {}]

CallsOf(r) == IF r = 0 THEN {} ELSE {r} \X (1..asked[r])
Answered(q) == q.outputs = CallsOf(q.from)

Terminal(status) == status \in {"completed", "failed", "cancelled", "incomplete"}

Init ==
  /\ row = [status |-> "running", last |-> 0, active |-> FALSE, group |-> 0]
  /\ pc = "send" /\ job = "start" /\ id = <<1, 0>> /\ up = TRUE
  /\ request = [NoRequest EXCEPT !.why = "start"]
  /\ sent = NoRequest /\ ckpt = NoRequest /\ saved = {} /\ items = <<>>
  /\ ended = 0 /\ asked = [r \in Responses |-> 0] /\ group = [r \in Responses |-> NoGroup]
  /\ odd = {} /\ answered = {} /\ inputs = 0
  /\ budget = [crashes |-> MaxCrashes, failures |-> MaxFailures]

Spend(what) == /\ budget[what] > 0
               /\ budget' = [budget EXCEPT ![what] = @ - 1]

(* A command's first request goes on from the row's last response.         *)
Submit(kind, outputs, why) ==
  /\ request' = [from |-> row.last, outputs |-> outputs, why |-> why]
  /\ id' = <<id[1] + 1, 0>>
  /\ job' = kind /\ pc' = "send" /\ items' = <<>> /\ up' = TRUE

(* The handler returns. *)
Return(next) ==
  /\ pc' = "idle" /\ job' = next
  /\ UNCHANGED <<id, request, items>>
-----------------------------------------------------------------------------
(* The client.  Nothing keeps it from an input before the thread is ready. *)

Input ==
  /\ pc = "idle" /\ job # "again"
  /\ inputs < MaxInputs /\ ended < MaxResponses
  /\ inputs' = inputs + 1
  /\ row' = [row EXCEPT !.status = "running"]
  /\ odd' = IF CallsOf(row.last) \subseteq request'.outputs THEN odd ELSE odd \cup {"impatient"}
  /\ UNCHANGED <<logVars, groupVars, budget>>

Resume ==
  /\ ~Terminal(row.status) /\ row.last # 0
  /\ Submit("resume", {}, "user_input")
  /\ Input

(* One output for each command. *)
SubmitToolOutput ==
  /\ row.status \in {"waiting_tool", "ready"}
  /\ \E c \in CallsOf(row.last) : Submit("output", {c}, "tool_output")
  /\ Input
-----------------------------------------------------------------------------
(* The handler: sendAndStream. *)

Send ==
  /\ pc = "send"
  /\ sent' = request /\ pc' = "checkpoint"
  /\ UNCHANGED <<row, job, id, request, items, up, ckpt, saved, groupVars, odd, inputs, budget>>

(* Mutation: every request of a command has the same id. *)
EventId_Command == id[1]

EventId == id

(* The history stream drops what comes again under an id of its window, so *)
(* only a request with a new id surely becomes the latest checkpoint.      *)
SaveCheckpoint ==
  /\ pc = "checkpoint"
  /\ \/ ckpt' = request
     \/ EventId \in saved /\ UNCHANGED ckpt
  /\ saved' = saved \cup {EventId}
  /\ pc' = "stream"
  /\ UNCHANGED <<row, job, id, request, items, up, sent, groupVars, odd, inputs, budget>>

ResponseCreated ==
  /\ pc = "stream" /\ Answered(request) /\ ended < MaxResponses
  /\ row' = [row EXCEPT !.status = "running", !.active = TRUE]
  /\ pc' = "events"
  /\ UNCHANGED <<job, id, request, items, up, logVars, groupVars, odd, inputs, budget>>

(* response.output_item.done with a function call. *)
ItemDone(kind) ==
  /\ pc = "events"
  /\ Len(items) < MaxCalls /\ ended + 1 < MaxResponses
  /\ items' = Append(items, kind)
  /\ UNCHANGED <<row, pc, job, id, request, up, logVars, groupVars, odd, inputs, budget>>

Pending(kind) == {n \in DOMAIN items : items[n] = kind}

(* Mutation: a response with calls of several kinds is served. *)
WaitingTool_Mixed == Pending("other") # {}

(* Some call cannot be served, or they are of several kinds. *)
WaitingTool == Pending("other") # {} \/ Cardinality(ToSet(items)) > 1

(* The calls that a group answers: those of its kind, but of several       *)
(* spawn_threads calls only the last is kept.                              *)
Bound(kind) ==
  {n \in Pending(kind) : kind # "spawn" \/ \A l \in Pending(kind) : l <= n}

(* The response takes its number. *)
Complete ==
  /\ pc = "events" /\ ended' = ended + 1
  /\ asked' = [asked EXCEPT ![ended'] = Len(items)]

(* The row is saved with what the response ended in. *)
Save(status, last, groupId) ==
  /\ row' = [status |-> status, last |-> last, active |-> FALSE, group |-> groupId]
  /\ answered' = IF request.why = "child_barrier"
                 THEN answered \cup {c[1] : c \in request.outputs} ELSE answered

EndIn(status) == Complete /\ Save(status, ended', row.group)

(* startSpawnGroup, startDocumentQueryGroup, startCitationLocatorGroup. *)
OpenGroup(kind) ==
  /\ ~WaitingTool /\ Pending(kind) # {} /\ kind \in GroupKinds
  /\ Complete
  /\ group' = [group EXCEPT ![ended'] = [open |-> TRUE, calls |-> {ended'} \X Bound(kind)]]
  /\ odd' = IF Bound(kind) = Pending(kind) THEN odd ELSE odd \cup {"doubled"}
  /\ pc' = "wait"
  /\ UNCHANGED <<row, job, id, request, items, up, logVars, answered, inputs, budget>>

(* Then the row is saved, with the group's id. *)
WaitForChildren ==
  /\ pc = "wait"
  /\ Save("waiting_children", ended, ended)
  /\ Return("none")
  /\ UNCHANGED <<up, logVars, ended, asked, group, odd, inputs, budget>>

EndWithReads ==
  /\ ~WaitingTool /\ ToSet(items) = {"read"}
  /\ EndIn("running")
  /\ pc' = "read"
  /\ UNCHANGED <<job, id, request, items, up, logVars, group, odd, inputs, budget>>

EndWaiting ==
  /\ WaitingTool
  /\ EndIn("waiting_tool")
  /\ Return("none")
  /\ UNCHANGED <<up, logVars, group, odd, inputs, budget>>

(* successfulResponseThreadStatus, of a root thread. *)
StatusAfter == "ready"

EndTurn ==
  /\ items = <<>>
  /\ EndIn(StatusAfter)
  /\ pc' = "clear"
  /\ UNCHANGED <<job, id, request, items, up, logVars, group, odd, inputs, budget>>

(* response.failed or response.incomplete: its calls are not looked at. *)
EndFailed ==
  /\ Spend("failures")
  /\ \E status \in {"failed", "incomplete"} : EndIn(status)
  /\ pc' = "clear"
  /\ UNCHANGED <<job, id, request, items, up, logVars, group, odd, inputs>>

(* clearCompletedInvocationState: the turn is over, and so is its group. *)
ClearInvocation ==
  /\ pc = "clear"
  /\ row' = [row EXCEPT !.group = 0]
  /\ Return("none")
  /\ UNCHANGED <<up, logVars, groupVars, odd, inputs, budget>>

Err == /\ row' = [row EXCEPT !.status = "failed", !.active = FALSE]
       /\ Return("none")

(* The error event ends the handler; the command is not delivered again.   *)
Refused ==
  /\ pc = "stream" /\ ~Answered(request)
  /\ Err
  /\ UNCHANGED <<up, logVars, groupVars, odd, inputs, budget>>

ErrorEvent ==
  /\ pc \in {"stream", "events"} /\ Spend("failures")
  /\ Err
  /\ UNCHANGED <<up, logVars, groupVars, odd, inputs>>

(* An output for each call, the page or an error. *)
PageOutputs == {row.last} \X Pending("read")

(* executePendingPageReads *)
ReadPages ==
  /\ pc = "read"
  /\ request' = [from |-> row.last, outputs |-> PageOutputs,
                 why |-> "page_read_followup"]
  /\ id' = <<id[1], id[2] + 1>>
  /\ items' = <<>> /\ pc' = "send"
  /\ UNCHANGED <<row, job, up, logVars, groupVars, odd, inputs, budget>>

(* A step fails, and the command is delivered again.  A start or resume    *)
(* does all its steps again, from the response that is now the row's last; *)
(* so does a reconcile.  A tool output or a report no longer finds the     *)
(* status it asks for, and the thread stays as it is.  Or the retries are  *)
(* used up, and the thread fails.                                          *)
HandlerFails ==
  /\ pc \in {"send", "checkpoint", "stream", "events", "wait", "read"}
  /\ Spend("failures")
  /\ odd' = odd \cup {"retry"}
  /\ \/ /\ job \in {"start", "resume"}
        /\ request' = [from |-> IF job = "start" THEN 0 ELSE row.last, outputs |-> {},
                       why |-> IF job = "start" THEN "start" ELSE "user_input"]
        /\ id' = <<id[1], 0>> /\ pc' = "send" /\ items' = <<>>
        /\ row' = [row EXCEPT !.status = "running"]
        /\ UNCHANGED job
     \/ /\ job \in {"output", "report", "recover"}
        /\ Return(IF job = "recover" THEN "again" ELSE "none")
        /\ UNCHANGED row
     \/ Err
  /\ UNCHANGED <<up, logVars, groupVars, inputs>>
-----------------------------------------------------------------------------
(* The barrier's last report, a crash, and the recovery. *)

HandleReport ==
  /\ pc = "idle" /\ row.status = "waiting_children" /\ group[row.group].open
  /\ group' = [group EXCEPT ![row.group].open = FALSE]
  /\ row' = [row EXCEPT !.status = "running"]
  /\ Submit("report", group[row.group].calls, "child_barrier")
  /\ UNCHANGED <<logVars, ended, asked, answered, odd, inputs, budget>>

(* Mutation: a worker that dies in a recovery leaves the thread to nobody. *)
Swept_Once == row.status \in {"running", "waiting_children"}

(* recoverySweepStatuses *)
Swept == row.status \in {"running", "reconciling", "waiting_children"}

Crash ==
  /\ up /\ (pc # "idle" \/ Swept) /\ Spend("crashes")
  /\ up' = FALSE
  /\ Return("none")
  /\ UNCHANGED <<row, logVars, groupVars, odd, inputs>>

(* needsBarrierRecovery *)
NeedsBarrier == row.group # 0 /\ ~row.active

Recovering == pc = "idle" /\ (~up \/ job = "again") /\ Swept

(* The group of an older response: the turn that its aggregate began did   *)
(* not end, but went on to other calls, and the row keeps the group.       *)
Kept == IF row.group # row.last THEN {"kept"} ELSE {}

RecoverBarrier ==
  /\ Recovering /\ NeedsBarrier
  /\ odd' = odd \cup Kept
  /\ IF group[row.group].open
     THEN /\ row' = [row EXCEPT !.status = "waiting_children"]
          /\ up' = TRUE /\ Return("none")
     ELSE /\ row' = [row EXCEPT !.status = "running"]
          /\ Submit("recover", group[row.group].calls, "child_barrier")
  /\ UNCHANGED <<logVars, groupVars, inputs, budget>>

RecoverCheckpoint ==
  /\ Recovering /\ ~NeedsBarrier /\ ckpt # NoRequest
  /\ row' = [row EXCEPT !.status = "reconciling", !.active = FALSE]
  /\ request' = ckpt /\ id' = <<id[1] + 1, 0>>
  /\ job' = "recover" /\ pc' = "send" /\ items' = <<>> /\ up' = TRUE
  /\ UNCHANGED <<logVars, groupVars, odd, inputs, budget>>

MissingCheckpoint ==
  /\ Recovering /\ ~NeedsBarrier /\ ckpt = NoRequest
  /\ row' = [row EXCEPT !.status = "incomplete", !.active = FALSE]
  /\ Return("none")
  /\ UNCHANGED <<up, logVars, groupVars, odd, inputs, budget>>
-----------------------------------------------------------------------------
ServeCalls == (\E kind \in GroupKinds : OpenGroup(kind)) \/ EndWithReads
EndResponse == ServeCalls \/ EndWaiting \/ EndTurn
Recover == RecoverBarrier \/ RecoverCheckpoint \/ MissingCheckpoint

Next ==
  \/ Resume \/ SubmitToolOutput
  \/ Send \/ SaveCheckpoint \/ ResponseCreated
  \/ \E kind \in Kinds : ItemDone(kind)
  \/ EndResponse \/ EndFailed \/ Refused \/ ErrorEvent
  \/ WaitForChildren \/ ClearInvocation \/ ReadPages \/ HandlerFails
  \/ HandleReport \/ Crash \/ Recover

Spec == Init /\ [][Next]_vars

(* The handler goes on, OpenAI ends or refuses a response, the children of *)
(* a group report, and some worker's sweep finds a thread without owner.   *)
Fairness ==
  /\ WF_vars(Send) /\ WF_vars(SaveCheckpoint) /\ WF_vars(ResponseCreated)
  /\ WF_vars(EndResponse) /\ WF_vars(Refused)
  /\ WF_vars(WaitForChildren) /\ WF_vars(ClearInvocation) /\ WF_vars(ReadPages)
  /\ WF_vars(HandleReport) /\ WF_vars(Recover)

FairSpec == Spec /\ Fairness
-----------------------------------------------------------------------------
Requests == [from : 0..MaxResponses, outputs : SUBSET CallIds,
             why : {"none", "start", "user_input", "tool_output", "page_read_followup",
                    "child_barrier"}]

(* The state is well formed; a root thread is never "completed", and its   *)
(* group is one of its own responses' (successfulResponseThreadStatus).    *)
TypeOK ==
  /\ row \in [status : {"running", "waiting_children", "waiting_tool", "reconciling",
                        "ready", "failed", "incomplete"},
              last : 0..ended, active : BOOLEAN, group : 0..ended]
  /\ pc \in {"idle", "send", "checkpoint", "stream", "events", "wait", "read", "clear"}
  /\ job \in {"none", "start", "resume", "output", "report", "recover", "again"}
  /\ (pc = "idle") = (job \in {"none", "again"})
  /\ {request, sent, ckpt} \subseteq Requests
  /\ items \in Seq(Kinds) /\ Len(items) <= MaxCalls
  /\ ended \in 0..MaxResponses
  /\ \A r \in Responses : group[r].calls \subseteq CallsOf(r)
  /\ answered \subseteq Responses /\ up \in BOOLEAN
  /\ odd \subseteq {"impatient", "doubled", "retry", "kept"}

(* A request carries the output of every function call of the response it  *)
(* goes on from, so that OpenAI takes it: after page reads, barriers, tool *)
(* outputs and every recovery.  "function_calls (no matching               *)
(* function_call_output in the follow-up turn, which OpenAI rejects)",     *)
(* actor.go 2390.  The exceptions are in odd.                              *)
AnswersItsResponse ==
  pc \in {"send", "checkpoint", "stream", "events"} => Answered(request) \/ odd # {}

(* When OpenAI works on a request, the latest checkpoint is this request,  *)
(* so that a crash now replays it: the history stream did not take it for  *)
(* one it has (submitResponseCreateEventID).                               *)
CheckpointIsCurrent ==
  pc \in {"stream", "events"} => ckpt = request \/ "retry" \in odd

(* An aggregate whose response ended is not sent again.  "aggregate        *)
(* `function_call_output` is submitted once" (THREAD_BRANCHING.md).        *)
AggregateOnce ==
  [][ (pc' = "send" /\ pc # "send" /\ request'.why = "child_barrier")
        => {c[1] : c \in request'.outputs} \cap answered = {} ]_vars

(* A recovery from the history replays the request that was sent last:     *)
(* "recovery can replay the last send shape" (OPENAI_WS_RUNTIME.md).       *)
ReplaysLastSend ==
  [][ RecoverCheckpoint => request' = sent ]_vars

UnderWay == row.status \in {"running", "reconciling", "waiting_children"}

(* A turn ends: the thread becomes ready, waits for the client, or fails,  *)
(* whatever calls it makes, and whichever worker dies on the way.  A       *)
(* handler that failed may have left it running.                           *)
TurnEnds == UnderWay ~> (~UnderWay \/ "retry" \in odd)
=============================================================================
