---------------------------- MODULE Actor_proofs ----------------------------
(***************************************************************************)
(* Proofs about two sides of a worker's actor: the turns that its handler  *)
(* runs, and the sockets it runs them over.                                *)
(*                                                                         *)
(* Of ToolTurn: type correctness, that a request answers the calls of the  *)
(* response it goes on from, and that the latest checkpoint is the request *)
(* that OpenAI works on.                                                   *)
(*                                                                         *)
(* Of SocketBudget, whose definitions carry names of their own where the   *)
(* two would clash: type correctness; that the budget drifts by at most    *)
(* one slot for each actor that lost its lease while it opened or closed,  *)
(* in either direction; and hence that it is accurate as long as none did. *)
(***************************************************************************)
EXTENDS ToolTurn, SocketBudget, FiniteSetTheorems, TLAPS

Statuses == {"running", "waiting_children", "waiting_tool", "reconciling",
             "ready", "failed", "incomplete"}
Whys == {"none", "start", "user_input", "tool_output", "page_read_followup",
         "child_barrier"}
Oddities == {"impatient", "doubled", "retry", "kept"}

AnyRequest == [from : Nat, outputs : SUBSET CallIds, why : Whys]

(* What TypeOK says, and what keeps it: a response that did not end has no *)
(* calls and no group, a handler that gets events has room for one more    *)
(* response, a thread that waits for children has a group, and one that    *)
(* reads pages a response to read them for.                                *)
RowTyped ==
  /\ row \in [status : Statuses, last : Nat, active : BOOLEAN, group : Nat]
  /\ row.last <= ended /\ row.group <= ended
  /\ row.status = "waiting_children" => row.group # 0
  /\ pc = "clear" => row.status # "waiting_children"
  /\ pc = "read" => row.last # 0
HandlerTyped ==
  /\ pc \in {"idle", "send", "checkpoint", "stream", "events", "wait", "read", "clear"}
  /\ job \in {"none", "start", "resume", "output", "report", "recover", "again"}
  /\ pc = "idle" <=> job \in {"none", "again"}
  /\ id \in Nat \X Nat /\ saved \subseteq Nat \X Nat
  /\ items \in Seq(Kinds) /\ Len(items) <= MaxCalls
  /\ up \in BOOLEAN /\ odd \subseteq Oddities
  /\ pc = "events" => ended < MaxResponses
  /\ pc = "wait" => ended > 0
RequestsTyped ==
  /\ {request, sent, ckpt} \subseteq AnyRequest
  /\ request.from <= ended /\ sent.from <= ended /\ ckpt.from <= ended
GroupsTyped ==
  /\ ended \in 0..MaxResponses
  /\ asked \in [Responses -> 0..MaxCalls]
  /\ \A r \in Responses : r > ended => asked[r] = 0
  /\ group \in [Responses -> [open : BOOLEAN, calls : SUBSET CallIds]]
  /\ \A r \in Responses : group[r].calls \subseteq CallsOf(r)
  /\ answered \subseteq Responses

Typed == RowTyped /\ HandlerTyped /\ RequestsTyped /\ GroupsTyped
-----------------------------------------------------------------------------
(* The calls of a response are call ids.                                   *)
LEMMA CallsAreIds ==
  ASSUME GroupsTyped, NEW r \in 0..ended
  PROVE  CallsOf(r) \subseteq CallIds
BY BoundsAreNat DEF GroupsTyped, CallsOf, CallIds, Responses

(* A response that ends takes a number that was free; what was asked of    *)
(* the earlier ones stays.                                                 *)
LEMMA CompleteTyped ==
  ASSUME Typed, Complete
  PROVE  /\ ended' = ended + 1 /\ ended' \in Responses /\ ended' \in 0..MaxResponses
         /\ asked' \in [Responses -> 0..MaxCalls]
         /\ asked'[ended'] = Len(items) /\ asked[ended'] = 0
         /\ \A r \in Responses : r # ended' => asked'[r] = asked[r]
         /\ \A r \in Responses : r > ended' => asked'[r] = 0
<1> USE BoundsAreNat
<1>1. ended \in Nat /\ ended < MaxResponses /\ ended' = ended + 1
  BY DEF Typed, GroupsTyped, HandlerTyped, Complete
<1>2. ended' \in Responses /\ ended' \in 0..MaxResponses
  BY <1>1 DEF Responses
<1>3. Len(items) \in 0..MaxCalls
  BY DEF Typed, HandlerTyped
<1>4. QED
  BY <1>1, <1>2, <1>3 DEF Complete, Typed, GroupsTyped, Responses

LEMMA CallsStay ==
  ASSUME Typed, Complete, NEW r \in 0..ended
  PROVE  CallsOf(r)' = CallsOf(r)
<1>1. CASE r = 0
  BY <1>1 DEF CallsOf
<1>2. CASE r # 0
  <2>1. r \in Responses /\ r # ended'
    BY <1>2, CompleteTyped, BoundsAreNat DEF Typed, GroupsTyped, Responses
  <2>2. asked'[r] = asked[r]
    BY <2>1, CompleteTyped
  <2>3. QED BY <2>2 DEF CallsOf
<1>3. QED
  BY <1>1, <1>2

LEMMA GroupsStay ==
  ASSUME Typed, Complete, group' = group
  PROVE  /\ group' \in [Responses -> [open : BOOLEAN, calls : SUBSET CallIds]]
         /\ \A r \in Responses : group'[r].calls \subseteq CallsOf(r)'
<1>1. ASSUME NEW r \in Responses PROVE group[r].calls \subseteq CallsOf(r)'
  <2>1. CASE r = ended'
    <3>1. CallsOf(r) = {}
      BY <2>1, CompleteTyped, BoundsAreNat DEF CallsOf, Responses
    <3>2. QED BY <3>1 DEF Typed, GroupsTyped
  <2>2. CASE r # ended'
    BY <2>2, CompleteTyped DEF CallsOf, Typed, GroupsTyped
  <2>3. QED BY <2>1, <2>2
<1>2. QED
  BY <1>1 DEF Typed, GroupsTyped

(* The row that is saved with a response's end.                            *)
LEMMA SaveTyped ==
  ASSUME Typed, NEW status \in Statuses, NEW last \in Nat, NEW g \in Nat,
         Save(status, last, g)
  PROVE  /\ row' \in [status : Statuses, last : Nat, active : BOOLEAN, group : Nat]
         /\ row'.status = status /\ row'.last = last /\ row'.group = g
         /\ answered' \subseteq Responses
<1>1. \A c \in request.outputs : c[1] \in Responses
  BY DEF Typed, RequestsTyped, AnyRequest, CallIds
<1>2. answered' \subseteq Responses
  BY <1>1 DEF Save, Typed, GroupsTyped
<1>3. QED
  BY <1>2 DEF Save

LEMMA BoundIsPending ==
  ASSUME Typed, NEW kind
  PROVE  Bound(kind) \subseteq 1..Len(items) /\ Pending(kind) \subseteq 1..Len(items)
BY DEF Bound, Pending, Typed, HandlerTyped
-----------------------------------------------------------------------------
(* The request of a command, whatever outputs of calls it carries.         *)
LEMMA SubmitTyped ==
  ASSUME Typed, NEW kind \in {"resume", "output", "report", "recover"},
         NEW outputs \in SUBSET CallIds, NEW why \in Whys,
         Submit(kind, outputs, why)
  PROVE  /\ request' \in AnyRequest /\ request'.from = row.last
         /\ request'.outputs = outputs /\ request'.why = why
         /\ id' \in Nat \X Nat /\ items' \in Seq(Kinds) /\ Len(items') = 0
         /\ up' = TRUE /\ job' = kind /\ pc' = "send"
<1>1. request' \in AnyRequest
  BY DEF Submit, AnyRequest, Typed, RowTyped
<1>2. items' \in Seq(Kinds) /\ Len(items') = 0
  BY DEF Submit
<1>3. QED
  BY <1>1, <1>2 DEF Submit, Typed, HandlerTyped

LEMMA ClientTyped ==
  ASSUME Typed, Resume \/ SubmitToolOutput
  PROVE  Typed'
<1>1. PICK kind \in {"resume", "output"}, outputs \in SUBSET CallIds,
           why \in {"user_input", "tool_output"} :
        Submit(kind, outputs, why) /\ Input
  <2>1. CallsOf(row.last) \subseteq CallIds
    BY CallsAreIds DEF Typed, RowTyped, GroupsTyped
  <2>2. CASE Resume
    BY <2>2 DEF Resume
  <2>3. CASE SubmitToolOutput
    <3>1. PICK c \in CallsOf(row.last) : Submit("output", {c}, "tool_output")
      BY <2>3 DEF SubmitToolOutput
    <3>2. {c} \in SUBSET CallIds
      BY <2>1
    <3>3. QED BY <2>3, <3>1, <3>2 DEF SubmitToolOutput
  <2>4. QED BY <2>2, <2>3
<1>2. /\ request' \in AnyRequest /\ request'.from = row.last
      /\ id' \in Nat \X Nat /\ items' \in Seq(Kinds) /\ Len(items') = 0
      /\ up' = TRUE /\ job' = kind /\ pc' = "send"
  BY <1>1, SubmitTyped DEF Whys
<1>3. RowTyped' /\ GroupsTyped'
  BY <1>1, <1>2 DEF Input, Typed, RowTyped, GroupsTyped, groupVars, Statuses, CallsOf
<1>4. HandlerTyped'
  BY <1>1, <1>2, BoundsAreNat DEF Input, Typed, HandlerTyped, logVars, Oddities, groupVars
<1>5. RequestsTyped'
  BY <1>1, <1>2 DEF Input, Typed, RequestsTyped, RowTyped, logVars, groupVars
<1>6. QED
  BY <1>3, <1>4, <1>5 DEF Typed

LEMMA SendTyped ==
  ASSUME Typed, Send \/ SaveCheckpoint \/ ResponseCreated
  PROVE  Typed'
<1> USE DEF Typed, RowTyped, HandlerTyped, RequestsTyped, GroupsTyped, groupVars,
            logVars, CallsOf
<1>1. CASE Send BY <1>1 DEF Send
<1>2. CASE SaveCheckpoint
  <2>1. EventId \in Nat \X Nat
    BY DEF EventId
  <2>2. QED BY <1>2, <2>1 DEF SaveCheckpoint
<1>3. CASE ResponseCreated BY <1>3 DEF ResponseCreated, Statuses
<1>4. QED BY <1>1, <1>2, <1>3

LEMMA ItemTyped ==
  ASSUME Typed, NEW kind \in Kinds, ItemDone(kind)
  PROVE  Typed'
<1>1. items' \in Seq(Kinds) /\ Len(items') <= MaxCalls
  BY BoundsAreNat DEF ItemDone, Typed, HandlerTyped
<1>2. QED
  BY <1>1 DEF ItemDone, Typed, RowTyped, HandlerTyped, RequestsTyped, GroupsTyped,
              groupVars, logVars, CallsOf

LEMMA OpenGroupTyped ==
  ASSUME Typed, NEW kind \in GroupKinds, OpenGroup(kind)
  PROVE  Typed'
<1>1. Complete
  BY DEF OpenGroup
<1>2. ({ended'} \X Bound(kind)) = CallsOf(ended)' \/ ({ended'} \X Bound(kind)) \subseteq CallsOf(ended)'
  BY <1>1, CompleteTyped, BoundIsPending, BoundsAreNat DEF CallsOf, Responses
<1>3. ({ended'} \X Bound(kind)) \subseteq CallIds
  BY <1>1, CompleteTyped, BoundIsPending, BoundsAreNat
  DEF CallIds, Responses, Typed, HandlerTyped
<1>4. GroupsTyped'
  <2>1. \A r \in Responses : r # ended' => group'[r] = group[r]
    BY DEF OpenGroup, Typed, GroupsTyped
  <2>2. group'[ended'].calls = {ended'} \X Bound(kind)
    BY <1>1, CompleteTyped DEF OpenGroup, Typed, GroupsTyped
  <2>3. group' \in [Responses -> [open : BOOLEAN, calls : SUBSET CallIds]]
    BY <1>3 DEF OpenGroup, Typed, GroupsTyped
  <2>4. ASSUME NEW r \in Responses PROVE group'[r].calls \subseteq CallsOf(r)'
    <3>1. CASE r = ended'
      BY <1>2, <2>2, <3>1
    <3>2. CASE r # ended'
      BY <1>1, <2>1, <3>2, CompleteTyped DEF CallsOf, Typed, GroupsTyped
    <3>3. QED BY <3>1, <3>2
  <2>5. QED
    BY <1>1, <2>3, <2>4, CompleteTyped DEF OpenGroup, Typed, GroupsTyped
<1>5. ended \in Nat /\ ended' = ended + 1
  BY <1>1, CompleteTyped, BoundsAreNat DEF Typed, GroupsTyped
<1>6. RowTyped'
  BY <1>5 DEF OpenGroup, Typed, RowTyped
<1>7. HandlerTyped'
  BY <1>5 DEF OpenGroup, Typed, HandlerTyped, Complete, logVars, Oddities
<1>8. RequestsTyped'
  BY <1>5 DEF OpenGroup, Typed, RequestsTyped, AnyRequest, logVars
<1>9. QED
  BY <1>4, <1>6, <1>7, <1>8 DEF Typed

(* The ends of a response that open no group.                              *)
LEMMA EndTyped ==
  ASSUME Typed, NEW status \in Statuses \ {"waiting_children"}, EndIn(status),
         group' = group
  PROVE  RowTyped' /\ GroupsTyped'
<1>1. Complete /\ ended' \in Nat /\ ended' = ended + 1
  BY CompleteTyped, BoundsAreNat DEF EndIn
<1>2. /\ row' \in [status : Statuses, last : Nat, active : BOOLEAN, group : Nat]
      /\ row'.status = status /\ row'.last = ended' /\ row'.group = row.group
      /\ answered' \subseteq Responses
  <2>1. Save(status, ended', row.group) /\ row.group \in Nat
    BY DEF EndIn, Typed, RowTyped
  <2>2. QED BY <1>1, <2>1, SaveTyped
<1>3. RowTyped'
  BY <1>1, <1>2, BoundsAreNat DEF RowTyped, Typed, GroupsTyped
<1>4. GroupsTyped'
  BY <1>1, <1>2, CompleteTyped, GroupsStay DEF GroupsTyped, Typed
<1>5. QED
  BY <1>3, <1>4

LEMMA EndResponseTyped ==
  ASSUME Typed, EndWithReads \/ EndWaiting \/ EndTurn \/ EndFailed
  PROVE  Typed'
<1>1. PICK status \in Statuses \ {"waiting_children"} : EndIn(status)
  BY DEF EndWithReads, EndWaiting, EndTurn, StatusAfter, EndFailed, Statuses
<1>2. group' = group
  BY DEF EndWithReads, EndWaiting, EndTurn, EndFailed
<1>3. RowTyped' /\ GroupsTyped'
  BY <1>1, <1>2, EndTyped
<1>4. ended' = ended + 1 /\ pc = "events"
  BY <1>1, CompleteTyped DEF EndIn, Complete
<1>5. HandlerTyped'
  BY <1>4 DEF EndWithReads, EndWaiting, EndTurn, EndFailed, Return, logVars,
              Typed, HandlerTyped, GroupsTyped
<1>6. RequestsTyped'
  BY <1>4 DEF EndWithReads, EndWaiting, EndTurn, EndFailed, Return, logVars,
              Typed, RequestsTyped, GroupsTyped, AnyRequest
<1>7. QED
  BY <1>3, <1>5, <1>6 DEF Typed

LEMMA AfterEndTyped ==
  ASSUME Typed, WaitForChildren \/ ClearInvocation \/ ReadPages
  PROVE  Typed'
<1> USE DEF logVars, groupVars, CallsOf
<1>1. CASE WaitForChildren
  <2>1. /\ row' \in [status : Statuses, last : Nat, active : BOOLEAN, group : Nat]
        /\ row'.last = ended /\ row'.group = ended
        /\ answered' \subseteq Responses
    BY <1>1, SaveTyped DEF WaitForChildren, Typed, GroupsTyped, Statuses
  <2>2. QED
    BY <1>1, <2>1 DEF WaitForChildren, Return, Typed, RowTyped, HandlerTyped,
                      RequestsTyped, GroupsTyped
<1>2. CASE ClearInvocation
  <2>1. RowTyped'
    BY <1>2, BoundsAreNat DEF ClearInvocation, Return, Typed, RowTyped, GroupsTyped
  <2>2. QED
    BY <1>2, <2>1 DEF ClearInvocation, Return, Typed, HandlerTyped, RequestsTyped,
                      GroupsTyped
<1>3. CASE ReadPages
  <2>1. PageOutputs \subseteq CallIds
    <3>1. row.last \in Responses
      BY <1>3, BoundsAreNat DEF ReadPages, Responses, Typed, RowTyped, GroupsTyped
    <3>2. Len(items) \in Nat /\ Len(items) <= MaxCalls
      BY DEF Typed, HandlerTyped
    <3>3. Pending("read") \subseteq 1..MaxCalls
      BY <3>2, BoundIsPending, BoundsAreNat
    <3>4. QED BY <3>1, <3>3 DEF PageOutputs, CallIds
  <2>2. /\ request' \in AnyRequest /\ request'.from = row.last
        /\ id' \in Nat \X Nat /\ items' \in Seq(Kinds) /\ Len(items') = 0
    BY <1>3, <2>1 DEF ReadPages, AnyRequest, Whys, Typed, RowTyped, HandlerTyped
  <2>3. QED
    BY <1>3, <2>2, BoundsAreNat
    DEF ReadPages, Typed, RowTyped, HandlerTyped, RequestsTyped, GroupsTyped
<1>4. QED
  BY <1>1, <1>2, <1>3

LEMMA FailureTyped ==
  ASSUME Typed, Refused \/ ErrorEvent \/ HandlerFails
  PROVE  Typed'
<1> USE DEF groupVars, logVars, CallsOf, Statuses
<1>1. ASSUME Err, UNCHANGED <<up, logVars, groupVars>>, odd' \subseteq Oddities
      PROVE  Typed'
  <2>1. RowTyped'
    BY <1>1 DEF Err, Return, Typed, RowTyped
  <2>2. HandlerTyped'
    BY <1>1 DEF Err, Return, Typed, HandlerTyped
  <2>3. RequestsTyped' /\ GroupsTyped'
    BY <1>1 DEF Err, Return, Typed, RequestsTyped, GroupsTyped
  <2>4. QED BY <2>1, <2>2, <2>3 DEF Typed
<1>2. CASE Refused
  BY <1>1, <1>2 DEF Refused, Typed, HandlerTyped
<1>3. CASE ErrorEvent
  BY <1>1, <1>3 DEF ErrorEvent, Typed, HandlerTyped
<1>4. CASE HandlerFails
  <2>1. /\ odd' \subseteq Oddities /\ pc # "clear"
        /\ UNCHANGED <<up, logVars, groupVars>>
    BY <1>4 DEF HandlerFails, Typed, HandlerTyped, Oddities
  <2>2. CASE /\ job \in {"start", "resume"}
             /\ request' = [from |-> IF job = "start" THEN 0 ELSE row.last, outputs |-> {},
                            why |-> IF job = "start" THEN "start" ELSE "user_input"]
             /\ id' = <<id[1], 0>> /\ pc' = "send" /\ items' = <<>>
             /\ row' = [row EXCEPT !.status = "running"]
             /\ UNCHANGED job
    <3>1. /\ request' \in AnyRequest /\ request'.from <= ended
          /\ id' \in Nat \X Nat /\ items' \in Seq(Kinds) /\ Len(items') = 0
      BY <2>2, BoundsAreNat
      DEF AnyRequest, Whys, Typed, RowTyped, HandlerTyped, GroupsTyped
    <3>2. RowTyped' /\ HandlerTyped'
      BY SMTT(30), <2>1, <2>2, <3>1, BoundsAreNat DEF Typed, RowTyped, HandlerTyped
    <3>3. RequestsTyped' /\ GroupsTyped'
      BY <2>1, <2>2, <3>1 DEF Typed, RequestsTyped, GroupsTyped
    <3>4. QED BY <3>2, <3>3 DEF Typed
  <2>3. CASE /\ job \in {"output", "report", "recover"}
             /\ Return(IF job = "recover" THEN "again" ELSE "none")
             /\ UNCHANGED row
    BY <2>1, <2>3 DEF Return, Typed, RowTyped, HandlerTyped, RequestsTyped, GroupsTyped
  <2>4. CASE Err
    BY <1>1, <2>1, <2>4
  <2>5. QED
    BY <1>4, <2>2, <2>3, <2>4 DEF HandlerFails
<1>5. QED
  BY <1>2, <1>3, <1>4

(* A thread that waits, or is recovered, has one of its own groups.        *)
LEMMA OwnGroup ==
  ASSUME Typed, row.group # 0
  PROVE  /\ row.group \in Responses
         /\ group[row.group].calls \in SUBSET CallIds
BY BoundsAreNat DEF Typed, RowTyped, GroupsTyped, Responses

LEMMA ReportTyped ==
  ASSUME Typed, HandleReport
  PROVE  Typed'
<1>1. row.group # 0
  BY DEF HandleReport, Typed, RowTyped
<1>2. /\ request' \in AnyRequest /\ request'.from = row.last
      /\ id' \in Nat \X Nat /\ items' \in Seq(Kinds) /\ Len(items') = 0
      /\ up' = TRUE /\ job' = "report" /\ pc' = "send"
  BY <1>1, OwnGroup, SubmitTyped DEF HandleReport, Whys
<1>3. /\ group' \in [Responses -> [open : BOOLEAN, calls : SUBSET CallIds]]
      /\ \A r \in Responses : group'[r].calls = group[r].calls
  BY <1>1, OwnGroup DEF HandleReport, Typed, GroupsTyped
<1>4. RowTyped'
  BY <1>2 DEF HandleReport, Typed, RowTyped, Statuses
<1>5. HandlerTyped'
  BY <1>2, BoundsAreNat DEF HandleReport, Typed, HandlerTyped, logVars
<1>6. RequestsTyped'
  BY <1>2 DEF HandleReport, Typed, RequestsTyped, RowTyped, logVars
<1>7. GroupsTyped'
  BY <1>2, <1>3 DEF HandleReport, Typed, GroupsTyped, CallsOf
<1>8. QED
  BY <1>4, <1>5, <1>6, <1>7 DEF Typed

LEMMA RecoveryTyped ==
  ASSUME Typed, Crash \/ Recover
  PROVE  Typed'
<1> USE DEF groupVars, logVars, CallsOf, Statuses
<1>1. CASE Crash
  BY <1>1 DEF Crash, Return, Typed, RowTyped, HandlerTyped, RequestsTyped, GroupsTyped
<1>2. CASE MissingCheckpoint
  BY <1>2 DEF MissingCheckpoint, Return, Typed, RowTyped, HandlerTyped, RequestsTyped,
              GroupsTyped
<1>3. CASE RecoverCheckpoint
  <2>1. /\ request' \in AnyRequest /\ request'.from <= ended
        /\ id' \in Nat \X Nat /\ items' \in Seq(Kinds) /\ Len(items') = 0
    BY <1>3 DEF RecoverCheckpoint, Typed, HandlerTyped, RequestsTyped
  <2>2. RowTyped'
    BY <1>3 DEF RecoverCheckpoint, Typed, RowTyped
  <2>3. HandlerTyped'
    BY <1>3, <2>1, BoundsAreNat DEF RecoverCheckpoint, Typed, HandlerTyped
  <2>4. RequestsTyped' /\ GroupsTyped'
    BY <1>3, <2>1 DEF RecoverCheckpoint, Typed, RequestsTyped, GroupsTyped
  <2>5. QED BY <2>2, <2>3, <2>4 DEF Typed
<1>4. CASE RecoverBarrier
  <2>1. row.group # 0 /\ odd' \subseteq Oddities
    BY <1>4 DEF RecoverBarrier, NeedsBarrier, Kept, Typed, HandlerTyped, Oddities
  <2>2. CASE /\ row' = [row EXCEPT !.status = "waiting_children"]
             /\ up' = TRUE /\ Return("none")
    BY <1>4, <2>1, <2>2 DEF RecoverBarrier, Return, Typed, RowTyped, HandlerTyped,
                            RequestsTyped, GroupsTyped
  <2>3. CASE /\ row' = [row EXCEPT !.status = "running"]
             /\ Submit("recover", group[row.group].calls, "child_barrier")
    <3>1. /\ request' \in AnyRequest /\ request'.from = row.last
          /\ id' \in Nat \X Nat /\ items' \in Seq(Kinds) /\ Len(items') = 0
          /\ up' = TRUE /\ job' = "recover" /\ pc' = "send"
      BY <2>1, <2>3, OwnGroup, SubmitTyped DEF Whys
    <3>2. RowTyped'
      BY <1>4, <2>3, <3>1 DEF RecoverBarrier, Typed, RowTyped
    <3>3. HandlerTyped'
      BY <1>4, <2>1, <3>1, BoundsAreNat DEF RecoverBarrier, Typed, HandlerTyped
    <3>4. RequestsTyped' /\ GroupsTyped'
      BY <1>4, <3>1 DEF RecoverBarrier, Typed, RowTyped, RequestsTyped, GroupsTyped
    <3>5. QED BY <3>2, <3>3, <3>4 DEF Typed
  <2>4. QED
    BY <1>4, <2>2, <2>3 DEF RecoverBarrier
<1>5. QED
  BY <1>1, <1>2, <1>3, <1>4 DEF Recover

LEMMA TypedInit == Init => Typed
<1> SUFFICES ASSUME Init PROVE Typed
  OBVIOUS
<1> USE BoundsAreNat DEF Init
<1>1. request \in AnyRequest /\ sent \in AnyRequest /\ ckpt \in AnyRequest
  BY DEF NoRequest, AnyRequest, Whys
<1>2. RowTyped /\ HandlerTyped
  BY DEF RowTyped, HandlerTyped, Statuses
<1>3. RequestsTyped
  BY <1>1 DEF RequestsTyped, NoRequest
<1>4. GroupsTyped
  BY DEF GroupsTyped, NoGroup
<1>5. QED
  BY <1>2, <1>3, <1>4 DEF Typed

LEMMA AlwaysTyped == Spec => []Typed
<1>1. Typed /\ [Next]_vars => Typed'
  <2> SUFFICES ASSUME Typed, [Next]_vars PROVE Typed'
    OBVIOUS
  <2>1. CASE Next
    <3>1. CASE Resume \/ SubmitToolOutput
      BY <3>1, ClientTyped
    <3>2. CASE Send \/ SaveCheckpoint \/ ResponseCreated
      BY <3>2, SendTyped
    <3>3. ASSUME NEW kind \in Kinds, ItemDone(kind) PROVE Typed'
      BY <3>3, ItemTyped
    <3>4. ASSUME NEW kind \in GroupKinds, OpenGroup(kind) PROVE Typed'
      BY <3>4, OpenGroupTyped
    <3>5. CASE EndWithReads \/ EndWaiting \/ EndTurn \/ EndFailed
      BY <3>5, EndResponseTyped
    <3>6. CASE WaitForChildren \/ ClearInvocation \/ ReadPages
      BY <3>6, AfterEndTyped
    <3>7. CASE Refused \/ ErrorEvent \/ HandlerFails
      BY <3>7, FailureTyped
    <3>8. CASE HandleReport
      BY <3>8, ReportTyped
    <3>9. CASE Crash \/ Recover
      BY <3>9, RecoveryTyped
    <3>10. QED
      BY <2>1, <3>1, <3>2, <3>3, <3>4, <3>5, <3>6, <3>7, <3>8, <3>9
      DEF Next, EndResponse, ServeCalls
  <2>2. CASE UNCHANGED vars
    BY <2>2 DEF vars, turnVars, logVars, groupVars, Typed, RowTyped, HandlerTyped,
                RequestsTyped, GroupsTyped, CallsOf
  <2>3. QED
    BY <2>1, <2>2
<1>2. QED
  BY <1>1, TypedInit, PTL DEF Spec

(* The state is well formed: the row names responses that ended, a         *)
(* request carries outputs of calls that were made, and the handler is     *)
(* idle exactly when it has no command.                                    *)
THEOREM TypeCorrect == Spec => []TypeOK
<1>1. Typed => TypeOK
  <2> SUFFICES ASSUME Typed PROVE TypeOK
    OBVIOUS
  <2> USE BoundsAreNat DEF Typed, GroupsTyped
  <2>1. {request, sent, ckpt} \subseteq Requests
    BY DEF RequestsTyped, AnyRequest, Requests, Whys
  <2>2. row \in [status : Statuses, last : 0..ended, active : BOOLEAN, group : 0..ended]
    BY DEF RowTyped
  <2>3. QED
    BY <2>1, <2>2 DEF TypeOK, HandlerTyped, Statuses, Oddities
<1>2. QED
  BY <1>1, AlwaysTyped, PTL

(* As long as nothing odd happened: what is sent, and what a recovery      *)
(* would send again, answers the calls of the response it goes on from;    *)
(* and so will what is about to be sent, the outputs of a group or of page *)
(* reads.  A parent waits for the group of its last response.              *)
AtRequest == pc \in {"send", "checkpoint", "stream", "events"}
Whole(g) == group[g].calls = CallsOf(g)

AnswersInv ==
  odd = {} =>
    /\ AtRequest => Answered(request)
    /\ Answered(ckpt)
    /\ pc = "wait" => Whole(ended)
    /\ pc = "read" => PageOutputs = CallsOf(row.last)
    /\ row.group # 0 => Whole(row.group)
    /\ row.status = "waiting_children" => row.group = row.last

(* As long as no handler was tried again: a request that has no checkpoint *)
(* yet has an id greater than any under which one was saved.               *)
Before(i, j) == i[1] < j[1] \/ (i[1] = j[1] /\ i[2] < j[2])

FreshIds ==
  "retry" \notin odd =>
    /\ \A i \in saved : Before(i, id) \/ i = id
    /\ pc \in {"send", "checkpoint"} => id \notin saved
    /\ pc \in {"stream", "events"} => ckpt = request

LEMMA OddStays == [Next]_vars => odd \subseteq odd'
BY DEF Next, vars, Resume, SubmitToolOutput, Input, Send, SaveCheckpoint,
       ResponseCreated, ItemDone, EndResponse, ServeCalls, OpenGroup, EndWithReads,
       EndWaiting, EndTurn, EndFailed, Refused, ErrorEvent, WaitForChildren,
       ClearInvocation, ReadPages, HandlerFails, HandleReport, Crash, Recover,
       RecoverBarrier, RecoverCheckpoint, MissingCheckpoint

(* Steps that end no response change neither what was asked nor a group's  *)
(* calls, so that an answer stays one.                                     *)
LEMMA ClientAnswers ==
  ASSUME Typed, AnswersInv, Resume \/ SubmitToolOutput, odd = {}, odd' = {}
  PROVE  AnswersInv'
<1>1. CallsOf(row.last) \subseteq request'.outputs
  BY DEF Resume, SubmitToolOutput, Input
<1>2. request'.from = row.last /\ request'.outputs = CallsOf(row.last) /\ pc' = "send"
  <2>1. CASE Resume
    BY <1>1, <2>1 DEF Resume, Submit
  <2>2. CASE SubmitToolOutput
    <3>1. PICK c \in CallsOf(row.last) : Submit("output", {c}, "tool_output")
      BY <2>2 DEF SubmitToolOutput
    <3>2. request'.from = row.last /\ request'.outputs = {c} /\ pc' = "send"
      BY <3>1 DEF Submit
    <3>3. QED BY <1>1, <3>1, <3>2
  <2>3. QED BY <2>1, <2>2
<1>3. /\ ckpt' = ckpt /\ asked' = asked /\ group' = group
      /\ row'.group = row.group /\ row'.status = "running"
  BY DEF Resume, SubmitToolOutput, Input, logVars, groupVars, Typed, RowTyped
<1>4. QED
  BY <1>2, <1>3 DEF AnswersInv, AtRequest, Answered, CallsOf, Whole

LEMMA SendAnswers ==
  ASSUME Typed, AnswersInv, odd = {},
         \/ Send \/ SaveCheckpoint \/ ResponseCreated
         \/ \E kind \in Kinds : ItemDone(kind)
  PROVE  AnswersInv'
<1> USE DEF AnswersInv, AtRequest, Answered, CallsOf, Whole, groupVars, logVars
<1>1. CASE Send BY <1>1 DEF Send
<1>2. CASE SaveCheckpoint BY <1>2 DEF SaveCheckpoint
<1>3. CASE ResponseCreated
  BY <1>3 DEF ResponseCreated, Typed, RowTyped
<1>4. ASSUME NEW kind \in Kinds, ItemDone(kind) PROVE AnswersInv'
  BY <1>4 DEF ItemDone
<1>5. QED BY <1>1, <1>2, <1>3, <1>4

(* What stays answered when a response ends.                               *)
LEMMA AnswersStay ==
  ASSUME Typed, AnswersInv, odd = {}, Complete, ckpt' = ckpt,
         \A r \in Responses : r # ended' => group'[r] = group[r]
  PROVE  Answered(ckpt)' /\ \A g \in 1..ended : Whole(g) => Whole(g)'
<1>1. ckpt.from \in 0..ended
  BY DEF Typed, RequestsTyped, AnyRequest, GroupsTyped
<1>2. CallsOf(ckpt.from)' = CallsOf(ckpt.from)
  BY <1>1, CallsStay
<1>3. Answered(ckpt)'
  BY <1>2 DEF Answered, AnswersInv
<1>4. ASSUME NEW g \in 1..ended, Whole(g) PROVE Whole(g)'
  <2>1. g \in 0..ended /\ g \in Responses /\ g # ended'
    BY SMTT(30), CompleteTyped, BoundsAreNat DEF Typed, GroupsTyped, Responses
  <2>2. CallsOf(g)' = CallsOf(g) /\ group'[g] = group[g]
    BY <2>1, CallsStay
  <2>3. QED BY <1>4, <2>2 DEF Whole
<1>5. QED
  BY <1>3, <1>4

LEMMA KindsAreFinite == IsFiniteSet(Kinds)
<1>1. IsFiniteSet({"query"}) BY FS_Singleton
<1>2. IsFiniteSet({"query"} \cup {"read"}) BY <1>1, FS_AddElement
<1>3. IsFiniteSet(({"query"} \cup {"read"}) \cup {"cite"}) BY <1>2, FS_AddElement
<1>4. IsFiniteSet((({"query"} \cup {"read"}) \cup {"cite"}) \cup {"spawn"})
  BY <1>3, FS_AddElement
<1>5. IsFiniteSet(((({"query"} \cup {"read"}) \cup {"cite"}) \cup {"spawn"}) \cup {"other"})
  BY <1>4, FS_AddElement
<1>6. Kinds = (((({"query"} \cup {"read"}) \cup {"cite"}) \cup {"spawn"}) \cup {"other"})
  BY DEF Kinds, DocumentKinds, GroupKinds
<1>7. QED BY <1>5, <1>6

(* Calls that are served are all of one kind.                              *)
LEMMA OneKind ==
  ASSUME Typed, ~WaitingTool, NEW kind,
         Pending(kind) # {} \/ ToSet(items) = {kind}
  PROVE  Pending(kind) = 1..Len(items)
<1>1. items \in Seq(Kinds) /\ DOMAIN items = 1..Len(items) /\ Len(items) \in Nat
  BY DEF Typed, HandlerTyped
<1>2. \A m \in DOMAIN items : items[m] \in ToSet(items)
  BY DEF ToSet
<1>3. \A m, n \in DOMAIN items : items[m] = items[n]
  <2> SUFFICES ASSUME NEW m \in DOMAIN items, NEW n \in DOMAIN items
               PROVE  items[m] = items[n]
    OBVIOUS
  <2>1. ToSet(items) \subseteq Kinds
    BY <1>1 DEF ToSet
  <2>2. IsFiniteSet(ToSet(items)) /\ Cardinality(ToSet(items)) \in Nat
    BY <2>1, KindsAreFinite, FS_Subset, FS_CardinalityType
  <2>3. {items[m], items[n]} \in SUBSET ToSet(items)
    BY <1>2
  <2>4. Cardinality({items[m], items[n]}) <= Cardinality(ToSet(items))
    BY <2>2, <2>3, FS_Subset
  <2>5. Cardinality(ToSet(items)) <= 1
    BY <2>2 DEF WaitingTool
  <2>6. items[m] # items[n] => Cardinality({items[m], items[n]}) = 2
    <3>1. {items[m], items[n]} = {items[m]} \cup {items[n]}
      OBVIOUS
    <3>2. IsFiniteSet({items[m]}) /\ Cardinality({items[m]}) = 1
      BY FS_Singleton
    <3>3. QED BY <3>1, <3>2, FS_AddElement
  <2>7. QED BY <2>2, <2>4, <2>5, <2>6
<1>4. ASSUME Pending(kind) # {} PROVE Pending(kind) = 1..Len(items)
  <2>1. PICK n \in DOMAIN items : items[n] = kind
    BY <1>4 DEF Pending
  <2>2. QED BY <1>1, <1>3, <2>1 DEF Pending
<1>5. ASSUME ToSet(items) = {kind} PROVE Pending(kind) = 1..Len(items)
  BY <1>1, <1>2, <1>5 DEF Pending
<1>6. QED
  BY <1>4, <1>5

(* All calls of the response are the group's, unless a spawn_threads call  *)
(* was doubled, which is odd.                                              *)
LEMMA OpenGroupAnswers ==
  ASSUME Typed, AnswersInv, NEW kind \in GroupKinds, OpenGroup(kind),
         odd = {}, odd' = {}
  PROVE  AnswersInv'
<1>1. Complete /\ \A r \in Responses : r # ended' => group'[r] = group[r]
  BY DEF OpenGroup, Typed, GroupsTyped
<1>2. Bound(kind) = Pending(kind)
  BY DEF OpenGroup
<1>3. Pending(kind) = 1..Len(items)
  BY OneKind DEF OpenGroup
<1>4. Whole(ended)'
  <2>1. group'[ended'].calls = {ended'} \X (1..Len(items))
    BY <1>1, <1>2, <1>3, CompleteTyped DEF OpenGroup, Typed, GroupsTyped
  <2>2. CallsOf(ended)' = {ended'} \X (1..Len(items))
    BY <1>1, CompleteTyped, BoundsAreNat DEF CallsOf, Responses
  <2>3. QED BY <2>1, <2>2 DEF Whole
<1>5. row' = row /\ ckpt' = ckpt /\ pc' = "wait"
  BY DEF OpenGroup, logVars
<1>6. Answered(ckpt)' /\ \A g \in 1..ended : Whole(g) => Whole(g)'
  BY <1>1, <1>5, AnswersStay
<1>7. row.group # 0 => row.group \in 1..ended
  BY DEF Typed, RowTyped, GroupsTyped
<1>8. row.group # 0 => Whole(row.group)'
  BY <1>5, <1>6, <1>7 DEF AnswersInv, Whole
<1>9. QED
  BY <1>4, <1>5, <1>6, <1>8 DEF AnswersInv, AtRequest

(* The ends of a response that open no group.                              *)
LEMMA EndAnswers ==
  ASSUME Typed, AnswersInv, odd = {},
         EndWithReads \/ EndWaiting \/ EndTurn \/ EndFailed
  PROVE  AnswersInv'
<1>1. PICK status \in Statuses \ {"waiting_children"} : EndIn(status)
  BY DEF EndWithReads, EndWaiting, EndTurn, StatusAfter, EndFailed, Statuses
<1>2. Complete /\ group' = group /\ ckpt' = ckpt
  BY <1>1 DEF EndIn, EndWithReads, EndWaiting, EndTurn, EndFailed, logVars
<1>3. row'.status = status /\ row'.last = ended' /\ row'.group = row.group
  BY <1>1 DEF EndIn, Save
<1>4. Answered(ckpt)' /\ \A g \in 1..ended : Whole(g) => Whole(g)'
  BY <1>2, AnswersStay
<1>5. row.group # 0 => row.group \in 1..ended
  BY DEF Typed, RowTyped, GroupsTyped
<1>6. row.group # 0 => Whole(row.group)'
  BY <1>3, <1>4, <1>5 DEF AnswersInv, Whole
<1>7. pc' \in {"read", "idle", "clear"}
  BY DEF EndWithReads, EndWaiting, EndTurn, EndFailed, Return
<1>8. ASSUME pc' = "read" PROVE PageOutputs' = CallsOf(row.last)'
  <2>1. EndWithReads
    BY <1>8 DEF EndWithReads, EndWaiting, EndTurn, EndFailed, Return
  <2>2. Pending("read") = 1..Len(items) /\ items' = items
    BY <2>1, OneKind DEF EndWithReads
  <2>3. PageOutputs' = {ended'} \X (1..Len(items))
    BY <1>3, <2>2 DEF PageOutputs, Pending
  <2>4. CallsOf(row.last)' = {ended'} \X (1..Len(items))
    BY <1>2, <1>3, CompleteTyped, BoundsAreNat DEF CallsOf, Responses
  <2>5. QED BY <2>3, <2>4
<1>9. QED
  BY <1>3, <1>4, <1>6, <1>7, <1>8 DEF AnswersInv, AtRequest

LEMMA AfterEndAnswers ==
  ASSUME Typed, AnswersInv, odd = {}, WaitForChildren \/ ClearInvocation \/ ReadPages
  PROVE  AnswersInv'
<1> USE DEF AnswersInv, AtRequest, Answered, CallsOf, Whole, groupVars, logVars
<1>1. CASE WaitForChildren
  <2>1. /\ row'.last = ended /\ row'.group = ended /\ pc' = "idle"
        /\ ended' = ended /\ asked' = asked /\ group' = group /\ ckpt' = ckpt
    BY <1>1 DEF WaitForChildren, Save, Return
  <2>2. pc = "wait"
    BY <1>1 DEF WaitForChildren
  <2>3. QED BY <2>1, <2>2
<1>2. CASE ClearInvocation
  <2>1. row'.group = 0 /\ row'.status = row.status /\ row'.status # "waiting_children"
    BY <1>2 DEF ClearInvocation, Typed, RowTyped
  <2>2. /\ pc' = "idle" /\ ckpt' = ckpt
        /\ ended' = ended /\ asked' = asked /\ group' = group
    BY <1>2 DEF ClearInvocation, Return
  <2>3. QED BY <2>1, <2>2
<1>3. CASE ReadPages
  BY <1>3 DEF ReadPages
<1>4. QED
  BY <1>1, <1>2, <1>3

LEMMA FailureAnswers ==
  ASSUME Typed, AnswersInv, odd' = {},
         Refused \/ ErrorEvent \/ HandlerFails \/ Crash \/ MissingCheckpoint
  PROVE  AnswersInv'
<1>1. /\ pc' = "idle" /\ odd = {}
      /\ ckpt' = ckpt /\ asked' = asked /\ group' = group
  BY DEF Refused, ErrorEvent, HandlerFails, Crash, MissingCheckpoint, Err, Return,
         logVars, groupVars
<1>2. /\ row'.group = row.group /\ row'.last = row.last
      /\ row'.status \in {row.status, "failed", "incomplete"}
  BY DEF Refused, ErrorEvent, HandlerFails, Crash, MissingCheckpoint, Err, Return,
         Typed, RowTyped
<1>3. QED
  BY <1>1, <1>2 DEF AnswersInv, AtRequest, Answered, CallsOf, Whole

(* An aggregate, of the last report or of a recovery, answers the response *)
(* that opened the group, which is the row's last.                         *)
LEMMA ReportAnswers ==
  ASSUME Typed, AnswersInv, odd = {}, HandleReport
  PROVE  AnswersInv'
<1>1. row.group # 0 /\ row.group = row.last /\ Whole(row.group)
  BY DEF HandleReport, Typed, RowTyped, AnswersInv
<1>2. /\ request'.from = row.last /\ request'.outputs = group[row.group].calls
      /\ pc' = "send"
  BY DEF HandleReport, Submit
<1>3. \A r \in Responses : group'[r].calls = group[r].calls
  BY <1>1, OwnGroup DEF HandleReport, Typed, GroupsTyped
<1>4. /\ ckpt' = ckpt /\ asked' = asked
      /\ row'.group = row.group /\ row'.status = "running"
  BY DEF HandleReport, logVars, Typed, RowTyped
<1>5. QED
  BY <1>1, <1>2, <1>3, <1>4, OwnGroup DEF AnswersInv, AtRequest, Answered, CallsOf, Whole

LEMMA RecoverBarrierAnswers ==
  ASSUME Typed, AnswersInv, RecoverBarrier, odd' = {}
  PROVE  AnswersInv'
<1>1. odd = {} /\ row.group = row.last /\ row.group # 0 /\ Whole(row.group)
  BY DEF RecoverBarrier, Kept, NeedsBarrier, AnswersInv
<1>2. ckpt' = ckpt /\ asked' = asked /\ group' = group
  BY DEF RecoverBarrier, logVars, groupVars
<1>3. row'.group = row.group /\ row'.last = row.last
  BY DEF RecoverBarrier, Typed, RowTyped
<1>4. pc' = "idle" \/ (pc' = "send" /\ Answered(request)')
  <2>1. CASE Submit("recover", group[row.group].calls, "child_barrier")
    <3>1. /\ request'.from = row.last /\ request'.outputs = group[row.group].calls
          /\ pc' = "send"
      BY <2>1 DEF Submit
    <3>2. QED BY <1>1, <1>2, <3>1 DEF Answered, CallsOf, Whole
  <2>2. CASE Return("none")
    BY <2>2 DEF Return
  <2>3. QED BY <2>1, <2>2 DEF RecoverBarrier
<1>5. QED
  BY <1>1, <1>2, <1>3, <1>4 DEF AnswersInv, AtRequest, Answered, CallsOf, Whole

LEMMA RecoverCheckpointAnswers ==
  ASSUME Typed, AnswersInv, odd = {}, RecoverCheckpoint
  PROVE  AnswersInv'
<1>1. /\ request' = ckpt /\ pc' = "send" /\ ckpt' = ckpt
      /\ asked' = asked /\ group' = group
      /\ row'.group = row.group /\ row'.status = "reconciling"
  BY DEF RecoverCheckpoint, logVars, groupVars, Typed, RowTyped
<1>2. QED
  BY <1>1 DEF AnswersInv, AtRequest, Answered, CallsOf, Whole

LEMMA AlwaysAnswers == Spec => []AnswersInv
<1>1. Init => AnswersInv
  BY DEF Init, AnswersInv, AtRequest, Answered, CallsOf, NoRequest
<1>2. Typed /\ AnswersInv /\ [Next]_vars => AnswersInv'
  <2> SUFFICES ASSUME Typed, AnswersInv, [Next]_vars, odd' = {} PROVE AnswersInv'
    BY DEF AnswersInv
  <2>1. odd = {}
    BY OddStays
  <2>2. CASE Next
    <3>1. CASE Resume \/ SubmitToolOutput
      BY <2>1, <3>1, ClientAnswers
    <3>2. CASE Send \/ SaveCheckpoint \/ ResponseCreated
      BY <2>1, <3>2, SendAnswers
    <3>3. ASSUME NEW kind \in Kinds, ItemDone(kind) PROVE AnswersInv'
      BY <2>1, <3>3, SendAnswers
    <3>4. ASSUME NEW kind \in GroupKinds, OpenGroup(kind) PROVE AnswersInv'
      BY <2>1, <3>4, OpenGroupAnswers
    <3>5. CASE EndWithReads \/ EndWaiting \/ EndTurn \/ EndFailed
      BY <2>1, <3>5, EndAnswers
    <3>6. CASE WaitForChildren \/ ClearInvocation \/ ReadPages
      BY <2>1, <3>6, AfterEndAnswers
    <3>7. CASE Refused \/ ErrorEvent \/ HandlerFails \/ Crash \/ MissingCheckpoint
      BY <3>7, FailureAnswers
    <3>8. CASE HandleReport
      BY <2>1, <3>8, ReportAnswers
    <3>9. CASE RecoverBarrier
      BY <3>9, RecoverBarrierAnswers
    <3>10. CASE RecoverCheckpoint
      BY <2>1, <3>10, RecoverCheckpointAnswers
    <3>11. QED
      BY <2>2, <3>1, <3>2, <3>3, <3>4, <3>5, <3>6, <3>7, <3>8, <3>9, <3>10
      DEF Next, EndResponse, ServeCalls, Recover
  <2>3. CASE UNCHANGED vars
    BY <2>3 DEF vars, turnVars, logVars, groupVars, AnswersInv, AtRequest, Answered,
                CallsOf, Whole, PageOutputs, Pending
  <2>4. QED
    BY <2>2, <2>3
<1>3. QED
  BY <1>1, <1>2, AlwaysTyped, PTL DEF Spec

(* A request carries the output of every function call of the response it  *)
(* goes on from, so that OpenAI takes it, for any number of responses,     *)
(* calls, crashes and failures: after page reads, barriers, tool outputs   *)
(* and every recovery.  The exceptions are in odd: an impatient client, a  *)
(* doubled spawn_threads call, a handler tried again, a group kept.        *)
THEOREM RequestsAnswer == Spec => []AnswersItsResponse
<1>1. AnswersInv => AnswersItsResponse
  BY DEF AnswersInv, AtRequest, AnswersItsResponse
<1>2. QED
  BY <1>1, AlwaysAnswers, PTL
-----------------------------------------------------------------------------
(* The steps that begin a request give it an id that is greater.           *)
Begins == /\ pc' = "send" /\ ckpt' = ckpt /\ saved' = saved
          /\ \/ id' = <<id[1] + 1, 0>>
             \/ pc = "read" /\ id' = <<id[1], id[2] + 1>>

LEMMA BeginsFresh ==
  ASSUME Typed, FreshIds, Begins, "retry" \notin odd
  PROVE  FreshIds'
<1>1. id \in Nat \X Nat /\ saved \subseteq Nat \X Nat
  BY DEF Typed, HandlerTyped
<1>2. Before(id, id')
  BY <1>1 DEF Begins, Before
<1>3. ASSUME NEW i \in saved PROVE Before(i, id')
  <2>1. i \in Nat \X Nat /\ (Before(i, id) \/ i = id)
    BY <1>1 DEF FreshIds
  <2>2. QED BY <1>1, <2>1 DEF Begins, Before
<1>4. ~Before(id', id')
  BY <1>1 DEF Begins, Before
<1>5. QED
  BY <1>3, <1>4 DEF Begins, FreshIds

LEMMA SubmitBegins ==
  ASSUME \/ Resume \/ SubmitToolOutput \/ ReadPages \/ HandleReport
         \/ RecoverCheckpoint
         \/ RecoverBarrier /\ pc' = "send"
  PROVE  Begins
BY DEF Begins, Resume, SubmitToolOutput, ReadPages, HandleReport, RecoverCheckpoint,
       RecoverBarrier, Submit, Input, Return, logVars

LEMMA SaveFresh ==
  ASSUME Typed, FreshIds, SaveCheckpoint
  PROVE  FreshIds'
<1>1. CASE "retry" \in odd
  BY <1>1 DEF SaveCheckpoint, FreshIds
<1>2. CASE "retry" \notin odd
  <2>1. EventId \notin saved
    BY <1>2 DEF SaveCheckpoint, FreshIds, EventId
  <2>2. QED
    BY <1>2, <2>1 DEF SaveCheckpoint, FreshIds, EventId, Before
<1>3. QED
  BY <1>1, <1>2

(* The other steps leave the request and its checkpoint alone.             *)
Rests == /\ UNCHANGED <<id, saved, ckpt>>
         /\ pc' = "checkpoint" => pc = "send"
         /\ pc' \in {"stream", "events"} => pc \in {"stream", "events"} /\ request' = request
         /\ pc' # "send"

LEMMA OthersRest ==
  ASSUME \/ Send \/ ResponseCreated \/ Refused \/ ErrorEvent
         \/ \E kind \in Kinds : ItemDone(kind)
         \/ \E kind \in GroupKinds : OpenGroup(kind)
         \/ EndWithReads \/ EndWaiting \/ EndTurn \/ EndFailed
         \/ WaitForChildren \/ ClearInvocation \/ Crash \/ MissingCheckpoint
         \/ RecoverBarrier /\ pc' # "send"
  PROVE  Rests
BY DEF Rests, Send, ResponseCreated, Refused, ErrorEvent, Err, ItemDone, OpenGroup,
       EndWithReads, EndWaiting, EndTurn, EndFailed, WaitForChildren, ClearInvocation,
       Crash, MissingCheckpoint, RecoverBarrier, Submit, Return, logVars

LEMMA RestsFresh ==
  ASSUME FreshIds, Rests, "retry" \notin odd
  PROVE  FreshIds'
BY DEF FreshIds, Rests

LEMMA AlwaysFresh == Spec => []FreshIds
<1>1. Init => FreshIds
  BY DEF Init, FreshIds
<1>2. Typed /\ FreshIds /\ [Next]_vars => FreshIds'
  <2> SUFFICES ASSUME Typed, FreshIds, [Next]_vars, "retry" \notin odd' PROVE FreshIds'
    BY DEF FreshIds
  <2>1. "retry" \notin odd
    BY OddStays
  <2>2. CASE Next
    <3>1. CASE \/ Resume \/ SubmitToolOutput \/ ReadPages \/ HandleReport
               \/ RecoverCheckpoint
               \/ RecoverBarrier /\ pc' = "send"
      BY <2>1, <3>1, SubmitBegins, BeginsFresh
    <3>2. CASE SaveCheckpoint
      BY <3>2, SaveFresh
    <3>3. CASE HandlerFails
      BY <3>3 DEF HandlerFails
    <3>4. CASE \/ Send \/ ResponseCreated \/ Refused \/ ErrorEvent
               \/ \E kind \in Kinds : ItemDone(kind)
               \/ \E kind \in GroupKinds : OpenGroup(kind)
               \/ EndWithReads \/ EndWaiting \/ EndTurn \/ EndFailed
               \/ WaitForChildren \/ ClearInvocation \/ Crash \/ MissingCheckpoint
               \/ RecoverBarrier /\ pc' # "send"
      BY <2>1, <3>4, OthersRest, RestsFresh
    <3>5. QED
      BY <2>2, <3>1, <3>2, <3>3, <3>4 DEF Next, EndResponse, ServeCalls, Recover
  <2>3. CASE UNCHANGED vars
    BY <2>3 DEF vars, turnVars, logVars, FreshIds
  <2>4. QED
    BY <2>2, <2>3
<1>3. QED
  BY <1>1, <1>2, AlwaysTyped, PTL DEF Spec

(* When OpenAI works on a request, the latest checkpoint is this request:  *)
(* no two requests of a thread have the same event id, whatever commands,  *)
(* page reads and recoveries they belong to, as long as no handler was     *)
(* tried again.                                                            *)
THEOREM CheckpointStaysCurrent == Spec => []CheckpointIsCurrent
<1>1. FreshIds => CheckpointIsCurrent
  BY DEF FreshIds, CheckpointIsCurrent
<1>2. QED
  BY <1>1, AlwaysFresh, PTL
-----------------------------------------------------------------------------
(* The budget of sockets.  releaseSocketSlot stops at 0, so that no slot   *)
(* can be traced to an actor once the count is off.  The proof bounds the  *)
(* count from both sides instead: it is at most what the actors may have   *)
(* taken, and at least what they must hold.                                *)

(* Every variable has its type; the counter stays within the budget. *)
THEOREM SocketTypeCorrect == SocketSpec => []SocketTypeOK
<1>1. SocketInit => SocketTypeOK
  BY MaxSocketsIsPositive DEF SocketInit, SocketTypeOK
<1>2. SocketTypeOK /\ [SocketNext]_socketVars => SocketTypeOK'
  <2> SUFFICES ASSUME SocketTypeOK, [SocketNext]_socketVars PROVE SocketTypeOK'
    OBVIOUS
  <2> USE MaxSocketsIsPositive DEF SocketTypeOK, Goto, At, Released, ReleaseUnlessReplaced
  <2>1. ASSUME NEW a \in Actors, Handler(a) PROVE SocketTypeOK'
    <3>1. ASSUME NEW rotate \in BOOLEAN, OpenFreshSession(a, rotate) PROVE SocketTypeOK'
      BY <3>1 DEF OpenFreshSession
    <3>2. CASE ReserveSocketSlot(a) BY <3>2 DEF ReserveSocketSlot
    <3>3. CASE BudgetExhausted(a) BY <3>3 DEF BudgetExhausted
    <3>4. CASE ConnectFails(a) BY <3>4 DEF ConnectFails
    <3>5. CASE Connect(a) BY <3>5 DEF Connect
    <3>6. CASE SwapSession(a) BY <3>6 DEF SwapSession
    <3>7. CASE RotateError(a) BY <3>7 DEF RotateError
    <3>8. CASE RotateRefused(a) BY <3>8 DEF RotateRefused
    <3>9. CASE ResetSession(a) BY <3>9 DEF ResetSession
    <3>10. CASE CloseAndRelease(a) BY <3>10 DEF CloseAndRelease
    <3>11. CASE RotationReturns(a) BY <3>11 DEF RotationReturns
    <3>12. CASE SelfDestruct(a) BY <3>12 DEF SelfDestruct
    <3>13. QED
      BY <2>1, <3>1, <3>2, <3>3, <3>4, <3>5, <3>6, <3>7, <3>8, <3>9, <3>10,
         <3>11, <3>12 DEF Handler
  <2>2. ASSUME NEW a \in Actors, LeaseLoop(a) PROVE SocketTypeOK'
    <3>1. CASE HandleLeaseLoss(a) BY <3>1 DEF HandleLeaseLoss
    <3>2. CASE LossReleases(a) BY <3>2 DEF LossReleases
    <3>3. CASE CancelActor(a) BY <3>3 DEF CancelActor
    <3>4. QED BY <2>2, <3>1, <3>2, <3>3 DEF LeaseLoop
  <2>3. ASSUME NEW a \in Actors, Shutdown(a) PROVE SocketTypeOK'
    <3>1. CASE Close(a) BY <3>1 DEF Close
    <3>2. CASE CloseTakesSession(a) BY <3>2 DEF CloseTakesSession
    <3>3. CASE CloseReleases(a) BY <3>3 DEF CloseReleases
    <3>4. QED BY <2>3, <3>1, <3>2, <3>3 DEF Shutdown
  <2>4. CASE UNCHANGED socketVars
    BY <2>4 DEF socketVars
  <2>5. QED
    BY <2>1, <2>2, <2>3, <2>4 DEF SocketNext
<1>3. QED
  BY <1>1, <1>2, PTL DEF SocketSpec
-----------------------------------------------------------------------------
(* The actors that may have taken a slot: those with a session, those that *)
(* open one without having had one, those that gave one up which is not    *)
(* closed yet.  What a raced actor's loss gives up is in its drift.        *)
GivesUp(a) == handler[a] \in {"closed", "refused"} \/ closing[a] = "closed"
LossOwes(a) == loss[a] = "closed" /\ a \notin raced
Took(a) == \/ session[a] \/ GivesUp(a) \/ LossOwes(a)
           \/ handler[a] \in {"dial", "opened"} /\ ~had[a]
Taken == {a \in Actors : Took(a)}

(* The actors that must hold one: an open counts even when the session it  *)
(* replaces was taken meanwhile.                                           *)
Holds(a) == \/ session[a] \/ GivesUp(a) \/ LossOwes(a)
            \/ handler[a] \in {"dial", "opened"}
Held == {a \in Actors : Holds(a)}

(* A raced actor can lack a slot once its loss released one. *)
Short(a) == a \in raced /\ loss[a] # "closed"
Lacking == {a \in Actors : Short(a)}

(* Where an actor's goroutines can be together.  An actor loses its lease  *)
(* once; without a race its handler rests while the loss is handled.       *)
Together(a) ==
  /\ handler[a] = "reserve" => ~session[a] /\ ~had[a]
  /\ handler[a] \in {"dial", "opened"} /\ ~had[a] => ~session[a]
  /\ closing[a] # "quiet" => ~live[a]
  /\ closing[a] = "closed" => ~session[a] /\ handler[a] = "idle"
  /\ a \in raced /\ live[a] => loss[a] # "quiet"
  /\ a \notin raced /\ loss[a] # "quiet"
       => ~session[a] /\ handler[a] \in {"idle", "lost"} /\ closing[a] # "closed"
  /\ a \notin raced /\ handler[a] \in {"dial", "opened"} => (session[a] <=> had[a])

Bounds == /\ used <= Cardinality(Taken) + Cardinality(raced)
          /\ Cardinality(Held) <= used + Cardinality(Lacking)

DriftInv == (\A a \in Actors : Together(a)) /\ Bounds

(* What a step of an actor does to the two bounds. *)
One(P) == IF P THEN 1 ELSE 0
OthersKept(a) ==
  \A b \in Actors \ {a} :
    /\ session'[b] = session[b] /\ had'[b] = had[b] /\ handler'[b] = handler[b]
    /\ loss'[b] = loss[b] /\ closing'[b] = closing[b] /\ live'[b] = live[b]
    /\ b \in raced' <=> b \in raced
Ceiling(a) == One(Took(a)) + One(a \in raced)
Floor(a) == One(Holds(a)) - One(Short(a))
Counted(a) ==
  /\ used' = 0 \/ used' - used <= Ceiling(a)' - Ceiling(a)
  /\ used' - used >= Floor(a)' - Floor(a)
CountedStep(a) == OthersKept(a) /\ Together(a)' /\ Counted(a)

(* A set that changes at one element has one element more, or less.        *)
LEMMA CardinalityStep ==
  ASSUME NEW A, IsFiniteSet(A), NEW B, NEW a,
         \A b : b # a => (b \in A <=> b \in B)
  PROVE  /\ IsFiniteSet(B)
         /\ Cardinality(A) \in Nat /\ Cardinality(B) \in Nat
         /\ Cardinality(B) = Cardinality(A) + One(a \in B) - One(a \in A)
<1>1. Cardinality(A) \in Nat
  BY FS_CardinalityType
<1>2. CASE a \in A <=> a \in B
  <2>1. A = B
    BY <1>2
  <2>2. QED BY <1>1, <1>2, <2>1 DEF One
<1>3. CASE a \in B /\ a \notin A
  <2>1. B = A \cup {a}
    BY <1>3
  <2>2. IsFiniteSet(B) /\ Cardinality(B) = Cardinality(A) + 1
    BY <1>3, <2>1, FS_AddElement
  <2>3. QED BY <1>1, <1>3, <2>2 DEF One
<1>4. CASE a \in A /\ a \notin B
  <2>1. B = A \ {a}
    BY <1>4
  <2>2. IsFiniteSet(B) /\ Cardinality(B) = Cardinality(A) - 1
    BY <1>4, <2>1, FS_RemoveElement
  <2>3. Cardinality(B) \in Nat
    BY <2>2, FS_CardinalityType
  <2>4. QED BY <1>1, <1>4, <2>2, <2>3 DEF One
<1>5. QED
  BY <1>2, <1>3, <1>4

LEMMA SetsAreFinite ==
  ASSUME SocketTypeOK
  PROVE  /\ IsFiniteSet(Taken) /\ IsFiniteSet(Held)
         /\ IsFiniteSet(raced) /\ IsFiniteSet(Lacking)
<1>1. /\ Taken \subseteq Actors /\ Held \subseteq Actors
      /\ raced \subseteq Actors /\ Lacking \subseteq Actors
  BY DEF Taken, Held, Lacking, SocketTypeOK
<1>2. QED
  BY <1>1, ActorsAreFinite, FS_Subset

(* A step that keeps the bounds of its own actor keeps them for all.       *)
LEMMA BoundsKept ==
  ASSUME NEW a \in Actors, SocketTypeOK, SocketTypeOK', DriftInv, CountedStep(a)
  PROVE  DriftInv'
<1>1. ASSUME NEW b \in Actors \ {a}
      PROVE /\ (Took(b)' <=> Took(b)) /\ (Holds(b)' <=> Holds(b))
            /\ (Short(b)' <=> Short(b)) /\ Together(b)'
  BY DEF CountedStep, OthersKept, Took, Holds, Short, GivesUp, LossOwes,
         DriftInv, Together
<1>2. \A b \in Actors : Together(b)'
  BY <1>1 DEF CountedStep
<1>3. /\ \A b : b # a => (b \in Taken <=> b \in Taken')
      /\ \A b : b # a => (b \in Held <=> b \in Held')
      /\ \A b : b # a => (b \in Lacking <=> b \in Lacking')
  BY <1>1 DEF Taken, Held, Lacking
<1>4. \A b : b # a => (b \in raced <=> b \in raced')
  BY DEF CountedStep, OthersKept, SocketTypeOK
<1>5. /\ Cardinality(Taken) \in Nat /\ Cardinality(Taken') \in Nat
      /\ Cardinality(Taken') = Cardinality(Taken) + One(Took(a)') - One(Took(a))
  <2>1. (a \in Taken <=> Took(a)) /\ (a \in Taken' <=> Took(a)')
    BY DEF Taken
  <2>2. /\ Cardinality(Taken) \in Nat /\ Cardinality(Taken') \in Nat
        /\ Cardinality(Taken') = Cardinality(Taken) + One(a \in Taken') - One(a \in Taken)
    BY <1>3, SetsAreFinite, CardinalityStep
  <2>3. QED BY <2>1, <2>2 DEF One
<1>6. /\ Cardinality(Held) \in Nat /\ Cardinality(Held') \in Nat
      /\ Cardinality(Held') = Cardinality(Held) + One(Holds(a)') - One(Holds(a))
  <2>1. (a \in Held <=> Holds(a)) /\ (a \in Held' <=> Holds(a)')
    BY DEF Held
  <2>2. /\ Cardinality(Held) \in Nat /\ Cardinality(Held') \in Nat
        /\ Cardinality(Held') = Cardinality(Held) + One(a \in Held') - One(a \in Held)
    BY <1>3, SetsAreFinite, CardinalityStep
  <2>3. QED BY <2>1, <2>2 DEF One
<1>7. /\ Cardinality(Lacking) \in Nat /\ Cardinality(Lacking') \in Nat
      /\ Cardinality(Lacking') = Cardinality(Lacking) + One(Short(a)') - One(Short(a))
  <2>1. (a \in Lacking <=> Short(a)) /\ (a \in Lacking' <=> Short(a)')
    BY DEF Lacking
  <2>2. /\ Cardinality(Lacking) \in Nat /\ Cardinality(Lacking') \in Nat
        /\ Cardinality(Lacking')
             = Cardinality(Lacking) + One(a \in Lacking') - One(a \in Lacking)
    BY <1>3, SetsAreFinite, CardinalityStep
  <2>3. QED BY <2>1, <2>2 DEF One
<1>8. /\ Cardinality(raced) \in Nat /\ Cardinality(raced') \in Nat
      /\ Cardinality(raced') = Cardinality(raced) + One(a \in raced') - One(a \in raced)
  BY <1>4, SetsAreFinite, CardinalityStep
<1>9. used \in Nat /\ used' \in Nat
  BY DEF SocketTypeOK
<1>10. /\ used' = 0 \/ used' - used <= One(Took(a)') + One(a \in raced')
                                        - (One(Took(a)) + One(a \in raced))
       /\ used' - used >= One(Holds(a)') - One(Short(a)') - (One(Holds(a)) - One(Short(a)))
  BY DEF CountedStep, Counted, Ceiling, Floor, One
<1>11. Bounds'
  <2> DEFINE t == One(Took(a)) t2 == One(Took(a)') r == One(a \in raced)
             r2 == One(a \in raced') h1 == One(Holds(a)) h2 == One(Holds(a)')
             s == One(Short(a)) s2 == One(Short(a)')
  <2>1. {t, t2, r, r2, h1, h2, s, s2} \subseteq {0, 1}
    BY DEF One
  <2> HIDE DEF t, t2, r, r2, h1, h2, s, s2
  <2>2. used' <= Cardinality(Taken') + Cardinality(raced')
    BY <1>5, <1>8, <1>9, <1>10, <2>1 DEF DriftInv, Bounds, t, t2, r, r2
  <2>3. Cardinality(Held') <= used' + Cardinality(Lacking')
    BY <1>6, <1>7, <1>9, <1>10, <2>1 DEF DriftInv, Bounds, h1, h2, s, s2
  <2>4. QED BY <2>2, <2>3 DEF Bounds
<1>12. QED
  BY <1>2, <1>11 DEF DriftInv
-----------------------------------------------------------------------------
LEMMA HandlerCounts ==
  ASSUME NEW a \in Actors, SocketTypeOK, Together(a), Handler(a)
  PROVE  CountedStep(a)
<1> USE DEF SocketTypeOK, Together, Goto, At, ReleaseUnlessReplaced, CountedStep,
            OthersKept, Counted, Ceiling, Floor, One, Took, Holds, Short,
            GivesUp, LossOwes
<1>1. ASSUME NEW rotate \in BOOLEAN, OpenFreshSession(a, rotate)
      PROVE CountedStep(a)
  BY <1>1 DEF OpenFreshSession
<1>2. CASE ReserveSocketSlot(a) BY <1>2 DEF ReserveSocketSlot
<1>3. CASE BudgetExhausted(a) BY <1>3 DEF BudgetExhausted
<1>4. CASE ConnectFails(a) BY <1>4 DEF ConnectFails, Released
<1>5. CASE Connect(a) BY <1>5 DEF Connect
<1>6. CASE SwapSession(a) BY <1>6 DEF SwapSession
<1>7. CASE RotateError(a) BY <1>7 DEF RotateError
<1>8. CASE RotateRefused(a) BY <1>8 DEF RotateRefused
<1>9. CASE ResetSession(a) BY <1>9 DEF ResetSession
<1>10. CASE CloseAndRelease(a) BY <1>10 DEF CloseAndRelease, Released
<1>11. CASE RotationReturns(a) BY <1>11 DEF RotationReturns
<1>12. CASE SelfDestruct(a) BY <1>12 DEF SelfDestruct
<1>13. QED
  BY <1>1, <1>2, <1>3, <1>4, <1>5, <1>6, <1>7, <1>8, <1>9, <1>10, <1>11, <1>12
  DEF Handler

LEMMA LeaseLoopCounts ==
  ASSUME NEW a \in Actors, SocketTypeOK, Together(a), LeaseLoop(a)
  PROVE  CountedStep(a)
<1> USE DEF SocketTypeOK, Together, ReleaseUnlessReplaced, CountedStep,
            OthersKept, Counted, Ceiling, Floor, One, Took, Holds, Short,
            GivesUp, LossOwes
<1>1. CASE HandleLeaseLoss(a) BY <1>1 DEF HandleLeaseLoss
<1>2. CASE LossReleases(a) BY <1>2 DEF LossReleases, Released
<1>3. CASE CancelActor(a) BY <1>3 DEF CancelActor
<1>4. QED BY <1>1, <1>2, <1>3 DEF LeaseLoop

LEMMA ShutdownCounts ==
  ASSUME NEW a \in Actors, SocketTypeOK, Together(a), Shutdown(a)
  PROVE  CountedStep(a)
<1> USE DEF SocketTypeOK, Together, ReleaseUnlessReplaced, At, CountedStep,
            OthersKept, Counted, Ceiling, Floor, One, Took, Holds, Short,
            GivesUp, LossOwes
<1>1. CASE Close(a) BY <1>1 DEF Close
<1>2. CASE CloseTakesSession(a) BY <1>2 DEF CloseTakesSession
<1>3. CASE CloseReleases(a) BY <1>3 DEF CloseReleases, Released
<1>4. QED BY <1>1, <1>2, <1>3 DEF Shutdown

LEMMA BoundsHold == SocketSpec => []DriftInv
<1>1. SocketInit => DriftInv
  <2> SUFFICES ASSUME SocketInit PROVE DriftInv
    OBVIOUS
  <2>1. \A a \in Actors : Together(a) /\ ~Took(a) /\ ~Holds(a)
    BY DEF SocketInit, Together, Took, Holds, GivesUp, LossOwes
  <2>2. Taken = {} /\ Held = {} /\ raced = {} /\ Lacking = {}
    BY <2>1 DEF Taken, Held, Lacking, Short, SocketInit
  <2>3. QED BY <2>1, <2>2, FS_EmptySet DEF SocketInit, DriftInv, Bounds
<1>2. SocketTypeOK /\ SocketTypeOK' /\ DriftInv /\ [SocketNext]_socketVars => DriftInv'
  <2> SUFFICES ASSUME SocketTypeOK, SocketTypeOK', DriftInv, [SocketNext]_socketVars PROVE DriftInv'
    OBVIOUS
  <2>1. ASSUME NEW a \in Actors, Handler(a) \/ LeaseLoop(a) \/ Shutdown(a)
        PROVE DriftInv'
    BY <2>1, BoundsKept, HandlerCounts, LeaseLoopCounts, ShutdownCounts
    DEF DriftInv
  <2>2. CASE UNCHANGED socketVars
    BY <2>2 DEF socketVars, DriftInv, Bounds, Together, Taken, Held, Lacking,
                Took, Holds, Short, GivesUp, LossOwes
  <2>3. QED BY <2>1, <2>2 DEF SocketNext
<1>3. QED
  BY <1>1, <1>2, SocketTypeCorrect, PTL DEF SocketSpec
-----------------------------------------------------------------------------
(* For any number of actors and any ceiling: no sequence of opens,         *)
(* replacements, failed dials, rotations, resets, losses and shutdowns     *)
(* miscounts the sessions by more than one for each actor that lost its    *)
(* lease while its handler opened or closed a session.                     *)
THEOREM DriftBounded == SocketSpec => []DriftIsBounded
<1>1. SocketTypeOK /\ DriftInv => DriftIsBounded
  <2> SUFFICES ASSUME SocketTypeOK, DriftInv, Settled
               PROVE  /\ used <= Cardinality(Holders) + Cardinality(raced)
                      /\ Cardinality(Holders) <= used + Cardinality(raced)
    BY DEF DriftIsBounded
  <2>1. Taken = Holders /\ Held = Holders
    BY DEF Taken, Held, Took, Holds, GivesUp, LossOwes, Settled, Holders
  <2>2. Lacking = raced
    BY DEF Lacking, Short, Settled, SocketTypeOK
  <2>3. QED BY <2>1, <2>2 DEF DriftInv, Bounds
<1>2. QED
  BY <1>1, SocketTypeCorrect, BoundsHold, PTL

(* Without a race between the two goroutines of an actor, every path that  *)
(* opens or closes a session keeps the budget accurate: the slots in use   *)
(* are the sessions.                                                       *)
THEOREM AccurateUnlessRaced == SocketSpec => [](raced = {} => BudgetIsAccurate)
<1>1. SocketTypeOK /\ DriftIsBounded => (raced = {} => BudgetIsAccurate)
  <2> SUFFICES ASSUME SocketTypeOK, DriftIsBounded, raced = {}, Settled
               PROVE  used = Cardinality(Holders)
    BY DEF BudgetIsAccurate
  <2>1. IsFiniteSet(Holders)
    BY ActorsAreFinite, FS_Subset DEF Holders
  <2>2. Cardinality(Holders) \in Nat /\ Cardinality(raced) = 0
    BY <2>1, FS_CardinalityType, FS_EmptySet
  <2>3. QED BY <2>2 DEF DriftIsBounded, SocketTypeOK
<1>2. QED
  BY <1>1, SocketTypeCorrect, DriftBounded, PTL
=============================================================================
