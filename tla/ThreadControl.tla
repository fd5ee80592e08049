--------------------------- MODULE ThreadControl ----------------------------
(***************************************************************************)
(* What a user does to a thread from outside, while workers run it: the    *)
(* HTTP API creates a root thread, submits inputs and cancels, disconnects *)
(* the session of the whole tree, archives and deletes it; and what the    *)
(* recovery sweep does to threads that nobody owns any more.               *)
(*                                                                         *)
(* The API reads rows and leases, and publishes commands; it shares no     *)
(* lock with the handlers.  A turn is one step of a handler here, what     *)
(* happens within it is in ToolTurn and SpawnBarrier, leases that run out  *)
(* under a living worker are in ThreadOwnership.                           *)
(***************************************************************************)
EXTENDS Integers, Sequences, FiniteSets

CONSTANTS Workers,
          MaxAttempts,     \* recovery attempts for a thread in a worker's life
          MaxEvents        \* bound: requests after the creation, crashes and
                           \* failed publishes, together

ASSUME BoundsAreNat == MaxAttempts \in Nat \ {0} /\ MaxEvents \in Nat

Anyone == "anyone"        \* a dispatch subject
Nobody == "nobody"
ASSUME NamesAreFree == Anyone \notin Workers /\ Nobody \notin Workers

(* The root and one child, in the order ListSubtreeThreads has them.       *)
Tree == <<"root", "kid">>
Threads == {"root", "kid"}

Terminal == {"completed", "cancelled"}
HoldsIdleSocket == {"ready", "waiting_children"}

(* In the middle of something. *)
Active == {"running", "reconciling", "waiting_children"}

(* Mutation: a parent that waits needs no worker. *)
SweptStatuses_Turns == {"running", "reconciling"}

(* recoverySweepStatuses *)
SweptStatuses == {"running", "reconciling", "waiting_children"}

VARIABLES
  row,         \* thread -> its row; the status of a row that is not there is none
  lease,       \* thread -> its row in thread_owners
  live,        \* workers that did not crash
  h,           \* worker -> thread -> the handler that its actor runs
  cmds,        \* commands not yet acknowledged
  ids,         \* ids that JetStream has seen
  api,         \* the request that the API serves
  tries,       \* worker -> thread -> recoveryAttempts
  wound,       \* history: a cascade came to its end
  deleted,     \* history: a tree was deleted
  odd,         \* history: what makes a promise void
  left         \* the bounds

vars == <<row, lease, live, h, cmds, ids, api, tries, wound, deleted, odd, left>>

NoRow == [status |-> "none", gen |-> 0, owner |-> Nobody, archived |-> FALSE]
NoLease == [worker |-> Nobody, gen |-> 0]
NoCommand == [id |-> <<"none", "none", 0, "none">>, kind |-> "none", thread |-> "root",
              gen |-> 0, to |-> Nobody]
Idle == [at |-> "idle", cmd |-> NoCommand, meta |-> NoRow]
NoList == [t \in Threads |-> [kind |-> "none", gen |-> 0]]
NoRequest == [at |-> "idle", op |-> "none", list |-> NoList, n |-> 1]

Init ==
  /\ row = [t \in Threads |-> NoRow] /\ lease = [t \in Threads |-> NoLease]
  /\ live = Workers
  /\ h = [w \in Workers |-> [t \in Threads |-> Idle]]
  /\ cmds = {} /\ ids = {}
  /\ api = NoRequest
  /\ tries = [w \in Workers |-> [t \in Threads |-> 0]]
  /\ wound = FALSE /\ deleted = FALSE /\ odd = {}
  /\ left = MaxEvents

Spend == left > 0 /\ left' = left - 1

There(t) == row[t].status # "none"
LeaseLive(t) == lease[t].worker \in live

(* resolveCommandSubject *)
Route(t, kind) == IF kind = "start" \/ ~LeaseLive(t) THEN Anyone ELSE lease[t].worker

(* JetStream drops what has an id that it has seen. *)
Publish(cmd) == /\ cmds' = IF cmd.id \in ids THEN cmds ELSE cmds \cup {cmd}
                /\ ids' = ids \cup {cmd.id}
-----------------------------------------------------------------------------
(* The requests. *)

apiFrame == <<lease, live, h, tries, deleted>>

Start(t) == [id |-> <<"start", t, 0, "once">>, kind |-> "start", thread |-> t,
             gen |-> 0, to |-> Anyone]

(* handleCreateThread: the row first, then the command. *)
CreateThread ==
  /\ api.at = "idle" /\ ~There("root") /\ ~deleted /\ Start("root").id \notin ids
  /\ row' = [row EXCEPT !["root"] = [NoRow EXCEPT !.status = "new"]]
  /\ Publish(Start("root"))
  /\ UNCHANGED <<apiFrame, api, wound, odd, left>>

(* It fails: the thread stays new, and neither a sweep nor a cascade looks *)
(* at it.                                                                  *)
CreateFails ==
  /\ api.at = "idle" /\ ~There("root") /\ ~deleted /\ Start("root").id \notin ids
  /\ Spend
  /\ row' = [row EXCEPT !["root"] = [NoRow EXCEPT !.status = "new"]]
  /\ ids' = ids \cup {Start("root").id}
  /\ UNCHANGED <<apiFrame, cmds, api, wound, odd>>

Readable(t) == There(t) /\ ~row[t].archived

(* handleSubmitCommand: an input, or a cancel, to the thread's owner and   *)
(* then for the generation of the lease.  An input to a thread that has no *)
(* response yet, which its handler refuses, is left out.                   *)
Submit(t, kind) ==
  /\ api.at = "idle" /\ Readable(t) /\ Spend
  /\ kind = "resume" => t = "root" /\ row[t].status \notin Terminal \cup {"new"}
  /\ LET to == Route(t, kind) IN
     Publish([id |-> <<kind, t, left, "once">>, kind |-> kind, thread |-> t,
              gen |-> IF to = Anyone THEN 0 ELSE lease[t].gen, to |-> to])
  /\ UNCHANGED <<apiFrame, row, api, wound, odd>>

(* Mutation: a parent that waits is left alone. *)
CascadeCommand_Turns(status) ==
  IF status \in {"running", "reconciling"} THEN "cancel"
  ELSE IF status = "ready" THEN "disconnect" ELSE "none"

(* cascadeCommandForStatus *)
CascadeCommand(status) ==
  IF status \in {"running", "reconciling", "waiting_children"} THEN "cancel"
  ELSE IF status = "ready" THEN "disconnect" ELSE "none"

(* cascadeDisconnectSession, for a disconnect or as the first part of an   *)
(* archive: one look at the tree ...                                       *)
ListTree(op) ==
  /\ api.at = "idle" /\ Readable("root") /\ Spend
  /\ api' = [at |-> "send", op |-> op, n |-> 1,
             list |-> [t \in Threads |-> [kind |-> CascadeCommand(row[t].status),
                                          gen |-> row[t].gen]]]
  /\ UNCHANGED <<apiFrame, row, cmds, ids, wound, odd>>

(* ... and a command for each thread, routed by the lease it has by then.  *)
(* The id is kept for the thread, the generation and the kind: JetStream   *)
(* drops what a cascade that failed has sent before.                       *)
SendNext ==
  /\ api.at = "send" /\ api.n <= Len(Tree)
  /\ api' = [api EXCEPT !.n = @ + 1]
  /\ LET t == Tree[api.n]
         item == api.list[t]
         id == <<item.kind, t, item.gen, "cascade">>
     IN  IF item.kind = "none"
         THEN UNCHANGED <<cmds, ids, odd>>
         ELSE /\ Publish([id |-> id, kind |-> item.kind, thread |-> t,
                          gen |-> item.gen, to |-> Route(t, item.kind)])
              /\ odd' = IF id \in ids THEN odd \cup {"again"} ELSE odd
  /\ UNCHANGED <<apiFrame, row, wound, left>>

(* A publish fails, and so does the request. *)
SendFails ==
  /\ api.at = "send" /\ api.n <= Len(Tree) /\ Spend
  /\ api' = NoRequest
  /\ UNCHANGED <<apiFrame, row, cmds, ids, wound, odd>>

CascadeEnds ==
  /\ api.at = "send" /\ api.n > Len(Tree)
  /\ wound' = TRUE
  /\ api' = IF api.op = "archive" THEN [api EXCEPT !.at = "archive"] ELSE NoRequest
  /\ UNCHANGED <<apiFrame, row, cmds, ids, odd, left>>

(* ArchiveRootThread *)
Archive ==
  /\ api.at = "archive"
  /\ row' = IF There("root") THEN [row EXCEPT !["root"].archived = TRUE] ELSE row
  /\ api' = NoRequest
  /\ UNCHANGED <<apiFrame, cmds, ids, wound, odd, left>>

(* Mutation: a lease on an idle thread is no reason. *)
Busy_Status == \E t \in Threads : row[t].status \in Active \cup {"new"}

(* threadTreeBusyTx *)
Busy == \E t \in Threads : There(t) /\ (\/ row[t].status \in Active \cup {"new"}
                                        \/ LeaseLive(t))

(* Mutation: the lease of a dead worker stays. *)
Delete_KeepsLeases ==
  /\ api.at = "idle" /\ There("root") /\ ~Busy /\ Spend
  /\ row' = [t \in Threads |-> NoRow]
  /\ deleted' = TRUE
  /\ UNCHANGED <<lease, live, h, cmds, ids, api, tries, wound, odd>>

(* DeleteRootThread; the leases go with the rows. *)
Delete ==
  /\ api.at = "idle" /\ There("root") /\ ~Busy /\ Spend
  /\ row' = [t \in Threads |-> NoRow] /\ lease' = [t \in Threads |-> NoLease]
  /\ deleted' = TRUE
  /\ UNCHANGED <<live, h, cmds, ids, api, tries, wound, odd>>
-----------------------------------------------------------------------------
(* The handlers. *)

frame == <<live, ids, api, tries, wound, deleted, left>>

At(w, t, place) == h[w][t].at = place
Goto(w, t, place) == h' = [h EXCEPT ![w][t].at = place]

(* The handler returns; the command is acknowledged. *)
Return(w, t) == h' = [h EXCEPT ![w][t] = Idle]
Done(w, t) == Return(w, t) /\ cmds' = cmds \ {h[w][t].cmd}

Deliverable(w, c) ==
  /\ w \in live /\ c \in cmds /\ c.to \in {w, Anyone} /\ At(w, c.thread, "idle")
  /\ \A v \in Workers : h[v][c.thread].cmd # c

(* What each handler asks of the row before it changes anything. *)
Accepted(c) ==
  LET r == row[c.thread] IN
  /\ There(c.thread) \/ c.kind = "start"
  /\ c.gen \in {0, r.gen}
  /\ c.kind = "report" => r.status = "waiting_children"
  /\ c.kind = "disconnect" => r.status \in HoldsIdleSocket

(* A handler loads the row; a start makes it where it is missing.          *)
Take(w, c) ==
  /\ Deliverable(w, c) /\ Accepted(c)
  /\ LET t == c.thread
         r == IF There(t) THEN row[t] ELSE [NoRow EXCEPT !.status = "new"]
     IN  /\ row' = [row EXCEPT ![t] = r]
         /\ h' = [h EXCEPT ![w][t] =
                    [at |-> CASE c.kind = "cancel" -> "cancel"
                              [] c.kind = "disconnect" -> "release"
                              [] OTHER -> "claim",
                     cmd |-> c, meta |-> r]]
         /\ odd' = IF There(t) THEN odd ELSE odd \cup {"ghost"}
  /\ UNCHANGED <<frame, lease, cmds>>

Refuse(w, c) ==
  /\ Deliverable(w, c) /\ ~Accepted(c)
  /\ cmds' = cmds \ {c}
  /\ UNCHANGED <<frame, row, lease, h, odd>>

(* A cascade is under way or has been. *)
Cascading == wound \/ api.at # "idle"

(* ClaimOwnership; a row that is gone, or a lease of another, ends it.  A  *)
(* lease that a thread did not have is none that the cascade has seen.     *)
Claim(w, t) ==
  /\ At(w, t, "claim")
  /\ IF There(t) /\ (lease[t].worker = w \/ ~LeaseLive(t))
     THEN LET holder == IF lease[t] = NoLease THEN row[t].owner ELSE lease[t].worker
              seen == IF lease[t] = NoLease THEN row[t].gen ELSE lease[t].gen
              gen == IF holder # w \/ seen = 0 THEN seen + 1 ELSE seen
          IN  /\ lease' = [lease EXCEPT ![t] = [worker |-> w, gen |-> gen]]
              /\ row' = [row EXCEPT ![t].owner = w, ![t].gen = gen]
              /\ h' = [h EXCEPT ![w][t] = [@ EXCEPT !.at = "save", !.meta.owner = w,
                                                    !.meta.gen = gen]]
              /\ odd' = IF Cascading /\ ~LeaseLive(t) THEN odd \cup {"moved"} ELSE odd
              /\ UNCHANGED cmds
     ELSE Done(w, t) /\ UNCHANGED <<row, lease, odd>>
  /\ UNCHANGED frame

(* Mutation: the whole row, archived_at too. *)
Saved_Whole(t, meta) == meta

(* SaveThread: the handler's copy, but a thread stays archived. *)
Saved(t, meta) == [meta EXCEPT !.archived = @ \/ row[t].archived]

(* The turn begins; a recovered parent that waits goes on waiting.  Only   *)
(* the turn that the report to a waiting parent begins is one that a       *)
(* cascade has seen coming.                                                *)
BeginTurn(w, t) ==
  /\ At(w, t, "save")
  /\ LET kind == h[w][t].cmd.kind
         meta == h[w][t].meta
         status == CASE kind = "recover" /\ meta.status = "waiting_children" -> meta.status
                     [] kind = "recover" -> "reconciling"
                     [] OTHER -> "running"
         saved == Saved(t, [meta EXCEPT !.status = status])
         seen == kind = "report" /\ row[t].status = "waiting_children"
     IN  /\ row' = [row EXCEPT ![t] = saved]
         /\ IF status = "waiting_children"
            THEN Done(w, t)
            ELSE /\ h' = [h EXCEPT ![w][t] = [@ EXCEPT !.at = "turn", !.meta = saved]]
                 /\ UNCHANGED cmds
         /\ odd' = IF Cascading /\ ~seen THEN odd \cup {"moved"} ELSE odd
  /\ UNCHANGED <<frame, lease>>

(* The root's turn ends, or opens a group with the child.                  *)
EndTurn(w) ==
  /\ At(w, "root", "turn")
  /\ row' = [row EXCEPT !["root"] = Saved("root", [h[w]["root"].meta EXCEPT !.status = "ready"])]
  /\ Done(w, "root")
  /\ UNCHANGED <<frame, lease, odd>>

Spawn(w) ==
  /\ At(w, "root", "turn") /\ ~There("kid") /\ Start("kid").id \notin ids
  /\ row' = [row EXCEPT
       !["root"] = Saved("root", [h[w]["root"].meta EXCEPT !.status = "waiting_children"]),
       !["kid"] = [NoRow EXCEPT !.status = "new"]]
  /\ cmds' = (cmds \ {h[w]["root"].cmd}) \cup {Start("kid")}
  /\ ids' = ids \cup {Start("kid").id}
  /\ Return(w, "root")
  /\ UNCHANGED <<live, api, tries, wound, deleted, left, lease, odd>>

(* The child's turn ends.  A child that can be used again stays ready and  *)
(* keeps its session, another is completed and released.  The report goes  *)
(* to the owner in the parent's row.                                       *)
EndChildTurn(w) ==
  /\ At(w, "kid", "turn")
  /\ LET meta == h[w]["kid"].meta
         to == IF row["root"].owner = Nobody THEN Anyone ELSE row["root"].owner
         report == [id |-> <<"report", "root", 0, "once">>, kind |-> "report",
                    thread |-> "root", gen |-> 0, to |-> to]
     IN  /\ \/ /\ row' = [row EXCEPT !["kid"] = [meta EXCEPT !.status = "ready"]]
               /\ UNCHANGED lease
            \/ /\ row' = [row EXCEPT !["kid"] = [meta EXCEPT !.status = "completed",
                                                             !.owner = Nobody]]
               /\ lease' = [lease EXCEPT !["kid"] = IF @.worker = w THEN NoLease ELSE @]
         /\ cmds' = (cmds \ {h[w]["kid"].cmd}) \cup (IF There("root") THEN {report} ELSE {})
  /\ Return(w, "kid")
  /\ UNCHANGED <<frame, odd>>

(* handleCancel: it saves the row, and claims nothing.                     *)
Cancel(w, t) ==
  /\ At(w, t, "cancel")
  /\ row' = [row EXCEPT ![t] = Saved(t, [h[w][t].meta EXCEPT !.status = "cancelled"])]
  /\ odd' = IF There(t) THEN odd ELSE odd \cup {"ghost"}
  /\ Goto(w, t, "release")
  /\ UNCHANGED <<frame, lease, cmds>>

(* ReleaseOwnership, for the generation the handler has loaded. *)
Release(w, t) ==
  /\ At(w, t, "release")
  /\ IF lease[t] = [worker |-> w, gen |-> h[w][t].meta.gen]
     THEN /\ lease' = [lease EXCEPT ![t] = NoLease]
          /\ row' = [row EXCEPT ![t].owner = Nobody]
     ELSE UNCHANGED <<lease, row>>
  /\ odd' = IF lease[t].worker \in live \ {w} THEN odd \cup {"stale"} ELSE odd
  /\ Done(w, t)
  /\ UNCHANGED frame
-----------------------------------------------------------------------------
(* A worker dies: its leases run out, and its subject is read by nobody.   *)
Crash(w) ==
  /\ w \in live /\ live # {w} /\ Spend
  /\ \E t \in Threads : lease[t].worker = w \/ ~At(w, t, "idle")
  /\ live' = live \ {w}
  /\ h' = [h EXCEPT ![w] = [t \in Threads |-> Idle]]
  /\ odd' = odd \cup {"crash"}
  /\ UNCHANGED <<row, lease, cmds, ids, api, tries, wound, deleted>>

Sweeps(w, t) == /\ w \in live /\ row[t].status \in SweptStatuses /\ ~LeaseLive(t)
                /\ tries[w][t] < MaxAttempts

(* recoverThread of the sweep: a thread whose lease ran out.  The attempt  *)
(* counts, be the command a duplicate of another sweep's or not.           *)
Sweep(w, t) ==
  /\ Sweeps(w, t)
  /\ tries' = [tries EXCEPT ![w][t] = @ + 1]
  /\ LET newest == IF row[t].gen > lease[t].gen THEN row[t].gen ELSE lease[t].gen IN
     Publish([id |-> <<"recover", t, newest, row[t].status>>, kind |-> "recover",
              thread |-> t, gen |-> lease[t].gen, to |-> Anyone])
  /\ UNCHANGED <<row, lease, live, h, api, wound, deleted, odd, left>>
-----------------------------------------------------------------------------
Handle(w, t) ==
  \/ \E c \in cmds : c.thread = t /\ (Take(w, c) \/ Refuse(w, c))
  \/ Claim(w, t) \/ BeginTurn(w, t) \/ Cancel(w, t) \/ Release(w, t)
  \/ t = "root" /\ EndTurn(w)
  \/ t = "kid" /\ EndChildTurn(w)

Requests ==
  \/ CreateThread \/ CreateFails
  \/ \E kind \in {"resume", "cancel"} : Submit("root", kind)
  \/ \E op \in {"disconnect", "archive"} : ListTree(op)
  \/ Delete

Cascade == SendNext \/ CascadeEnds \/ Archive

Next ==
  \/ Requests \/ Cascade \/ SendFails
  \/ \E w \in Workers :
       \/ \E t \in Threads : Handle(w, t) \/ Sweep(w, t)
       \/ Spawn(w) \/ Crash(w)

Spec == Init /\ [][Next]_vars

-----------------------------------------------------------------------------
(* The state is well formed: a thread without a row has no lease, a lease  *)
(* has a generation, a dead worker runs no handler, and every command but  *)
(* a report has an id that JetStream remembers.                            *)
TypeOK ==
  /\ \A t \in Threads :
       /\ row[t].status \in {"none", "new", "ready"} \cup Active \cup Terminal
       /\ There(t) \/ (row[t] = NoRow /\ lease[t] = NoLease)
       /\ lease[t] # NoLease => lease[t].gen > 0
  /\ \A w \in Workers \ live, t \in Threads : h[w][t] = Idle
  /\ \A c \in cmds : c.id \in ids \/ c.kind = "report"
  /\ api.at \in {"idle", "send", "archive"}
  /\ odd \subseteq {"moved", "again", "ghost", "stale", "crash"}

(* A deleted tree stays deleted, though commands for it are under way and  *)
(* handlers may be between their load and their save: a turn keeps the     *)
(* tree busy.  Only a cancel, which claims nothing and saves what it has   *)
(* loaded, and a start, which makes the row it misses, bring one back.     *)
DeletedIsGone ==
  (deleted /\ "ghost" \notin odd) => \A t \in Threads : ~There(t)

(* An archived thread does not come back to the list, whatever copies of   *)
(* its row the handlers still hold.                                        *)
ArchiveStays ==
  [][row["root"].archived /\ row'["root"].status # "none"
       => row'["root"].archived \/ "ghost" \in odd']_row

(* Nothing is under way: no request, handler, deliverable command or sweep.*)
Settled ==
  /\ api.at = "idle"
  /\ \A w \in Workers, t \in Threads : At(w, t, "idle")
  /\ \A w \in live, c \in cmds : ~Deliverable(w, c)
  /\ \A w \in live, t \in Threads : ~Sweeps(w, t)

(* command_api.go 565: "cascade-disconnect so we don't leave the worker    *)
(* holding live OpenAI sockets for a thread the user thinks is gone."      *)
(* When all is settled after a cascade no thread of the tree is held,      *)
(* however turns ended and reports arrived meanwhile: unless a thread      *)
(* began a turn or took a lease that the cascade had not seen, its command *)
(* was dropped as a repetition, a cancel was handled beside the worker     *)
(* that holds the thread, or a worker crashed.                             *)
CascadeWindsDown ==
  (Settled /\ wound /\ odd \subseteq {"ghost"}) => \A t \in Threads : ~LeaseLive(t)

(* One crash, with the requests under way at the time and the sweeps of    *)
(* the others and their duplicate commands, leaves no thread in the middle *)
(* of something without a worker: none runs out of recovery attempts.      *)
NoOrphan ==
  Settled => \A t \in Threads : row[t].status \in Active => LeaseLive(t)
=============================================================================
