--------------------------- MODULE CitationRound ----------------------------
(***************************************************************************)
(* A round of store_citation calls.  The parent opens a group with one     *)
(* locator child for each call; a child reports the lines it found; when   *)
(* all have reported, the handler of the last report asks documenthandler  *)
(* to finalize each of them, which commits a citation, and sends the       *)
(* outputs.  The committed citations are what the browser lists.           *)
(*                                                                         *)
(* A handler claims the thread only when the outputs are there.  Until     *)
(* then nothing keeps two workers from handling reports of one thread, or  *)
(* a report and a recovery, once the waiting thread was released and its   *)
(* commands go to whoever takes them.  A child's own turn, its crash and   *)
(* its recovery are in SpawnBarrier.                                       *)
(***************************************************************************)
EXTENDS Integers, Sequences, FiniteSets

CONSTANTS Workers,
          First,           \* the worker that ran the turn so far
          NumCalls,        \* calls of one response
          MaxRounds,       \* bound: responses with such calls
          MaxFaults        \* bound: releases of the waiting thread, crashes of a
                           \* worker, failed steps and repeated ids, together

ASSUME BoundsAreNat == /\ NumCalls \in Nat \ {0} /\ MaxRounds \in Nat \ {0}
                       /\ MaxFaults \in Nat

Nobody == "nobody"
ASSUME WorkersAreThere == First \in Workers /\ Nobody \notin Workers

Calls == 1..NumCalls
Rounds == 1..MaxRounds
Kids == Rounds \X Calls       \* a child is made for one call of one response

VARIABLES
  row,        \* the parent's row: status, active response, group, owner
  live,       \* workers that did not crash
  round,      \* number of responses with calls
  key,        \* response -> the first response with its ids, also its group
  spawn,      \* group -> its row
  started,    \* ids of start commands that were published
  kid,        \* child -> where it is
  result,     \* child -> its row in spawn_group_children
  reports,    \* reports not yet acknowledged
  h,          \* worker -> the handler its actor of the parent runs
  citations,  \* the citations, a sequence
  sent,       \* requests sent with outputs
  odd,        \* history: what happened that the code does not provide for
  faults

kidVars == <<started, kid>>
spawnVars == <<round, key, spawn, result>>
vars == <<row, live, spawnVars, kidVars, reports, h, citations, sent, odd, faults>>

(* What a locator reports: lines that finalize accepts, or nothing of use, *)
(* be it that it failed or that it completed without such lines.           *)
Outcomes == {"located", "nothing"}
Settled(r) == r \in Outcomes

(* An output is a citation's id, or an error. *)
Error == 0

NoReport == [kid |-> <<0, 0>>, to |-> Nobody, outcome |-> "nothing"]
NoHandler == [at |-> "idle", job |-> "none", report |-> NoReport, submitted |-> FALSE,
              closed |-> FALSE, snap |-> [n \in Calls |-> "absent"], out |-> <<>>]

Init ==
  /\ row = [status |-> "running", active |-> TRUE, group |-> 0, owner |-> First]
  /\ h = [[w \in Workers |-> NoHandler] EXCEPT ![First].at = "stream", ![First].job = "open"]
  /\ live = Workers
  /\ round = 0 /\ key = [r \in Rounds |-> r]
  /\ spawn = [g \in Rounds |-> [bindings |-> 0, submitted |-> FALSE]]
  /\ started = {} /\ kid = [c \in Kids |-> "none"]
  /\ result = [c \in Kids |-> "absent"]
  /\ reports = {} /\ citations = <<>> /\ sent = {} /\ odd = {}
  /\ faults = 0

Fault == faults < MaxFaults /\ faults' = faults + 1

At(w, place) == h[w].at = place
Goto(w, place) == h' = [h EXCEPT ![w].at = place]

(* The handler returns, and its command is acknowledged. *)
Return(w) == /\ h' = [h EXCEPT ![w] = NoHandler]
             /\ reports' = reports \ {h[w].report}
-----------------------------------------------------------------------------
(* startCitationLocatorGroup, when the response is completed. *)

(* LoadOrCreateSpawnGroup, keyed by the id of the first call.  A retried   *)
(* turn has a new response; should it repeat the ids, it finds the group.  *)
(* Each call's input is prepared, and a child is made for it all the same. *)
StartGroup(w) ==
  /\ At(w, "stream") /\ round < MaxRounds
  /\ round' = round + 1
  /\ \/ UNCHANGED <<key, odd, faults>>
     \/ /\ round > 0 /\ Fault
        /\ key' = [key EXCEPT ![round'] = key[round]]
        /\ odd' = odd \cup {"repeat"}
  /\ kid' = [c \in Kids |-> IF c[1] = round' THEN "new" ELSE kid[c]]
  /\ Goto(w, "bind")
  /\ UNCHANGED <<row, live, spawn, result, started, reports, citations, sent>>

Group == key[round]

(* The bindings of calls to children are saved, unless there are some.     *)
SaveBindings(w) ==
  /\ At(w, "bind")
  /\ spawn' = [spawn EXCEPT ![Group].bindings = IF @ = 0 THEN round ELSE @]
  /\ Goto(w, "create")
  /\ UNCHANGED <<row, live, round, key, result, kidVars, reports, citations, sent, odd, faults>>

(* CreateSpawnGroup *)
AddChildren(w) ==
  /\ At(w, "create")
  /\ result' = [c \in Kids |-> IF c[1] = round THEN "pending" ELSE result[c]]
  /\ Goto(w, "publish")
  /\ UNCHANGED <<row, live, round, key, spawn, kidVars, reports, citations, sent, odd, faults>>

(* The id of a start is kept for the call: JetStream drops it when it      *)
(* comes again, though it is for another child.                            *)
PublishStart(w) ==
  /\ At(w, "publish")
  /\ \E n \in Calls :
       LET id == <<Group, n>> IN
       /\ kid[<<round, n>>] = "new" /\ id \notin started
       /\ \A m \in 1..(n - 1) : <<Group, m>> \in started
       /\ started' = started \cup {id}
       /\ kid' = [kid EXCEPT ![<<round, n>>] = "started"]
  /\ UNCHANGED <<row, live, spawnVars, reports, h, citations, sent, odd, faults>>

WaitForChildren(w) ==
  /\ At(w, "publish") /\ \A n \in Calls : <<Group, n>> \in started
  /\ row' = [row EXCEPT !.status = "waiting_children", !.active = FALSE, !.group = Group]
  /\ Return(w)
  /\ UNCHANGED <<live, spawnVars, kidVars, citations, sent, odd, faults>>

(* A step fails: the command is delivered again and its turn has a new     *)
(* response, whose calls open a group of their own.                        *)
OpeningFails(w) ==
  /\ h[w].at \in {"bind", "create", "publish"} /\ round < MaxRounds
  /\ Fault
  /\ Goto(w, "stream")
  /\ UNCHANGED <<row, live, spawnVars, kidVars, reports, citations, sent, odd>>
-----------------------------------------------------------------------------
(* A locator ends its one response and reports to the parent's owner, or   *)
(* to whoever takes it when there is none.                                 *)
KidReports(c) ==
  /\ kid[c] = "started"
  /\ kid' = [kid EXCEPT ![c] = "done"]
  /\ \E outcome \in Outcomes :
       reports' = reports \cup {[kid |-> c, to |-> row.owner, outcome |-> outcome]}
  /\ odd' = IF row.owner \in {Nobody} \cup live THEN odd ELSE odd \cup {"lost"}
  /\ UNCHANGED <<row, live, spawnVars, started, h, citations, sent, faults>>

(* The waiting thread's session is closed and the thread is nobody's. *)
Release ==
  /\ row.status = "waiting_children" /\ row.owner \in live /\ At(row.owner, "idle")
  /\ Fault
  /\ row' = [row EXCEPT !.owner = Nobody]
  /\ UNCHANGED <<live, spawnVars, kidVars, reports, h, citations, sent, odd>>
-----------------------------------------------------------------------------
(* handleChildResult *)

(* Another worker is about the same thread. *)
Others(w) == IF \E v \in Workers \ {w} : ~At(v, "idle") THEN {"together"} ELSE {}

Free(w, report) ==
  /\ w \in live /\ At(w, "idle")
  /\ report \in reports /\ report.to \in {w, Nobody}
  /\ \A v \in Workers : h[v].report # report

TakeReport(w, report) ==
  /\ Free(w, report)
  /\ row.status = "waiting_children" /\ row.group = key[report.kid[1]]
  /\ h' = [h EXCEPT ![w] = [NoHandler EXCEPT !.at = "upsert", !.job = "report", !.report = report,
                              !.submitted = spawn[row.group].submitted]]
  /\ odd' = odd \cup Others(w)
  /\ UNCHANGED <<row, live, spawnVars, kidVars, reports, citations, sent, faults>>

DropReport(w, report) ==
  /\ Free(w, report) /\ row.status # "waiting_children"
  /\ reports' = reports \ {report}
  /\ UNCHANGED <<row, live, spawnVars, kidVars, h, citations, sent, odd, faults>>

(* The first outcome of a child stays. *)
Stored(report) == [result EXCEPT ![report.kid] = IF Settled(@) THEN @ ELSE report.outcome]

(* Mutation: the results are listed before the report is written. *)
Seen_Before(report) == result

(* The results that an open transaction sees: those committed, and its own.*)
Seen(report) == Stored(report)

(* As many results as calls. *)
Closed(g, results) ==
  Cardinality({c \in Kids : key[c[1]] = g /\ Settled(results[c])}) >= NumCalls

(* Mutation: the children come in the opposite order. *)
BoundKid_Swapped(g, n) == <<spawn[g].bindings, (NumCalls + 1) - n>>

(* The child that the bindings give a call. *)
BoundKid(g, n) == <<spawn[g].bindings, n>>

Snap(g, results) == [n \in Calls |-> results[BoundKid(g, n)]]

UpsertResult(w) ==
  /\ At(w, "upsert")
  /\ LET g == key[h[w].report.kid[1]]
         seen == Seen(h[w].report)
     IN  h' = [h EXCEPT ![w].at = "commit", ![w].closed = Closed(g, seen),
                        ![w].snap = Snap(g, seen)]
  /\ UNCHANGED <<row, live, spawnVars, kidVars, reports, citations, sent, odd, faults>>

CommitResult(w) ==
  /\ At(w, "commit")
  /\ LET report == h[w].report
         stored == ~Settled(result[report.kid])
     IN  /\ result' = Stored(report)
         /\ IF ~stored /\ h[w].submitted
            THEN Return(w)
            ELSE /\ Goto(w, IF h[w].closed /\ ~h[w].submitted THEN "finalize" ELSE "save")
                 /\ UNCHANGED reports
  /\ UNCHANGED <<row, live, round, key, spawn, kidVars, citations, sent, odd, faults>>

(* SaveSpawnGroup writes the whole row, aggregate_submitted_at as it was   *)
(* loaded.                                                                 *)
SaveGroup(w) ==
  /\ At(w, "save")
  /\ spawn' = [spawn EXCEPT ![row.group].submitted = h[w].submitted]
  /\ IF h[w].job = "recover" /\ h[w].closed
     THEN Goto(w, "finalize") /\ UNCHANGED reports
     ELSE Return(w)
  /\ UNCHANGED <<row, live, round, key, result, kidVars, citations, sent, odd, faults>>
-----------------------------------------------------------------------------
(* aggregateCitationLocatorOutputs *)

NextCall(w) == Len(h[w].out) + 1

Output(w, o) ==
  h' = [h EXCEPT ![w].out = Append(@, o),
                 ![w].at = IF NextCall(w) = NumCalls THEN "submit" ELSE "finalize"]

(* Mutation: the id in the answer is not read. *)
Finalize_Unread(w) ==
  /\ At(w, "finalize") /\ h[w].snap[NextCall(w)] = "located"
  /\ citations' = Append(citations, BoundKid(row.group, NextCall(w)))
  /\ Output(w, Error)
  /\ UNCHANGED <<row, live, spawnVars, kidVars, reports, sent, odd, faults>>

(* documenthandler commits the citation, writes the artifact and answers.  *)
Finalize(w) ==
  /\ At(w, "finalize") /\ h[w].snap[NextCall(w)] = "located"
  /\ citations' = Append(citations, BoundKid(row.group, NextCall(w)))
  /\ Output(w, Len(citations'))
  /\ UNCHANGED <<row, live, spawnVars, kidVars, reports, sent, odd, faults>>

(* It fails before the commit, or after it; the worker cannot tell. *)
FinalizeFails(w) ==
  /\ At(w, "finalize") /\ h[w].snap[NextCall(w)] = "located"
  /\ Fault
  /\ odd' = odd \cup {"failure"}
  /\ \/ UNCHANGED citations
     \/ citations' = Append(citations, BoundKid(row.group, NextCall(w)))
  /\ Output(w, Error)
  /\ UNCHANGED <<row, live, spawnVars, kidVars, reports, sent>>

(* No result, no arguments, or lines that are not there: an error. *)
NothingFound(w) ==
  /\ At(w, "finalize") /\ h[w].snap[NextCall(w)] # "located"
  /\ Output(w, Error)
  /\ UNCHANGED <<row, live, spawnVars, kidVars, reports, citations, sent, odd, faults>>

Submit(w) ==
  /\ At(w, "submit")
  /\ spawn' = [spawn EXCEPT ![row.group].submitted = TRUE]
  /\ Goto(w, IF h[w].job = "recover" THEN "send" ELSE "claim")
  /\ UNCHANGED <<row, live, round, key, result, kidVars, reports, citations, sent, odd, faults>>

CanClaim(w) == row.owner = w \/ row.owner \notin live

(* Only now: a refused claim has the report acknowledged. *)
Claim(w) ==
  /\ At(w, "claim")
  /\ IF CanClaim(w)
     THEN /\ row' = [row EXCEPT !.status = "running", !.owner = w]
          /\ Goto(w, "send")
          /\ UNCHANGED <<reports, odd>>
     ELSE /\ Return(w)
          /\ odd' = odd \cup {"refused"}
          /\ UNCHANGED row
  /\ UNCHANGED <<live, spawnVars, kidVars, citations, sent, faults>>

Send(w) ==
  /\ At(w, "send")
  /\ sent' = sent \cup {[group |-> row.group, out |-> h[w].out]}
  /\ Goto(w, "sent")
  /\ UNCHANGED <<row, live, spawnVars, kidVars, reports, citations, odd, faults>>

(* response.created: the round is over. *)
Accepted(w) ==
  /\ At(w, "sent")
  /\ row' = [row EXCEPT !.status = "answered"]
  /\ Return(w)
  /\ UNCHANGED <<live, spawnVars, kidVars, citations, sent, odd, faults>>
-----------------------------------------------------------------------------
(* A worker's end, and the sweep of the others. *)

Crash(w) ==
  /\ w \in live /\ live # {w} /\ Fault
  /\ row.owner = w \/ ~At(w, "idle")
  /\ live' = live \ {w}
  /\ h' = [h EXCEPT ![w] = NoHandler]
  /\ odd' = odd \cup {"crash"}
             \cup (IF \E report \in reports : report.to = w THEN {"lost"} ELSE {})
             \cup (IF At(w, "claim") /\ ~CanClaim(w) THEN {"refused"} ELSE {})
  /\ UNCHANGED <<row, spawnVars, kidVars, reports, citations, sent>>

(* thread.adopt or thread.reconcile of a thread whose owner is gone. *)
Recover(w) ==
  /\ w \in live /\ At(w, "idle") /\ row.owner \notin live
  /\ row.status \in {"running", "waiting_children"}
  /\ IF row.active
     THEN /\ round < MaxRounds
          /\ row' = [row EXCEPT !.owner = w]
          /\ h' = [h EXCEPT ![w].at = "stream", ![w].job = "open"]
     ELSE /\ row' = [row EXCEPT !.status = "waiting_children", !.owner = w]
          /\ h' = [h EXCEPT ![w].at = "load", ![w].job = "recover"]
  /\ odd' = odd \cup Others(w)
  /\ UNCHANGED <<live, spawnVars, kidVars, reports, citations, sent, faults>>

(* recoverWaitingChildren *)
LoadGroup(w) ==
  /\ At(w, "load")
  /\ h' = [h EXCEPT ![w].at = "save", ![w].closed = Closed(row.group, result),
                    ![w].snap = Snap(row.group, result),
                    ![w].submitted = spawn[row.group].submitted]
  /\ UNCHANGED <<row, live, spawnVars, kidVars, reports, citations, sent, odd, faults>>
-----------------------------------------------------------------------------
Open(w) == StartGroup(w) \/ SaveBindings(w) \/ AddChildren(w)
           \/ PublishStart(w) \/ WaitForChildren(w)
Record(w) == UpsertResult(w) \/ CommitResult(w) \/ SaveGroup(w)
Aggregate(w) == Finalize(w) \/ NothingFound(w) \/ Submit(w) \/ Claim(w) \/ Send(w) \/ Accepted(w)

Next ==
  \/ \E w \in Workers :
       \/ Open(w) \/ OpeningFails(w)
       \/ \E report \in reports : TakeReport(w, report) \/ DropReport(w, report)
       \/ Record(w) \/ Aggregate(w) \/ FinalizeFails(w)
       \/ Crash(w) \/ Recover(w) \/ LoadGroup(w)
  \/ \E c \in Kids : KidReports(c)
  \/ Release

Spec == Init /\ [][Next]_vars

(* Handlers of live workers go on, locators end, reports are delivered,    *)
(* and the sweep comes by.                                                 *)
Fairness ==
  /\ \A w \in Workers :
       /\ WF_vars(Open(w)) /\ WF_vars(Record(w)) /\ WF_vars(Aggregate(w))
       /\ WF_vars(LoadGroup(w)) /\ WF_vars(Recover(w))
       /\ WF_vars(\E report \in reports : TakeReport(w, report))
  /\ \A c \in Kids : WF_vars(KidReports(c))

FairSpec == Spec /\ Fairness
-----------------------------------------------------------------------------
(* The state is well formed; only a live worker has a handler, and a       *)
(* thread that waits has a group with bindings (SaveSpawnGroup before      *)
(* CreateSpawnGroup, citation_locator.go 217).                             *)
TypeOK ==
  /\ row \in [status : {"running", "waiting_children", "answered"}, active : BOOLEAN,
              group : 0..MaxRounds, owner : Workers \cup {Nobody}]
  /\ row.status = "waiting_children" => row.group # 0 /\ spawn[row.group].bindings # 0
  /\ \A w \in Workers : w \notin live => h[w] = NoHandler
  /\ \A w \in Workers : Len(h[w].out) <= NumCalls
  /\ \A c \in Kids : /\ kid[c] \in {"none", "new", "started", "done"}
                     /\ result[c] \in {"absent", "pending"} \cup Outcomes
  /\ \A k \in DOMAIN citations : citations[k] \in Kids
  /\ odd \subseteq {"repeat", "refused", "failure", "crash", "lost", "together"}

(* What the model is told of a call is true: an id is that of a citation   *)
(* committed for this call, from the locator of this call; an error means  *)
(* that its locator found nothing, or that a step failed.  "barrier close  *)
(* matches results against the children that actually ran"                 *)
(* (citation_locator.go 234).                                              *)
OutputsAreTrue ==
  \A q \in sent : \A n \in Calls :
    IF q.out[n] # Error
    THEN q.out[n] <= Len(citations) /\ citations[q.out[n]][2] = n
         /\ key[citations[q.out[n]][1]] = q.group
    ELSE \/ result[<<spawn[q.group].bindings, n>>] = "nothing"
         \/ "failure" \in odd \/ "repeat" \in odd

(* The browser lists no citation that the model was not told of, and each  *)
(* call has one at most: unless a worker crashed, the answer of a finalize *)
(* was lost, or a claim refused, and the outputs were made twice.          *)
NoStrayCitation ==
  (row.status = "answered" /\ odd \subseteq {"repeat", "lost"})
    => /\ \A k \in DOMAIN citations : \E q \in sent, n \in Calls : q.out[n] = k
       /\ \A j, k \in DOMAIN citations : citations[j][2] = citations[k][2] => j = k

(* A thread that waits for locators gets its outputs, on whichever worker, *)
(* after a release, a crash or a failed finalize: unless a report was      *)
(* refused or went to a worker that is gone, or two handlers overlapped.   *)
RoundEnds ==
  (row.status = "waiting_children")
    ~> (row.status = "answered" \/ odd \cap {"refused", "lost", "repeat", "together"} # {})

(* docs/THREAD_BRANCHING.md 180: "parent barrier counts advance".  Also    *)
(* when two reports are handled at once, the later one closes the group.   *)
(* The code counts each in a transaction that does not see the other.      *)
LastReportCloses ==
  (row.status = "waiting_children")
    ~> (row.status = "answered" \/ odd \cap {"refused", "lost", "repeat"} # {})
=============================================================================
