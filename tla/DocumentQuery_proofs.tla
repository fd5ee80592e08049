------------------------ MODULE DocumentQuery_proofs ------------------------
(***************************************************************************)
(* Document rounds, proved for any number of documents, rounds, crashes    *)
(* and failures: the group is an abstract barrier, a warm-up is no answer, *)
(* the shared base lineage is a warm-up, and an answer belongs to its      *)
(* round, but where a start ran late.                                      *)
(*                                                                         *)
(* A child's row has two writers, so what is proved is how far the row,    *)
(* the copy in its handler's memory, the job, the checkpoint and the       *)
(* reports can be apart.  Membership says it of groups and holds of every  *)
(* document; OnTime and PhasesFit say it of rounds and of phases and hold  *)
(* of the documents of which no start ran late.                            *)
(***************************************************************************)
EXTENDS DocumentQuery, TLAPS

USE BoundsAreNat

Kinds == {"warmup", "query"}
Marks == {"absent", "pending", "completed", "failed"}

(* A thread that the recovery sweep takes up. *)
Busy(status) == status \in {"running", "reconciling", "waiting_children"}

(* What a handler works on: a start, a checkpoint that is replayed, or a   *)
(* request that answers no round.                                          *)
Jobs == [kind : {"start", "replay"}, doc : Docs, round : 0..MaxRounds, phase : Phases,
         resp : Responses]
        \cup [kind : {"none"}, doc : Docs \cup {"none"}, round : {0}, phase : {"none"},
              resp : {NoResponse}]

(* The parts of the type invariant that take a lemma each.  A busy child   *)
(* has a mode, so what it reports is the response to a warm-up or a query. *)
RowOK(x) == x \in Rows /\ (Busy(x.status) => x.mode \in Kinds)
RowsOK == /\ kid \in [Docs -> Rows] /\ mem \in [Docs -> Rows]
          /\ kpc \in [Docs -> {"idle", "submit", "stream", "clear", "publish", "return"}]
          /\ \A d \in Docs : RowOK(kid[d])
          /\ \A d \in Docs : kpc[d] # "idle" => mem[d].mode \in Kinds
          /\ \A d \in Docs : kpc[d] = "publish" => mem[d].group # 0
JobsOK == kjob \in [Docs -> Jobs] /\ ckpt \in [Docs -> Jobs]
CommandsOK == /\ starts \subseteq StartCommands
              /\ cmds \subseteq StartCommands \cup ReportCommands
ResultOK == result \in [Rounds \X Docs -> [mark : Marks, resp : Responses]]
ParentOK == /\ parent \in [status : Statuses, group : 0..MaxRounds, active : BOOLEAN]
            /\ pc \in {"idle", "submit", "stream", "prepare", "publish", "hand_over", "aggregate"}
            /\ job \in {"none", "start", "report", "recover"}
            /\ round \in 0..MaxRounds /\ todo \subseteq Docs
            /\ pc \in {"prepare", "publish"} => round > 0
            /\ pc = "aggregate" \/ Waits => parent.group > 0
HistoryOK == /\ kup \subseteq Docs /\ base \in [Docs -> Responses]
             /\ sent \subseteq Rounds /\ handed \subseteq Docs \X Rounds /\ late \subseteq Docs
Typed == RowsOK /\ JobsOK /\ CommandsOK /\ ResultOK /\ ParentOK /\ HistoryOK

LEMMA TypedIsTypeOK == Typed => TypeOK
  BY SMTT(30) DEF Typed, RowsOK, CommandsOK, ResultOK, ParentOK, HistoryOK, TypeOK, Marks

(* The steps, one by one. *)
LEMMA Steps ==
  ASSUME Next
  PROVE  \/ ResponseCreated \/ CreateGroup \/ WaitForChildren \/ EndTurn \/ PublishQuery
         \/ SendAggregate \/ RecoverParent \/ OpeningFails \/ NotAttached \/ HandOverFails
         \/ ParentCrash
         \/ \E S \in SUBSET Docs : AskDocuments(S)
         \/ \E d \in Docs :
              \/ PrepareChild(d) \/ KidResponds(d) \/ KidEndsTurn(d, TRUE)
              \/ KidEndsTurn(d, FALSE) \/ ClearInvocation(d) \/ PublishReport(d)
              \/ KidReturns(d) \/ RecoverKid(d) \/ KidErrs(d) \/ KidCrash(d) \/ IdleRelease(d)
         \/ \E c \in starts : PublishStart(c)
         \/ \E c \in Starts : HandleStart(c) \/ SkipStart(c) \/ StartConflict(c)
         \/ \E m \in Reports : DropReport(m) \/ HandOver(m) \/ RecordReport(m)
  BY DEF Next, ParentStep, KidStep, Deliver, Trouble

(* The ways in which a row of a child is changed. *)
LEMMA RowUpdates ==
  ASSUME NEW x \in Rows, NEW st \in Statuses, NEW g \in 0..MaxRounds, NEW k \in Phases,
         NEW q \in Phases, NEW resp \in Responses, NEW a \in BOOLEAN
  PROVE  /\ [x EXCEPT !.status = st, !.mode = k] \in Rows
         /\ [x EXCEPT !.status = st, !.active = a] \in Rows
         /\ [x EXCEPT !.active = a, !.status = st] \in Rows
         /\ [x EXCEPT !.status = st, !.active = a, !.last = resp] \in Rows
         /\ [x EXCEPT !.group = g] \in Rows
         /\ [x EXCEPT !.status = st, !.group = g, !.mode = k, !.phase = q] \in Rows
  BY DEF Rows

LEMMA ResponseTyped ==
  ASSUME NEW d \in Docs, NEW k \in Kinds, NEW r \in 0..MaxRounds, NEW ok \in BOOLEAN
  PROVE  Response(d, k, r, ok) \in Responses
  BY DEF Response, Responses, Kinds

LEMMA InitTyped == Init => Typed
<1> SUFFICES ASSUME Init PROVE Typed
  OBVIOUS
<1>1. NoResponse \in Responses
  BY DEF Responses
<1>2. NoRow \in Rows /\ RowOK(NoRow)
  BY <1>1 DEF NoRow, Rows, RowOK, Busy, Statuses, Phases
<1>3. NoCommand \in Jobs
  BY DEF NoCommand, Jobs
<1>4. RowsOK
  BY <1>2 DEF Init, RowsOK
<1>5. JobsOK
  BY <1>3 DEF Init, JobsOK
<1>6. Unsettled("absent") \in [mark : Marks, resp : Responses]
  BY <1>1 DEF Unsettled, Marks
<1>7. CommandsOK /\ ResultOK /\ ParentOK /\ HistoryOK
  BY <1>1, <1>6 DEF Init, CommandsOK, ResultOK, ParentOK, Waits, HistoryOK, Statuses
<1>8. QED
  BY <1>4, <1>5, <1>7 DEF Typed

(* A step that writes the row of one child, its copy or both, or neither. *)
LEMMA RowsOfOne ==
  ASSUME RowsOK, NEW d \in Docs, NEW x, NEW y, NEW place,
         RowOK(x), y \in Rows,
         place \in {"idle", "submit", "stream", "clear", "publish", "return"},
         place # "idle" => y.mode \in Kinds,
         place = "publish" => y.group # 0,
         kid' = [kid EXCEPT ![d] = x], mem' = [mem EXCEPT ![d] = y],
         kpc' = [kpc EXCEPT ![d] = place]
  PROVE  RowsOK'
<1>1. kid' \in [Docs -> Rows] /\ \A e \in Docs : RowOK(kid'[e])
  BY Zenon DEF RowsOK, RowOK
<1>2. mem' \in [Docs -> Rows]
  BY Zenon DEF RowsOK
<1>3. kpc' \in [Docs -> {"idle", "submit", "stream", "clear", "publish", "return"}]
  BY Zenon DEF RowsOK
<1>4. ASSUME NEW e \in Docs, kpc'[e] # "idle" PROVE mem'[e].mode \in Kinds
  <2>1. CASE e = d
    BY <2>1, <1>4 DEF RowsOK
  <2>2. CASE e # d
    BY <2>2, <1>4 DEF RowsOK
  <2>3. QED
    BY <2>1, <2>2
<1>5. ASSUME NEW e \in Docs, kpc'[e] = "publish" PROVE mem'[e].group # 0
  <2>1. CASE e = d
    BY <2>1, <1>5 DEF RowsOK
  <2>2. CASE e # d
    BY <2>2, <1>5 DEF RowsOK
  <2>3. QED
    BY <2>1, <2>2
<1>6. QED
  BY <1>1, <1>2, <1>3, <1>4, <1>5 DEF RowsOK

LEMMA Same ==
  ASSUME RowsOK, NEW d \in Docs
  PROVE  /\ kid = [kid EXCEPT ![d] = kid[d]] /\ mem = [mem EXCEPT ![d] = mem[d]]
         /\ kpc = [kpc EXCEPT ![d] = kpc[d]]
         /\ RowOK(kid[d]) /\ mem[d] \in Rows
         /\ kpc[d] # "idle" => mem[d].mode \in Kinds
         /\ kpc[d] = "publish" => mem[d].group # 0
         /\ kpc[d] \in {"idle", "submit", "stream", "clear", "publish", "return"}
  BY DEF RowsOK

LEMMA PreparedTyped ==
  ASSUME Typed, NEW d \in Docs, NEW r \in 0..MaxRounds, NEW k \in Kinds, Reusable(kid[d].status)
  PROVE  RowOK(Prepared(d, r, k))
<1> DEFINE x == kid[d]
           st == IF x.status = "absent" THEN "new" ELSE x.status
<1>1. x \in Rows
  BY DEF Typed, RowsOK
<1>2. st \in Statuses /\ k \in Phases /\ ~Busy(st)
  BY <1>1 DEF Rows, Statuses, Phases, Kinds, Reusable, Busy, Terminal
<1>3. Prepared(d, r, k) = [x EXCEPT !.status = st, !.group = r, !.mode = k, !.phase = k]
  BY DEF Prepared
<1> HIDE DEF x, st
<1>4. [x EXCEPT !.status = st, !.group = r, !.mode = k, !.phase = k] \in Rows
  BY <1>1, <1>2, RowUpdates, NoResponse \in Responses DEF Responses
<1>5. [x EXCEPT !.status = st, !.group = r, !.mode = k, !.phase = k].status = st
  BY <1>1 DEF Rows
<1>6. QED
  BY <1>2, <1>3, <1>4, <1>5 DEF RowOK

LEMMA RowsNext == Typed /\ [Next]_vars => RowsOK'
<1> SUFFICES ASSUME Typed, [Next]_vars PROVE RowsOK'
  OBVIOUS
<1> USE DEF Typed
<1>0. CASE UNCHANGED <<kid, mem, kpc>>
  BY <1>0 DEF RowsOK, RowOK
<1>c. \A c \in Starts : c.doc \in Docs /\ c.phase \in Kinds
  BY DEF CommandsOK, Starts, StartCommands, ReportCommands, Kinds
<1>j. \A d \in Docs : kjob[d].round \in 0..MaxRounds
  BY DEF JobsOK, Jobs
<1>r. \A d \in Docs : RowOK(kid[d]) /\ kid[d] \in Rows /\ mem[d] \in Rows
  BY DEF RowsOK, RowOK
<1>n. /\ NoResponse \in Responses /\ 0 \in 0..MaxRounds /\ round \in 0..MaxRounds
      /\ "none" \in Phases /\ Kinds \subseteq Phases
  BY DEF Responses, Kinds, Phases, ParentOK
<1>1. ASSUME NEW d \in Docs, PrepareChild(d) PROVE RowsOK'
  <2>1. PICK k \in Kinds : kid' = [kid EXCEPT ![d] = Prepared(d, round, k)]
    BY <1>1 DEF PrepareChild, Kinds
  <2>2. RowOK(Prepared(d, round, k))
    BY <1>1, <1>n, PreparedTyped DEF PrepareChild
  <2>3. mem' = [mem EXCEPT ![d] = mem[d]] /\ kpc' = [kpc EXCEPT ![d] = kpc[d]]
    BY <1>1, Same DEF PrepareChild
  <2>4. QED
    BY <2>1, <2>2, <2>3, Same, RowsOfOne
<1>2. ASSUME NEW c \in Starts, HandleStart(c) PROVE RowsOK'
  <2> DEFINE d == c.doc
             x == kid[d]
             k == c.phase
             y == [x EXCEPT !.status = "running", !.mode = k]
  <2>1. d \in Docs /\ k \in Kinds /\ x \in Rows
    BY <1>c, <1>r
  <2>2. mem' = [mem EXCEPT ![d] = y] /\ kpc' = [kpc EXCEPT ![d] = "submit"]
    BY <1>2 DEF HandleStart
  <2>3. kid' = [kid EXCEPT ![d] = y]
    <3>1. kid' = [kid EXCEPT ![d] = mem'[d]]
      BY <1>2 DEF HandleStart
    <3>2. mem'[d] = y
      BY <2>1, <2>2 DEF RowsOK
    <3>3. QED
      BY <3>1, <3>2
  <2> HIDE DEF x, d, k
  <2>4. y \in Rows
    BY <2>1, <1>n, RowUpdates DEF Statuses
  <2>5. y.mode = k
    BY <2>1 DEF Rows
  <2> HIDE DEF y
  <2>6. RowOK(y)
    BY <2>1, <2>4, <2>5 DEF RowOK
  <2>7. QED
    BY <2>1, <2>2, <2>3, <2>4, <2>5, <2>6, RowsOfOne
<1>3. ASSUME NEW d \in Docs, KidResponds(d) PROVE RowsOK'
  <2> DEFINE x == mem[d]
             y == [x EXCEPT !.active = TRUE, !.status = "running"]
  <2>1. mem' = [mem EXCEPT ![d] = y] /\ kpc' = [kpc EXCEPT ![d] = "stream"] /\ x.mode \in Kinds /\ x \in Rows
    BY <1>3, <1>r DEF KidResponds, RowsOK
  <2>3. kid' = [kid EXCEPT ![d] = y]
    <3>1. kid' = [kid EXCEPT ![d] = mem'[d]]
      BY <1>3 DEF KidResponds
    <3>2. mem'[d] = y
      BY <2>1 DEF RowsOK
    <3>3. QED
      BY <3>1, <3>2
  <2> HIDE DEF x
  <2>4. y \in Rows
    BY <2>1, <1>n, RowUpdates DEF Statuses
  <2>5. y.mode \in Kinds
    BY <2>1 DEF Rows
  <2> HIDE DEF y
  <2>6. RowOK(y)
    BY <2>1, <2>4, <2>5 DEF RowOK
  <2>7. QED
    BY <2>1, <2>3, <2>4, <2>5, <2>6, RowsOfOne
<1>4. ASSUME NEW d \in Docs, NEW ok \in BOOLEAN, KidEndsTurn(d, ok) PROVE RowsOK'
  <2> DEFINE x == mem[d]
             st == StatusAfter(d, ok)
             resp == Response(d, mem[d].mode, kjob[d].round, ok)
             y == [x EXCEPT !.status = st, !.active = FALSE, !.last = resp]
  <2>1. mem' = [mem EXCEPT ![d] = y] /\ kpc' = [kpc EXCEPT ![d] = "clear"] /\ x.mode \in Kinds /\ x \in Rows
    BY <1>4, <1>r DEF KidEndsTurn, RowsOK
  <2>2. st \in Statuses
    BY DEF StatusAfter, Statuses
  <2>r. resp \in Responses
    BY <2>1, <1>j, ResponseTyped
  <2>3. kid' = [kid EXCEPT ![d] = y]
    <3>1. kid' = [kid EXCEPT ![d] = mem'[d]]
      BY <1>4 DEF KidEndsTurn
    <3>2. mem'[d] = y
      BY <2>1 DEF RowsOK
    <3>3. QED
      BY <3>1, <3>2
  <2> HIDE DEF x, st, resp
  <2>4. y \in Rows
    BY <2>1, <2>2, <2>r, <1>n, RowUpdates
  <2>5. y.mode \in Kinds
    BY <2>1 DEF Rows
  <2> HIDE DEF y
  <2>6. RowOK(y)
    BY <2>4, <2>5 DEF RowOK
  <2>7. QED
    BY <2>1, <2>3, <2>4, <2>5, <2>6, RowsOfOne
<1>5. ASSUME NEW d \in Docs, KidErrs(d) PROVE RowsOK'
  <2> DEFINE x == mem[d]
             y == [x EXCEPT !.status = "failed", !.active = FALSE]
  <2>1. mem' = [mem EXCEPT ![d] = y] /\ kpc' = [kpc EXCEPT ![d] = "idle"] /\ x \in Rows
    BY <1>5, <1>r DEF KidErrs
  <2>3. kid' = [kid EXCEPT ![d] = y]
    <3>1. kid' = [kid EXCEPT ![d] = mem'[d]]
      BY <1>5 DEF KidErrs
    <3>2. mem'[d] = y
      BY <2>1 DEF RowsOK
    <3>3. QED
      BY <3>1, <3>2
  <2> HIDE DEF x
  <2>4. y \in Rows
    BY <2>1, <1>n, RowUpdates DEF Statuses
  <2>5. y.status = "failed"
    BY <2>1 DEF Rows
  <2> HIDE DEF y
  <2>6. RowOK(y)
    BY <2>4, <2>5 DEF RowOK, Busy
  <2>7. QED
    BY <2>1, <2>3, <2>4, <2>5, <2>6, RowsOfOne
<1>6. ASSUME NEW d \in Docs, ClearInvocation(d) PROVE RowsOK'
  <2> DEFINE x == mem[d]
             y == [x EXCEPT !.group = 0]
  <2>1. /\ mem' = [mem EXCEPT ![d] = mem[d]]
        /\ kpc' = [kpc EXCEPT ![d] = kpc'[d]] /\ kpc'[d] \in {"publish", "return"}
        /\ kpc'[d] = "publish" => mem[d].group # 0
    BY <1>6, Same DEF ClearInvocation, RowsOK
  <2>2. x \in Rows /\ x.mode \in Kinds
    BY <1>6, <1>r DEF ClearInvocation, RowsOK
  <2>3. kid' = [kid EXCEPT ![d] = kid[d]] \/ kid' = [kid EXCEPT ![d] = y]
    BY <1>6, Same DEF ClearInvocation
  <2>4. mem[d] = x
    OBVIOUS
  <2> HIDE DEF x
  <2>5. y \in Rows
    BY <2>2, <1>n, RowUpdates DEF Statuses
  <2>m. y.mode \in Kinds
    BY <2>2 DEF Rows
  <2> HIDE DEF y
  <2>6. RowOK(y)
    BY <2>5, <2>m DEF RowOK
  <2>7. QED
    BY <2>1, <2>2, <2>3, <2>4, <2>6, Same, RowsOfOne
<1>7. ASSUME NEW d \in Docs, RecoverKid(d) PROVE RowsOK'
  <2> DEFINE x == kid[d]
  <2>1. PICK st \in {"running", "waiting_children", "reconciling"} :
          mem' = [mem EXCEPT ![d] = [x EXCEPT !.active = FALSE, !.status = st]]
    BY <1>7 DEF RecoverKid
  <2> DEFINE y == [x EXCEPT !.active = FALSE, !.status = st]
  <2>2. x \in Rows /\ x.mode \in Kinds
    BY <1>7, <1>r DEF RecoverKid, RowOK, Busy
  <2>3. /\ kpc' = [kpc EXCEPT ![d] = kpc'[d]] /\ kpc'[d] \in {"idle", "submit"}
    BY <1>7 DEF RecoverKid, RowsOK
  <2>4. kid' = [kid EXCEPT ![d] = y] /\ mem' = [mem EXCEPT ![d] = y]
    <3>1. kid' = [kid EXCEPT ![d] = mem'[d]]
      BY <1>7 DEF RecoverKid
    <3>2. mem'[d] = y
      BY <2>1 DEF RowsOK
    <3>3. QED
      BY <3>1, <3>2, <2>1
  <2> HIDE DEF x
  <2>s. st \in Statuses
    BY DEF Statuses
  <2>5. y \in Rows
    BY <2>2, <2>s, <1>n, RowUpdates
  <2>m. y.mode \in Kinds
    BY <2>2 DEF Rows
  <2> HIDE DEF y
  <2>6. RowOK(y)
    BY <2>5, <2>m DEF RowOK
  <2>7. QED
    BY <2>3, <2>4, <2>5, <2>m, <2>6, RowsOfOne
<1>8. ASSUME NEW m \in Reports, HandOver(m) PROVE RowsOK'
  <2>1. m.doc \in Docs /\ m.round \in 0..MaxRounds
    BY DEF CommandsOK, Reports, StartCommands, ReportCommands, Rounds
  <2>2. CASE Reusable(kid[m.doc].status)
    <3>1. RowOK(Prepared(m.doc, m.round, "query"))
      BY <2>1, <2>2, PreparedTyped DEF Kinds
    <3>2. kid' = [kid EXCEPT ![m.doc] = Prepared(m.doc, m.round, "query")]
      BY <1>8, <2>2 DEF HandOver
    <3>3. mem' = [mem EXCEPT ![m.doc] = mem[m.doc]] /\ kpc' = [kpc EXCEPT ![m.doc] = kpc[m.doc]]
      BY <1>8, <2>1, Same DEF HandOver
    <3>4. QED
      BY <2>1, <3>1, <3>2, <3>3, Same, RowsOfOne
  <2>3. CASE ~Reusable(kid[m.doc].status)
    BY <1>8, <2>3, <1>0 DEF HandOver
  <2>4. QED
    BY <2>2, <2>3
<1>9. ASSUME NEW d \in Docs, PublishReport(d) \/ KidReturns(d) \/ KidCrash(d) PROVE RowsOK'
  <2>1. PICK place \in {"idle", "return"} : kpc' = [kpc EXCEPT ![d] = place]
    BY <1>9 DEF PublishReport, KidReturns, KidCrash
  <2>2. place = "return" => kpc[d] # "idle"
    BY <1>9, <2>1 DEF PublishReport, KidReturns, KidCrash, RowsOK
  <2>3. kid' = [kid EXCEPT ![d] = kid[d]] /\ mem' = [mem EXCEPT ![d] = mem[d]]
    BY <1>9, Same DEF PublishReport, KidReturns, KidCrash
  <2>4. QED
    BY <2>1, <2>2, <2>3, Same, RowsOfOne
<1>10. CASE UNCHANGED vars
  BY <1>10, <1>0 DEF vars, kidVars
<1>11. QED
  BY <1>0, <1>1, <1>2, <1>3, <1>4, <1>5, <1>6, <1>7, <1>8, <1>9, <1>10, Steps
     DEF kidVars, ResponseCreated, CreateGroup, WaitForChildren, EndTurn, PublishQuery,
         SendAggregate, RecoverParent, OpeningFails, NotAttached, HandOverFails, ParentCrash,
         AskDocuments, IdleRelease, PublishStart, SkipStart, StartConflict, DropReport,
         RecordReport

(* A start asks for a warm-up or for the query; a report tells its group.  *)
LEMMA JobsAndCommandsNext == Typed /\ [Next]_vars => JobsOK' /\ CommandsOK'
<1> SUFFICES ASSUME Typed, [Next]_vars PROVE JobsOK' /\ CommandsOK'
  OBVIOUS
<1> USE DEF Typed
<1>0. UNCHANGED <<kjob, ckpt>> => JobsOK'
  BY DEF JobsOK
<1>e. UNCHANGED <<starts, cmds>> => CommandsOK'
  BY DEF CommandsOK
<1>n. NoCommand \in Jobs /\ NoResponse \in Responses
  BY DEF NoCommand, Jobs, Responses
<1>k. \A d \in Docs : kid[d].last \in Responses /\ mem[d].last \in Responses /\ mem[d].group \in 0..MaxRounds
  BY DEF RowsOK, Rows
<1>s. \A c \in Starts : c \in StartCommands /\ c \in Jobs /\ c.doc \in Docs
  BY SMTT(30) DEF CommandsOK, Starts, StartCommands, ReportCommands, Jobs, Rounds, Phases
<1>t. \A m \in Reports : m.doc \in Docs /\ m.round \in Rounds /\ m.resp \in Responses
  BY DEF CommandsOK, Reports, StartCommands, ReportCommands
<1>1. ASSUME NEW d \in Docs, PrepareChild(d) PROVE JobsOK' /\ CommandsOK'
  <2>1. \A previous \in Lineages(d) : previous \in Responses
    BY <1>1, <1>n, <1>k DEF Lineages, ThreadLineage, HistoryOK
  <2>2. round \in Rounds
    BY <1>1 DEF PrepareChild, ParentOK, Rounds
  <2>3. PICK previous \in Responses, k \in Kinds :
          starts' = starts \cup {Start(d, round, k, previous)}
    BY <1>1, <2>1 DEF PrepareChild, Kinds
  <2>4. Start(d, round, k, previous) \in StartCommands
    BY <2>2 DEF Start, StartCommands, Kinds
  <2>5. QED
    BY <1>1, <2>3, <2>4, <1>0 DEF PrepareChild, CommandsOK
<1>2. ASSUME NEW c \in Starts, HandleStart(c) PROVE JobsOK' /\ CommandsOK'
  BY <1>2, <1>s, <1>e DEF HandleStart, JobsOK, parentVars
<1>3. ASSUME NEW d \in Docs, KidResponds(d) PROVE JobsOK' /\ CommandsOK'
  BY <1>3, <1>e DEF KidResponds, JobsOK, parentVars
<1>4. ASSUME NEW d \in Docs, KidErrs(d) \/ KidReturns(d) PROVE JobsOK' /\ CommandsOK'
  BY <1>4, <1>n DEF KidErrs, KidReturns, JobsOK, CommandsOK, parentVars
<1>5. ASSUME NEW d \in Docs, KidCrash(d) PROVE JobsOK' /\ CommandsOK'
  BY <1>5, <1>n, <1>e DEF KidCrash, JobsOK, parentVars
<1>6. ASSUME NEW d \in Docs, PublishReport(d) PROVE JobsOK' /\ CommandsOK'
  <2>1. mem[d].group \in Rounds
    BY <1>6, <1>k DEF PublishReport, RowsOK, Rounds
  <2>2. Report(d, mem[d].group, mem[d].last) \in ReportCommands
    BY <2>1, <1>k DEF Report, ReportCommands
  <2>3. QED
    BY <1>6, <2>2, <1>0 DEF PublishReport, CommandsOK, parentVars
<1>7. ASSUME NEW d \in Docs, RecoverKid(d) PROVE JobsOK' /\ CommandsOK'
  <2>1. [NoCommand EXCEPT !.doc = d] \in Jobs
    BY DEF NoCommand, Jobs
  <2>2. ckpt[d].kind # "none" => [ckpt[d] EXCEPT !.kind = "replay"] \in Jobs
    <3>1. ckpt[d] \in Jobs
      BY DEF JobsOK
    <3> DEFINE x == ckpt[d]
    <3> HIDE DEF x
    <3>2. x \in Jobs /\ x.kind # "none" => [x EXCEPT !.kind = "replay"] \in Jobs
      BY DEF Jobs
    <3>3. QED
      BY <3>1, <3>2 DEF x
  <2>3. PICK x \in Jobs : kjob' = [kjob EXCEPT ![d] = x]
    BY <1>7, <2>1, <2>2, <1>n DEF RecoverKid
  <2>4. QED
    BY <1>7, <2>3, <1>e DEF RecoverKid, JobsOK, parentVars
<1>8. ASSUME NEW m \in Reports, HandOver(m) PROVE JobsOK' /\ CommandsOK'
  <2>1. Start(m.doc, m.round, "query", m.resp) \in StartCommands
    BY <1>t DEF Start, StartCommands
  <2>2. QED
    BY <1>8, <2>1, <1>0 DEF HandOver, CommandsOK
<1>9. CASE UNCHANGED vars
  BY <1>9, <1>0, <1>e DEF vars, kidVars, parentVars
<1>10. ASSUME UNCHANGED <<kjob, ckpt>>, starts' \subseteq starts, cmds' \subseteq cmds \cup starts
       PROVE  JobsOK' /\ CommandsOK'
  BY <1>10, <1>0 DEF CommandsOK
<1>11. CASE ResponseCreated \/ CreateGroup \/ WaitForChildren \/ EndTurn \/ PublishQuery
            \/ SendAggregate \/ RecoverParent \/ OpeningFails \/ NotAttached
            \/ HandOverFails \/ ParentCrash \/ (\E S \in SUBSET Docs : AskDocuments(S))
            \/ (\E c \in starts : PublishStart(c))
  BY <1>11, <1>10 DEF ResponseCreated, CreateGroup, WaitForChildren, EndTurn, PublishQuery,
       SendAggregate, RecoverParent, OpeningFails, NotAttached, HandOverFails, ParentCrash,
       AskDocuments, PublishStart, kidVars
<1>12. ASSUME NEW d \in Docs, KidEndsTurn(d, TRUE) \/ KidEndsTurn(d, FALSE)
                \/ ClearInvocation(d) \/ IdleRelease(d)
       PROVE  JobsOK' /\ CommandsOK'
  BY <1>12, <1>10 DEF KidEndsTurn, ClearInvocation, IdleRelease, parentVars
<1>13. ASSUME NEW c \in cmds, SkipStart(c) \/ StartConflict(c) \/ DropReport(c) \/ RecordReport(c)
       PROVE  JobsOK' /\ CommandsOK'
  BY <1>13, <1>10 DEF SkipStart, StartConflict, DropReport, RecordReport, parentVars, kidVars
<1>14. QED
  BY <1>1, <1>2, <1>3, <1>4, <1>5, <1>6, <1>7, <1>8, <1>9, <1>11, <1>12, <1>13, Steps
     DEF Starts, Reports

LEMMA ResultNext == Typed /\ [Next]_vars => ResultOK'
<1> SUFFICES ASSUME Typed, [Next]_vars PROVE ResultOK'
  OBVIOUS
<1> USE DEF Typed
<1>0. CASE UNCHANGED result
  BY <1>0 DEF ResultOK
<1>1. CASE CreateGroup
  <2>1. Unsettled("pending") \in [mark : Marks, resp : Responses]
    BY DEF Unsettled, Marks, Responses
  <2>2. QED
    BY <1>1, <2>1, Zenon DEF CreateGroup, ResultOK
<1>2. ASSUME NEW m \in Reports, RecordReport(m) PROVE ResultOK'
  <2>1. m.resp \in Responses
    BY DEF CommandsOK, Reports, StartCommands, ReportCommands
  <2>2. Result(m.resp) \in [mark : Marks, resp : Responses]
    BY <2>1 DEF Result, Marks
  <2>3. QED
    BY <1>2, <2>2 DEF RecordReport, Recorded, ResultOK
<1>3. CASE UNCHANGED vars
  BY <1>3, <1>0 DEF vars
<1>4. QED
  BY <1>0, <1>1, <1>2, <1>3, Steps
     DEF ResponseCreated, WaitForChildren, EndTurn, PublishQuery, SendAggregate,
         RecoverParent, OpeningFails, NotAttached, HandOverFails, ParentCrash,
         AskDocuments, PublishStart, PrepareChild, KidResponds, KidEndsTurn, ClearInvocation,
         PublishReport, KidReturns, RecoverKid, KidErrs, KidCrash, IdleRelease,
         HandleStart, SkipStart, StartConflict, DropReport, HandOver

LEMMA ParentNext == Typed /\ [Next]_vars => ParentOK'
<1> SUFFICES ASSUME Typed, [Next]_vars PROVE ParentOK'
  OBVIOUS
<1> USE DEF Typed
<1>0. CASE UNCHANGED parentVars
  BY <1>0 DEF parentVars, ParentOK, Waits
<1>1. ASSUME NEW S \in SUBSET Docs, AskDocuments(S) PROVE ParentOK'
  BY <1>1 DEF AskDocuments, ParentOK, Waits
<1>2. CASE CreateGroup \/ PublishQuery \/ SendAggregate \/ HandOverFails \/ NotAttached
           \/ OpeningFails \/ ParentCrash
  BY <1>2 DEF CreateGroup, PublishQuery, SendAggregate, HandOverFails, NotAttached, OpeningFails,
              ParentCrash, ParentOK, Waits
<1>3. CASE ResponseCreated \/ EndTurn \/ WaitForChildren
  <2>1. CASE ResponseCreated
    <3> DEFINE x == parent
    <3>1. parent' = [x EXCEPT !.status = "running", !.active = TRUE]
      BY <2>1 DEF ResponseCreated
    <3>2. x \in [status : Statuses, group : 0..MaxRounds, active : BOOLEAN]
      BY DEF ParentOK
    <3> HIDE DEF x
    <3>3. /\ parent' \in [status : Statuses, group : 0..MaxRounds, active : BOOLEAN]
          /\ parent'.status = "running"
      BY <3>1, <3>2 DEF Statuses
    <3>4. QED
      BY <2>1, <3>3 DEF ResponseCreated, ParentOK, Waits
  <2>2. CASE EndTurn
    <3>1. PICK st \in {"ready", "failed"} : parent' = [status |-> st, group |-> 0, active |-> FALSE]
      BY <2>2 DEF EndTurn
    <3>2. QED
      BY <2>2, <3>1 DEF EndTurn, ParentOK, Waits, Statuses
  <2>3. CASE WaitForChildren
    BY <2>3 DEF WaitForChildren, ParentOK, Waits, Statuses
  <2>4. QED
    BY <1>3, <2>1, <2>2, <2>3
<1>4. CASE RecoverParent
  <2> DEFINE x == parent
  <2>1. PICK st \in {"reconciling", "running", "waiting_children"} :
          parent' = [x EXCEPT !.active = FALSE, !.status = st]
    BY <1>4 DEF RecoverParent
  <2>2. x \in [status : Statuses, group : 0..MaxRounds, active : BOOLEAN]
    BY DEF ParentOK, Waits
  <2> HIDE DEF x
  <2>3. parent' \in [status : Statuses, group : 0..MaxRounds, active : BOOLEAN]
    BY <2>1, <2>2 DEF Statuses
  <2>4. QED
    BY <1>4, <2>3 DEF RecoverParent, ParentOK, Waits
<1>5. ASSUME NEW c \in starts, PublishStart(c) PROVE ParentOK'
  BY <1>5 DEF PublishStart, ParentOK, Waits
<1>6. ASSUME NEW d \in Docs, PrepareChild(d) PROVE ParentOK'
  BY <1>6 DEF PrepareChild, ParentOK, Waits
<1>7. ASSUME NEW m \in Reports, HandOver(m) \/ RecordReport(m) PROVE ParentOK'
  BY <1>7 DEF HandOver, RecordReport, Expected, ParentOK, Waits, Statuses
<1>8. CASE UNCHANGED vars
  BY <1>8, <1>0 DEF vars
<1>9. QED
  BY <1>0, <1>1, <1>2, <1>3, <1>4, <1>5, <1>6, <1>7, <1>8, Steps
     DEF KidResponds, KidEndsTurn, ClearInvocation, PublishReport, KidReturns, RecoverKid,
         KidErrs, KidCrash, IdleRelease, HandleStart, SkipStart, StartConflict, DropReport

LEMMA HistoryNext == Typed /\ [Next]_vars => HistoryOK'
<1> SUFFICES ASSUME Typed, [Next]_vars PROVE HistoryOK'
  OBVIOUS
<1> USE DEF Typed
<1>0. CASE UNCHANGED <<kup, base, sent, handed, late>>
  BY <1>0 DEF HistoryOK
<1>1. ASSUME NEW c \in Starts, HandleStart(c) PROVE HistoryOK'
  <2>1. c.doc \in Docs
    BY DEF CommandsOK, Starts, StartCommands, ReportCommands
  <2>2. QED
    BY <1>1, <2>1 DEF HandleStart, HistoryOK
<1>2. ASSUME NEW d \in Docs,
             KidErrs(d) \/ KidCrash(d) \/ IdleRelease(d) \/ RecoverKid(d) \/ ClearInvocation(d)
      PROVE  HistoryOK'
  BY <1>2 DEF KidErrs, KidCrash, IdleRelease, RecoverKid, ClearInvocation, HistoryOK
<1>3. ASSUME NEW m \in Reports, HandOver(m) PROVE HistoryOK'
  <2>1. m.doc \in Docs /\ m.round \in Rounds /\ m.resp \in Responses
    BY DEF CommandsOK, Reports, StartCommands, ReportCommands
  <2>2. QED
    BY <1>3, <2>1 DEF HandOver, HistoryOK
<1>4. CASE SendAggregate
  <2>1. parent.group \in Rounds
    BY <1>4 DEF SendAggregate, ParentOK, Rounds
  <2>2. QED
    BY <1>4, <2>1 DEF SendAggregate, HistoryOK, kidVars
<1>5. CASE UNCHANGED vars
  BY <1>5, <1>0 DEF vars, kidVars
<1>6. CASE ResponseCreated \/ CreateGroup \/ WaitForChildren \/ EndTurn \/ PublishQuery
           \/ RecoverParent \/ OpeningFails \/ NotAttached \/ HandOverFails \/ ParentCrash
           \/ (\E S \in SUBSET Docs : AskDocuments(S)) \/ (\E c \in starts : PublishStart(c))
  BY <1>6, <1>0 DEF kidVars, ResponseCreated, CreateGroup, WaitForChildren, EndTurn, PublishQuery,
       RecoverParent, OpeningFails, NotAttached, HandOverFails, ParentCrash, AskDocuments,
       PublishStart
<1>7. ASSUME NEW d \in Docs, PrepareChild(d) \/ KidResponds(d) \/ KidEndsTurn(d, TRUE)
             \/ KidEndsTurn(d, FALSE) \/ PublishReport(d) \/ KidReturns(d)
      PROVE  HistoryOK'
  BY <1>7, <1>0 DEF PrepareChild, KidResponds, KidEndsTurn, PublishReport, KidReturns
<1>8. ASSUME NEW c \in cmds, SkipStart(c) \/ StartConflict(c) \/ DropReport(c) \/ RecordReport(c)
      PROVE  HistoryOK'
  BY <1>8, <1>0 DEF SkipStart, StartConflict, DropReport, RecordReport, kidVars
<1>9. QED
  BY <1>1, <1>2, <1>3, <1>4, <1>5, <1>6, <1>7, <1>8, Steps DEF Starts, Reports

LEMMA TypedNext == Typed /\ [Next]_vars => Typed'
  BY RowsNext, JobsAndCommandsNext, ResultNext, ParentNext, HistoryNext DEF Typed

(* Every variable has its type in every behaviour of the code modelled,    *)
(* startDocumentQueryGroup, the children and the warm-up hand-over.        *)
THEOREM TypeCorrect == Spec => []TypeOK
<1>1. Spec => []Typed
  BY InitTyped, TypedNext, PTL DEF Spec
<1>2. QED
  BY <1>1, TypedIsTypeOK, PTL
-----------------------------------------------------------------------------
(* The parent and its rounds.                                              *)

(* Document d has a row in the group of round r. *)
Asked(r, d) == r \in Rounds /\ result[<<r, d>>].mark # "absent"
AnyAsked(r) == \E d \in Docs : Asked(r, d)

(* A group has rows only once CreateGroup ran for its round. *)
Opened == \A r \in Rounds, d \in Docs :
            Asked(r, d) => r < round \/ (r = round /\ pc # "prepare")

(* A parent waits for its latest round and for nothing else meanwhile; one *)
(* that does not wait has no group or one that is closed.                  *)
WaitsForLatest ==
  /\ Waits => pc \in {"idle", "hand_over"} /\ ~parent.active /\ parent.group = round
  /\ ~Waits => parent.group = 0 \/ Closed(parent.group)
  /\ parent.group <= round
  /\ pc = "prepare" => parent.group < round

(* The groups that a parent opens and waits for have members. *)
HasMembers ==
  /\ parent.group > 0 => AnyAsked(parent.group)
  /\ pc = "prepare" => todo # {} \/ starts # {}
  /\ pc = "prepare" => \A c \in starts : c.round = round
  /\ pc = "publish" => AnyAsked(round)

ParentInv == Opened /\ WaitsForLatest /\ HasMembers

(* What any step does to the rows of a group: none goes away, and an       *)
(* outcome stays; new ones come with the group or with a report.           *)
LEMMA ResultSteps ==
  ASSUME Typed, Opened, [Next]_vars, NEW r \in Rounds, NEW d \in Docs
  PROVE  /\ Asked(r, d) => Asked(r, d)'
         /\ Settled(<<r, d>>) => Settled(<<r, d>>)' /\ result'[<<r, d>>] = result[<<r, d>>]
         /\ Asked(r, d)' => \/ Asked(r, d)
                            \/ CreateGroup /\ r = round /\ \E c \in starts : c.doc = d
                            \/ \E m \in Reports : RecordReport(m) /\ m.round = r /\ m.doc = d
<1> USE DEF Typed
<1>0. CASE UNCHANGED result
  BY <1>0 DEF Asked, Settled
<1>s. <<r, d>> \in Rounds \X Docs /\ <<r, d>>[1] = r /\ <<r, d>>[2] = d
  OBVIOUS
<1>1. CASE CreateGroup
  <2>1. DOMAIN result = Rounds \X Docs
    BY DEF ResultOK
  <2>2. result'[<<r, d>>] = IF r = round /\ d \in {c.doc : c \in starts}
                            THEN Unsettled("pending") ELSE result[<<r, d>>]
    BY <1>1, <2>1, <1>s DEF CreateGroup
  <2>3. CASE r = round /\ d \in {c.doc : c \in starts}
    <3>1. ~Asked(r, d) /\ ~Settled(<<r, d>>)
      BY <1>1, <2>3 DEF Opened, CreateGroup, Asked, Settled, ParentOK, Rounds
    <3>2. QED
      BY <1>1, <2>3, <3>1
  <2>4. CASE ~(r = round /\ d \in {c.doc : c \in starts})
    BY <2>2, <2>4 DEF Asked, Settled
  <2>5. QED
    BY <2>3, <2>4
<1>2. ASSUME NEW m \in Reports, RecordReport(m)
      PROVE  /\ Asked(r, d) => Asked(r, d)'
             /\ Settled(<<r, d>>) => Settled(<<r, d>>)' /\ result'[<<r, d>>] = result[<<r, d>>]
             /\ Asked(r, d)' => Asked(r, d) \/ (m.round = r /\ m.doc = d)
  <2>1. m.round \in Rounds /\ m.doc \in Docs /\ m.resp \in Responses
    BY DEF CommandsOK, Reports, StartCommands, ReportCommands
  <2> DEFINE t == <<m.round, m.doc>>
             new == IF Settled(t) THEN result[t] ELSE Result(m.resp)
  <2>2. result' = [result EXCEPT ![t] = new]
    BY <1>2 DEF RecordReport, Recorded
  <2>3. t \in Rounds \X Docs /\ new.mark # "absent" /\ (t = <<r, d>> => m.round = r /\ m.doc = d)
    BY <2>1 DEF Settled, Result
  <2>4. Settled(t) => new = result[t]
    OBVIOUS
  <2>5. \A s \in Rounds \X Docs : result'[s] = IF s = t THEN new ELSE result[s]
    BY <2>2, <2>3 DEF ResultOK
  <2> HIDE DEF t, new
  <2>6. QED
    BY <2>3, <2>4, <2>5, <1>s DEF Asked, Settled
<1>3. CASE UNCHANGED vars
  BY <1>3, <1>0 DEF vars
<1>4. QED
  BY <1>0, <1>1, <1>2, <1>3, Steps
     DEF ResponseCreated, WaitForChildren, EndTurn, PublishQuery, SendAggregate,
         RecoverParent, OpeningFails, NotAttached, HandOverFails, ParentCrash,
         AskDocuments, PublishStart, PrepareChild, KidResponds, KidEndsTurn, ClearInvocation,
         PublishReport, KidReturns, RecoverKid, KidErrs, KidCrash, IdleRelease,
         HandleStart, SkipStart, StartConflict, DropReport, HandOver

(* A round begins with AskDocuments, from a response that streams. *)
LEMMA RoundSteps ==
  ASSUME Typed, [Next]_vars
  PROVE  \/ round' = round /\ (pc' = "prepare" => pc = "prepare")
         \/ /\ round' = round + 1 /\ pc = "stream" /\ pc' = "prepare" /\ round' \in Rounds
            /\ starts' = {} /\ todo' # {}
            /\ UNCHANGED <<parent, kidVars, result, cmds, handed, late>>
<1> USE DEF Typed
<1>1. ASSUME NEW S \in SUBSET Docs, AskDocuments(S)
      PROVE  /\ round' = round + 1 /\ pc = "stream" /\ pc' = "prepare" /\ round' \in Rounds
             /\ starts' = {} /\ todo' # {}
             /\ UNCHANGED <<parent, kidVars, result, cmds, handed, late>>
  BY <1>1 DEF AskDocuments, ParentOK, Rounds
<1>2. CASE UNCHANGED <<round, pc>>
  BY <1>2
<1>3. CASE UNCHANGED vars
  BY <1>3 DEF vars, parentVars
<1>4. ASSUME NEW d \in Docs, PrepareChild(d) PROVE UNCHANGED <<round, pc>>
  BY <1>4 DEF PrepareChild
<1>5. CASE ResponseCreated \/ CreateGroup \/ WaitForChildren \/ EndTurn \/ PublishQuery
           \/ SendAggregate \/ RecoverParent \/ OpeningFails \/ NotAttached \/ HandOverFails
           \/ ParentCrash
  BY <1>5 DEF ResponseCreated, CreateGroup, WaitForChildren, EndTurn, PublishQuery,
       SendAggregate, RecoverParent, OpeningFails, NotAttached, HandOverFails, ParentCrash
<1>6. ASSUME NEW m \in Reports, HandOver(m) \/ RecordReport(m)
      PROVE  round' = round /\ (pc' = "prepare" => pc = "prepare")
  BY <1>6 DEF HandOver, RecordReport
<1>7. ASSUME NEW c \in starts, PublishStart(c) PROVE UNCHANGED <<round, pc>>
  BY <1>7 DEF PublishStart
<1>8. CASE UNCHANGED parentVars
  BY <1>8, <1>2 DEF parentVars
<1>9. QED
  BY <1>1, <1>2, <1>3, <1>4, <1>5, <1>6, <1>7, <1>8, Steps
     DEF KidResponds, KidEndsTurn, ClearInvocation, PublishReport, KidReturns, RecoverKid,
         KidErrs, KidCrash, IdleRelease, HandleStart, SkipStart, StartConflict, DropReport

LEMMA OpenedNext == Typed /\ ParentInv /\ [Next]_vars => Opened'
<1> SUFFICES ASSUME Typed, ParentInv, [Next]_vars, NEW r \in Rounds, NEW d \in Docs, Asked(r, d)'
             PROVE  (r < round \/ (r = round /\ pc # "prepare"))'
  BY DEF Opened, Rounds, Asked
<1> USE DEF Typed, ParentInv
<1>t. round \in Nat /\ round' \in Nat /\ r \in Nat
  BY TypedNext DEF ParentOK, Rounds
<1>1. CASE Asked(r, d)
  BY <1>1, <1>t, RoundSteps DEF Opened
<1>2. CASE CreateGroup /\ r = round
  BY <1>2 DEF CreateGroup
<1>3. ASSUME NEW m \in Reports, RecordReport(m), m.round = r
      PROVE  (r < round \/ (r = round /\ pc # "prepare"))'
  <2>1. r <= round /\ round' = round
    BY <1>3 DEF RecordReport, Expected, WaitsForLatest
  <2>2. pc' # "prepare"
    BY <1>3 DEF RecordReport, Expected
  <2>3. QED
    BY <2>1, <2>2, <1>t
<1>4. QED
  BY <1>1, <1>2, <1>3, ResultSteps

(* A closed group stays closed. *)
LEMMA ClosedStays ==
  ASSUME Typed, ParentInv, [Next]_vars, NEW r \in Rounds, r < round \/ pc # "prepare", Closed(r)
  PROVE  Closed(r)'
<1> USE DEF Typed, ParentInv
<1> SUFFICES ASSUME NEW d \in Docs, Asked(r, d)' PROVE Settled(<<r, d>>)'
  BY DEF Closed, DocsOf, Asked
<1>1. CASE Asked(r, d)
  BY <1>1, ResultSteps DEF Closed, DocsOf, Asked
<1>2. CASE CreateGroup /\ r = round
  BY <1>2 DEF CreateGroup, ParentOK
<1>3. ASSUME NEW m \in Reports, RecordReport(m), m.round = r, m.doc = d PROVE Settled(<<r, d>>)'
  <2>1. result' = [result EXCEPT ![<<r, d>>] = IF Settled(<<r, d>>) THEN @ ELSE Result(m.resp)]
    BY <1>3 DEF RecordReport, Recorded
  <2>2. result'[<<r, d>>] = IF Settled(<<r, d>>) THEN result[<<r, d>>] ELSE Result(m.resp)
    BY <2>1 DEF ResultOK
  <2>3. QED
    BY <2>2 DEF Settled, Result
<1>4. QED
  BY <1>1, <1>2, <1>3, ResultSteps

LEMMA WaitsForLatestNext == Typed /\ ParentInv /\ [Next]_vars => WaitsForLatest'
<1> SUFFICES ASSUME Typed, ParentInv, [Next]_vars PROVE WaitsForLatest'
  OBVIOUS
<1> USE DEF Typed, ParentInv
<1>t. round \in Nat /\ parent.group \in Nat /\ (parent.group > 0 => parent.group \in Rounds)
  BY DEF ParentOK, Rounds
<1>c. parent.group \in Rounds /\ Closed(parent.group) => \E r \in Rounds : r = parent.group /\ Closed(r)'
  BY <1>t, ClosedStays DEF WaitsForLatest, ParentOK
<1>d. ~Waits => parent.group = 0 \/ \E r \in Rounds : r = parent.group /\ Closed(r)'
  BY <1>c, <1>t DEF WaitsForLatest
<1>0. ASSUME UNCHANGED <<parent, pc, round>> PROVE WaitsForLatest'
  BY <1>0, <1>d DEF WaitsForLatest, Waits
<1>1. ASSUME NEW S \in SUBSET Docs, AskDocuments(S) PROVE WaitsForLatest'
  BY <1>1, <1>d, <1>t DEF AskDocuments, WaitsForLatest, Waits
<1>2. CASE CreateGroup \/ OpeningFails \/ NotAttached \/ PublishQuery \/ HandOverFails \/ SendAggregate
           \/ ParentCrash
  BY <1>2, <1>d DEF CreateGroup, OpeningFails, NotAttached, PublishQuery, HandOverFails,
                    SendAggregate, ParentCrash, WaitsForLatest, Waits
<1>3. CASE ResponseCreated
  <2>1. ~Waits /\ ~Waits' /\ parent'.group = parent.group
    BY <1>3 DEF ResponseCreated, WaitsForLatest, Waits, ParentOK
  <2>2. QED
    BY <1>3, <2>1, <1>d DEF ResponseCreated, WaitsForLatest
<1>4. CASE WaitForChildren
  BY <1>4, <1>t DEF WaitForChildren, WaitsForLatest, Waits
<1>5. CASE EndTurn
  BY <1>5, <1>t DEF EndTurn, WaitsForLatest, Waits
<1>6. CASE RecoverParent
  <2> DEFINE barrier == parent.group > 0 /\ ~parent.active
  <2>1. /\ parent'.group = parent.group /\ ~parent'.active /\ round' = round /\ pc' # "prepare"
        /\ parent'.status = IF ~barrier THEN "reconciling"
                            ELSE IF Closed(parent.group) THEN "running" ELSE "waiting_children"
        /\ pc' = IF ~barrier THEN "submit"
                 ELSE IF Closed(parent.group) THEN "aggregate" ELSE "idle"
    BY <1>6 DEF RecoverParent, ParentOK
  <2>2. CASE ~barrier
    <3>1. ~Waits' /\ (parent.group = 0 \/ ~Waits)
      BY <2>1, <2>2, <1>t DEF Waits, WaitsForLatest
    <3>2. QED
      BY <2>1, <2>2, <3>1, <1>d, <1>t DEF WaitsForLatest
  <2>3. CASE barrier /\ Closed(parent.group)
    BY <2>1, <2>3, <1>c, <1>t DEF WaitsForLatest, Waits
  <2>4. CASE barrier /\ ~Closed(parent.group)
    <3>1. Waits /\ parent.group = round
      BY <2>4, <1>t DEF WaitsForLatest
    <3>2. QED
      BY <2>1, <2>4, <3>1 DEF WaitsForLatest, Waits
  <2>5. QED
    BY <2>2, <2>3, <2>4
<1>7. ASSUME NEW m \in Reports, HandOver(m) PROVE WaitsForLatest'
  BY <1>7 DEF HandOver, Expected, WaitsForLatest, Waits
<1>8. ASSUME NEW m \in Reports, RecordReport(m) PROVE WaitsForLatest'
  <2>1. m.round = parent.group /\ pc = "idle" /\ Waits /\ round' = round
    BY <1>8 DEF RecordReport, Expected
  <2>2. CASE Closed(m.round)'
    <3>1. /\ parent' = [parent EXCEPT !.status = "running"] /\ pc' = "aggregate"
          /\ m' = m
      BY <1>8, <2>2 DEF RecordReport
    <3>2. parent'.group = m.round /\ ~Waits'
      BY <3>1, <2>1 DEF Waits, ParentOK
    <3>3. QED
      BY <2>1, <2>2, <3>1, <3>2 DEF WaitsForLatest
  <2>3. CASE ~Closed(m.round)'
    BY <1>8, <2>1, <2>3 DEF RecordReport, WaitsForLatest, Waits
  <2>4. QED
    BY <2>2, <2>3
<1>9. CASE UNCHANGED vars
  BY <1>9, <1>0 DEF vars, parentVars
<1>10. ASSUME NEW d \in Docs, PrepareChild(d) PROVE WaitsForLatest'
  BY <1>10, <1>0 DEF PrepareChild
<1>11. ASSUME NEW c \in starts, PublishStart(c) PROVE WaitsForLatest'
  BY <1>11, <1>0 DEF PublishStart
<1>12. CASE UNCHANGED parentVars
  BY <1>12, <1>0 DEF parentVars
<1>13. QED
  BY <1>1, <1>2, <1>3, <1>4, <1>5, <1>6, <1>7, <1>8, <1>9, <1>10, <1>11, <1>12, Steps
     DEF KidResponds, KidEndsTurn, ClearInvocation, PublishReport, KidReturns, RecoverKid,
         KidErrs, KidCrash, IdleRelease, HandleStart, SkipStart, StartConflict, DropReport

LEMMA AskedStays ==
  ASSUME Typed, Opened, [Next]_vars, NEW r, AnyAsked(r)
  PROVE  AnyAsked(r)'
<1>1. PICK d \in Docs : Asked(r, d)
  BY DEF AnyAsked
<1>2. r \in Rounds /\ Asked(r, d)'
  BY <1>1, ResultSteps DEF Asked
<1>3. QED
  BY <1>2 DEF AnyAsked

LEMMA HasMembersNext == Typed /\ ParentInv /\ [Next]_vars => HasMembers'
<1> SUFFICES ASSUME Typed, ParentInv, [Next]_vars PROVE HasMembers'
  OBVIOUS
<1> USE DEF Typed, ParentInv
<1>g. parent.group > 0 => \E r \in {parent.group} : AnyAsked(r)'
  BY AskedStays DEF HasMembers
<1>p. pc = "publish" => \E r \in {round} : AnyAsked(r)'
  BY AskedStays DEF HasMembers
<1>0. CASE UNCHANGED parentVars
  BY <1>0, <1>g, <1>p DEF HasMembers, parentVars
<1>1. CASE RecoverParent \/ ResponseCreated \/ ParentCrash \/ OpeningFails \/ NotAttached
           \/ PublishQuery \/ HandOverFails \/ SendAggregate
  <2>1. parent'.group = parent.group /\ pc' \notin {"prepare", "publish"}
    BY <1>1 DEF RecoverParent, ResponseCreated, ParentCrash, OpeningFails, NotAttached,
         PublishQuery, HandOverFails, SendAggregate, ParentOK
  <2>2. QED
    BY <2>1, <1>g DEF HasMembers
<1>2. ASSUME NEW S \in SUBSET Docs, AskDocuments(S) PROVE HasMembers'
  BY <1>2, <1>g DEF AskDocuments, HasMembers
<1>3. ASSUME NEW d \in Docs, PrepareChild(d) PROVE HasMembers'
  <2>1. PICK previous, k : starts' = starts \cup {Start(d, round, k, previous)}
    BY <1>3 DEF PrepareChild
  <2>2. UNCHANGED <<parent, pc, round>> /\ pc = "prepare"
    BY <1>3 DEF PrepareChild
  <2>3. Start(d, round, k, previous).round = round
    BY DEF Start
  <2>4. QED
    BY <2>1, <2>2, <2>3, <1>g DEF HasMembers
<1>4. CASE CreateGroup
  <2>1. PICK c \in starts : TRUE
    BY <1>4 DEF CreateGroup, HasMembers
  <2>2. c.doc \in Docs /\ round \in Rounds
    BY <1>4 DEF CreateGroup, CommandsOK, StartCommands, ParentOK, Rounds
  <2>3. result'[<<round, c.doc>>] = Unsettled("pending")
    BY <1>4, <2>1, <2>2 DEF CreateGroup, ResultOK
  <2>4. Asked(round, c.doc)' /\ round' = round
    BY <1>4, <2>2, <2>3 DEF Asked, Unsettled, CreateGroup
  <2>5. AnyAsked(round)'
    BY <2>2, <2>4 DEF AnyAsked
  <2>6. QED
    BY <1>4, <2>5, <1>g DEF CreateGroup, HasMembers
<1>5. ASSUME NEW c \in starts, PublishStart(c) PROVE HasMembers'
  BY <1>5, <1>g, <1>p DEF PublishStart, HasMembers
<1>6. CASE WaitForChildren
  BY <1>6, <1>p DEF WaitForChildren, HasMembers
<1>7. CASE EndTurn
  BY <1>7 DEF EndTurn, HasMembers
<1>8. ASSUME NEW m \in Reports, HandOver(m) \/ RecordReport(m) PROVE HasMembers'
  <2>1. parent'.group = parent.group /\ pc' \notin {"prepare", "publish"}
    BY <1>8 DEF HandOver, RecordReport, Expected, ParentOK
  <2>2. QED
    BY <2>1, <1>g DEF HasMembers
<1>9. CASE UNCHANGED vars
  BY <1>9, <1>0 DEF vars
<1>10. QED
  BY <1>0, <1>1, <1>2, <1>3, <1>4, <1>5, <1>6, <1>7, <1>8, <1>9, Steps
     DEF KidResponds, KidEndsTurn, ClearInvocation, PublishReport, KidReturns, RecoverKid,
         KidErrs, KidCrash, IdleRelease, HandleStart, SkipStart, StartConflict, DropReport

LEMMA ParentInvNext == Typed /\ ParentInv /\ [Next]_vars => ParentInv'
  BY OpenedNext, WaitsForLatestNext, HasMembersNext DEF ParentInv
-----------------------------------------------------------------------------
(* Groups, of every document.  A child's row and its copy, and what it     *)
(* reports, name a group that has the document, or one that was abandoned  *)
(* or is still being opened with the document among its starts.            *)
Belongs(r, d) ==
  r = 0 \/ /\ r <= round
           /\ \/ Asked(r, d)
              \/ /\ ~AnyAsked(r)
                 /\ r = round /\ pc = "prepare" => \E c \in starts : c.doc = d

Membership ==
  /\ \A d \in Docs : Belongs(kid[d].group, d) /\ Belongs(mem[d].group, d)
  /\ \A m \in Reports : Belongs(m.round, m.doc)
  /\ \A c \in Starts : Asked(c.round, c.doc)
  /\ pc \in {"publish", "hand_over"} => \A c \in starts : Asked(c.round, c.doc)

(* While a group is prepared, starts are only added. *)
LEMMA StartsStay ==
  ASSUME [Next]_vars, pc = "prepare", pc' = "prepare"
  PROVE  starts \subseteq starts'
<1>1. CASE UNCHANGED starts
  BY <1>1
<1>2. CASE UNCHANGED vars
  BY <1>2, <1>1 DEF vars, parentVars
<1>3. ASSUME NEW d \in Docs, PrepareChild(d) PROVE starts \subseteq starts'
  BY <1>3 DEF PrepareChild
<1>4. CASE OpeningFails
  BY <1>4 DEF OpeningFails
<1>5. CASE ResponseCreated \/ CreateGroup \/ WaitForChildren \/ EndTurn \/ PublishQuery
           \/ SendAggregate \/ RecoverParent \/ NotAttached \/ HandOverFails \/ ParentCrash
           \/ (\E S \in SUBSET Docs : AskDocuments(S)) \/ (\E c \in starts : PublishStart(c))
  BY <1>5, <1>1 DEF ResponseCreated, CreateGroup, WaitForChildren, EndTurn, PublishQuery,
       SendAggregate, RecoverParent, NotAttached, HandOverFails, ParentCrash, AskDocuments,
       PublishStart
<1>6. ASSUME NEW m \in Reports, HandOver(m) \/ RecordReport(m) PROVE FALSE
  BY <1>6 DEF HandOver, RecordReport, Expected
<1>7. CASE UNCHANGED parentVars
  BY <1>7, <1>1 DEF parentVars
<1>8. QED
  BY <1>2, <1>3, <1>4, <1>5, <1>6, <1>7, Steps
     DEF KidResponds, KidEndsTurn, ClearInvocation, PublishReport, KidReturns, RecoverKid,
         KidErrs, KidCrash, IdleRelease, HandleStart, SkipStart, StartConflict, DropReport

(* What belongs to a group goes on to do so. *)
LEMMA BelongsStays ==
  ASSUME Typed, ParentInv, Membership, [Next]_vars, NEW d \in Docs, NEW r \in 0..MaxRounds,
         Belongs(r, d)
  PROVE  Belongs(r, d)'
<1> USE DEF Typed, ParentInv
<1>t. round \in Nat /\ round' \in Nat /\ r \in Nat
  BY TypedNext DEF ParentOK
<1>0. CASE r = 0
  BY <1>0 DEF Belongs
<1>1. CASE r # 0 /\ Asked(r, d)
  <2>1. r \in Rounds /\ r <= round
    BY <1>1 DEF Belongs, Asked
  <2>2. Asked(r, d)'
    BY <1>1, <2>1, ResultSteps
  <2>3. QED
    BY <2>1, <2>2, RoundSteps, <1>t DEF Belongs
<1>2. CASE r # 0 /\ ~Asked(r, d)
  <2>1. /\ r \in Rounds /\ r <= round /\ ~AnyAsked(r)
        /\ r = round /\ pc = "prepare" => \E c \in starts : c.doc = d
    BY <1>2, <1>t DEF Belongs, Rounds
  <2>2. ASSUME NEW e \in Docs, Asked(r, e)' PROVE Asked(r, d)'
    <3>1. ~Asked(r, e)
      BY <2>1 DEF AnyAsked
    <3>2. CASE CreateGroup /\ r = round
      <4>1. \E c \in starts : c.doc = d
        BY <2>1, <3>2 DEF CreateGroup
      <4>2. result'[<<r, d>>] = Unsettled("pending")
        BY <4>1, <3>2, <2>1 DEF CreateGroup, ResultOK
      <4>3. QED
        BY <4>2, <2>1 DEF Asked, Unsettled
    <3>3. ASSUME NEW m \in Reports, RecordReport(m), m.round = r PROVE FALSE
      BY <3>3, <2>1 DEF RecordReport, Expected, HasMembers, ParentOK, Rounds
    <3>4. QED
      BY <3>1, <3>2, <3>3, <2>1, <2>2, ResultSteps
  <2>3. AnyAsked(r)' => Asked(r, d)'
    BY <2>2 DEF AnyAsked
  <2>4. r <= round'
    BY <2>1, RoundSteps, <1>t
  <2>5. ASSUME r = round', pc' = "prepare", ~AnyAsked(r)' PROVE \E c \in starts' : c.doc = d
    <3>1. r = round /\ pc = "prepare" /\ round' = round
      BY <2>1, <2>5, RoundSteps, <1>t
    <3>2. starts \subseteq starts'
      BY <2>5, <3>1, StartsStay
    <3>3. QED
      BY <3>1, <3>2, <2>1
  <2>6. QED
    BY <2>3, <2>4, <2>5 DEF Belongs
<1>3. QED
  BY <1>0, <1>1, <1>2

(* What any step does to one document's child: its row, the copy, where    *)
(* the handler stands, its job and its checkpoint.                         *)
Untouched(d) == /\ kid'[d] = kid[d] /\ mem'[d] = mem[d] /\ kpc'[d] = kpc[d]
                /\ kjob'[d] = kjob[d] /\ ckpt'[d] = ckpt[d]

IsPrepared(d, g, k) ==
  /\ ~Busy(kid[d].status) /\ ~Busy(kid'[d].status)
  /\ kid'[d].group = g /\ kid'[d].mode = k /\ kid'[d].active = kid[d].active
  /\ mem'[d] = mem[d] /\ kpc'[d] = kpc[d] /\ kjob'[d] = kjob[d] /\ ckpt'[d] = ckpt[d]

IsStarted(d, c) ==
  /\ kpc[d] = "idle" /\ kpc'[d] = "submit" /\ kjob'[d] = c /\ ckpt'[d] = ckpt[d]
  /\ mem'[d] = kid'[d]
  /\ kid'[d].status = "running" /\ kid'[d].mode = c.phase
  /\ kid'[d].group = kid[d].group /\ kid'[d].active = kid[d].active

Responded(d) ==
  /\ kpc[d] = "submit" /\ kpc'[d] = "stream" /\ kjob'[d] = kjob[d] /\ ckpt'[d] = kjob[d]
  /\ mem'[d] = kid'[d]
  /\ kid'[d].status = "running" /\ kid'[d].mode = mem[d].mode /\ kid'[d].group = mem[d].group

Ended(d) ==
  /\ kpc[d] = "stream" /\ kpc'[d] \in {"clear", "idle"} /\ ckpt'[d] = ckpt[d]
  /\ mem'[d] = kid'[d]
  /\ ~Busy(kid'[d].status) /\ ~kid'[d].active
  /\ kid'[d].mode = mem[d].mode /\ kid'[d].group = mem[d].group
  /\ kpc'[d] = "clear" => /\ kid'[d].last.phase = mem[d].mode
                          /\ kid'[d].last.round = kjob[d].round

Cleared(d) ==
  /\ kpc[d] = "clear" /\ mem'[d] = mem[d] /\ kjob'[d] = kjob[d] /\ ckpt'[d] = ckpt[d]
  /\ \/ mem[d].group = 0 /\ kpc'[d] = "return" /\ kid'[d] = kid[d]
     \/ /\ mem[d].group # 0 /\ kpc'[d] = "publish" /\ kid'[d].group = 0
        /\ kid'[d].mode = mem[d].mode /\ kid'[d].active = mem[d].active
        /\ kid'[d].status = mem[d].status

Moved(d) ==
  /\ kid'[d] = kid[d] /\ mem'[d] = mem[d] /\ ckpt'[d] = ckpt[d] /\ kpc'[d] \in {"idle", "return"}

Recovered(d) ==
  /\ kpc[d] = "idle" /\ kpc'[d] \in {"idle", "submit"} /\ ckpt'[d] = ckpt[d]
  /\ Busy(kid[d].status) /\ mem'[d] = kid'[d]
  /\ Busy(kid'[d].status) /\ ~kid'[d].active
  /\ kid'[d].mode = kid[d].mode /\ kid'[d].group = kid[d].group
  /\ kpc'[d] = "submit" =>
       \/ kid[d].group = 0
       \/ ~kid[d].active /\ Closed(kid[d].group)
       \/ kid[d].active /\ kjob'[d].round = ckpt[d].round

LEMMA PreparedFields ==
  ASSUME Typed, NEW d \in Docs, NEW r, NEW k, Reusable(kid[d].status),
         kid' = [kid EXCEPT ![d] = Prepared(d, r, k)],
         mem' = mem, kpc' = kpc, kjob' = kjob, ckpt' = ckpt
  PROVE  IsPrepared(d, r, k) /\ \A e \in Docs \ {d} : Untouched(e)
<1> USE DEF Typed, RowsOK
<1> DEFINE x == kid[d]
           st == IF x.status = "absent" THEN "new" ELSE x.status
           y == [x EXCEPT !.status = st, !.group = r, !.mode = k, !.phase = k]
<1>1. Prepared(d, r, k) = y /\ x \in Rows
  BY DEF Prepared
<1>2. kid'[d] = y /\ \A e \in Docs \ {d} : kid'[e] = kid[e]
  BY <1>1
<1>3. ~Busy(x.status) /\ ~Busy(st)
  BY DEF Reusable, Busy, Terminal
<1>4. y.group = r /\ y.mode = k /\ y.active = x.active /\ y.status = st
  <2> HIDE DEF x, st
  <2>1. QED
    BY <1>1 DEF Rows
<1> HIDE DEF y, st
<1>5. QED
  BY <1>2, <1>3, <1>4 DEF IsPrepared, Untouched

LEMMA HandleStartDoes ==
  ASSUME Typed, NEW c \in Starts, HandleStart(c)
  PROVE  c.doc \in Docs /\ IsStarted(c.doc, c) /\ \A e \in Docs \ {c.doc} : Untouched(e)
<1> USE DEF Typed, RowsOK
<1> DEFINE d == c.doc
           x == kid[d]
           y == [x EXCEPT !.status = "running", !.mode = c.phase]
<1>0. d \in Docs
  BY DEF CommandsOK, Starts, StartCommands, ReportCommands
<1>1. mem' = [mem EXCEPT ![d] = y] /\ kid' = [kid EXCEPT ![d] = mem'[d]]
  BY DEF HandleStart
<1>2. /\ mem'[d] = y /\ kid'[d] = y
      /\ \A e \in Docs \ {d} : mem'[e] = mem[e] /\ kid'[e] = kid[e]
  BY <1>0, <1>1
<1>3. /\ kpc[d] = "idle" /\ kpc'[d] = "submit" /\ kjob'[d] = c /\ ckpt' = ckpt
      /\ \A e \in Docs \ {d} : kpc'[e] = kpc[e] /\ kjob'[e] = kjob[e]
  BY <1>0 DEF HandleStart, JobsOK
<1>4. y.status = "running" /\ y.mode = c.phase /\ y.group = x.group /\ y.active = x.active
  <2>1. x \in Rows
    BY <1>0
  <2> HIDE DEF x
  <2>2. QED
    BY <2>1 DEF Rows
<1> HIDE DEF y
<1>5. QED
  BY <1>0, <1>2, <1>3, <1>4 DEF IsStarted, Untouched

LEMMA KidRespondsDoes ==
  ASSUME Typed, NEW d \in Docs, KidResponds(d)
  PROVE  Responded(d) /\ \A e \in Docs \ {d} : Untouched(e)
<1> USE DEF Typed, RowsOK
<1> DEFINE x == mem[d]
           y == [x EXCEPT !.active = TRUE, !.status = "running"]
<1>1. mem' = [mem EXCEPT ![d] = y] /\ kid' = [kid EXCEPT ![d] = mem'[d]]
  BY DEF KidResponds
<1>2. /\ mem'[d] = y /\ kid'[d] = y
      /\ \A e \in Docs \ {d} : mem'[e] = mem[e] /\ kid'[e] = kid[e]
  BY <1>1
<1>3. /\ kpc[d] = "submit" /\ kpc'[d] = "stream" /\ kjob' = kjob /\ ckpt'[d] = kjob[d]
      /\ \A e \in Docs \ {d} : kpc'[e] = kpc[e] /\ ckpt'[e] = ckpt[e]
  BY DEF KidResponds, JobsOK
<1>4. y.status = "running" /\ y.mode = x.mode /\ y.group = x.group
  <2>1. x \in Rows
    OBVIOUS
  <2> HIDE DEF x
  <2>2. QED
    BY <2>1 DEF Rows
<1> HIDE DEF y
<1>5. QED
  BY <1>2, <1>3, <1>4 DEF Responded, Untouched

LEMMA KidEndsDoes ==
  ASSUME Typed, NEW d \in Docs, NEW ok \in BOOLEAN, KidEndsTurn(d, ok) \/ KidErrs(d)
  PROVE  Ended(d) /\ \A e \in Docs \ {d} : Untouched(e)
<1> USE DEF Typed, RowsOK
<1> DEFINE x == mem[d]
<1>r. x \in Rows
  OBVIOUS
<1>1. CASE KidEndsTurn(d, ok)
  <2> DEFINE st == StatusAfter(d, ok)
             resp == Response(d, mem[d].mode, kjob[d].round, ok)
             y == [x EXCEPT !.status = st, !.active = FALSE, !.last = resp]
  <2>1. mem' = [mem EXCEPT ![d] = y] /\ kid' = [kid EXCEPT ![d] = mem'[d]]
    BY <1>1 DEF KidEndsTurn
  <2>2. /\ mem'[d] = y /\ kid'[d] = y
        /\ \A e \in Docs \ {d} : mem'[e] = mem[e] /\ kid'[e] = kid[e]
    BY <2>1
  <2>3. /\ kpc[d] = "stream" /\ kpc'[d] = "clear" /\ kjob' = kjob /\ ckpt' = ckpt
        /\ \A e \in Docs \ {d} : kpc'[e] = kpc[e]
    BY <1>1 DEF KidEndsTurn
  <2>4. ~Busy(st) /\ resp.phase = mem[d].mode /\ resp.round = kjob[d].round
    BY DEF StatusAfter, Busy, Response
  <2>5. y.status = st /\ ~y.active /\ y.last = resp /\ y.mode = x.mode /\ y.group = x.group
    <3> HIDE DEF x, st, resp
    <3>1. QED
      BY <1>r DEF Rows
  <2> HIDE DEF y, st, resp
  <2>6. QED
    BY <2>2, <2>3, <2>4, <2>5 DEF Ended, Untouched
<1>2. CASE KidErrs(d)
  <2> DEFINE y == [x EXCEPT !.status = "failed", !.active = FALSE]
  <2>1. mem' = [mem EXCEPT ![d] = y] /\ kid' = [kid EXCEPT ![d] = mem'[d]]
    BY <1>2 DEF KidErrs
  <2>2. /\ mem'[d] = y /\ kid'[d] = y
        /\ \A e \in Docs \ {d} : mem'[e] = mem[e] /\ kid'[e] = kid[e]
    BY <2>1
  <2>3. /\ kpc[d] = "stream" /\ kpc'[d] = "idle" /\ ckpt' = ckpt
        /\ \A e \in Docs \ {d} : kpc'[e] = kpc[e] /\ kjob'[e] = kjob[e]
    BY <1>2 DEF KidErrs, JobsOK
  <2>5. y.status = "failed" /\ ~y.active /\ y.mode = x.mode /\ y.group = x.group
    <3> HIDE DEF x
    <3>1. QED
      BY <1>r DEF Rows
  <2> HIDE DEF y
  <2>6. QED
    BY <2>2, <2>3, <2>5 DEF Ended, Untouched, Busy
<1>3. QED
  BY <1>1, <1>2

LEMMA ClearInvocationDoes ==
  ASSUME Typed, NEW d \in Docs, ClearInvocation(d)
  PROVE  Cleared(d) /\ \A e \in Docs \ {d} : Untouched(e)
<1> USE DEF Typed, RowsOK
<1> DEFINE x == mem[d]
           y == [x EXCEPT !.group = 0]
<1>1. /\ kpc[d] = "clear" /\ UNCHANGED <<mem, kjob, ckpt>>
      /\ kpc'[d] = IF mem[d].group = 0 THEN "return" ELSE "publish"
      /\ \A e \in Docs \ {d} : kpc'[e] = kpc[e]
  BY DEF ClearInvocation
<1>2. kid' = IF mem[d].group = 0 THEN kid ELSE [kid EXCEPT ![d] = y]
  BY DEF ClearInvocation
<1>3. /\ kid'[d] = IF mem[d].group = 0 THEN kid[d] ELSE y
      /\ \A e \in Docs \ {d} : kid'[e] = kid[e]
  BY <1>2
<1>4. y.group = 0 /\ y.mode = x.mode /\ y.active = x.active /\ y.status = x.status
  <2>1. x \in Rows
    OBVIOUS
  <2> HIDE DEF x
  <2>2. QED
    BY <2>1 DEF Rows
<1> HIDE DEF y
<1>5. QED
  BY <1>1, <1>3, <1>4 DEF Cleared, Untouched

LEMMA RecoverKidDoes ==
  ASSUME Typed, NEW d \in Docs, RecoverKid(d)
  PROVE  Recovered(d) /\ \A e \in Docs \ {d} : Untouched(e)
<1> USE DEF Typed, RowsOK
<1> DEFINE x == kid[d]
           barrier == TakenForWaiting(d)
           closed == barrier /\ Closed(kid[d].group)
           st == IF closed THEN "running" ELSE IF barrier THEN "waiting_children" ELSE "reconciling"
           y == [x EXCEPT !.active = FALSE, !.status = st]
           request == IF closed \/ ckpt[d].kind = "none"
                      THEN [NoCommand EXCEPT !.doc = d] ELSE [ckpt[d] EXCEPT !.kind = "replay"]
<1>1. mem' = [mem EXCEPT ![d] = y] /\ kid' = [kid EXCEPT ![d] = mem'[d]]
  BY DEF RecoverKid
<1>2. /\ mem'[d] = y /\ kid'[d] = y
      /\ \A e \in Docs \ {d} : mem'[e] = mem[e] /\ kid'[e] = kid[e]
  BY <1>1
<1>3. /\ kpc[d] = "idle" /\ Busy(kid[d].status) /\ ckpt' = ckpt
      /\ kpc'[d] = IF ~barrier \/ closed THEN "submit" ELSE "idle"
      /\ kjob' = [kjob EXCEPT ![d] = IF ~barrier \/ closed THEN request ELSE NoCommand]
      /\ \A e \in Docs \ {d} : kpc'[e] = kpc[e]
  BY DEF RecoverKid, Busy
<1>4. y.group = x.group /\ y.mode = x.mode /\ ~y.active /\ y.status = st
  <2>1. x \in Rows
    OBVIOUS
  <2> HIDE DEF x, st
  <2>2. QED
    BY <2>1 DEF Rows
<1>5. Busy(st)
  BY DEF Busy
<1>6. ckpt[d].kind = "none" => ckpt[d].round = 0
  BY DEF JobsOK, Jobs
<1>7. ~closed => request.round = ckpt[d].round
  <2>1. ckpt[d] \in Jobs /\ NoCommand.round = 0
    BY DEF JobsOK, NoCommand
  <2> DEFINE z == ckpt[d]
  <2>2. [NoCommand EXCEPT !.doc = d].round = 0
    BY DEF NoCommand
  <2> HIDE DEF z
  <2>3. z \in Jobs => [z EXCEPT !.kind = "replay"].round = z.round
    BY DEF Jobs
  <2>4. QED
    BY <1>6, <2>1, <2>2, <2>3 DEF z
<1>8. /\ kjob'[d] = IF ~barrier \/ closed THEN request ELSE NoCommand
      /\ \A e \in Docs \ {d} : kjob'[e] = kjob[e]
  BY <1>3 DEF JobsOK
<1>9. kpc'[d] = "submit" =>
       \/ kid[d].group = 0
       \/ ~kid[d].active /\ Closed(kid[d].group)
       \/ kid[d].active /\ kjob'[d].round = ckpt[d].round
  <2>1. kid[d].group \in Nat /\ kid[d].active \in BOOLEAN
    BY DEF Rows
  <2>2. barrier <=> kid[d].group > 0 /\ ~kid[d].active
    BY DEF TakenForWaiting
  <2> HIDE DEF barrier, request
  <2>3. QED
    BY <1>3, <1>7, <1>8, <2>1, <2>2
<1> HIDE DEF y, st, request
<1>10. QED
  BY <1>2, <1>3, <1>4, <1>5, <1>8, <1>9 DEF Recovered, Untouched

LEMMA KidMovesDoes ==
  ASSUME Typed, NEW d \in Docs, PublishReport(d) \/ KidReturns(d) \/ KidCrash(d)
  PROVE  Moved(d) /\ \A e \in Docs \ {d} : Untouched(e)
  BY DEF Typed, RowsOK, JobsOK, PublishReport, KidReturns, KidCrash, Moved, Untouched

LEMMA KidSteps ==
  ASSUME Typed, [Next]_vars, NEW d \in Docs
  PROVE  \/ Untouched(d)
         \/ PrepareChild(d) /\ \E k \in Kinds : IsPrepared(d, round, k)
         \/ \E m \in Reports : HandOver(m) /\ m.doc = d /\ IsPrepared(d, m.round, "query")
         \/ \E c \in Starts : HandleStart(c) /\ c.doc = d /\ IsStarted(d, c)
         \/ KidResponds(d) /\ Responded(d)
         \/ Ended(d)
         \/ ClearInvocation(d) /\ Cleared(d)
         \/ Moved(d)
         \/ RecoverKid(d) /\ Recovered(d)
<1>0. CASE UNCHANGED kidVars
  BY <1>0 DEF kidVars, Untouched
<1>1. ASSUME NEW e \in Docs, PrepareChild(e)
      PROVE  Untouched(d) \/ (e = d /\ \E k \in Kinds : IsPrepared(d, round, k))
  <2>1. PICK k \in Kinds : kid' = [kid EXCEPT ![e] = Prepared(e, round, k)]
    BY <1>1 DEF PrepareChild, Kinds
  <2>2. Reusable(kid[e].status) /\ UNCHANGED <<mem, kpc, kjob, ckpt>>
    BY <1>1 DEF PrepareChild
  <2>3. IsPrepared(e, round, k) /\ \A f \in Docs \ {e} : Untouched(f)
    BY <2>1, <2>2, PreparedFields
  <2>4. QED
    BY <2>3
<1>2. ASSUME NEW m \in Reports, HandOver(m)
      PROVE  Untouched(d) \/ (m.doc = d /\ IsPrepared(d, m.round, "query"))
  <2>1. m.doc \in Docs
    BY DEF Typed, CommandsOK, Reports, StartCommands, ReportCommands
  <2>2. CASE Reusable(kid[m.doc].status)
    <3>1. /\ kid' = [kid EXCEPT ![m.doc] = Prepared(m.doc, m.round, "query")]
          /\ UNCHANGED <<mem, kpc, kjob, ckpt>>
      BY <1>2, <2>2 DEF HandOver
    <3>2. IsPrepared(m.doc, m.round, "query") /\ \A f \in Docs \ {m.doc} : Untouched(f)
      BY <2>1, <2>2, <3>1, PreparedFields
    <3>3. QED
      BY <3>2
  <2>3. CASE ~Reusable(kid[m.doc].status)
    BY <1>2, <2>3 DEF HandOver, Untouched
  <2>4. QED
    BY <2>2, <2>3
<1>3. ASSUME NEW c \in Starts, HandleStart(c) PROVE Untouched(d) \/ (c.doc = d /\ IsStarted(d, c))
  BY <1>3, HandleStartDoes
<1>4. ASSUME NEW e \in Docs, KidResponds(e) PROVE Untouched(d) \/ (e = d /\ Responded(d))
  BY <1>4, KidRespondsDoes
<1>5. ASSUME NEW e \in Docs, KidEndsTurn(e, TRUE) \/ KidEndsTurn(e, FALSE) \/ KidErrs(e)
      PROVE  Untouched(d) \/ Ended(d)
  BY <1>5, KidEndsDoes
<1>6. ASSUME NEW e \in Docs, ClearInvocation(e) PROVE Untouched(d) \/ (e = d /\ Cleared(d))
  BY <1>6, ClearInvocationDoes
<1>7. ASSUME NEW e \in Docs, PublishReport(e) \/ KidReturns(e) \/ KidCrash(e)
      PROVE  Untouched(d) \/ Moved(d)
  BY <1>7, KidMovesDoes
<1>8. ASSUME NEW e \in Docs, RecoverKid(e) PROVE Untouched(d) \/ (e = d /\ Recovered(d))
  BY <1>8, RecoverKidDoes
<1>9. ASSUME NEW e \in Docs, IdleRelease(e) PROVE Untouched(d)
  BY <1>9 DEF IdleRelease, Untouched
<1>10. CASE UNCHANGED vars
  BY <1>10, <1>0 DEF vars
<1>11. CASE ResponseCreated \/ CreateGroup \/ WaitForChildren \/ EndTurn \/ PublishQuery
            \/ SendAggregate \/ RecoverParent \/ OpeningFails \/ NotAttached \/ HandOverFails
            \/ ParentCrash \/ (\E S \in SUBSET Docs : AskDocuments(S))
            \/ (\E c \in starts : PublishStart(c))
  BY <1>11, <1>0 DEF ResponseCreated, CreateGroup, WaitForChildren, EndTurn, PublishQuery,
       SendAggregate, RecoverParent, OpeningFails, NotAttached, HandOverFails, ParentCrash,
       AskDocuments, PublishStart
<1>12. ASSUME NEW c \in cmds, SkipStart(c) \/ StartConflict(c) \/ DropReport(c) \/ RecordReport(c)
       PROVE  UNCHANGED kidVars
  BY <1>12 DEF SkipStart, StartConflict, DropReport, RecordReport
<1>13. QED
  BY <1>0, <1>1, <1>2, <1>3, <1>4, <1>5, <1>6, <1>7, <1>8, <1>9, <1>10, <1>11, <1>12, Steps
     DEF Starts, Reports

(* A step publishes the starts of a group or a report of a child's copy,   *)
(* and of starts it makes those of the latest round or of the report that  *)
(* is handed over.                                                         *)
LEMMA CommandSteps ==
  ASSUME Typed, [Next]_vars
  PROVE  /\ \A m \in Reports' : \/ m \in Reports
                                \/ \E d \in Docs : PublishReport(d) /\ m = Report(d, mem[d].group, mem[d].last)
         /\ \A c \in Starts' : c \in Starts \/ (c \in starts /\ pc \in {"publish", "hand_over"})
<1> USE DEF Typed
<1>0. CASE cmds' \subseteq cmds
  BY <1>0 DEF Reports, Starts
<1>1. ASSUME NEW c \in starts, PublishStart(c)
      PROVE  /\ \A m \in Reports' : m \in Reports
             /\ \A b \in Starts' : b \in Starts \/ (b \in starts /\ pc = "publish")
  BY <1>1 DEF PublishStart, Reports, Starts, CommandsOK, StartCommands
<1>2. ASSUME PublishQuery
      PROVE  /\ \A m \in Reports' : m \in Reports
             /\ \A b \in Starts' : b \in Starts \/ (b \in starts /\ pc = "hand_over")
  BY <1>2 DEF PublishQuery, Reports, Starts, CommandsOK, StartCommands
<1>3. ASSUME NEW d \in Docs, PublishReport(d)
      PROVE  /\ \A m \in Reports' : m \in Reports \/ m = Report(d, mem[d].group, mem[d].last)
             /\ \A b \in Starts' : b \in Starts
  BY <1>3 DEF PublishReport, Reports, Starts, Report
<1>4. CASE UNCHANGED vars
  BY <1>4, <1>0 DEF vars
<1>5. CASE ResponseCreated \/ CreateGroup \/ WaitForChildren \/ EndTurn \/ SendAggregate
           \/ RecoverParent \/ OpeningFails \/ NotAttached \/ HandOverFails \/ ParentCrash
           \/ (\E S \in SUBSET Docs : AskDocuments(S))
  BY <1>5, <1>0 DEF ResponseCreated, CreateGroup, WaitForChildren, EndTurn, SendAggregate,
       RecoverParent, OpeningFails, NotAttached, HandOverFails, ParentCrash, AskDocuments
<1>6. ASSUME NEW d \in Docs, PrepareChild(d) \/ KidResponds(d) \/ KidEndsTurn(d, TRUE)
              \/ KidEndsTurn(d, FALSE) \/ ClearInvocation(d) \/ KidReturns(d) \/ RecoverKid(d)
              \/ KidErrs(d) \/ KidCrash(d) \/ IdleRelease(d)
      PROVE  cmds' \subseteq cmds
  BY <1>6 DEF PrepareChild, KidResponds, KidEndsTurn, ClearInvocation, KidReturns, RecoverKid,
       KidErrs, KidCrash, IdleRelease
<1>7. ASSUME NEW c \in cmds, HandleStart(c) \/ SkipStart(c) \/ StartConflict(c) \/ DropReport(c)
              \/ HandOver(c) \/ RecordReport(c)
      PROVE  cmds' \subseteq cmds
  BY <1>7 DEF HandleStart, SkipStart, StartConflict, DropReport, HandOver, RecordReport
<1>8. QED
  BY <1>0, <1>1, <1>2, <1>3, <1>4, <1>5, <1>6, <1>7, Steps DEF Starts, Reports

LEMMA CommandFields ==
  ASSUME Typed
  PROVE  /\ \A m \in Reports : m.doc \in Docs /\ m.round \in Rounds /\ m.resp \in Responses
         /\ \A c \in Starts : c.doc \in Docs /\ c.round \in Rounds /\ c.phase \in Kinds
         /\ \A c \in starts : c.doc \in Docs /\ c.round \in Rounds
  BY DEF Typed, CommandsOK, Reports, Starts, StartCommands, ReportCommands, Kinds

(* A report that the parent takes is of a document of its group. *)
LEMMA ExpectedIsAsked ==
  ASSUME Typed, ParentInv, Membership, NEW m \in Reports, Expected(m)
  PROVE  Asked(m.round, m.doc)
<1>1. m.round = parent.group /\ m.round \in Rounds /\ m.round # 0
  BY CommandFields DEF Expected, Rounds
<1>2. AnyAsked(m.round)
  BY <1>1 DEF ParentInv, HasMembers, Rounds
<1>3. QED
  BY <1>1, <1>2 DEF Membership, Belongs

(* The starts that a step leaves to be published come from CreateGroup or  *)
(* from a hand-over, or were there before.                                 *)
LEMMA StartsAreReady ==
  ASSUME [Next]_vars, pc' \in {"publish", "hand_over"}
  PROVE  \/ starts' \subseteq starts /\ pc \in {"publish", "hand_over"}
         \/ CreateGroup
         \/ \E m \in Reports : HandOver(m)
<1>0. CASE UNCHANGED parentVars
  BY <1>0 DEF parentVars
<1>1. CASE UNCHANGED vars
  BY <1>1, <1>0 DEF vars
<1>2. ASSUME NEW c \in starts, PublishStart(c) PROVE starts' \subseteq starts /\ pc = "publish"
  BY <1>2 DEF PublishStart
<1>3. CASE ResponseCreated \/ WaitForChildren \/ EndTurn \/ PublishQuery \/ SendAggregate
           \/ RecoverParent \/ OpeningFails \/ NotAttached \/ HandOverFails \/ ParentCrash
           \/ (\E S \in SUBSET Docs : AskDocuments(S)) \/ (\E d \in Docs : PrepareChild(d))
  BY <1>3 DEF ResponseCreated, WaitForChildren, EndTurn, PublishQuery, SendAggregate,
       RecoverParent, OpeningFails, NotAttached, HandOverFails, ParentCrash, AskDocuments,
       PrepareChild
<1>4. ASSUME NEW m \in Reports, RecordReport(m)
      PROVE  starts' \subseteq starts /\ pc \in {"publish", "hand_over"}
  BY <1>4 DEF RecordReport, Expected
<1>5. QED
  BY <1>0, <1>1, <1>2, <1>3, <1>4, Steps
     DEF KidResponds, KidEndsTurn, ClearInvocation, PublishReport, KidReturns, RecoverKid,
         KidErrs, KidCrash, IdleRelease, HandleStart, SkipStart, StartConflict, DropReport

LEMMA MembershipNext == Typed /\ ParentInv /\ Membership /\ [Next]_vars => Membership'
<1> SUFFICES ASSUME Typed, ParentInv, Membership, [Next]_vars PROVE Membership'
  OBVIOUS
<1>1. ASSUME NEW d \in Docs PROVE Belongs(kid[d].group, d)' /\ Belongs(mem[d].group, d)'
  <2>0. kid[d].group \in 0..MaxRounds /\ mem[d].group \in 0..MaxRounds
    BY DEF Typed, RowsOK, Rows
  <2>1. \A r \in {kid[d].group, mem[d].group} : Belongs(r, d)'
    BY <2>0, BelongsStays DEF Membership
  <2>2. CASE Untouched(d)
    BY <2>1, <2>2 DEF Untouched
  <2>3. ASSUME NEW k, PrepareChild(d), IsPrepared(d, round, k)
        PROVE  Belongs(kid[d].group, d)' /\ Belongs(mem[d].group, d)'
    <3>1. /\ pc = "prepare" /\ UNCHANGED <<round, pc, result>> /\ round \in Rounds
          /\ kid'[d].group = round /\ mem'[d] = mem[d]
      BY <2>3 DEF PrepareChild, IsPrepared, Typed, ParentOK, Rounds
    <3>2. PICK previous, q : starts' = starts \cup {Start(d, round, q, previous)}
      BY <2>3 DEF PrepareChild
    <3>3. Start(d, round, q, previous).doc = d /\ Start(d, round, q, previous) \in starts'
      BY <3>2 DEF Start
    <3>a. ASSUME NEW e \in Docs PROVE ~Asked(round, e)
      BY <3>1 DEF ParentInv, Opened, Rounds
    <3>4. ~AnyAsked(round)'
      BY <3>1, <3>a DEF AnyAsked, Asked
    <3>5. Belongs(round, d)'
      BY <3>1, <3>3, <3>4 DEF Belongs, Rounds
    <3>6. QED
      BY <2>1, <3>1, <3>5
  <2>4. ASSUME NEW m \in Reports, HandOver(m), m.doc = d, IsPrepared(d, m.round, "query")
        PROVE  Belongs(kid[d].group, d)' /\ Belongs(mem[d].group, d)'
    <3>1. m.round \in 0..MaxRounds /\ Belongs(m.round, d)
      BY <2>4, CommandFields DEF Membership, Rounds
    <3>2. Belongs(m.round, d)'
      BY <3>1, BelongsStays
    <3>3. QED
      BY <2>1, <2>4, <3>2 DEF IsPrepared
  <2>5. CASE Cleared(d)
    <3>1. Belongs(0, d)'
      BY DEF Belongs
    <3>2. QED
      BY <2>1, <2>5, <3>1 DEF Cleared
  <2>6. ASSUME NEW c, IsStarted(d, c) PROVE Belongs(kid[d].group, d)' /\ Belongs(mem[d].group, d)'
    BY <2>1, <2>6 DEF IsStarted
  <2>7. CASE Responded(d) \/ Ended(d) \/ Moved(d) \/ Recovered(d)
    BY <2>1, <2>7 DEF Responded, Ended, Moved, Recovered
  <2>8. QED
    BY <2>2, <2>3, <2>4, <2>5, <2>6, <2>7, KidSteps
<1>2. ASSUME NEW m \in Reports' PROVE Belongs(m.round, m.doc)'
  <2>1. CASE m \in Reports
    <3>1. m.doc \in Docs /\ m.round \in 0..MaxRounds /\ Belongs(m.round, m.doc)
      BY <2>1, CommandFields DEF Membership, Rounds
    <3>2. QED
      BY <3>1, BelongsStays
  <2>2. ASSUME NEW d \in Docs, m = Report(d, mem[d].group, mem[d].last)
        PROVE  Belongs(m.round, m.doc)'
    <3>1. m.doc = d /\ m.round = mem[d].group /\ mem[d].group \in 0..MaxRounds
      BY <2>2 DEF Report, Typed, RowsOK, Rows
    <3>2. QED
      BY <3>1, BelongsStays DEF Membership
  <2>3. QED
    BY <2>1, <2>2, CommandSteps
<1>3. ASSUME NEW c \in Starts' PROVE Asked(c.round, c.doc)'
  <2>1. c.round \in Rounds /\ c.doc \in Docs /\ Asked(c.round, c.doc)
    BY CommandSteps, CommandFields DEF Membership
  <2>2. QED
    BY <2>1, ResultSteps DEF ParentInv
<1>4. ASSUME pc' \in {"publish", "hand_over"}, NEW c \in starts' PROVE Asked(c.round, c.doc)'
  <2>1. CASE CreateGroup
    <3>1. c \in starts /\ c.round = round
      BY <2>1 DEF CreateGroup, ParentInv, HasMembers
    <3>2. c.doc \in Docs /\ round \in Rounds
      BY <3>1, CommandFields
    <3>3. result'[<<round, c.doc>>] = Unsettled("pending")
      BY <2>1, <3>1, <3>2 DEF CreateGroup, Typed, ResultOK
    <3>4. QED
      BY <3>1, <3>2, <3>3 DEF Asked, Unsettled
  <2>2. ASSUME NEW m \in Reports, HandOver(m) PROVE Asked(c.round, c.doc)'
    <3>1. Asked(m.round, m.doc) /\ m.round \in Rounds /\ m.doc \in Docs
      BY <2>2, ExpectedIsAsked, CommandFields DEF HandOver
    <3>2. \/ c = Start(m.doc, m.round, "query", m.resp)
          \/ starts' = starts /\ pc' = pc
      BY <2>2 DEF HandOver
    <3>3. pc = "idle"
      BY <2>2 DEF HandOver, Expected
    <3>4. c.round = m.round /\ c.doc = m.doc
      BY <1>4, <3>2, <3>3 DEF Start
    <3>5. QED
      BY <3>1, <3>4, ResultSteps DEF ParentInv
  <2>3. CASE c \in starts /\ pc \in {"publish", "hand_over"}
    BY <2>3, CommandFields, ResultSteps DEF Membership, ParentInv
  <2>4. \/ c \in starts /\ pc \in {"publish", "hand_over"}
        \/ CreateGroup
        \/ \E m \in Reports : HandOver(m)
    BY <1>4, StartsAreReady
  <2>5. QED
    BY <2>1, <2>2, <2>3, <2>4
<1>5. QED
  BY <1>1, <1>2, <1>3, <1>4 DEF Membership

LEMMA InitInv == Init => Typed /\ ParentInv /\ Membership
<1> SUFFICES ASSUME Init PROVE ParentInv /\ Membership
  BY InitTyped
<1>1. \A r \in Rounds, d \in Docs : ~Asked(r, d)
  BY DEF Init, Asked, Unsettled
<1>2. ParentInv
  BY <1>1 DEF Init, ParentInv, Opened, WaitsForLatest, HasMembers, Waits
<1>3. \A d \in Docs : Belongs(0, d)
  BY DEF Belongs
<1>4. Membership
  BY <1>3 DEF Init, Membership, NoRow, Reports, Starts
<1>5. QED
  BY <1>2, <1>4

Inv == Typed /\ ParentInv /\ Membership

LEMMA InvNext == Inv /\ [Next]_vars => Inv'
  BY TypedNext, ParentInvNext, MembershipNext DEF Inv

LEMMA InvHolds == Spec => []Inv
<1>1. Init => Inv
  BY InitInv DEF Inv
<1>2. QED
  BY <1>1, InvNext, PTL DEF Spec
-----------------------------------------------------------------------------
(* The group as an abstract barrier. *)

LEMMA BarrierStep == Inv /\ [Next]_vars => [Group!Next]_Group!barrierVars
<1> SUFFICES ASSUME Inv, [Next]_vars PROVE [Group!Next]_Group!barrierVars
  OBVIOUS
<1> USE DEF Inv, Typed
<1> DEFINE outcome == [s \in Rounds \X Docs |-> result[s].mark]
<1>0. CASE UNCHANGED <<result, sent>>
  BY <1>0 DEF Group!barrierVars
<1>1. CASE CreateGroup
  <2> DEFINE members == {c.doc : c \in starts}
  <2>1. round \in Rounds /\ members \in SUBSET Docs /\ sent' = sent
    BY <1>1, CommandFields DEF CreateGroup, ParentOK, Rounds
  <2>2. Group!MembersOf(round) = {}
    <3>1. ASSUME NEW d \in Docs PROVE outcome[<<round, d>>] = "absent"
      <4>1. ~Asked(round, d)
        BY <1>1, <2>1 DEF CreateGroup, ParentInv, Opened, Rounds
      <4>2. QED
        BY <2>1, <4>1 DEF Asked
    <3>2. QED
      BY <3>1 DEF Group!MembersOf
  <2>3. outcome' = [s \in Rounds \X Docs |-> IF s \in {round} \X members THEN "pending" ELSE outcome[s]]
    <3>1. ASSUME NEW s \in Rounds \X Docs
          PROVE  result'[s].mark = IF s \in {round} \X members THEN "pending" ELSE result[s].mark
      <4>1. s \in {round} \X members <=> s[1] = round /\ s[2] \in members
        BY <2>1
      <4>2. result'[s] = IF s[1] = round /\ s[2] \in members THEN Unsettled("pending") ELSE result[s]
        BY <1>1 DEF CreateGroup, ResultOK
      <4>3. QED
        BY <4>1, <4>2 DEF Unsettled
    <3>2. QED
      BY <3>1, Zenon
  <2>4. Group!Open(round)
    BY <2>1, <2>2, <2>3 DEF Group!Open, Group!Slots
  <2>5. QED
    BY <2>1, <2>4 DEF Group!Next, Group!Open
<1>2. ASSUME NEW m \in Reports, RecordReport(m) PROVE [Group!Next]_Group!barrierVars
  <2> DEFINE t == <<m.round, m.doc>>
             new == IF Settled(t) THEN result[t] ELSE Result(m.resp)
  <2>1. t \in Rounds \X Docs /\ Asked(m.round, m.doc) /\ sent' = sent
    BY <1>2, CommandFields, ExpectedIsAsked DEF RecordReport
  <2>2. result' = [result EXCEPT ![t] = new]
    BY <1>2 DEF RecordReport, Recorded
  <2>3. \A s \in Rounds \X Docs : result'[s] = IF s = t THEN new ELSE result[s]
    BY <2>1, <2>2 DEF ResultOK
  <2>4. CASE Settled(t)
    <3>1. outcome' = outcome
      BY <2>3, <2>4
    <3>2. QED
      BY <2>1, <3>1 DEF Group!barrierVars
  <2>5. CASE ~Settled(t)
    <3>1. outcome[t] = "pending"
      BY <2>1, <2>5 DEF Asked, Settled, ResultOK, Marks
    <3>2. new.mark \in {"completed", "failed"}
      BY <2>5 DEF Result
    <3>3. outcome' = [outcome EXCEPT ![t] = new.mark]
      <4> HIDE DEF t, new
      <4>1. QED
        BY <2>1, <2>3
    <3>4. Group!Settle(t)
      BY <2>1, <3>1, <3>2, <3>3 DEF Group!Settle
    <3>5. QED
      BY <2>1, <3>4 DEF Group!Next, Group!Slots
  <2>6. QED
    BY <2>4, <2>5
<1>3. CASE SendAggregate
  <2> DEFINE g == parent.group
  <2>1. /\ g \in Rounds /\ AnyAsked(g) /\ Closed(g) /\ result' = result /\ sent' = sent \cup {g}
    BY <1>3 DEF SendAggregate, ParentOK, ParentInv, HasMembers, WaitsForLatest, Rounds
  <2>2. Group!MembersOf(g) # {}
    <3>1. PICK d \in Docs : Asked(g, d)
      BY <2>1 DEF AnyAsked
    <3>2. d \in Group!MembersOf(g)
      BY <3>1, <2>1 DEF Asked, Group!MembersOf
    <3>3. QED
      BY <3>2
  <2>3. \A d \in Group!MembersOf(g) : outcome[<<g, d>>] \in {"completed", "failed"}
    BY <2>1 DEF Closed, DocsOf, Settled, Group!MembersOf
  <2>4. outcome' = outcome
    BY <2>1
  <2>5. Group!Submit(g)
    BY <2>1, <2>2, <2>3, <2>4 DEF Group!Submit
  <2>6. QED
    BY <2>1, <2>5 DEF Group!Next
<1>4. CASE UNCHANGED vars
  BY <1>4, <1>0 DEF vars
<1>5. CASE ResponseCreated \/ WaitForChildren \/ EndTurn \/ PublishQuery \/ RecoverParent
           \/ OpeningFails \/ NotAttached \/ HandOverFails \/ ParentCrash
           \/ (\E S \in SUBSET Docs : AskDocuments(S)) \/ (\E c \in starts : PublishStart(c))
  BY <1>5, <1>0 DEF ResponseCreated, WaitForChildren, EndTurn, PublishQuery, RecoverParent,
       OpeningFails, NotAttached, HandOverFails, ParentCrash, AskDocuments, PublishStart
<1>6. ASSUME NEW d \in Docs, PrepareChild(d) \/ KidResponds(d) \/ KidEndsTurn(d, TRUE)
              \/ KidEndsTurn(d, FALSE) \/ ClearInvocation(d) \/ PublishReport(d) \/ KidReturns(d)
              \/ RecoverKid(d) \/ KidErrs(d) \/ KidCrash(d) \/ IdleRelease(d)
      PROVE  UNCHANGED <<result, sent>>
  BY <1>6 DEF PrepareChild, KidResponds, KidEndsTurn, ClearInvocation, PublishReport,
       KidReturns, RecoverKid, KidErrs, KidCrash, IdleRelease
<1>7. ASSUME NEW c \in cmds, HandleStart(c) \/ SkipStart(c) \/ StartConflict(c) \/ DropReport(c)
              \/ HandOver(c)
      PROVE  UNCHANGED <<result, sent>>
  BY <1>7 DEF HandleStart, SkipStart, StartConflict, DropReport, HandOver
<1>8. QED
  BY <1>0, <1>1, <1>2, <1>3, <1>4, <1>5, <1>6, <1>7, Steps DEF Starts, Reports

(* However children are reused, warmed up, started again or recovered, a   *)
(* document round behaves as the abstract barrier: the group opens once,   *)
(* each document has one outcome, which stays, and no aggregate is sent    *)
(* before the last of them.                                                *)
THEOREM QueryImplementsBarrier == Spec => IsBarrier
<1>1. Init => Group!Init
  BY DEF Init, Group!Init, Group!Slots, Unsettled
<1>2. QED
  BY <1>1, BarrierStep, InvHolds, PTL DEF Spec, IsBarrier, Group!Spec

-----------------------------------------------------------------------------
(* Rounds, of the documents of which no start ran late.                    *)

(* The group of round g has document d, and n is that round, unless the    *)
(* document has its outcome, which nothing that comes later changes.       *)
Fits(d, g, n) == Asked(g, d) /\ (n = g \/ Settled(<<g, d>>))

(* A child that runs is in the group of the round it was started for, and  *)
(* so are its job, its checkpoint, its response and its report.            *)
Punctual(d) ==
  /\ Busy(kid[d].status) => Asked(kid[d].group, d)
  /\ kid[d].active => Busy(kid[d].status) /\ Fits(d, kid[d].group, ckpt[d].round)
  /\ kpc[d] \in {"submit", "stream"} =>
       /\ mem[d] = kid[d] /\ Busy(kid[d].status)
       /\ Fits(d, kid[d].group, kjob[d].round)
  /\ kpc[d] \in {"clear", "publish"} =>
       /\ ~mem[d].active /\ ~Busy(mem[d].status)
       /\ Fits(d, mem[d].group, mem[d].last.round)
  /\ \A m \in Reports : m.doc = d => Fits(d, m.round, m.resp.round)

OnTime == \A d \in Docs \ late : Punctual(d)

LEMMA LateGrows ==
  ASSUME Typed, [Next]_vars
  PROVE  /\ late \subseteq late'
         /\ \A c \in Starts : HandleStart(c) /\ c.doc \notin late' =>
              kid[c.doc].group = c.round /\ kid[c.doc].mode = c.phase
<1>1. ASSUME NEW c \in Starts, HandleStart(c)
      PROVE  late \subseteq late'
             /\ (c.doc \notin late' => kid[c.doc].group = c.round /\ kid[c.doc].mode = c.phase)
  BY <1>1 DEF HandleStart
<1>0. CASE UNCHANGED late
  BY <1>0, <1>1
<1>2. CASE UNCHANGED vars
  BY <1>2, <1>0 DEF vars
<1>3. QED
  BY <1>0, <1>1, <1>2, Steps
     DEF ResponseCreated, CreateGroup, WaitForChildren, EndTurn, PublishQuery, SendAggregate,
         RecoverParent, OpeningFails, NotAttached, HandOverFails, ParentCrash, AskDocuments,
         PublishStart, PrepareChild, KidResponds, KidEndsTurn, ClearInvocation, PublishReport,
         KidReturns, RecoverKid, KidErrs, KidCrash, IdleRelease, SkipStart, StartConflict,
         DropReport, HandOver, RecordReport

LEMMA FitsStays ==
  ASSUME Inv, [Next]_vars, NEW d \in Docs
  PROVE  /\ \A g : Asked(g, d) => Asked(g, d)'
         /\ \A g, n : Fits(d, g, n) => Fits(d, g, n)'
<1>1. ASSUME NEW g, Asked(g, d) PROVE Asked(g, d)' /\ (Settled(<<g, d>>) => Settled(<<g, d>>)')
  <2>1. g \in Rounds
    BY <1>1 DEF Asked
  <2>2. QED
    BY <1>1, <2>1, ResultSteps DEF Inv, ParentInv
<1>2. QED
  BY <1>1 DEF Fits

LEMMA PunctualNext ==
  ASSUME Inv, [Next]_vars, NEW d \in Docs, Punctual(d), d \notin late'
  PROVE  Punctual(d)'
<1> DEFINE A(g) == g \in Rounds /\ result'[<<g, d>>].mark # "absent"
           F(g, n) == A(g) /\ (n = g \/ result'[<<g, d>>].mark \in {"completed", "failed"})
           Then == /\ Busy(kid'[d].status) => A(kid'[d].group)
                   /\ kid'[d].active => Busy(kid'[d].status) /\ F(kid'[d].group, ckpt'[d].round)
                   /\ kpc'[d] \in {"submit", "stream"} =>
                        /\ mem'[d] = kid'[d] /\ Busy(kid'[d].status)
                        /\ F(kid'[d].group, kjob'[d].round)
                   /\ kpc'[d] \in {"clear", "publish"} =>
                        /\ ~mem'[d].active /\ ~Busy(mem'[d].status)
                        /\ F(mem'[d].group, mem'[d].last.round)
<1>a. \A g : Asked(g, d) => A(g)
  BY FitsStays DEF Asked
<1>f. \A g, n : Fits(d, g, n) => F(g, n)
  BY FitsStays DEF Fits, Asked, Settled
<1>z. \A n : ~Fits(d, 0, n) /\ ~Asked(0, d)
  BY DEF Fits, Asked, Rounds
<1>m. \A m \in Reports' : m.doc = d => F(m.round, m.resp.round)
  <2>1. ASSUME NEW m \in Reports, m.doc = d PROVE F(m.round, m.resp.round)
    BY <2>1, <1>f DEF Punctual
  <2>2. ASSUME NEW m, NEW e \in Docs, PublishReport(e), m = Report(e, mem[e].group, mem[e].last),
               m.doc = d
        PROVE  F(m.round, m.resp.round)
    <3>1. e = d /\ kpc[d] = "publish" /\ m.round = mem[d].group /\ m.resp = mem[d].last
      BY <2>2 DEF Report, PublishReport
    <3>2. Fits(d, m.round, m.resp.round)
      BY <3>1 DEF Punctual
    <3>3. QED
      BY <3>2, <1>f
  <2>3. QED
    BY <2>1, <2>2, CommandSteps DEF Inv
<1>t. Then => Punctual(d)'
  BY <1>m DEF Punctual, Fits, Asked, Settled
<1> HIDE DEF A, F
<1>1. CASE Untouched(d)
  BY <1>1, <1>t, <1>a, <1>f DEF Untouched, Punctual
<1>2. ASSUME NEW g, NEW k, IsPrepared(d, g, k) PROVE Then
  BY <1>2, <1>a, <1>f DEF IsPrepared, Punctual
<1>3. ASSUME NEW c \in Starts, HandleStart(c), c.doc = d, IsStarted(d, c) PROVE Then
  <2>1. kid[d].group = c.round /\ Asked(c.round, d)
    BY <1>3, LateGrows DEF Inv, Membership
  <2>2. F(c.round, c.round)
    BY <2>1, <1>f DEF Fits
  <2>3. QED
    BY <1>3, <2>1, <2>2, <1>a, <1>f DEF IsStarted, Punctual, Busy
<1>4. CASE Responded(d)
  <2>1. Then
    BY <1>4, <1>a, <1>f DEF Responded, Punctual, Busy, F
  <2>2. QED
    BY <2>1, <1>t
<1>5. CASE Ended(d)
  <2>1. Then
    BY <1>5, <1>f DEF Ended, Punctual
  <2>2. QED
    BY <2>1, <1>t
<1>6. CASE Cleared(d)
  <2>1. Then
    BY <1>6, <1>f, <1>z DEF Cleared, Punctual
  <2>2. QED
    BY <2>1, <1>t
<1>7. CASE Moved(d)
  <2>1. Then
    BY <1>7, <1>a, <1>f DEF Moved, Punctual
  <2>2. QED
    BY <2>1, <1>t
<1>8. CASE Recovered(d)
  <2>1. Asked(kid[d].group, d)
    BY <1>8 DEF Recovered, Punctual
  <2>2. Closed(kid[d].group) => Settled(<<kid[d].group, d>>)
    BY <2>1 DEF Closed, DocsOf, Asked
  <2>3. kpc'[d] = "submit" => Fits(d, kid[d].group, kjob'[d].round)
    BY <1>8, <2>1, <2>2, <1>z DEF Recovered, Punctual, Fits
  <2>4. Then
    BY <1>8, <2>1, <2>3, <1>a, <1>f DEF Recovered
  <2>5. QED
    BY <2>4, <1>t
<1>9. QED
  BY <1>1, <1>2, <1>3, <1>4, <1>5, <1>6, <1>7, <1>8, <1>t, KidSteps DEF Inv

LEMMA OnTimeNext == Inv /\ OnTime /\ [Next]_vars => OnTime'
<1> SUFFICES ASSUME Inv, OnTime, [Next]_vars, NEW d \in Docs \ late' PROVE Punctual(d)'
  BY DEF OnTime
<1>1. d \in Docs /\ d \notin late
  BY LateGrows DEF Inv
<1>2. Punctual(d)
  BY <1>1 DEF OnTime
<1>3. QED
  BY <1>1, <1>2, PunctualNext

LEMMA InitOnTime == Init => OnTime
<1> SUFFICES ASSUME Init, NEW d \in Docs PROVE Punctual(d)
  BY DEF OnTime
<1>1. kid[d] = NoRow /\ kpc[d] = "idle" /\ Reports = {}
  BY DEF Init, Reports
<1>2. QED
  BY <1>1 DEF Punctual, NoRow, Busy

LEMMA OnTimeHolds == Spec => []OnTime
  BY InitOnTime, OnTimeNext, InvHolds, PTL DEF Spec

(* Only RecordReport settles a document. *)
LEMMA RecordsOutcome ==
  ASSUME Typed, [Next]_vars, NEW r \in Rounds, NEW d \in Docs, Settled(<<r, d>>)'
  PROVE  Settled(<<r, d>>) \/ \E m \in Reports : RecordReport(m) /\ m.round = r /\ m.doc = d
<1> USE DEF Typed
<1>0. CASE UNCHANGED result
  BY <1>0 DEF Settled
<1>1. CASE CreateGroup
  <2>1. result'[<<r, d>>] \in {Unsettled("pending"), result[<<r, d>>]}
    BY <1>1 DEF CreateGroup, ResultOK
  <2>2. QED
    BY <2>1 DEF Settled, Unsettled
<1>2. ASSUME NEW m \in Reports, RecordReport(m)
      PROVE  Settled(<<r, d>>) \/ (m.round = r /\ m.doc = d)
  <2> DEFINE t == <<m.round, m.doc>>
             new == IF Settled(t) THEN result[t] ELSE Result(m.resp)
  <2>1. result' = [result EXCEPT ![t] = new]
    BY <1>2 DEF RecordReport, Recorded
  <2>2. t # <<r, d>> => result'[<<r, d>>] = result[<<r, d>>]
    <3> HIDE DEF t, new
    <3>1. QED
      BY <2>1 DEF ResultOK
  <2>3. t = <<r, d>> => m.round = r /\ m.doc = d
    BY CommandFields
  <2>4. QED
    BY <2>2, <2>3 DEF Settled
<1>3. CASE UNCHANGED vars
  BY <1>3, <1>0 DEF vars
<1>4. QED
  BY <1>0, <1>1, <1>2, <1>3, Steps
     DEF ResponseCreated, WaitForChildren, EndTurn, PublishQuery, SendAggregate,
         RecoverParent, OpeningFails, NotAttached, HandOverFails, ParentCrash,
         AskDocuments, PublishStart, PrepareChild, KidResponds, KidEndsTurn, ClearInvocation,
         PublishReport, KidReturns, RecoverKid, KidErrs, KidCrash, IdleRelease,
         HandleStart, SkipStart, StartConflict, DropReport, HandOver

LEMMA AnswersNext == Inv /\ OnTime /\ AnswersItsRound /\ [Next]_vars => AnswersItsRound'
<1> SUFFICES ASSUME Inv, OnTime, AnswersItsRound, [Next]_vars,
                    NEW r \in Rounds, NEW d \in Docs, Settled(<<r, d>>)', d \notin late'
             PROVE  result'[<<r, d>>].resp.round = r
  BY DEF AnswersItsRound
<1>1. d \notin late
  BY LateGrows DEF Inv
<1>2. CASE Settled(<<r, d>>)
  BY <1>1, <1>2, ResultSteps DEF AnswersItsRound, Inv, ParentInv
<1>3. ASSUME ~Settled(<<r, d>>), NEW m \in Reports, RecordReport(m), m.round = r, m.doc = d
      PROVE  result'[<<r, d>>].resp.round = r
  <2>1. result' = [result EXCEPT ![<<r, d>>] = Result(m.resp)]
    BY <1>3 DEF RecordReport, Recorded
  <2>2. result'[<<r, d>>].resp = m.resp
    BY <2>1 DEF Inv, Typed, ResultOK, Result
  <2>3. Fits(d, r, m.resp.round)
    BY <1>1, <1>3 DEF OnTime, Punctual
  <2>4. QED
    BY <1>3, <2>2, <2>3 DEF Fits
<1>4. Settled(<<r, d>>) \/ \E m \in Reports : RecordReport(m) /\ m.round = r /\ m.doc = d
  BY RecordsOutcome DEF Inv
<1>5. QED
  BY <1>2, <1>3, <1>4

(* What a round has as its answer to a document was asked in that round,   *)
(* unless a start ran late: neither the reuse of the child's row, nor its  *)
(* recovery, nor a lineage brings up an earlier one.                       *)
THEOREM AnswersAreOfTheirRound == Spec => []AnswersItsRound
<1>1. Init => AnswersItsRound
  BY DEF Init, AnswersItsRound, Settled, Unsettled
<1>2. QED
  BY <1>1, AnswersNext, InvHolds, OnTimeHolds, PTL DEF Spec

-----------------------------------------------------------------------------
(* Phases, of the same documents.                                          *)

(* In the latest round, a report tells the phase that the child's row is   *)
(* in, and so does the copy of a handler that is still to write it; only   *)
(* the hand-over changes the phase, from warm-up to query.                 *)
InPhase(d) ==
  /\ kpc[d] \in {"submit", "stream", "clear", "publish"} /\ mem[d].group = round =>
       kid[d].mode = mem[d].mode \/ (<<d, round>> \in handed /\ kid[d].mode = "query")
  /\ kpc[d] \in {"clear", "publish"} => mem[d].last.phase = mem[d].mode
  /\ \A m \in Reports :
       m.doc = d /\ m.round = round /\ (m.resp.phase = "warmup" => <<d, round>> \notin handed) =>
         /\ kid[d].mode = m.resp.phase
         /\ kpc[d] \in {"submit", "stream", "clear"} => mem[d].mode = m.resp.phase

PhasesFit == \A d \in Docs \ late : InPhase(d)

(* What is handed over stays so, and comes from the waiting parent's round.*)
LEMMA HandedGrows ==
  ASSUME Typed, ParentInv, [Next]_vars
  PROVE  /\ handed \subseteq handed'
         /\ \A m \in Reports : Expected(m) => m.round = round
         /\ \A m \in Reports : HandOver(m) =>
              /\ Expected(m) /\ IsWarmup(m)
              /\ kid' # kid => <<m.doc, m.round>> \in handed'
<1>1. ASSUME NEW m \in Reports, HandOver(m)
      PROVE  /\ handed \subseteq handed' /\ Expected(m) /\ IsWarmup(m)
             /\ kid' # kid => <<m.doc, m.round>> \in handed'
  BY <1>1 DEF HandOver
<1>2. \A m \in Reports : Expected(m) => m.round = round
  BY DEF Expected, ParentInv, WaitsForLatest
<1>0. CASE UNCHANGED handed
  BY <1>0, <1>1, <1>2
<1>3. CASE UNCHANGED vars
  BY <1>3, <1>0 DEF vars
<1>4. QED
  BY <1>0, <1>1, <1>2, <1>3, Steps
     DEF ResponseCreated, CreateGroup, WaitForChildren, EndTurn, PublishQuery, SendAggregate,
         RecoverParent, OpeningFails, NotAttached, HandOverFails, ParentCrash, AskDocuments,
         PublishStart, PrepareChild, KidResponds, KidEndsTurn, ClearInvocation, PublishReport,
         KidReturns, RecoverKid, KidErrs, KidCrash, IdleRelease, HandleStart, SkipStart,
         StartConflict, DropReport, RecordReport

(* Nothing that a punctual document has under way is of a round to come.   *)
LEMMA NothingAhead ==
  ASSUME Inv, NEW d \in Docs, Punctual(d), NEW r \in Rounds,
         r > round \/ (r = round /\ pc = "prepare")
  PROVE  /\ kpc[d] \in {"submit", "stream", "clear", "publish"} => mem[d].group # r
         /\ \A m \in Reports : m.doc = d => m.round # r
<1>1. ~Asked(r, d)
  BY DEF Inv, Typed, ParentOK, ParentInv, Opened, Rounds
<1>2. QED
  BY <1>1 DEF Punctual, Fits

LEMMA InPhaseNext ==
  ASSUME Inv, [Next]_vars, NEW d \in Docs, Punctual(d), InPhase(d), d \notin late'
  PROVE  InPhase(d)'
<1> DEFINE Row == /\ kpc[d] \in {"submit", "stream", "clear", "publish"} /\ mem[d].group = round =>
                       kid[d].mode = mem[d].mode \/ (<<d, round>> \in handed /\ kid[d].mode = "query")
                  /\ kpc[d] \in {"clear", "publish"} => mem[d].last.phase = mem[d].mode
           Rep(m) == m.doc = d /\ m.round = round /\ (m.resp.phase = "warmup" => <<d, round>> \notin handed) =>
                       /\ kid[d].mode = m.resp.phase
                       /\ kpc[d] \in {"submit", "stream", "clear"} => mem[d].mode = m.resp.phase
<1> USE DEF Inv
<1>h. handed \subseteq handed'
  BY HandedGrows
<1>1. CASE round' # round
  <2>1. /\ round' \in Rounds /\ round' > round
        /\ UNCHANGED <<kidVars, cmds>>
    BY <1>1, RoundSteps DEF Typed, ParentOK
  <2>2. /\ kpc[d] \in {"submit", "stream", "clear", "publish"} => mem[d].group # round'
        /\ \A m \in Reports : m.doc = d => m.round # round'
    BY <2>1, NothingAhead
  <2>3. QED
    BY <2>1, <2>2 DEF InPhase, kidVars, Reports
<1>2. CASE round' = round
  <2> USE <1>2
  <2>0. SUFFICES Row' /\ \A m \in Reports : Rep(m)'
    <3>1. ASSUME NEW m \in Reports' PROVE m \in Reports \/ Rep(m)'
      <4>1. ASSUME NEW e \in Docs, PublishReport(e), m = Report(e, mem[e].group, mem[e].last), m.doc = d
            PROVE  Rep(m)'
        <5>1. e = d /\ m.round = mem[d].group /\ m.resp = mem[d].last
          BY <4>1 DEF Report
        <5>2. /\ kpc[d] = "publish" /\ kpc'[d] = "return" /\ kid' = kid /\ handed' = handed
              /\ mem[d].mode \in Kinds
          BY <4>1, <5>1 DEF PublishReport, Typed, RowsOK
        <5>3. QED
          BY <5>1, <5>2 DEF InPhase, Kinds
      <4>2. QED
        BY <4>1, CommandSteps
    <3>2. QED
      BY <3>1 DEF InPhase
  <2>1. CASE Untouched(d)
    BY <2>1, <1>h DEF Untouched, InPhase
  <2>2. ASSUME NEW k, PrepareChild(d), IsPrepared(d, round, k)
        PROVE  Row' /\ \A m \in Reports : Rep(m)'
    <3>1. pc = "prepare" /\ round \in Rounds
      BY <2>2 DEF PrepareChild, Typed, ParentOK, Rounds
    <3>2. /\ kpc[d] \in {"submit", "stream", "clear", "publish"} => mem[d].group # round
          /\ \A m \in Reports : m.doc = d => m.round # round
      BY <3>1, NothingAhead
    <3>3. QED
      BY <2>2, <3>2 DEF IsPrepared, InPhase
  <2>3. ASSUME NEW m \in Reports, HandOver(m), m.doc = d, IsPrepared(d, m.round, "query")
        PROVE  Row' /\ \A n \in Reports : Rep(n)'
    <3>1. m.round = round /\ kid[d].mode = "warmup" /\ kid'[d].mode = "query"
      BY <2>3, HandedGrows DEF IsWarmup, IsPrepared
    <3>2. <<d, round>> \in handed'
      BY <2>3, <3>1, HandedGrows
    <3>3. \A n \in Reports : n.doc = d /\ n.round = round /\ <<d, round>> \notin handed => n.resp.phase = "warmup"
      BY <3>1 DEF InPhase
    <3>4. \A n \in Reports : n.doc = d /\ n.round = round => n.resp.phase = "warmup"
      BY <3>1, <3>3 DEF InPhase
    <3>5. QED
      BY <2>3, <3>1, <3>2, <3>4 DEF IsPrepared, InPhase
  <2>4. ASSUME NEW c \in Starts, HandleStart(c), c.doc = d, IsStarted(d, c)
        PROVE  Row' /\ \A m \in Reports : Rep(m)'
    <3>1. kid[d].mode = c.phase
      BY <2>4, LateGrows
    <3>2. QED
      BY <2>4, <3>1, <1>h DEF IsStarted, InPhase
  <2>5. CASE Responded(d)
    BY <2>5, <1>h DEF Responded, InPhase
  <2>6. CASE Ended(d)
    BY <2>6, <1>h DEF Ended, InPhase
  <2>7. CASE Cleared(d)
    BY <2>7, <1>h DEF Cleared, InPhase
  <2>8. CASE Moved(d)
    BY <2>8, <1>h DEF Moved, InPhase
  <2>9. CASE Recovered(d)
    BY <2>9, <1>h DEF Recovered, InPhase
  <2>10. QED
    BY <2>1, <2>2, <2>3, <2>4, <2>5, <2>6, <2>7, <2>8, <2>9, KidSteps
<1>3. QED
  BY <1>1, <1>2

LEMMA PhasesNext == Inv /\ OnTime /\ PhasesFit /\ [Next]_vars => PhasesFit'
<1> SUFFICES ASSUME Inv, OnTime, PhasesFit, [Next]_vars, NEW d \in Docs \ late' PROVE InPhase(d)'
  BY DEF PhasesFit
<1>1. d \in Docs /\ d \notin late
  BY LateGrows DEF Inv
<1>2. Punctual(d) /\ InPhase(d)
  BY <1>1 DEF OnTime, PhasesFit
<1>3. QED
  BY <1>1, <1>2, InPhaseNext

LEMMA PhasesHold == Spec => []PhasesFit
<1>1. Init => PhasesFit
  BY DEF Init, PhasesFit, InPhase, Reports
<1>2. QED
  BY <1>1, PhasesNext, InvHolds, OnTimeHolds, PTL DEF Spec
-----------------------------------------------------------------------------
LEMMA BaseNext == Inv /\ PhasesFit /\ BaseIsWarmOnTime /\ [Next]_vars => BaseIsWarmOnTime'
<1> SUFFICES ASSUME Inv, PhasesFit, BaseIsWarmOnTime, [Next]_vars, NEW d \in Docs
             PROVE  base'[d] = NoResponse \/ d \in late' \/ (base'[d].phase = "warmup" /\ base'[d].ok)
  BY DEF BaseIsWarmOnTime
<1>0. late \subseteq late'
  BY LateGrows DEF Inv
<1>1. CASE base' = base
  BY <1>0, <1>1 DEF BaseIsWarmOnTime
<1>2. ASSUME NEW m \in Reports, HandOver(m)
      PROVE  base'[d] = NoResponse \/ d \in late' \/ (base'[d].phase = "warmup" /\ base'[d].ok)
  <2>1. base' = [base EXCEPT ![m.doc] = m.resp] /\ m.doc \in Docs
    BY <1>2, CommandFields DEF HandOver, Inv
  <2>2. CASE d # m.doc
    BY <1>0, <2>1, <2>2 DEF BaseIsWarmOnTime, Inv, Typed, HistoryOK
  <2>3. CASE d = m.doc /\ d \notin late
    <3>1. m.round = round /\ m.resp.ok /\ kid[d].mode = "warmup"
      BY <1>2, <2>3, HandedGrows DEF IsWarmup, Inv
    <3>2. InPhase(d)
      BY <2>3 DEF PhasesFit
    <3>3. m.resp.phase = "warmup"
      BY <3>1, <3>2, <2>3 DEF InPhase
    <3>4. QED
      BY <2>1, <2>3, <3>1, <3>3 DEF Inv, Typed, HistoryOK
  <2>4. QED
    BY <1>0, <2>2, <2>3
<1>3. CASE UNCHANGED vars
  BY <1>3, <1>1 DEF vars
<1>4. QED
  BY <1>1, <1>2, <1>3, Steps
     DEF ResponseCreated, CreateGroup, WaitForChildren, EndTurn, PublishQuery, SendAggregate,
         RecoverParent, OpeningFails, NotAttached, HandOverFails, ParentCrash, AskDocuments,
         PublishStart, PrepareChild, KidResponds, KidEndsTurn, ClearInvocation, PublishReport,
         KidReturns, RecoverKid, KidErrs, KidCrash, IdleRelease, HandleStart, SkipStart,
         StartConflict, DropReport, RecordReport

(* The base lineage that all threads share is a warm-up that completed,    *)
(* never the answer of one of them, unless a start of the document ran     *)
(* late: no other order of reports, crashes and hand-overs records one.    *)
THEOREM BaseStaysWarm == Spec => []BaseIsWarmOnTime
<1>1. Init => BaseIsWarmOnTime
  BY DEF Init, BaseIsWarmOnTime
<1>2. QED
  BY <1>1, BaseNext, InvHolds, PhasesHold, PTL DEF Spec

LEMMA WarmupNext == Inv /\ PhasesFit /\ WarmupIsNoAnswer /\ [Next]_vars => WarmupIsNoAnswer'
<1> SUFFICES ASSUME Inv, PhasesFit, WarmupIsNoAnswer, [Next]_vars, NEW r \in Rounds, NEW d \in Docs,
                    result'[<<r, d>>].mark = "completed", result'[<<r, d>>].resp.phase = "warmup",
                    <<d, r>> \notin handed', d \notin late'
             PROVE  FALSE
  BY DEF WarmupIsNoAnswer
<1>1. d \notin late /\ <<d, r>> \notin handed
  BY LateGrows, HandedGrows DEF Inv
<1>2. CASE Settled(<<r, d>>)
  <2>1. result'[<<r, d>>] = result[<<r, d>>]
    BY <1>2, ResultSteps DEF Inv, ParentInv
  <2>2. QED
    BY <1>1, <2>1 DEF WarmupIsNoAnswer
<1>3. ASSUME ~Settled(<<r, d>>), NEW m \in Reports, RecordReport(m), m.round = r, m.doc = d PROVE FALSE
  <2>1. result' = [result EXCEPT ![<<r, d>>] = Result(m.resp)]
    BY <1>3 DEF RecordReport, Recorded
  <2>2. m.resp.ok /\ m.resp.phase = "warmup"
    BY <2>1 DEF Inv, Typed, ResultOK, Result
  <2>3. r = round /\ ~IsWarmup(m)
    BY <1>3, HandedGrows DEF RecordReport, Inv
  <2>4. kid[d].mode = "warmup"
    BY <1>1, <1>3, <2>2, <2>3 DEF PhasesFit, InPhase
  <2>5. QED
    BY <1>3, <2>2, <2>3, <2>4 DEF IsWarmup
<1>4. Settled(<<r, d>>)'
  BY DEF Settled
<1>5. QED
  BY <1>2, <1>3, <1>4, RecordsOutcome DEF Inv

(* A warm-up is a bootstrap step: its own response is on record as a       *)
(* document's answer only where its report was handled twice or a start    *)
(* ran late.                                                               *)
THEOREM WarmupsAreNoAnswers == Spec => []WarmupIsNoAnswer
<1>1. Init => WarmupIsNoAnswer
  BY DEF Init, WarmupIsNoAnswer, Unsettled
<1>2. QED
  BY <1>1, WarmupNext, InvHolds, PhasesHold, PTL DEF Spec
=============================================================================
