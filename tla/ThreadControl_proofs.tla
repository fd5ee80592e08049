----------------------- MODULE ThreadControl_proofs ------------------------
(***************************************************************************)
(* Proofs about ThreadControl: type correctness, that a deleted tree stays *)
(* deleted, that an archived thread stays archived, that a cascade ends    *)
(* every lease of its tree, and that recovery leaves no orphan behind.     *)
(***************************************************************************)
EXTENDS ThreadControl, TLAPS

Statuses == {"none", "new", "ready"} \cup Active \cup Terminal
Places == {"idle", "claim", "save", "turn", "cancel", "release"}
Kinds == {"none", "start", "resume", "cancel", "disconnect", "report", "recover"}
Oddities == {"moved", "again", "ghost", "stale", "crash"}
Subjects == Workers \cup {Anyone, Nobody}

Rows == [status : Statuses, gen : Nat, owner : Workers \cup {Nobody}, archived : BOOLEAN]
Leases == [worker : Workers \cup {Nobody}, gen : Nat]
Words == {"once", "cascade"} \cup Kinds \cup Statuses
Ids == Kinds \X (Threads \cup {"none"}) \X Nat \X Words
Commands == [id : Ids, kind : Kinds, thread : Threads,
             gen : Nat, to : Subjects]
Stands == [at : Places, cmd : Commands, meta : Rows]
Lists == [Threads -> [kind : {"none", "cancel", "disconnect"}, gen : Nat]]
Apis == [at : {"idle", "send", "archive"}, op : {"none", "disconnect", "archive"},
         list : Lists, n : Nat \ {0}]

Typed ==
  /\ row \in [Threads -> Rows] /\ lease \in [Threads -> Leases]
  /\ live \subseteq Workers
  /\ h \in [Workers -> [Threads -> Stands]]
  /\ cmds \subseteq Commands
  /\ api \in Apis
  /\ odd \subseteq Oddities
  /\ left \in Nat

(* A thread without a row has no lease, a lease has a generation, a dead   *)
(* worker runs nothing.                                                    *)
RowsAndLeases ==
  \A t \in Threads : /\ There(t) \/ (row[t] = NoRow /\ lease[t] = NoLease)
                     /\ lease[t] # NoLease => lease[t].gen > 0
DeadRest == \A w \in Workers \ live, t \in Threads : h[w][t] = Idle
CommandsSeen == \A c \in cmds : c.id \in ids \/ c.kind = "report"

(* A handler that saves a row whole, other than a cancel, has the lease.   *)
Owns(w, t) == h[w][t].at \in {"save", "turn"} => There(t) /\ lease[t].worker = w
Owners == \A w \in Workers, t \in Threads : Owns(w, t)

Inv == Typed /\ RowsAndLeases /\ DeadRest /\ CommandsSeen /\ Owners
-----------------------------------------------------------------------------
LEMMA Constants ==
  /\ NoRow \in Rows /\ NoLease \in Leases /\ NoCommand \in Commands
  /\ Idle \in Stands /\ NoRequest \in Apis /\ NoList \in Lists
  /\ Idle.at = "idle" /\ NoLease.worker = Nobody /\ NoRow.archived = FALSE
<1>1. NoRow \in Rows /\ NoRow.archived = FALSE
  BY DEF NoRow, Rows, Statuses
<1>2. NoLease \in Leases /\ NoLease.worker = Nobody
  BY DEF NoLease, Leases
<1>3. NoCommand \in Commands
  BY DEF NoCommand, Commands, Ids, Words, Statuses, Kinds, Subjects, Threads
<1>4. Idle \in Stands /\ Idle.at = "idle"
  BY <1>1, <1>3 DEF Idle, Stands, Places
<1>5. NoList \in Lists
  BY DEF NoList, Lists
<1>6. NoRequest \in Apis
  BY <1>5 DEF NoRequest, Apis, Lists
<1>7. QED
  BY <1>1, <1>2, <1>3, <1>4, <1>5, <1>6

LEMMA InvInit == Init => Inv
<1> SUFFICES ASSUME Init PROVE Inv
  OBVIOUS
<1>1. Typed
  BY Constants, BoundsAreNat DEF Init, Typed
<1>2. RowsAndLeases
  BY DEF Init, RowsAndLeases
<1>3. DeadRest /\ CommandsSeen /\ Owners
  BY Constants DEF Init, DeadRest, CommandsSeen, Owners, Owns
<1>4. QED
  BY <1>1, <1>2, <1>3 DEF Inv

(* One handler goes on; the others stand where they are.                   *)
LEMMA HandlerMoves ==
  ASSUME Typed, NEW w \in Workers, NEW t \in Threads, NEW x \in Stands,
         h' = [h EXCEPT ![w][t] = x]
  PROVE  /\ h' \in [Workers -> [Threads -> Stands]]
         /\ h'[w][t] = x
         /\ \A v \in Workers, s \in Threads : (v # w \/ s # t) => h'[v][s] = h[v][s]
BY DEF Typed

LEMMA RowMoves ==
  ASSUME Typed, NEW t \in Threads, NEW r \in Rows, row' = [row EXCEPT ![t] = r]
  PROVE  /\ row' \in [Threads -> Rows] /\ row'[t] = r
         /\ \A s \in Threads : s # t => row'[s] = row[s]
BY DEF Typed

LEMMA LeaseMoves ==
  ASSUME Typed, NEW t \in Threads, NEW l \in Leases, lease' = [lease EXCEPT ![t] = l]
  PROVE  /\ lease' \in [Threads -> Leases] /\ lease'[t] = l
         /\ \A s \in Threads : s # t => lease'[s] = lease[s]
BY DEF Typed

(* What is published is a command whose id is seen from then on.           *)
LEMMA Published ==
  ASSUME Typed, CommandsSeen, NEW c \in Commands, Publish(c)
  PROVE  cmds' \subseteq Commands /\ CommandsSeen'
BY DEF Typed, CommandsSeen, Publish

-----------------------------------------------------------------------------
LEMMA StartIsCommand ==
  ASSUME NEW t \in Threads
  PROVE  Start(t) \in Commands /\ Start(t).id = <<"start", t, 0, "once">>
BY DEF Start, Commands, Ids, Words, Kinds, Subjects, Threads

LEMMA CreateKeeps ==
  ASSUME Inv, CreateThread \/ CreateFails
  PROVE  Inv'
<1> DEFINE new == [NoRow EXCEPT !.status = "new"]
<1>1. new \in Rows /\ new.status = "new"
  BY DEF NoRow, Rows, Statuses
<1> HIDE DEF new
<1>2. "root" \in Threads /\ row' = [row EXCEPT !["root"] = new]
  BY DEF CreateThread, CreateFails, Threads, new
<1>3. /\ row' \in [Threads -> Rows] /\ row'["root"] = new
      /\ \A s \in Threads : s # "root" => row'[s] = row[s]
  BY <1>1, <1>2, RowMoves DEF Inv
<1>4. cmds' \subseteq Commands /\ CommandsSeen'
  <2>1. CASE CreateThread
    BY <1>2, <2>1, StartIsCommand, Published DEF Inv, CreateThread
  <2>2. CASE CreateFails
    BY <2>2 DEF CreateFails, Inv, Typed, CommandsSeen
  <2>3. QED BY <2>1, <2>2
<1>5. /\ UNCHANGED <<lease, live, h, api, odd>> /\ left' \in Nat
  BY DEF CreateThread, CreateFails, apiFrame, Spend, Inv, Typed
<1>6. Typed'
  BY <1>3, <1>4, <1>5 DEF Inv, Typed
<1>7. RowsAndLeases' /\ Owners'
  BY <1>1, <1>3, <1>5 DEF Inv, RowsAndLeases, Owners, Owns, There
<1>8. DeadRest'
  BY <1>5 DEF Inv, DeadRest
<1>9. QED
  BY <1>4, <1>6, <1>7, <1>8 DEF Inv

(* Requests that leave rows, leases and handlers alone.                    *)
LEMMA QuietKeeps ==
  ASSUME Inv, UNCHANGED <<row, lease, live, h>>, odd' \subseteq Oddities,
         cmds' \subseteq Commands, CommandsSeen', api' \in Apis, left' \in Nat
  PROVE  Inv'
BY DEF Inv, Typed, RowsAndLeases, DeadRest, Owners, Owns, There

LEMMA SubmitKeeps ==
  ASSUME Inv, NEW kind \in {"resume", "cancel"}, Submit("root", kind)
  PROVE  Inv'
<1> DEFINE to == Route("root", kind)
           c == [id |-> <<kind, "root", left, "once">>, kind |-> kind, thread |-> "root",
                 gen |-> IF to = Anyone THEN 0 ELSE lease["root"].gen, to |-> to]
<1>1. "root" \in Threads /\ lease["root"] \in Leases
  BY DEF Threads, Inv, Typed
<1>2. to \in Subjects
  BY <1>1 DEF Route, Subjects, Leases
<1>3. c \in Commands
  BY <1>1, <1>2 DEF Commands, Ids, Words, Kinds, Leases, Inv, Typed
<1>4. Publish(c)
  BY DEF Submit
<1>5. cmds' \subseteq Commands /\ CommandsSeen'
  BY <1>3, <1>4, Published DEF Inv
<1>6. QED
  BY <1>5, QuietKeeps DEF Submit, apiFrame, Spend, Inv, Typed

LEMMA ListTreeKeeps ==
  ASSUME Inv, NEW op \in {"disconnect", "archive"}, ListTree(op)
  PROVE  Inv'
<1>1. api' \in Apis
  BY DEF ListTree, CascadeCommand, Apis, Lists, Inv, Typed, Rows
<1>2. cmds' \subseteq Commands /\ CommandsSeen'
  BY DEF ListTree, Inv, Typed, CommandsSeen
<1>3. QED
  BY <1>1, <1>2, QuietKeeps DEF ListTree, apiFrame, Spend, Inv, Typed

LEMMA SendNextKeeps ==
  ASSUME Inv, SendNext
  PROVE  Inv'
<1> DEFINE t == Tree[api.n]
           item == api.list[t]
           c == [id |-> <<item.kind, t, item.gen, "cascade">>, kind |-> item.kind,
                 thread |-> t, gen |-> item.gen, to |-> Route(t, item.kind)]
<1>1. api \in Apis
  BY DEF Inv, Typed
<1>2. t \in Threads
  BY <1>1 DEF SendNext, Tree, Threads, Apis
<1>3. api' \in Apis
  BY <1>1 DEF SendNext, Apis
<1>4. item \in [kind : {"none", "cancel", "disconnect"}, gen : Nat]
  BY <1>1, <1>2 DEF Apis, Lists
<1>5. cmds' \subseteq Commands /\ CommandsSeen'
  <2>1. CASE UNCHANGED <<cmds, ids>>
    BY <2>1 DEF Inv, Typed, CommandsSeen
  <2>2. CASE Publish(c)
    <3>1. lease[t] \in Leases
      BY <1>2 DEF Inv, Typed
    <3>2. Route(t, item.kind) \in Subjects
      BY <3>1 DEF Route, Subjects, Leases
    <3>3. c.id \in Ids
      BY <1>2, <1>4 DEF Ids, Words, Kinds, Threads
    <3>4. c \in Commands
      BY <1>2, <1>4, <3>2, <3>3 DEF Commands, Kinds
    <3>5. QED BY <2>2, <3>4, Published DEF Inv
  <2>3. QED BY <2>1, <2>2 DEF SendNext
<1>6. odd' \subseteq Oddities
  BY DEF SendNext, Inv, Typed, Oddities
<1>7. QED
  BY <1>3, <1>5, <1>6, QuietKeeps DEF SendNext, apiFrame, Inv, Typed

LEMMA CascadeKeeps ==
  ASSUME Inv, SendFails \/ CascadeEnds
  PROVE  Inv'
<1>1. api' \in Apis
  BY Constants DEF SendFails, CascadeEnds, Apis, Inv, Typed
<1>2. cmds' \subseteq Commands /\ CommandsSeen'
  BY DEF SendFails, CascadeEnds, Inv, Typed, CommandsSeen
<1>3. QED
  BY <1>1, <1>2, QuietKeeps DEF SendFails, CascadeEnds, apiFrame, Spend, Inv, Typed

LEMMA ArchiveKeeps ==
  ASSUME Inv, Archive
  PROVE  Inv'
<1>1. api' \in Apis /\ "root" \in Threads
  BY Constants DEF Archive, Threads
<1>2. CASE ~There("root")
  <2>1. UNCHANGED <<row, lease, live, h, cmds, ids, odd, left>>
    BY <1>2 DEF Archive, apiFrame
  <2>2. QED BY <1>1, <2>1, QuietKeeps DEF Inv, Typed, CommandsSeen
<1>3. CASE There("root")
  <2>1. row' = [row EXCEPT !["root"] = [row["root"] EXCEPT !.archived = TRUE]]
    BY <1>3 DEF Archive
  <2>2. [row["root"] EXCEPT !.archived = TRUE] \in Rows
    BY <1>1 DEF Inv, Typed, Rows
  <2>3. /\ row' \in [Threads -> Rows]
        /\ \A s \in Threads : row'[s].status = row[s].status
        /\ \A s \in Threads : s # "root" => row'[s] = row[s]
    BY <1>1, <2>1, <2>2 DEF Inv, Typed, Rows
  <2>4. UNCHANGED <<lease, live, h, cmds, ids, odd, left>>
    BY DEF Archive, apiFrame
  <2>5. Typed' /\ DeadRest' /\ CommandsSeen'
    BY <1>1, <2>3, <2>4 DEF Inv, Typed, DeadRest, CommandsSeen
  <2>6. RowsAndLeases' /\ Owners'
    BY <1>3, <2>3, <2>4 DEF Inv, RowsAndLeases, Owners, Owns, There
  <2>7. QED BY <2>5, <2>6 DEF Inv
<1>4. QED
  BY <1>2, <1>3

(* A turn keeps its tree busy: its handler has a live lease.               *)
LEMMA NoTurnWhenIdle ==
  ASSUME Inv, ~Busy, NEW w \in Workers, NEW t \in Threads
  PROVE  h[w][t].at \notin {"save", "turn"}
<1> SUFFICES ASSUME h[w][t].at \in {"save", "turn"} PROVE FALSE
  OBVIOUS
<1>1. There(t) /\ lease[t].worker = w
  BY DEF Inv, Owners, Owns
<1>2. w \in live
  BY Constants DEF Inv, DeadRest
<1>3. QED
  BY <1>1, <1>2 DEF Busy, LeaseLive

LEMMA DeleteKeeps ==
  ASSUME Inv, Delete
  PROVE  Inv'
<1>1. /\ row' = [t \in Threads |-> NoRow] /\ lease' = [t \in Threads |-> NoLease]
      /\ UNCHANGED <<live, h, cmds, ids, api, odd>> /\ left' \in Nat
  BY DEF Delete, Spend, Inv, Typed
<1>2. Typed' /\ DeadRest' /\ CommandsSeen'
  BY <1>1, Constants DEF Inv, Typed, DeadRest, CommandsSeen
<1>3. RowsAndLeases'
  BY <1>1 DEF RowsAndLeases
<1>4. Owners'
  BY <1>1, NoTurnWhenIdle DEF Owners, Owns, Delete
<1>5. QED
  BY <1>2, <1>3, <1>4 DEF Inv

-----------------------------------------------------------------------------
(* What has to be seen to of a handler's step: the rows and leases, and    *)
(* that no other handler loses the lease it works under.                   *)
OthersStand(w, t) ==
  \A v \in Workers, s \in Threads :
    (v # w \/ s # t) => h'[v][s] = h[v][s] /\ (Owns(v, s) => Owns(v, s)')

LEMMA MoveKeeps ==
  ASSUME Inv, NEW w \in live, NEW t \in Threads,
         h' \in [Workers -> [Threads -> Stands]], OthersStand(w, t), Owns(w, t)',
         row' \in [Threads -> Rows], lease' \in [Threads -> Leases], RowsAndLeases',
         cmds' \subseteq Commands, CommandsSeen', odd' \subseteq Oddities,
         UNCHANGED <<live, api, left>>
  PROVE  Inv'
<1>1. Typed'
  BY DEF Inv, Typed
<1>2. DeadRest'
  BY DEF Inv, Typed, DeadRest, OthersStand
<1>3. Owners'
  BY DEF Inv, Owners, OthersStand
<1>4. QED
  BY <1>1, <1>2, <1>3 DEF Inv

(* The command of a handler that is done is acknowledged. *)
LEMMA FewerCommands ==
  ASSUME Inv, cmds' \subseteq cmds, ids \subseteq ids'
  PROVE  cmds' \subseteq Commands /\ CommandsSeen'
BY DEF Inv, Typed, CommandsSeen

LEMMA WorkerLives ==
  ASSUME Inv, NEW w \in Workers, NEW t \in Threads, h[w][t].at # "idle"
  PROVE  w \in live
BY Constants DEF Inv, DeadRest

LEMMA ReturnStands ==
  ASSUME Inv, NEW w \in Workers, NEW t \in Threads, Return(w, t)
  PROVE  /\ h' \in [Workers -> [Threads -> Stands]] /\ h'[w][t] = Idle
         /\ \A v \in Workers, s \in Threads : (v # w \/ s # t) => h'[v][s] = h[v][s]
BY ZenonT(40), Constants, HandlerMoves DEF Inv, Return

(* A step that changes the row, but not whether it is there, and at most   *)
(* frees this handler's lease, takes nothing from the others.              *)
LEMMA OthersKeepLease ==
  ASSUME Inv, NEW w \in Workers, NEW t \in Threads,
         \A v \in Workers, s \in Threads : (v # w \/ s # t) => h'[v][s] = h[v][s],
         \A s \in Threads : There(s) => There(s)',
         \A s \in Threads : lease'[s].worker = lease[s].worker
                            \/ (s = t /\ lease[t].worker \in {w, Nobody})
                            \/ (s = t /\ lease[t].worker \notin live)
  PROVE  OthersStand(w, t)
<1>1. ASSUME NEW v \in Workers, NEW s \in Threads, v # w \/ s # t, Owns(v, s)
      PROVE  Owns(v, s)'
  <2> SUFFICES ASSUME h'[v][s].at \in {"save", "turn"}
               PROVE  There(s)' /\ lease'[s].worker = v
    BY DEF Owns
  <2>1. There(s) /\ lease[s].worker = v
    BY <1>1 DEF Owns
  <2>2. v \in live
    BY <1>1, WorkerLives
  <2>3. lease'[s].worker = v
    BY <1>1, <2>1, <2>2, NamesAreFree
  <2>4. QED BY <2>1, <2>3
<1>2. QED
  BY <1>1 DEF OthersStand

LEMMA TakeKeeps ==
  ASSUME Inv, NEW w \in Workers, NEW c \in cmds, Take(w, c)
  PROVE  Inv'
<1> DEFINE t == c.thread
           r == IF There(t) THEN row[t] ELSE [NoRow EXCEPT !.status = "new"]
           x == [at |-> CASE c.kind = "cancel" -> "cancel"
                          [] c.kind = "disconnect" -> "release"
                          [] OTHER -> "claim",
                 cmd |-> c, meta |-> r]
<1>1. c \in Commands /\ t \in Threads /\ w \in live
  BY DEF Take, Deliverable, Inv, Typed, Commands
<1>2. r \in Rows /\ r.status # "none"
  BY <1>1 DEF Inv, Typed, There, NoRow, Rows, Statuses
<1> HIDE DEF r
<1>3. x \in Stands /\ x.at \notin {"save", "turn"}
  BY <1>1, <1>2 DEF Stands, Places
<1>4. h' = [h EXCEPT ![w][t] = x] /\ row' = [row EXCEPT ![t] = r]
  BY DEF Take, r
<1> HIDE DEF x, t
<1>5. /\ h' \in [Workers -> [Threads -> Stands]] /\ h'[w][t] = x
      /\ \A v \in Workers, s \in Threads : (v # w \/ s # t) => h'[v][s] = h[v][s]
  <2>1. h \in [Workers -> [Threads -> Stands]]
    BY DEF Inv, Typed
  <2>2. QED BY <1>1, <1>3, <1>4, <2>1
<1>6. /\ row' \in [Threads -> Rows] /\ row'[t] = r
      /\ \A s \in Threads : s # t => row'[s] = row[s]
  BY <1>1, <1>2, <1>4, RowMoves DEF Inv
<1>7. UNCHANGED <<lease, cmds, ids, live, api, left>> /\ odd' \subseteq Oddities
  BY DEF Take, frame, Inv, Typed, Oddities
<1>8. RowsAndLeases'
  BY <1>2, <1>6, <1>7 DEF Inv, RowsAndLeases, There
<1>9. OthersStand(w, t)
  BY <1>1, <1>2, <1>5, <1>6, <1>7, OthersKeepLease DEF There
<1>10. Owns(w, t)'
  BY <1>3, <1>5 DEF Owns
<1>11. cmds' \subseteq Commands /\ CommandsSeen'
  BY <1>7, FewerCommands
<1>12. lease' \in [Threads -> Leases]
  BY <1>7 DEF Inv, Typed
<1>13. QED
  BY <1>1, <1>5, <1>6, <1>7, <1>8, <1>9, <1>10, <1>11, <1>12, MoveKeeps

LEMMA RefuseKeeps ==
  ASSUME Inv, NEW w \in Workers, NEW c \in cmds, Refuse(w, c)
  PROVE  Inv'
<1>1. /\ UNCHANGED <<row, lease, h, odd, live, api, left>>
      /\ cmds' \subseteq Commands /\ CommandsSeen'
  BY FewerCommands DEF Refuse, frame
<1>2. QED
  BY <1>1, QuietKeeps DEF Inv, Typed

LEMMA ClaimKeeps ==
  ASSUME Inv, NEW w \in Workers, NEW t \in Threads, Claim(w, t)
  PROVE  Inv'
<1>1. w \in live /\ h[w][t] \in Stands
  BY WorkerLives DEF Claim, At, Inv, Typed
<1>2. /\ UNCHANGED <<live, api, left, ids>> /\ odd' \subseteq Oddities
  <2>1. odd' = odd \/ odd' = odd \cup {"moved"}
    BY DEF Claim
  <2>2. QED BY <2>1 DEF Claim, frame, Inv, Typed, Oddities
<1>3. CASE There(t) /\ (lease[t].worker = w \/ ~LeaseLive(t))
  <2> DEFINE holder == IF lease[t] = NoLease THEN row[t].owner ELSE lease[t].worker
             seen == IF lease[t] = NoLease THEN row[t].gen ELSE lease[t].gen
             gen == IF holder # w \/ seen = 0 THEN seen + 1 ELSE seen
  <2>1. gen \in Nat /\ gen > 0
    BY DEF Inv, Typed, Rows, Leases
  <2>2. /\ lease' = [lease EXCEPT ![t] = [worker |-> w, gen |-> gen]]
        /\ row' = [row EXCEPT ![t].owner = w, ![t].gen = gen]
        /\ h' = [h EXCEPT ![w][t] = [h[w][t] EXCEPT !.at = "save", !.meta.owner = w,
                                                    !.meta.gen = gen]]
        /\ cmds' = cmds
    BY <1>3 DEF Claim
  <2> HIDE DEF gen
  <2>3. /\ lease' \in [Threads -> Leases] /\ lease'[t] = [worker |-> w, gen |-> gen]
        /\ \A s \in Threads : s # t => lease'[s] = lease[s]
    BY <2>1, <2>2, LeaseMoves DEF Inv, Leases
  <2>4. /\ row' \in [Threads -> Rows] /\ row'[t].status = row[t].status
        /\ \A s \in Threads : s # t => row'[s] = row[s]
    BY <2>1, <2>2 DEF Inv, Typed, Rows
  <2>5. /\ h' \in [Workers -> [Threads -> Stands]] /\ h'[w][t].at = "save"
        /\ \A v \in Workers, s \in Threads : (v # w \/ s # t) => h'[v][s] = h[v][s]
    <3> DEFINE x == [h[w][t] EXCEPT !.at = "save", !.meta.owner = w, !.meta.gen = gen]
    <3>1. x.at = "save" /\ x \in Stands
      BY <1>1, <2>1 DEF Stands, Rows, Places
    <3>2. h' = [h EXCEPT ![w][t] = x]
      BY <2>2
    <3> HIDE DEF x
    <3>3. h \in [Workers -> [Threads -> Stands]]
      BY DEF Inv, Typed
    <3>4. QED BY <3>1, <3>2, <3>3
  <2>6. RowsAndLeases'
    BY <1>3, <2>1, <2>3, <2>4 DEF Inv, RowsAndLeases, There
  <2>7. \A s \in Threads : There(s) => There(s)'
    BY <2>4 DEF There
  <2>8. OthersStand(w, t)
    BY <1>3, <2>3, <2>5, <2>7, OthersKeepLease DEF LeaseLive
  <2>9. Owns(w, t)'
    BY <1>3, <2>3, <2>7 DEF Owns
  <2>10. cmds' \subseteq Commands /\ CommandsSeen'
    BY <1>2, <2>2, FewerCommands
  <2>11. QED
    BY <1>1, <1>2, <2>3, <2>4, <2>5, <2>6, <2>8, <2>9, <2>10, MoveKeeps
<1>4. CASE ~(There(t) /\ (lease[t].worker = w \/ ~LeaseLive(t)))
  <2>1. Done(w, t) /\ UNCHANGED <<row, lease>>
    BY <1>4 DEF Claim
  <2>2. /\ h' \in [Workers -> [Threads -> Stands]] /\ h'[w][t] = Idle
        /\ \A v \in Workers, s \in Threads : (v # w \/ s # t) => h'[v][s] = h[v][s]
    BY <2>1, ReturnStands DEF Done
  <2>3. OthersStand(w, t)
    BY <2>1, <2>2, OthersKeepLease DEF There
  <2>4. Owns(w, t)'
    BY <2>2, Constants DEF Owns
  <2>5. cmds' \subseteq Commands /\ CommandsSeen'
    BY <1>2, <2>1, FewerCommands DEF Done
  <2>6. /\ row' \in [Threads -> Rows] /\ lease' \in [Threads -> Leases] /\ RowsAndLeases'
    BY <2>1 DEF Inv, Typed, RowsAndLeases, There
  <2>7. QED
    BY <1>1, <1>2, <2>2, <2>3, <2>4, <2>5, <2>6, MoveKeeps
<1>5. QED
  BY <1>3, <1>4

(* A handler that returns: its row may be saved, its lease given back.     *)
LEMMA ReturnKeeps ==
  ASSUME Inv, NEW w \in Workers, NEW t \in Threads, Return(w, t), h[w][t].at # "idle",
         row' \in [Threads -> Rows], lease' \in [Threads -> Leases], RowsAndLeases',
         \A s \in Threads : There(s) => There(s)',
         \A s \in Threads : lease'[s].worker = lease[s].worker
                            \/ (s = t /\ lease[t].worker \in {w, Nobody}),
         cmds' \subseteq Commands, CommandsSeen', odd' \subseteq Oddities,
         UNCHANGED <<live, api, left>>
  PROVE  Inv'
<1>1. w \in live
  BY WorkerLives
<1>2. /\ h' \in [Workers -> [Threads -> Stands]] /\ h'[w][t] = Idle
      /\ \A v \in Workers, s \in Threads : (v # w \/ s # t) => h'[v][s] = h[v][s]
  BY ReturnStands
<1>3. OthersStand(w, t)
  BY <1>2, OthersKeepLease
<1>4. Owns(w, t)'
  BY <1>2, Constants DEF Owns
<1>5. QED
  BY <1>1, <1>2, <1>3, <1>4, MoveKeeps

(* SaveThread writes a row, and it is there then.                          *)
LEMMA SavedTyped ==
  ASSUME Typed, NEW t \in Threads, NEW meta \in Rows
  PROVE  Saved(t, meta) \in Rows /\ Saved(t, meta).status = meta.status
BY DEF Saved, Typed, Rows

LEMMA MetaTyped ==
  ASSUME Typed, NEW w \in Workers, NEW t \in Threads, NEW status \in Statuses
  PROVE  /\ h[w][t].meta \in Rows /\ h[w][t].cmd \in Commands
         /\ [h[w][t].meta EXCEPT !.status = status] \in Rows
         /\ [h[w][t].meta EXCEPT !.status = status].status = status
<1>1. h[w][t].meta \in Rows /\ h[w][t].cmd \in Commands
  BY DEF Typed, Stands
<1>2. QED
  BY <1>1 DEF Rows

LEMMA RowSaved ==
  ASSUME Inv, NEW t \in Threads, NEW r \in Rows, r.status # "none",
         row' = [row EXCEPT ![t] = r], lease' = lease
  PROVE  /\ row' \in [Threads -> Rows] /\ lease' \in [Threads -> Leases]
         /\ row'[t] = r /\ \A s \in Threads : s # t => row'[s] = row[s]
         /\ RowsAndLeases'
         /\ \A s \in Threads : There(s) => There(s)'
         /\ There(t)'
<1>1. /\ row' \in [Threads -> Rows] /\ row'[t] = r
      /\ \A s \in Threads : s # t => row'[s] = row[s]
  BY RowMoves DEF Inv
<1>2. QED
  BY <1>1 DEF Inv, Typed, RowsAndLeases, There

LEMMA BeginTurnKeeps ==
  ASSUME Inv, NEW w \in Workers, NEW t \in Threads, BeginTurn(w, t)
  PROVE  Inv'
<1> DEFINE kind == h[w][t].cmd.kind
           meta == h[w][t].meta
           status == CASE kind = "recover" /\ meta.status = "waiting_children" -> meta.status
                       [] kind = "recover" -> "reconciling"
                       [] OTHER -> "running"
           saved == Saved(t, [meta EXCEPT !.status = status])
           x == [h[w][t] EXCEPT !.at = "turn", !.meta = saved]
<1>1. status \in {"waiting_children", "reconciling", "running"}
  OBVIOUS
<1> HIDE DEF status
<1>2. status \in Statuses /\ status # "none"
  BY <1>1 DEF Statuses, Active
<1>3. saved \in Rows /\ saved.status # "none"
  <2> DEFINE m == [meta EXCEPT !.status = status]
  <2>1. m \in Rows /\ m.status = status
    BY <1>2, MetaTyped DEF Inv
  <2> HIDE DEF m
  <2>2. Saved(t, m) \in Rows /\ Saved(t, m).status = status
    BY <2>1, SavedTyped DEF Inv
  <2>3. QED BY <1>2, <2>2 DEF m
<1>4. row' = [row EXCEPT ![t] = saved] /\ lease' = lease
  BY DEF BeginTurn, status
<1>5. UNCHANGED <<live, ids, api, left>> /\ odd' \subseteq Oddities
  BY DEF BeginTurn, frame, Inv, Typed, Oddities
<1>6. h[w][t].at = "save" /\ w \in live
  BY WorkerLives DEF BeginTurn, At
<1> HIDE DEF saved
<1>7. /\ row' \in [Threads -> Rows] /\ lease' \in [Threads -> Leases] /\ RowsAndLeases'
      /\ \A s \in Threads : There(s) => There(s)'
  BY <1>3, <1>4, RowSaved
<1>8. CASE Done(w, t)
  BY <1>4, <1>5, <1>6, <1>7, <1>8, FewerCommands, ReturnKeeps DEF Done
<1>9. CASE h' = [h EXCEPT ![w][t] = x] /\ UNCHANGED cmds
  <2>1. x \in Stands /\ x.at = "turn"
    <3>1. h[w][t] \in Stands
      BY DEF Inv, Typed
    <3>2. QED BY <1>3, <3>1 DEF Stands, Places
  <2>2. h \in [Workers -> [Threads -> Stands]]
    BY DEF Inv, Typed
  <2> HIDE DEF x
  <2>3. /\ h' \in [Workers -> [Threads -> Stands]] /\ h'[w][t] = x
        /\ \A v \in Workers, s \in Threads : (v # w \/ s # t) => h'[v][s] = h[v][s]
    BY <1>9, <2>1, <2>2
  <2>4. OthersStand(w, t)
    BY <1>4, <1>7, <2>3, OthersKeepLease
  <2>5. Owns(w, t)'
    BY <1>4, <1>6, <1>7 DEF Inv, Owners, Owns
  <2>6. cmds' \subseteq Commands /\ CommandsSeen'
    BY <1>5, <1>9, FewerCommands
  <2>7. QED
    BY <1>5, <1>6, <1>7, <2>3, <2>4, <2>5, <2>6, MoveKeeps
<1>10. QED
  BY <1>8, <1>9 DEF BeginTurn, saved, status

LEMMA EndTurnKeeps ==
  ASSUME Inv, NEW w \in Workers, EndTurn(w)
  PROVE  Inv'
<1> DEFINE saved == Saved("root", [h[w]["root"].meta EXCEPT !.status = "ready"])
<1>1. "root" \in Threads /\ "ready" \in Statuses
  BY DEF Threads, Statuses
<1>2. saved \in Rows /\ saved.status = "ready"
  BY ZenonT(40), <1>1, MetaTyped, SavedTyped DEF Inv
<1>3. row' = [row EXCEPT !["root"] = saved] /\ lease' = lease
  BY DEF EndTurn
<1> HIDE DEF saved
<1>4. /\ row' \in [Threads -> Rows] /\ lease' \in [Threads -> Leases] /\ RowsAndLeases'
      /\ \A s \in Threads : There(s) => There(s)'
  BY <1>1, <1>2, <1>3, RowSaved
<1>5. UNCHANGED <<live, ids, api, left>> /\ odd' \subseteq Oddities
  BY DEF EndTurn, frame, Inv, Typed
<1>6. QED
  BY <1>1, <1>3, <1>4, <1>5, FewerCommands, ReturnKeeps DEF EndTurn, Done, At

LEMMA SpawnKeeps ==
  ASSUME Inv, NEW w \in Workers, Spawn(w)
  PROVE  Inv'
<1> DEFINE saved == Saved("root", [h[w]["root"].meta EXCEPT !.status = "waiting_children"])
           new == [NoRow EXCEPT !.status = "new"]
<1>1. "root" \in Threads /\ "kid" \in Threads /\ "waiting_children" \in Statuses
  BY DEF Threads, Statuses, Active
<1>2. saved \in Rows /\ saved.status = "waiting_children"
  <2> DEFINE m == [h[w]["root"].meta EXCEPT !.status = "waiting_children"]
  <2>1. m \in Rows /\ m.status = "waiting_children"
    BY <1>1, MetaTyped DEF Inv
  <2> HIDE DEF m
  <2>2. Saved("root", m) \in Rows /\ Saved("root", m).status = "waiting_children"
    BY <1>1, <2>1, SavedTyped DEF Inv
  <2>3. QED BY <2>2 DEF m
<1>3. new \in Rows /\ new.status = "new"
  BY DEF NoRow, Rows, Statuses
<1>4. row' = [row EXCEPT !["root"] = saved, !["kid"] = new] /\ lease' = lease
  BY DEF Spawn
<1> HIDE DEF saved, new
<1>5. /\ row' \in [Threads -> Rows] /\ row'["root"] = saved /\ row'["kid"] = new
  BY <1>1, <1>2, <1>3, <1>4 DEF Inv, Typed
<1>6. \A s \in Threads : There(s)'
  BY <1>2, <1>3, <1>5 DEF There, Threads
<1>7. lease' \in [Threads -> Leases] /\ RowsAndLeases'
  BY <1>4, <1>6 DEF Inv, Typed, RowsAndLeases
<1>8. Start("kid") \in Commands
  BY <1>1, StartIsCommand
<1>9. cmds' \subseteq Commands /\ CommandsSeen'
  BY <1>8 DEF Spawn, Inv, Typed, CommandsSeen
<1>10. UNCHANGED <<live, api, left>> /\ odd' \subseteq Oddities
  BY DEF Spawn, Inv, Typed
<1>11. QED
  BY <1>1, <1>4, <1>5, <1>6, <1>7, <1>9, <1>10, ReturnKeeps DEF Spawn, At

LEMMA EndChildTurnKeeps ==
  ASSUME Inv, NEW w \in Workers, EndChildTurn(w)
  PROVE  Inv'
<1> DEFINE meta == h[w]["kid"].meta
           to == IF row["root"].owner = Nobody THEN Anyone ELSE row["root"].owner
           report == [id |-> <<"report", "root", 0, "once">>, kind |-> "report",
                      thread |-> "root", gen |-> 0, to |-> to]
           ready == [meta EXCEPT !.status = "ready"]
           over == [meta EXCEPT !.status = "completed", !.owner = Nobody]
<1>1. "kid" \in Threads /\ "root" \in Threads /\ h[w]["kid"].at = "turn"
  BY DEF Threads, EndChildTurn, At
<1>2. There("kid") /\ lease["kid"].worker = w
  BY <1>1 DEF Inv, Owners, Owns
<1>3. meta \in Rows
  BY <1>1 DEF Inv, Typed, Stands
<1>4. /\ ready \in Rows /\ ready.status = "ready"
      /\ over \in Rows /\ over.status = "completed"
  BY <1>3 DEF Rows, Statuses, Terminal
<1>5. \/ row' = [row EXCEPT !["kid"] = ready] /\ lease' = lease
      \/ /\ row' = [row EXCEPT !["kid"] = over]
         /\ lease' = [lease EXCEPT !["kid"] = NoLease]
  BY <1>1, <1>2 DEF EndChildTurn
<1> HIDE DEF ready, over
<1>6. /\ row' \in [Threads -> Rows] /\ row'["kid"] \in {ready, over}
      /\ row'["root"] = row["root"]
  BY <1>1, <1>4, <1>5 DEF Inv, Typed
<1>7. /\ lease' \in [Threads -> Leases] /\ lease'["kid"] \in {lease["kid"], NoLease}
      /\ lease'["root"] = lease["root"]
  BY <1>1, <1>5, Constants DEF Inv, Typed
<1>8. There("kid")' /\ (There("root")' <=> There("root"))
  BY <1>4, <1>6 DEF There
<1>9. RowsAndLeases'
  BY <1>6, <1>7, <1>8 DEF Inv, RowsAndLeases, Threads
<1>10. cmds' \subseteq Commands /\ CommandsSeen'
  <2>1. row["root"] \in Rows
    BY <1>1 DEF Inv, Typed
  <2>2. to \in Subjects
    BY <2>1 DEF Rows, Subjects
  <2>3. report \in Commands
    BY <1>1, <2>2 DEF Commands, Ids, Words, Kinds
  <2>4. cmds' \subseteq cmds \cup {report} /\ ids' = ids
    BY DEF EndChildTurn, frame
  <2>5. QED
    BY <2>3, <2>4 DEF Inv, Typed, CommandsSeen
<1>11. UNCHANGED <<live, api, left>> /\ odd' \subseteq Oddities
  BY DEF EndChildTurn, frame, Inv, Typed
<1>12. /\ \A s \in Threads : There(s) => There(s)'
       /\ \A s \in Threads : lease'[s].worker = lease[s].worker
                             \/ (s = "kid" /\ lease["kid"].worker \in {w, Nobody})
  BY <1>2, <1>7, <1>8 DEF Threads
<1>13. QED
  BY <1>1, <1>6, <1>7, <1>9, <1>10, <1>11, <1>12, ReturnKeeps DEF EndChildTurn

LEMMA CancelKeeps ==
  ASSUME Inv, NEW w \in Workers, NEW t \in Threads, Cancel(w, t)
  PROVE  Inv'
<1> DEFINE m == [h[w][t].meta EXCEPT !.status = "cancelled"]
           saved == Saved(t, m)
           x == [h[w][t] EXCEPT !.at = "release"]
<1>1. m \in Rows /\ m.status = "cancelled"
  BY MetaTyped DEF Inv, Statuses, Terminal
<1>2. h[w][t].at = "cancel" /\ w \in live /\ h[w][t] \in Stands
  BY WorkerLives DEF Cancel, At, Inv, Typed
<1>3. x \in Stands /\ x.at = "release"
  BY <1>2 DEF Stands, Places
<1>4. /\ row' = [row EXCEPT ![t] = saved] /\ lease' = lease
      /\ h' = [h EXCEPT ![w][t] = x]
  BY DEF Cancel, Goto
<1> HIDE DEF m
<1>5. saved \in Rows /\ saved.status = "cancelled"
  BY <1>1, SavedTyped DEF Inv
<1> HIDE DEF saved, x
<1>6. /\ row' \in [Threads -> Rows] /\ lease' \in [Threads -> Leases] /\ RowsAndLeases'
      /\ \A s \in Threads : There(s) => There(s)'
  BY <1>4, <1>5, RowSaved
<1>7. h \in [Workers -> [Threads -> Stands]]
  BY DEF Inv, Typed
<1>8. /\ h' \in [Workers -> [Threads -> Stands]] /\ h'[w][t] = x
      /\ \A v \in Workers, s \in Threads : (v # w \/ s # t) => h'[v][s] = h[v][s]
  BY <1>3, <1>4, <1>7
<1>9. OthersStand(w, t)
  BY <1>4, <1>6, <1>8, OthersKeepLease
<1>10. Owns(w, t)'
  BY <1>3, <1>8 DEF Owns
<1>11. /\ UNCHANGED <<live, ids, cmds, api, left>> /\ odd' \subseteq Oddities
  BY DEF Cancel, frame, Inv, Typed, Oddities
<1>12. cmds' \subseteq Commands /\ CommandsSeen'
  BY <1>11, FewerCommands
<1>13. QED
  BY <1>2, <1>6, <1>8, <1>9, <1>10, <1>11, <1>12, MoveKeeps

LEMMA ReleaseKeeps ==
  ASSUME Inv, NEW w \in Workers, NEW t \in Threads, Release(w, t)
  PROVE  Inv'
<1>1. Return(w, t) /\ h[w][t].at # "idle" /\ cmds' \subseteq Commands /\ CommandsSeen'
  BY FewerCommands DEF Release, Done, At, frame
<1>2. UNCHANGED <<live, api, left>> /\ odd' \subseteq Oddities
  BY DEF Release, frame, Inv, Typed, Oddities
<1>3. CASE lease[t] = [worker |-> w, gen |-> h[w][t].meta.gen]
  <2>1. lease' = [lease EXCEPT ![t] = NoLease] /\ row' = [row EXCEPT ![t].owner = Nobody]
    BY <1>3 DEF Release
  <2>2. /\ lease' \in [Threads -> Leases] /\ lease'[t] = NoLease
        /\ \A s \in Threads : s # t => lease'[s] = lease[s]
    BY <2>1, Constants, LeaseMoves DEF Inv
  <2>3. /\ row' \in [Threads -> Rows] /\ row'[t].status = row[t].status
        /\ \A s \in Threads : s # t => row'[s] = row[s]
    BY <2>1 DEF Inv, Typed, Rows
  <2>4. There(t)
    BY <1>3, Constants, NamesAreFree DEF Inv, RowsAndLeases
  <2>5. \A s \in Threads : There(s) => There(s)'
    BY <2>3 DEF There
  <2>6. RowsAndLeases'
    BY <2>2, <2>3, <2>4 DEF Inv, RowsAndLeases, There
  <2>7. QED
    BY <1>1, <1>2, <1>3, <2>2, <2>3, <2>5, <2>6, ReturnKeeps
<1>4. CASE lease[t] # [worker |-> w, gen |-> h[w][t].meta.gen]
  <2>1. UNCHANGED <<lease, row>>
    BY <1>4 DEF Release
  <2>2. /\ row' \in [Threads -> Rows] /\ lease' \in [Threads -> Leases] /\ RowsAndLeases'
        /\ \A s \in Threads : There(s) => There(s)'
    BY <2>1 DEF Inv, Typed, RowsAndLeases, There
  <2>3. QED
    BY <1>1, <1>2, <2>1, <2>2, ReturnKeeps
<1>5. QED
  BY <1>3, <1>4

LEMMA CrashKeeps ==
  ASSUME Inv, NEW w \in Workers, Crash(w)
  PROVE  Inv'
<1>1. /\ UNCHANGED <<row, lease, cmds, ids, api>>
      /\ live' = live \ {w} /\ left' \in Nat /\ odd' \subseteq Oddities
  BY DEF Crash, Spend, Inv, Typed, Oddities
<1>2. /\ h' \in [Workers -> [Threads -> Stands]]
      /\ \A t \in Threads : h'[w][t] = Idle
      /\ \A v \in Workers : v # w => h'[v] = h[v]
  BY Constants DEF Crash, Inv, Typed
<1>3. Typed'
  BY <1>1, <1>2 DEF Inv, Typed
<1>4. RowsAndLeases' /\ CommandsSeen'
  BY <1>1 DEF Inv, RowsAndLeases, CommandsSeen, There
<1>5. DeadRest'
  BY <1>1, <1>2 DEF Inv, DeadRest
<1>6. Owners'
  BY <1>1, <1>2, Constants DEF Inv, Owners, Owns, There
<1>7. QED
  BY <1>3, <1>4, <1>5, <1>6 DEF Inv

LEMMA SweepKeeps ==
  ASSUME Inv, NEW w \in Workers, NEW t \in Threads, Sweep(w, t)
  PROVE  Inv'
<1> DEFINE newest == IF row[t].gen > lease[t].gen THEN row[t].gen ELSE lease[t].gen
           c == [id |-> <<"recover", t, newest, row[t].status>>, kind |-> "recover",
                 thread |-> t, gen |-> lease[t].gen, to |-> Anyone]
<1>1. row[t] \in Rows /\ lease[t] \in Leases
  BY DEF Inv, Typed
<1>2. newest \in Nat
  BY <1>1 DEF Rows, Leases
<1>3. c.id \in Ids
  BY <1>1, <1>2 DEF Ids, Words, Kinds, Rows
<1>4. c \in Commands
  BY <1>1, <1>3 DEF Commands, Kinds, Subjects, Leases
<1>5. Publish(c)
  BY DEF Sweep
<1>6. cmds' \subseteq Commands /\ CommandsSeen'
  BY <1>4, <1>5, Published DEF Inv
<1>7. QED
  BY <1>6, QuietKeeps DEF Sweep, Inv, Typed
-----------------------------------------------------------------------------
LEMMA InvNext == Inv /\ [Next]_vars => Inv'
<1> SUFFICES ASSUME Inv, [Next]_vars PROVE Inv'
  OBVIOUS
<1>1. CASE Next
  <2>1. CASE Requests
    <3>1. ASSUME NEW kind \in {"resume", "cancel"}, Submit("root", kind) PROVE Inv'
      BY <3>1, SubmitKeeps
    <3>2. ASSUME NEW op \in {"disconnect", "archive"}, ListTree(op) PROVE Inv'
      BY <3>2, ListTreeKeeps
    <3>3. CASE CreateThread \/ CreateFails
      BY <3>3, CreateKeeps
    <3>4. CASE Delete
      BY <3>4, DeleteKeeps
    <3>5. QED
      BY <2>1, <3>1, <3>2, <3>3, <3>4 DEF Requests
  <2>2. CASE Cascade \/ SendFails
    BY <2>2, SendNextKeeps, CascadeKeeps, ArchiveKeeps DEF Cascade
  <2>3. ASSUME NEW w \in Workers, NEW t \in Threads, Handle(w, t) PROVE Inv'
    <3>1. ASSUME NEW c \in cmds, Take(w, c) \/ Refuse(w, c) PROVE Inv'
      BY <3>1, TakeKeeps, RefuseKeeps
    <3>2. CASE Claim(w, t) \/ BeginTurn(w, t) \/ Cancel(w, t) \/ Release(w, t)
      BY <3>2, ClaimKeeps, BeginTurnKeeps, CancelKeeps, ReleaseKeeps
    <3>3. CASE EndTurn(w) \/ EndChildTurn(w)
      BY <3>3, EndTurnKeeps, EndChildTurnKeeps
    <3>4. QED
      BY <2>3, <3>1, <3>2, <3>3 DEF Handle
  <2>4. ASSUME NEW w \in Workers, NEW t \in Threads, Sweep(w, t) PROVE Inv'
    BY <2>4, SweepKeeps
  <2>5. ASSUME NEW w \in Workers, Spawn(w) \/ Crash(w) PROVE Inv'
    BY <2>5, SpawnKeeps, CrashKeeps
  <2>6. QED
    BY <1>1, <2>1, <2>2, <2>3, <2>4, <2>5 DEF Next
<1>2. CASE UNCHANGED vars
  BY <1>2 DEF vars, Inv, Typed, RowsAndLeases, DeadRest, CommandsSeen, Owners, Owns,
              There
<1>3. QED
  BY <1>1, <1>2

LEMMA AlwaysInv == Spec => []Inv
  BY InvInit, InvNext, PTL DEF Spec

(* The state is well formed: a thread without a row has no lease, a lease  *)
(* has a generation, a dead worker runs no handler, and every command but  *)
(* a report has an id that JetStream remembers.                            *)
THEOREM TypeCorrect == Spec => []TypeOK
<1>1. Inv => TypeOK
  BY DEF Inv, Typed, RowsAndLeases, DeadRest, CommandsSeen, TypeOK, Rows, Statuses,
         Apis, Oddities
<1>2. QED
  BY <1>1, AlwaysInv, PTL

-----------------------------------------------------------------------------
AllGone == \A t \in Threads : ~There(t)

(* When the tree is gone no handler is in a turn, and nobody has a lease:  *)
(* the steps that are left to a handler find nothing to save.              *)
LEMMA GoneIsQuiet ==
  ASSUME Inv, AllGone, NEW w \in Workers, NEW t \in Threads
  PROVE  /\ h[w][t].at \notin {"save", "turn"}
         /\ lease[t].worker = Nobody /\ lease[t].worker # w
         /\ row[t] = NoRow
BY Constants, NamesAreFree DEF Inv, Owners, Owns, RowsAndLeases, AllGone

LEMMA GhostsStay == [Next]_vars => odd \subseteq odd'
<1> SUFFICES ASSUME [Next]_vars PROVE odd \subseteq odd'
  OBVIOUS
<1>1. Requests \/ Cascade \/ SendFails \/ UNCHANGED vars => odd \subseteq odd'
  BY DEF Requests, Cascade, vars, CreateThread, CreateFails, Submit, ListTree, Delete,
         SendNext, SendFails, CascadeEnds, Archive
<1>2. ASSUME NEW w \in Workers, NEW t \in Threads, Handle(w, t) PROVE odd \subseteq odd'
  BY <1>2 DEF Handle, Take, Refuse, Claim, BeginTurn, Cancel, Release, EndTurn,
              EndChildTurn
<1>3. ASSUME NEW w \in Workers, Spawn(w) \/ Crash(w) \/ \E t \in Threads : Sweep(w, t)
      PROVE  odd \subseteq odd'
  BY <1>3 DEF Spawn, Crash, Sweep
<1>4. QED
  BY <1>1, <1>2, <1>3 DEF Next

LEMMA DeletedStays ==
  ASSUME [Next]_vars, ~Delete
  PROVE  deleted' = deleted
<1>1. Requests \/ Cascade \/ SendFails \/ UNCHANGED vars => deleted' = deleted
  BY DEF Requests, Cascade, vars, apiFrame, CreateThread, CreateFails, Submit, ListTree,
         SendNext, SendFails, CascadeEnds, Archive
<1>2. ASSUME NEW w \in Workers, NEW t \in Threads, Handle(w, t)
      PROVE  deleted' = deleted
  BY <1>2 DEF Handle, frame, Take, Refuse, Claim, BeginTurn, Cancel, Release, EndTurn,
              EndChildTurn
<1>3. ASSUME NEW w \in Workers, Spawn(w) \/ Crash(w) \/ \E t \in Threads : Sweep(w, t)
      PROVE  deleted' = deleted
  BY <1>3 DEF Spawn, Crash, Sweep
<1>4. QED
  BY <1>1, <1>2, <1>3 DEF Next

LEMMA RequestsLeaveGone ==
  ASSUME Inv, AllGone, deleted, Requests \/ Cascade \/ SendFails
  PROVE  AllGone'
<1>1. CASE Delete
  BY <1>1 DEF Delete, AllGone, There, NoRow
<1>2. CASE Archive
  BY <1>2 DEF Archive, AllGone, There, Threads
<1>3. QED
  BY <1>1, <1>2 DEF Requests, Cascade, CreateThread, CreateFails, Submit, ListTree,
     SendNext, SendFails, CascadeEnds, AllGone, There

LEMMA HandlersLeaveGone ==
  ASSUME Inv, AllGone, NEW w \in Workers, NEW t \in Threads, Handle(w, t)
  PROVE  AllGone' \/ "ghost" \in odd'
<1>1. ASSUME NEW c \in cmds, c.thread = t, Take(w, c) PROVE "ghost" \in odd'
  BY <1>1 DEF Take, AllGone
<1>2. ASSUME NEW c \in cmds, Refuse(w, c) PROVE AllGone'
  BY <1>2 DEF Refuse, AllGone, There
<1>3. CASE Claim(w, t)
  BY <1>3 DEF Claim, AllGone, There
<1>4. CASE Cancel(w, t)
  BY <1>4 DEF Cancel, AllGone
<1>5. CASE Release(w, t)
  <2>1. lease[t] # [worker |-> w, gen |-> h[w][t].meta.gen]
    BY GoneIsQuiet
  <2>2. row' = row
    BY <1>5, <2>1 DEF Release
  <2>3. QED BY <2>2 DEF AllGone, There
<1>6. ~BeginTurn(w, t) /\ (t = "root" => ~EndTurn(w)) /\ (t = "kid" => ~EndChildTurn(w))
  BY GoneIsQuiet DEF BeginTurn, EndTurn, EndChildTurn, At
<1>7. QED
  BY <1>1, <1>2, <1>3, <1>4, <1>5, <1>6 DEF Handle

(* A deleted tree stays deleted, though commands for it are under way and  *)
(* handlers may be between their load and their save: a turn keeps the     *)
(* tree busy for threadTreeBusyTx, for any number of workers, requests and *)
(* crashes.  Only a cancel and a start bring a row back.                   *)
THEOREM DeletedStaysGone == Spec => []DeletedIsGone
<1>1. Init => DeletedIsGone
  BY DEF Init, DeletedIsGone
<1>2. Inv /\ DeletedIsGone /\ [Next]_vars => DeletedIsGone'
  <2> SUFFICES ASSUME Inv, DeletedIsGone, [Next]_vars, deleted', "ghost" \notin odd'
               PROVE  AllGone'
    BY DEF DeletedIsGone, AllGone
  <2>1. "ghost" \notin odd
    BY GhostsStay
  <2>2. CASE Delete
    BY <2>2 DEF Delete, AllGone, There, NoRow
  <2>3. CASE ~Delete
    <3>1. deleted
      BY <2>3, DeletedStays
    <3>2. AllGone
      BY <2>1, <3>1 DEF DeletedIsGone, AllGone
    <3>3. CASE Requests \/ Cascade \/ SendFails
      BY <3>1, <3>2, <3>3, RequestsLeaveGone
    <3>4. ASSUME NEW w \in Workers, NEW t \in Threads, Handle(w, t) PROVE AllGone'
      BY <3>2, <3>4, HandlersLeaveGone
    <3>5. ASSUME NEW w \in Workers, Spawn(w) \/ Crash(w) \/ \E t \in Threads : Sweep(w, t)
          PROVE  AllGone'
      <4>1. ~Spawn(w)
        BY <3>2, GoneIsQuiet DEF Spawn, At, Threads
      <4>2. row' = row
        BY <3>5, <4>1 DEF Crash, Sweep
      <4>3. QED BY <3>2, <4>2 DEF AllGone, There
    <3>6. CASE UNCHANGED vars
      BY <3>2, <3>6 DEF vars, AllGone, There
    <3>7. QED
      BY <3>3, <3>4, <3>5, <3>6 DEF Next
  <2>4. QED
    BY <2>2, <2>3
<1>3. QED
  BY <1>1, <1>2, AlwaysInv, PTL DEF Spec
-----------------------------------------------------------------------------
Kept == row["root"].archived /\ row'["root"].status # "none"
        => row'["root"].archived \/ "ghost" \in odd'

(* A whole row that is saved has the archive mark of the row it replaces.  *)
LEMMA SavedKeepsArchive ==
  ASSUME NEW t \in Threads, NEW meta \in Rows
  PROVE  row[t].archived => Saved(t, meta).archived
BY DEF Saved, Rows

(* An archived thread does not come back to the list, whatever copies of   *)
(* its row the handlers still hold: SaveThread keeps archived_at.          *)
THEOREM ArchivedStays == Spec => ArchiveStays
<1>1. Inv /\ [Next]_vars => Kept
  <2> SUFFICES ASSUME Inv, [Next]_vars, row["root"].archived,
                      row'["root"].status # "none", "ghost" \notin odd'
               PROVE  row'["root"].archived
    BY DEF Kept
  <2>1. "root" \in Threads /\ "kid" \in Threads /\ row \in [Threads -> Rows]
    BY DEF Threads, Inv, Typed
  <2>2. There("root")
    BY <2>1, Constants DEF Inv, RowsAndLeases
  <2>3. CASE Requests \/ Cascade \/ SendFails
    <3>1. ~CreateThread /\ ~CreateFails
      BY <2>2 DEF CreateThread, CreateFails
    <3>2. ~Delete
      BY <2>1 DEF Delete, NoRow
    <3>3. CASE Archive
      BY <2>1, <3>3 DEF Archive, Rows
    <3>4. QED
      BY <2>3, <3>1, <3>2, <3>3 DEF Requests, Cascade, Submit, ListTree, SendNext,
         SendFails, CascadeEnds
  <2>4. ASSUME NEW w \in Workers, NEW t \in Threads, Handle(w, t)
        PROVE  row'["root"].archived
    <3>1. ASSUME NEW c \in cmds, c.thread = t, Take(w, c) PROVE row'["root"].archived
      BY <2>1, <2>2, <3>1 DEF Take
    <3>2. ASSUME NEW c \in cmds, Refuse(w, c) PROVE row'["root"].archived
      BY <3>2 DEF Refuse
    <3>3. CASE Claim(w, t)
      BY <2>1, <3>3 DEF Claim, Rows
    <3>4. CASE Release(w, t)
      BY <2>1, <3>4 DEF Release, Rows
    <3>5. CASE BeginTurn(w, t) \/ Cancel(w, t) \/ (t = "root" /\ EndTurn(w))
      <4>1. PICK status \in Statuses :
              row' = [row EXCEPT ![t] = Saved(t, [h[w][t].meta EXCEPT !.status = status])]
        <5>1. CASE BeginTurn(w, t)
          BY <5>1, MetaTyped DEF BeginTurn, Statuses, Active
        <5>2. CASE Cancel(w, t)
          BY <5>2 DEF Cancel, Statuses, Terminal
        <5>3. CASE t = "root" /\ EndTurn(w)
          BY <5>3 DEF EndTurn, Statuses
        <5>4. QED BY <3>5, <5>1, <5>2, <5>3
      <4> DEFINE m == [h[w][t].meta EXCEPT !.status = status]
      <4>2. m \in Rows
        BY MetaTyped DEF Inv
      <4> HIDE DEF m
      <4>3. row[t].archived => Saved(t, m).archived
        BY <4>2, SavedKeepsArchive
      <4>4. row' = [row EXCEPT ![t] = Saved(t, m)]
        BY <4>1 DEF m
      <4>5. QED BY <2>1, <4>3, <4>4
    <3>6. CASE t = "kid" /\ EndChildTurn(w)
      BY <2>1, <3>6 DEF EndChildTurn
    <3>7. QED
      BY <2>4, <3>1, <3>2, <3>3, <3>4, <3>5, <3>6 DEF Handle
  <2>5. ASSUME NEW w \in Workers, Spawn(w) PROVE row'["root"].archived
    <3> DEFINE m == [h[w]["root"].meta EXCEPT !.status = "waiting_children"]
    <3>1. m \in Rows
      BY <2>1, MetaTyped DEF Inv, Statuses, Active
    <3>2. row'["root"] = Saved("root", m)
      BY <2>1, <2>5 DEF Spawn
    <3> HIDE DEF m
    <3>3. QED BY <2>1, <3>1, <3>2, SavedKeepsArchive
  <2>6. ASSUME NEW w \in Workers, Crash(w) \/ \E t \in Threads : Sweep(w, t)
        PROVE  row'["root"].archived
    BY <2>6 DEF Crash, Sweep
  <2>7. CASE UNCHANGED vars
    BY <2>7 DEF vars
  <2>8. QED
    BY <2>3, <2>4, <2>5, <2>6, <2>7 DEF Next
<1>2. QED
  BY <1>1, AlwaysInv, PTL DEF Spec, ArchiveStays, Kept
-----------------------------------------------------------------------------
(* The end of a cascade.  Without a crash, a stray turn or lease, a command *)
(* dropped or a cancel beside the holder, a lease that lives is known to    *)
(* everybody, and whoever is to give it back does.                          *)
Plain == odd \subseteq {"ghost"}

(* A handler that will end without the lease: a cancel that another worker  *)
(* took is about to release what is not its own.                            *)
Foreign(t) == \E v \in Workers : v # lease[t].worker /\ h[v][t].at = "release"

(* Who works knows the generation; only a cancel takes its turn away.       *)
Working(w, t) ==
  /\ h[w][t].at \in {"save", "turn"} => h[w][t].meta.gen = lease[t].gen
  /\ h[w][t].at = "turn" => row[t].status \in {"running", "reconciling", "cancelled"}

(* A handler has a command for its thread, and a turn none that ends it.    *)
Doing(w, t) ==
  /\ h[w][t].at # "idle" => h[w][t].cmd.thread = t
  /\ h[w][t].at \in {"claim", "save", "turn"} =>
       h[w][t].cmd.kind \notin {"cancel", "disconnect"}

(* The threads row has the generation of the lease, and so does the holder  *)
(* that ends; a row that is held is not new or over for long.               *)
Known(t) ==
  /\ lease[t] # NoLease =>
       lease[t].worker \in Workers /\ (row[t].gen = lease[t].gen \/ Foreign(t))
  /\ \A w \in Workers : h[w][t].at \in {"cancel", "release"} /\ lease[t].worker = w =>
       h[w][t].meta.gen = lease[t].gen \/ Foreign(t)
  /\ LeaseLive(t) /\ row[t].status \in Terminal \cup {"new"} =>
       \E v \in Workers : h[v][t].at \in {"release", "save"}

Local(t) == Known(t) /\ \A w \in Workers : Working(w, t) /\ Doing(w, t)

(* What is under way to end a lease: a handler that cancels or disconnects, *)
(* a turn that will be a stray one, or a command that will not be refused.  *)
Ending(v, t) ==
  \/ h[v][t].at \in {"cancel", "release"}
  \/ h[v][t].at = "save" /\ ~(h[v][t].cmd.kind = "report" /\ row[t].status = "waiting_children")
Ends(c, t) ==
  /\ c.thread = t /\ c.to \in {Anyone, lease[t].worker} /\ c.gen \in {0, lease[t].gen}
  /\ c.kind = "cancel" \/ (c.kind = "disconnect" /\ row[t].status = "ready")
Winding(t) == LeaseLive(t) => \/ \E v \in Workers : Ending(v, t)
                              \/ \E c \in cmds : Ends(c, t)

(* The cascade has its thread on the list, with a command that will do.     *)
Planned(t) ==
  LET item == api.list[t] IN
  /\ item.gen = lease[t].gen
  /\ item.kind = "cancel" \/ (item.kind = "disconnect" /\ row[t].status = "ready")
Sent(t) == \E i \in 1..Len(Tree) : Tree[i] = t /\ i < api.n

Course(t) ==
  /\ wound \/ (api.at = "send" /\ Sent(t)) => Winding(t)
  /\ api.at = "send" => Winding(t) \/ Planned(t)

CascadeInv ==
  Plain => /\ live = Workers
           /\ api.at = "archive" => wound
           /\ \A t \in Threads : Local(t) /\ Course(t)

(* What a step has to keep of a thread. *)
Goes(t) == /\ Local(t)'
           /\ Cascading => /\ Winding(t) => Winding(t)'
                           /\ Planned(t) => Planned(t)' \/ Winding(t)'

-----------------------------------------------------------------------------
LEMMA PlainBefore == [Next]_vars /\ Plain' => Plain
  BY GhostsStay DEF Plain

(* Without a lease there is nothing to keep: no handler works then.         *)
LEMMA Unleased ==
  ASSUME Inv, Inv', NEW t \in Threads, lease'[t] = NoLease,
         \A w \in Workers : Doing(w, t)'
  PROVE  Local(t)' /\ Winding(t)'
<1>1. NoLease.worker = Nobody /\ Nobody \notin Workers /\ live' \subseteq Workers
  BY Constants, NamesAreFree DEF Inv, Typed
<1>2. \A w \in Workers : h'[w][t].at \notin {"save", "turn"}
  BY <1>1 DEF Inv, Owners, Owns
<1>3. ~LeaseLive(t)'
  BY <1>1 DEF LeaseLive
<1>4. QED
  BY <1>1, <1>2, <1>3 DEF Local, Known, Working, Doing, Winding

(* A thread that a step leaves alone, but for its archive mark and new      *)
(* commands.                                                                *)
LEMMA LeftAlone ==
  ASSUME NEW t \in Threads, Local(t),
         \A w \in Workers : h'[w][t] = h[w][t],
         UNCHANGED live, lease'[t] = lease[t],
         row'[t].status = row[t].status, row'[t].gen = row[t].gen,
         \A c \in cmds : c.thread = t /\ c.kind \in {"cancel", "disconnect"} => c \in cmds'
  PROVE  Local(t)' /\ (Winding(t) => Winding(t)')
BY DEF Local, Known, Working, Doing, Foreign, Winding, Ending, Ends, LeaseLive

LEMMA OddIsNot ==
  ASSUME Plain'
  PROVE  "moved" \notin odd' /\ "again" \notin odd' /\ "stale" \notin odd' /\ "crash" \notin odd'
BY DEF Plain

(* A thread has one holder, and only the holder works. *)
LEMMA OneHolder ==
  ASSUME Inv, NEW t \in Threads, NEW w \in Workers, h[w][t].at \in {"save", "turn"}
  PROVE  /\ lease[t].worker = w /\ lease[t] # NoLease /\ There(t)
         /\ \A v \in Workers : v # w => h[v][t].at \notin {"save", "turn"}
BY Constants, NamesAreFree DEF Inv, Owners, Owns

LEMMA TakeGoes ==
  ASSUME Inv, Inv', live = Workers, NEW w \in Workers, NEW c \in cmds, Take(w, c),
         Local(c.thread)
  PROVE  Goes(c.thread)
<1> DEFINE t == c.thread
           r == IF There(t) THEN row[t] ELSE [NoRow EXCEPT !.status = "new"]
           x == [at |-> CASE c.kind = "cancel" -> "cancel"
                          [] c.kind = "disconnect" -> "release"
                          [] OTHER -> "claim",
                 cmd |-> c, meta |-> r]
<1>1. c \in Commands /\ t \in Threads /\ h \in [Workers -> [Threads -> Stands]]
  BY DEF Take, Deliverable, Inv, Typed, Commands
<1>2. /\ x.at \in {"cancel", "release", "claim"} /\ x.meta = r /\ x.cmd = c
      /\ x.at = "claim" => c.kind \notin {"cancel", "disconnect"}
  OBVIOUS
<1>3. h' = [h EXCEPT ![w][t] = x] /\ row' = [row EXCEPT ![t] = r]
  BY DEF Take
<1>4. UNCHANGED <<lease, live, api, cmds>> /\ h[w][t].at = "idle"
  BY DEF Take, frame, Deliverable, At
<1> HIDE DEF x
<1>5. /\ h'[w][t] = x /\ \A v \in Workers : v # w => h'[v][t] = h[v][t]
      /\ row'[t] = r
  BY <1>1, <1>3 DEF Inv, Typed
<1>6. CASE There(t)
  <2>1. r = row[t]
    BY <1>6
  <2> HIDE DEF r, t
  <2>2. Foreign(t) => Foreign(t)'
    BY <1>4, <1>5 DEF Foreign
  <2>3. Known(t)'
    <3>0. Known(t)
      BY DEF Local, t
    <3>1. lease[t].worker = w => lease[t] # NoLease
      BY Constants, NamesAreFree
    <3>2. \A v \in Workers : h'[v][t].at \in {"cancel", "release"} /\ lease'[t].worker = v =>
            h'[v][t].meta.gen = lease'[t].gen \/ Foreign(t)'
      BY <1>2, <1>4, <1>5, <2>1, <2>2, <3>0, <3>1 DEF Known
    <3>3. LeaseLive(t)' /\ row'[t].status \in Terminal \cup {"new"} =>
            \E v \in Workers : h'[v][t].at \in {"release", "save"}
      BY <1>4, <1>5, <2>1, <3>0 DEF Known, LeaseLive
    <3>4. lease'[t] # NoLease =>
            lease'[t].worker \in Workers /\ (row'[t].gen = lease'[t].gen \/ Foreign(t)')
      BY <1>4, <1>5, <2>1, <2>2, <3>0 DEF Known
    <3>5. QED BY <3>2, <3>3, <3>4 DEF Known
  <2>4. \A v \in Workers : Working(v, t)' /\ Doing(v, t)'
    BY <1>2, <1>4, <1>5, <2>1 DEF Local, Working, Doing, t
  <2>5. Winding(t) => Winding(t)'
    BY <1>4, <1>5, <2>1 DEF Winding, Ending, Ends, LeaseLive
  <2>6. Planned(t) => Planned(t)'
    BY <1>4, <1>5, <2>1 DEF Planned
  <2>7. QED BY <2>3, <2>4, <2>5, <2>6 DEF Goes, Local, t
<1>7. CASE ~There(t)
  <2>1. lease'[t] = NoLease
    BY <1>1, <1>4, <1>7 DEF Inv, RowsAndLeases
  <2> HIDE DEF r
  <2>2. \A v \in Workers : Doing(v, t)'
    BY <1>2, <1>5 DEF Local, Doing
  <2>3. QED BY <1>1, <2>1, <2>2, Unleased DEF Goes
<1>8. QED BY <1>6, <1>7

(* Only what would end the lease of a thread under another generation is    *)
(* refused, and somebody else is on the way then.                           *)
LEMMA RefuseGoes ==
  ASSUME Inv, live = Workers, NEW w \in Workers, NEW c \in cmds, Refuse(w, c),
         Local(c.thread)
  PROVE  Goes(c.thread)
<1> DEFINE t == c.thread
<1>1. t \in Threads
  BY DEF Inv, Typed, Commands
<1>2. UNCHANGED <<row, lease, h, live, api>> /\ cmds' = cmds \ {c}
  BY DEF Refuse, frame
<1>3. Local(t)'
  BY <1>2 DEF Local, Known, Working, Doing, Foreign, LeaseLive
<1>4. ASSUME LeaseLive(t), Ends(c, t) PROVE \E v \in Workers : h[v][t].at = "release"
  <2>1. lease[t] # NoLease /\ There(t)
    BY <1>1, <1>4, Constants, NamesAreFree DEF LeaseLive, Inv, RowsAndLeases
  <2>2. c.gen \notin {0, row[t].gen}
    BY <1>4, <2>1 DEF Refuse, Accepted, Ends, HoldsIdleSocket
  <2>3. row[t].gen # lease[t].gen
    BY <1>4, <2>2 DEF Ends
  <2>4. QED BY <2>1, <2>3 DEF Local, Known, Foreign
<1>5. Winding(t) => Winding(t)'
  <2> SUFFICES ASSUME Winding(t), LeaseLive(t)
               PROVE  Winding(t)'
    BY <1>2 DEF Winding, LeaseLive
  <2>1. CASE \E v \in Workers : Ending(v, t)
    BY <1>2, <2>1 DEF Winding, Ending
  <2>2. CASE Ends(c, t)
    BY <1>2, <1>4, <2>2 DEF Winding, Ending
  <2>3. CASE \E d \in cmds : d # c /\ Ends(d, t)
    BY <1>2, <2>3 DEF Winding, Ends
  <2>4. QED BY <2>1, <2>2, <2>3 DEF Winding
<1>6. Planned(t) => Planned(t)'
  BY <1>2 DEF Planned
<1>7. QED BY <1>3, <1>5, <1>6 DEF Goes

(* A step of the holder that keeps the lease: it keeps the generation, and, *)
(* once a cascade has begun, does not make a ready thread busy.             *)
LEMMA HolderGoes ==
  ASSUME Inv, live = Workers, NEW t \in Threads, NEW w \in Workers, Local(t),
         h[w][t].at \in {"claim", "save", "turn"}, lease[t].worker = w,
         lease'[t] = lease[t], UNCHANGED <<live, api>>,
         \A v \in Workers : v # w => h'[v][t] = h[v][t],
         h'[w][t].at \in {"idle", "save", "turn"},
         h'[w][t].at \in {"save", "turn"} =>
           h'[w][t].meta.gen = lease[t].gen /\ h'[w][t].cmd = h[w][t].cmd,
         h'[w][t].at = "turn" => row'[t].status \in {"running", "reconciling"},
         row'[t].gen = lease[t].gen,
         row'[t].status \in Terminal \cup {"new"} => h'[w][t].at = "save",
         \A c \in cmds : c.thread = t /\ c.kind \in {"cancel", "disconnect"}
                        /\ c # h[w][t].cmd => c \in cmds',
         Cascading => ~Ending(w, t) /\ (row[t].status = "ready" => row'[t].status = "ready")
  PROVE  Goes(t)
<1>1. lease[t] # NoLease
  BY Constants, NamesAreFree
<1>2. \A v \in Workers : v # w => h[v][t].at \notin {"save", "turn"}
  BY DEF Inv, Owners, Owns
<1>3. Known(t)'
  <2>1. \A v \in Workers : h'[v][t].at \in {"cancel", "release"} => v # w
    OBVIOUS
  <2>2. QED BY <1>1, <2>1 DEF Known, LeaseLive
<1>4. \A v \in Workers : Working(v, t)' /\ Doing(v, t)'
  <2>1. Working(w, t)' /\ Doing(w, t)'
    BY DEF Local, Working, Doing
  <2>2. ASSUME NEW v \in Workers, v # w PROVE Working(v, t)' /\ Doing(v, t)'
    BY <1>2, <2>2 DEF Local, Working, Doing
  <2>3. QED BY <2>1, <2>2
<1>5. ASSUME Cascading, Winding(t), LeaseLive(t) PROVE Winding(t)'
  <2>1. CASE \E v \in Workers : Ending(v, t)
    BY <1>2, <1>5, <2>1 DEF Winding, Ending
  <2>2. CASE \E c \in cmds : Ends(c, t)
    <3>1. PICK c \in cmds : Ends(c, t)
      BY <2>2
    <3>2. c.kind \in {"cancel", "disconnect"} /\ c # h[w][t].cmd
      BY <3>1 DEF Ends, Local, Doing
    <3>3. c \in cmds' /\ Ends(c, t)'
      BY <1>5, <3>1, <3>2 DEF Ends
    <3>4. QED BY <3>3 DEF Winding
  <2>3. QED BY <1>5, <2>1, <2>2 DEF Winding
<1>6. Cascading /\ Planned(t) => Planned(t)'
  BY DEF Planned
<1>7. LeaseLive(t)
  BY DEF LeaseLive
<1>8. QED
  BY <1>3, <1>4, <1>5, <1>6, <1>7 DEF Goes, Local

(* A lease that is taken anew is one that a cascade has not seen.           *)
LEMMA ClaimGoes ==
  ASSUME Inv, Inv', Plain', live = Workers, NEW w \in Workers, NEW t \in Threads,
         Claim(w, t), Local(t)
  PROVE  Goes(t)
<1>1. /\ UNCHANGED <<live, api>> /\ h[w][t].at = "claim"
      /\ h \in [Workers -> [Threads -> Stands]] /\ h[w][t] \in Stands
      /\ row[t] \in Rows /\ lease[t] \in Leases
  BY DEF Claim, frame, At, Inv, Typed
<1>2. CASE ~(There(t) /\ (lease[t].worker = w \/ ~LeaseLive(t)))
  <2>1. Done(w, t) /\ UNCHANGED <<row, lease>>
    BY <1>2 DEF Claim
  <2>2. /\ h'[w][t] = Idle /\ cmds' = cmds \ {h[w][t].cmd}
        /\ \A v \in Workers : v # w => h'[v][t] = h[v][t]
    BY <2>1, ReturnStands DEF Done
  <2>3. /\ \A v \in Workers : Working(v, t)' /\ Doing(v, t)'
        /\ Foreign(t) => Foreign(t)'
    BY <1>1, <2>1, <2>2, Constants DEF Local, Working, Doing, Foreign
  <2>4. Known(t)'
    BY <1>1, <2>1, <2>2, <2>3, Constants DEF Local, Known, LeaseLive
  <2>5. Winding(t) => Winding(t)'
    <3>1. \A c \in cmds : Ends(c, t) => c \in cmds' /\ Ends(c, t)'
      BY <1>1, <2>1, <2>2 DEF Ends, Local, Doing
    <3>2. \A v \in Workers : Ending(v, t) => Ending(v, t)'
      BY <1>1, <2>1, <2>2 DEF Ending
    <3>3. QED BY <1>1, <2>1, <3>1, <3>2 DEF Winding, LeaseLive
  <2>6. Planned(t) => Planned(t)'
    BY <1>1, <2>1 DEF Planned
  <2>7. QED BY <2>3, <2>4, <2>5, <2>6 DEF Goes, Local
<1>3. CASE There(t) /\ (lease[t].worker = w \/ ~LeaseLive(t))
  <2> DEFINE holder == IF lease[t] = NoLease THEN row[t].owner ELSE lease[t].worker
             seen == IF lease[t] = NoLease THEN row[t].gen ELSE lease[t].gen
             gen == IF holder # w \/ seen = 0 THEN seen + 1 ELSE seen
             x == [h[w][t] EXCEPT !.at = "save", !.meta.owner = w, !.meta.gen = gen]
  <2>1. /\ lease' = [lease EXCEPT ![t] = [worker |-> w, gen |-> gen]]
        /\ row' = [row EXCEPT ![t].owner = w, ![t].gen = gen]
        /\ h' = [h EXCEPT ![w][t] = x]
        /\ cmds' = cmds
        /\ Cascading /\ ~LeaseLive(t) => "moved" \in odd'
    BY <1>3 DEF Claim
  <2>2. lease[t].worker = w => lease[t] # NoLease /\ gen = lease[t].gen
    BY <1>1, Constants, NamesAreFree DEF Inv, RowsAndLeases, Leases
  <2> HIDE DEF gen
  <2>3. x.at = "save" /\ x.meta.gen = gen /\ x.cmd = h[w][t].cmd
    BY <1>1 DEF Stands, Rows
  <2> HIDE DEF x
  <2>4. /\ h'[w][t] = x /\ \A v \in Workers : v # w => h'[v][t] = h[v][t]
        /\ lease'[t] = [worker |-> w, gen |-> gen]
        /\ row'[t].gen = gen /\ row'[t].status = row[t].status
    BY <1>1, <2>1 DEF Inv, Typed, Rows
  <2>5. CASE lease[t].worker = w
    <3>1. lease'[t] = lease[t]
      BY <1>1, <2>2, <2>4, <2>5 DEF Leases
    <3>2. ~Ending(w, t)
      BY <1>1 DEF Ending
    <3>3. QED BY <1>1, <2>1, <2>2, <2>3, <2>4, <2>5, <3>1, <3>2, HolderGoes
  <2>6. CASE lease[t].worker # w
    <3>1. ~LeaseLive(t) /\ ~Cascading
      BY <1>3, <2>1, <2>6, OddIsNot
    <3>2. lease[t] = NoLease
      BY <3>1 DEF Local, Known, LeaseLive
    <3>3. \A v \in Workers : h[v][t].at \notin {"save", "turn"}
      BY <3>2, OneHolder
    <3>4. \A v \in Workers : Working(v, t)' /\ Doing(v, t)'
      BY <1>1, <2>3, <2>4, <3>3 DEF Local, Working, Doing
    <3>5. Known(t)'
      BY <2>3, <2>4 DEF Known
    <3>6. QED BY <3>1, <3>4, <3>5 DEF Goes, Local
  <2>7. QED BY <2>5, <2>6
<1>4. QED BY <1>2, <1>3

LEMMA SavedGen ==
  ASSUME Inv, NEW w \in Workers, NEW t \in Threads, NEW status \in Statuses
  PROVE  LET r == Saved(t, [h[w][t].meta EXCEPT !.status = status])
         IN  r.status = status /\ r.gen = h[w][t].meta.gen
<1>1. h[w][t].meta \in Rows
  BY DEF Inv, Typed, Stands
<1>2. QED
  BY <1>1 DEF Saved, Rows

(* Only the turn of a report to a waiting parent begins in a cascade.       *)
LEMMA BeginTurnGoes ==
  ASSUME Inv, Plain', live = Workers, NEW w \in Workers, NEW t \in Threads,
         BeginTurn(w, t), Local(t)
  PROVE  Goes(t)
<1> DEFINE kind == h[w][t].cmd.kind
           meta == h[w][t].meta
           status == CASE kind = "recover" /\ meta.status = "waiting_children" -> meta.status
                       [] kind = "recover" -> "reconciling"
                       [] OTHER -> "running"
           saved == Saved(t, [meta EXCEPT !.status = status])
           x == [h[w][t] EXCEPT !.at = "turn", !.meta = saved]
<1>1. /\ h[w][t].at = "save" /\ h[w][t] \in Stands
      /\ h \in [Workers -> [Threads -> Stands]] /\ row \in [Threads -> Rows]
  BY DEF BeginTurn, At, Inv, Typed
<1>2. /\ UNCHANGED <<lease, live, api>> /\ row' = [row EXCEPT ![t] = saved]
      /\ \/ status = "waiting_children" /\ Done(w, t)
         \/ status # "waiting_children" /\ h' = [h EXCEPT ![w][t] = x] /\ cmds' = cmds
      /\ Cascading => kind = "report" /\ row[t].status = "waiting_children"
  BY OddIsNot DEF BeginTurn, frame
<1>3. status \in {"waiting_children", "reconciling", "running"}
  OBVIOUS
<1> HIDE DEF status
<1>4. saved.status = status /\ saved.gen = meta.gen
  BY <1>3, SavedGen DEF Statuses, Active
<1>5. x.at = "turn" /\ x.meta = saved /\ x.cmd = h[w][t].cmd
  BY <1>1 DEF Stands
<1> HIDE DEF saved, x
<1>6. meta.gen = lease[t].gen /\ lease[t].worker = w
  BY <1>1, OneHolder DEF Local, Working, Doing
<1>7. row'[t] = saved
  BY <1>1, <1>2
<1>8. /\ \A v \in Workers : v # w => h'[v][t] = h[v][t]
      /\ cmds \ {h[w][t].cmd} \subseteq cmds'
      /\ \/ h'[w][t] = x /\ status # "waiting_children"
         \/ h'[w][t].at = "idle"
  <2>1. CASE Done(w, t)
    BY <2>1, ReturnStands, Constants DEF Done
  <2>2. CASE h' = [h EXCEPT ![w][t] = x] /\ cmds' = cmds /\ status # "waiting_children"
    BY <1>1, <2>2
  <2>3. QED BY <1>2, <2>1, <2>2
<1>9. Cascading => ~Ending(w, t) /\ row[t].status # "ready"
  BY <1>1, <1>2 DEF Ending
<1>10. row'[t].status \notin Terminal \cup {"new"}
  BY <1>3, <1>4, <1>7 DEF Terminal
<1>11. QED
  BY <1>1, <1>2, <1>3, <1>4, <1>5, <1>6, <1>7, <1>8, <1>9, <1>10, HolderGoes

(* A turn that ends leaves no ready thread, as its row was not ready before.*)
LEMMA TurnEnds ==
  ASSUME Inv, live = Workers, NEW w \in Workers, NEW t \in Threads, Local(t),
         h[w][t].at = "turn", Return(w, t), lease'[t] = lease[t], UNCHANGED <<live, api>>,
         cmds \ {h[w][t].cmd} \subseteq cmds',
         row'[t].gen = h[w][t].meta.gen, row'[t].status \in {"ready", "waiting_children"}
  PROVE  Goes(t)
<1>1. h[w][t].meta.gen = lease[t].gen /\ lease[t].worker = w
  BY OneHolder DEF Local, Working, Doing
<1>2. /\ h'[w][t].at = "idle"
      /\ \A v \in Workers : v # w => h'[v][t] = h[v][t]
  BY ReturnStands, Constants
<1>3. ~Ending(w, t) /\ row[t].status # "ready"
  BY DEF Ending, Local, Working
<1>4. row'[t].status \notin Terminal \cup {"new"}
  BY DEF Terminal
<1>5. QED
  BY <1>1, <1>2, <1>3, <1>4, HolderGoes

LEMMA EndTurnGoes ==
  ASSUME Inv, live = Workers, NEW w \in Workers, EndTurn(w), Local("root")
  PROVE  Goes("root")
<1> DEFINE saved == Saved("root", [h[w]["root"].meta EXCEPT !.status = "ready"])
<1>1. /\ "root" \in Threads /\ row \in [Threads -> Rows] /\ h[w]["root"].at = "turn"
      /\ UNCHANGED <<live, api, lease>> /\ row' = [row EXCEPT !["root"] = saved]
      /\ Return(w, "root") /\ cmds' = cmds \ {h[w]["root"].cmd}
  BY DEF EndTurn, frame, Done, At, Inv, Typed, Threads
<1>2. saved.status = "ready" /\ saved.gen = h[w]["root"].meta.gen
  BY <1>1, SavedGen DEF Statuses
<1> HIDE DEF saved
<1>3. row'["root"] = saved
  BY <1>1
<1>4. QED
  BY <1>1, <1>2, <1>3, TurnEnds

LEMMA SpawnGoes ==
  ASSUME Inv, Inv', live = Workers, NEW w \in Workers, Spawn(w), Local("root"), Local("kid")
  PROVE  Goes("root") /\ Goes("kid")
<1> DEFINE saved == Saved("root", [h[w]["root"].meta EXCEPT !.status = "waiting_children"])
           new == [NoRow EXCEPT !.status = "new"]
<1>1. /\ "root" \in Threads /\ "kid" \in Threads
      /\ row \in [Threads -> Rows] /\ h[w]["root"].at = "turn"
      /\ UNCHANGED <<live, api, lease>>
      /\ row' = [row EXCEPT !["root"] = saved, !["kid"] = new]
      /\ Return(w, "root") /\ cmds \ {h[w]["root"].cmd} \subseteq cmds' /\ ~There("kid")
  BY DEF Spawn, At, Inv, Typed, Threads
<1>2. saved.status = "waiting_children" /\ saved.gen = h[w]["root"].meta.gen
  BY <1>1, SavedGen DEF Statuses, Active
<1> HIDE DEF saved, new
<1>3. row'["root"] = saved
  BY <1>1
<1>4. Goes("root")
  BY <1>1, <1>2, <1>3, TurnEnds
<1>5. lease'["kid"] = NoLease
  BY <1>1 DEF Inv, RowsAndLeases
<1>6. \A v \in Workers : h'[v]["kid"] = h[v]["kid"]
  BY <1>1, ReturnStands
<1>7. QED
  BY <1>1, <1>4, <1>5, <1>6, Unleased DEF Goes, Local, Doing

LEMMA EndChildTurnGoes ==
  ASSUME Inv, Inv', live = Workers, NEW w \in Workers, EndChildTurn(w), Local("kid")
  PROVE  Goes("kid")
<1> DEFINE meta == h[w]["kid"].meta
           ready == [meta EXCEPT !.status = "ready"]
           over == [meta EXCEPT !.status = "completed", !.owner = Nobody]
<1>1. /\ "kid" \in Threads /\ row \in [Threads -> Rows] /\ h[w]["kid"].at = "turn"
      /\ meta \in Rows /\ lease \in [Threads -> Leases]
      /\ UNCHANGED <<live, api>> /\ Return(w, "kid")
      /\ cmds \ {h[w]["kid"].cmd} \subseteq cmds'
  BY DEF EndChildTurn, frame, At, Inv, Typed, Threads, Stands
<1>2. lease["kid"].worker = w
  BY <1>1, OneHolder
<1>3. \/ row' = [row EXCEPT !["kid"] = ready] /\ lease' = lease
      \/ lease' = [lease EXCEPT !["kid"] = NoLease]
  BY <1>2 DEF EndChildTurn
<1>4. ready.status = "ready" /\ ready.gen = meta.gen
  BY <1>1 DEF Rows
<1> HIDE DEF ready
<1>5. CASE row' = [row EXCEPT !["kid"] = ready] /\ lease' = lease
  <2>1. row'["kid"] = ready
    BY <1>1, <1>5
  <2>2. QED BY <1>1, <1>4, <1>5, <2>1, TurnEnds
<1>6. CASE lease' = [lease EXCEPT !["kid"] = NoLease]
  <2>1. lease'["kid"] = NoLease
    BY <1>1, <1>6
  <2>2. \A v \in Workers : h'[v]["kid"] = h[v]["kid"] \/ h'[v]["kid"].at = "idle"
    BY <1>1, ReturnStands, Constants
  <2>3. QED BY <1>1, <2>1, <2>2, Unleased DEF Goes, Local, Doing
<1>7. QED BY <1>3, <1>5, <1>6

(* A cancel writes a row it may not own; what it writes over is known as    *)
(* long as it has not released.                                             *)
LEMMA CancelGoes ==
  ASSUME Inv, live = Workers, NEW w \in Workers, NEW t \in Threads, Cancel(w, t), Local(t)
  PROVE  Goes(t)
<1> DEFINE saved == Saved(t, [h[w][t].meta EXCEPT !.status = "cancelled"])
           x == [h[w][t] EXCEPT !.at = "release"]
<1>1. /\ h[w][t].at = "cancel" /\ h[w][t] \in Stands
      /\ h \in [Workers -> [Threads -> Stands]] /\ row \in [Threads -> Rows]
      /\ UNCHANGED <<lease, live, api, cmds>>
      /\ row' = [row EXCEPT ![t] = saved] /\ h' = [h EXCEPT ![w][t] = x]
  BY DEF Cancel, Goto, frame, At, Inv, Typed
<1>2. saved.status = "cancelled" /\ saved.gen = h[w][t].meta.gen
  BY SavedGen DEF Statuses, Terminal
<1>3. x.at = "release" /\ x.meta = h[w][t].meta /\ x.cmd = h[w][t].cmd
  BY <1>1 DEF Stands
<1> HIDE DEF saved, x
<1>4. /\ h'[w][t] = x /\ \A v \in Workers : v # w => h'[v][t] = h[v][t]
      /\ row'[t] = saved
  BY <1>1
<1>5. /\ Foreign(t) => Foreign(t)'
      /\ lease[t].worker # w => Foreign(t)'
  BY <1>1, <1>3, <1>4 DEF Foreign
<1>6. Known(t)'
  <2>1. lease[t].worker = w => h[w][t].meta.gen = lease[t].gen \/ Foreign(t)'
    BY <1>1, <1>5 DEF Local, Known
  <2>2. QED BY <1>1, <1>2, <1>3, <1>4, <1>5, <2>1 DEF Local, Known
<1>7. \A v \in Workers : Working(v, t)' /\ Doing(v, t)'
  BY <1>1, <1>2, <1>3, <1>4 DEF Local, Working, Doing
<1>8. Winding(t)'
  BY <1>3, <1>4 DEF Winding, Ending
<1>9. QED BY <1>6, <1>7, <1>8 DEF Goes, Local

(* A release that is refused has another one behind it, or was beside the   *)
(* holder.                                                                  *)
LEMMA ReleaseGoes ==
  ASSUME Inv, Inv', Plain', live = Workers, NEW w \in Workers, NEW t \in Threads,
         Release(w, t), Local(t)
  PROVE  Goes(t)
<1>1. /\ h[w][t].at = "release" /\ UNCHANGED <<live, api>>
      /\ Return(w, t) /\ lease \in [Threads -> Leases] /\ row \in [Threads -> Rows]
      /\ lease[t].worker \notin Workers \ {w}
  BY OddIsNot DEF Release, Done, frame, At, Inv, Typed
<1>2. /\ h'[w][t] = Idle /\ Idle.at = "idle"
      /\ \A v \in Workers : v # w => h'[v][t] = h[v][t]
  BY <1>1, ReturnStands, Constants
<1>3. CASE lease[t] = [worker |-> w, gen |-> h[w][t].meta.gen] \/ lease[t] = NoLease
  <2>1. lease'[t] = NoLease
    BY <1>1, <1>3 DEF Release
  <2>2. QED BY <1>2, <2>1, Unleased DEF Goes, Local, Doing
<1>4. CASE lease[t] # [worker |-> w, gen |-> h[w][t].meta.gen] /\ lease[t] # NoLease
  <2>1. lease[t].worker = w /\ lease[t].gen # h[w][t].meta.gen
    BY <1>1, <1>4 DEF Local, Known, Leases
  <2>2. UNCHANGED <<lease, row>>
    BY <1>4 DEF Release
  <2>3. PICK v \in Workers : v # w /\ h[v][t].at = "release"
    BY <1>1, <2>1 DEF Local, Known, Foreign
  <2>4. Foreign(t)' /\ h'[v][t].at = "release"
    BY <1>2, <2>1, <2>2, <2>3 DEF Foreign
  <2>5. Known(t)'
    BY <1>2, <2>1, <2>2, <2>4 DEF Local, Known
  <2>6. \A u \in Workers : Working(u, t)' /\ Doing(u, t)'
    BY <1>2, <2>2 DEF Local, Working, Doing
  <2>7. Winding(t)'
    BY <2>4 DEF Winding, Ending
  <2>8. QED BY <2>5, <2>6, <2>7 DEF Goes, Local
<1>5. QED BY <1>3, <1>4
-----------------------------------------------------------------------------
(* All the threads, and the requests. *)

(* A handler of one thread leaves the other's row, lease and handlers      *)
(* alone.                                                                  *)
LEMMA OthersUntouched ==
  ASSUME Inv, NEW w \in Workers, NEW t \in Threads, Handle(w, t), NEW s \in Threads, s # t
  PROVE  /\ row'[s] = row[s] /\ lease'[s] = lease[s]
         /\ \A v \in Workers : h'[v][s] = h[v][s]
<1>1. /\ h \in [Workers -> [Threads -> Stands]] /\ row \in [Threads -> Rows]
      /\ lease \in [Threads -> Leases]
  BY DEF Inv, Typed
<1>2. ASSUME NEW c \in cmds, c.thread = t, Take(w, c)
      PROVE  /\ row'[s] = row[s] /\ lease'[s] = lease[s]
             /\ \A v \in Workers : h'[v][s] = h[v][s]
  BY <1>1, <1>2 DEF Take
<1>3. CASE \E c \in cmds : Refuse(w, c)
  BY <1>3 DEF Refuse
<1>4. CASE Claim(w, t)
  BY <1>1, <1>4 DEF Claim, Done, Return
<1>5. CASE BeginTurn(w, t)
  BY <1>1, <1>5 DEF BeginTurn, Done, Return
<1>6. CASE Cancel(w, t) \/ Release(w, t)
  BY <1>1, <1>6 DEF Cancel, Release, Goto, Done, Return
<1>7. CASE t = "root" /\ EndTurn(w)
  BY <1>1, <1>7 DEF EndTurn, Done, Return
<1>8. CASE t = "kid" /\ EndChildTurn(w)
  BY <1>1, <1>8 DEF EndChildTurn, Return
<1>9. QED
  BY <1>2, <1>3, <1>4, <1>5, <1>6, <1>7, <1>8 DEF Handle

(* The step of a handler of one thread leaves the other alone, unless it    *)
(* makes the child.                                                         *)
LEMMA OthersGo ==
  ASSUME Inv, live = Workers, NEW w \in Workers, NEW t \in Threads, Handle(w, t),
         Local(t), NEW s \in Threads, s # t, Local(s)
  PROVE  Goes(s)
<1>1. /\ row'[s] = row[s] /\ lease'[s] = lease[s]
      /\ \A v \in Workers : h'[v][s] = h[v][s]
  BY OthersUntouched
<1>2. UNCHANGED <<live, api>>
  BY DEF Handle, frame, Take, Refuse, Claim, BeginTurn, Cancel, Release, EndTurn, EndChildTurn
<1>3. ASSUME NEW c \in cmds, c.thread = s, c.kind \in {"cancel", "disconnect"}
      PROVE  c \in cmds'
  <2>1. h[w][t].at # "idle" => c # h[w][t].cmd
    BY <1>3 DEF Local, Doing
  <2>2. QED BY <1>3, <2>1 DEF Handle, Take, Refuse, Claim, BeginTurn, Cancel, Release, EndTurn,
               EndChildTurn, Done, At
<1>4. Planned(s) => Planned(s)'
  BY <1>1, <1>2 DEF Planned
<1>5. QED
  BY <1>1, <1>2, <1>3, <1>4, LeftAlone DEF Goes

LEMMA HandleGoes ==
  ASSUME Inv, Inv', Plain', live = Workers, NEW w \in Workers, NEW t \in Threads,
         Handle(w, t), Local(t)
  PROVE  Goes(t)
<1>1. ASSUME NEW c \in cmds, c.thread = t, Take(w, c) \/ Refuse(w, c) PROVE Goes(t)
  BY <1>1, TakeGoes, RefuseGoes
<1>2. CASE Claim(w, t) \/ BeginTurn(w, t) \/ Cancel(w, t) \/ Release(w, t)
  BY <1>2, ClaimGoes, BeginTurnGoes, CancelGoes, ReleaseGoes
<1>3. CASE (t = "root" /\ EndTurn(w)) \/ (t = "kid" /\ EndChildTurn(w))
  BY <1>3, EndTurnGoes, EndChildTurnGoes
<1>4. QED
  BY <1>1, <1>2, <1>3 DEF Handle

(* A step that keeps every thread keeps the course, if the request does not *)
(* move.                                                                    *)
LEMMA CourseGoes ==
  ASSUME CascadeInv, Plain, UNCHANGED <<live, api, wound>>, \A t \in Threads : Goes(t)
  PROVE  CascadeInv'
<1>1. ASSUME NEW t \in Threads PROVE Local(t)' /\ Course(t)'
  <2>1. Local(t)' /\ Course(t) /\ (Sent(t)' <=> Sent(t))
    BY DEF CascadeInv, Goes, Sent
  <2>2. wound \/ api.at = "send" => Cascading
    BY DEF Cascading
  <2>3. QED BY <2>1, <2>2 DEF Course, Goes
<1>2. QED BY <1>1 DEF CascadeInv

(* A list that is made now has a command for every thread whose lease is    *)
(* not about to end anyway.                                                 *)
LEMMA Listed ==
  ASSUME Inv, live = Workers, NEW t \in Threads, Local(t), LeaseLive(t),
         ~\E v \in Workers : Ending(v, t)
  PROVE  /\ row[t].gen = lease[t].gen
         /\ \/ CascadeCommand(row[t].status) = "cancel"
            \/ CascadeCommand(row[t].status) = "disconnect" /\ row[t].status = "ready"
<1>1. lease[t] # NoLease /\ There(t)
  BY Constants, NamesAreFree DEF LeaseLive, Inv, RowsAndLeases
<1>2. \A v \in Workers : h[v][t].at # "release"
  BY DEF Ending
<1>3. row[t].gen = lease[t].gen
  BY <1>1, <1>2 DEF Local, Known, Foreign
<1>4. row[t].status \notin Terminal \cup {"new"}
  <2> SUFFICES ASSUME row[t].status \in Terminal \cup {"new"} PROVE FALSE
    OBVIOUS
  <2>1. PICK v \in Workers : h[v][t].at = "save"
    BY <1>2 DEF Local, Known
  <2>2. row[t].status # "waiting_children"
    BY DEF Terminal
  <2>3. QED BY <2>1, <2>2 DEF Ending
<1>5. row[t].status \in Active \cup {"ready"}
  BY <1>1, <1>4 DEF There, Inv, Typed, Rows, Statuses
<1>6. QED
  BY <1>3, <1>5 DEF CascadeCommand, Active

(* A step after which no list is being worked off keeps the course, if it   *)
(* keeps every thread.                                                      *)
LEMMA NoListGoes ==
  ASSUME CascadeInv, Plain, UNCHANGED <<live, wound>>, api'.at = "idle",
         \A t \in Threads : Local(t)' /\ (Winding(t) => Winding(t)')
  PROVE  CascadeInv'
BY DEF CascadeInv, Course

LEMMA CreateGoes ==
  ASSUME Inv, Inv', CascadeInv, Plain, CreateThread \/ CreateFails
  PROVE  CascadeInv'
<1>1. /\ UNCHANGED <<lease, live, h, api, wound>> /\ api.at = "idle" /\ ~There("root")
      /\ row \in [Threads -> Rows] /\ "kid" \in Threads /\ "root" \in Threads
      /\ cmds \subseteq cmds'
  BY DEF CreateThread, CreateFails, apiFrame, Publish, Inv, Typed, Threads
<1>2. row'["kid"] = row["kid"]
  BY <1>1 DEF CreateThread, CreateFails
<1>3. Local("root") /\ Local("kid")
  BY <1>1 DEF CascadeInv
<1>4. Local("kid")' /\ (Winding("kid") => Winding("kid")')
  BY <1>1, <1>2, <1>3, LeftAlone
<1>5. lease'["root"] = NoLease
  BY <1>1 DEF Inv, RowsAndLeases
<1>6. \A w \in Workers : Doing(w, "root")'
  BY <1>1, <1>3 DEF Local, Doing
<1>7. Local("root")' /\ Winding("root")'
  BY <1>1, <1>5, <1>6, Unleased
<1>8. QED
  BY <1>1, <1>4, <1>7, NoListGoes DEF Threads

(* The requests that change nothing of a thread. *)
LEMMA QuietGoes ==
  ASSUME CascadeInv, Plain, UNCHANGED <<row, lease, live, h>>, cmds \subseteq cmds'
  PROVE  \A t \in Threads : Local(t)' /\ (Winding(t) => Winding(t)')
BY LeftAlone DEF CascadeInv

LEMMA ListTreeGoes ==
  ASSUME Inv, CascadeInv, Plain, NEW op \in {"disconnect", "archive"}, ListTree(op)
  PROVE  CascadeInv'
<1>1. /\ UNCHANGED <<row, lease, live, h, cmds, wound>> /\ live = Workers
      /\ api'.at = "send" /\ api'.n = 1
  BY DEF ListTree, apiFrame, CascadeInv
<1>2. ASSUME NEW t \in Threads PROVE Local(t)' /\ Course(t)'
  <2>1. Local(t) /\ Local(t)' /\ (Winding(t) => Winding(t)') /\ (wound => Winding(t))
    BY <1>1, QuietGoes DEF CascadeInv, Course
  <2>2. ~Sent(t)'
    BY <1>1 DEF Sent, Tree
  <2>3. Winding(t) \/ Planned(t)'
    <3>1. CASE LeaseLive(t) /\ ~\E v \in Workers : Ending(v, t)
      <4>1. /\ row[t].gen = lease[t].gen
            /\ \/ CascadeCommand(row[t].status) = "cancel"
               \/ CascadeCommand(row[t].status) = "disconnect" /\ row[t].status = "ready"
        BY <1>1, <2>1, <3>1, Listed
      <4>2. /\ api'.list[t].kind = CascadeCommand(row[t].status)
            /\ api'.list[t].gen = row[t].gen
        BY DEF ListTree
      <4>3. QED BY <1>1, <4>1, <4>2 DEF Planned
    <3>2. CASE ~LeaseLive(t) \/ \E v \in Workers : Ending(v, t)
      BY <3>2 DEF Winding
    <3>3. QED BY <3>1, <3>2
  <2>4. QED BY <1>1, <2>1, <2>2, <2>3 DEF Course
<1>3. QED
  BY <1>1, <1>2 DEF CascadeInv

(* The command goes to the holder, and no earlier one has its id.           *)
LEMMA SendNextGoes ==
  ASSUME Inv, CascadeInv, Plain, Plain', SendNext
  PROVE  CascadeInv'
<1>1. /\ UNCHANGED <<row, lease, live, h, wound>> /\ live = Workers
      /\ api.at = "send" /\ api'.at = "send" /\ api'.n = api.n + 1 /\ api'.list = api.list
      /\ api.n \in Nat
  BY DEF SendNext, apiFrame, CascadeInv, Inv, Typed, Apis
<1>2. PICK t \in Threads : t = Tree[api.n]
  BY DEF SendNext, Tree, Threads, Inv, Typed, Apis
<1>3. PICK item : item = api.list[t]
  OBVIOUS
<1>4. PICK c : c = [id |-> <<item.kind, t, item.gen, "cascade">>, kind |-> item.kind,
                    thread |-> t, gen |-> item.gen, to |-> Route(t, item.kind)]
  OBVIOUS
<1>5. cmds \subseteq cmds' /\ (item.kind # "none" => c \in cmds')
  <2>1. item.kind = "none" => cmds' = cmds
    BY <1>2, <1>3 DEF SendNext
  <2>2. item.kind # "none" => Publish(c) /\ c.id \notin ids
    BY <1>2, <1>3, <1>4, OddIsNot DEF SendNext
  <2>3. QED BY <2>1, <2>2 DEF Publish
<1>6. ASSUME NEW s \in Threads PROVE Local(s)' /\ (Winding(s) => Winding(s)')
  BY <1>1, <1>5, QuietGoes
<1>7. ASSUME NEW s \in Threads PROVE Planned(s)' <=> Planned(s)
  BY <1>1 DEF Planned
<1>8. ASSUME NEW s \in Threads, Sent(s)' PROVE Sent(s) \/ s = t
  <2>1. PICK i \in 1..Len(Tree) : Tree[i] = s /\ i < api.n + 1
    BY <1>1, <1>8 DEF Sent
  <2>2. i < api.n \/ i = api.n
    BY <1>1, <2>1 DEF Tree
  <2>3. QED BY <1>2, <2>1, <2>2 DEF Sent
<1>9. Winding(t)'
  <2>1. CASE Winding(t)
    BY <1>6, <2>1
  <2>2. CASE ~Winding(t)
    <3>1. Planned(t) /\ LeaseLive(t)
      BY <1>1, <2>2 DEF CascadeInv, Course, Winding
    <3>2. /\ item.kind = "cancel" \/ (item.kind = "disconnect" /\ row[t].status = "ready")
          /\ item.gen = lease[t].gen
      BY <1>3, <3>1 DEF Planned
    <3>3. Route(t, item.kind) = lease[t].worker
      BY <3>1, <3>2 DEF Route
    <3>4. Ends(c, t)'
      BY <1>1, <1>4, <3>2, <3>3 DEF Ends
    <3>5. QED BY <1>5, <3>2, <3>4 DEF Winding
  <2>3. QED BY <2>1, <2>2
<1>10. ASSUME NEW s \in Threads PROVE Course(s)'
  <2>1. (wound \/ Sent(s) => Winding(s)) /\ (Winding(s) \/ Planned(s))
    BY <1>1 DEF CascadeInv, Course
  <2>2. CASE s = t
    BY <1>9, <2>2 DEF Course
  <2>3. CASE s # t
    <3>1. wound' \/ Sent(s)' => Winding(s)'
      BY <1>1, <1>6, <1>8, <2>1, <2>3
    <3>2. Winding(s)' \/ Planned(s)'
      BY <1>6, <1>7, <2>1
    <3>3. QED BY <3>1, <3>2 DEF Course
  <2>4. QED BY <2>2, <2>3
<1>11. QED
  BY <1>1, <1>6, <1>10 DEF CascadeInv

(* At the end all is sent. *)
LEMMA CascadeEndsGoes ==
  ASSUME Inv, CascadeInv, Plain, CascadeEnds
  PROVE  CascadeInv'
<1>1. /\ UNCHANGED <<row, lease, live, h, cmds>> /\ live = Workers
      /\ api.at = "send" /\ api.n > 2 /\ api.n \in Nat /\ wound'
      /\ api'.at \in {"idle", "archive"}
  BY DEF CascadeEnds, apiFrame, CascadeInv, Inv, Typed, Apis, NoRequest, Tree
<1>2. ASSUME NEW t \in Threads PROVE Sent(t)
  <2>1. Tree[1] = "root" /\ Tree[2] = "kid" /\ 1 \in 1..Len(Tree) /\ 2 \in 1..Len(Tree)
    BY DEF Tree
  <2>2. 1 < api.n /\ 2 < api.n
    BY <1>1
  <2>3. QED BY <2>1, <2>2 DEF Sent, Threads
<1>3. ASSUME NEW t \in Threads PROVE Local(t)' /\ Winding(t)'
  BY <1>1, <1>2, QuietGoes DEF CascadeInv, Course
<1>4. QED
  BY <1>1, <1>3 DEF CascadeInv, Course

LEMMA ArchiveGoes ==
  ASSUME Inv, CascadeInv, Plain, Archive
  PROVE  CascadeInv'
<1>1. /\ UNCHANGED <<lease, live, h, cmds, wound>> /\ api'.at = "idle"
      /\ row \in [Threads -> Rows]
  BY DEF Archive, apiFrame, NoRequest, Inv, Typed
<1>2. ASSUME NEW t \in Threads
      PROVE  row'[t].status = row[t].status /\ row'[t].gen = row[t].gen
  BY <1>1 DEF Archive, Rows
<1>3. ASSUME NEW t \in Threads PROVE Local(t)' /\ (Winding(t) => Winding(t)')
  BY <1>1, <1>2, LeftAlone DEF CascadeInv
<1>4. QED
  BY <1>1, <1>3, NoListGoes

LEMMA DeleteGoes ==
  ASSUME Inv, Inv', CascadeInv, Plain, Delete
  PROVE  CascadeInv'
<1>1. /\ \A t \in Threads : lease'[t] = NoLease
      /\ UNCHANGED <<live, h, api, wound>> /\ api.at = "idle"
  BY DEF Delete
<1>2. ASSUME NEW t \in Threads PROVE Local(t)' /\ Winding(t)'
  <2>1. \A w \in Workers : Doing(w, t)'
    BY <1>1 DEF CascadeInv, Local, Doing
  <2>2. QED BY <1>1, <2>1, Unleased
<1>3. QED
  BY <1>1, <1>2, NoListGoes

LEMMA RequestsGo ==
  ASSUME Inv, Inv', CascadeInv, Plain, Plain', Requests \/ Cascade \/ SendFails
  PROVE  CascadeInv'
<1>1. ASSUME NEW kind \in {"resume", "cancel"}, Submit("root", kind) PROVE CascadeInv'
  <2>1. UNCHANGED <<row, lease, live, h, api, wound>> /\ cmds \subseteq cmds'
        /\ api.at = "idle"
    BY <1>1 DEF Submit, apiFrame, Publish
  <2>2. QED BY <2>1, QuietGoes, NoListGoes
<1>2. CASE SendFails
  <2>1. UNCHANGED <<row, lease, live, h, cmds, wound>> /\ api'.at = "idle"
    BY <1>2 DEF SendFails, apiFrame, NoRequest
  <2>2. QED BY <2>1, QuietGoes, NoListGoes
<1>3. QED
  BY <1>1, <1>2, CreateGoes, ListTreeGoes, DeleteGoes, SendNextGoes, CascadeEndsGoes,
     ArchiveGoes DEF Requests, Cascade

(* A handler at rest has nothing of its last command. *)
Resting == \A w \in Workers, t \in Threads : At(w, t, "idle") => h[w][t] = Idle

LEMMA AlwaysResting == Spec => []Resting
<1>1. Init => Resting
  BY DEF Init, Resting
<1>2. Inv /\ Resting /\ [Next]_vars => Resting'
  <2> SUFFICES ASSUME Inv, Resting, [Next]_vars PROVE Resting'
    OBVIOUS
  <2>1. ASSUME UNCHANGED h PROVE Resting'
    BY <2>1 DEF Resting, At
  <2>2. ASSUME NEW w \in Workers, NEW t \in Threads, NEW x \in Stands,
               h' = [h EXCEPT ![w][t] = x], x.at # "idle" \/ x = Idle
        PROVE  Resting'
    BY <2>2, HandlerMoves DEF Inv, Resting, At
  <2>3. ASSUME NEW w \in Workers, NEW t \in Threads, Return(w, t) PROVE Resting'
    BY <2>2, <2>3, Constants DEF Return
  <2>4. ASSUME NEW w \in Workers, NEW c \in cmds, Take(w, c) PROVE Resting'
    <3> DEFINE r == IF There(c.thread) THEN row[c.thread] ELSE [NoRow EXCEPT !.status = "new"]
               x == [at |-> CASE c.kind = "cancel" -> "cancel"
                              [] c.kind = "disconnect" -> "release"
                              [] OTHER -> "claim",
                     cmd |-> c, meta |-> r]
    <3>1. c \in Commands /\ c.thread \in Threads
      BY DEF Inv, Typed, Commands
    <3>2. r \in Rows
      BY <3>1 DEF Inv, Typed, NoRow, Rows, Statuses
    <3>3. x \in Stands /\ x.at # "idle"
      BY <3>1, <3>2 DEF Stands, Places
    <3>4. h' = [h EXCEPT ![w][c.thread] = x]
      BY <2>4 DEF Take
    <3> HIDE DEF x
    <3>5. QED BY <2>2, <3>1, <3>3, <3>4
  <2>5. ASSUME NEW w \in Workers, NEW t \in Threads, Claim(w, t) PROVE Resting'
    <3>1. CASE Done(w, t)
      BY <2>3, <3>1 DEF Done
    <3>2. ASSUME NEW gen, h' = [h EXCEPT ![w][t] = [@ EXCEPT !.at = "save", !.meta.owner = w,
                                                           !.meta.gen = gen]]
          PROVE  Resting'
      BY <3>2 DEF Resting, At, Inv, Typed, Stands
    <3>3. QED BY <2>5, <3>1, <3>2 DEF Claim
  <2>6. ASSUME NEW w \in Workers, NEW t \in Threads, BeginTurn(w, t) PROVE Resting'
    <3>1. CASE Done(w, t)
      BY <2>3, <3>1 DEF Done
    <3>2. ASSUME NEW m, h' = [h EXCEPT ![w][t] = [@ EXCEPT !.at = "turn", !.meta = m]]
          PROVE  Resting'
      BY <3>2 DEF Resting, At, Inv, Typed, Stands
    <3>3. QED BY <2>6, <3>1, <3>2 DEF BeginTurn
  <2>7. ASSUME NEW w \in Workers, NEW t \in Threads, Cancel(w, t) PROVE Resting'
    BY <2>7 DEF Cancel, Goto, Resting, At, Inv, Typed, Stands
  <2>8. ASSUME NEW w \in Workers, NEW t \in Threads, Handle(w, t) PROVE Resting'
    BY <2>1, <2>3, <2>4, <2>5, <2>6, <2>7, <2>8
       DEF Handle, Refuse, Release, EndTurn, EndChildTurn, Done, Threads
  <2>9. ASSUME NEW w \in Workers, Crash(w) PROVE Resting'
    BY <2>9 DEF Crash, Resting, At, Inv, Typed
  <2>10. ASSUME NEW w \in Workers, Spawn(w) \/ \E t \in Threads : Sweep(w, t)
         PROVE  Resting'
    BY <2>1, <2>3, <2>10 DEF Spawn, Sweep, Threads
  <2>11. CASE Requests \/ Cascade \/ SendFails \/ UNCHANGED vars
    BY <2>1, <2>11 DEF Requests, Cascade, vars, apiFrame, CreateThread, CreateFails, Submit,
       ListTree, Delete, SendNext, SendFails, CascadeEnds, Archive
  <2>12. QED BY <2>8, <2>9, <2>10, <2>11 DEF Next
<1>3. QED
  BY <1>1, <1>2, AlwaysInv, PTL DEF Spec

LEMMA CascadeInvInit == Init => CascadeInv
<1> SUFFICES ASSUME Init PROVE CascadeInv
  OBVIOUS
<1>1. ASSUME NEW t \in Threads PROVE lease[t] = NoLease /\ ~LeaseLive(t)
  BY Constants, NamesAreFree DEF Init, LeaseLive
<1>2. ASSUME NEW t \in Threads, NEW w \in Workers PROVE h[w][t].at = "idle"
  BY Constants DEF Init
<1>3. ASSUME NEW t \in Threads PROVE Local(t)
  BY <1>1, <1>2 DEF Local, Known, Working, Doing
<1>4. ASSUME NEW t \in Threads PROVE Course(t)
  BY <1>1 DEF Init, NoRequest, Course, Winding
<1>5. live = Workers /\ api.at = "idle"
  BY DEF Init, NoRequest
<1>6. QED
  BY <1>3, <1>4, <1>5 DEF CascadeInv

LEMMA CascadeInvNext == Inv /\ CascadeInv /\ [Next]_vars => CascadeInv'
<1> SUFFICES ASSUME Inv, CascadeInv, [Next]_vars, Plain' PROVE CascadeInv'
  BY DEF CascadeInv
<1>1. Plain /\ Inv' /\ live = Workers /\ \A t \in Threads : Local(t)
  BY PlainBefore, InvNext DEF CascadeInv
<1>2. CASE Requests \/ Cascade \/ SendFails
  BY <1>1, <1>2, RequestsGo
<1>3. ASSUME NEW w \in Workers, NEW t \in Threads, Handle(w, t) PROVE CascadeInv'
  <2>1. UNCHANGED <<live, api, wound>>
    BY <1>3 DEF Handle, frame, Take, Refuse, Claim, BeginTurn, Cancel, Release, EndTurn,
                EndChildTurn
  <2>2. \A s \in Threads : Goes(s)
    BY <1>1, <1>3, HandleGoes, OthersGo
  <2>3. QED BY <1>1, <2>1, <2>2, CourseGoes
<1>4. ASSUME NEW w \in Workers, NEW t \in Threads, Sweep(w, t) PROVE CascadeInv'
  <2>1. UNCHANGED <<row, lease, live, h, api, wound>> /\ cmds \subseteq cmds'
    BY <1>4 DEF Sweep, Publish
  <2>2. ASSUME NEW s \in Threads PROVE Goes(s)
    <3>1. Local(s)' /\ (Winding(s) => Winding(s)')
      BY <1>1, <2>1, QuietGoes
    <3>2. Planned(s) => Planned(s)'
      BY <2>1 DEF Planned
    <3>3. QED BY <3>1, <3>2 DEF Goes
  <2>3. QED BY <1>1, <2>1, <2>2, CourseGoes
<1>5. ASSUME NEW w \in Workers, Spawn(w) PROVE CascadeInv'
  <2>1. UNCHANGED <<live, api, wound>>
    BY <1>5 DEF Spawn
  <2>2. \A s \in Threads : Goes(s)
    BY <1>1, <1>5, SpawnGoes DEF Threads
  <2>3. QED BY <1>1, <2>1, <2>2, CourseGoes
<1>6. ASSUME NEW w \in Workers, Crash(w) PROVE FALSE
  BY <1>6, OddIsNot DEF Crash
<1>7. CASE UNCHANGED vars
  BY <1>7 DEF vars, CascadeInv, Local, Known, Working, Doing, Foreign, Course, Winding,
              Ending, Ends, Planned, Sent, LeaseLive, Plain
<1>8. QED
  BY <1>2, <1>3, <1>4, <1>5, <1>6, <1>7 DEF Next

(* When all is settled after a cascade no thread of the tree is held, for   *)
(* any number of workers and requests, and however turns ended and reports  *)
(* arrived meanwhile: cascadeDisconnectSession leaves no worker with live   *)
(* sockets of a thread that the user thinks is gone, unless a thread began  *)
(* a turn or took a lease that it had not seen, its command was dropped as  *)
(* a repetition, a cancel was handled beside the holder, or a worker died.  *)
THEOREM CascadeReachesAll == Spec => []CascadeWindsDown
<1>1. Inv /\ CascadeInv /\ Resting => CascadeWindsDown
  <2> SUFFICES ASSUME Inv, CascadeInv, Resting, Settled, wound, Plain,
                      NEW t \in Threads, LeaseLive(t)
               PROVE  FALSE
    BY DEF CascadeWindsDown, Plain
  <2>1. Winding(t) /\ live = Workers
    BY DEF CascadeInv, Course
  <2>2. \A v \in Workers : h[v][t].at = "idle" /\ ~Ending(v, t)
    BY DEF Settled, At, Ending
  <2>3. PICK c \in cmds : Ends(c, t)
    BY <2>1, <2>2 DEF Winding
  <2> DEFINE w == lease[t].worker
  <2>4. w \in Workers /\ w \in live
    BY <2>1 DEF LeaseLive
  <2>5. c.thread = t /\ c.to \in {w, Anyone}
    BY <2>3 DEF Ends
  <2>6. PICK v \in Workers : h[v][t].cmd = c
    BY <2>2, <2>4, <2>5 DEF Settled, Deliverable, At
  <2>7. c.kind = "none"
    BY <2>2, <2>6 DEF Resting, At, Idle, NoCommand
  <2>8. QED BY <2>3, <2>7 DEF Ends
<1>2. Spec => []CascadeInv
  BY CascadeInvInit, CascadeInvNext, AlwaysInv, PTL DEF Spec
<1>3. QED
  BY <1>1, <1>2, AlwaysInv, AlwaysResting, PTL
-----------------------------------------------------------------------------
(* Orphans and the attempts of the sweep.  A thread is an orphan while it  *)
(* is in the middle of something and nobody's; the attempts that a worker  *)
(* has for it are counted whether they help or not, so what matters is     *)
(* that the command of the first one is neither refused nor lost.          *)
Orphan(t) == row[t].status \in Active /\ ~LeaseLive(t)
Tried(t) == \E w \in Workers : tries[w][t] > 0

(* A recovery under way that no handler of it refuses.                     *)
Recovers(c, t) == /\ c.kind = "recover" /\ c.thread = t /\ c.to = Anyone
                  /\ c.gen \in {0, row[t].gen}
Attended == \A t \in Threads : Tried(t) /\ Orphan(t) => \E c \in cmds : Recovers(c, t)

(* A handler that saves a row whole knows the generation of its lease; one *)
(* that lets a thread go does not serve a recovery.                        *)
Holding(w, t) == h[w][t].at \in {"save", "turn"} => h[w][t].meta.gen = lease[t].gen
Serving(w, t) == /\ h[w][t].at # "idle" => h[w][t].cmd.thread = t
                 /\ h[w][t].at \in {"cancel", "release"} => h[w][t].cmd.kind # "recover"

(* The row in the middle of something agrees with the lease; what sweeps   *)
(* have published is counted.                                              *)
Agreed(t) == row[t].status \in Active => live # {} /\ lease[t].gen \in {0, row[t].gen}
Counted(t) == \A g \in Nat, s \in Statuses : <<"recover", t, g, s>> \in ids => Tried(t)

SweepInv ==
  /\ tries \in [Workers -> [Threads -> Nat]]
  /\ \A t \in Threads : Agreed(t) /\ Counted(t)
  /\ \A w \in Workers, t \in Threads : Holding(w, t) /\ Serving(w, t)

LEMMA SweepInvInit == Init => SweepInv
<1> SUFFICES ASSUME Init PROVE SweepInv
  OBVIOUS
<1>1. tries \in [Workers -> [Threads -> Nat]]
  BY DEF Init
<1>2. \A t \in Threads : Agreed(t) /\ Counted(t)
  BY DEF Init, NoRow, Active, Agreed, Counted
<1>3. \A w \in Workers, t \in Threads : Holding(w, t) /\ Serving(w, t)
  BY Constants DEF Init, Holding, Serving
<1>4. QED
  BY <1>1, <1>2, <1>3 DEF SweepInv

(* No step but a sweep's publishes a recovery.                             *)
NoNewRecovery == \A t \in Threads, g \in Nat, s \in Statuses :
                   <<"recover", t, g, s>> \in ids' => <<"recover", t, g, s>> \in ids

LEMMA OtherIds ==
  ASSUME NEW kind, kind # "recover", NEW a, NEW b, NEW d, NEW new,
         new = <<kind, a, b, d>>, ids' = ids \cup {new}
  PROVE  NoNewRecovery
BY DEF NoNewRecovery

(* Steps of the API, and of a handler that only refuses.                   *)
LEMMA QuietSweeps ==
  ASSUME SweepInv, UNCHANGED <<lease, live, h, tries>>, NoNewRecovery,
         \A t \in Threads : row'[t].status \in Active
                              => row[t].status \in Active /\ row'[t].gen = row[t].gen
  PROVE  SweepInv'
<1>1. \A t \in Threads : Agreed(t)'
  BY DEF SweepInv, Agreed
<1>2. \A t \in Threads : Counted(t)'
  BY DEF SweepInv, Counted, NoNewRecovery, Tried
<1>3. \A w \in Workers, t \in Threads : Holding(w, t)' /\ Serving(w, t)'
  BY DEF SweepInv, Holding, Serving
<1>4. QED
  BY <1>1, <1>2, <1>3 DEF SweepInv

(* What has to be seen to of a handler's step.                             *)
LEMMA HandlerSweeps ==
  ASSUME SweepInv, NEW w \in Workers, NEW t \in Threads,
         UNCHANGED <<live, tries>>, NoNewRecovery,
         \A v \in Workers, s \in Threads : (v # w \/ s # t) => h'[v][s] = h[v][s],
         \A s \in Threads : s # t => /\ lease'[s] = lease[s]
                                     /\ row'[s].status \in Active => row'[s] = row[s],
         \A v \in Workers : v # w /\ h[v][t].at \in {"save", "turn"} => lease'[t] = lease[t],
         Agreed(t)', Holding(w, t)', Serving(w, t)'
  PROVE  SweepInv'
<1>1. \A s \in Threads : Agreed(s)'
  BY DEF SweepInv, Agreed
<1>2. \A s \in Threads : Counted(s)'
  BY DEF SweepInv, Counted, NoNewRecovery, Tried
<1>3. ASSUME NEW v \in Workers, NEW s \in Threads, v # w \/ s # t
      PROVE  Holding(v, s)' /\ Serving(v, s)'
  <2>1. h'[v][s].at \in {"save", "turn"} => lease'[s] = lease[s]
    BY <1>3
  <2>2. QED BY <1>3, <2>1 DEF SweepInv, Holding, Serving
<1>4. QED
  BY <1>1, <1>2, <1>3 DEF SweepInv

LEMMA RequestsSweep ==
  ASSUME Inv, SweepInv, Requests \/ Cascade \/ SendFails
  PROVE  SweepInv'
<1> DEFINE new == [NoRow EXCEPT !.status = "new"]
<1>1. CASE CreateThread \/ CreateFails
  <2>1. UNCHANGED <<lease, live, h, tries>> /\ ids' = ids \cup {Start("root").id}
    BY <1>1 DEF CreateThread, CreateFails, apiFrame, Publish
  <2>2. NoNewRecovery
    BY <2>1, OtherIds DEF Start
  <2>3. \A t \in Threads : row'[t].status \in Active => row'[t] = row[t]
    BY <1>1 DEF CreateThread, CreateFails, Threads, NoRow, Active, Inv, Typed
  <2>4. QED BY <2>1, <2>2, <2>3, QuietSweeps
<1>2. ASSUME NEW kind \in {"resume", "cancel"}, Submit("root", kind) PROVE SweepInv'
  <2>1. UNCHANGED <<row, lease, live, h, tries>> /\ ids' = ids \cup {<<kind, "root", left, "once">>}
    BY <1>2 DEF Submit, apiFrame, Publish
  <2>2. NoNewRecovery
    BY <2>1, OtherIds
  <2>3. QED BY <2>1, <2>2, QuietSweeps
<1>3. CASE SendNext
  <2> DEFINE t == Tree[api.n]
             item == api.list[t]
             id == <<item.kind, t, item.gen, "cascade">>
  <2>1. UNCHANGED <<row, lease, live, h, tries>> /\ (ids' = ids \/ ids' = ids \cup {id})
    BY <1>3 DEF SendNext, apiFrame, Publish
  <2>2. item.kind # "recover"
    BY <1>3 DEF SendNext, Tree, Threads, Inv, Typed, Apis, Lists
  <2>3. NoNewRecovery
    <3> HIDE DEF t, item
    <3>1. CASE ids' = ids
      BY <3>1 DEF NoNewRecovery
    <3>2. CASE ids' = ids \cup {id}
      BY <2>2, <3>2, OtherIds
    <3>3. QED BY <2>1, <3>1, <3>2
  <2>4. QED BY <2>1, <2>3, QuietSweeps
<1>4. CASE SendFails \/ CascadeEnds \/ \E op \in {"disconnect", "archive"} : ListTree(op)
  <2>1. UNCHANGED <<row, lease, live, h, tries, ids>>
    BY <1>4 DEF SendFails, CascadeEnds, ListTree, apiFrame
  <2>2. QED BY <2>1, QuietSweeps DEF NoNewRecovery
<1>5. CASE Archive
  <2>1. UNCHANGED <<lease, live, h, tries, ids>>
    BY <1>5 DEF Archive, apiFrame
  <2>2. \A t \in Threads : row'[t].status = row[t].status /\ row'[t].gen = row[t].gen
    BY <1>5 DEF Archive, Inv, Typed, Rows
  <2>3. QED BY <2>1, <2>2, QuietSweeps DEF NoNewRecovery
<1>6. CASE Delete
  <2>1. /\ row' = [t \in Threads |-> NoRow] /\ UNCHANGED <<live, h, tries, ids>>
        /\ \A w \in Workers, t \in Threads : h[w][t].at \notin {"save", "turn"}
    BY <1>6, NoTurnWhenIdle DEF Delete
  <2>2. \A t \in Threads : Agreed(t)' /\ Counted(t)'
    BY <2>1 DEF SweepInv, Agreed, NoRow, Active, Counted, Tried
  <2>3. \A w \in Workers, t \in Threads : Holding(w, t)' /\ Serving(w, t)'
    BY <2>1 DEF SweepInv, Holding, Serving
  <2>4. QED BY <2>1, <2>2, <2>3 DEF SweepInv
<1>7. QED
  BY <1>1, <1>2, <1>3, <1>4, <1>5, <1>6 DEF Requests, Cascade

(* What a handler's step leaves, for HandlerSweeps.                        *)
LEMMA HandlerFrame ==
  ASSUME Inv, NEW w \in Workers, NEW t \in Threads, Handle(w, t)
  PROVE  /\ UNCHANGED <<live, tries, ids>> /\ NoNewRecovery
         /\ \A v \in Workers, s \in Threads : s # t => h'[v][s] = h[v][s]
         /\ \A s \in Threads : s # t => /\ lease'[s] = lease[s] /\ row'[s] = row[s]
<1>1. UNCHANGED <<live, tries, ids>>
  BY DEF Handle, frame, Take, Refuse, Claim, BeginTurn, Cancel, Release, EndTurn, EndChildTurn
<1>2. QED
  BY <1>1, OthersUntouched DEF NoNewRecovery

LEMMA TakeSweeps ==
  ASSUME Inv, SweepInv, NEW w \in Workers, NEW c \in cmds, Take(w, c)
  PROVE  SweepInv'
<1> DEFINE t == c.thread
           r == IF There(t) THEN row[t] ELSE [NoRow EXCEPT !.status = "new"]
           x == [at |-> CASE c.kind = "cancel" -> "cancel"
                          [] c.kind = "disconnect" -> "release"
                          [] OTHER -> "claim",
                 cmd |-> c, meta |-> r]
<1>1. c \in Commands /\ t \in Threads
  BY DEF Take, Deliverable, Inv, Typed, Commands
<1>2. Handle(w, t)
  BY <1>1 DEF Handle
<1>3. h' = [h EXCEPT ![w][t] = x] /\ row' = [row EXCEPT ![t] = r] /\ lease' = lease
  BY DEF Take
<1>4. /\ x.at \notin {"save", "turn"} /\ x.cmd = c
      /\ x.at \in {"cancel", "release"} => c.kind # "recover"
  OBVIOUS
<1>5. r.status \in Active => r = row[t]
  BY DEF NoRow, Active
<1> HIDE DEF x, r, t
<1>6. /\ h'[w][t] = x /\ \A v \in Workers : v # w => h'[v][t] = h[v][t]
      /\ row'[t] = r
  BY <1>1, <1>3 DEF Inv, Typed
<1>7. Agreed(t)'
  <2>1. live' = live
    BY DEF Take, frame
  <2>2. QED BY <1>1, <1>3, <1>5, <1>6, <2>1 DEF SweepInv, Agreed
<1>8. Holding(w, t)' /\ Serving(w, t)'
  BY <1>4, <1>6 DEF Holding, Serving, t
<1>9. QED
  BY <1>1, <1>2, <1>3, <1>6, <1>7, <1>8, HandlerFrame, HandlerSweeps

LEMMA ClaimSweeps ==
  ASSUME Inv, SweepInv, NEW w \in Workers, NEW t \in Threads, Claim(w, t)
  PROVE  SweepInv'
<1>1. Handle(w, t) /\ w \in live
  BY WorkerLives DEF Handle, Claim, At
<1>2. live' = live /\ h[w][t].at = "claim"
  BY DEF Claim, frame, At
<1>3. CASE There(t) /\ (lease[t].worker = w \/ ~LeaseLive(t))
  <2> DEFINE holder == IF lease[t] = NoLease THEN row[t].owner ELSE lease[t].worker
             seen == IF lease[t] = NoLease THEN row[t].gen ELSE lease[t].gen
             gen == IF holder # w \/ seen = 0 THEN seen + 1 ELSE seen
  <2>1. /\ lease' = [lease EXCEPT ![t] = [worker |-> w, gen |-> gen]]
        /\ row' = [row EXCEPT ![t].owner = w, ![t].gen = gen]
        /\ h' = [h EXCEPT ![w][t] = [h[w][t] EXCEPT !.at = "save", !.meta.owner = w,
                                                    !.meta.gen = gen]]
    BY <1>3 DEF Claim
  <2> HIDE DEF gen
  <2>2. lease'[t].gen = gen
    BY <2>1 DEF Inv, Typed
  <2>3. row'[t].gen = gen
    BY <2>1 DEF Inv, Typed, Rows
  <2>4. /\ h'[w][t].at = "save" /\ h'[w][t].meta.gen = gen /\ h'[w][t].cmd = h[w][t].cmd
        /\ \A v \in Workers : v # w => h'[v][t] = h[v][t]
    <3> DEFINE x == [h[w][t] EXCEPT !.at = "save", !.meta.owner = w, !.meta.gen = gen]
    <3>1. h[w][t] \in Stands /\ h \in [Workers -> [Threads -> Stands]]
      BY DEF Inv, Typed
    <3>2. x.at = "save" /\ x.meta.gen = gen /\ x.cmd = h[w][t].cmd
      BY <3>1 DEF Stands, Rows
    <3>3. h' = [h EXCEPT ![w][t] = x]
      BY <2>1
    <3> HIDE DEF x
    <3>4. QED BY <3>1, <3>2, <3>3
  <2>5. Agreed(t)' /\ Holding(w, t)'
    BY <1>1, <1>2, <2>2, <2>3, <2>4 DEF Agreed, Holding
  <2>6. Serving(w, t)'
    BY <1>2, <2>4 DEF SweepInv, Serving
  <2>7. \A v \in Workers : v # w => h[v][t].at \notin {"save", "turn"}
    BY <1>3, WorkerLives DEF Inv, Owners, Owns, LeaseLive
  <2>8. QED
    BY <1>1, <2>4, <2>5, <2>6, <2>7, HandlerFrame, HandlerSweeps
<1>4. CASE ~(There(t) /\ (lease[t].worker = w \/ ~LeaseLive(t)))
  <2>1. Return(w, t) /\ UNCHANGED <<row, lease>>
    BY <1>4 DEF Claim, Done
  <2>2. /\ h'[w][t] = Idle
        /\ \A v \in Workers, s \in Threads : (v # w \/ s # t) => h'[v][s] = h[v][s]
    BY <2>1, ReturnStands
  <2>3. Agreed(t)' /\ Holding(w, t)' /\ Serving(w, t)'
    BY <1>2, <2>1, <2>2, Constants DEF SweepInv, Agreed, Holding, Serving
  <2>4. QED
    BY <1>1, <2>1, <2>2, <2>3, HandlerFrame, HandlerSweeps
<1>5. QED
  BY <1>3, <1>4

(* A handler that returns. *)
LEMMA ReturnSweeps ==
  ASSUME Inv, SweepInv, NEW w \in Workers, NEW t \in Threads, Handle(w, t), Return(w, t),
         Agreed(t)', lease'[t] = lease[t] \/ lease[t].worker = w
  PROVE  SweepInv'
<1>1. /\ h'[w][t] = Idle
      /\ \A v \in Workers, s \in Threads : (v # w \/ s # t) => h'[v][s] = h[v][s]
  BY ReturnStands
<1>2. Holding(w, t)' /\ Serving(w, t)'
  BY <1>1, Constants DEF Holding, Serving
<1>3. \A v \in Workers : v # w /\ h[v][t].at \in {"save", "turn"} => lease'[t] = lease[t]
  BY DEF Inv, Owners, Owns
<1>4. QED
  BY <1>1, <1>2, <1>3, HandlerFrame, HandlerSweeps

LEMMA SavedKeepsGen ==
  ASSUME Inv, NEW w \in Workers, NEW t \in Threads, NEW status \in Statuses
  PROVE  /\ Saved(t, [h[w][t].meta EXCEPT !.status = status]).gen = h[w][t].meta.gen
         /\ Saved(t, [h[w][t].meta EXCEPT !.status = status]).status = status
<1>1. h[w][t].meta \in Rows
  BY DEF Inv, Typed, Stands
<1>2. QED
  BY <1>1 DEF Saved, Rows

LEMMA BeginTurnSweeps ==
  ASSUME Inv, SweepInv, NEW w \in Workers, NEW t \in Threads, BeginTurn(w, t)
  PROVE  SweepInv'
<1> DEFINE kind == h[w][t].cmd.kind
           meta == h[w][t].meta
           status == CASE kind = "recover" /\ meta.status = "waiting_children" -> meta.status
                       [] kind = "recover" -> "reconciling"
                       [] OTHER -> "running"
           saved == Saved(t, [meta EXCEPT !.status = status])
           x == [h[w][t] EXCEPT !.at = "turn", !.meta = saved]
<1>1. Handle(w, t) /\ w \in live /\ h[w][t].at = "save" /\ live' = live
  BY WorkerLives DEF Handle, BeginTurn, At, frame
<1>2. status \in Statuses
  BY DEF Statuses, Active
<1>3. row' = [row EXCEPT ![t] = saved] /\ lease' = lease
  BY DEF BeginTurn
<1>4. h[w][t].meta.gen = lease[t].gen
  BY <1>1 DEF SweepInv, Holding
<1> HIDE DEF status
<1>5. saved.gen = lease[t].gen
  BY <1>2, <1>4, SavedKeepsGen
<1>6. (Done(w, t) \/ h' = [h EXCEPT ![w][t] = x])
  BY DEF BeginTurn, status
<1> HIDE DEF saved
<1>7. row'[t] = saved
  BY <1>3 DEF Inv, Typed
<1>8. Agreed(t)'
  BY <1>1, <1>3, <1>5, <1>7 DEF Agreed
<1>9. CASE Done(w, t)
  BY <1>1, <1>3, <1>8, <1>9, ReturnSweeps DEF Done
<1>10. CASE h' = [h EXCEPT ![w][t] = x]
  <2>1. h[w][t] \in Stands /\ h \in [Workers -> [Threads -> Stands]]
    BY DEF Inv, Typed
  <2>2. x.at = "turn" /\ x.meta = saved /\ x.cmd = h[w][t].cmd
    BY <2>1 DEF Stands
  <2> HIDE DEF x
  <2>3. h'[w][t] = x /\ \A v \in Workers : v # w => h'[v][t] = h[v][t]
    BY <1>10, <2>1
  <2>4. Holding(w, t)'
    BY <1>3, <1>5, <2>2, <2>3 DEF Holding
  <2>5. Serving(w, t)'
    BY <1>1, <2>2, <2>3 DEF SweepInv, Serving
  <2>6. QED
    BY <1>1, <1>3, <1>8, <2>3, <2>4, <2>5, HandlerFrame, HandlerSweeps
<1>11. QED
  BY <1>6, <1>9, <1>10

LEMMA EndTurnSweeps ==
  ASSUME Inv, SweepInv, NEW w \in Workers, EndTurn(w)
  PROVE  SweepInv'
<1>1. "root" \in Threads /\ Handle(w, "root") /\ "ready" \in Statuses /\ "ready" \notin Active
  BY DEF Threads, Handle, Statuses, Active
<1>2. row'["root"].status = "ready" /\ lease' = lease
  BY <1>1, SavedKeepsGen DEF EndTurn, Inv, Typed
<1>3. Agreed("root")'
  BY <1>1, <1>2 DEF Agreed
<1>4. QED
  BY <1>1, <1>2, <1>3, ReturnSweeps DEF EndTurn, Done

LEMMA EndChildTurnSweeps ==
  ASSUME Inv, SweepInv, NEW w \in Workers, EndChildTurn(w)
  PROVE  SweepInv'
<1> DEFINE meta == h[w]["kid"].meta
           ready == [meta EXCEPT !.status = "ready"]
           over == [meta EXCEPT !.status = "completed", !.owner = Nobody]
<1>1. "kid" \in Threads /\ Handle(w, "kid") /\ h[w]["kid"].at = "turn"
  BY DEF Threads, Handle, EndChildTurn, At
<1>2. lease["kid"].worker = w
  BY <1>1 DEF Inv, Owners, Owns
<1>3. meta \in Rows
  BY <1>1 DEF Inv, Typed, Stands
<1>4. ready.status = "ready" /\ over.status = "completed"
  BY <1>3 DEF Rows
<1>5. row' = [row EXCEPT !["kid"] = ready] \/ row' = [row EXCEPT !["kid"] = over]
  BY DEF EndChildTurn
<1> HIDE DEF ready, over
<1>6. row'["kid"].status \notin Active
  BY <1>1, <1>4, <1>5 DEF Inv, Typed, Active
<1>7. Agreed("kid")'
  BY <1>6 DEF Agreed
<1>8. QED
  BY <1>1, <1>2, <1>7, ReturnSweeps DEF EndChildTurn

LEMMA CancelSweeps ==
  ASSUME Inv, SweepInv, NEW w \in Workers, NEW t \in Threads, Cancel(w, t)
  PROVE  SweepInv'
<1> DEFINE x == [h[w][t] EXCEPT !.at = "release"]
<1>1. Handle(w, t) /\ h[w][t].at = "cancel" /\ lease' = lease
  BY DEF Handle, Cancel, At
<1>2. row'[t].status = "cancelled"
  <2>1. "cancelled" \in Statuses
    BY DEF Statuses, Terminal
  <2>2. QED BY <2>1, SavedKeepsGen DEF Cancel, Inv, Typed
<1>3. h[w][t] \in Stands /\ h \in [Workers -> [Threads -> Stands]]
  BY DEF Inv, Typed
<1>4. x.at = "release" /\ x.cmd = h[w][t].cmd /\ h' = [h EXCEPT ![w][t] = x]
  BY <1>3 DEF Cancel, Goto, Stands
<1> HIDE DEF x
<1>5. h'[w][t] = x /\ \A v \in Workers : v # w => h'[v][t] = h[v][t]
  BY <1>3, <1>4
<1>6. Agreed(t)' /\ Holding(w, t)'
  BY <1>2, <1>4, <1>5 DEF Agreed, Active, Holding
<1>7. Serving(w, t)'
  BY <1>1, <1>4, <1>5 DEF SweepInv, Serving
<1>8. QED
  BY <1>1, <1>5, <1>6, <1>7, HandlerFrame, HandlerSweeps

LEMMA ReleaseSweeps ==
  ASSUME Inv, SweepInv, NEW w \in Workers, NEW t \in Threads, Release(w, t)
  PROVE  SweepInv'
<1>1. Handle(w, t) /\ Return(w, t) /\ live' = live
  BY DEF Handle, Release, Done, frame
<1>2. CASE lease[t] = [worker |-> w, gen |-> h[w][t].meta.gen]
  <2>1. /\ lease'[t] = NoLease /\ lease[t].worker = w
        /\ row'[t].status = row[t].status
    BY <1>2 DEF Release, Inv, Typed, Rows
  <2>2. Agreed(t)'
    BY <1>1, <2>1 DEF SweepInv, Agreed, NoLease
  <2>3. QED BY <1>1, <2>1, <2>2, ReturnSweeps
<1>3. CASE lease[t] # [worker |-> w, gen |-> h[w][t].meta.gen]
  <2>1. UNCHANGED <<lease, row>>
    BY <1>3 DEF Release
  <2>2. Agreed(t)'
    BY <1>1, <2>1 DEF SweepInv, Agreed
  <2>3. QED BY <1>1, <2>1, <2>2, ReturnSweeps
<1>4. QED
  BY <1>2, <1>3

(* The root's turn opens a group: the child is new, and nobody's.          *)
LEMMA SpawnStep ==
  ASSUME Inv, NEW w \in Workers, Spawn(w)
  PROVE  /\ UNCHANGED <<live, tries, lease>> /\ ids' = ids \cup {<<"start", "kid", 0, "once">>}
         /\ row'["root"].status = "waiting_children" /\ row'["kid"].status = "new"
         /\ row'["root"].gen = h[w]["root"].meta.gen
         /\ h[w]["root"].at = "turn" /\ lease["root"].worker = w /\ w \in live
         /\ Return(w, "root") /\ cmds' = (cmds \ {h[w]["root"].cmd}) \cup {Start("kid")}
<1> DEFINE saved == Saved("root", [h[w]["root"].meta EXCEPT !.status = "waiting_children"])
           new == [NoRow EXCEPT !.status = "new"]
<1>1. "root" \in Threads /\ "kid" \in Threads /\ "waiting_children" \in Statuses
  BY DEF Threads, Statuses, Active
<1>2. saved.status = "waiting_children" /\ saved.gen = h[w]["root"].meta.gen
  BY <1>1, SavedKeepsGen
<1>3. new.status = "new"
  BY DEF NoRow
<1>4. row' = [row EXCEPT !["root"] = saved, !["kid"] = new]
  BY DEF Spawn
<1> HIDE DEF saved, new
<1>5. row'["root"] = saved /\ row'["kid"] = new
  BY <1>1, <1>4 DEF Inv, Typed
<1>6. h[w]["root"].at = "turn" /\ w \in live
  BY <1>1, WorkerLives DEF Spawn, At
<1>7. lease["root"].worker = w
  BY <1>1, <1>6 DEF Inv, Owners, Owns
<1>8. QED
  BY <1>2, <1>3, <1>5, <1>6, <1>7 DEF Spawn, Start

LEMMA SpawnSweeps ==
  ASSUME Inv, SweepInv, NEW w \in Workers, Spawn(w)
  PROVE  SweepInv'
<1>1. "root" \in Threads /\ "kid" \in Threads /\ \A s \in Threads : s \in {"root", "kid"}
  BY DEF Threads
<1>2. /\ h'[w]["root"] = Idle
      /\ \A v \in Workers, s \in Threads : (v # w \/ s # "root") => h'[v][s] = h[v][s]
  BY <1>1, SpawnStep, ReturnStands
<1>3. NoNewRecovery
  <2>1. ids' = ids \cup {<<"start", "kid", 0, "once">>}
    BY SpawnStep
  <2>2. QED BY <2>1 DEF NoNewRecovery
<1>4. Agreed("root")'
  <2>1. h[w]["root"].meta.gen = lease["root"].gen
    BY <1>1, SpawnStep DEF SweepInv, Holding
  <2>2. QED BY <2>1, SpawnStep DEF Agreed
<1>5. Holding(w, "root")' /\ Serving(w, "root")'
  BY <1>2, Constants DEF Holding, Serving
<1>6. \A s \in Threads : s # "root" => /\ lease'[s] = lease[s]
                                       /\ row'[s].status \in Active => row'[s] = row[s]
  BY <1>1, SpawnStep DEF Active
<1>7. /\ UNCHANGED <<live, tries>>
      /\ \A v \in Workers : v # w /\ h[v]["root"].at \in {"save", "turn"}
                             => lease'["root"] = lease["root"]
  BY SpawnStep
<1>8. QED
  BY <1>1, <1>2, <1>3, <1>4, <1>5, <1>6, <1>7, HandlerSweeps

LEMMA CrashSweeps ==
  ASSUME Inv, SweepInv, NEW w \in Workers, Crash(w)
  PROVE  SweepInv'
<1>1. UNCHANGED <<row, lease, tries, ids>> /\ live' # {}
  BY DEF Crash
<1>2. /\ \A t \in Threads : h'[w][t] = Idle
      /\ \A v \in Workers : v # w => h'[v] = h[v]
  BY Constants DEF Crash, Inv, Typed
<1>3. \A t \in Threads : Agreed(t)' /\ Counted(t)'
  BY <1>1 DEF SweepInv, Agreed, Counted, Tried
<1>4. \A v \in Workers, t \in Threads : Holding(v, t)' /\ Serving(v, t)'
  BY <1>1, <1>2, Constants DEF SweepInv, Holding, Serving
<1>5. QED
  BY <1>1, <1>3, <1>4 DEF SweepInv

(* An attempt counts, and its command is published unless its id has been. *)
LEMMA SweepStep ==
  ASSUME Inv, SweepInv, NEW w \in Workers, NEW t \in Threads, Sweep(w, t)
  PROVE  /\ UNCHANGED <<row, lease, live, h, api>> /\ Orphan(t) /\ Tried(t)'
         /\ tries' \in [Workers -> [Threads -> Nat]]
         /\ \A v \in Workers, s \in Threads : (v # w \/ s # t) => tries'[v][s] = tries[v][s]
         /\ \A s \in Threads : Tried(s) => Tried(s)'
         /\ \E g \in Nat, s \in Statuses, c \in Commands :
              /\ c.id = <<"recover", t, g, s>> /\ Recovers(c, t) /\ Publish(c)
<1> DEFINE newest == IF row[t].gen > lease[t].gen THEN row[t].gen ELSE lease[t].gen
           c == [id |-> <<"recover", t, newest, row[t].status>>, kind |-> "recover",
                 thread |-> t, gen |-> lease[t].gen, to |-> Anyone]
<1>1. row[t] \in Rows /\ lease[t] \in Leases
  BY DEF Inv, Typed
<1>2. newest \in Nat /\ row[t].status \in Statuses
  BY <1>1 DEF Rows, Leases
<1>3. c.id \in Ids
  BY <1>1, <1>2 DEF Ids, Words, Kinds, Rows
<1>4. c \in Commands
  BY <1>1, <1>3 DEF Commands, Kinds, Subjects, Leases
<1>5. Publish(c)
  BY DEF Sweep
<1>6. Orphan(t)
  BY DEF Sweep, Sweeps, SweptStatuses, Orphan, Active
<1>7. Recovers(c, t)
  BY <1>6 DEF SweepInv, Agreed, Orphan, Recovers
<1>8. /\ tries' \in [Workers -> [Threads -> Nat]] /\ tries'[w][t] = tries[w][t] + 1
      /\ \A v \in Workers, s \in Threads : (v # w \/ s # t) => tries'[v][s] = tries[v][s]
  BY DEF Sweep, SweepInv
<1>9. Tried(t)'
  <2>1. tries[w][t] \in Nat
    BY DEF SweepInv
  <2>2. tries'[w][t] > 0
    BY <1>8, <2>1
  <2>3. QED BY <2>2 DEF Tried
<1>10. \A s \in Threads : Tried(s) => Tried(s)'
  BY <1>8, <1>9 DEF Tried
<1>11. \E g \in Nat, s \in Statuses, d \in Commands :
         /\ d.id = <<"recover", t, g, s>> /\ Recovers(d, t) /\ Publish(d)
  <2> HIDE DEF newest
  <2>1. c.id = <<"recover", t, newest, row[t].status>>
    OBVIOUS
  <2> HIDE DEF c
  <2>2. QED BY <1>2, <1>4, <1>5, <1>7, <2>1
<1>12. QED
  BY <1>6, <1>8, <1>9, <1>10, <1>11 DEF Sweep

LEMMA AttemptSweeps ==
  ASSUME Inv, SweepInv, NEW w \in Workers, NEW t \in Threads, Sweep(w, t)
  PROVE  SweepInv'
<1>1. /\ UNCHANGED <<row, lease, live, h>> /\ Tried(t)'
      /\ tries' \in [Workers -> [Threads -> Nat]]
      /\ \A s \in Threads : Tried(s) => Tried(s)'
  BY SweepStep
<1>2. PICK g \in Nat, s \in Statuses : ids' = ids \cup {<<"recover", t, g, s>>}
  <2>1. PICK g \in Nat, s \in Statuses, c \in Commands :
          c.id = <<"recover", t, g, s>> /\ Recovers(c, t) /\ Publish(c)
    BY SweepStep
  <2>2. ids' = ids \cup {<<"recover", t, g, s>>}
    BY <2>1 DEF Publish
  <2>3. QED BY <2>2
<1>3. \A r \in Threads : Agreed(r)'
  BY <1>1 DEF SweepInv, Agreed
<1>4. ASSUME NEW r \in Threads PROVE Counted(r)'
  <2> SUFFICES ASSUME NEW f \in Nat, NEW k \in Statuses, <<"recover", r, f, k>> \in ids'
               PROVE  Tried(r)'
    BY DEF Counted
  <2>1. CASE <<"recover", r, f, k>> \in ids
    BY <1>1, <2>1 DEF SweepInv, Counted
  <2>2. CASE <<"recover", r, f, k>> = <<"recover", t, g, s>>
    BY <1>1, <2>2
  <2>3. QED BY <1>2, <2>1, <2>2
<1>5. \A v \in Workers, r \in Threads : Holding(v, r)' /\ Serving(v, r)'
  BY <1>1 DEF SweepInv, Holding, Serving
<1>6. QED
  BY <1>1, <1>3, <1>4, <1>5 DEF SweepInv

LEMMA SweepInvNext == Inv /\ SweepInv /\ [Next]_vars => SweepInv'
<1> SUFFICES ASSUME Inv, SweepInv, [Next]_vars PROVE SweepInv'
  OBVIOUS
<1>1. CASE Requests \/ Cascade \/ SendFails
  BY <1>1, RequestsSweep
<1>2. ASSUME NEW w \in Workers, NEW c \in cmds, Refuse(w, c) PROVE SweepInv'
  BY <1>2, QuietSweeps DEF Refuse, frame, NoNewRecovery
<1>3. ASSUME NEW w \in Workers, NEW t \in Threads, Handle(w, t) PROVE SweepInv'
  BY <1>2, <1>3, TakeSweeps, ClaimSweeps, BeginTurnSweeps, CancelSweeps, ReleaseSweeps,
     EndTurnSweeps, EndChildTurnSweeps DEF Handle
<1>4. ASSUME NEW w \in Workers, NEW t \in Threads, Sweep(w, t) PROVE SweepInv'
  BY <1>4, AttemptSweeps
<1>5. ASSUME NEW w \in Workers, Spawn(w) \/ Crash(w) PROVE SweepInv'
  BY <1>5, SpawnSweeps, CrashSweeps
<1>6. CASE UNCHANGED vars
  BY <1>6, QuietSweeps DEF vars, NoNewRecovery
<1>7. QED
  BY <1>1, <1>3, <1>4, <1>5, <1>6 DEF Next

LEMMA AlwaysSweepInv == Spec => []SweepInv
  BY SweepInvInit, SweepInvNext, AlwaysInv, PTL DEF Spec

-----------------------------------------------------------------------------
(* A worker lets go of a thread in the middle of something, or dies.       *)
Loses(t) == LeaseLive(t) /\ Orphan(t)'

(* What an orphan keeps: it was one before, with the same generation, and  *)
(* the commands that recover it are all there.                             *)
StillOrphan(t) ==
  /\ Orphan(t) /\ row'[t].gen = row[t].gen
  /\ \A c \in cmds : Recovers(c, t) => c \in cmds'

LEMMA OthersCommands ==
  ASSUME SweepInv, NEW w \in Workers, NEW s \in Threads, NEW t \in Threads, s # t,
         Handle(w, s), NEW c \in cmds, c.thread = t
  PROVE  c \in cmds'
<1>1. h[w][s].at # "idle" => c # h[w][s].cmd
  BY DEF SweepInv, Serving
<1>2. QED
  BY <1>1 DEF Handle, Take, Refuse, Claim, BeginTurn, Cancel, Release, EndTurn,
              EndChildTurn, Done, At

(* A handler makes no orphan of its thread but by letting it go.           *)
LEMMA HandlerOrphans ==
  ASSUME Inv, SweepInv, NEW w \in Workers, NEW t \in Threads, Handle(w, t),
         Orphan(t)', ~Loses(t)
  PROVE  StillOrphan(t)
<1>1. live' = live
  BY HandlerFrame
<1>2. ASSUME UNCHANGED <<row, lease>> PROVE Orphan(t) /\ row'[t].gen = row[t].gen
  BY <1>1, <1>2 DEF Orphan, LeaseLive
<1>3. ASSUME w \in live, lease'[t].worker = w PROVE FALSE
  BY <1>1, <1>3 DEF Orphan, LeaseLive
<1>4. ASSUME row'[t].status \notin Active PROVE FALSE
  BY <1>4 DEF Orphan
<1>5. ASSUME NEW c \in cmds, c.thread = t, Take(w, c) PROVE StillOrphan(t)
  <2>1. There(t)
    BY <1>4, <1>5 DEF Take, NoRow, Active, Inv, Typed
  <2>2. UNCHANGED <<lease, cmds>> /\ row'[t] = row[t]
    BY <1>5, <2>1 DEF Take, Inv, Typed
  <2>3. QED BY <1>1, <2>2 DEF StillOrphan, Orphan, LeaseLive
<1>6. ASSUME NEW c \in cmds, c.thread = t, Refuse(w, c) PROVE StillOrphan(t)
  <2>1. Orphan(t) /\ row'[t].gen = row[t].gen
    BY <1>2, <1>6 DEF Refuse
  <2>2. There(t)
    BY <2>1 DEF Orphan, There, Active
  <2>3. Recovers(c, t) => Accepted(c)
    BY <2>2 DEF Recovers, Accepted
  <2>4. cmds' = cmds \ {c} /\ ~Accepted(c)
    BY <1>6 DEF Refuse
  <2>5. QED BY <2>1, <2>3, <2>4 DEF StillOrphan
<1>7. CASE Claim(w, t)
  <2>1. CASE There(t) /\ (lease[t].worker = w \/ ~LeaseLive(t))
    <3>1. w \in live
      BY <1>7, WorkerLives DEF Claim, At
    <3>2. lease'[t].worker = w
      BY <1>7, <2>1 DEF Claim, Inv, Typed
    <3>3. QED BY <1>3, <3>1, <3>2
  <2>2. CASE ~(There(t) /\ (lease[t].worker = w \/ ~LeaseLive(t)))
    <3>1. UNCHANGED <<row, lease>>
      BY <1>7, <2>2 DEF Claim
    <3>2. Orphan(t)
      BY <1>2, <3>1
    <3>3. QED BY <2>2, <3>2 DEF Orphan, There, Active
  <2>3. QED BY <2>1, <2>2
<1>8. CASE h[w][t].at \in {"save", "turn"} /\ lease' = lease
  <2>1. w \in live /\ lease[t].worker = w
    BY <1>8, WorkerLives DEF Inv, Owners, Owns
  <2>2. QED BY <1>3, <1>8, <2>1
<1>9. CASE t = "kid" /\ EndChildTurn(w)
  <2> DEFINE meta == h[w]["kid"].meta
             ready == [meta EXCEPT !.status = "ready"]
             over == [meta EXCEPT !.status = "completed", !.owner = Nobody]
  <2>1. meta \in Rows
    BY <1>9 DEF Inv, Typed, Stands
  <2>2. ready.status = "ready" /\ over.status = "completed"
    BY <2>1 DEF Rows
  <2>3. row' = [row EXCEPT !["kid"] = ready] \/ row' = [row EXCEPT !["kid"] = over]
    BY <1>9 DEF EndChildTurn
  <2> HIDE DEF ready, over
  <2>4. QED BY <1>4, <1>9, <2>2, <2>3 DEF Inv, Typed, Active
<1>10. CASE Cancel(w, t)
  <2>1. "cancelled" \in Statuses /\ "cancelled" \notin Active
    BY DEF Statuses, Terminal, Active
  <2>2. row'[t].status = "cancelled"
    BY <1>10, <2>1, SavedKeepsGen DEF Cancel, Inv, Typed
  <2>3. QED BY <1>4, <2>1, <2>2
<1>11. CASE Release(w, t)
  <2>1. CASE lease[t] = [worker |-> w, gen |-> h[w][t].meta.gen]
    <3>1. LeaseLive(t)
      BY <1>11, <2>1, WorkerLives DEF Release, At, LeaseLive
    <3>2. QED BY <3>1 DEF Loses
  <2>2. CASE lease[t] # [worker |-> w, gen |-> h[w][t].meta.gen]
    <3>1. Orphan(t) /\ row'[t].gen = row[t].gen
      BY <1>2, <1>11, <2>2 DEF Release
    <3>2. h[w][t].cmd.kind # "recover" /\ cmds' = cmds \ {h[w][t].cmd}
      BY <1>11 DEF Release, Done, At, SweepInv, Serving
    <3>3. QED BY <3>1, <3>2 DEF StillOrphan, Recovers
  <2>3. QED BY <2>1, <2>2
<1>12. CASE BeginTurn(w, t) \/ (t = "root" /\ EndTurn(w))
  BY <1>8, <1>12 DEF BeginTurn, EndTurn, At
<1>13. QED
  BY <1>5, <1>6, <1>7, <1>9, <1>10, <1>11, <1>12 DEF Handle

(* No step makes an orphan but one that takes its worker from it.          *)
LEMMA OrphanStays ==
  ASSUME Inv, SweepInv, [Next]_vars, NEW t \in Threads, Orphan(t)', ~Loses(t)
  PROVE  StillOrphan(t)
<1>1. ASSUME UNCHANGED <<lease, live>>, cmds \subseteq cmds',
             row'[t].status \in Active => row[t].status \in Active /\ row'[t].gen = row[t].gen
      PROVE  StillOrphan(t)
  BY <1>1 DEF StillOrphan, Orphan, LeaseLive
<1>2. CASE CreateThread \/ CreateFails
  <2>1. row'[t].status \in Active => row'[t] = row[t]
    BY <1>2 DEF CreateThread, CreateFails, Threads, NoRow, Active, Inv, Typed
  <2>2. QED BY <1>1, <1>2, <2>1 DEF CreateThread, CreateFails, apiFrame, Publish
<1>3. CASE \E kind \in {"resume", "cancel"} : Submit("root", kind)
  BY <1>1, <1>3 DEF Submit, apiFrame, Publish
<1>4. CASE SendNext
  BY <1>1, <1>4 DEF SendNext, apiFrame, Publish
<1>5. CASE SendFails \/ CascadeEnds \/ \E op \in {"disconnect", "archive"} : ListTree(op)
  BY <1>1, <1>5 DEF SendFails, CascadeEnds, ListTree, apiFrame
<1>6. CASE Archive
  <2>1. row'[t].status = row[t].status /\ row'[t].gen = row[t].gen
    BY <1>6 DEF Archive, Inv, Typed, Rows
  <2>2. QED BY <1>1, <1>6, <2>1 DEF Archive, apiFrame
<1>7. CASE Delete
  BY <1>7 DEF Delete, Orphan, NoRow, Active
<1>8. ASSUME NEW w \in Workers, NEW s \in Threads, Handle(w, s) PROVE StillOrphan(t)
  <2>1. CASE s = t
    BY <1>8, <2>1, HandlerOrphans
  <2>2. CASE s # t
    <3>1. row'[t] = row[t] /\ lease'[t] = lease[t] /\ live' = live
      BY <1>8, <2>2, OthersUntouched, HandlerFrame
    <3>2. \A c \in cmds : Recovers(c, t) => c \in cmds'
      BY <1>8, <2>2, OthersCommands DEF Recovers
    <3>3. QED BY <3>1, <3>2 DEF StillOrphan, Orphan, LeaseLive
  <2>3. QED BY <2>1, <2>2
<1>9. ASSUME NEW w \in Workers, NEW s \in Threads, Sweep(w, s) PROVE StillOrphan(t)
  BY <1>1, <1>9 DEF Sweep, Publish
<1>10. ASSUME NEW w \in Workers, Spawn(w) PROVE FALSE
  <2>1. t = "root" \/ t = "kid"
    BY DEF Threads
  <2>2. QED BY <1>10, <2>1, SpawnStep DEF Orphan, LeaseLive, Active
<1>11. ASSUME NEW w \in Workers, Crash(w) PROVE StillOrphan(t)
  BY <1>11 DEF Crash, StillOrphan, Orphan, Loses, LeaseLive
<1>12. CASE UNCHANGED vars
  BY <1>1, <1>12 DEF vars
<1>13. QED
  BY <1>2, <1>3, <1>4, <1>5, <1>6, <1>7, <1>8, <1>9, <1>10, <1>11, <1>12
     DEF Next, Requests, Cascade

(* A worker is lost to a thread only before the first attempt of a sweep.  *)
LostFirst == \A t \in Threads : Loses(t) => ~Tried(t)

LEMMA AttendedInit == Init => Attended
BY DEF Init, NoRow, Active, Attended, Orphan

LEMMA AttendedNext ==
  Inv /\ SweepInv /\ Attended /\ [Next]_vars /\ [LostFirst]_vars => Attended'
<1> SUFFICES ASSUME Inv, SweepInv, Attended, [Next]_vars, [LostFirst]_vars,
                    NEW t \in Threads, Tried(t)', Orphan(t)'
             PROVE  \E c \in cmds' : Recovers(c, t)'
  BY DEF Attended
<1>1. ASSUME Tried(t) PROVE \E c \in cmds' : Recovers(c, t)'
  <2>1. ~Loses(t)
    BY <1>1 DEF LostFirst, Loses, Orphan, LeaseLive, vars
  <2>2. StillOrphan(t)
    BY <2>1, OrphanStays
  <2>3. PICK c \in cmds : Recovers(c, t)
    BY <1>1, <2>2 DEF StillOrphan, Attended
  <2>4. c \in cmds' /\ row'[t].gen = row[t].gen
    BY <2>2, <2>3 DEF StillOrphan
  <2>5. Recovers(c, t)'
    BY <2>3, <2>4 DEF Recovers
  <2>6. QED BY <2>4, <2>5
<1>2. ASSUME ~Tried(t), NEW w \in Workers, Sweep(w, t)
      PROVE  \E c \in cmds' : Recovers(c, t)'
  <2>1. PICK g \in Nat, s \in Statuses, c \in Commands :
          c.id = <<"recover", t, g, s>> /\ Recovers(c, t) /\ Publish(c)
    BY <1>2, SweepStep
  <2>2. c.id \notin ids
    BY <1>2, <2>1 DEF SweepInv, Counted
  <2>3. c \in cmds'
    BY <2>1, <2>2 DEF Publish
  <2>4. row' = row
    BY <1>2 DEF Sweep
  <2>5. Recovers(c, t)'
    BY <2>1, <2>4 DEF Recovers
  <2>6. QED BY <2>3, <2>5
<1>3. ASSUME tries' = tries PROVE \E c \in cmds' : Recovers(c, t)'
  BY <1>1, <1>3 DEF Tried
<1>4. ASSUME NEW w \in Workers, NEW s \in Threads, s # t, Sweep(w, s)
      PROVE  \E c \in cmds' : Recovers(c, t)'
  <2>1. \A v \in Workers : tries'[v][t] = tries[v][t]
    BY <1>4, SweepStep
  <2>2. QED BY <1>1, <2>1 DEF Tried
<1>5. CASE Requests \/ Cascade \/ SendFails \/ UNCHANGED vars
  BY <1>3, <1>5 DEF Requests, Cascade, vars, apiFrame, CreateThread, CreateFails, Submit,
     ListTree, Delete, SendNext, SendFails, CascadeEnds, Archive
<1>6. ASSUME NEW w \in Workers, NEW s \in Threads, Handle(w, s) PROVE tries' = tries
  BY <1>6, HandlerFrame
<1>7. ASSUME NEW w \in Workers, Spawn(w) \/ Crash(w) PROVE tries' = tries
  BY <1>7 DEF Spawn, Crash
<1>8. QED
  BY <1>1, <1>2, <1>3, <1>4, <1>5, <1>6, <1>7 DEF Next

(* An orphan whose every attempt is used up has a command that somebody    *)
(* can take.                                                               *)
LEMMA SettledWithoutOrphan == Inv /\ SweepInv /\ Attended /\ Resting => NoOrphan
<1> SUFFICES ASSUME Inv, SweepInv, Attended, Resting, Settled, NEW t \in Threads,
                    row[t].status \in Active, ~LeaseLive(t)
             PROVE  FALSE
  BY DEF NoOrphan
<1>1. PICK w \in Workers : w \in live
  BY DEF SweepInv, Agreed, Inv, Typed
<1>2. ~(tries[w][t] < MaxAttempts)
  BY <1>1 DEF Settled, Sweeps, SweptStatuses, Active
<1>3. tries[w][t] > 0
  <2>1. tries[w][t] \in Nat
    BY DEF SweepInv
  <2>2. QED BY <1>2, <2>1, BoundsAreNat
<1>4. PICK c \in cmds : Recovers(c, t)
  BY <1>3 DEF Attended, Tried, Orphan
<1>5. At(w, t, "idle") /\ c.thread = t /\ c.to = Anyone
  BY <1>4 DEF Settled, Recovers
<1>6. PICK v \in Workers : h[v][t].cmd = c
  BY <1>1, <1>5 DEF Settled, Deliverable
<1>7. h[v][t] = Idle
  BY DEF Settled, Resting
<1>8. c.kind = "none"
  BY <1>6, <1>7 DEF Idle, NoCommand
<1>9. QED
  BY <1>4, <1>8 DEF Recovers

(* The first round of attempts is enough: for any number of workers,       *)
(* attempts, requests and crashes, and whatever sweeps repeat, as long as  *)
(* no thread loses its worker again after the first attempt for it, no     *)
(* thread is left in the middle of something without a worker.  The        *)
(* attempts that recoverThread counts may all be spent on one loss; its    *)
(* command is published once, refused by nobody, and redelivered when the  *)
(* worker that has it dies.                                                *)
THEOREM FirstAttemptRecovers == Spec /\ [][LostFirst]_vars => []NoOrphan
<1>1. Spec /\ [][LostFirst]_vars => []Attended
  BY AttendedInit, AttendedNext, AlwaysInv, AlwaysSweepInv, PTL DEF Spec
<1>2. QED
  BY <1>1, SettledWithoutOrphan, AlwaysInv, AlwaysSweepInv, AlwaysResting, PTL
-----------------------------------------------------------------------------
(* A worker lets a parent go that waits for its child: its handler for a   *)
(* disconnect found the parent ready, or waiting, and asks no more.        *)
LetsGo(w, t) == /\ Release(w, t) /\ row[t].status = "waiting_children"
                /\ lease[t] = [worker |-> w, gen |-> h[w][t].meta.gen]

(* At most one worker has died, and no waiting parent is disconnected.     *)
OneDead == \A v, w \in Workers \ live : v = w
OneLoss == OneDead' /\ ~\E w \in Workers, t \in Threads : LetsGo(w, t)

(* Until then no orphan, and no attempt; a worker that lets a thread go    *)
(* does not run it.                                                        *)
Untroubled == live = Workers => \A t \in Threads : ~Orphan(t) /\ ~Tried(t)
Leaving(w, t) == h[w][t].at = "release" /\ lease[t].worker = w
                   => row[t].status \notin {"running", "reconciling"}
LossInv == Untroubled /\ \A w \in Workers, t \in Threads : Leaving(w, t)

LEMMA LossInvInit == Init => LossInv
<1> SUFFICES ASSUME Init PROVE LossInv
  OBVIOUS
<1>1. Untroubled
  BY DEF Init, NoRow, Active, Untroubled, Orphan, Tried
<1>2. \A w \in Workers, t \in Threads : Leaving(w, t)
  BY Constants DEF Init, Leaving
<1>3. QED
  BY <1>1, <1>2 DEF LossInv

(* Only a crash takes a worker from a thread, then.                        *)
LEMMA OnlyCrashesLose ==
  ASSUME Inv, SweepInv, LossInv, [Next]_vars, [OneLoss]_vars, NEW t \in Threads, Loses(t)
  PROVE  \E w \in live : Crash(w)
<1>1. lease'[t] # lease[t] \/ live' # live
  BY DEF Loses, Orphan, LeaseLive
<1>2. row'[t].status \in Active /\ ~LeaseLive(t)' /\ LeaseLive(t)
  BY DEF Loses, Orphan
<1>3. ASSUME NEW w \in Workers, Handle(w, t) PROVE FALSE
  <2>1. live' = live
    BY <1>3, HandlerFrame
  <2>2. CASE Claim(w, t)
    <3>1. w \in live
      BY <2>2, WorkerLives DEF Claim, At
    <3>2. lease'[t] = lease[t] \/ lease'[t].worker = w
      BY <2>2 DEF Claim, Inv, Typed
    <3>3. QED BY <1>1, <1>2, <2>1, <3>1, <3>2 DEF LeaseLive
  <2>3. CASE Release(w, t)
    <3>1. CASE lease[t] = [worker |-> w, gen |-> h[w][t].meta.gen]
      <4>1. row'[t].status = row[t].status /\ lease[t].worker = w
        BY <2>3, <3>1 DEF Release, Inv, Typed, Rows
      <4>2. row[t].status = "waiting_children"
        BY <1>2, <2>3, <4>1 DEF LossInv, Leaving, Release, At, Active
      <4>3. LetsGo(w, t)
        BY <2>3, <3>1, <4>2 DEF LetsGo
      <4>4. OneLoss
        BY <1>1 DEF vars
      <4>5. QED BY <4>3, <4>4 DEF OneLoss
    <3>2. CASE lease[t] # [worker |-> w, gen |-> h[w][t].meta.gen]
      BY <1>1, <2>1, <2>3, <3>2 DEF Release
    <3>3. QED BY <3>1, <3>2
  <2>4. CASE t = "kid" /\ EndChildTurn(w)
    <3> DEFINE meta == h[w]["kid"].meta
               over == [meta EXCEPT !.status = "completed", !.owner = Nobody]
    <3>1. over.status = "completed"
      BY <2>4 DEF Inv, Typed, Stands, Rows
    <3>2. lease'[t] = lease[t] \/ row' = [row EXCEPT !["kid"] = over]
      BY <2>4 DEF EndChildTurn
    <3> HIDE DEF over
    <3>3. QED BY <1>1, <1>2, <2>1, <2>4, <3>1, <3>2 DEF Inv, Typed, Active
  <2>5. CASE lease' = lease
    BY <1>1, <2>1, <2>5
  <2>6. QED
    BY <1>3, <2>2, <2>3, <2>4, <2>5
       DEF Handle, Take, Refuse, BeginTurn, Cancel, EndTurn
<1>4. ASSUME NEW w \in Workers, NEW s \in Threads, s # t, Handle(w, s) PROVE FALSE
  BY <1>1, <1>4, OthersUntouched, HandlerFrame
<1>5. CASE Delete
  BY <1>2, <1>5 DEF Delete, NoRow, Active
<1>6. CASE lease' = lease /\ live' = live
  BY <1>1, <1>6
<1>7. CASE (Requests /\ ~Delete) \/ Cascade \/ SendFails \/ UNCHANGED vars
  BY <1>6, <1>7 DEF Requests, Cascade, vars, apiFrame, CreateThread, CreateFails, Submit,
     ListTree, SendNext, SendFails, CascadeEnds, Archive
<1>8. ASSUME NEW w \in Workers, Spawn(w) \/ \E s \in Threads : Sweep(w, s) PROVE FALSE
  BY <1>1, <1>8 DEF Spawn, Sweep
<1>9. ASSUME NEW w \in Workers, Crash(w) PROVE w \in live
  BY <1>9 DEF Crash
<1>10. ASSUME NEW w \in Workers, NEW s \in Threads, Handle(w, s) PROVE FALSE
  BY <1>3, <1>4, <1>10
<1>11. \E w \in Workers : Crash(w)
  BY <1>5, <1>7, <1>8, <1>10 DEF Next, Inv, Typed
<1>12. QED
  BY <1>9, <1>11

LEMMA LossIsFirst ==
  ASSUME Inv, SweepInv, LossInv, [Next]_vars, [OneLoss]_vars
  PROVE  [LostFirst]_vars
<1> SUFFICES ASSUME ~UNCHANGED vars PROVE LostFirst
  OBVIOUS
<1> SUFFICES ASSUME NEW t \in Threads, Loses(t) PROVE ~Tried(t)
  BY DEF LostFirst
<1>1. PICK w \in live : Crash(w)
  BY OnlyCrashesLose
<1>2. live' = live \ {w} /\ w \in Workers /\ live \subseteq Workers
  BY <1>1 DEF Crash, Inv, Typed
<1>3. \A u, v \in Workers \ live' : u = v
  BY DEF OneLoss, OneDead
<1>4. live = Workers
  BY <1>2, <1>3
<1>5. QED
  BY <1>4 DEF LossInv, Untroubled

LEMMA UntroubledNext ==
  ASSUME Inv, SweepInv, LossInv, [Next]_vars, [OneLoss]_vars
  PROVE  Untroubled'
<1> SUFFICES ASSUME live' = Workers, NEW t \in Threads PROVE ~Orphan(t)' /\ ~Tried(t)'
  BY DEF Untroubled
<1>1. ASSUME NEW w \in Workers, Crash(w) PROVE FALSE
  BY <1>1 DEF Crash
<1>2. live = Workers
  <2>1. ASSUME NEW w \in Workers, NEW s \in Threads, Handle(w, s) PROVE live' = live
    BY <2>1, HandlerFrame
  <2>2. ASSUME NEW w \in Workers, Spawn(w) \/ \E s \in Threads : Sweep(w, s)
        PROVE  live' = live
    BY <2>2 DEF Spawn, Sweep
  <2>3. CASE Requests \/ Cascade \/ SendFails \/ UNCHANGED vars
    BY <2>3 DEF Requests, Cascade, vars, apiFrame, CreateThread, CreateFails, Submit,
       ListTree, Delete, SendNext, SendFails, CascadeEnds, Archive
  <2>4. live' = live
    BY <1>1, <2>1, <2>2, <2>3 DEF Next
  <2>5. QED BY <2>4
<1>3. ~Orphan(t) /\ \A s \in Threads : ~Orphan(s) /\ ~Tried(s)
  BY <1>2 DEF LossInv, Untroubled
<1>4. ~Loses(t)
  BY <1>1, OnlyCrashesLose DEF Inv, Typed
<1>5. ~Orphan(t)'
  BY <1>3, <1>4, OrphanStays DEF StillOrphan
<1>6. ASSUME tries' = tries PROVE ~Tried(t)'
  BY <1>3, <1>6 DEF Tried
<1>7. ASSUME NEW w \in Workers, NEW s \in Threads, Sweep(w, s) PROVE FALSE
  BY <1>3, <1>7, SweepStep
<1>8. ASSUME NEW w \in Workers, NEW s \in Threads, Handle(w, s) PROVE tries' = tries
  BY <1>8, HandlerFrame
<1>9. ASSUME NEW w \in Workers, Spawn(w) PROVE tries' = tries
  BY <1>9 DEF Spawn
<1>10. CASE Requests \/ Cascade \/ SendFails \/ UNCHANGED vars
  BY <1>5, <1>6, <1>10 DEF Requests, Cascade, vars, apiFrame, CreateThread, CreateFails, Submit,
     ListTree, Delete, SendNext, SendFails, CascadeEnds, Archive
<1>11. ASSUME NEW w \in Workers,
              Spawn(w) \/ Crash(w) \/ \E s \in Threads : Handle(w, s) \/ Sweep(w, s)
       PROVE  ~Tried(t)'
  BY <1>1, <1>6, <1>7, <1>8, <1>9, <1>11
<1>12. QED
  BY <1>5, <1>10, <1>11 DEF Next

LEMMA LeavingNext ==
  ASSUME Inv, SweepInv, LossInv, [Next]_vars, NEW w \in Workers, NEW t \in Threads
  PROVE  Leaving(w, t)'
<1> SUFFICES ASSUME h'[w][t].at = "release", lease'[t].worker = w,
                    row'[t].status \in {"running", "reconciling"}
             PROVE  FALSE
  BY DEF Leaving
<1>1. Inv' /\ w \in Workers
  BY InvNext
<1>2. row'[t].status \in Active /\ row'[t].status # "waiting_children"
  BY DEF Active
<1>3. ASSUME h'[w][t] = h[w][t], lease'[t] = lease[t], row'[t].status = row[t].status
      PROVE  FALSE
  BY <1>3 DEF LossInv, Leaving
<1>4. ASSUME NEW v \in Workers, Handle(v, t) PROVE FALSE
  <2>1. ASSUME NEW c \in cmds, c.thread = t, Take(v, c) PROVE FALSE
    <3>1. lease' = lease /\ (There(t) => row'[t] = row[t])
      BY <2>1 DEF Take, Inv, Typed
    <3>2. There(t)
      BY <1>2, <2>1 DEF Take, NoRow, Active, Inv, Typed
    <3>3. v = w
      BY <1>3, <2>1, <3>1, <3>2 DEF Take, Inv, Typed
    <3>4. c.kind = "disconnect"
      BY <2>1, <3>3 DEF Take, Inv, Typed
    <3>5. row[t].status \in HoldsIdleSocket
      BY <2>1, <3>4 DEF Take, Accepted
    <3>6. QED BY <3>1, <3>2, <3>5 DEF HoldsIdleSocket
  <2>2. ASSUME NEW c \in cmds, Refuse(v, c) PROVE FALSE
    BY <1>3, <2>2 DEF Refuse
  <2>3. CASE Claim(v, t)
    <3>1. CASE v = w
      <4>1. h'[w][t].at = "save" \/ h'[w][t] = Idle
        <5>1. CASE Done(w, t)
          BY <5>1, ReturnStands DEF Done
        <5>2. CASE There(t) /\ (lease[t].worker = w \/ ~LeaseLive(t))
          <6> DEFINE holder == IF lease[t] = NoLease THEN row[t].owner ELSE lease[t].worker
                     seen == IF lease[t] = NoLease THEN row[t].gen ELSE lease[t].gen
                     gen == IF holder # w \/ seen = 0 THEN seen + 1 ELSE seen
          <6>1. h' = [h EXCEPT ![w][t] = [h[w][t] EXCEPT !.at = "save", !.meta.owner = w,
                                                         !.meta.gen = gen]]
            BY <2>3, <3>1, <5>2 DEF Claim
          <6> HIDE DEF gen
          <6>2. QED BY <6>1 DEF Inv, Typed, Stands
        <5>3. QED BY <2>3, <3>1, <5>1, <5>2 DEF Claim
      <4>2. QED BY <4>1, Constants
    <3>2. CASE v # w
      <4>1. h'[w][t] = h[w][t]
        BY <2>3, <3>2 DEF Claim, Done, Return, Inv, Typed
      <4>2. lease'[t] = lease[t] \/ lease'[t].worker = v
        BY <2>3 DEF Claim, Inv, Typed
      <4>3. row'[t].status = row[t].status
        BY <2>3 DEF Claim, Inv, Typed, Rows
      <4>4. QED BY <1>3, <3>2, <4>1, <4>2, <4>3
    <3>3. QED BY <3>1, <3>2
  <2>4. CASE h[v][t].at \in {"save", "turn"} /\ lease' = lease /\ h'[v][t].at # "release"
    BY <2>4 DEF Inv, Owners, Owns
  <2>5. CASE BeginTurn(v, t)
    <3>1. h'[v][t].at = "turn" \/ h'[v][t] = Idle
      <4>1. CASE Done(v, t)
        BY <4>1, ReturnStands DEF Done
      <4>2. ASSUME NEW m, h' = [h EXCEPT ![v][t] = [@ EXCEPT !.at = "turn", !.meta = m]]
            PROVE  h'[v][t].at = "turn"
        BY <4>2 DEF Inv, Typed, Stands
      <4>3. QED BY <2>5, <4>1, <4>2 DEF BeginTurn
    <3>2. QED BY <2>4, <2>5, <3>1, Constants DEF BeginTurn, At
  <2>6. CASE t = "root" /\ EndTurn(v)
    <3>1. h'[v][t] = Idle
      BY <2>6, ReturnStands DEF EndTurn, Done
    <3>2. QED BY <2>4, <2>6, <3>1, Constants DEF EndTurn, At
  <2>7. CASE t = "kid" /\ EndChildTurn(v)
    <3> DEFINE meta == h[v]["kid"].meta
               ready == [meta EXCEPT !.status = "ready"]
               over == [meta EXCEPT !.status = "completed", !.owner = Nobody]
    <3>1. ready.status = "ready" /\ over.status = "completed"
      BY <2>7 DEF Inv, Typed, Stands, Rows
    <3>2. row' = [row EXCEPT !["kid"] = ready] \/ row' = [row EXCEPT !["kid"] = over]
      BY <2>7 DEF EndChildTurn
    <3> HIDE DEF ready, over
    <3>3. QED BY <1>2, <2>7, <3>1, <3>2 DEF Inv, Typed, Active
  <2>8. CASE Cancel(v, t)
    <3>1. "cancelled" \in Statuses
      BY DEF Statuses, Terminal
    <3>2. row'[t].status = "cancelled"
      BY <2>8, <3>1, SavedKeepsGen DEF Cancel, Inv, Typed
    <3>3. QED BY <1>2, <3>2 DEF Active
  <2>9. CASE Release(v, t)
    <3>1. CASE v = w
      BY <2>9, <3>1, ReturnStands, Constants DEF Release, Done
    <3>2. CASE v # w
      <4>1. h'[w][t] = h[w][t]
        BY <2>9, <3>2, ReturnStands DEF Release, Done
      <4>2. lease'[t] = lease[t] \/ lease'[t] = NoLease
        BY <2>9 DEF Release, Inv, Typed
      <4>3. row'[t].status = row[t].status
        BY <2>9 DEF Release, Inv, Typed, Rows
      <4>4. QED BY <1>3, <4>1, <4>2, <4>3, Constants, NamesAreFree
    <3>3. QED BY <3>1, <3>2
  <2>10. QED
    BY <1>4, <2>1, <2>2, <2>3, <2>5, <2>6, <2>7, <2>8, <2>9 DEF Handle
<1>5. ASSUME NEW v \in Workers, NEW s \in Threads, Handle(v, s) PROVE FALSE
  BY <1>3, <1>4, <1>5, OthersUntouched
<1>6. ASSUME NEW v \in Workers, Spawn(v) PROVE FALSE
  <2>1. t = "root" \/ t = "kid"
    BY DEF Threads
  <2>2. QED BY <1>2, <1>6, <2>1, SpawnStep DEF Active
<1>7. ASSUME NEW v \in Workers, Crash(v) PROVE FALSE
  <2>1. h'[w][t] = Idle \/ h'[w][t] = h[w][t]
    BY <1>7 DEF Crash, Inv, Typed
  <2>2. QED BY <1>3, <1>7, <2>1, Constants DEF Crash
<1>8. ASSUME NEW v \in Workers, NEW s \in Threads, Sweep(v, s) PROVE FALSE
  BY <1>3, <1>8 DEF Sweep
<1>9. CASE CreateThread \/ CreateFails
  <2>1. UNCHANGED <<lease, h>> /\ (row'[t].status \in Active => row'[t] = row[t])
    BY <1>9 DEF CreateThread, CreateFails, apiFrame, Threads, NoRow, Active, Inv, Typed
  <2>2. QED BY <1>2, <1>3, <2>1
<1>10. CASE Archive
  BY <1>3, <1>10 DEF Archive, apiFrame, Inv, Typed, Rows
<1>11. CASE Delete
  BY <1>2, <1>11 DEF Delete, NoRow, Active
<1>12. CASE SendNext \/ SendFails \/ CascadeEnds \/ UNCHANGED vars
            \/ (\E op \in {"disconnect", "archive"} : ListTree(op))
            \/ (\E kind \in {"resume", "cancel"} : Submit("root", kind))
  <2>1. UNCHANGED <<row, lease, h>>
    BY <1>12 DEF SendNext, SendFails, CascadeEnds, ListTree, Submit, apiFrame, vars
  <2>2. QED BY <1>3, <2>1
<1>13. QED
  BY <1>5, <1>6, <1>7, <1>8, <1>9, <1>10, <1>11, <1>12 DEF Next, Requests, Cascade

(* A crash never leaves an orphan behind: with any number of workers,      *)
(* attempts and requests, and however the sweeps of the others and the     *)
(* commands under way at the time meet, the thread of a worker that died   *)
(* has a worker again when all is settled.  The attempts of the sweep are  *)
(* enough for one crash, not for more of them than attempts; and a parent  *)
(* that waits and is disconnected is a loss like a crash.                  *)
THEOREM OneCrashNoOrphan == Spec /\ [][OneLoss]_vars => []NoOrphan
<1>1. LossInv /\ Inv /\ SweepInv /\ [Next]_vars /\ [OneLoss]_vars => LossInv'
  BY UntroubledNext, LeavingNext DEF LossInv
<1>2. Spec /\ [][OneLoss]_vars => []LossInv
  BY <1>1, LossInvInit, AlwaysInv, AlwaysSweepInv, PTL DEF Spec
<1>3. Inv /\ SweepInv /\ LossInv /\ [Next]_vars /\ [OneLoss]_vars => [LostFirst]_vars
  BY LossIsFirst
<1>4. Spec /\ [][OneLoss]_vars => [][LostFirst]_vars
  BY <1>2, <1>3, AlwaysInv, AlwaysSweepInv, PTL DEF Spec
<1>5. QED
  BY <1>4, FirstAttemptRecovers, PTL

=============================================================================
