----------------------- MODULE CitationRound_proofs ------------------------
(***************************************************************************)
(* Proofs about CitationRound, for any number of workers, calls, responses *)
(* and faults: type correctness; that the outputs the model is told are    *)
(* true of its calls; and that no citation is committed beside them.       *)
(*                                                                         *)
(* What a handler is about to send rests on three things that others may   *)
(* change under it: the bindings of the group, the results its snapshot    *)
(* was read from, and the citations it commits.  Inv says of each handler  *)
(* what it knows of them (Stand, Snapped, Truths), and the proofs show     *)
(* that whatever another does only adds to them (Grows).  Most steps are   *)
(* one of three: a handler goes on with a group that is there (Proceeds),  *)
(* the owner opens one (Opens), or something stirs that changes neither    *)
(* results nor citations (Stirs).                                          *)
(***************************************************************************)
EXTENDS CitationRound, FiniteSetTheorems, TLAPS

Opening == {"stream", "bind", "create", "publish"}
Ending == {"finalize", "submit", "claim", "send", "sent"}
Places == {"idle", "upsert", "commit", "save", "load"} \cup Opening \cup Ending
Oddities == {"repeat", "refused", "failure", "crash", "lost", "together"}
Results == {"absent", "pending"} \cup Outcomes
Somebody == Workers \cup {Nobody}

ParentRows == [status : {"running", "waiting_children", "answered"}, active : BOOLEAN,
               group : 0..MaxRounds, owner : Somebody]
GroupRows == [bindings : 0..MaxRounds, submitted : BOOLEAN]
Reported == [kid : Kids, to : Somebody, outcome : Outcomes]
Stands == [at : Places, job : {"none", "open", "report", "recover"},
           report : Reported \cup {NoReport}, submitted : BOOLEAN, closed : BOOLEAN,
           snap : [Calls -> Results], out : Seq(Nat)]

Typed ==
  /\ row \in ParentRows /\ live \subseteq Workers /\ round \in 0..MaxRounds
  /\ key \in [Rounds -> Rounds] /\ spawn \in [Rounds -> GroupRows]
  /\ kid \in [Kids -> {"none", "new", "started", "done"}]
  /\ result \in [Kids -> Results] /\ reports \subseteq Reported
  /\ h \in [Workers -> Stands] /\ citations \in Seq(Kids)
  /\ odd \subseteq Oddities

(* Bindings are those of a response of the group. *)
Bound ==
  /\ \A g \in Rounds : spawn[g].bindings # 0 => /\ spawn[g].bindings <= round
                                               /\ key[spawn[g].bindings] = g
  /\ "repeat" \notin odd => \A r \in Rounds : key[r] = r

(* The thread is opening its group, under its owner, or has one. *)
Stage ==
  /\ row.active => row.status = "running"
  /\ ~row.active => row.group # 0 /\ spawn[row.group].bindings # 0

(* Where a handler stands, a worker that is dead or idle has none, and who  *)
(* opens a group owns the thread.                                           *)
Stand(w) ==
  /\ w \notin live \/ At(w, "idle") => h[w] = NoHandler
  /\ h[w].at \in Opening =>
       /\ row.active /\ row.owner = w
       /\ ~At(w, "stream") => round > 0
       /\ h[w].at \in {"create", "publish"} => spawn[Group].bindings # 0
  /\ h[w].at \notin Opening \cup {"idle"} => ~row.active
  /\ h[w].at \in {"upsert", "commit"} =>
       h[w].report # NoReport /\ key[h[w].report.kid[1]] = row.group
  /\ h[w].at \notin Ending => h[w].out = <<>>
  /\ h[w].at = "finalize" => Len(h[w].out) < NumCalls
  /\ h[w].at \in Ending \ {"finalize"} => Len(h[w].out) = NumCalls

(* A child reports once, and its report is in one handler's hands. *)
Once ==
  /\ \A c \in Kids : /\ kid[c] # "none" => c[1] <= round
                     /\ Settled(result[c]) => kid[c] = "done"
  /\ \A r \in reports : /\ kid[r.kid] = "done"
                        /\ Settled(result[r.kid]) => result[r.kid] = r.outcome
                        /\ \A q \in reports : q.kid = r.kid => q = r
  /\ \A w \in Workers : h[w].report = NoReport \/ h[w].report \in reports
  /\ \A v, w \in Workers : v # w /\ h[v].report = h[w].report => h[v].report = NoReport

(* What a handler has seen of the results is committed, or its own to       *)
(* commit; and it has seen all where it takes the group for closed.         *)
Sure(w) == IF At(w, "commit") THEN Stored(h[w].report) ELSE result
Looked == {"commit", "save"} \cup Ending
Snapped(w) ==
  /\ h[w].at \in Looked =>
       /\ \A n \in Calls : Settled(h[w].snap[n]) =>
            Sure(w)[BoundKid(row.group, n)] = h[w].snap[n]
       /\ h[w].closed => "repeat" \in odd \/ \A n \in Calls : Settled(h[w].snap[n])
  /\ h[w].at \in Ending => h[w].closed

(* An output is true of its call. *)
Truth(g, n, o) ==
  IF o # Error
  THEN o <= Len(citations) /\ citations[o] = BoundKid(g, n)
  ELSE result[BoundKid(g, n)] = "nothing" \/ "failure" \in odd \/ "repeat" \in odd
Truths ==
  /\ \A w \in Workers : \A n \in 1..Len(h[w].out) : Truth(row.group, n, h[w].out[n])
  /\ \A q \in sent : /\ ~row.active /\ q.group = row.group
                     /\ q.out \in Seq(Nat) /\ Len(q.out) = NumCalls
                     /\ \A n \in Calls : Truth(q.group, n, q.out[n])

Inv == /\ Typed /\ Bound /\ Stage /\ Once /\ Truths
       /\ \A w \in Workers : Stand(w) /\ Snapped(w)

(* As long as nothing happened that makes outputs twice, one worker at a    *)
(* time is about the thread, and it has told, or is to tell, each citation. *)
Plain == odd \subseteq {"repeat", "lost"}
Told(w) == \A k \in DOMAIN citations : \E n \in Calls : n <= Len(h[w].out) /\ h[w].out[n] = k
PlainInv ==
  Plain =>
    /\ live = Workers
    /\ \A v, w \in Workers : v # w => At(v, "idle") \/ At(w, "idle")
    /\ row.status = "answered" => \A w \in Workers : At(w, "idle")
    /\ (\A w \in Workers : h[w].at \notin Ending) =>
          row.status = "answered" \/ citations = <<>>
    /\ \A w \in Workers : h[w].at \in Ending => Told(w)
    /\ \A w \in Workers : At(w, "sent") => [group |-> row.group, out |-> h[w].out] \in sent
    /\ row.status = "answered" => \E q \in sent : \A k \in DOMAIN citations :
                                    \E n \in Calls : q.out[n] = k

-----------------------------------------------------------------------------
LEMMA Naturals == NumCalls \in Nat \ {0} /\ MaxRounds \in Nat \ {0} /\ MaxFaults \in Nat
BY BoundsAreNat

(* A worker without a handler. *)
LEMMA NobodyHasNothing ==
  /\ NoHandler \in Stands /\ NoHandler.at = "idle" /\ NoHandler.report = NoReport
  /\ NoHandler.out = <<>> /\ NoHandler.job = "none" /\ NoReport \notin Reported
  /\ Len(NoHandler.out) = 0
<1>1. <<>> \in Seq(Nat)
  OBVIOUS
<1>2. NoHandler \in Stands
  BY <1>1 DEF NoHandler, Stands, Places, Opening, Ending, Results
<1>3. <<0, 0>> \notin Kids
  BY DEF Kids, Rounds, Calls
<1>4. NoReport \notin Reported
  BY <1>3 DEF NoReport, Reported
<1>5. QED
  BY <1>2, <1>4 DEF NoHandler

(* The child of a call, as long as the group has bindings. *)
LEMMA BoundKidIs ==
  ASSUME Typed, NEW g \in Rounds, spawn[g].bindings # 0, NEW n \in Calls
  PROVE  /\ BoundKid(g, n) \in Kids
         /\ BoundKid(g, n)[1] = spawn[g].bindings /\ BoundKid(g, n)[2] = n
<1>1. spawn[g].bindings \in Rounds
  BY Naturals DEF Typed, GroupRows, Rounds
<1>2. QED
  BY <1>1 DEF BoundKid, Kids

(* UpsertSpawnResult writes one row, and only over one without an outcome.  *)
LEMMA StoredKeeps ==
  ASSUME Typed, NEW r \in Reported
  PROVE  /\ Stored(r) \in [Kids -> Results]
         /\ Settled(Stored(r)[r.kid])
         /\ Stored(r)[r.kid] = IF Settled(result[r.kid]) THEN result[r.kid] ELSE r.outcome
         /\ \A c \in Kids : c # r.kid => Stored(r)[c] = result[c]
         /\ \A c \in Kids : Settled(result[c]) => Stored(r)[c] = result[c]
BY DEF Stored, Typed, Reported, Results, Settled, Outcomes

LEMMA InvInit == Init => Inv
<1> SUFFICES ASSUME Init PROVE Inv
  OBVIOUS
<1> DEFINE x == [NoHandler EXCEPT !.at = "stream", !.job = "open"]
<1>0. /\ h = [w \in Workers |-> IF w = First THEN x ELSE NoHandler]
      /\ x \in Stands /\ x.at = "stream" /\ x.report = NoReport /\ x.out = <<>>
  <2>1. x \in Stands /\ x.at = "stream" /\ x.report = NoReport /\ x.out = <<>>
    BY NobodyHasNothing DEF Stands, Places, Opening
  <2>2. h = [w \in Workers |-> IF w = First THEN x ELSE NoHandler]
    BY WorkersAreThere, NobodyHasNothing DEF Init, Stands
  <2>3. QED BY <2>1, <2>2
<1> HIDE DEF x
<1>1. Typed
  <2>1. citations \in Seq(Kids) /\ 0 \in 0..MaxRounds
    BY Naturals DEF Init
  <2>2. row \in ParentRows
    BY <2>1, WorkersAreThere DEF Init, ParentRows, Somebody
  <2>3. h \in [Workers -> Stands]
    BY <1>0, NobodyHasNothing
  <2>4. QED
    BY <2>1, <2>2, <2>3 DEF Init, Typed, GroupRows, Results
<1>2. Bound /\ Stage
  BY Naturals DEF Init, Bound, Stage
<1>3. Once
  BY <1>0, NobodyHasNothing DEF Init, Once, Settled, Outcomes
<1>4. Truths
  BY <1>0, NobodyHasNothing DEF Init, Truths
<1>5. ASSUME NEW w \in Workers PROVE Stand(w) /\ Snapped(w)
  BY <1>0, NobodyHasNothing DEF Init, Stand, Snapped, Opening, Ending, Looked, At
<1>6. QED
  BY <1>1, <1>2, <1>3, <1>4, <1>5 DEF Inv

(* One handler goes on; the others stand where they are. *)
LEMMA HandlerMoves ==
  ASSUME Typed, NEW w \in Workers, NEW x \in Stands, h' = [h EXCEPT ![w] = x]
  PROVE  /\ h' \in [Workers -> Stands] /\ h'[w] = x
         /\ \A v \in Workers : v # w => h'[v] = h[v]
BY DEF Typed

-----------------------------------------------------------------------------
(* Bindings that stay keep the children of the calls. *)
LEMMA KidsAreKept ==
  ASSUME Typed, NEW g \in Rounds, spawn'[g].bindings = spawn[g].bindings
  PROVE  \A n \in Calls : BoundKid(g, n)' = BoundKid(g, n)
BY DEF BoundKid

(* Citations are only added, outcomes stay. *)
Grows ==
  /\ citations' \in Seq(Kids) /\ Len(citations) <= Len(citations')
  /\ \A k \in 1..Len(citations) : citations'[k] = citations[k]
  /\ odd \subseteq odd' /\ odd' \subseteq Oddities
  /\ result' \in [Kids -> Results]
  /\ \A c \in Kids : Settled(result[c]) => result'[c] = result[c]

(* What was true of an output stays true. *)
LEMMA TruthStays ==
  ASSUME Typed, Grows, NEW g \in Rounds, spawn[g].bindings # 0,
         spawn'[g].bindings = spawn[g].bindings,
         NEW n \in Calls, NEW o \in Nat, Truth(g, n, o)
  PROVE  Truth(g, n, o)'
<1>1. BoundKid(g, n)' = BoundKid(g, n) /\ BoundKid(g, n) \in Kids
  BY KidsAreKept, BoundKidIs
<1>2. CASE o # Error
  BY <1>1, <1>2 DEF Truth, Grows, Error, Typed
<1>3. CASE o = Error
  BY <1>1, <1>3 DEF Truth, Grows, Settled, Outcomes
<1>4. QED BY <1>2, <1>3

(* What was seen of the results stays so, whatever others commit: a child   *)
(* has one report.                                                          *)
LEMMA SureStays ==
  ASSUME Typed, Grows, Once, NEW v \in Workers, h'[v] = h[v], NEW c \in Kids,
         At(v, "commit") => h[v].report \in reports,
         Settled(Sure(v)[c]),
         \A d \in Kids : Settled(result'[d]) /\ ~Settled(result[d])
                         => \E r \in reports : r.kid = d /\ result'[d] = r.outcome
  PROVE  Sure(v)'[c] = Sure(v)[c]
<1>1. CASE ~At(v, "commit")
  BY <1>1 DEF Sure, Grows, At
<1>2. CASE At(v, "commit")
  <2> DEFINE r == h[v].report
  <2>1. r \in reports /\ r \in Reported /\ r.kid \in Kids
    BY <1>2 DEF Typed, Reported
  <2>2. /\ Sure(v) = Stored(r)
        /\ Sure(v)' = [result' EXCEPT ![r.kid] = IF Settled(@) THEN @ ELSE r.outcome]
    BY <1>2 DEF Sure, At, Stored
  <2> HIDE DEF r
  <2>3. result' \in [Kids -> Results]
    BY DEF Grows
  <2>4. CASE c # r.kid
    BY <2>1, <2>2, <2>3, <2>4, StoredKeeps DEF Grows
  <2>5. CASE c = r.kid /\ Settled(result[c])
    BY <2>1, <2>2, <2>3, <2>5, StoredKeeps DEF Grows
  <2>6. CASE c = r.kid /\ ~Settled(result[c])
    <3>1. Sure(v)[c] = r.outcome
      BY <2>1, <2>2, <2>6, StoredKeeps
    <3>2. Settled(result'[c]) => result'[c] = r.outcome
      BY <2>1, <2>6 DEF Once
    <3>3. QED BY <2>1, <2>2, <2>3, <2>6, <3>1, <3>2
  <2>7. QED BY <2>4, <2>5, <2>6
<1>3. QED BY <1>1, <1>2

(* A step of a handler when the group is there. *)
LEMMA Proceeds ==
  ASSUME Inv, NEW w \in live, NEW x \in Stands, h' = [h EXCEPT ![w] = x],
         ~row.active, UNCHANGED <<round, key, kid, live>>,
         row' \in ParentRows, ~row'.active, row'.group = row.group,
         spawn' \in [Rounds -> GroupRows],
         \A g \in Rounds : spawn'[g].bindings = spawn[g].bindings,
         Grows, "repeat" \in odd' => "repeat" \in odd,
         \A c \in Kids : Settled(result'[c]) /\ ~Settled(result[c])
                         => h[w].report \in reports /\ h[w].report.kid = c
                            /\ result'[c] = h[w].report.outcome,
         \/ x.report = h[w].report /\ reports' = reports
         \/ x.report = NoReport /\ reports' = reports \ {h[w].report},
         Stand(w)', Snapped(w)',
         \A n \in 1..Len(x.out) : Truth(row.group, n, x.out[n])',
         \A q \in sent' : q \in sent \/ (q = [group |-> row.group, out |-> x.out]
                                         /\ Len(x.out) = NumCalls)
  PROVE  Inv'
<1> PICK g : g = row.group
  OBVIOUS
<1>0. /\ w \in Workers /\ g \in Rounds /\ spawn[g].bindings # 0
      /\ g = row.group /\ g = row'.group /\ \A n \in Calls : BoundKid(g, n)' = BoundKid(g, n)
      /\ \A n \in Calls : BoundKid(g, n) \in Kids
  <2>1. g \in Rounds /\ spawn[g].bindings # 0
    BY Naturals DEF Inv, Typed, Stage, ParentRows, Rounds
  <2>2. QED BY <2>1, KidsAreKept, BoundKidIs DEF Inv, Typed
<1>1. /\ h' \in [Workers -> Stands] /\ h'[w] = x
      /\ \A v \in Workers : v # w => h'[v] = h[v]
  BY <1>0, HandlerMoves DEF Inv
<1>2. Typed'
  BY <1>1 DEF Inv, Typed, Grows
<1>3. Bound' /\ Stage'
  BY <1>0 DEF Inv, Bound, Stage, Grows
<1>4. Once'
  <2>1. \A c \in Kids : Settled(result'[c]) => kid[c] = "done"
    BY DEF Inv, Once, Grows
  <2>2. reports' \subseteq reports
    OBVIOUS
  <2>3. ASSUME NEW r \in reports', Settled(result'[r.kid])
        PROVE  result'[r.kid] = r.outcome
    BY <2>2, <2>3 DEF Inv, Once, Grows, Typed, Reported
  <2>4. \A v \in Workers : h'[v].report = NoReport \/ h'[v].report \in reports'
    BY <1>0, <1>1 DEF Inv, Once
  <2>5. \A v, u \in Workers : v # u /\ h'[v].report = h'[u].report => h'[v].report = NoReport
    BY <1>0, <1>1 DEF Inv, Once
  <2>6. QED BY <2>1, <2>2, <2>3, <2>4, <2>5 DEF Inv, Once
<1>5. ASSUME NEW v \in Workers PROVE Stand(v)' /\ Snapped(v)'
  <2>1. CASE v = w
    BY <2>1
  <2>2. CASE v # w
    <3>1. h'[v] = h[v] /\ Stand(v) /\ Snapped(v)
      BY <1>1, <2>2 DEF Inv
    <3>2. Stand(v)'
      BY <3>1, <1>0 DEF Stand, At
    <3>3. ASSUME h[v].at \in Looked, NEW n \in Calls, Settled(h[v].snap[n])
          PROVE  Sure(v)'[BoundKid(row.group, n)'] = h[v].snap[n]
      <4>1. BoundKid(row.group, n)' = BoundKid(g, n) /\ BoundKid(row.group, n) = BoundKid(g, n)
        BY <1>0
      <4>2. At(v, "commit") => h[v].report \in reports
        BY <3>1 DEF Inv, Once, Stand, At
      <4>3. Sure(v)[BoundKid(row.group, n)] = h[v].snap[n]
        BY <3>1, <3>3 DEF Snapped
      <4>4. Sure(v)'[BoundKid(g, n)] = Sure(v)[BoundKid(g, n)]
        BY <1>0, <3>1, <3>3, <4>1, <4>2, <4>3, SureStays DEF Inv
      <4>5. QED BY <4>1, <4>3, <4>4
    <3>4. QED BY <3>1, <3>2, <3>3 DEF Snapped, Grows
  <2>3. QED BY <2>1, <2>2
<1>6. Truths'
  <2>1. ASSUME NEW v \in Workers, NEW n \in 1..Len(h'[v].out)
        PROVE  Truth(g, n, h[v].out[n])'
    <3>1. CASE v = w
      BY <1>0, <1>1, <2>1, <3>1
    <3>2. CASE v # w
      <4>1. /\ h'[v] = h[v] /\ h[v].out \in Seq(Nat) /\ Len(h[v].out) <= NumCalls
            /\ Truth(g, n, h[v].out[n])
        <5>1. h'[v] = h[v] /\ Stand(v) /\ h[v] \in Stands
          BY <1>1, <3>2 DEF Inv, Typed
        <5>2. h[v].out \in Seq(Nat)
          BY <5>1 DEF Stands
        <5>3. Truth(g, n, h[v].out[n])
          BY <1>0, <5>1, <2>1 DEF Inv, Truths
        <5>4. Len(h[v].out) <= NumCalls
          BY <5>1, <5>2, Naturals DEF Stand
        <5>5. QED BY <5>1, <5>2, <5>3, <5>4
      <4>2. n \in Calls /\ h[v].out[n] \in Nat
        BY <2>1, <4>1, Naturals DEF Calls
      <4>3. QED
        BY <1>0, <4>1, <4>2, TruthStays DEF Inv
    <3>3. QED BY <3>1, <3>2
  <2>2. ASSUME NEW q \in sent'
        PROVE  /\ ~row'.active /\ q.group = row'.group
               /\ q.out \in Seq(Nat) /\ Len(q.out) = NumCalls
               /\ \A n \in Calls : Truth(q.group, n, q.out[n])'
    <3>1. CASE q \in sent
      <4>1. /\ q.group = g /\ q.out \in Seq(Nat) /\ Len(q.out) = NumCalls
            /\ \A n \in Calls : Truth(g, n, q.out[n])
        BY <1>0, <3>1 DEF Inv, Truths
      <4>2. \A n \in Calls : q.out[n] \in Nat
        BY <4>1, Naturals DEF Calls
      <4>3. \A n \in Calls : Truth(g, n, q.out[n])'
        BY <1>0, <4>1, <4>2, TruthStays DEF Inv
      <4>4. QED BY <1>0, <4>1, <4>3
    <3>2. CASE q = [group |-> row.group, out |-> x.out] /\ Len(x.out) = NumCalls
      <4>1. q.group = g /\ q.out = x.out /\ x.out \in Seq(Nat)
        BY <3>2 DEF Stands
      <4>2. \A n \in Calls : Truth(g, n, x.out[n])'
        BY <1>0, <3>2, Naturals DEF Calls
      <4>3. QED BY <1>0, <3>2, <4>1, <4>2
    <3>3. QED BY <2>2, <3>1, <3>2
  <2>3. ASSUME NEW v \in Workers, NEW n \in 1..Len(h'[v].out)
        PROVE  Truth(row.group, n, h[v].out[n])'
    BY <1>0, <2>1
  <2>4. QED BY <2>2, <2>3 DEF Truths
<1>7. QED
  BY <1>2, <1>3, <1>4, <1>5, <1>6 DEF Inv
-----------------------------------------------------------------------------
(* A handler is a live worker's. *)
LEMMA WorkerLives ==
  ASSUME Inv, NEW w \in Workers, ~At(w, "idle")
  PROVE  w \in live
BY NobodyHasNothing DEF Inv, Stand, At

LEMMA ClosedOrNot ==
  ASSUME NEW g, NEW results
  PROVE  Closed(g, results) \in BOOLEAN
BY DEF Closed

(* Without a repeated id a group has no children but those of its calls, so *)
(* that as many results as calls are the results of all.                    *)
LEMMA ClosedSeesAll ==
  ASSUME Typed, Bound, "repeat" \notin odd, NEW g \in Rounds, spawn[g].bindings # 0,
         NEW results \in [Kids -> Results], Closed(g, results), NEW n \in Calls
  PROVE  Settled(results[BoundKid(g, n)])
<1> DEFINE G == {g} \X Calls
           S == {c \in Kids : key[c[1]] = g /\ Settled(results[c])}
<1>1. IsFiniteSet(G) /\ Cardinality(G) = NumCalls
  <2>1. IsFiniteSet(Calls) /\ Cardinality(Calls) = NumCalls
    BY FS_Interval, Naturals DEF Calls
  <2>2. IsFiniteSet({g}) /\ Cardinality({g}) = 1
    BY FS_Singleton
  <2>3. IsFiniteSet(G) /\ Cardinality(G) = Cardinality({g}) * Cardinality(Calls)
    BY <2>1, <2>2, FS_Product
  <2>4. QED BY <2>1, <2>2, <2>3, Naturals
<1>2. S \subseteq G
  BY DEF Kids, Bound
<1>3. Cardinality(S) >= NumCalls
  BY DEF Closed
<1>4. S = G
  <2>1. /\ Cardinality(S) <= Cardinality(G)
        /\ Cardinality(G) = Cardinality(S) => G = S
    BY <1>1, <1>2, FS_Subset
  <2>2. Cardinality(S) \in Nat
    BY <1>1, <1>2, FS_Subset, FS_CardinalityType
  <2>3. QED BY <1>1, <1>3, <2>1, <2>2, Naturals
<1>5. spawn[g].bindings = g
  BY Naturals DEF Bound, Typed, GroupRows, Rounds
<1>6. BoundKid(g, n) \in G
  BY <1>5 DEF BoundKid
<1>7. QED
  BY <1>4, <1>6

(* What a handler has when it looks at its group. *)
LEMMA Looking ==
  ASSUME Inv, NEW w \in Workers, h[w].at \notin Opening \cup {"idle"}
  PROVE  /\ w \in live /\ ~row.active /\ h[w] \in Stands
         /\ row.group \in Rounds /\ spawn[row.group].bindings # 0
         /\ \A n \in Calls : BoundKid(row.group, n) \in Kids
         /\ h[w].report \in reports \cup {NoReport}
<1>1. w \in live /\ ~row.active /\ h[w] \in Stands /\ h[w].report \in reports \cup {NoReport}
  BY WorkerLives DEF Inv, Typed, Stand, Once, At
<1>2. row.group \in Rounds /\ spawn[row.group].bindings # 0
  BY <1>1, Naturals DEF Inv, Typed, Stage, ParentRows, Rounds
<1>3. QED
  BY <1>1, <1>2, BoundKidIs DEF Inv

(* A step that changes nothing of results, citations and history. *)
LEMMA GrowsNot ==
  ASSUME Inv, UNCHANGED <<result, citations, odd>>
  PROVE  Grows
BY DEF Inv, Typed, Grows

(* A snapshot has the results of the calls' children. *)
LEMMA SnapIs ==
  ASSUME Inv, NEW g \in Rounds, spawn[g].bindings # 0, NEW results \in [Kids -> Results]
  PROVE  /\ Snap(g, results) \in [Calls -> Results]
         /\ \A n \in Calls : Snap(g, results)[n] = results[BoundKid(g, n)]
BY BoundKidIs DEF Inv, Snap

LEMMA UpsertKeeps ==
  ASSUME Inv, NEW w \in Workers, UpsertResult(w)
  PROVE  Inv'
<1> PICK g : g = row.group
  OBVIOUS
<1> PICK r : r = h[w].report
  OBVIOUS
<1> PICK sn : sn = Snap(g, Stored(r))
  OBVIOUS
<1> PICK cl \in BOOLEAN : cl = Closed(g, Stored(r))
  BY ClosedOrNot
<1> PICK x : x = [h[w] EXCEPT !.at = "commit", !.closed = cl, !.snap = sn]
  OBVIOUS
<1>1. /\ h[w].at = "upsert" /\ w \in live /\ ~row.active /\ h[w] \in Stands
      /\ g \in Rounds /\ spawn[g].bindings # 0
      /\ Stand(w) /\ r \in reports /\ r \in Reported /\ key[r.kid[1]] = g
  BY Looking DEF UpsertResult, At, Opening, Inv, Typed, Stand
<1>2. h' = [h EXCEPT ![w] = x]
  BY <1>1 DEF UpsertResult, Seen, Inv, Typed
<1>3. /\ Stored(r) \in [Kids -> Results]
      /\ sn \in [Calls -> Results] /\ \A n \in Calls : sn[n] = Stored(r)[BoundKid(g, n)]
  BY <1>1, StoredKeeps, SnapIs DEF Inv
<1>4. /\ x \in Stands /\ x.at = "commit" /\ x.report = r /\ x.out = h[w].out
      /\ x.snap = sn /\ x.closed = cl
  BY <1>1, <1>3 DEF Stands, Places
<1>5. h'[w] = x
  BY <1>1, <1>2, <1>4, HandlerMoves DEF Inv
<1>6. UNCHANGED <<row, live, round, key, spawn, result, kid, reports, citations, sent, odd>>
  BY DEF UpsertResult, spawnVars, kidVars
<1>7. x.out = <<>> /\ Len(x.out) = 0
  BY <1>1, <1>4 DEF Stand, Ending
<1>8. Stand(w)'
  BY <1>1, <1>4, <1>5, <1>6, <1>7, NobodyHasNothing DEF Stand, At, Opening, Ending
<1>9. Snapped(w)'
  <2>1. \A n \in Calls : BoundKid(row.group, n)' = BoundKid(g, n)
    BY <1>6 DEF BoundKid
  <2>2. Sure(w)' = Stored(r)
    BY <1>4, <1>5, <1>6 DEF Sure, At, Stored
  <2>3. x.closed => "repeat" \in odd \/ \A n \in Calls : Settled(x.snap[n])
    <3>1. cl => Closed(g, Stored(r))
      OBVIOUS
    <3>2. Closed(g, Stored(r)) => "repeat" \in odd \/ \A n \in Calls : Settled(sn[n])
      BY <1>1, <1>3, ClosedSeesAll DEF Inv
    <3>3. QED BY <1>4, <3>1, <3>2
  <2>4. QED BY <1>3, <1>4, <1>5, <1>6, <2>1, <2>2, <2>3 DEF Snapped, Looked, Ending
<1>10. Grows /\ row' \in ParentRows /\ spawn' \in [Rounds -> GroupRows]
  BY <1>6, GrowsNot DEF Inv, Typed
<1>11. \A n \in 1..Len(x.out) : Truth(row.group, n, x.out[n])'
  BY <1>7
<1>12. /\ UNCHANGED <<round, key, kid, live>> /\ ~row'.active /\ row'.group = row.group
       /\ \A d \in Rounds : spawn'[d].bindings = spawn[d].bindings
       /\ "repeat" \in odd' => "repeat" \in odd
       /\ x.report = h[w].report /\ reports' = reports
  BY <1>1, <1>4, <1>6
<1>13. \A c \in Kids : Settled(result'[c]) /\ ~Settled(result[c]) => FALSE
  BY <1>6
<1>14. \A q \in sent' : q \in sent
  BY <1>6
<1>15. QED
  BY <1>1, <1>2, <1>4, <1>8, <1>9, <1>10, <1>11, <1>12, <1>13, <1>14, Proceeds

LEMMA LoadGroupKeeps ==
  ASSUME Inv, NEW w \in Workers, LoadGroup(w)
  PROVE  Inv'
<1> PICK g : g = row.group
  OBVIOUS
<1> PICK sn : sn = Snap(g, result)
  OBVIOUS
<1> PICK cl \in BOOLEAN : cl = Closed(g, result)
  BY ClosedOrNot
<1> PICK sub : sub = spawn[g].submitted
  OBVIOUS
<1> PICK x : x = [h[w] EXCEPT !.at = "save", !.closed = cl, !.snap = sn, !.submitted = sub]
  OBVIOUS
<1>1. /\ h[w].at = "load" /\ w \in live /\ ~row.active /\ h[w] \in Stands
      /\ g \in Rounds /\ spawn[g].bindings # 0 /\ Stand(w) /\ sub \in BOOLEAN
  BY Looking DEF LoadGroup, At, Opening, Inv, Typed, GroupRows
<1>2. h' = [h EXCEPT ![w] = x]
  BY <1>1 DEF LoadGroup, Inv, Typed
<1>3. sn \in [Calls -> Results] /\ \A n \in Calls : sn[n] = result[BoundKid(g, n)]
  BY <1>1, SnapIs DEF Inv, Typed
<1>4. /\ x \in Stands /\ x.at = "save" /\ x.report = h[w].report /\ x.out = h[w].out
      /\ x.snap = sn /\ x.closed = cl
  BY <1>1, <1>3 DEF Stands, Places
<1>5. h'[w] = x
  BY <1>1, <1>2, <1>4, HandlerMoves DEF Inv
<1>6. UNCHANGED <<row, live, round, key, spawn, result, kid, reports, citations, sent, odd>>
  BY DEF LoadGroup, spawnVars, kidVars
<1>7. x.out = <<>> /\ Len(x.out) = 0
  BY <1>1, <1>4 DEF Stand, Ending
<1>8. Stand(w)'
  BY <1>1, <1>4, <1>5, <1>6, <1>7, NobodyHasNothing DEF Stand, At, Opening, Ending
<1>9. Snapped(w)'
  <2>1. \A n \in Calls : BoundKid(row.group, n)' = BoundKid(g, n)
    BY <1>6 DEF BoundKid
  <2>2. Sure(w)' = result
    BY <1>4, <1>5, <1>6 DEF Sure, At
  <2>3. x.closed => "repeat" \in odd \/ \A n \in Calls : Settled(x.snap[n])
    <3>1. cl => Closed(g, result)
      OBVIOUS
    <3>2. Closed(g, result) => "repeat" \in odd \/ \A n \in Calls : Settled(sn[n])
      BY <1>1, <1>3, ClosedSeesAll DEF Inv, Typed
    <3>3. QED BY <1>4, <3>1, <3>2
  <2>4. QED BY <1>3, <1>4, <1>5, <1>6, <2>1, <2>2, <2>3 DEF Snapped, Looked, Ending
<1>10. Grows /\ row' \in ParentRows /\ spawn' \in [Rounds -> GroupRows]
  BY <1>6, GrowsNot DEF Inv, Typed
<1>11. \A n \in 1..Len(x.out) : Truth(row.group, n, x.out[n])'
  BY <1>7
<1>12. /\ UNCHANGED <<round, key, kid, live>> /\ ~row'.active /\ row'.group = row.group
       /\ \A d \in Rounds : spawn'[d].bindings = spawn[d].bindings
       /\ "repeat" \in odd' => "repeat" \in odd
       /\ x.report = h[w].report /\ reports' = reports
  BY <1>1, <1>4, <1>6
<1>13. \A c \in Kids : Settled(result'[c]) /\ ~Settled(result[c]) => FALSE
  BY <1>6
<1>14. \A q \in sent' : q \in sent
  BY <1>6
<1>15. QED
  BY <1>1, <1>2, <1>4, <1>8, <1>9, <1>10, <1>11, <1>12, <1>13, <1>14, Proceeds
-----------------------------------------------------------------------------
(* What a handler commits is the outcome of its report. *)
LEMMA SureGrows ==
  ASSUME Inv, NEW w \in Workers, result' = Sure(w), UNCHANGED citations,
         odd \subseteq odd', odd' \subseteq Oddities
  PROVE  /\ Grows
         /\ \A c \in Kids : Settled(result'[c]) /\ ~Settled(result[c])
                         => h[w].report \in reports /\ h[w].report.kid = c
                            /\ result'[c] = h[w].report.outcome
<1>1. CASE At(w, "commit")
  <2>1. h[w].report \in reports /\ h[w].report \in Reported /\ result' = Stored(h[w].report)
    BY <1>1 DEF Inv, Typed, Once, Stand, At, Sure
  <2>2. QED BY <2>1, StoredKeeps DEF Inv, Typed, Grows
<1>2. CASE ~At(w, "commit")
  BY <1>2 DEF Inv, Typed, Grows, Sure
<1>3. QED BY <1>1, <1>2

(* A handler returns, whatever it has recorded. *)
LEMMA Returns ==
  ASSUME Inv, NEW w \in Workers, h[w].at \notin Opening \cup {"idle"}, Return(w),
         UNCHANGED <<live, round, key, kid, citations, sent>>, result' = Sure(w),
         odd \subseteq odd', odd' \subseteq Oddities, "repeat" \in odd' => "repeat" \in odd,
         row' \in ParentRows, ~row'.active, row'.group = row.group,
         spawn' \in [Rounds -> GroupRows],
         \A g \in Rounds : spawn'[g].bindings = spawn[g].bindings
  PROVE  Inv'
<1> PICK x : x = NoHandler
  OBVIOUS
<1>1. /\ x \in Stands /\ x.at = "idle" /\ x.out = <<>> /\ Len(x.out) = 0
      /\ x.report = NoReport /\ w \in live /\ ~row.active
  BY NobodyHasNothing, Looking
<1>2. h' = [h EXCEPT ![w] = x] /\ reports' = reports \ {h[w].report}
  BY DEF Return
<1>3. h'[w] = x
  BY <1>1, <1>2, HandlerMoves DEF Inv
<1>4. Stand(w)' /\ Snapped(w)'
  BY <1>1, <1>3 DEF Stand, Snapped, At, Opening, Ending, Looked
<1>5. \A n \in 1..Len(x.out) : Truth(row.group, n, x.out[n])'
  BY <1>1
<1>6. /\ Grows
      /\ \A c \in Kids : Settled(result'[c]) /\ ~Settled(result[c])
                         => h[w].report \in reports /\ h[w].report.kid = c
                            /\ result'[c] = h[w].report.outcome
  BY SureGrows
<1>7. \A q \in sent' : q \in sent
  OBVIOUS
<1>8. QED
  BY <1>1, <1>2, <1>4, <1>5, <1>6, <1>7, Proceeds

(* A handler goes on to the outputs, or on with them. *)
LEMMA GoesOn ==
  ASSUME Inv, NEW w \in Workers, NEW place \in Ending \cup {"save"}, Goto(w, place),
         h[w].at \in Looked,
         place \in Ending => h[w].closed,
         place \in {"finalize", "save"} => h[w].at \notin Ending,
         place \in Ending \ {"finalize"} => h[w].at \in Ending \ {"finalize"},
         UNCHANGED <<live, round, key, kid, reports, citations, odd>>, result' = Sure(w),
         row' \in ParentRows, ~row'.active, row'.group = row.group,
         spawn' \in [Rounds -> GroupRows],
         \A g \in Rounds : spawn'[g].bindings = spawn[g].bindings,
         \A q \in sent' : q \in sent \/ (q = [group |-> row.group, out |-> h[w].out]
                                         /\ Len(h[w].out) = NumCalls)
  PROVE  Inv'
<1> PICK x : x = [h[w] EXCEPT !.at = place]
  OBVIOUS
<1> PICK g : g = row.group
  OBVIOUS
<1>1. /\ w \in live /\ ~row.active /\ h[w] \in Stands /\ Stand(w) /\ Snapped(w)
      /\ g \in Rounds /\ spawn[g].bindings # 0 /\ g = row'.group
      /\ \A n \in Calls : BoundKid(g, n)' = BoundKid(g, n)
  <2>1. /\ w \in live /\ ~row.active /\ h[w] \in Stands
        /\ g \in Rounds /\ spawn[g].bindings # 0
    BY Looking DEF Looked, Ending, Opening
  <2>2. QED BY <2>1, KidsAreKept DEF Inv
<1>2. /\ h' = [h EXCEPT ![w] = x] /\ x \in Stands /\ x.at = place /\ x.out = h[w].out
      /\ x.report = h[w].report /\ x.closed = h[w].closed /\ x.snap = h[w].snap
  BY <1>1 DEF Goto, Stands, Places, Inv, Typed
<1>3. h'[w] = x
  BY <1>1, <1>2, HandlerMoves DEF Inv
<1>4. Stand(w)'
  <2>1. h[w].at \notin Opening \cup {"idle"}
    BY DEF Looked, Ending, Opening
  <2>2. place \in Ending => place \notin {"upsert", "commit", "idle", "save"} \cup Opening
    BY DEF Ending, Opening
  <2>3. h[w].at \notin Ending => h[w].out = <<>> /\ Len(h[w].out) = 0
    BY <1>1, NobodyHasNothing DEF Stand
  <2>4. place = "finalize" => Len(h[w].out) < NumCalls
    BY <2>3, Naturals
  <2>5. place \in Ending \ {"finalize"} => Len(h[w].out) = NumCalls
    BY <1>1 DEF Stand
  <2>6. place \notin Ending => h[w].out = <<>> /\ place = "save"
    BY <2>3
  <2>7. QED
    BY <1>1, <1>2, <1>3, <2>2, <2>4, <2>5, <2>6 DEF Stand, At, Opening
<1>5. Snapped(w)'
  <2>1. \A n \in Calls : BoundKid(row.group, n)' = BoundKid(g, n)
    BY <1>1
  <2>2. x.at # "commit" /\ x.at \in Looked
    BY <1>2 DEF Ending, Looked
  <2>3. Sure(w)' = Sure(w)
    BY <1>3, <2>2 DEF Sure, At
  <2>4. QED BY <1>1, <1>2, <1>3, <2>1, <2>2, <2>3 DEF Snapped
<1>6. /\ Grows
      /\ \A c \in Kids : Settled(result'[c]) /\ ~Settled(result[c])
                         => h[w].report \in reports /\ h[w].report.kid = c
                            /\ result'[c] = h[w].report.outcome
  <2>1. odd' = odd /\ odd' \subseteq Oddities
    BY DEF Inv, Typed
  <2>2. QED BY <2>1, SureGrows
<1>7. ASSUME NEW n \in 1..Len(x.out)
      PROVE  Truth(row.group, n, x.out[n])'
  <2>1. /\ x.out \in Seq(Nat) /\ Len(x.out) <= NumCalls /\ Truth(g, n, x.out[n])
    <3>1. x.out \in Seq(Nat)
      BY <1>2 DEF Stands
    <3>2. Truth(g, n, x.out[n])
      BY <1>2, <1>7 DEF Inv, Truths
    <3>3. Len(x.out) <= NumCalls
      BY <1>1, <1>2, <3>1, Naturals, NobodyHasNothing DEF Stand
    <3>4. QED BY <3>1, <3>2, <3>3
  <2>2. n \in Calls /\ x.out[n] \in Nat
    BY <1>7, <2>1, Naturals DEF Calls
  <2>3. Truth(g, n, x.out[n])'
    BY <1>1, <1>6, <2>1, <2>2, TruthStays DEF Inv
  <2>4. QED BY <1>1, <2>3
<1>8. /\ "repeat" \in odd' => "repeat" \in odd
      /\ \A q \in sent' : q \in sent \/ (q = [group |-> row.group, out |-> x.out]
                                         /\ Len(x.out) = NumCalls)
  BY <1>2
<1>9. QED
  BY <1>1, <1>2, <1>4, <1>5, <1>6, <1>7, <1>8, Proceeds

(* One more output, which is true of its call. *)
LEMMA OutputKeeps ==
  ASSUME Inv, NEW w \in Workers, At(w, "finalize"), NEW o \in Nat, Output(w, o),
         UNCHANGED <<row, live, round, key, spawn, kid, result, reports, sent>>, Grows,
         "repeat" \in odd' => "repeat" \in odd,
         \A n \in Calls : n = Len(h[w].out) + 1 => Truth(row.group, n, o)'
  PROVE  Inv'
<1> PICK place : place = IF NextCall(w) = NumCalls THEN "submit" ELSE "finalize"
  OBVIOUS
<1> PICK x : x = [h[w] EXCEPT !.out = Append(@, o), !.at = place]
  OBVIOUS
<1> PICK g : g = row.group
  OBVIOUS
<1> PICK old : old = h[w].out
  OBVIOUS
<1>1. /\ w \in live /\ ~row.active /\ h[w] \in Stands /\ Stand(w) /\ Snapped(w)
      /\ g \in Rounds /\ spawn[g].bindings # 0
      /\ old \in Seq(Nat) /\ Len(old) < NumCalls
      /\ h[w].at = "finalize" /\ h[w].closed
  <2>1. /\ w \in live /\ ~row.active /\ h[w] \in Stands
        /\ g \in Rounds /\ spawn[g].bindings # 0
    BY Looking DEF At, Opening
  <2>2. Stand(w) /\ Snapped(w)
    BY DEF Inv
  <2>3. QED BY <2>1, <2>2 DEF At, Stands, Stand, Snapped, Ending
<1>2. /\ h' = [h EXCEPT ![w] = x] /\ x \in Stands /\ x.at = place /\ x.out = Append(old, o)
      /\ x.report = h[w].report /\ x.closed = h[w].closed /\ x.snap = h[w].snap
  <2>1. Append(old, o) \in Seq(Nat) /\ place \in {"submit", "finalize"}
    BY <1>1
  <2>2. x \in Stands /\ x.at = place /\ x.out = Append(old, o)
        /\ x.report = h[w].report /\ x.closed = h[w].closed /\ x.snap = h[w].snap
    BY <1>1, <2>1 DEF Stands, Places, Ending
  <2>3. h' = [h EXCEPT ![w] = x]
    BY <1>1 DEF Output, Inv, Typed
  <2>4. QED BY <2>2, <2>3
<1>3. h'[w] = x
  BY <1>1, <1>2, HandlerMoves DEF Inv
<1>4. /\ Len(x.out) = Len(old) + 1 /\ x.out[Len(old) + 1] = o
      /\ \A n \in 1..Len(old) : x.out[n] = old[n]
  BY <1>1, <1>2
<1>5. /\ place = "submit" => Len(x.out) = NumCalls
      /\ place = "finalize" => Len(x.out) < NumCalls
      /\ place \in {"submit", "finalize"}
  BY <1>1, <1>4, Naturals DEF NextCall
<1>6. Stand(w)'
  BY <1>1, <1>2, <1>3, <1>5, Naturals DEF Stand, At, Opening, Ending
<1>7. Snapped(w)'
  <2>1. Sure(w)' = Sure(w) /\ Sure(w) = result
    BY <1>1, <1>2, <1>3, <1>5 DEF Sure, At
  <2>2. \A n \in Calls : BoundKid(row.group, n)' = BoundKid(row.group, n)
    BY DEF BoundKid
  <2>3. /\ h'[w].at \in Looked /\ h'[w].at \in Ending
        /\ h'[w].closed /\ h'[w].snap = h[w].snap /\ h[w].at \in Looked
    BY <1>1, <1>2, <1>3, <1>5 DEF Looked, Ending
  <2>4. ASSUME NEW n \in Calls, Settled(h'[w].snap[n])
        PROVE  Sure(w)'[BoundKid(row.group, n)'] = h'[w].snap[n]
    BY <1>1, <2>1, <2>2, <2>3, <2>4 DEF Snapped
  <2>5. "repeat" \in odd' \/ \A n \in Calls : Settled(h'[w].snap[n])
    BY <1>1, <2>3 DEF Snapped, Grows
  <2>6. QED BY <2>3, <2>4, <2>5 DEF Snapped
<1>8. ASSUME NEW n \in 1..Len(x.out)
      PROVE  Truth(row.group, n, x.out[n])'
  <2>1. n \in Calls
    BY <1>1, <1>4, <1>8, Naturals DEF Calls
  <2>2. CASE n = Len(old) + 1
    BY <1>4, <2>1, <2>2
  <2>3. CASE n # Len(old) + 1
    <3>1. n \in 1..Len(old) /\ x.out[n] = old[n] /\ old[n] \in Nat
      BY <1>1, <1>4, <1>8, <2>3
    <3>2. Truth(g, n, old[n])
      BY <3>1 DEF Inv, Truths
    <3>3. Truth(g, n, old[n])'
      BY <1>1, <2>1, <3>1, <3>2, TruthStays DEF Inv
    <3>4. QED BY <3>1, <3>3
  <2>4. QED BY <2>2, <2>3
<1>9. /\ row' \in ParentRows /\ spawn' \in [Rounds -> GroupRows]
      /\ \A d \in Rounds : spawn'[d].bindings = spawn[d].bindings
      /\ \A c \in Kids : Settled(result'[c]) /\ ~Settled(result[c]) => FALSE
      /\ \A q \in sent' : q \in sent
      /\ UNCHANGED <<round, key, kid, live>> /\ ~row'.active /\ row'.group = row.group
      /\ x.report = h[w].report /\ reports' = reports
  BY <1>1, <1>2 DEF Inv, Typed
<1>10. QED
  BY <1>1, <1>2, <1>6, <1>7, <1>8, <1>9, Proceeds
-----------------------------------------------------------------------------
LEMMA CommitKeeps ==
  ASSUME Inv, NEW w \in Workers, CommitResult(w)
  PROVE  Inv'
<1>1. /\ h[w].at = "commit" /\ result' = Sure(w)
      /\ UNCHANGED <<row, live, round, key, spawn, kid, citations, sent, odd>>
  BY DEF CommitResult, Sure, At, kidVars
<1>2. /\ h[w].at \notin Opening \cup {"idle"} /\ h[w].at \in Looked /\ h[w].at \notin Ending
  BY <1>1 DEF Opening, Ending, Looked
<1>3. ~row.active /\ row' \in ParentRows /\ spawn' \in [Rounds -> GroupRows]
  BY <1>1, <1>2, Looking DEF Inv, Typed
<1>4. CASE Return(w)
  BY <1>1, <1>2, <1>3, <1>4, Returns DEF Inv, Typed
<1>5. CASE ~Return(w)
  <2> PICK place : place = IF h[w].closed /\ ~h[w].submitted THEN "finalize" ELSE "save"
    OBVIOUS
  <2>1. /\ place \in Ending \cup {"save"} /\ Goto(w, place) /\ reports' = reports
        /\ place \in Ending => h[w].closed
        /\ place \notin Ending \ {"finalize"}
    BY <1>5 DEF CommitResult, Ending
  <2>2. QED
    BY <1>1, <1>2, <1>3, <2>1, GoesOn
<1>6. QED BY <1>4, <1>5

(* Only the mark on the group changes. *)
LEMMA MarkKeeps ==
  ASSUME Inv, NEW w \in Workers, h[w].at \notin Opening \cup {"idle"}, NEW b \in BOOLEAN,
         spawn' = [spawn EXCEPT ![row.group].submitted = b]
  PROVE  /\ spawn' \in [Rounds -> GroupRows]
         /\ \A g \in Rounds : spawn'[g].bindings = spawn[g].bindings
<1>1. spawn \in [Rounds -> GroupRows] /\ row.group \in Rounds
  BY Looking DEF Inv, Typed
<1>2. [spawn[row.group] EXCEPT !.submitted = b] \in GroupRows
  BY <1>1 DEF GroupRows
<1>3. spawn' = [spawn EXCEPT ![row.group] = [spawn[row.group] EXCEPT !.submitted = b]]
  BY <1>1
<1>4. [spawn[row.group] EXCEPT !.submitted = b].bindings = spawn[row.group].bindings
  BY <1>1 DEF GroupRows
<1>5. QED BY <1>1, <1>2, <1>3, <1>4

LEMMA SaveKeeps ==
  ASSUME Inv, NEW w \in Workers, SaveGroup(w)
  PROVE  Inv'
<1>1. /\ h[w].at = "save" /\ result' = Sure(w)
      /\ UNCHANGED <<row, live, round, key, kid, citations, sent, odd>>
  BY DEF SaveGroup, Sure, At, kidVars
<1>2. /\ h[w].at \notin Opening \cup {"idle"} /\ h[w].at \in Looked /\ h[w].at \notin Ending
  BY <1>1 DEF Opening, Ending, Looked
<1>3. ~row.active /\ row' \in ParentRows /\ h[w] \in Stands
  BY <1>1, <1>2, Looking DEF Inv, Typed
<1>4. /\ spawn' \in [Rounds -> GroupRows]
      /\ \A g \in Rounds : spawn'[g].bindings = spawn[g].bindings
  <2>1. h[w].submitted \in BOOLEAN
    BY <1>3 DEF Stands
  <2>2. QED BY <1>2, <2>1, MarkKeeps DEF SaveGroup
<1>5. CASE Return(w)
  BY <1>1, <1>2, <1>3, <1>4, <1>5, Returns DEF Inv, Typed
<1>6. CASE ~Return(w)
  <2>1. Goto(w, "finalize") /\ reports' = reports /\ h[w].closed
    BY <1>6 DEF SaveGroup
  <2>2. QED
    BY <1>1, <1>2, <1>3, <1>4, <2>1, GoesOn DEF Ending
<1>7. QED BY <1>5, <1>6

LEMMA FinalizeKeeps ==
  ASSUME Inv, NEW w \in Workers, Finalize(w)
  PROVE  Inv'
<1> PICK n : n = NextCall(w)
  OBVIOUS
<1> PICK c : c = BoundKid(row.group, n)
  OBVIOUS
<1>1. /\ At(w, "finalize") /\ citations' = Append(citations, c) /\ Output(w, Len(citations'))
      /\ UNCHANGED <<row, live, round, key, spawn, kid, result, reports, sent, odd>>
  BY DEF Finalize, spawnVars, kidVars
<1>2. /\ n \in Calls /\ n = Len(h[w].out) + 1 /\ c \in Kids
  <2>1. n = Len(h[w].out) + 1 /\ h[w].out \in Seq(Nat) /\ Len(h[w].out) < NumCalls
    BY <1>1 DEF NextCall, Inv, Typed, Stands, Stand, At
  <2>2. n \in Calls
    BY <2>1, Naturals DEF Calls
  <2>3. QED BY <1>1, <2>1, <2>2, Looking DEF At, Opening
<1> PICK o : o = Len(citations) + 1
  OBVIOUS
<1>3. /\ Grows /\ o \in Nat /\ o = Len(citations') /\ citations'[o] = c /\ o # Error
  BY <1>1, <1>2 DEF Inv, Typed, Grows, Error
<1>4. ASSUME NEW m \in Calls, m = Len(h[w].out) + 1
      PROVE  Truth(row.group, m, o)'
  <2>1. m = n /\ BoundKid(row.group, m)' = c
    BY <1>1, <1>2, <1>4 DEF BoundKid
  <2>2. o <= Len(citations') /\ citations'[o] = BoundKid(row.group, m)'
    BY <1>3, <2>1
  <2>3. QED BY <1>3, <2>2 DEF Truth
<1>5. QED
  BY <1>1, <1>3, <1>4, OutputKeeps

LEMMA FinalizeFailsKeeps ==
  ASSUME Inv, NEW w \in Workers, FinalizeFails(w)
  PROVE  Inv'
<1> PICK c : c = BoundKid(row.group, NextCall(w))
  OBVIOUS
<1>1. /\ At(w, "finalize") /\ Output(w, Error) /\ odd' = odd \cup {"failure"}
      /\ citations' \in {citations, Append(citations, c)}
      /\ UNCHANGED <<row, live, round, key, spawn, kid, result, reports, sent>>
  BY DEF FinalizeFails, spawnVars, kidVars
<1>2. c \in Kids
  <2>1. /\ NextCall(w) = Len(h[w].out) + 1 /\ h[w].out \in Seq(Nat) /\ Len(h[w].out) < NumCalls
    BY <1>1 DEF NextCall, Inv, Typed, Stands, Stand, At
  <2>2. NextCall(w) \in Calls
    BY <2>1, Naturals DEF Calls
  <2>3. QED BY <1>1, <2>2, Looking DEF At, Opening
<1>3. Grows
  <2>1. /\ citations' \in Seq(Kids) /\ Len(citations) <= Len(citations')
        /\ \A k \in 1..Len(citations) : citations'[k] = citations[k]
    <3>1. citations \in Seq(Kids)
      BY DEF Inv, Typed
    <3>2. CASE citations' = citations
      BY <3>1, <3>2
    <3>3. CASE citations' = Append(citations, c)
      BY <1>2, <3>1, <3>3
    <3>4. QED BY <1>1, <3>2, <3>3
  <2>2. odd \subseteq odd' /\ odd' \subseteq Oddities
    BY <1>1 DEF Inv, Typed, Oddities
  <2>3. QED BY <1>1, <2>1, <2>2 DEF Inv, Typed, Grows
<1>4. \A m \in Calls : Truth(row.group, m, Error)'
  BY <1>1 DEF Truth
<1>5. QED
  BY <1>1, <1>3, <1>4, OutputKeeps DEF Error

LEMMA NothingFoundKeeps ==
  ASSUME Inv, NEW w \in Workers, NothingFound(w)
  PROVE  Inv'
<1> PICK n : n = NextCall(w)
  OBVIOUS
<1>1. /\ At(w, "finalize") /\ Output(w, Error) /\ h[w].snap[n] # "located"
      /\ UNCHANGED <<row, live, round, key, spawn, kid, result, reports, citations, sent, odd>>
  BY DEF NothingFound, spawnVars, kidVars
<1>2. /\ n \in Calls /\ n = Len(h[w].out) + 1
  <2>1. n = Len(h[w].out) + 1 /\ h[w].out \in Seq(Nat) /\ Len(h[w].out) < NumCalls
    BY <1>1 DEF NextCall, Inv, Typed, Stands, Stand, At
  <2>2. QED BY <2>1, Naturals DEF Calls
<1>3. Grows
  BY <1>1, GrowsNot
<1>4. "repeat" \in odd \/ result[BoundKid(row.group, n)] = "nothing"
  <2>1. /\ h[w].closed => "repeat" \in odd \/ Settled(h[w].snap[n])
        /\ h[w].closed
        /\ Settled(h[w].snap[n]) => result[BoundKid(row.group, n)] = h[w].snap[n]
    BY <1>1, <1>2 DEF Inv, Snapped, Looked, Ending, At, Sure
  <2>2. QED BY <1>1, <2>1 DEF Settled, Outcomes
<1>5. \A m \in Calls : m = Len(h[w].out) + 1 => Truth(row.group, m, Error)'
  BY <1>1, <1>2, <1>4 DEF Truth, BoundKid
<1>6. QED
  BY <1>1, <1>3, <1>5, OutputKeeps DEF Error

LEMMA SubmitKeeps ==
  ASSUME Inv, NEW w \in Workers, Submit(w)
  PROVE  Inv'
<1> PICK place : place = IF h[w].job = "recover" THEN "send" ELSE "claim"
  OBVIOUS
<1>1. /\ h[w].at = "submit" /\ Goto(w, place) /\ result' = Sure(w)
      /\ UNCHANGED <<row, live, round, key, kid, reports, citations, sent, odd>>
  BY DEF Submit, Sure, At, kidVars
<1>2. /\ h[w].at \notin Opening \cup {"idle"} /\ h[w].at \in Looked
      /\ h[w].at \in Ending \ {"finalize"} /\ place \in Ending \ {"finalize"}
      /\ place # "save"
  BY <1>1 DEF Opening, Ending, Looked
<1>3. ~row.active /\ row' \in ParentRows /\ h[w].closed
  BY <1>1, <1>2, Looking DEF Inv, Typed, Snapped
<1>4. /\ spawn' \in [Rounds -> GroupRows]
      /\ \A g \in Rounds : spawn'[g].bindings = spawn[g].bindings
  BY <1>2, MarkKeeps DEF Submit
<1>5. QED
  BY <1>1, <1>2, <1>3, <1>4, GoesOn

LEMMA ClaimKeeps ==
  ASSUME Inv, NEW w \in Workers, Claim(w)
  PROVE  Inv'
<1>1. /\ h[w].at = "claim" /\ result' = Sure(w)
      /\ UNCHANGED <<live, round, key, spawn, kid, citations, sent>>
  BY DEF Claim, Sure, At, kidVars, spawnVars
<1>2. /\ h[w].at \notin Opening \cup {"idle"} /\ h[w].at \in Looked
      /\ h[w].at \in Ending \ {"finalize"}
  BY <1>1 DEF Opening, Ending, Looked
<1>3. ~row.active /\ h[w].closed /\ row \in ParentRows /\ spawn' \in [Rounds -> GroupRows]
      /\ odd \subseteq Oddities
  BY <1>1, <1>2, Looking DEF Inv, Typed, Snapped
<1>4. CASE CanClaim(w)
  <2>1. /\ row' = [row EXCEPT !.status = "running", !.owner = w] /\ Goto(w, "send")
        /\ UNCHANGED <<reports, odd>>
    BY <1>4 DEF Claim
  <2>2. row' \in ParentRows /\ ~row'.active /\ row'.group = row.group
    BY <1>3, <2>1 DEF ParentRows, Somebody
  <2>3. QED
    BY <1>1, <1>2, <1>3, <2>1, <2>2, GoesOn DEF Ending
<1>5. CASE ~CanClaim(w)
  <2>1. Return(w) /\ odd' = odd \cup {"refused"} /\ UNCHANGED row
    BY <1>5 DEF Claim
  <2>2. odd' \subseteq Oddities /\ ("repeat" \in odd' => "repeat" \in odd)
    BY <1>3, <2>1 DEF Oddities
  <2>3. QED
    BY <1>1, <1>2, <1>3, <2>1, <2>2, Returns
<1>6. QED BY <1>4, <1>5

LEMMA SendKeeps ==
  ASSUME Inv, NEW w \in Workers, Send(w)
  PROVE  Inv'
<1>1. /\ h[w].at = "send" /\ Goto(w, "sent") /\ result' = Sure(w)
      /\ sent' = sent \cup {[group |-> row.group, out |-> h[w].out]}
      /\ UNCHANGED <<row, live, round, key, spawn, kid, reports, citations, odd>>
  BY DEF Send, Sure, At, kidVars, spawnVars
<1>2. /\ h[w].at \notin Opening \cup {"idle"} /\ h[w].at \in Looked
      /\ h[w].at \in Ending \ {"finalize"}
  BY <1>1 DEF Opening, Ending, Looked
<1>3. /\ ~row.active /\ h[w].closed /\ row' \in ParentRows /\ spawn' \in [Rounds -> GroupRows]
      /\ Len(h[w].out) = NumCalls
  BY <1>1, <1>2, Looking DEF Inv, Typed, Snapped, Stand
<1>4. QED
  BY <1>1, <1>2, <1>3, GoesOn DEF Ending

LEMMA AcceptedKeeps ==
  ASSUME Inv, NEW w \in Workers, Accepted(w)
  PROVE  Inv'
<1>1. /\ h[w].at = "sent" /\ Return(w) /\ result' = Sure(w)
      /\ row' = [row EXCEPT !.status = "answered"]
      /\ UNCHANGED <<live, round, key, spawn, kid, citations, sent, odd>>
  BY DEF Accepted, Sure, At, kidVars, spawnVars
<1>2. h[w].at \notin Opening \cup {"idle"}
  BY <1>1 DEF Opening
<1>3. /\ row' \in ParentRows /\ ~row'.active /\ row'.group = row.group
      /\ spawn' \in [Rounds -> GroupRows] /\ odd \subseteq Oddities
  BY <1>1, <1>2, Looking DEF Inv, Typed, ParentRows
<1>4. QED
  BY <1>1, <1>2, <1>3, Returns
-----------------------------------------------------------------------------
(* A step that leaves results, citations and outputs alone: each worker      *)
(* stands as it did, or has nothing to show.                                 *)
LEMMA Stirs ==
  ASSUME Inv, UNCHANGED <<round, key, spawn, result, citations, sent>>,
         h' \in [Workers -> Stands], live' \subseteq Workers,
         row' \in ParentRows, row'.active = row.active, row'.group = row.group,
         row'.active => row'.status = "running",
         kid' \in [Kids -> {"none", "new", "started", "done"}], reports' \subseteq Reported,
         odd \subseteq odd', odd' \subseteq Oddities, "repeat" \in odd' => "repeat" \in odd,
         Once',
         \A v \in Workers :
           \/ /\ h'[v] = h[v] /\ (v \in live => v \in live')
              /\ h[v].at \in Opening => row'.owner = row.owner
           \/ Stand(v)' /\ h'[v].at \notin Looked /\ h'[v].out = <<>>
  PROVE  Inv'
<1>1. Typed' /\ Bound' /\ Stage'
  BY DEF Inv, Typed, Bound, Stage
<1>2. \A g \in Rounds, n \in Calls, o \in Nat : Truth(g, n, o) => Truth(g, n, o)'
  BY DEF Truth, BoundKid
<1>3. ASSUME NEW v \in Workers PROVE Stand(v)' /\ Snapped(v)'
  <2>1. CASE h'[v] = h[v] /\ (v \in live => v \in live')
             /\ (h[v].at \in Opening => row'.owner = row.owner)
    <3>1. Stand(v) /\ Snapped(v)
      BY DEF Inv
    <3>2. Stand(v)'
      BY <2>1, <3>1 DEF Stand, At, Group
    <3>3. Sure(v)' = Sure(v) /\ \A n \in Calls : BoundKid(row.group, n)' = BoundKid(row.group, n)
      BY <2>1 DEF Sure, At, Stored, BoundKid
    <3>4. Snapped(v)'
      BY <2>1, <3>1, <3>3 DEF Snapped
    <3>5. QED BY <3>2, <3>4
  <2>2. CASE Stand(v)' /\ h'[v].at \notin Looked
    BY <2>2 DEF Snapped, Looked
  <2>3. QED BY <2>1, <2>2
<1> PICK g : g = row.group
  OBVIOUS
<1>4. ASSUME NEW v \in Workers, NEW n \in 1..Len(h'[v].out)
      PROVE  Truth(row.group, n, h[v].out[n])'
  <2> PICK y : y = h[v]
    OBVIOUS
  <2> PICK o : o = y.out[n]
    OBVIOUS
  <2>0. <<>> \in Seq(Nat) /\ Len(<<>>) = 0
    OBVIOUS
  <2>1. h'[v] = y
    BY <1>4, <2>0
  <2>2. y \in Stands /\ y.out \in Seq(Nat) /\ Stand(v) /\ n \in 1..Len(y.out) /\ y.out # <<>>
    BY <1>4, <2>1, <2>0 DEF Inv, Typed, Stands
  <2>3. y.at \in Ending /\ ~row.active /\ Len(y.out) <= NumCalls
    BY <2>2, Naturals DEF Stand, Ending, Opening
  <2>4. g \in Rounds /\ n \in Calls /\ o \in Nat
    <3>1. n \in Calls /\ o \in Nat
      BY <2>2, <2>3, Naturals DEF Calls
    <3>2. g \in Rounds
      BY <2>3, Naturals DEF Inv, Typed, Stage, ParentRows, Rounds
    <3>3. QED BY <3>1, <3>2
  <2>5. Truth(g, n, o)
    BY <2>2 DEF Inv, Truths
  <2>6. Truth(g, n, o)'
    BY <1>2, <2>4, <2>5
  <2>7. QED BY <2>1, <2>6
<1>5. ASSUME NEW q \in sent, NEW n \in Calls
      PROVE  Truth(q.group, n, q.out[n])'
  <2>1. /\ q.group = row.group /\ ~row.active /\ q.out \in Seq(Nat) /\ Len(q.out) = NumCalls
        /\ Truth(q.group, n, q.out[n])
    BY DEF Inv, Truths
  <2>2. q.group \in Rounds
    BY <2>1, Naturals DEF Inv, Typed, Stage, ParentRows, Rounds
  <2>3. q.out[n] \in Nat
    BY <2>1, Naturals DEF Calls
  <2>4. QED BY <1>2, <2>1, <2>2, <2>3
<1>6. Truths'
  <2>1. \A q \in sent : ~row'.active /\ q.group = row'.group /\ q.out \in Seq(Nat)
                        /\ Len(q.out) = NumCalls
    BY DEF Inv, Truths
  <2>2. QED BY <1>4, <1>5, <2>1 DEF Truths
<1>7. QED BY <1>1, <1>3, <1>6 DEF Inv
-----------------------------------------------------------------------------
(* One handler changes, and holds no report but one that nobody has. *)
LEMMA OnceStays ==
  ASSUME Inv, NEW w \in Workers, NEW x \in Stands, h' = [h EXCEPT ![w] = x],
         UNCHANGED <<round, kid, result, reports>>,
         \/ x.report \in {NoReport, h[w].report}
         \/ x.report \in reports /\ \A v \in Workers : h[v].report # x.report
  PROVE  Once'
<1>1. /\ h'[w] = x /\ \A v \in Workers : v # w => h'[v] = h[v]
  BY HandlerMoves DEF Inv
<1>2. \A v \in Workers : h'[v].report = NoReport \/ h'[v].report \in reports
  BY <1>1 DEF Inv, Once
<1>3. \A v, u \in Workers : v # u /\ h'[v].report = h'[u].report => h'[v].report = NoReport
  BY <1>1 DEF Inv, Once
<1>4. QED BY <1>2, <1>3 DEF Inv, Once

LEMMA TakeReportKeeps ==
  ASSUME Inv, NEW w \in Workers, NEW r \in reports, TakeReport(w, r)
  PROVE  Inv'
<1> PICK sub : sub = spawn[row.group].submitted
  OBVIOUS
<1> PICK x : x = [NoHandler EXCEPT !.at = "upsert", !.job = "report", !.report = r,
                                   !.submitted = sub]
  OBVIOUS
<1>1. /\ w \in live /\ h[w].at = "idle" /\ row.status = "waiting_children" /\ r \in Reported
      /\ row.group = key[r.kid[1]] /\ h' = [h EXCEPT ![w] = x]
      /\ \A v \in Workers : h[v].report # r
      /\ odd' = odd \cup Others(w)
      /\ UNCHANGED <<row, live, round, key, spawn, result, kid, reports, citations, sent>>
  <2>1. r \in Reported
    BY DEF Inv, Typed
  <2>2. h' = [h EXCEPT ![w] = x]
    BY DEF TakeReport
  <2>3. QED
    BY <2>1, <2>2 DEF TakeReport, Free, At, spawnVars, kidVars
<1>2. ~row.active /\ row.group \in Rounds /\ sub \in BOOLEAN
  <2>1. ~row.active /\ row.group # 0
    BY <1>1 DEF Inv, Stage
  <2>2. row.group \in Rounds
    BY <2>1, Naturals DEF Inv, Typed, ParentRows, Rounds
  <2>3. spawn[row.group] \in GroupRows
    BY <2>2 DEF Inv, Typed
  <2>4. QED
    BY <2>1, <2>2, <2>3 DEF GroupRows
<1>3. /\ x \in Stands /\ x.at = "upsert" /\ x.report = r /\ x.out = <<>> /\ r # NoReport
      /\ Len(x.out) = 0
  <2>1. r # NoReport
    BY <1>1, NobodyHasNothing
  <2>2. x.at = "upsert" /\ x.report = r /\ x.out = <<>>
    BY DEF NoHandler
  <2>3. x \in Stands
    BY <1>1, <1>2, NobodyHasNothing DEF Stands, Places
  <2>4. QED BY <2>1, <2>2, <2>3, NobodyHasNothing
<1>4. /\ h' \in [Workers -> Stands] /\ h'[w] = x
      /\ \A v \in Workers : v # w => h'[v] = h[v]
  BY <1>1, <1>3, HandlerMoves DEF Inv
<1>5. Stand(w)' /\ h'[w].at \notin Looked /\ h'[w].out = <<>>
  BY <1>1, <1>2, <1>3, <1>4 DEF Stand, At, Opening, Ending, Looked
<1>6. Once'
  BY <1>1, <1>3, OnceStays
<1>7. odd \subseteq odd' /\ odd' \subseteq Oddities /\ ("repeat" \in odd' => "repeat" \in odd)
  BY <1>1 DEF Others, Oddities, Inv, Typed
<1>8. /\ row' \in ParentRows /\ (row'.active => row'.status = "running")
      /\ kid' \in [Kids -> {"none", "new", "started", "done"}] /\ reports' \subseteq Reported
      /\ live' \subseteq Workers
  BY <1>1 DEF Inv, Typed, Stage
<1>9. QED
  BY <1>1, <1>4, <1>5, <1>6, <1>7, <1>8, Stirs

LEMMA DropReportKeeps ==
  ASSUME Inv, NEW w \in Workers, NEW r \in reports, DropReport(w, r)
  PROVE  Inv'
<1>1. /\ r \in Reported /\ reports' = reports \ {r} /\ \A v \in Workers : h[v].report # r
      /\ UNCHANGED <<row, live, round, key, spawn, result, kid, h, citations, sent, odd>>
  BY DEF DropReport, Free, spawnVars, kidVars, Inv, Typed
<1>2. Once'
  BY <1>1 DEF Inv, Once
<1>3. /\ row' \in ParentRows /\ (row'.active => row'.status = "running")
      /\ kid' \in [Kids -> {"none", "new", "started", "done"}] /\ reports' \subseteq Reported
      /\ live' \subseteq Workers /\ h' \in [Workers -> Stands] /\ odd' \subseteq Oddities
  BY <1>1 DEF Inv, Typed, Stage
<1>4. QED
  BY <1>1, <1>2, <1>3, Stirs

(* The owner is gone, so that nobody else is opening a group. *)
LEMMA RecoverKeeps ==
  ASSUME Inv, NEW w \in Workers, Recover(w)
  PROVE  Inv'
<1> PICK place : place = IF row.active THEN "stream" ELSE "load"
  OBVIOUS
<1> PICK job : job = IF row.active THEN "open" ELSE "recover"
  OBVIOUS
<1> PICK x : x = [h[w] EXCEPT !.at = place, !.job = job]
  OBVIOUS
<1>1. /\ w \in live /\ h[w].at = "idle" /\ row.owner \notin live
      /\ h' = [h EXCEPT ![w] = x] /\ odd' = odd \cup Others(w) /\ h[w] \in Stands
      /\ row'.active = row.active /\ row'.group = row.group /\ row'.owner = w
      /\ row' \in ParentRows /\ (row'.active => row'.status = "running")
      /\ UNCHANGED <<live, round, key, spawn, result, kid, reports, citations, sent>>
  <2>1. /\ w \in live /\ h[w].at = "idle" /\ row.owner \notin live /\ h[w] \in Stands
        /\ odd' = odd \cup Others(w)
        /\ UNCHANGED <<live, round, key, spawn, result, kid, reports, citations, sent>>
    BY DEF Recover, At, spawnVars, kidVars, Inv, Typed
  <2>2. h' = [h EXCEPT ![w] = x]
    BY <2>1 DEF Recover, Inv, Typed
  <2>3. /\ row'.active = row.active /\ row'.group = row.group /\ row'.owner = w
        /\ row' \in ParentRows /\ (row'.active => row'.status = "running")
    <3>1. row \in ParentRows /\ (row.active => row.status = "running")
      BY DEF Inv, Typed, Stage
    <3>2. CASE row.active
      BY <3>1, <3>2 DEF Recover, ParentRows, Somebody
    <3>3. CASE ~row.active
      BY <3>1, <3>3 DEF Recover, ParentRows, Somebody
    <3>4. QED BY <3>2, <3>3
  <2>4. QED BY <2>1, <2>2, <2>3
<1>2. /\ x \in Stands /\ x.at = place /\ x.report = h[w].report /\ x.out = <<>> /\ Len(x.out) = 0
      /\ place \in {"stream", "load"} /\ (place = "stream" <=> row.active)
  <2>1. h[w].out = <<>>
    BY <1>1, NobodyHasNothing DEF Inv, Stand, At
  <2>2. place \in {"stream", "load"} /\ (place = "stream" <=> row.active)
        /\ job \in {"open", "recover"}
    OBVIOUS
  <2>3. x.at = place /\ x.report = h[w].report /\ x.out = <<>>
    BY <1>1, <2>1 DEF Stands
  <2>4. x \in Stands
    BY <1>1, <2>2 DEF Stands, Places, Opening
  <2>5. Len(x.out) = 0
    BY <2>3
  <2>6. QED BY <2>2, <2>3, <2>4, <2>5
<1>3. /\ h' \in [Workers -> Stands] /\ h'[w] = x
      /\ \A v \in Workers : v # w => h'[v] = h[v]
  BY <1>1, <1>2, HandlerMoves DEF Inv
<1>4. Stand(w)' /\ h'[w].at \notin Looked /\ h'[w].out = <<>>
  BY <1>1, <1>2, <1>3 DEF Stand, At, Opening, Ending, Looked
<1>5. \A v \in Workers : h[v].at \notin Opening
  BY <1>1, WorkerLives DEF Inv, Stand, At, Opening
<1>6. Once'
  BY <1>1, <1>2, OnceStays
<1>7. odd \subseteq odd' /\ odd' \subseteq Oddities /\ ("repeat" \in odd' => "repeat" \in odd)
  BY <1>1 DEF Others, Oddities, Inv, Typed
<1>8. /\ kid' \in [Kids -> {"none", "new", "started", "done"}] /\ reports' \subseteq Reported
      /\ live' \subseteq Workers
  BY <1>1 DEF Inv, Typed
<1>9. QED
  BY <1>1, <1>3, <1>4, <1>5, <1>6, <1>7, <1>8, Stirs

(* The first report of a child. *)
LEMMA KidReportsKeeps ==
  ASSUME Inv, NEW c \in Kids, KidReports(c)
  PROVE  Inv'
<1> PICK o \in Outcomes : reports' = reports \cup {[kid |-> c, to |-> row.owner, outcome |-> o]}
  BY DEF KidReports
<1> PICK r : r = [kid |-> c, to |-> row.owner, outcome |-> o]
  OBVIOUS
<1>1. /\ kid[c] = "started" /\ kid' = [kid EXCEPT ![c] = "done"] /\ reports' = reports \cup {r}
      /\ odd' \in {odd, odd \cup {"lost"}}
      /\ UNCHANGED <<row, live, round, key, spawn, result, h, citations, sent>>
  BY DEF KidReports, spawnVars
<1>2. r \in Reported /\ r.kid = c
  BY DEF Reported, Inv, Typed, ParentRows
<1>3. /\ kid' \in [Kids -> {"none", "new", "started", "done"}] /\ kid'[c] = "done"
      /\ \A d \in Kids : d # c => kid'[d] = kid[d]
  BY <1>1 DEF Inv, Typed
<1>4. ~Settled(result[c]) /\ \A q \in reports : q.kid # c
  BY <1>1 DEF Inv, Once
<1>5. Once'
  <2>1. \A d \in Kids : /\ kid'[d] # "none" => d[1] <= round
                        /\ Settled(result[d]) => kid'[d] = "done"
    BY <1>1, <1>3, <1>4 DEF Inv, Once
  <2>2. \A q \in reports' : /\ kid'[q.kid] = "done"
                            /\ Settled(result[q.kid]) => result[q.kid] = q.outcome
                            /\ \A p \in reports' : p.kid = q.kid => p = q
    <3>1. \A q \in reports : q.kid \in Kids
      BY DEF Inv, Typed, Reported
    <3>2. QED BY <1>1, <1>2, <1>3, <1>4, <3>1 DEF Inv, Once
  <2>3. QED BY <1>1, <2>1, <2>2 DEF Inv, Once
<1>6. odd \subseteq odd' /\ odd' \subseteq Oddities /\ ("repeat" \in odd' => "repeat" \in odd)
  BY <1>1 DEF Oddities, Inv, Typed
<1>7. /\ row' \in ParentRows /\ (row'.active => row'.status = "running")
      /\ reports' \subseteq Reported /\ live' \subseteq Workers /\ h' \in [Workers -> Stands]
  BY <1>1, <1>2 DEF Inv, Typed, Stage
<1>8. QED
  BY <1>1, <1>3, <1>5, <1>6, <1>7, Stirs

LEMMA ReleaseKeeps ==
  ASSUME Inv, Release
  PROVE  Inv'
<1>1. /\ row.status = "waiting_children" /\ row' = [row EXCEPT !.owner = Nobody]
      /\ UNCHANGED <<live, round, key, spawn, result, kid, reports, h, citations, sent, odd>>
  BY DEF Release, spawnVars, kidVars
<1>2. /\ row' \in ParentRows /\ row'.active = row.active /\ row'.group = row.group
      /\ ~row.active
  BY <1>1 DEF Inv, Typed, Stage, ParentRows, Somebody
<1>3. \A v \in Workers : h[v].at \notin Opening
  BY <1>2 DEF Inv, Stand
<1>4. Once'
  BY <1>1 DEF Inv, Once
<1>5. /\ kid' \in [Kids -> {"none", "new", "started", "done"}] /\ reports' \subseteq Reported
      /\ live' \subseteq Workers /\ h' \in [Workers -> Stands] /\ odd' \subseteq Oddities
  BY <1>1 DEF Inv, Typed
<1>6. QED
  BY <1>1, <1>2, <1>3, <1>4, <1>5, Stirs

LEMMA CrashKeeps ==
  ASSUME Inv, NEW w \in Workers, Crash(w)
  PROVE  Inv'
<1> PICK x : x = NoHandler
  OBVIOUS
<1>1. /\ live' = live \ {w} /\ h' = [h EXCEPT ![w] = x]
      /\ odd \subseteq odd' /\ odd' \subseteq odd \cup {"crash", "lost", "refused"}
      /\ UNCHANGED <<row, round, key, spawn, result, kid, reports, citations, sent>>
  BY DEF Crash, spawnVars, kidVars
<1>2. x \in Stands /\ x.at = "idle" /\ x.report = NoReport /\ x.out = <<>> /\ Len(x.out) = 0
  BY NobodyHasNothing
<1>3. /\ h' \in [Workers -> Stands] /\ h'[w] = x
      /\ \A v \in Workers : v # w => h'[v] = h[v]
  BY <1>1, <1>2, HandlerMoves DEF Inv
<1>4. Stand(w)' /\ h'[w].at \notin Looked /\ h'[w].out = <<>>
  BY <1>2, <1>3 DEF Stand, At, Opening, Ending, Looked
<1>5. Once'
  BY <1>1, <1>2, OnceStays
<1>6. /\ row' \in ParentRows /\ (row'.active => row'.status = "running")
      /\ kid' \in [Kids -> {"none", "new", "started", "done"}] /\ reports' \subseteq Reported
      /\ live' \subseteq Workers /\ odd' \subseteq Oddities /\ ("repeat" \in odd' => "repeat" \in odd)
  BY <1>1 DEF Inv, Typed, Stage, Oddities
<1>7. QED
  BY <1>1, <1>3, <1>4, <1>5, <1>6, Stirs
-----------------------------------------------------------------------------
(* While a group is opened, its owner is alone at it and nothing was sent.   *)
LEMMA OpensAlone ==
  ASSUME Inv, NEW w \in Workers, h[w].at \in Opening
  PROVE  /\ row.active /\ row.owner = w /\ w \in live /\ sent = {} /\ h[w] \in Stands
         /\ Stand(w) /\ h[w].out = <<>> /\ row.status = "running"
         /\ \A v \in Workers : v # w => h[v] = NoHandler
         /\ h[w].at # "stream" => Group \in Rounds /\ round \in Rounds
<1>1. row.active /\ row.owner = w /\ Stand(w) /\ h[w].out = <<>> /\ h[w] \in Stands
  BY DEF Inv, Typed, Stand, Opening, Ending
<1>2. w \in live
  BY WorkerLives DEF At, Opening
<1>3. \A v \in Workers : v # w => h[v] = NoHandler
  BY <1>1 DEF Inv, Stand, At
<1>4. sent = {} /\ row.status = "running"
  BY <1>1 DEF Inv, Truths, Stage
<1>5. h[w].at # "stream" => Group \in Rounds /\ round \in Rounds
  BY <1>1, Naturals DEF Stand, At, Inv, Typed, Group, Rounds
<1>6. QED BY <1>1, <1>2, <1>3, <1>4, <1>5

LEMMA Opens ==
  ASSUME Inv, NEW w \in Workers, h[w].at \in Opening, NEW x \in Stands,
         h' = [h EXCEPT ![w] = x], UNCHANGED <<live, citations, sent, odd>>,
         x.out = <<>>, x.at \notin Looked, x.report \in {NoReport, h[w].report},
         row' \in ParentRows, round' \in 0..MaxRounds, key' = key,
         spawn' \in [Rounds -> GroupRows],
         kid' \in [Kids -> {"none", "new", "started", "done"}],
         result' \in [Kids -> Results],
         \/ x.report = h[w].report /\ reports' = reports
         \/ x.report = NoReport /\ reports' = reports \ {h[w].report},
         \A c \in Kids : /\ kid'[c] # "none" => c[1] <= round'
                         /\ Settled(result'[c]) => kid'[c] = "done"
                         /\ kid[c] = "done" => kid'[c] = "done"
                         /\ Settled(result'[c]) => result[c] = result'[c],
         Bound', Stage', Stand(w)'
  PROVE  Inv'
<1>1. /\ h' \in [Workers -> Stands] /\ h'[w] = x /\ sent = {}
      /\ \A v \in Workers : v # w => h'[v] = NoHandler
  <2>1. sent = {} /\ \A v \in Workers : v # w => h[v] = NoHandler
    BY OpensAlone
  <2>2. /\ h' \in [Workers -> Stands] /\ h'[w] = x
        /\ \A v \in Workers : v # w => h'[v] = h[v]
    BY HandlerMoves DEF Inv
  <2>3. QED BY <2>1, <2>2
<1>2. Typed'
  BY <1>1 DEF Inv, Typed
<1>3. Once'
  <2>1. reports' \subseteq reports /\ reports \subseteq Reported
    BY DEF Inv, Typed
  <2>2. \A r \in reports' : /\ kid'[r.kid] = "done"
                            /\ Settled(result'[r.kid]) => result'[r.kid] = r.outcome
                            /\ \A q \in reports' : q.kid = r.kid => q = r
    BY <2>1 DEF Inv, Once, Reported
  <2>3. \A v \in Workers : h'[v].report = NoReport \/ h'[v].report \in reports'
    <3>1. h[w].report = NoReport \/ h[w].report \in reports
      BY DEF Inv, Once
    <3>2. QED BY <1>1, <3>1, NobodyHasNothing
  <2>4. \A v, u \in Workers : v # u /\ h'[v].report = h'[u].report => h'[v].report = NoReport
    BY <1>1, NobodyHasNothing
  <2>5. QED BY <2>2, <2>3, <2>4 DEF Once
<1>4. ASSUME NEW v \in Workers PROVE Stand(v)' /\ Snapped(v)'
  <2>1. CASE v = w
    BY <1>1, <2>1 DEF Snapped, Looked
  <2>2. CASE v # w
    BY <1>1, <2>2, NobodyHasNothing DEF Stand, Snapped, At, Opening, Ending, Looked
  <2>3. QED BY <2>1, <2>2
<1>5. Truths'
  <2>1. \A v \in Workers : h'[v].out = <<>> /\ Len(h'[v].out) = 0
    <3>1. Len(x.out) = 0
      OBVIOUS
    <3>2. QED BY <1>1, <3>1, NobodyHasNothing
  <2>2. \A v \in Workers : \A n \in 1..Len(h'[v].out) : FALSE
    BY <2>1
  <2>3. QED BY <1>1, <2>2 DEF Truths
<1>6. QED BY <1>2, <1>3, <1>4, <1>5 DEF Inv

(* A handler that opens goes to another place of the opening. *)
LEMMA OpensOn ==
  ASSUME Inv, NEW w \in Workers, h[w].at \in Opening, NEW place \in Opening
  PROVE  LET x == [h[w] EXCEPT !.at = place]
         IN  /\ x \in Stands /\ x.at = place /\ x.out = <<>> /\ x.at \notin Looked
             /\ x.report = h[w].report /\ Len(x.out) = 0
             /\ Goto(w, place) => h' = [h EXCEPT ![w] = x] /\ h'[w] = x
<1>1. h[w] \in Stands /\ h[w].out = <<>> /\ place \notin Looked
  BY OpensAlone DEF Opening, Looked, Ending
<1>2. [h[w] EXCEPT !.at = place] \in Stands
  BY <1>1 DEF Stands, Places
<1>3. QED BY <1>1, <1>2 DEF Goto, Inv, Typed, Stands

LEMMA StartGroupKeeps ==
  ASSUME Inv, NEW w \in Workers, StartGroup(w)
  PROVE  Inv'
<1> PICK x : x = [h[w] EXCEPT !.at = "bind"]
  OBVIOUS
<1>1. /\ h[w].at = "stream" /\ h[w].at \in Opening /\ round < MaxRounds /\ round' = round + 1
      /\ Goto(w, "bind")
      /\ UNCHANGED <<row, live, spawn, result, reports, citations, sent>>
  BY DEF StartGroup, At, Opening
<1>2. /\ x \in Stands /\ x.at = "bind" /\ x.out = <<>> /\ x.at \notin Looked
      /\ x.report = h[w].report /\ Len(x.out) = 0
      /\ h' = [h EXCEPT ![w] = x] /\ h'[w] = x
  BY <1>1, OpensOn DEF Opening
<1>3. /\ row.active /\ row.owner = w /\ w \in live /\ sent = {} /\ h[w] \in Stands
  BY <1>1, OpensAlone
<1>4. /\ round \in 0..MaxRounds /\ round' \in Rounds /\ round' \in 0..MaxRounds
  BY <1>1, Naturals DEF Inv, Typed, Rounds
<1>5. /\ kid' \in [Kids -> {"none", "new", "started", "done"}]
      /\ \A c \in Kids : kid'[c] = IF c[1] = round + 1 THEN "new" ELSE kid[c]
  BY <1>1 DEF StartGroup, Inv, Typed
<1>6. \A c \in Kids : /\ kid'[c] # "none" => c[1] <= round'
                      /\ Settled(result'[c]) => kid'[c] = "done"
                      /\ kid[c] = "done" => kid'[c] = "done"
                      /\ Settled(result'[c]) => result[c] = result'[c]
  <2>1. \A c \in Kids : c[1] \in Rounds
    BY DEF Kids
  <2>2. QED
    BY <1>1, <1>4, <1>5, <2>1, Naturals DEF Inv, Once, Rounds
<1>7. CASE UNCHANGED <<key, odd>>
  <2>1. Bound' /\ Stage' /\ row' \in ParentRows /\ spawn' \in [Rounds -> GroupRows]
    BY <1>1, <1>4, <1>7 DEF Inv, Typed, Bound, Stage, GroupRows
  <2>2. Stand(w)'
    BY <1>1, <1>2, <1>3, <1>4, <2>1 DEF Stand, At, Opening, Ending, Rounds
  <2>3. result' \in [Kids -> Results]
    BY <1>1 DEF Inv, Typed
  <2>4. QED
    BY <1>1, <1>2, <1>4, <1>5, <1>6, <1>7, <2>1, <2>2, <2>3, Opens
<1>8. CASE round > 0 /\ key' = [key EXCEPT ![round'] = key[round]] /\ odd' = odd \cup {"repeat"}
  <2>1. /\ key' \in [Rounds -> Rounds] /\ \A r \in Rounds : r # round' => key'[r] = key[r]
        /\ odd' \subseteq Oddities
    BY <1>4, <1>8, Naturals DEF Inv, Typed, Rounds, Oddities
  <2>2. Bound' /\ Stage'
    <3>1. \A g \in Rounds : spawn[g].bindings \in Nat
      BY Naturals DEF Inv, Typed, GroupRows
    <3>2. \A g \in Rounds : spawn[g].bindings # 0 => /\ spawn[g].bindings \in Rounds
                                                     /\ spawn[g].bindings < round'
      BY <1>1, <1>4, <3>1, Naturals DEF Inv, Bound, Rounds
    <3>3. QED BY <1>1, <1>3, <1>4, <1>8, <2>1, <3>1, <3>2 DEF Inv, Bound, Stage
  <2>3. Typed'
    BY <1>1, <1>2, <1>4, <1>5, <2>1, HandlerMoves DEF Inv, Typed
  <2>4. Once'
    <3>1. \A r \in reports : r.kid \in Kids
      BY DEF Inv, Typed, Reported
    <3>2. \A v \in Workers : h'[v].report = h[v].report
      BY <1>2, HandlerMoves DEF Inv
    <3>3. QED BY <1>1, <1>6, <3>1, <3>2 DEF Inv, Once
  <2>5. Stand(w)'
    BY <1>1, <1>2, <1>3, <1>4, <2>1 DEF Stand, At, Opening, Ending, Rounds
  <2>6. \A v \in Workers : v # w => h'[v] = NoHandler
    BY <1>1, <1>2, OpensAlone, HandlerMoves DEF Inv
  <2>7. ASSUME NEW v \in Workers PROVE Stand(v)' /\ Snapped(v)'
    BY <1>2, <2>5, <2>6, NobodyHasNothing DEF Stand, Snapped, At, Opening, Ending, Looked
  <2>8. Truths'
    <3>1. \A v \in Workers : Len(h'[v].out) = 0
      BY <1>2, <2>6, NobodyHasNothing
    <3>2. \A v \in Workers : \A n \in 1..Len(h'[v].out) : FALSE
      BY <3>1
    <3>3. QED BY <1>1, <1>3, <3>2 DEF Truths
  <2>9. QED BY <2>2, <2>3, <2>4, <2>7, <2>8 DEF Inv
<1>9. QED BY <1>7, <1>8 DEF StartGroup

LEMMA SaveBindingsKeeps ==
  ASSUME Inv, NEW w \in Workers, SaveBindings(w)
  PROVE  Inv'
<1> PICK x : x = [h[w] EXCEPT !.at = "create"]
  OBVIOUS
<1> PICK g : g = Group
  OBVIOUS
<1> PICK b : b = IF spawn[g].bindings = 0 THEN round ELSE spawn[g].bindings
  OBVIOUS
<1>1. /\ h[w].at = "bind" /\ h[w].at \in Opening /\ Goto(w, "create")
      /\ UNCHANGED <<row, live, round, key, result, kid, reports, citations, sent, odd>>
  BY DEF SaveBindings, At, Opening, kidVars
<1>2. /\ x \in Stands /\ x.at = "create" /\ x.out = <<>> /\ x.at \notin Looked
      /\ x.report = h[w].report /\ Len(x.out) = 0
      /\ h' = [h EXCEPT ![w] = x] /\ h'[w] = x
  BY <1>1, OpensOn DEF Opening
<1>3. /\ row.active /\ row.owner = w /\ w \in live /\ g \in Rounds /\ round \in Rounds
      /\ g = key[round]
  BY <1>1, OpensAlone DEF Group
<1>4. /\ spawn' \in [Rounds -> GroupRows] /\ spawn'[g].bindings = b /\ b \in Rounds
      /\ \A d \in Rounds : d # g => spawn'[d] = spawn[d]
      /\ b <= round /\ key[b] = g
  <2>1. /\ spawn \in [Rounds -> GroupRows] /\ spawn[g] \in GroupRows
        /\ spawn' = [spawn EXCEPT ![g].bindings = b]
    BY <1>3 DEF SaveBindings, Inv, Typed
  <2>2. b \in Rounds /\ b <= round /\ key[b] = g
    BY <1>3, <2>1, Naturals DEF Inv, Bound, GroupRows, Rounds
  <2> PICK y : y = [spawn[g] EXCEPT !.bindings = b]
    OBVIOUS
  <2>3. y \in GroupRows /\ y.bindings = b
    <3>1. b \in 0..MaxRounds
      BY <2>2, Naturals DEF Rounds
    <3>2. QED BY <2>1, <3>1 DEF GroupRows
  <2>4. spawn' = [spawn EXCEPT ![g] = y]
    BY <2>1
  <2>5. /\ spawn' \in [Rounds -> GroupRows] /\ spawn'[g] = y
        /\ \A d \in Rounds : d # g => spawn'[d] = spawn[d]
    <3>1. spawn \in [Rounds -> GroupRows]
      BY <2>1
    <3>2. QED BY <1>3, <2>3, <2>4, <3>1
  <2>6. QED BY <2>2, <2>3, <2>5
<1>5. Bound' /\ Stage'
  BY <1>1, <1>3, <1>4 DEF Inv, Bound, Stage
<1>6. Stand(w)'
  BY <1>1, <1>2, <1>3, <1>4, Naturals DEF Stand, At, Opening, Ending, Group, Rounds
<1>7. \A c \in Kids : /\ kid'[c] # "none" => c[1] <= round'
                      /\ Settled(result'[c]) => kid'[c] = "done"
                      /\ kid[c] = "done" => kid'[c] = "done"
                      /\ Settled(result'[c]) => result[c] = result'[c]
  BY <1>1 DEF Inv, Once
<1>8. /\ row' \in ParentRows /\ round' \in 0..MaxRounds /\ result' \in [Kids -> Results]
      /\ kid' \in [Kids -> {"none", "new", "started", "done"}]
  BY <1>1 DEF Inv, Typed
<1>9. QED
  BY <1>1, <1>2, <1>4, <1>5, <1>6, <1>7, <1>8, Opens

LEMMA AddChildrenKeeps ==
  ASSUME Inv, NEW w \in Workers, AddChildren(w)
  PROVE  Inv'
<1> PICK x : x = [h[w] EXCEPT !.at = "publish"]
  OBVIOUS
<1>1. /\ h[w].at = "create" /\ h[w].at \in Opening /\ Goto(w, "publish")
      /\ UNCHANGED <<row, live, round, key, spawn, kid, reports, citations, sent, odd>>
  BY DEF AddChildren, At, Opening, kidVars
<1>2. /\ x \in Stands /\ x.at = "publish" /\ x.out = <<>> /\ x.at \notin Looked
      /\ x.report = h[w].report /\ Len(x.out) = 0
      /\ h' = [h EXCEPT ![w] = x] /\ h'[w] = x
  BY <1>1, OpensOn DEF Opening
<1>3. /\ row.active /\ row.owner = w /\ w \in live /\ round \in Rounds
      /\ spawn[Group].bindings # 0
  BY <1>1, OpensAlone DEF Stand, At
<1>4. /\ result' \in [Kids -> Results]
      /\ \A c \in Kids : result'[c] = IF c[1] = round THEN "pending" ELSE result[c]
  BY DEF AddChildren, Inv, Typed, Results
<1>5. Bound' /\ Stage'
  BY <1>1 DEF Inv, Bound, Stage
<1>6. Stand(w)'
  BY <1>1, <1>2, <1>3, Naturals DEF Stand, At, Opening, Ending, Group, Rounds
<1>7. \A c \in Kids : /\ kid'[c] # "none" => c[1] <= round'
                      /\ Settled(result'[c]) => kid'[c] = "done"
                      /\ kid[c] = "done" => kid'[c] = "done"
                      /\ Settled(result'[c]) => result[c] = result'[c]
  BY <1>1, <1>4 DEF Inv, Once, Settled, Outcomes
<1>8. /\ row' \in ParentRows /\ round' \in 0..MaxRounds /\ spawn' \in [Rounds -> GroupRows]
      /\ kid' \in [Kids -> {"none", "new", "started", "done"}]
  BY <1>1 DEF Inv, Typed
<1>9. QED
  BY <1>1, <1>2, <1>4, <1>5, <1>6, <1>7, <1>8, Opens

LEMMA PublishStartKeeps ==
  ASSUME Inv, NEW w \in Workers, PublishStart(w)
  PROVE  Inv'
<1> PICK x : x = h[w]
  OBVIOUS
<1>1. /\ h[w].at = "publish" /\ h[w].at \in Opening
      /\ UNCHANGED <<row, live, round, key, spawn, result, reports, h, citations, sent, odd>>
  BY DEF PublishStart, At, Opening, spawnVars
<1> PICK n \in Calls : /\ kid[<<round, n>>] = "new"
                       /\ kid' = [kid EXCEPT ![<<round, n>>] = "started"]
  BY DEF PublishStart
<1>2. /\ x \in Stands /\ x.at = "publish" /\ x.out = <<>> /\ x.at \notin Looked
      /\ h' = [h EXCEPT ![w] = x]
  BY <1>1, OpensAlone DEF Looked, Ending, Inv, Typed
<1>3. <<round, n>> \in Kids
  BY <1>1, OpensAlone DEF Kids
<1>4. /\ kid' \in [Kids -> {"none", "new", "started", "done"}]
      /\ kid'[<<round, n>>] = "started"
      /\ \A c \in Kids : c # <<round, n>> => kid'[c] = kid[c]
  BY <1>3 DEF Inv, Typed
<1>5. Bound' /\ Stage' /\ Stand(w)'
  BY <1>1 DEF Inv, Bound, Stage, Stand, At, Group
<1>6. \A c \in Kids : /\ kid'[c] # "none" => c[1] <= round'
                      /\ Settled(result'[c]) => kid'[c] = "done"
                      /\ kid[c] = "done" => kid'[c] = "done"
                      /\ Settled(result'[c]) => result[c] = result'[c]
  BY <1>1, <1>3, <1>4 DEF Inv, Once
<1>7. /\ row' \in ParentRows /\ round' \in 0..MaxRounds /\ spawn' \in [Rounds -> GroupRows]
      /\ result' \in [Kids -> Results]
  BY <1>1 DEF Inv, Typed
<1>8. QED
  BY <1>1, <1>2, <1>4, <1>5, <1>6, <1>7, Opens

LEMMA WaitForChildrenKeeps ==
  ASSUME Inv, NEW w \in Workers, WaitForChildren(w)
  PROVE  Inv'
<1> PICK x : x = NoHandler
  OBVIOUS
<1> PICK g : g = Group
  OBVIOUS
<1>1. /\ h[w].at = "publish" /\ h[w].at \in Opening
      /\ row' = [row EXCEPT !.status = "waiting_children", !.active = FALSE, !.group = g]
      /\ h' = [h EXCEPT ![w] = x] /\ reports' = reports \ {h[w].report}
      /\ UNCHANGED <<live, round, key, spawn, result, kid, citations, sent, odd>>
  BY DEF WaitForChildren, Return, At, Opening, spawnVars, kidVars
<1>2. /\ x \in Stands /\ x.at = "idle" /\ x.out = <<>> /\ x.at \notin Looked
      /\ x.report = NoReport /\ Len(x.out) = 0
  BY NobodyHasNothing DEF Looked, Ending
<1>3. /\ row.owner = w /\ w \in live /\ g \in Rounds /\ spawn[g].bindings # 0
  BY <1>1, OpensAlone DEF Stand, At
<1>4. /\ row' \in ParentRows /\ ~row'.active /\ row'.group = g /\ g # 0
  <2>1. g \in 0..MaxRounds /\ g # 0
    BY <1>3, Naturals DEF Rounds
  <2>2. QED BY <1>1, <2>1 DEF Inv, Typed, ParentRows
<1>5. Bound' /\ Stage'
  BY <1>1, <1>3, <1>4 DEF Inv, Bound, Stage
<1>6. h'[w] = x
  BY <1>1, <1>2, HandlerMoves DEF Inv
<1>7. Stand(w)'
  BY <1>2, <1>6 DEF Stand, At, Opening, Ending
<1>8. \A c \in Kids : /\ kid'[c] # "none" => c[1] <= round'
                      /\ Settled(result'[c]) => kid'[c] = "done"
                      /\ kid[c] = "done" => kid'[c] = "done"
                      /\ Settled(result'[c]) => result[c] = result'[c]
  BY <1>1 DEF Inv, Once
<1>9. /\ round' \in 0..MaxRounds /\ result' \in [Kids -> Results]
      /\ spawn' \in [Rounds -> GroupRows]
      /\ kid' \in [Kids -> {"none", "new", "started", "done"}]
  BY <1>1 DEF Inv, Typed
<1>10. QED
  BY <1>1, <1>2, <1>4, <1>5, <1>7, <1>8, <1>9, Opens

LEMMA OpeningFailsKeeps ==
  ASSUME Inv, NEW w \in Workers, OpeningFails(w)
  PROVE  Inv'
<1> PICK x : x = [h[w] EXCEPT !.at = "stream"]
  OBVIOUS
<1>1. /\ h[w].at \in Opening /\ Goto(w, "stream")
      /\ UNCHANGED <<row, live, round, key, spawn, result, kid, reports, citations, sent, odd>>
  BY DEF OpeningFails, Opening, spawnVars, kidVars
<1>2. /\ x \in Stands /\ x.at = "stream" /\ x.out = <<>> /\ x.at \notin Looked
      /\ x.report = h[w].report /\ Len(x.out) = 0
      /\ h' = [h EXCEPT ![w] = x] /\ h'[w] = x
  BY <1>1, OpensOn DEF Opening
<1>3. row.active /\ row.owner = w /\ w \in live
  BY <1>1, OpensAlone
<1>4. Bound' /\ Stage'
  BY <1>1 DEF Inv, Bound, Stage
<1>5. Stand(w)'
  BY <1>1, <1>2, <1>3 DEF Stand, At, Opening, Ending
<1>6. \A c \in Kids : /\ kid'[c] # "none" => c[1] <= round'
                      /\ Settled(result'[c]) => kid'[c] = "done"
                      /\ kid[c] = "done" => kid'[c] = "done"
                      /\ Settled(result'[c]) => result[c] = result'[c]
  BY <1>1 DEF Inv, Once
<1>7. /\ row' \in ParentRows /\ round' \in 0..MaxRounds /\ spawn' \in [Rounds -> GroupRows]
      /\ result' \in [Kids -> Results] /\ kid' \in [Kids -> {"none", "new", "started", "done"}]
  BY <1>1 DEF Inv, Typed
<1>8. QED
  BY <1>1, <1>2, <1>4, <1>5, <1>6, <1>7, Opens
-----------------------------------------------------------------------------
LEMMA InvNext == Inv /\ [Next]_vars => Inv'
<1> SUFFICES ASSUME Inv, [Next]_vars PROVE Inv'
  OBVIOUS
<1>1. CASE UNCHANGED vars
  <2>1. /\ UNCHANGED <<row, live, round, key, spawn, result, started, kid, reports, h,
                       citations, sent, odd>>
    BY <1>1 DEF vars, spawnVars, kidVars
  <2>2. Typed' /\ Bound' /\ Stage' /\ Once'
    BY <2>1 DEF Inv, Typed, Bound, Stage, Once
  <2>3. /\ \A v \in Workers : (Stand(v) <=> Stand(v)') /\ (Snapped(v) <=> Snapped(v)')
    BY <2>1 DEF Stand, Snapped, At, Group, Sure, Stored, BoundKid
  <2>4. Truths'
    BY <2>1 DEF Inv, Truths, Truth, BoundKid
  <2>5. QED BY <2>2, <2>3, <2>4 DEF Inv
<1>2. ASSUME NEW w \in Workers, Open(w) \/ OpeningFails(w)
      PROVE  Inv'
  BY <1>2, StartGroupKeeps, SaveBindingsKeeps, AddChildrenKeeps, PublishStartKeeps,
     WaitForChildrenKeeps, OpeningFailsKeeps DEF Open
<1>3. ASSUME NEW w \in Workers, NEW r \in reports, TakeReport(w, r) \/ DropReport(w, r)
      PROVE  Inv'
  BY <1>3, TakeReportKeeps, DropReportKeeps
<1>4. ASSUME NEW w \in Workers, Record(w) \/ LoadGroup(w)
      PROVE  Inv'
  BY <1>4, UpsertKeeps, CommitKeeps, SaveKeeps, LoadGroupKeeps DEF Record
<1>5. ASSUME NEW w \in Workers, Aggregate(w) \/ FinalizeFails(w)
      PROVE  Inv'
  BY <1>5, FinalizeKeeps, NothingFoundKeeps, SubmitKeeps, ClaimKeeps, SendKeeps,
     AcceptedKeeps, FinalizeFailsKeeps DEF Aggregate
<1>6. ASSUME NEW w \in Workers, Crash(w) \/ Recover(w)
      PROVE  Inv'
  BY <1>6, CrashKeeps, RecoverKeeps
<1>7. ASSUME NEW c \in Kids, KidReports(c) PROVE Inv'
  BY <1>7, KidReportsKeeps
<1>8. CASE Release
  BY <1>8, ReleaseKeeps
<1>9. QED
  BY <1>1, <1>2, <1>3, <1>4, <1>5, <1>6, <1>7, <1>8 DEF Next

(* The state stays well formed, and a thread that waits has a group with     *)
(* bindings.                                                                 *)
THEOREM TypeCorrect == Spec => []TypeOK
<1>1. Inv => TypeOK
  <2> SUFFICES ASSUME Inv PROVE TypeOK
    OBVIOUS
  <2>1. row.status = "waiting_children" => row.group # 0 /\ spawn[row.group].bindings # 0
    BY DEF Inv, Stage
  <2>2. \A w \in Workers : w \notin live => h[w] = NoHandler
    BY DEF Inv, Stand
  <2>3. ASSUME NEW w \in Workers PROVE Len(h[w].out) <= NumCalls
    <3>1. Stand(w) /\ h[w] \in Stands /\ h[w].out \in Seq(Nat) /\ Len(<<>>) = 0
      BY DEF Inv, Typed, Stands
    <3>2. QED BY <3>1, Naturals DEF Stand
  <2>4. QED
    BY <2>1, <2>2, <2>3 DEF TypeOK, Inv, Typed, ParentRows, Somebody, Results, Oddities
<1>2. QED
  BY <1>1, InvInit, InvNext, PTL DEF Spec

(* startCitationLocatorGroup, handleChildResult, recoverWaitingChildren,     *)
(* aggregateCitationLocatorOutputs: whatever the number of workers, calls    *)
(* and responses, and whoever dies, the outputs that the parent's thread     *)
(* sends are true of its calls.                                              *)
THEOREM ModelIsToldTheTruth == Spec => []OutputsAreTrue
<1>1. Inv => OutputsAreTrue
  <2> SUFFICES ASSUME Inv, NEW q \in sent, NEW n \in Calls
               PROVE  IF q.out[n] # Error
                      THEN q.out[n] <= Len(citations) /\ citations[q.out[n]][2] = n
                           /\ key[citations[q.out[n]][1]] = q.group
                      ELSE \/ result[<<spawn[q.group].bindings, n>>] = "nothing"
                           \/ "failure" \in odd \/ "repeat" \in odd
    BY DEF OutputsAreTrue
  <2>1. Truth(q.group, n, q.out[n]) /\ q.group = row.group /\ ~row.active
    BY DEF Inv, Truths
  <2>2. q.group \in Rounds /\ spawn[q.group].bindings # 0
    BY <2>1, Naturals DEF Inv, Typed, Stage, ParentRows, Rounds
  <2>3. /\ BoundKid(q.group, n)[1] = spawn[q.group].bindings /\ BoundKid(q.group, n)[2] = n
        /\ key[spawn[q.group].bindings] = q.group
    BY <2>2, BoundKidIs DEF Inv, Bound
  <2>4. QED BY <2>1, <2>3 DEF Truth, BoundKid
<1>2. QED
  BY <1>1, InvInit, InvNext, PTL DEF Spec
-----------------------------------------------------------------------------
(* What NoStrayCitation is void after has not happened yet. *)
LEMMA PlainBefore ==
  ASSUME [Next]_vars, Plain'
  PROVE  Plain
<1>1. odd \subseteq odd'
  <2>1. ASSUME NEW w \in Workers, Open(w) \/ OpeningFails(w) PROVE odd \subseteq odd'
    BY <2>1 DEF Open, StartGroup, SaveBindings, AddChildren, PublishStart,
       WaitForChildren, OpeningFails
  <2>2. ASSUME NEW w \in Workers, NEW r \in reports, TakeReport(w, r) \/ DropReport(w, r)
        PROVE  odd \subseteq odd'
    BY <2>2 DEF TakeReport, DropReport
  <2>3. ASSUME NEW w \in Workers, Record(w) \/ LoadGroup(w) PROVE odd \subseteq odd'
    BY <2>3 DEF Record, UpsertResult, CommitResult, SaveGroup, LoadGroup
  <2>4. ASSUME NEW w \in Workers, Aggregate(w) \/ FinalizeFails(w) PROVE odd \subseteq odd'
    BY <2>4 DEF Aggregate, Finalize, NothingFound, Submit, Claim, Send, Accepted,
       FinalizeFails
  <2>5. ASSUME NEW w \in Workers, Crash(w) \/ Recover(w) PROVE odd \subseteq odd'
    BY <2>5 DEF Crash, Recover
  <2>6. ASSUME NEW c \in Kids, KidReports(c) PROVE odd \subseteq odd'
    BY <2>6 DEF KidReports
  <2>7. CASE Release \/ UNCHANGED vars
    BY <2>7 DEF Release, vars
  <2>8. QED
    BY <2>1, <2>2, <2>3, <2>4, <2>5, <2>6, <2>7 DEF Next
<1>2. QED BY <1>1 DEF Plain

(* Then a worker that is about the thread is alone. *)
LEMMA PlainAlone ==
  ASSUME Inv, PlainInv, Plain, NEW w \in Workers, h[w].at # "idle"
  PROVE  /\ live = Workers /\ \A v \in Workers : v # w => h[v].at = "idle"
         /\ row.status # "answered"
         /\ h[w].at \notin Ending => citations = <<>>
         /\ h[w].at \in Ending => Told(w)
<1>1. live = Workers /\ \A v \in Workers : v # w => h[v].at = "idle"
  BY DEF PlainInv, At
<1>2. row.status # "answered"
  BY DEF PlainInv, At
<1>3. h[w].at \notin Ending => \A v \in Workers : h[v].at \notin Ending
  BY <1>1 DEF Ending
<1>4. QED BY <1>1, <1>2, <1>3 DEF PlainInv

LEMMA PlainMoves ==
  ASSUME Inv, NEW w \in Workers, NEW x \in Stands, h' = [h EXCEPT ![w] = x],
         live' = Workers, \A v \in Workers : v # w => h[v].at = "idle",
         \/ row'.status # "answered" /\ (x.at \notin Ending => citations' = <<>>)
         \/ /\ row'.status = "answered" /\ x.at = "idle"
            /\ \E q \in sent' : \A k \in DOMAIN citations' : \E n \in Calls : q.out[n] = k,
         x.at \in Ending => \A k \in DOMAIN citations' :
                              \E n \in Calls : n <= Len(x.out) /\ x.out[n] = k,
         x.at = "sent" => [group |-> row'.group, out |-> x.out] \in sent'
  PROVE  PlainInv'
<1>1. /\ h'[w] = x /\ \A v \in Workers : v # w => h'[v].at = "idle"
  BY HandlerMoves DEF Inv
<1>2. "idle" \notin Ending
  BY DEF Ending
<1>3. \A v \in Workers : h'[v].at \in Ending => Told(v)'
  BY <1>1, <1>2 DEF Told
<1>4. \A v \in Workers : h'[v].at = "sent" => [group |-> row'.group, out |-> h'[v].out] \in sent'
  BY <1>1
<1>5. (\A v \in Workers : h'[v].at \notin Ending) => row'.status = "answered" \/ citations' = <<>>
  BY <1>1
<1>6. row'.status = "answered" => \A v \in Workers : h'[v].at = "idle"
  BY <1>1
<1>7. \A u, v \in Workers : u # v => h'[u].at = "idle" \/ h'[v].at = "idle"
  BY <1>1
<1>8. QED
  BY <1>1, <1>3, <1>4, <1>5, <1>6, <1>7 DEF PlainInv, At

(* The handler goes on, no citation is made. *)
LEMMA PlainGoesOn ==
  ASSUME Inv, PlainInv, Plain, NEW w \in Workers, h[w].at # "idle",
         NEW x \in Stands, h' = [h EXCEPT ![w] = x], UNCHANGED <<live, citations>>,
         row'.status # "answered",
         h[w].at \in Ending => x.at \in Ending /\ x.out = h[w].out,
         x.at = "sent" => [group |-> row'.group, out |-> x.out] \in sent'
  PROVE  PlainInv'
<1>1. /\ live = Workers /\ \A v \in Workers : v # w => h[v].at = "idle"
      /\ h[w].at \notin Ending => citations = <<>>
      /\ h[w].at \in Ending => Told(w)
  BY PlainAlone
<1>2. x.at \notin Ending => citations' = <<>>
  BY <1>1
<1>3. ASSUME x.at \in Ending, NEW k \in DOMAIN citations'
      PROVE  \E n \in Calls : n <= Len(x.out) /\ x.out[n] = k
  BY <1>1, <1>3 DEF Told
<1>4. QED
  BY <1>1, <1>2, <1>3, PlainMoves

LEMMA PlainStays ==
  ASSUME PlainInv, Plain, UNCHANGED <<live, h, citations, sent>>,
         row'.status = row.status, row'.group = row.group
  PROVE  PlainInv'
BY DEF PlainInv, At, Told

(* What the next state of a handler is made of is well typed. *)
LEMMA NextStands ==
  ASSUME Inv', NEW w \in Workers
  PROVE  h'[w] \in Stands
BY DEF Inv, Typed

LEMMA PlainOpening ==
  ASSUME Inv, Inv', PlainInv, Plain, Plain', NEW w \in Workers, Open(w) \/ OpeningFails(w)
  PROVE  PlainInv'
<1>1. /\ h[w].at \in Opening /\ UNCHANGED <<live, citations, sent>>
      /\ row'.status \in {row.status, "waiting_children"}
      /\ h' = h \/ (\E p \in Opening : Goto(w, p)) \/ Return(w)
  BY DEF Open, StartGroup, SaveBindings, AddChildren, PublishStart, WaitForChildren,
     OpeningFails, Opening, At, Inv, Typed, ParentRows
<1>2. h[w].at \notin Ending \cup {"idle"} /\ h[w] \in Stands
  BY <1>1, OpensAlone DEF Opening, Ending
<1>3. row'.status # "answered"
  BY <1>1, <1>2, PlainAlone
<1>4. CASE h' = h
  <2> PICK x : x = h[w]
    OBVIOUS
  <2>1. h' = [h EXCEPT ![w] = x] /\ x \in Stands /\ x.at # "sent"
    BY <1>2, <1>4 DEF Inv, Typed, Ending
  <2>2. QED BY <1>1, <1>2, <1>3, <2>1, PlainGoesOn
<1>5. ASSUME NEW p \in Opening, Goto(w, p) PROVE PlainInv'
  <2> PICK x : x = [h[w] EXCEPT !.at = p]
    OBVIOUS
  <2>1. h' = [h EXCEPT ![w] = x] /\ x \in Stands /\ x.at = p
    BY <1>1, <1>5, OpensOn
  <2>2. x.at # "sent"
    BY <2>1 DEF Opening
  <2>3. QED BY <1>1, <1>2, <1>3, <2>1, <2>2, PlainGoesOn
<1>6. CASE Return(w)
  <2> PICK x : x = NoHandler
    OBVIOUS
  <2>1. h' = [h EXCEPT ![w] = x] /\ x \in Stands /\ x.at # "sent"
    BY <1>6, NobodyHasNothing DEF Return
  <2>2. QED BY <1>1, <1>2, <1>3, <2>1, PlainGoesOn
<1>7. QED BY <1>1, <1>4, <1>5, <1>6

(* Another worker was about the thread, or this one is alone. *)
LEMMA PlainTaking ==
  ASSUME Inv, Inv', PlainInv, Plain, Plain', NEW w \in Workers,
         Recover(w) \/ \E r \in reports : TakeReport(w, r)
  PROVE  PlainInv'
<1>1. /\ h[w].at = "idle" /\ odd' = odd \cup Others(w) /\ UNCHANGED <<live, citations, sent>>
      /\ row.status # "answered" /\ row'.status # "answered"
  <2>1. row \in ParentRows
    BY DEF Inv, Typed
  <2>2. CASE Recover(w)
    <3>1. CASE row.active
      BY <2>1, <2>2, <3>1 DEF Recover, At, ParentRows
    <3>2. CASE ~row.active
      BY <2>1, <2>2, <3>2 DEF Recover, At, ParentRows
    <3>3. QED BY <3>1, <3>2
  <2>3. CASE \E r \in reports : TakeReport(w, r)
    BY <2>3 DEF TakeReport, Free, At
  <2>4. QED BY <2>2, <2>3
<1> PICK x : x = h'[w]
  OBVIOUS
<1>2. x \in Stands /\ x.at \in {"stream", "load", "upsert"} /\ h' = [h EXCEPT ![w] = x]
  <2>1. /\ x.at \in {"stream", "load", "upsert"} /\ h' = [h EXCEPT ![w] = x]
    <3>1. h \in [Workers -> Stands]
      BY DEF Inv, Typed
    <3>2. CASE Recover(w)
      <4>1. CASE row.active
        BY <3>1, <3>2, <4>1 DEF Recover, Stands
      <4>2. CASE ~row.active
        BY <3>1, <3>2, <4>2 DEF Recover, Stands
      <4>3. QED BY <4>1, <4>2
    <3>3. ASSUME NEW r \in reports, TakeReport(w, r)
          PROVE  x.at \in {"stream", "load", "upsert"} /\ h' = [h EXCEPT ![w] = x]
      BY <3>1, <3>3, NobodyHasNothing DEF TakeReport, NoHandler
    <3>4. QED BY <3>2, <3>3
  <2>2. QED BY <2>1, NextStands
<1>3. \A v \in Workers : v # w => h[v].at = "idle"
  <2>1. Others(w) = {}
    BY <1>1 DEF Others, Plain
  <2>2. QED BY <2>1 DEF Others, At
<1>4. live = Workers /\ citations = <<>>
  <2>1. \A v \in Workers : h[v].at \notin Ending
    BY <1>1, <1>3 DEF Ending
  <2>2. QED BY <1>1, <2>1 DEF PlainInv
<1>5. x.at \notin Ending
  BY <1>2 DEF Ending
<1>6. QED
  BY <1>1, <1>2, <1>3, <1>4, <1>5, PlainMoves DEF Ending

LEMMA PlainRecording ==
  ASSUME Inv, Inv', PlainInv, Plain, Plain', NEW w \in Workers, Record(w) \/ LoadGroup(w)
  PROVE  PlainInv'
<1> PICK x : x = h'[w]
  OBVIOUS
<1>1. /\ h[w].at \in {"upsert", "commit", "save", "load"}
      /\ UNCHANGED <<row, live, citations, sent>>
      /\ h' = [h EXCEPT ![w] = x] /\ x.at \in {"idle", "commit", "save", "finalize"}
  <2>1. CASE UpsertResult(w) \/ LoadGroup(w)
    BY <2>1 DEF UpsertResult, LoadGroup, At, Inv, Typed, Stands
  <2>2. CASE CommitResult(w)
    BY <2>2, NobodyHasNothing DEF CommitResult, At, Goto, Return, Inv, Typed, Stands
  <2>3. CASE SaveGroup(w)
    BY <2>3, NobodyHasNothing DEF SaveGroup, At, Goto, Return, Inv, Typed, Stands
  <2>4. QED BY <2>1, <2>2, <2>3 DEF Record
<1>2. h[w].at \notin Ending \cup {"idle"} /\ x.at # "sent" /\ x \in Stands
  BY <1>1, NextStands DEF Ending
<1>3. row'.status # "answered"
  BY <1>1, <1>2, PlainAlone
<1>4. QED
  BY <1>1, <1>2, <1>3, PlainGoesOn

LEMMA PlainAggregating ==
  ASSUME Inv, Inv', PlainInv, Plain, Plain', NEW w \in Workers, Aggregate(w)
  PROVE  PlainInv'
<1>1. h[w].at \in Ending /\ h[w].at # "idle" /\ w \in live /\ h[w] \in Stands
  <2>1. h[w].at \in Ending
    BY DEF Aggregate, Finalize, NothingFound, Submit, Claim, Send, Accepted, At, Ending
  <2>2. h[w].at \notin Opening \cup {"idle"}
    BY <2>1 DEF Ending, Opening
  <2>3. QED BY <2>1, <2>2, Looking
<1>2. /\ live = Workers /\ \A v \in Workers : v # w => h[v].at = "idle"
      /\ row.status # "answered"
      /\ \A k \in DOMAIN citations : \E n \in Calls : n <= Len(h[w].out) /\ h[w].out[n] = k
  BY <1>1, PlainAlone DEF Told
<1>3. CASE Finalize(w) \/ NothingFound(w)
  <2> PICK o \in Nat : /\ Output(w, o)
                       /\ \/ o = Len(citations') /\ \E c : citations' = Append(citations, c)
                          \/ citations' = citations
    <3>1. Len(citations') \in Nat
      BY DEF Inv, Typed
    <3>2. QED BY <1>3, <3>1 DEF Finalize, NothingFound, Error
  <2> PICK old : old = h[w].out
    OBVIOUS
  <2> PICK x : x = h'[w]
    OBVIOUS
  <2>1. /\ h' = [h EXCEPT ![w] = x] /\ x.out = Append(old, o) /\ x.at \in {"submit", "finalize"}
        /\ x \in Stands
    <3>1. /\ h' = [h EXCEPT ![w] = x] /\ x.out = Append(old, o)
          /\ x.at \in {"submit", "finalize"}
      BY <1>1 DEF Output, Inv, Typed, Stands
    <3>2. QED BY <3>1, NextStands
  <2>2. old \in Seq(Nat) /\ Len(old) < NumCalls /\ citations \in Seq(Kids)
    BY <1>1, <1>3 DEF Finalize, NothingFound, At, Inv, Typed, Stand, Stands
  <2>3. /\ Len(x.out) = Len(old) + 1 /\ x.out[Len(old) + 1] = o
        /\ \A n \in 1..Len(old) : x.out[n] = old[n]
        /\ Len(old) + 1 \in Calls
    <3>1. Len(old) + 1 \in Calls
      BY <2>2, Naturals DEF Calls
    <3>2. /\ Len(x.out) = Len(old) + 1 /\ x.out[Len(old) + 1] = o
          /\ \A n \in 1..Len(old) : x.out[n] = old[n]
      BY <2>1, <2>2
    <3>3. QED BY <3>1, <3>2
  <2>4. ASSUME NEW k \in DOMAIN citations'
        PROVE  \E n \in Calls : n <= Len(x.out) /\ x.out[n] = k
    <3>1. CASE k \in DOMAIN citations
      <4>1. PICK n \in Calls : n <= Len(old) /\ old[n] = k
        BY <1>2, <3>1
      <4>2. n \in 1..Len(old) /\ Len(old) \in Nat
        BY <2>2, <4>1, Naturals DEF Calls
      <4>3. n <= Len(x.out)
        BY <2>3, <4>2
      <4>4. x.out[n] = k
        BY <2>3, <4>1, <4>2
      <4>5. QED BY <4>3, <4>4
    <3>2. CASE k \notin DOMAIN citations
      <4>1. k = o
        BY <2>2, <2>4, <3>2
      <4>2. Len(old) + 1 <= Len(x.out) /\ x.out[Len(old) + 1] = k
        BY <2>2, <2>3, <4>1
      <4>3. QED BY <2>3, <4>2
    <3>3. QED BY <3>1, <3>2
  <2>5. UNCHANGED <<live, row>>
    BY <1>3 DEF Finalize, NothingFound
  <2>6. x.at \in Ending /\ x.at # "sent"
    BY <2>1 DEF Ending
  <2>7. QED
    BY <1>2, <2>1, <2>4, <2>5, <2>6, PlainMoves
<1>4. CASE Submit(w) \/ Send(w) \/ (Claim(w) /\ CanClaim(w))
  <2> PICK x : x = h'[w]
    OBVIOUS
  <2>1. /\ h' = [h EXCEPT ![w] = x] /\ x.out = h[w].out /\ x.at \in {"claim", "send", "sent"}
        /\ x \in Stands
    <3>1. /\ h' = [h EXCEPT ![w] = x] /\ x.out = h[w].out /\ x.at \in {"claim", "send", "sent"}
      BY <1>1, <1>4 DEF Submit, Send, Claim, Goto, Inv, Typed, Stands
    <3>2. QED BY <3>1, NextStands
  <2>2. UNCHANGED <<live, citations>>
    BY <1>4 DEF Submit, Send, Claim
  <2>3. row'.status # "answered"
    BY <1>2, <1>4 DEF Submit, Send, Claim, Inv, Typed, ParentRows
  <2>4. x.at = "sent" => [group |-> row'.group, out |-> x.out] \in sent'
    BY <1>1, <1>4, <2>1 DEF Submit, Send, Claim, Goto, Inv, Typed, Stands
  <2>5. x.at \in Ending
    BY <2>1 DEF Ending
  <2>6. QED
    BY <1>1, <2>1, <2>2, <2>3, <2>4, <2>5, PlainGoesOn
<1>5. ~(Claim(w) /\ ~CanClaim(w))
  BY DEF Claim, Plain
<1>6. CASE Accepted(w)
  <2> PICK x : x = NoHandler
    OBVIOUS
  <2> PICK q : q = [group |-> row.group, out |-> h[w].out]
    OBVIOUS
  <2>1. h' = [h EXCEPT ![w] = x] /\ x \in Stands /\ x.at = "idle" /\ x.at \notin Ending
    BY <1>6, NobodyHasNothing DEF Accepted, Return, Ending
  <2>2. row'.status = "answered" /\ q \in sent' /\ UNCHANGED <<live, citations>>
    BY <1>2, <1>6 DEF Accepted, At, PlainInv, Inv, Typed, ParentRows
  <2>3. \A k \in DOMAIN citations' : \E n \in Calls : q.out[n] = k
    BY <1>2, <2>2
  <2>4. QED
    BY <1>2, <2>1, <2>2, <2>3, PlainMoves
<1>7. QED
  BY <1>3, <1>4, <1>5, <1>6 DEF Aggregate

LEMMA PlainInit == Init => PlainInv
<1> SUFFICES ASSUME Init PROVE PlainInv
  OBVIOUS
<1>1. \A w \in Workers : w # First => h[w].at = "idle"
  BY NobodyHasNothing DEF Init
<1>2. h[First].at = "stream"
  BY WorkersAreThere, NobodyHasNothing DEF Init, Stands
<1>3. \A w \in Workers : h[w].at \notin Ending
  BY <1>1, <1>2 DEF Ending
<1>4. QED
  BY <1>1, <1>2, <1>3, WorkersAreThere DEF Init, PlainInv, At, Ending

LEMMA PlainNext == Inv /\ Inv' /\ PlainInv /\ [Next]_vars => PlainInv'
<1> SUFFICES ASSUME Inv, Inv', PlainInv, [Next]_vars, Plain' PROVE PlainInv'
  BY DEF PlainInv
<1>0. Plain
  BY PlainBefore
<1>1. CASE UNCHANGED vars
  BY <1>0, <1>1, PlainStays DEF vars
<1>2. ASSUME NEW w \in Workers, Open(w) \/ OpeningFails(w) PROVE PlainInv'
  BY <1>0, <1>2, PlainOpening
<1>3. ASSUME NEW w \in Workers, Recover(w) \/ \E r \in reports : TakeReport(w, r)
      PROVE  PlainInv'
  BY <1>0, <1>3, PlainTaking
<1>4. ASSUME NEW w \in Workers, Record(w) \/ LoadGroup(w) PROVE PlainInv'
  BY <1>0, <1>4, PlainRecording
<1>5. ASSUME NEW w \in Workers, Aggregate(w) PROVE PlainInv'
  BY <1>0, <1>5, PlainAggregating
<1>6. ASSUME NEW w \in Workers, FinalizeFails(w) \/ Crash(w) PROVE PlainInv'
  BY <1>6 DEF FinalizeFails, Crash, Plain
<1>7. ASSUME NEW w \in Workers, NEW r \in reports, DropReport(w, r) PROVE PlainInv'
  BY <1>0, <1>7, PlainStays DEF DropReport
<1>8. ASSUME NEW c \in Kids, KidReports(c) PROVE PlainInv'
  BY <1>0, <1>8, PlainStays DEF KidReports
<1>9. CASE Release
  <2>1. row'.status = row.status /\ row'.group = row.group
    BY <1>9 DEF Release, Inv, Typed, ParentRows
  <2>2. QED BY <1>0, <1>9, <2>1, PlainStays DEF Release
<1>10. QED
  BY <1>1, <1>2, <1>3, <1>4, <1>5, <1>6, <1>7, <1>8, <1>9 DEF Next

(* documenthandler's finalize commits a citation before the parent's         *)
(* handler has its id: as long as no worker dies, no answer is lost and no   *)
(* claim refused, each committed citation is one that the parent's thread    *)
(* was told of, and the only one of its call.                                *)
THEOREM NoCitationIsLost == Spec => []NoStrayCitation
<1>1. Inv /\ PlainInv => NoStrayCitation
  <2> SUFFICES ASSUME Inv, PlainInv, row.status = "answered", Plain
               PROVE  /\ \A k \in DOMAIN citations : \E q \in sent, n \in Calls : q.out[n] = k
                      /\ \A j, k \in DOMAIN citations : citations[j][2] = citations[k][2] => j = k
    BY DEF NoStrayCitation, Plain
  <2>1. PICK q \in sent : \A k \in DOMAIN citations : \E n \in Calls : q.out[n] = k
    BY DEF PlainInv
  <2>2. ASSUME NEW k \in DOMAIN citations, NEW n \in Calls, q.out[n] = k
        PROVE  citations[k][2] = n
    <3>1. Truth(q.group, n, k) /\ q.group = row.group /\ ~row.active
      BY <2>2 DEF Inv, Truths
    <3>2. k # Error
      BY <2>2 DEF Inv, Typed, Error
    <3>3. q.group \in Rounds /\ spawn[q.group].bindings # 0
      BY <3>1, Naturals DEF Inv, Typed, Stage, ParentRows, Rounds
    <3>4. QED BY <3>1, <3>2, <3>3, BoundKidIs DEF Truth, Inv
  <2>3. QED
    BY <2>1, <2>2
<1>2. Init => Inv /\ PlainInv
  BY InvInit, PlainInit
<1>3. Inv /\ PlainInv /\ [Next]_vars => (Inv /\ PlainInv)'
  BY InvNext, PlainNext
<1>4. QED
  BY <1>1, <1>2, <1>3, PTL DEF Spec
=============================================================================
