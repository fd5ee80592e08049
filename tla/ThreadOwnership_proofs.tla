----------------------- MODULE ThreadOwnership_proofs -----------------------
(***************************************************************************)
(* For any set of workers and any bound on generations: the variables keep *)
(* their types, the generations of a living lease row are fencing tokens,  *)
(* a handler that holds the lease knows its generation, and the lease row  *)
(* implements FencedLease.                                                 *)
(*                                                                         *)
(* What happens to the lease row in a step is one of five things           *)
(* (LeaseStep); the proofs about the row look at those five and not at the *)
(* two dozen actions again.                                                *)
(***************************************************************************)
EXTENDS ThreadOwnership, TLAPS

USE NoWorkerIsNoWorker, MaxGenerationIsNat

Leases == [worker : Owners, gen : Generations, live : BOOLEAN]
Grants == SUBSET (Generations \X Workers)

RowsOK == thread \in Metas /\ lease \in Leases /\ granted \in Grants

(* The five things a step may do to the lease row. *)
ClaimStep == \E w \in Workers :
               /\ ~ClaimRefused(w)
               /\ ClaimGen(w) <= MaxGeneration
               /\ Grant(w, ClaimGen(w))
RotateStep == \E w \in Workers :
                /\ Matches(w, lease.gen)
                /\ lease.gen + 1 <= MaxGeneration
                /\ Grant(w, lease.gen + 1)
ReleaseStep == \E w \in Workers, g \in Generations : Release(w, g)
LiveStep == \E b \in BOOLEAN :
              /\ b => Leased
              /\ ~b => lease.live
              /\ lease' = [lease EXCEPT !.live = b]
              /\ UNCHANGED granted
QuietStep == UNCHANGED <<lease, granted>>

LeaseStep == ClaimStep \/ RotateStep \/ ReleaseStep \/ LiveStep \/ QuietStep

(* An absent row is blank; a present one has a generation. *)
LeaseShape == IF Leased THEN lease.gen > 0 ELSE lease = NoLease /\ granted = {}

IInv == TypeOK /\ LeaseShape /\ TokensFenced /\ HolderKnowsGeneration
-----------------------------------------------------------------------------
LEMMA RowsAreTyped == TypeOK => RowsOK
  BY DEF TypeOK, RowsOK, Leases, Grants

LEMMA NoLeaseIsTyped == NoLease \in Leases
<1>1. 0 \in Generations  BY DEF Generations
<1> QED  BY <1>1 DEF NoLease, Leases, Owners

(* Grant within the bound and Release keep the types of the rows. *)
LEMMA GrantKeepsTypes ==
  ASSUME TypeOK, NEW w \in Workers, NEW g \in Nat, g <= MaxGeneration,
         Grant(w, g)
  PROVE  RowsOK'
<1>1. g \in Generations  BY DEF Generations
<1>2. thread' \in Metas /\ lease' \in Leases
  BY <1>1 DEF Grant, Metas, Leases, Owners
<1>3. granted' \in Grants
  BY <1>1 DEF Grant, Grants, TypeOK
<1> QED  BY <1>2, <1>3 DEF RowsOK

LEMMA ReleaseKeepsTypes ==
  ASSUME TypeOK, NEW w \in Workers, NEW g, Release(w, g)
  PROVE  RowsOK'
<1>1. CASE Matches(w, g)
  <2>1. lease' \in Leases
    BY <1>1, NoLeaseIsTyped DEF Release
  <2>2. thread' \in Metas  BY <1>1 DEF Release, TypeOK, Metas, Owners
  <2>3. granted' \in Grants  BY <1>1 DEF Release, Grants
  <2> QED  BY <2>1, <2>2, <2>3 DEF RowsOK
<1>2. CASE ~Matches(w, g)
  BY <1>2, RowsAreTyped DEF Release, rows, RowsOK
<1> QED  BY <1>1, <1>2

(* The generation a claim asks for is positive. *)
LEMMA ClaimGenIsPositive ==
  ASSUME TypeOK, NEW w \in Workers
  PROVE  ClaimGen(w) \in Nat \ {0}
  BY DEF TypeOK, Metas, Generations, ClaimGen, CurrentGen

LEMMA InitType == Init => TypeOK
  BY DEF Init, TypeOK, Blank, NoLease, Metas, Owners, Generations, Positions

(* The variables of the workers' actors have their types. *)
ActorsOK ==
  /\ up \in [Workers -> BOOLEAN]
  /\ open \in [Workers -> BOOLEAN]
  /\ pc \in [Workers -> Positions]
  /\ local \in [Workers -> Metas]
  /\ mem \in [Workers -> Metas]
  /\ loop \in [Workers -> Generations]

LEMMA TypeSplits == TypeOK <=> RowsOK /\ ActorsOK
  BY DEF TypeOK, RowsOK, ActorsOK, Leases, Grants

LEMMA TypeNext == TypeOK /\ [Next]_vars => TypeOK'
<1> SUFFICES ASSUME TypeOK, [Next]_vars  PROVE RowsOK' /\ ActorsOK'
  BY TypeSplits, PTL
<1> USE DEF ActorsOK
<1>0. RowsOK /\ ActorsOK  BY TypeSplits
<1>a. Blank \in Metas /\ 0 \in Generations
  BY DEF Blank, Metas, Owners, Generations
<1>b. \A w \in Workers : w \in Owners /\ NoWorker \in Owners  BY DEF Owners
<1>c. ASSUME NEW w \in Workers  PROVE  local[w] \in Metas /\ local[w].gen \in Generations
  BY <1>0 DEF Metas
<1>d. ASSUME NEW w \in Workers, CancelActor(w)
      PROVE  /\ open' \in [Workers -> BOOLEAN]
             /\ pc' \in [Workers -> Positions]
             /\ local' \in [Workers -> Metas]
             /\ loop' \in [Workers -> Generations]
  BY <1>0, <1>a, <1>d DEF CancelActor, Return, Goto, Positions
<1>1. CASE UNCHANGED vars
  BY <1>0, <1>1 DEF vars, RowsOK
<1>2. ASSUME NEW w \in Workers, Handler(w)  PROVE  RowsOK' /\ ActorsOK'
  <2>1. CASE LoadThread(w)
    BY ZenonT(40), <1>0, <1>a, <2>1 DEF LoadThread, Goto, rows, RowsOK, Positions
  <2>2. CASE ClaimOwnership(w)
    <3>1. RowsOK'
      BY <2>2, GrantKeepsTypes, ClaimGenIsPositive DEF ClaimOwnership
    <3>2. [owner |-> w, gen |-> ClaimGen(w)] \in Metas
      BY <1>b, <2>2, ClaimGenIsPositive DEF ClaimOwnership, Metas, Generations
    <3> QED  BY <1>0, <2>2, <3>1, <3>2 DEF ClaimOwnership, Goto, Positions
  <2>3. CASE ClaimConflict(w)
    BY <1>0, <1>a, <2>3
    DEF ClaimConflict, Return, Goto, rows, RowsOK, Positions
  <2>4. CASE SaveThread(w)
    BY <1>0, <2>4 DEF SaveThread, Goto, RowsOK, Positions
  <2>5. CASE StartLeaseLoop(w)
    BY <1>0, <1>c, <2>5 DEF StartLeaseLoop, Goto, rows, RowsOK, Positions
  <2>6. CASE StreamSave(w)
    BY <1>0, <2>6 DEF StreamSave, RowsOK
  <2>7. CASE ReloadThread(w)
    BY <1>0, <2>7 DEF ReloadThread, Goto, rows, RowsOK, Positions
  <2>8. CASE HandlerReturns(w)
    BY <1>0, <1>a, <2>8
    DEF HandlerReturns, Return, Goto, rows, RowsOK, Positions
  <2>r. ASSUME ReleaseAndForget(w)
        PROVE  /\ RowsOK'
               /\ pc' \in [Workers -> Positions]
               /\ local' \in [Workers -> Metas] /\ local'[w] \in Metas
               /\ loop' \in [Workers -> Generations]
    <3>1. RowsOK'
      BY <1>0, <2>r, ReleaseKeepsTypes DEF ReleaseAndForget, rows, RowsOK
    <3>2. [local[w] EXCEPT !.owner = NoWorker] \in Metas
      BY <1>b, <1>c DEF Metas
    <3> QED  BY <1>0, <1>a, <2>r, <3>1, <3>2 DEF ReleaseAndForget, Goto, Positions
  <2>9. CASE ReleaseTerminalChild(w)
    BY <1>0, <2>9, <2>r DEF ReleaseTerminalChild
  <2>10. CASE MissingCheckpoint(w)
    BY <1>0, <2>10, <2>r DEF MissingCheckpoint
  <2>11. CASE RetriesExhausted(w)
    BY <1>0, <2>11 DEF RetriesExhausted, Goto, rows, RowsOK, Positions
  <2>12. CASE FailThread(w)
    <3>1. CASE ReleaseAndForget(w)
      BY <1>0, <2>12, <2>r, <3>1 DEF FailThread
    <3>2. CASE ~ReleaseAndForget(w)
      BY <1>0, <1>a, <2>12, <3>2
      DEF FailThread, Goto, rows, RowsOK, Positions
    <3> QED  BY <3>1, <3>2
  <2>s. ASSUME SelfDestructs(w) \/ Stays(w)
        PROVE  /\ open' \in [Workers -> BOOLEAN]
               /\ pc' \in [Workers -> Positions]
               /\ local' \in [Workers -> Metas]
               /\ loop' \in [Workers -> Generations]
    BY <1>0, <1>a, <1>d, <2>s
    DEF SelfDestructs, Stays, Return, Goto, Positions
  <2>13. CASE SaveReleased(w)
    BY <1>0, <2>13, <2>s DEF SaveReleased, RowsOK
  <2>14. CASE RotateSocket(w)
    BY <1>0, <1>a, <2>14 DEF RotateSocket, Goto, rows, RowsOK, Positions
  <2>15. CASE RotateOwnership(w)
    <3>1. RowsOK'
      BY <1>c, <2>15, GrantKeepsTypes DEF RotateOwnership, Generations
    <3>2. [owner |-> w, gen |-> local[w].gen + 1] \in Metas
      BY <1>b, <1>c, <2>15 DEF RotateOwnership, Metas, Generations
    <3> QED  BY <1>0, <2>15, <3>1, <3>2 DEF RotateOwnership, Goto, Positions
  <2>16. CASE RotateDone(w)
    BY <1>0, <1>a, <1>c, <2>16
    DEF RotateDone, Return, Goto, rows, RowsOK, Positions
  <2>17. CASE RotateError(w)
    BY <1>0, <1>a, <1>c, <2>17
    DEF RotateError, Return, Goto, rows, RowsOK, Positions
  <2>18. CASE RotateRefused(w)
    <3>1. CASE CancelActor(w)
      BY <1>0, <1>d, <2>18, <3>1 DEF RotateRefused, rows, RowsOK
    <3>2. CASE ~CancelActor(w)
      BY <1>0, <1>a, <2>18, <3>2
      DEF RotateRefused, Return, Goto, rows, RowsOK, Positions
    <3> QED  BY <3>1, <3>2
  <2>19. CASE Cancel(w)
    BY <1>0, <2>19 DEF Cancel, Goto, RowsOK, Positions
  <2>20. CASE CancelRelease(w)
    BY <1>0, <2>20, <2>s, ReleaseKeepsTypes DEF CancelRelease
  <2>21. CASE DisconnectSocket(w)
    BY <1>0, <1>a, <2>21, ReleaseKeepsTypes
    DEF DisconnectSocket, Return, Goto, Positions
  <2> QED
    BY <1>2, <2>1, <2>2, <2>3, <2>4, <2>5, <2>6, <2>7, <2>8, <2>9, <2>10,
       <2>11, <2>12, <2>13, <2>14, <2>15, <2>16, <2>17, <2>18, <2>19, <2>20,
       <2>21 DEF Handler
<1>3. ASSUME NEW w \in Workers, LeaseLoop(w)  PROVE  RowsOK' /\ ActorsOK'
  <2>1. CASE RenewOwnership(w)
    BY <1>0, <2>1 DEF RenewOwnership, RowsOK, Leases
  <2>2. CASE RenewRefused(w)
    <3>1. CASE CancelActor(w)
      BY <1>0, <1>d, <2>2, <3>1 DEF RenewRefused, rows, RowsOK
    <3>2. CASE ~CancelActor(w)
      BY <1>0, <1>a, <2>2, <3>2 DEF RenewRefused, rows, RowsOK
    <3> QED  BY <3>1, <3>2
  <2> QED  BY <1>3, <2>1, <2>2 DEF LeaseLoop
<1>4. ASSUME NEW w \in Workers, Close(w) \/ Crash(w)  PROVE  RowsOK' /\ ActorsOK'
  <2>1. RowsOK'
    BY <1>0, <1>4, ReleaseKeepsTypes DEF Close, Crash, rows, RowsOK
  <2>2. Stop(w)  BY <1>4 DEF Close, Crash
  <2>3. ActorsOK'  BY <1>0, <1>a, <2>2 DEF Stop, Positions
  <2> QED  BY <2>1, <2>3
<1>5. CASE LeaseExpires
  BY <1>0, <1>5 DEF LeaseExpires, RowsOK, Leases
<1> QED  BY <1>1, <1>2, <1>3, <1>4, <1>5 DEF Next

(* Every variable keeps its type, whatever the workers do. *)
THEOREM TypeCorrect == Spec => []TypeOK
  BY InitType, TypeNext, PTL DEF Spec
-----------------------------------------------------------------------------
LEMMA NextIsLeaseStep == TypeOK /\ [Next]_vars => LeaseStep
<1> SUFFICES ASSUME TypeOK, [Next]_vars  PROVE LeaseStep
  OBVIOUS
<1> USE DEF LeaseStep
<1>g. \A w \in Workers : /\ local[w].gen \in Generations
                          /\ mem[w].gen \in Generations
                          /\ lease.gen \in Int
  BY DEF TypeOK, Metas, Generations
<1>q. \A w \in Workers, g \in Generations :
        Release(w, g) => ReleaseStep
  BY DEF ReleaseStep
<1>1. CASE UNCHANGED vars
  BY <1>1 DEF vars, QuietStep
<1>2. ASSUME NEW w \in Workers, Handler(w)  PROVE  LeaseStep
  <2>1. CASE ClaimOwnership(w)
    BY <2>1 DEF ClaimOwnership, ClaimStep
  <2>2. CASE RotateOwnership(w)
    <3>1. local[w].gen = lease.gen /\ Matches(w, lease.gen)
      BY <2>2 DEF RotateOwnership, MayRotate, Matches
    <3>2. lease.gen + 1 <= MaxGeneration /\ Grant(w, lease.gen + 1)
      BY <2>2, <3>1 DEF RotateOwnership
    <3> QED  BY <3>1, <3>2 DEF RotateStep
  <2>r. ReleaseAndForget(w) => ReleaseStep \/ QuietStep
    BY <1>g, <1>q DEF ReleaseAndForget, rows, QuietStep
  <2>3. CASE \/ ReleaseTerminalChild(w) \/ MissingCheckpoint(w) \/ FailThread(w)
             \/ CancelRelease(w) \/ DisconnectSocket(w)
    BY <1>g, <1>q, <2>3, <2>r
    DEF ReleaseTerminalChild, MissingCheckpoint, FailThread, CancelRelease,
        DisconnectSocket, QuietStep, rows
  <2>4. CASE \/ LoadThread(w) \/ ClaimConflict(w) \/ SaveThread(w)
             \/ StartLeaseLoop(w) \/ StreamSave(w) \/ ReloadThread(w)
             \/ HandlerReturns(w) \/ RetriesExhausted(w) \/ SaveReleased(w)
             \/ RotateSocket(w) \/ RotateDone(w) \/ RotateError(w)
             \/ RotateRefused(w) \/ Cancel(w)
    BY <2>4
    DEF LoadThread, ClaimConflict, SaveThread, StartLeaseLoop, StreamSave,
        ReloadThread, HandlerReturns, RetriesExhausted, SaveReleased,
        RotateSocket, RotateDone, RotateError, RotateRefused, Cancel,
        QuietStep, rows
  <2> QED  BY <1>2, <2>1, <2>2, <2>3, <2>4 DEF Handler
<1>3. ASSUME NEW w \in Workers, LeaseLoop(w)  PROVE  LeaseStep
  <2>1. CASE RenewOwnership(w)
    BY <2>1 DEF RenewOwnership, Matches, LiveStep
  <2>2. CASE RenewRefused(w)
    BY <2>2 DEF RenewRefused, QuietStep, rows
  <2> QED  BY <1>3, <2>1, <2>2 DEF LeaseLoop
<1>4. ASSUME NEW w \in Workers, Close(w) \/ Crash(w)  PROVE  LeaseStep
  BY <1>4, <1>g, <1>q DEF Close, Crash, QuietStep, rows
<1>5. CASE LeaseExpires
  BY <1>5 DEF LeaseExpires, LiveStep
<1> QED  BY <1>1, <1>2, <1>3, <1>4, <1>5 DEF Next

LEMMA ShapeNext ==
  TypeOK /\ LeaseShape /\ LeaseStep => LeaseShape'
<1> SUFFICES ASSUME TypeOK, LeaseShape, LeaseStep  PROVE LeaseShape'
  OBVIOUS
<1>w. \A w \in Workers : w # NoWorker  OBVIOUS
<1>1. CASE ClaimStep
  BY <1>1, <1>w, ClaimGenIsPositive DEF ClaimStep, Grant, LeaseShape, Leased
<1>2. CASE RotateStep
  BY <1>2, <1>w DEF RotateStep, Grant, LeaseShape, Leased, Matches, TypeOK, Generations
<1>3. CASE ReleaseStep
  BY <1>3 DEF ReleaseStep, Release, LeaseShape, Leased, Matches, NoLease, rows
<1>4. CASE LiveStep
  BY <1>4 DEF LiveStep, LeaseShape, Leased, TypeOK, NoLease
<1>5. CASE QuietStep
  BY <1>5 DEF QuietStep, LeaseShape, Leased
<1> QED  BY <1>1, <1>2, <1>3, <1>4, <1>5 DEF LeaseStep

(* A claim by another worker, and a rotation, raise the generation; a       *)
(* repeated claim keeps it and the pair it adds is already there.           *)
LEMMA TokensNext ==
  TypeOK /\ LeaseShape /\ TokensFenced /\ LeaseStep => TokensFenced'
<1> SUFFICES ASSUME TypeOK, LeaseShape, TokensFenced, LeaseStep
             PROVE  TokensFenced'
  OBVIOUS
<1>t. lease.gen \in Nat /\ \A p \in granted : p \in Nat \X Workers
  BY DEF TypeOK, Generations
<1>1. CASE ClaimStep
  <2>1. PICK w \in Workers : ~ClaimRefused(w) /\ Grant(w, ClaimGen(w))
    BY <1>1 DEF ClaimStep
  <2>2. CASE ~Leased
    <3>1. granted' = {<<ClaimGen(w), w>>} /\ lease'.gen = ClaimGen(w) /\ lease'.worker = w
      BY <2>1, <2>2 DEF Grant
    <3> QED  BY <3>1, ClaimGenIsPositive DEF TokensFenced
  <2>3. CASE Leased
    <3>1. /\ granted' = granted \cup {<<ClaimGen(w), w>>}
          /\ lease'.gen = ClaimGen(w) /\ lease'.worker = w
      BY <2>1, <2>3 DEF Grant
    <3>2. CASE lease.worker = w
      <4>1. ClaimGen(w) = lease.gen
        BY <2>3, <3>2, <1>t DEF ClaimGen, CurrentOwner, CurrentGen, LeaseShape
      <4>2. granted' = granted
        BY <3>1, <3>2, <4>1, <2>3 DEF TokensFenced
      <4> QED  BY <3>1, <3>2, <4>1, <4>2 DEF TokensFenced, Leased
    <3>3. CASE lease.worker # w
      <4>1. ClaimGen(w) = lease.gen + 1
        BY <2>3, <3>3 DEF ClaimGen, CurrentOwner, CurrentGen
      <4>2. \A p \in granted : p[1] < lease.gen + 1
        BY <1>t DEF TokensFenced
      <4> QED  BY <1>t, <3>1, <4>1, <4>2 DEF TokensFenced
    <3> QED  BY <3>2, <3>3
  <2> QED  BY <2>2, <2>3
<1>2. CASE RotateStep
  <2>1. PICK w \in Workers : Matches(w, lease.gen) /\ Grant(w, lease.gen + 1)
    BY <1>2 DEF RotateStep
  <2>2. /\ granted' = granted \cup {<<lease.gen + 1, w>>}
        /\ lease'.gen = lease.gen + 1 /\ lease'.worker = w
    BY <2>1 DEF Grant, Matches
  <2>3. \A p \in granted : p[1] < lease.gen + 1
    BY <1>t DEF TokensFenced
  <2> QED  BY <1>t, <2>2, <2>3 DEF TokensFenced
<1>3. CASE ReleaseStep
  BY <1>3 DEF ReleaseStep, Release, rows, TokensFenced, Leased, NoLease
<1>4. CASE LiveStep
  BY <1>4 DEF LiveStep, TypeOK, TokensFenced, Leased
<1>5. CASE QuietStep
  BY <1>5 DEF QuietStep, TokensFenced, Leased
<1> QED  BY <1>1, <1>2, <1>3, <1>4, <1>5 DEF LeaseStep

(* Only a worker's own handler puts the worker into the lease row, and it   *)
(* learns the generation in the same step.                                  *)
LEMMA HolderNext ==
  TypeOK /\ HolderKnowsGeneration /\ [Next]_vars => HolderKnowsGeneration'
<1> DEFINE Holding == {"claimed", "saved", "turn", "rotated"}
           Knows(w) == pc[w] \in Holding /\ lease.worker = w
                       => local[w].gen = lease.gen
<1> SUFFICES ASSUME TypeOK, [Next]_vars, \A w \in Workers : Knows(w),
                    NEW v \in Workers
             PROVE  Knows(v)'
  BY DEF HolderKnowsGeneration
<1>w. v # NoWorker  OBVIOUS
<1>r. ASSUME NEW w \in Workers, NEW g, Release(w, g),
             pc'[v] = pc[v], local'[v] = local[v]
      PROVE  Knows(v)'
  BY <1>r, <1>w DEF Release, NoLease, rows
<1>e. ASSUME pc'[v] = "idle"  PROVE Knows(v)'
  BY <1>e
<1>f. ASSUME NEW w \in Workers, w # v, Goto(w, "idle") \/ Return(w)
      PROVE  pc'[v] = pc[v]
  BY <1>f DEF Goto, Return, TypeOK
<1>1. CASE UNCHANGED vars
  BY <1>1 DEF vars
<1>2. ASSUME NEW w \in Workers, Handler(w)  PROVE  Knows(v)'
  <2>a. CASE w = v
    <3>1. CASE ClaimOwnership(v) \/ RotateOwnership(v)
      BY <3>1 DEF ClaimOwnership, RotateOwnership, Grant, TypeOK
    <3>2. CASE SaveThread(v) \/ StartLeaseLoop(v)
      BY <3>2 DEF SaveThread, StartLeaseLoop, At, Goto, rows, TypeOK
    <3>3. CASE StreamSave(v)
      BY <3>3 DEF StreamSave
    <3>4. CASE \/ LoadThread(v) \/ ReloadThread(v) \/ RetriesExhausted(v)
               \/ ReleaseTerminalChild(v) \/ MissingCheckpoint(v)
               \/ FailThread(v) \/ RotateSocket(v) \/ Cancel(v)
      BY <3>4
      DEF LoadThread, ReloadThread, RetriesExhausted, ReleaseTerminalChild,
          MissingCheckpoint, FailThread, ReleaseAndForget, RotateSocket,
          Cancel, Goto, TypeOK
    <3>5. CASE \/ ClaimConflict(v) \/ HandlerReturns(v) \/ SaveReleased(v)
               \/ RotateDone(v) \/ RotateError(v) \/ RotateRefused(v)
               \/ CancelRelease(v) \/ DisconnectSocket(v)
      BY <3>5, <1>e
      DEF ClaimConflict, HandlerReturns, SaveReleased, RotateDone, RotateError,
          RotateRefused, CancelRelease, DisconnectSocket, SelfDestructs, Stays,
          CancelActor, Return, Goto, TypeOK
    <3> QED  BY <1>2, <2>a, <3>1, <3>2, <3>3, <3>4, <3>5 DEF Handler
  <2>b. CASE w # v
    <3>0. pc'[v] = pc[v] /\ local'[v] = local[v]
      <4>1. CASE \/ SaveReleased(w) \/ CancelRelease(w) \/ RotateRefused(w)
        BY <2>b, <4>1
        DEF SaveReleased, CancelRelease, RotateRefused, SelfDestructs, Stays,
            CancelActor, Return, Goto, TypeOK
      <4>2. CASE \/ ReleaseTerminalChild(w) \/ MissingCheckpoint(w) \/ FailThread(w)
        BY <2>b, <4>2
        DEF ReleaseTerminalChild, MissingCheckpoint, FailThread,
            ReleaseAndForget, Goto, TypeOK
      <4>3. CASE \/ LoadThread(w) \/ ClaimOwnership(w) \/ ClaimConflict(w)
                 \/ SaveThread(w) \/ StartLeaseLoop(w) \/ StreamSave(w)
                 \/ ReloadThread(w) \/ HandlerReturns(w)
                 \/ RetriesExhausted(w) \/ RotateSocket(w)
        BY <2>b, <4>3
        DEF LoadThread, ClaimOwnership, ClaimConflict, SaveThread,
            StartLeaseLoop, StreamSave, ReloadThread, HandlerReturns,
            RetriesExhausted, RotateSocket, Return, Goto, TypeOK
      <4>4. CASE \/ RotateOwnership(w) \/ RotateDone(w) \/ RotateError(w)
                 \/ Cancel(w) \/ DisconnectSocket(w)
        BY <2>b, <4>4
        DEF RotateOwnership, RotateDone, RotateError, Cancel,
            DisconnectSocket, Return, Goto, TypeOK
      <4> QED  BY <1>2, <4>1, <4>2, <4>3, <4>4 DEF Handler
    <3>1. CASE ClaimOwnership(w) \/ RotateOwnership(w)
      BY <2>b, <3>1 DEF ClaimOwnership, RotateOwnership, Grant
    <3>r. ReleaseAndForget(w) => Knows(v)'
      BY <1>r, <3>0 DEF ReleaseAndForget, rows
    <3>2. CASE \/ ReleaseTerminalChild(w) \/ MissingCheckpoint(w) \/ FailThread(w)
               \/ CancelRelease(w) \/ DisconnectSocket(w)
      BY <1>r, <3>0, <3>2, <3>r
      DEF ReleaseTerminalChild, MissingCheckpoint, FailThread, CancelRelease,
          DisconnectSocket, rows
    <3>3. CASE UNCHANGED lease
      BY <3>0, <3>3
    <3> QED
      BY <1>2, <3>1, <3>2, <3>3
      DEF Handler, LoadThread, ClaimConflict, SaveThread, StartLeaseLoop,
          StreamSave, ReloadThread, HandlerReturns, RetriesExhausted,
          SaveReleased, RotateSocket, RotateDone, RotateError, RotateRefused,
          Cancel, rows
  <2> QED  BY <2>a, <2>b
<1>3. ASSUME NEW w \in Workers, LeaseLoop(w)  PROVE  Knows(v)'
  <2>1. CASE RenewOwnership(w)
    BY <2>1 DEF RenewOwnership, TypeOK
  <2>2. CASE RenewRefused(w)
    BY <2>2, <1>e DEF RenewRefused, CancelActor, Return, Goto, rows, TypeOK
  <2> QED  BY <1>3, <2>1, <2>2 DEF LeaseLoop
<1>4. ASSUME NEW w \in Workers, Close(w) \/ Crash(w)  PROVE  Knows(v)'
  <2>1. CASE w = v
    BY <1>4, <2>1, <1>e DEF Close, Crash, Stop, TypeOK
  <2>2. CASE w # v
    <3>1. pc'[v] = pc[v] /\ local'[v] = local[v]
      BY <1>4, <2>2 DEF Close, Crash, Stop, TypeOK
    <3> QED  BY <1>4, <3>1, <1>r DEF Close, Crash, rows
  <2> QED  BY <2>1, <2>2
<1>5. CASE LeaseExpires
  BY <1>5 DEF LeaseExpires, TypeOK
<1> QED  BY <1>1, <1>2, <1>3, <1>4, <1>5 DEF Next
-----------------------------------------------------------------------------
LEMMA Invariance == Spec => []IInv
<1>1. Init => IInv
  BY InitType
  DEF Init, IInv, LeaseShape, TokensFenced, HolderKnowsGeneration, Leased,
      NoLease
<1>2. IInv /\ [Next]_vars => IInv'
  BY TypeNext, NextIsLeaseStep, ShapeNext, TokensNext, HolderNext DEF IInv
<1> QED  BY <1>1, <1>2, PTL DEF Spec

(* The generations a lease row has had name their holders one for one, and  *)
(* the present one is the largest.                                          *)
THEOREM GenerationsAreTokens == Spec => []TokensFenced
  BY Invariance, PTL DEF IInv

(* A handler whose worker holds the lease never acts on an older generation. *)
THEOREM HoldersKnow == Spec => []HolderKnowsGeneration
  BY Invariance, PTL DEF IInv

(* Every step on the two rows is a step of the abstract lease or none: with *)
(* any number of workers no live lease is taken over, and no change of      *)
(* hands goes without a larger token.                                       *)
LEMMA StepImplements ==
  IInv /\ LeaseStep => [Lease!LeaseNext]_(Lease!leaseVars)
<1> SUFFICES ASSUME IInv, LeaseStep
             PROVE  Lease!LeaseNext \/ UNCHANGED Lease!leaseVars
  OBVIOUS
<1> USE DEF Lease!LeaseNext, Lease!leaseVars
<1>t. /\ lease.gen \in Nat /\ lease.worker \in Owners
      /\ \A w \in Workers : w # NoWorker
  BY DEF IInv, TypeOK, Generations
<1>1. CASE ClaimStep
  <2>1. PICK w \in Workers : ~ClaimRefused(w) /\ Grant(w, ClaimGen(w))
    BY <1>1 DEF ClaimStep
  <2>2. lease'.worker = w /\ lease'.gen = ClaimGen(w) /\ lease'.live = TRUE
    BY <2>1 DEF Grant
  <2>3. CASE ~Leased
    <3>1. Lease!Acquire(w)
      BY <2>2, <2>3, ClaimGenIsPositive DEF IInv, Lease!Acquire, Lease!Tokens, Leased
    <3> QED  BY <3>1
  <2>4. CASE Leased /\ lease.worker = w
    <3>1. ClaimGen(w) = lease.gen
      BY <1>t, <2>4 DEF ClaimGen, CurrentOwner, CurrentGen, IInv, LeaseShape
    <3>2. Lease!Extend
      BY <2>2, <2>4, <3>1 DEF Lease!Extend
    <3> QED  BY <3>2
  <2>5. CASE Leased /\ lease.worker # w
    <3>1. ClaimGen(w) = lease.gen + 1
      BY <2>5 DEF ClaimGen, CurrentOwner, CurrentGen
    <3>2. ~lease.live
      BY <2>1, <2>5 DEF ClaimRefused
    <3>3. Lease!TakeOver(w)
      BY <1>t, <2>2, <2>5, <3>1, <3>2 DEF Lease!TakeOver, Leased, Owners
    <3> QED  BY <3>3
  <2> QED  BY <2>3, <2>4, <2>5
<1>2. CASE RotateStep
  <2>1. PICK w \in Workers : Matches(w, lease.gen) /\ Grant(w, lease.gen + 1)
    BY <1>2 DEF RotateStep
  <2>2. Lease!Extend
    BY <2>1 DEF Lease!Extend, Matches, Grant
  <2> QED  BY <2>2
<1>3. CASE ReleaseStep
  <2>1. PICK w \in Workers, g \in Generations : Release(w, g)
    BY <1>3 DEF ReleaseStep
  <2>2. CASE Matches(w, g)
    <3>1. Lease!GiveBack
      BY <2>1, <2>2 DEF Release, Matches, NoLease, Lease!GiveBack
    <3> QED  BY <3>1
  <2>3. CASE ~Matches(w, g)
    BY <2>1, <2>3 DEF Release, rows
  <2> QED  BY <2>2, <2>3
<1>4. CASE LiveStep
  <2>1. PICK b \in BOOLEAN : /\ b => Leased
                             /\ ~b => lease.live
                             /\ lease' = [lease EXCEPT !.live = b]
    BY <1>4 DEF LiveStep
  <2>2. /\ lease'.worker = lease.worker /\ lease'.gen = lease.gen
        /\ lease'.live = b
    BY <2>1 DEF IInv, TypeOK
  <2>3. CASE b = TRUE
    BY <1>t, <2>1, <2>2, <2>3 DEF Lease!Extend, Leased, Owners
  <2>4. CASE b = FALSE
    BY <2>1, <2>2, <2>4 DEF Lease!RunOut, IInv, TypeOK
  <2> QED  BY <2>3, <2>4
<1>5. CASE QuietStep
  BY <1>5 DEF QuietStep
<1> QED  BY <1>1, <1>2, <1>3, <1>4, <1>5 DEF LeaseStep

(* The two rows and everything the workers do to them implement the lease. *)
THEOREM OwnershipImplementsLease == Spec => ImplementsLease
<1>1. Init => Lease!LeaseInit
  BY DEF Init, NoLease, Lease!LeaseInit
<1>2. IInv /\ [Next]_vars => [Lease!LeaseNext]_(Lease!leaseVars)
  BY NextIsLeaseStep, StepImplements DEF IInv
<1> QED  BY <1>1, <1>2, Invariance, PTL DEF Spec, ImplementsLease, Lease!LeaseSpec
=============================================================================
