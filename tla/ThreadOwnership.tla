-------------------------- MODULE ThreadOwnership --------------------------
(***************************************************************************)
(* Who may run one thread.  Ownership is two rows in Postgres: the lease   *)
(* (thread_owners: worker, socket_generation, lease_until) and the copy    *)
(* the threads row carries (owner_worker_id, socket_generation).  Lease    *)
(* operations are transactions over both rows; the thread snapshot is      *)
(* saved by SaveThread, an upsert of the whole row that compares nothing.  *)
(*                                                                         *)
(* A worker runs at most one actor per thread: the goroutine that handles  *)
(* its commands one after another, the meta it remembers, and beside it    *)
(* the goroutine that renews the lease.  Between any two steps of a worker *)
(* the others may act, its lease may run out, and it may crash.  A worker  *)
(* that crashed never returns: registration hands out a new id.            *)
(***************************************************************************)
EXTENDS Integers

CONSTANTS Workers,
          NoWorker,
          MaxGeneration     \* bound: no generation beyond it is handed out

ASSUME NoWorkerIsNoWorker == NoWorker \notin Workers
ASSUME MaxGenerationIsNat == MaxGeneration \in Nat

VARIABLES
  thread,   \* threads row: owner_worker_id, socket_generation
  lease,    \* thread_owners row, NoLease when there is none
  granted,  \* history: the <<generation, worker>> pairs this lease row held
  up,       \* worker -> its process runs
  open,     \* worker -> the context of its actor is not cancelled
  pc,       \* worker -> where the command handler of its actor stands
  local,    \* worker -> owner and generation in the meta the handler holds
  mem,      \* worker -> the same of a.meta, the actor's memory
  loop      \* worker -> generation its lease loop renews, 0 without a loop

vars == <<thread, lease, granted, up, open, pc, local, mem, loop>>
rows == <<thread, lease, granted>>

Owners == Workers \cup {NoWorker}
NoLease == [worker |-> NoWorker, gen |-> 0, live |-> FALSE]
Blank == [owner |-> NoWorker, gen |-> 0]

Positions == {"idle", "loaded", "claimed", "saved", "turn", "reloaded",
              "failing", "released", "rotating", "rotated", "cancelling"}

(* A handler in one of these positions goes on to write the threads row. *)
Writing == {"claimed", "turn", "reloaded", "released"}

Init == /\ thread = Blank
        /\ lease = NoLease
        /\ granted = {}
        /\ up = [w \in Workers |-> TRUE]
        /\ open = [w \in Workers |-> TRUE]
        /\ pc = [w \in Workers |-> "idle"]
        /\ local = [w \in Workers |-> Blank]
        /\ mem = [w \in Workers |-> Blank]
        /\ loop = [w \in Workers |-> 0]
-----------------------------------------------------------------------------
(* The lease transactions of the store. *)

Leased == lease.worker # NoWorker
Matches(w, g) == Leased /\ lease.worker = w /\ lease.gen = g

CurrentOwner == IF Leased THEN lease.worker ELSE thread.owner
CurrentGen == IF Leased THEN lease.gen ELSE thread.gen

(* Mutation: the live lease is looked up under the snapshot's owner.        *)
ClaimRefused_BySnapshot(w) ==
  Leased /\ thread.owner \notin {w, NoWorker} /\ lease.live

ClaimRefused(w) == Leased /\ lease.worker # w /\ lease.live

(* Mutation: only the first claim counts the generation up. *)
ClaimGen_FirstOnly(w) == IF CurrentGen = 0 THEN 1 ELSE CurrentGen

ClaimGen(w) ==
  IF CurrentOwner # w \/ CurrentGen = 0 THEN CurrentGen + 1 ELSE CurrentGen

(* Both rows get worker w and generation g. *)
Grant(w, g) ==
  /\ lease' = [worker |-> w, gen |-> g, live |-> TRUE]
  /\ thread' = [owner |-> w, gen |-> g]
  /\ granted' = IF Leased THEN granted \cup {<<g, w>>} ELSE {<<g, w>>}

(* ReleaseOwnership: only the row of exactly this worker and generation. *)
Release(w, g) ==
  IF Matches(w, g)
  THEN /\ lease' = NoLease
       /\ thread' = [thread EXCEPT !.owner = NoWorker]
       /\ granted' = {}
  ELSE UNCHANGED rows
-----------------------------------------------------------------------------
(* The command handler. *)

Running(w) == up[w] /\ open[w]
At(w, places) == Running(w) /\ pc[w] \in places
Goto(w, place) == pc' = [pc EXCEPT ![w] = place]
Return(w) == Goto(w, "idle") /\ local' = [local EXCEPT ![w] = Blank]

(* A command reaches the worker.  getActor makes a fresh actor when the    *)
(* last one is closed; the handler then loads the thread.                  *)
LoadThread(w) ==
  /\ up[w] /\ pc[w] = "idle"
  /\ Goto(w, "loaded")
  /\ local' = [local EXCEPT ![w] = thread]
  /\ IF open[w]
     THEN UNCHANGED <<open, mem>>
     ELSE /\ open' = [open EXCEPT ![w] = TRUE]
          /\ mem' = [mem EXCEPT ![w] = Blank]
  /\ UNCHANGED <<rows, up, loop>>

ClaimOwnership(w) ==
  /\ At(w, {"loaded"})
  /\ ~ClaimRefused(w)
  /\ ClaimGen(w) <= MaxGeneration
  /\ Grant(w, ClaimGen(w))
  /\ local' = [local EXCEPT ![w] = [owner |-> w, gen |-> ClaimGen(w)]]
  /\ Goto(w, "claimed")
  /\ UNCHANGED <<up, open, mem, loop>>

(* errOwnershipConflict: the command is acknowledged and gone. *)
ClaimConflict(w) ==
  /\ At(w, {"loaded"})
  /\ ClaimRefused(w)
  /\ Return(w)
  /\ UNCHANGED <<rows, up, open, mem, loop>>

SaveThread(w) ==
  /\ At(w, {"claimed"})
  /\ thread' = local[w]
  /\ mem' = [mem EXCEPT ![w] = local[w]]
  /\ Goto(w, "saved")
  /\ UNCHANGED <<lease, granted, up, open, local, loop>>

(* Until here the loop of an earlier turn may still run. *)
StartLeaseLoop(w) ==
  /\ At(w, {"saved"})
  /\ loop' = [loop EXCEPT ![w] = local[w].gen]
  /\ Goto(w, "turn")
  /\ UNCHANGED <<rows, up, open, local, mem>>

(* Every event of the response stream ends in a save of the snapshot. *)
StreamSave(w) ==
  /\ At(w, {"turn", "reloaded"})
  /\ thread' = local[w]
  /\ mem' = [mem EXCEPT ![w] = local[w]]
  /\ UNCHANGED <<lease, granted, up, open, pc, local, loop>>

(* After a turn of page reads sendAndStream loads the thread again. *)
ReloadThread(w) ==
  /\ At(w, {"turn", "reloaded"})
  /\ local' = [local EXCEPT ![w] = thread]
  /\ Goto(w, "reloaded")
  /\ UNCHANGED <<rows, up, open, mem, loop>>

(* The handler returns: the turn is over, or some call of it failed.  The  *)
(* lease loop goes on.                                                     *)
HandlerReturns(w) ==
  /\ At(w, {"loaded", "claimed", "saved", "turn", "reloaded", "failing",
            "released", "cancelling"})
  /\ Return(w)
  /\ UNCHANGED <<rows, up, open, mem, loop>>

(* Stop the loop, release what the meta at hand says is owned, forget the  *)
(* owner.  A save of that meta follows.                                    *)
ReleaseAndForget(w) ==
  LET m == local[w]
      forgotten == [m EXCEPT !.owner = NoWorker]
  IN /\ loop' = [loop EXCEPT ![w] = 0]
     /\ IF m.owner = w /\ m.gen > 0 THEN Release(w, m.gen) ELSE UNCHANGED rows
     /\ local' = [local EXCEPT ![w] = forgotten]
     /\ Goto(w, "released")

(* A child thread reached a terminal status. *)
ReleaseTerminalChild(w) ==
  /\ At(w, {"turn", "reloaded"})
  /\ ReleaseAndForget(w)
  /\ mem' = [mem EXCEPT ![w] = local'[w]]
  /\ UNCHANGED <<up, open>>

(* Recovery found no checkpoint to replay. *)
MissingCheckpoint(w) ==
  /\ At(w, {"turn"})
  /\ ReleaseAndForget(w)
  /\ UNCHANGED <<up, open, mem>>

(* The last transient retry failed: the thread is loaded once more ...     *)
RetriesExhausted(w) ==
  /\ At(w, {"loaded", "claimed", "saved", "turn", "reloaded"})
  /\ local' = [local EXCEPT ![w] = thread]
  /\ Goto(w, "failing")
  /\ UNCHANGED <<rows, up, open, mem, loop>>

(* ... and given up: a lease somebody else took meanwhile is left alone,   *)
(* the meta keeps its owner in that case.                                  *)
FailThread(w) ==
  /\ At(w, {"failing"})
  /\ IF local[w].owner = w
     THEN ReleaseAndForget(w)
     ELSE /\ loop' = [loop EXCEPT ![w] = 0]
          /\ Goto(w, "released")
          /\ UNCHANGED <<rows, local>>
  /\ UNCHANGED <<up, open, mem>>

(* a.cancel(): nothing more is written, the handler's next call fails. *)
CancelActor(w) ==
  /\ open' = [open EXCEPT ![w] = FALSE]
  /\ loop' = [loop EXCEPT ![w] = 0]
  /\ Return(w)

(* After a command the actor of a child in a terminal status goes away,    *)
(* every other waits for the next one, its loop stopped.                   *)
SelfDestructs(w) == CancelActor(w)
Stays(w) == /\ loop' = [loop EXCEPT ![w] = 0]
            /\ Return(w)
            /\ UNCHANGED open

(* The save after the release; a child's actor then destroys itself. *)
SaveReleased(w) ==
  /\ At(w, {"released"})
  /\ thread' = local[w]
  /\ mem' = [mem EXCEPT ![w] = local[w]]
  /\ SelfDestructs(w) \/ Stays(w)
  /\ UNCHANGED <<lease, granted, up>>

(* thread.rotate_socket, published for a generation the actor holds: no    *)
(* renewals while the fresh socket is dialled.                             *)
RotateSocket(w) ==
  /\ At(w, {"loaded"})
  /\ local[w].gen > 0
  /\ loop' = [loop EXCEPT ![w] = 0]
  /\ Goto(w, "rotating")
  /\ UNCHANGED <<rows, up, open, local, mem>>

MayRotate(w) == Matches(w, local[w].gen) /\ thread.gen = local[w].gen

(* Mutation: the new generation is not written back to the meta. *)
RotateOwnership_ForgetsGen(w) ==
  LET g == local[w].gen + 1
  IN /\ At(w, {"rotating"})
     /\ MayRotate(w)
     /\ g <= MaxGeneration
     /\ Grant(w, g)
     /\ Goto(w, "rotated")
     /\ UNCHANGED <<up, open, local, mem, loop>>

RotateOwnership(w) ==
  LET g == local[w].gen + 1
  IN /\ At(w, {"rotating"})
     /\ MayRotate(w)
     /\ g <= MaxGeneration
     /\ Grant(w, g)
     /\ local' = [local EXCEPT ![w] = [owner |-> w, gen |-> g]]
     /\ Goto(w, "rotated")
     /\ UNCHANGED <<up, open, mem, loop>>

(* Mutation: the loop is started for the generation after the new one. *)
RotateDone_OffByOne(w) ==
  /\ At(w, {"rotated"})
  /\ mem' = [mem EXCEPT ![w] = local[w]]
  /\ loop' = [loop EXCEPT ![w] = local[w].gen + 1]
  /\ Return(w)
  /\ UNCHANGED <<rows, up, open>>

RotateDone(w) ==
  /\ At(w, {"rotated"})
  /\ mem' = [mem EXCEPT ![w] = local[w]]
  /\ loop' = [loop EXCEPT ![w] = local[w].gen]
  /\ Return(w)
  /\ UNCHANGED <<rows, up, open>>

(* The dial or the transaction failed: the old loop is started again. *)
RotateError(w) ==
  /\ At(w, {"rotating"})
  /\ loop' = [loop EXCEPT ![w] = local[w].gen]
  /\ Return(w)
  /\ UNCHANGED <<rows, up, open, mem>>

(* Not rotated: handleLeaseLoss(g), which spares an actor that has moved   *)
(* on to another generation.                                               *)
RotateRefused(w) ==
  /\ At(w, {"rotating"})
  /\ ~MayRotate(w)
  /\ IF mem[w].gen = local[w].gen
     THEN CancelActor(w)
     ELSE Return(w) /\ UNCHANGED <<open, loop>>
  /\ UNCHANGED <<rows, up, mem>>

(* thread.cancel saves the meta it loaded, whoever owns the thread ... *)
Cancel(w) ==
  /\ At(w, {"loaded"})
  /\ thread' = local[w]
  /\ mem' = [mem EXCEPT ![w] = local[w]]
  /\ Goto(w, "cancelling")
  /\ UNCHANGED <<lease, granted, up, open, local, loop>>

(* ... then stops the loop and releases. *)
CancelRelease(w) ==
  /\ At(w, {"cancelling"})
  /\ Release(w, local[w].gen)
  /\ SelfDestructs(w) \/ Stays(w)
  /\ UNCHANGED <<up, mem>>

DisconnectSocket(w) ==
  /\ At(w, {"loaded"})
  /\ loop' = [loop EXCEPT ![w] = 0]
  /\ Release(w, local[w].gen)
  /\ Return(w)
  /\ UNCHANGED <<up, open, mem>>
-----------------------------------------------------------------------------
(* The lease loop, beside the handler. *)

RenewOwnership(w) ==
  /\ Running(w) /\ loop[w] > 0
  /\ Matches(w, loop[w])
  /\ lease' = [lease EXCEPT !.live = TRUE]
  /\ UNCHANGED <<thread, granted, up, open, pc, local, mem, loop>>

(* Mutation: a refused renewal is passed over like a failed one. *)
RenewRefused_PassedOver(w) ==
  /\ Running(w) /\ loop[w] > 0
  /\ ~Matches(w, loop[w])
  /\ UNCHANGED vars

(* Not renewed: handleLeaseLoss, as above. *)
RenewRefused(w) ==
  /\ Running(w) /\ loop[w] > 0
  /\ ~Matches(w, loop[w])
  /\ IF mem[w].gen = loop[w]
     THEN CancelActor(w)
     ELSE /\ loop' = [loop EXCEPT ![w] = 0]
          /\ UNCHANGED <<open, pc, local>>
  /\ UNCHANGED <<rows, up, mem>>
-----------------------------------------------------------------------------
(* The process, and time. *)

Stop(w) ==
  /\ up' = [up EXCEPT ![w] = FALSE]
  /\ open' = [open EXCEPT ![w] = FALSE]
  /\ pc' = [pc EXCEPT ![w] = "idle"]
  /\ local' = [local EXCEPT ![w] = Blank]
  /\ mem' = [mem EXCEPT ![w] = Blank]
  /\ loop' = [loop EXCEPT ![w] = 0]

(* Shutdown: the actor is closed and what it remembers owning released. *)
Close(w) ==
  /\ up[w]
  /\ IF mem[w].owner = w /\ mem[w].gen > 0
     THEN Release(w, mem[w].gen)
     ELSE UNCHANGED rows
  /\ Stop(w)

Crash(w) == up[w] /\ Stop(w) /\ UNCHANGED rows

LeaseExpires ==
  /\ lease.live
  /\ lease' = [lease EXCEPT !.live = FALSE]
  /\ UNCHANGED <<thread, granted, up, open, pc, local, mem, loop>>

Handler(w) ==
  \/ LoadThread(w) \/ ClaimOwnership(w) \/ ClaimConflict(w) \/ SaveThread(w)
  \/ StartLeaseLoop(w) \/ StreamSave(w) \/ ReloadThread(w) \/ HandlerReturns(w)
  \/ ReleaseTerminalChild(w) \/ MissingCheckpoint(w) \/ RetriesExhausted(w)
  \/ FailThread(w) \/ SaveReleased(w) \/ RotateSocket(w) \/ RotateOwnership(w)
  \/ RotateDone(w) \/ RotateError(w) \/ RotateRefused(w) \/ Cancel(w)
  \/ CancelRelease(w) \/ DisconnectSocket(w)

LeaseLoop(w) == RenewOwnership(w) \/ RenewRefused(w)

Next == \/ \E w \in Workers : Handler(w) \/ LeaseLoop(w) \/ Close(w) \/ Crash(w)
        \/ LeaseExpires

Spec == Init /\ [][Next]_vars

(* The ticker of a live lease loop goes on firing. *)
FairSpec == Spec /\ \A w \in Workers : WF_vars(LeaseLoop(w))
-----------------------------------------------------------------------------
(* Properties. *)

Generations == 0..MaxGeneration
Metas == [owner : Owners, gen : Generations]

(* Every variable has its type. *)
TypeOK ==
  /\ thread \in Metas
  /\ lease \in [worker : Owners, gen : Generations, live : BOOLEAN]
  /\ granted \subseteq Generations \X Workers
  /\ up \in [Workers -> BOOLEAN]
  /\ open \in [Workers -> BOOLEAN]
  /\ pc \in [Workers -> Positions]
  /\ local \in [Workers -> Metas]
  /\ mem \in [Workers -> Metas]
  /\ loop \in [Workers -> Generations]

(* As long as a lease row lives, a generation is a fencing token: no two   *)
(* workers ever held the row with the same generation, and the present one *)
(* is the largest.  ClaimOwnership raises it for every new holder.         *)
TokensFenced ==
  /\ \A p \in granted : p[1] <= lease.gen
  /\ \A p, q \in granted : p[1] = q[1] => p[2] = q[2]
  /\ Leased => <<lease.gen, lease.worker>> \in granted

(* A handler that claimed, and whose worker holds the lease row, holds the *)
(* row's generation in its meta: what it releases, rotates and publishes   *)
(* under is its own lease, not an earlier one.                             *)
HolderKnowsGeneration ==
  \A w \in Workers :
    /\ pc[w] \in {"claimed", "saved", "turn", "rotated"}
    /\ lease.worker = w
    => local[w].gen = lease.gen

(* docs/POSTGRES_SCHEMA.md: "The worker is the single writer for thread    *)
(* mutation on a given thread."  No handler is about to write the threads  *)
(* row while another worker holds a live lease on it.                      *)
SingleWriter ==
  \A w \in Workers :
    At(w, Writing) => ~(Leased /\ lease.live /\ lease.worker # w)

(* The lease row implements the abstract fenced lease: a live lease is not *)
(* taken over, and the token rises with every change of hands.             *)
Lease == INSTANCE FencedLease WITH
           Holders <- Workers, Nobody <- NoWorker,
           holder <- lease.worker, token <- lease.gen, live <- lease.live
ImplementsLease == Lease!LeaseSpec

(* A turn that goes on under a lease another worker has taken over is cut  *)
(* short by the lease loop, unless a page read reloads the thread first:   *)
(* the loop's tick is refused and cancels the actor, whose memory still    *)
(* has the loop's generation.                                              *)
StaleTurn(w) == At(w, {"turn"}) /\ Leased /\ lease.worker # w
StaleTurnIsCut ==
  \A w \in Workers :
    StaleTurn(w) ~> (pc[w] # "turn" \/ lease.worker \in {w, NoWorker})
=============================================================================
