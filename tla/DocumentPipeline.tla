-------------------------- MODULE DocumentPipeline --------------------------
(***************************************************************************)
(* From the upload of a PDF to OCR data for each of its pages.  The API    *)
(* stores the file and the documents row and publishes a split command; a  *)
(* splitter renders the pages, writes manifest.json and publishes          *)
(* doc.split.done; an OCR worker adds an ocr_ref to every page of the      *)
(* manifest.  Both are JetStream consumers that acknowledge by hand, with  *)
(* at most MaxDeliver deliveries of a message; one that is not             *)
(* acknowledged in time is delivered again while its first handler is      *)
(* still at work, or still in that worker's channel.                       *)
(*                                                                         *)
(* Documents share nothing, so there is one.  manifest.json is a file that *)
(* is truncated and then written, from offset zero, and never locked.      *)
(***************************************************************************)
EXTENDS Integers, FiniteSets

CONSTANTS NumPages, MaxDeliver,
          Splitters, Readers,    \* instances of docsplitter and of dococr
          MaxErrors,             \* bound: failed calls that end in a Nak
          MaxTimeouts,           \* bound: AckWaits that pass under a handler
          MaxCrashes,            \* bound: instances that die and come back
          MaxUnrecorded          \* bound: failed splits whose row cannot be updated

ASSUME PagesAndDeliveries == NumPages \in Nat \ {0} /\ MaxDeliver \in Nat \ {0}
ASSUME DocumentBoundsAreNat == /\ MaxErrors \in Nat /\ MaxTimeouts \in Nat
                               /\ MaxCrashes \in Nat /\ MaxUnrecorded \in Nat
ASSUME SplittersDoNotRead == Splitters \cap Readers = {}

VARIABLES
  row,       \* documents.status, "none" before the upload and after a delete
  manifest,  \* the file: how long it is, whether it parses, the pages with ocr_ref
  blobs,     \* pages with an OCR result on disk
  msg,       \* message -> its state in JetStream and its deliveries
  pc,        \* instance -> where its handler stands
  holds,     \* instance -> the message it handles
  refs,      \* instance -> the pages with ocr_ref in its copy of the manifest
  faults     \* what is left of the bounds

vars == <<row, manifest, blobs, msg, pc, holds, refs, faults>>

Pages == 1..NumPages
Instances == Splitters \cup Readers

(* A split command, and the split.done of each of its deliveries. *)
SplitCmd == 0
SplitDones == 1..MaxDeliver
Messages == {SplitCmd} \cup SplitDones

Init ==
  /\ row = "none"
  /\ manifest = [size |-> 0, whole |-> FALSE, refs |-> {}]
  /\ blobs = {}
  /\ msg = [m \in Messages |-> [state |-> "none", deliveries |-> 0]]
  /\ pc = [i \in Instances |-> "idle"]
  /\ holds = [i \in Instances |-> SplitCmd]
  /\ refs = [i \in Instances |-> {}]
  /\ faults = [errors |-> MaxErrors, timeouts |-> MaxTimeouts,
               crashes |-> MaxCrashes, unrecorded |-> MaxUnrecorded]
-----------------------------------------------------------------------------
At(i, place) == pc[i] = place
Goto(i, place) == pc' = [pc EXCEPT ![i] = place]
(* The handler returns, and its local variables are gone. *)
Return(i) == /\ Goto(i, "idle")
             /\ holds' = [holds EXCEPT ![i] = SplitCmd]
             /\ refs' = [refs EXCEPT ![i] = {}]
Spend(fault) == faults[fault] > 0 /\ faults' = [faults EXCEPT ![fault] = @ - 1]

Publish(m) == msg' = [msg EXCEPT ![m].state = "waiting"]
Done(m) == msg' = [msg EXCEPT ![m].state = "gone"]

(* To be delivered again, unless it has been delivered too often. *)
Again(m) == msg' = [msg EXCEPT ![m].state =
              IF @ = "gone" \/ msg[m].deliveries = MaxDeliver THEN "gone" ELSE "waiting"]

Deliver(i, m, place) ==
  /\ At(i, "idle") /\ msg[m].state = "waiting"
  /\ msg' = [msg EXCEPT ![m] = [state |-> "out", deliveries |-> @.deliveries + 1]]
  /\ holds' = [holds EXCEPT ![i] = m]
  /\ Goto(i, place)
  /\ UNCHANGED <<row, manifest, blobs, refs, faults>>

(* UpdateStatus changes nothing when the row is gone. *)
UpdateStatus(status) == row' = IF row = "none" THEN row ELSE status
-----------------------------------------------------------------------------
(* The API: upload, which may fail between its two writes, and delete. *)

CreateDocument ==
  /\ msg[SplitCmd].state = "none"
  /\ msg' = [msg EXCEPT ![SplitCmd].state = "reserved"]
  /\ row' = "pending"
  /\ UNCHANGED <<manifest, blobs, pc, holds, refs, faults>>

PublishSplit ==
  /\ msg[SplitCmd].state = "reserved"
  /\ Publish(SplitCmd)
  /\ UNCHANGED <<row, manifest, blobs, pc, holds, refs, faults>>

DeleteDocument ==
  /\ row # "none"
  /\ row' = "none"
  /\ UNCHANGED <<manifest, blobs, msg, pc, holds, refs, faults>>
-----------------------------------------------------------------------------
(* docsplitter, handleSplit. *)

DeliverSplit(s) == Deliver(s, SplitCmd, "begin")

MarkSplitting(s) ==
  /\ At(s, "begin")
  /\ UpdateStatus("splitting")
  /\ Goto(s, "render")
  /\ UNCHANGED <<manifest, blobs, msg, holds, refs, faults>>

(* The document is still there, and poppler renders its pages. *)
RenderPages(s) ==
  /\ At(s, "render") /\ row # "none"
  /\ Goto(s, "merge")
  /\ UNCHANGED <<row, manifest, blobs, msg, holds, refs, faults>>

(* Or splitPDF fails: the row is gone, the file is no good, the disk is     *)
(* full.  That is final, even when the row cannot be updated.              *)
SplitFails(s) ==
  /\ At(s, "render") \/ At(s, "write")
  /\ \/ UpdateStatus("failed") /\ UNCHANGED faults
     \/ UNCHANGED row /\ Spend("unrecorded")
  /\ Goto(s, "ack")
  /\ UNCHANGED <<manifest, blobs, msg, holds, refs>>

(* mergeExistingOCRRefs: the pages are the same, so their refs are kept. *)
MergeExistingOCRRefs(s) ==
  /\ At(s, "merge")
  /\ refs' = [refs EXCEPT ![s] = IF manifest.whole THEN manifest.refs ELSE {}]
  /\ Goto(s, "truncate")
  /\ UNCHANGED <<row, manifest, blobs, msg, holds, faults>>

(* Mutation: the row is marked ready before the pipeline is told. *)
PublishSplitDone_ReadyFirst(s) ==
  /\ At(s, "publish")
  /\ UpdateStatus("ready")
  /\ Goto(s, "ready")
  /\ UNCHANGED <<manifest, blobs, msg, holds, refs, faults>>

PublishSplitDone(s) ==
  /\ At(s, "publish")
  /\ \E m \in SplitDones :
       /\ msg[m].state = "none" /\ \A n \in SplitDones : n < m => msg[n].state # "none"
       /\ Publish(m)
  /\ Goto(s, "ready")
  /\ UNCHANGED <<row, manifest, blobs, holds, refs, faults>>

(* Mutation: an UPDATE for a row that is not yet splitting. *)
MarkReady_OnlyPending(s) ==
  /\ At(s, "ready")
  /\ IF row = "pending" THEN UpdateStatus("ready") ELSE UNCHANGED row
  /\ Goto(s, "ack")
  /\ UNCHANGED <<manifest, blobs, msg, holds, refs, faults>>

MarkReady(s) ==
  /\ At(s, "ready")
  /\ UpdateStatus("ready")
  /\ Goto(s, "ack")
  /\ UNCHANGED <<manifest, blobs, msg, holds, refs, faults>>
-----------------------------------------------------------------------------
Missing(r) == Pages \ refs[r]

(* WriteRef of manifest.json by either: os.WriteFile truncates the file,   *)
(* then writes.  When another has written a longer one in between, its     *)
(* tail stays behind.                                                      *)
TruncateManifest(i) ==
  /\ \/ At(i, "truncate")
     \/ At(i, "pages") /\ Missing(i) = {}
  /\ manifest' = [size |-> 0, whole |-> FALSE, refs |-> {}]
  /\ Goto(i, "write")
  /\ UNCHANGED <<row, blobs, msg, holds, refs, faults>>

WriteManifest(i) ==
  LET size == 1 + Cardinality(refs[i])
  IN /\ At(i, "write")
     /\ manifest' = IF manifest.size > size
                    THEN [manifest EXCEPT !.whole = FALSE, !.refs = {}]
                    ELSE [size |-> size, whole |-> TRUE, refs |-> refs[i]]
     /\ Goto(i, "publish")
     /\ UNCHANGED <<row, blobs, msg, holds, refs, faults>>
-----------------------------------------------------------------------------
(* dococr, handleSplitDone. *)

DeliverSplitDone(r) == \E m \in SplitDones : Deliver(r, m, "read")

ReadManifest(r) ==
  /\ At(r, "read") /\ manifest.whole
  /\ refs' = [refs EXCEPT ![r] = manifest.refs]
  /\ Goto(r, "pages")
  /\ UNCHANGED <<row, manifest, blobs, msg, holds, faults>>

(* It does not parse: the message is terminated. *)
ManifestUnreadable(r) ==
  /\ At(r, "read") /\ ~manifest.whole
  /\ Done(holds[r])
  /\ Return(r)
  /\ UNCHANGED <<row, manifest, blobs, faults>>

(* Mutation: the page is marked before its result is on disk. *)
OCRPage_MarksFirst(r) ==
  /\ At(r, "pages") /\ Missing(r) # {}
  /\ refs' = [refs EXCEPT ![r] = Pages]
  /\ UNCHANGED <<row, manifest, blobs, msg, pc, holds, faults>>

OCRPage(r) ==
  \E p \in Missing(r) :
    /\ At(r, "pages") /\ \A q \in Missing(r) : p <= q
    /\ blobs' = blobs \cup {p}
    /\ refs' = [refs EXCEPT ![r] = @ \cup {p}]
    /\ UNCHANGED <<row, manifest, msg, pc, holds, faults>>

(* doc.ocr.done has no consumer yet, so telling it twice changes nothing.  *)
PublishOCRDone(r) ==
  /\ At(r, "publish")
  /\ Done(holds[r])
  /\ Return(r)
  /\ UNCHANGED <<row, manifest, blobs, faults>>
-----------------------------------------------------------------------------
Ack(i) ==
  /\ At(i, "ack")
  /\ Done(holds[i])
  /\ Return(i)
  /\ UNCHANGED <<row, manifest, blobs, faults>>

(* Postgres, the disk, PaddleOCR or JetStream fail: Nak, at once.  In      *)
(* splitPDF a failure is final (SplitFails).                               *)
Fallible(i) == IF i \in Splitters THEN {"begin", "publish", "ready"}
               ELSE {"read", "pages", "write", "publish"}

Nak(i) ==
  /\ pc[i] \in Fallible(i)
  /\ Spend("errors")
  /\ Again(holds[i])
  /\ Return(i)
  /\ UNCHANGED <<row, manifest, blobs>>

(* AckWait passes although the message is in hand. *)
AckTimeout(m) ==
  /\ msg[m].state = "out"
  /\ Spend("timeouts")
  /\ Again(m)
  /\ UNCHANGED <<row, manifest, blobs, pc, holds, refs>>

Crash(i) ==
  /\ ~At(i, "idle")
  /\ Spend("crashes")
  /\ Return(i)
  /\ UNCHANGED <<row, manifest, blobs, msg>>

(* AckWait passes after the handler died. *)
Redeliver(m) ==
  /\ msg[m].state = "out"
  /\ \A i \in Instances : At(i, "idle") \/ holds[i] # m
  /\ Again(m)
  /\ UNCHANGED <<row, manifest, blobs, pc, holds, refs, faults>>
-----------------------------------------------------------------------------
Split(s) == \/ DeliverSplit(s) \/ MarkSplitting(s) \/ RenderPages(s)
            \/ MergeExistingOCRRefs(s) \/ PublishSplitDone(s) \/ MarkReady(s)
Read(r) == \/ DeliverSplitDone(r) \/ ReadManifest(r) \/ ManifestUnreadable(r)
           \/ OCRPage(r) \/ PublishOCRDone(r)
Write(i) == TruncateManifest(i) \/ WriteManifest(i) \/ Ack(i)

Next ==
  \/ CreateDocument \/ PublishSplit \/ DeleteDocument
  \/ \E s \in Splitters : Split(s) \/ SplitFails(s)
  \/ \E r \in Readers : Read(r)
  \/ \E i \in Instances : Write(i) \/ Nak(i) \/ Crash(i)
  \/ \E m \in Messages : AckTimeout(m) \/ Redeliver(m)

Spec == Init /\ [][Next]_vars

(* Handlers go on, and JetStream delivers what is not acknowledged. *)
FairSpec ==
  /\ Spec
  /\ \A s \in Splitters : WF_vars(Split(s) \/ SplitFails(s) \/ Write(s))
  /\ \A r \in Readers : WF_vars(Read(r) \/ Write(r))
  /\ \A m \in Messages : WF_vars(Redeliver(m))
-----------------------------------------------------------------------------
States == {"none", "reserved", "waiting", "out", "gone"}
Places == {"idle", "begin", "render", "merge", "truncate", "write", "publish",
           "ready", "ack", "read", "pages"}

TypeOK ==
  /\ row \in {"none", "pending", "splitting", "ready", "failed"}
  /\ manifest \in [size : 0..NumPages + 1, whole : BOOLEAN, refs : SUBSET Pages]
  /\ blobs \subseteq Pages
  /\ msg \in [Messages -> [state : States, deliveries : 0..MaxDeliver]]
  /\ pc \in [Instances -> Places]
  /\ holds \in [Instances -> Messages]
  /\ refs \in [Instances -> SUBSET Pages]

(* No manifest names an OCR result that is not on disk, whichever copy of  *)
(* it survives the races for the file: a reader of a page's ocr_ref finds  *)
(* a result (which a second OCR of that page may be writing over).         *)
RefsAreOnDisk == manifest.refs \subseteq blobs

(* A document is ready only after the OCR pipeline was told of it: the     *)
(* trigger is published before the row is marked.                          *)
ReadyWasAnnounced == row = "ready" => \E m \in SplitDones : msg[m].state # "none"

(* A split command, once published, brings its document to ready or failed *)
(* for good, or finds it deleted: no single failed call, crash or passed   *)
(* AckWait leaves it splitting, nor an error and a crash together.  Only   *)
(* these do: the failure of a split that is not recorded, and a handler    *)
(* that fails once AckWait has put a second one at its side, for the other *)
(* acknowledges for both.                                                  *)
Happened(fault, max) == faults[fault] < max
Abandoned == \/ Happened("unrecorded", MaxUnrecorded)
             \/ /\ Happened("timeouts", MaxTimeouts)
                /\ Happened("errors", MaxErrors) \/ Happened("crashes", MaxCrashes)
DocumentsSettle ==
  <>[](\/ msg[SplitCmd].state \in {"none", "reserved"}
       \/ row \in {"ready", "failed", "none"}
       \/ Abandoned)

(* README.md: the OCR service "extracts per-line bboxes from every page at *)
(* ingest".  A document that stays ready gets an ocr_ref on every page.    *)
Complete == manifest.whole /\ manifest.refs = Pages
EveryPageGetsOCR == row = "ready" ~> (row # "ready" \/ Complete)
=============================================================================
