# Verification of explorerpro in TLA+

TLA+ models of the parts of this repository where steps of several processes,
crashes and redeliveries meet: who may run a thread, how a parent waits for its
children, how documents are asked and citations found, what a turn with tools sends to
OpenAI, how a worker counts its sockets, how a document gets from upload to OCR, how a
command gets from JetStream to its acknowledgement, what the HTTP API does to threads
that workers run, and what the browser shows of them. TLC checks them on small
instances; TLAPS proves most of the safety properties for every instance. Every definition is
translated from the Go or TypeScript source; `PROJECT.json` says from which lines, under
`map`.

    tlc -workers 2 -config MCOwnership.cfg MCOwnership.tla     # likewise the others
    tlapm ThreadOwnership_proofs.tla                           # likewise the seven others

Paths below are relative to `src/internal/` unless they start elsewhere.

## 1. The system

A *thread* is a conversation with OpenAI's Responses API over a WebSocket. An HTTP API
publishes commands for threads to the JetStream stream THREAD_CMD; workers take them
and run each thread in an *actor*, a goroutine with a mailbox, that owns the thread by
a lease in Postgres and keeps the socket warm. A response may ask for child threads
(`spawn_threads`, `query_document`, citations); the parent then waits at a *barrier*
until the last child's result has come back as a command. Documents are split into
page images and sent through OCR by two further consumers. What happens in a thread is
relayed to browsers.

### Components

| component | state | operations | talks to | what is hard | what makes it correct |
|---|---|---|---|---|---|
| thread ownership (`worker/actor.go`, `postgresstore/store.go`) | `thread_owners` (worker, generation, expiry), the copy of it in `threads`, the meta each actor remembers, its lease loop | claim, renew, rotate, release, save, cancel, disconnect | Postgres; all workers | leases that expire under a running turn; saves that compare nothing; two goroutines per actor | generations are fencing tokens; a holder knows its generation; a live lease is not taken |
| spawn barrier (`worker/actor.go`, `worker/service.go`) | `spawn_groups`, `spawn_group_children`, the status and group in `threads`, the latest checkpoint, commands under way | open group, dispatch children, report, count, send the aggregate, recover, replay | commands between threads; sweep | crash between any two writes; reports twice, late, or read by a worker that is not the owner | the aggregate is whole; outcomes are final; no child is forgotten; the parent goes on |
| socket budget (`worker/actor.go`, `worker/service.go`) | `socketBudgetUsed`, `a.session` of each actor | reserve, dial, swap, rotate, reset, lose, close | OpenAI | handler, lease loop and shutdown touch one session | never above the ceiling; the count is the number of sessions |
| document pipeline (`httpserver/document_api.go`, `docsplitter/`, `dococr/`, `docstore/`, `blobstore/`) | `documents.status`, `manifest.json`, OCR blobs, two streams | upload, split, OCR, delete | JetStream, disk, OCR service | redelivery beside a running handler; a file that two processes rewrite | a document settles; the manifest names only results on disk; every page gets OCR |
| command delivery (`worker/service.go`, `worker/actor.go`, `threadcmd/`) | the stream, mailboxes, the actors map, `thread_processed_commands` | publish, dispatch, enqueue, handle, mark, acknowledge, retry | API, sweep, actors | actors that end with commands in the mailbox; AckWait; crash between effect and acknowledgement | every command is answered; none is carried out again once recorded; one handler per thread and worker |
| recovery sweep (`worker/service.go`, `worker/actor.go`) | attempts per thread and worker, dedupe keys | list expired, choose adopt or reconcile, publish | stores, commands | several sweeps of one thread; the cap of attempts; a key that was used before | no thread is left in the middle of something without a worker |
| worker registry, rotation schedule (`worker/service.go`, `postgresstore/workers.go`) | `workers`, `openai_socket_sessions` | register, heartbeat, release, due rotations | Postgres | a stale registry row | a worker id is never reused |
| document query and warm-up (`worker/actor.go`, `documenthandler/`, `preparedinput/`) | one child thread per document and parent, `documents.base_response_id`, the group | warm up, hand over, ask, reuse | RPC, barrier | a report or start delivered again after the child was made over | a warm-up is no answer; an answer is of its round; the shared base is a warm-up |
| turns with tools (`worker/actor.go`, `threadhistory/`) | the row's last and active response, the latest checkpoint, the group | submit, stream, read pages, open a group, go on, replay | OpenAI, barrier, client | crash between send, checkpoint and save; calls of several kinds in a response | every request answers the calls of the response it goes on from |
| citation locator (`worker/citation_locator.go`, `documenthandler/citation.go`, `citationstore/`) | groups with bindings, citations | spawn locators, report, finalize, send | barrier, RPC | outputs made outside a transaction and before the claim, by several workers | what the model is told of a call is true; no stray citation |
| OpenAI transport (`openaiws/`) | connection, event channel, error | connect, send, read loop, close | OpenAI | events buffered behind a reader that ended | no event of a turn is lost or reordered |
| HTTP command API (`httpserver/command_api.go`) | none | create, submit, route by lease, cascade, archive, delete | stores, THREAD_CMD | rows and leases change between a read and a publish | no live socket under a disconnected or archived thread; a deleted tree stays deleted |
| collections, repos, images API (`httpserver/`, `collectionstore/`, ...) | rows and blobs | one statement each | Postgres, disk | nothing between requests | |
| git service (`gitservice/`) | `repos.status`, clones | clone | JetStream | as the splitter | as the splitter |
| thread history (`threadhistory/`) | THREAD_HISTORY, checkpoints | append, latest checkpoint, page | JetStream | a message id used twice is dropped | the latest checkpoint is the latest request |
| event relay, browser stream (`eventrelay/`, `wsserver/`) | connections, clients | publish, drop slow clients | workers, browsers | frames lost where a connection breaks | order per thread |
| browser client (`src/frontend/src/thread/`) | the thread shown, generation counter | load, switch, send, reset, live frames | API, stream | late answers; a snapshot beside live frames | what is shown is what the store has, of the thread asked for last |
| request bodies, configuration, clients, logging, ids, process wiring, OCR microservice | none that outlives a call | | | | |

How they interact: the API, the sweep and the actors all *publish commands*, routed
to the owner's subject while its lease lives and otherwise to the shared dispatch
subject. Command delivery brings a command to one actor; ownership decides whether
that actor may act; the handler runs turns over a socket of the budget; a turn may
open a barrier, whose children are threads of their own and come back as commands.
Everything but the mailboxes, the actors' memory and the sockets is in Postgres or
JetStream and survives a worker.

`PROJECT.json` lists under `hazards` what can go wrong here that a test would hardly
reach, at the line where it bites, with the properties that are about it.

## 2. The plan

Done, in this order, the thread runtime's core first:

1. `FencedLease`, `ThreadOwnership`, `ThreadOwnership_proofs`
2. `Barrier`, `SpawnBarrier`, `SpawnBarrier_proofs`
3. `SocketBudget`, `Actor_proofs`
4. `DocumentPipeline`, `Edge_proofs`
5. `CommandDelivery`, `CommandDelivery_proofs`
6. `DocumentQuery`, which implements the same abstract `Barrier` as `SpawnBarrier`,
   `DocumentQuery_proofs`
7. `ToolTurn`; `Actor_proofs` is about both sides of an actor, its turns and its sockets
8. `CitationRound`, `CitationRound_proofs`
9. `ThreadControl`, `ThreadControl_proofs`
10. `ThreadClient`; `Edge_proofs` is about both ends that a user sees, uploads and the
    conversation

The models keep clear of RECURSIVE operators so that these can be proved about them as
they stand. The type invariant of `DocumentPipeline`, `DocumentQuery`, `ToolTurn`,
`CitationRound` and `ThreadClient` is proved and left out of their runs in favour of the
properties below. Left for later, if at all: the read loop of `openaiws`, paging of events, the rotation schedule.

## 3. The modules

### FencedLease and ThreadOwnership

`ThreadOwnership` is one thread and any number of workers. `lease` is the row of
`thread_owners`, `thread` the owner and generation in the `threads` row; `local[w]` is
the `meta` variable of the running handler, `mem[w]` is `a.meta`, `loop[w]` the
generation of the lease loop, `open[w]` says that the actor's context is not
cancelled. The store's transactions (`ClaimOwnership`, `RenewOwnership`,
`RotateOwnership`, `ReleaseOwnership`) are single steps; everything a handler does
between two of them, `LoadThread`, `SaveThread`, `ReloadThread`, is a step of its own,
so that others act in between. `SaveThread` overwrites the row and compares nothing,
as in the code. Streams, statuses and children are left out. `granted` is a history
variable. `NoLease` is an absent row, and so the generation of a row that is created
anew comes from the `threads` row, which is not fenced: `FencedLease`, the abstract
specification, promises nothing there, and fencing as long as the row lives.

### SpawnBarrier

One parent and the children of its groups. A handler is a sequence of places, one for
each write (`submit`, `checkpoint`, `stream`, `dispatch`, `clear`, `publish`, `return`;
`count`, `resume` for a report; `recount`, `replay` for recovery); a crash may come
between any two. Commands are a set of messages that stay until acknowledged, each
with the subject it went to: `dispatch`, the `owner`'s, or that of a `dead` worker.
`seat` stands for ownership: a thread has a seat while the worker that owns it lives;
`row[t].owned` is what the `threads` row says, which may be out of date. The content of
responses, and the outcomes and statuses of cancelled threads, are left out; the
groups of document queries and citations have modules of their own.

`Barrier` is what a group promises whoever opened it: it opens once, every member comes
to one outcome, and the aggregate goes out (perhaps again) when all have one. Both
`SpawnBarrier` and `DocumentQuery` are checked and proved to implement it, so that what
is true of every such group is said once and of both.

### SocketBudget

Actors with up to three goroutines at one session: the command handler, the lease
loop in `handleLeaseLoss`, and the service's `Close`. What `openFreshSession` reads of
`a.session` at its start (`had`) is kept until the dial has come back, as in the code.
`raced` is a history variable: actors whose lease was lost while they were opening
or closing.
The specification's names (`SocketInit`, `SocketNext`, `SocketSpec`, ...) are its own, so
that one module of proofs can extend it beside `ToolTurn`.

### DocumentPipeline

One document, two kinds of consumers. Messages have their deliveries counted and are
dropped after `MaxDeliver`. `WriteRef` is two steps, truncate and write, so that
readers and writers of `manifest.json` meet it in between; a write shorter than what
another wrote since leaves a tail, and the file does not parse. Page images are not
modelled, only whether a page has an `ocr_ref` and its blob.

### CommandDelivery

One thread, workers with two dispatchers each (dispatch subject and own subject), the
actors a worker makes one after the other, their mailboxes, and each handler from
`CommandProcessed` to `Ack`. `Enqueue` and `run` are Go `select`s and take any branch that
is ready. What a handler does to the thread is the single step `Effect`.

### DocumentQuery

One parent that asks documents in rounds, and one child per document that it keeps.
`kid[d]` is the child's row, `mem[d]` the copy in its handler's memory: both parties
write the row, and a save by either is the whole row. The parent's handler has places
for each step of `startDocumentQueryGroup`, of the report and of the hand-over from
warm-up to query (`handleDocumentWarmupChildResult`); the child's for submit, stream,
clear and publish. `base` is the shared lineage. A response is what it is *of*
(document, phase, round) and whether it completed, which is what the properties tell
apart. `handed` and `late` are history variables: hand-overs begun, and documents of
which a start ran that the row was not, or no longer, prepared for.

### ToolTurn

The chain of responses of one root thread. A request is the response it goes on from and
the calls it answers; OpenAI refuses one that leaves a call unanswered. Handlers of
start, resume, tool output, report and recovery go through `send`, `checkpoint`,
`stream`, and then page reads (on to the next `send`), a group, waiting for the client,
or the end of the turn. The history stream keeps one message per id (`saved`), so a
checkpoint under a used id is not kept. Children are not here: a group is open until
its aggregate is due.

### CitationRound

The round of `store_citation` calls, with a handler `h[w]` for each worker, since
nothing is claimed before the outputs are there. The group row, its bindings, the
children's rows, the results and the aggregate mark are steps of their own, in the order
of the code; the results of a group are written and read in one transaction, which other
transactions do not see (`UpsertResult`, `CommitResult`). `citations` is the table the
browser lists. An id of OpenAI's that comes again in a later response (`repeat`) makes
the code find the old group by its stable key.

### ThreadControl

A root thread and one child; an API that serves one request at a time, whose cascade
lists the tree and sends one command per thread; workers with an actor per thread, whose
handlers load, claim, save and release in steps; sweeps. A turn is a single step at its
end, its inside is in the modules above. Commands carry the id that JetStream
deduplicates by. A lease of a dead worker has run out, a lease of a living one has not.

### ThreadClient

The browser beside the server. `loads` are the calls of `loadThread` under way, each at
its next await; JavaScript runs to the next await in one step, and in between the server,
other calls and frames go on. `wire[t]` are frames between worker and browser. A message
is shown under the id of its item (live) or under its cursor in the store (loaded), as in
the code, which is why a message can be shown twice. The worker publishes an item before
it stores it. The specification's names (`ClientInit`, `ClientNext`, `ClientSpec`, ...) are
its own, so that one module of proofs can extend it beside `DocumentPipeline`.

## 4. The runs

| run | question | instance | result |
|---|---|---|---|
| `ownership` | fencing, what a holder knows, refinement of `FencedLease`, a stale turn is cut short | 2 workers, generations to 2 | holds |
| `spawn` | barrier, outcomes, dispatch, refinement of `Barrier` | 1 parent, 1 group of 2, one of each fault | holds |
| `spawn_live` | do barrier and parent go on? | 2 groups of 1 in a row, 2 crashes, 1 redelivery | holds |
| `children_finish` | does a child recover like any other thread? | 1 child, 1 crash, 1 redelivery | violated |
| `sockets` | how far can the count be off? | 2 actors, 2 slots | holds |
| `documents` | settles; manifest and announcement | 1 page, 2 splitters, 2 OCR workers, 3 deliveries, one of each fault | holds |
| `delivery` | answered, not repeated, one handler | 2 workers, 2 commands, mailbox of 1, one actor that ends, one fault | holds |
| `doc_query` | warm-ups, lineage, answers, refinement of `Barrier`, rounds end | 2 documents, 2 rounds, one crash, failure or stray start | holds |
| `tool_turn` | every call answered, checkpoint current, turns end | 3 responses of up to 2 calls, 1 input, 2 crashes, 1 failure | holds |
| `citations` | outputs true, no stray citation, the round ends | 2 workers, 2 calls, 2 responses, 2 faults | holds |
| `thread_control` | deleted, archived and disconnected trees; no orphan | 2 workers, 1 attempt per worker, 2 events after the creation | holds |
| `thread_client` | what the browser shows, which thread, and whom it asks | 3 threads and a new one, 2 clicks, 1 fault, 2 messages per thread | holds |

- **children_finish**: `recoverThread` knows a waiting parent by a spawn group and no
  active response. A child carries the group it *belongs to*, and if its worker dies
  before `response.created` it is taken for a parent waiting for that group.
  `PROJECT.json` quotes the statement it contradicts under `findings`.

Some properties hold with an exception, which is part of the property and described at
its definition:

- `StaleTurnIsCut`: not for a turn that reloaded the thread (page reads), whose
  meta took over the foreign generation.
- `DriftIsBounded`: off by one for each actor that raced.
- `DocumentsSettle`: not if the failure of a split could not be recorded (the command
  is acknowledged all the same), nor if a handler fails once AckWait has put a second
  one beside it, for the other acknowledges for both.
- `EffectIsNotRepeated`: not when AckWait passed for a command in hand: the second copy
  may pass the check before the first is recorded.
- `CommandsAreAnswered`: not for commands addressed to the own subject of a worker
  that died. Nobody else reads it; the sweep recovers the thread, not the command.
- `WarmupIsNoAnswer`, `BaseIsWarmOnTime`, `AnswersItsRound`: not for a child on which a
  start ran late (`late`), which nothing in `handleStart` refuses; the first also not
  for a report handled twice (`handed`).
- `RoundsEnd`: only without trouble; a child that fails between clearing its group and
  its report, and others of section 6, tell the parent nothing.
- `AnswersItsResponse`, `CheckpointIsCurrent` and `TurnEnds`: not after a client gave
  input to a thread that waited for its tool output (`impatient`), a response called
  `spawn_threads` twice, of which one is answered (`doubled`), a handler failed and its
  command was retried (`retry`), or a recovery found the group of an earlier response
  in the row (`kept`); each names those of the four that it needs.
- `OutputsAreTrue`: an error may also stand for a failed step, or for bindings of a
  group that was found again by a repeated id.
- `NoStrayCitation` and `RoundEnds`: not if a worker crashed, an answer of finalize was
  lost or a claim was refused and the outputs were made twice; not if a report was
  refused or went to a dead worker, or two handlers overlapped.
- `DeletedIsGone` and `ArchiveStays`: not for a row brought back by a cancel or a start
  that found none (`ghost`), which claim nothing and save what they have.
- `CascadeWindsDown`: not if a thread began a turn or took a lease that the cascade had
  not seen (`moved`), its command was dropped as a repetition of an earlier cascade's
  (`again`: `LoadOrCreateCommandID` keeps one id per thread, generation and kind, so
  that a second cascade sends nothing anew), a cancel was handled beside the holder
  (`stale`), or a worker crashed.
- `ShowsTheThread`, `LastClickWins`, `SwitchAsks`: not if a thread was loaded in the
  middle of a turn (`busy`), a frame was lost, or came before its new thread was known
  (`early`), a conversation went on in a new thread (`continued`), a send, a reset or a
  click on the thread shown crossed a load (`crossed`), or a request failed; nor, for
  `SwitchAsks`, after a turn went on behind its tools (`tools`), which the browser takes
  for its end.

### Known divergences

These properties are what a document or a comment says and the code does not do. They
are defined in the modules, and each has a configuration under which TLC shows a
counterexample within a minute:

| property | configuration | what happens | said at |
|---|---|---|---|
| `SingleWriter` | `MCSingleWriter.cfg` of `MCOwnership` | a turn whose lease was taken over saves the row until the lease loop's next tick; `thread.cancel` saves without having claimed | `docs/POSTGRES_SCHEMA.md`: "The worker is the single writer for thread mutation on a given thread." |
| `BarrierReleases` | `MCBarrierReleases.cfg` of `MCSpawn` | `handleChildResult` (`worker/actor.go:959`) marks the aggregate submitted before it claims; a worker that is not the owner is refused, and nobody sends it | `docs/THREAD_BRANCHING.md:182` |
| `ParentGoesOn` | `MCParentGoesOn.cfg` of `MCSpawn` | the handler saves `running` before it dials; the retried command (`worker/actor.go:449`) finds its precondition gone | |
| `BudgetIsAccurate` | `MCBudgetIsAccurate.cfg` of `MCSockets` | `handleLeaseLoss` releases the slot of a session whose replacement is being dialled | `worker/actor.go`: "so the process-wide socket budget stays accurate across all close paths" |
| `EveryPageGetsOCR` | `MCEveryPageGetsOCR.cfg` of `MCDocuments` | after a passed AckWait a second splitter and the OCR worker write `manifest.json` at once; the next reader finds it torn and terminates the message | `README.md`: "extracts per-line bboxes from every page at ingest" |
| `BaseIsWarm` | `MCBaseIsWarm.cfg` of `MCDocQuery` | a warm-up start redelivered after a crash turns a child that is being asked back into a warm-up, and its answer becomes the shared base (`worker/actor.go:1021`) | `docs/DOCUMENT_CHAT_INTEGRATION.md:250` |
| `AggregateOnce` | `MCAggregateOnce.cfg` of `MCToolTurn` | a thread that went from its aggregate into a tool call keeps the group (`worker/actor.go:4602`); a recovery sends the old aggregate again | `docs/THREAD_BRANCHING.md:181` |
| `ReplaysLastSend` | `MCReplaysLastSend.cfg` of `MCToolTurn` | the checkpoint is saved after the send (`worker/actor.go:1820`); a crash in between replays the request before | `docs/OPENAI_WS_RUNTIME.md:27` |
| `LastReportCloses` | `MCLastReport.cfg` of `MCCitations` | two reports of one group in two transactions (`postgresstore/store.go:1100`): neither sees the other's result, and neither closes the group | `docs/THREAD_BRANCHING.md:180` |

`SwitchAsks` without its exception `tools` is another: the comment at
`src/frontend/src/thread/ThreadService.ts:284` says that in-flight turns prompt for
confirmation, but after `response.completed` of a response with tool calls the browser
is idle while the thread waits for its children, and a switch cancels it unasked.

### Bounds and why they are enough

Two workers are an owner and a challenger, and a third would take part only as the
next challenger. Generation 2 is the first that is handed out to a second holder or by
a rotation. Two children are the least with a first and a last report; two groups in a
row are the least with a report of an old group at a new barrier. Two actors under a
ceiling of two are enough for a wrong count to show, the ceiling can be reached, and a
third slot would make `MaxSockets` unreachable. One page is enough for a torn manifest:
with it a manifest is shorter without refs than with them; two consumers of each kind
are a handler and the one that AckWait puts beside it. Two commands and a mailbox of
one make a dispatcher wait at a full mailbox while another command is handled.

Faults (crashes, errors, passed AckWaits, releases, redeliveries) are budgets in the
guards, mostly one of each per run: single faults in every order with everything else.
`MaxEvents` of `thread_control` counts requests after the creation of the thread,
crashes and failed publishes together, so that every pair of them meets in every order
with handlers and sweeps; with three events and one attempt per worker a second crash
uses up the attempts, as the cap of five does after five. The other properties of
`thread_control` also held with two workers and three events, and with one worker and
four. Two rounds are the least
in which a child of `DocumentQuery` is used again, three responses the least with a
group that is kept beyond the response to its aggregate; two clicks are a load and the
one that makes its answer late. The threads that are not open at first, workers, and the
children of a group are symmetric where a run has no liveness.

In `documents` all four budgets are one and may be used together. In `delivery`,
`MaxFaults` allows one error, passed AckWait or crash, on top of one actor that ends; the
same model without liveness was also run with two of them. TLC reports no deadlock
because the systems may stop (`CHECK_DEADLOCK FALSE`): no command need come, and the
budgets run out.

### Fairness and why the code justifies it

- `ThreadOwnership`: weak fairness of a live lease loop: its ticker fires every minute.
- `SpawnBarrier`: handlers go on (goroutines are scheduled, and calls return or time
  out), a start or report that the owner can read is delivered (JetStream redelivers
  what is not acknowledged), and the sweep comes round every 15 seconds. No fairness
  for failures, releases, or tool output, which is up to the user.
- `DocumentPipeline`: a split or OCR handler goes on, and JetStream delivers.
- `DocumentQuery`, `ToolTurn`, `CitationRound`: handlers go on, OpenAI ends or refuses a
  response, commands and reports are delivered, the sweep comes round. None for
  failures, for what the client does, or for locators finding anything.
- `ThreadControl` and `ThreadClient` state safety of settled states (`Settled`,
  `Quiet`: nothing is under way) and need no fairness.
- `CommandDelivery`: dispatchers and handlers go on, JetStream redelivers, a dead owner's
  lease expires. Strong fairness of `CloseDone`: a cancelled actor whose mailbox is filled
  again and again takes the branch of its cancelled context in the end, because Go's
  `select` chooses among the ready branches at random.

## 5. The proofs

Assumptions are those named in the modules, and no others: `NoWorker`, `Nobody` and the
like are no workers, bounds are natural numbers, a document has a page, a consumer a
delivery, the set of actors is finite, there is at least one slot, no splitter reads OCR
messages. `SpawnBarrier` assumes that a group has a child (`AtLeastOneChild`):
`worker/actor.go:3445` refuses an empty `spawn_threads`.

Most properties speak of what was done, and few are inductive: each proof says what the
code relies on in between. The strengthened invariants were model-checked on the run's
instance before they were proved. Each proof of a preservation goes through the actions
one by one, or through the few things a step can do to the variables it is about.

`ThreadOwnership_proofs`, for any set of workers and any bound on generations:

- `TypeCorrect`: every variable keeps its type.
- `GenerationsAreTokens`: `TokensFenced`. It is not inductive alone: that a refused claim
  leaves the row alone needs `LeaseShape` (an absent row is blank and has no history; a
  present one has a positive generation). The proof first shows that any step does one
  of five things to the row (`LeaseStep`) and then looks at those five.
- `HoldersKnow`: `HolderKnowsGeneration`, with the same invariant: the only steps that
  raise the generation of a row without changing its holder are the holder's own.
- `OwnershipImplementsLease`: the refinement, `Spec => ImplementsLease`, from the same
  five cases: claim is `Acquire`, `TakeOver` or `Extend`; rotate and renew are `Extend`;
  release is `GiveBack`; expiry is `RunOut`; the rest stutters.

`SpawnBarrier_proofs`, for any set of children and any number of groups, crashes,
releases, redeliveries and failures:

- `TypeCorrect`: every variable keeps its type.
- `BarrierOpensWhole`: `AggregateIsWhole`. The invariant speaks of what was sent; it
  takes that what an actor is about to send, and what a checkpoint would replay after a
  crash, is the aggregate of a closed group, too (`Whole`), and that a closed group
  stays closed (`ResultNext`).
- `OutcomesStay`: `OutcomesAreFinal`. Reports keep the first outcome; that opening a
  group overwrites none needs `Births`: a group not opened has no rows, and a child
  without a row has not run. `Shape` says what a handler may rely on at each place.
- `NoneForgotten`: `NoChildForgotten`. A parent that waits was the last to write its row;
  that its children are under way must already hold while it runs with that group, for a
  crash may take it back to its barrier (`Dispatched`), and it holds of a start only while
  the command is there: a start is acknowledged when the child is no longer new, or never
  (a refused one is tried again). That no handler makes a thread new again is
  `NewNoMore`.
- `SpawnImplementsBarrier`: `Spec => IsBarrier`. `CreateGroup` maps to the opening with all
  of the members, the first report of a child to its settling, the aggregate's submission
  to the release, everything else to a stutter; that the release comes after the last
  settling is `IInv`.

`Actor_proofs`, of `SocketBudget`, for any finite set of actors and any ceiling:

- `SocketTypeCorrect`, in which the ceiling is a type: `used` stays in `0..MaxSockets`.
- `DriftBounded`: `DriftIsBounded`, with races. A slot cannot be traced to an actor once
  the count is off, since `releaseSocketSlot` stops at zero and so forgives a release too
  many. The invariant (`DriftInv`) bounds the count from both sides instead: `used` is at
  most the number of actors that may have taken a slot, plus one for each that raced, and
  at least the number that must hold one, less those that raced and have been through
  their loss. `Together` says which of an actor's goroutines can be at its session at
  once, and that it loses its lease once.
- `AccurateUnlessRaced`, its corollary: without a race the settled count is exact.

`Edge_proofs`, of `DocumentPipeline`, for any number of pages, splitters, readers and faults:

- `TypeCorrect`: types, and that no message is delivered more often than `MaxDeliver`.
- `RefsStayOnDisk`: `RefsAreOnDisk`. Splitter and reader write back copies of the manifest
  that they read earlier, so the copies must name nothing that is not on disk, either
  (`CopiesOnDisk`); a result is stored before its ref is set, and never taken away.
- `ReadyIsAnnounced`: `ReadyWasAnnounced`, from the moment a splitter is about to mark the
  row (`ReadyIsTold`).

`CommandDelivery_proofs`, for any number of workers, commands, actors and faults, and any
size of mailbox:

- `TypeCorrect`: no mailbox holds more than its room.
- `OneHandler`: `OneHandlerPerWorker`, from `Shape`: every actor that is made and not done
  is the one in the map, and only such actors work.
- `EffectsAreOnce`: `EffectIsNotRepeated`. While no AckWait has passed, a command is in at
  most one place, a dispatcher's hand, a mailbox or an actor's hands, and in none unless
  JetStream counts it as delivered (`InOnePlace`); so what an actor is about to carry out
  is not yet recorded (`NotDone`).

`DocumentQuery_proofs`, for any number of documents, rounds, crashes and stray starts:

- `TypeCorrect`: every variable keeps its type.
- `QueryImplementsBarrier`: `Spec => IsBarrier`, by the mapping of `SpawnBarrier`. Since
  children are kept from round to round, most of the invariant is about which round
  things belong to: a group has rows only once it was opened (`Opened`), a parent waits
  for its latest round and for nothing else (`WaitsForLatest`), the groups it waits for
  have members (`HasMembers`), and no row, copy, start or report names a group that does
  not have its document (`Membership`).
- `AnswersAreOfTheirRound`: `AnswersItsRound`. Of a document on which no start ran late,
  the row, the copy of it, job, checkpoint, response and report all belong to the round of
  the group they name, or that group has the document's outcome already, which stays
  (`OnTime`).
- `BaseStaysWarm`, `WarmupsAreNoAnswers`: `BaseIsWarmOnTime`, `WarmupIsNoAnswer`. In
  the latest round a report tells the phase of the child's row, and so does the copy of
  the handler that is still to write it (`PhasesFit`); only the hand-over changes
  the phase.

`Actor_proofs`, of `ToolTurn`, for any number of responses, calls, inputs, crashes and failures:

- `TypeCorrect`: types, and that the row names only responses that ended, that a thread
  that waits has a group, and that the handler is idle exactly when it has no command.
- `RequestsAnswer`: `AnswersItsResponse`. What recovery would send again (the checkpoint,
  and the aggregate of the group in the row) answers its response as well, and a parent
  waits for the group of its last response (`AnswersInv`).
- `CheckpointStaysCurrent`: `CheckpointIsCurrent`. Ids grow: a request that has no
  checkpoint yet has a greater id than any under which one was saved (`FreshIds`), so that
  the history stream never drops a checkpoint as a duplicate.

`CitationRound_proofs`, for any number of workers, calls, responses and faults:

- `TypeCorrect`: every variable keeps its type.
- `ModelIsToldTheTruth`: `OutputsAreTrue`. What a handler is about to send rests on the
  bindings of the group, the snapshot of results that it read and the citations that it
  committed, each of which others may change meanwhile. The invariant says of each
  handler how far its outputs go and why each is true (`Stand`, `Snapped`, `Truths`), and
  the proof shows that all another does is to add to what they rest on (`Grows`).
  `ClosedSeesAll` counts: where no id was used twice, a group that has as many results as
  calls has the result of every call.
- `NoCitationIsLost`: `NoStrayCitation`. While nothing void has happened one worker at a
  time is about the thread, and of each citation that is committed it has told the model
  or holds the output that tells it (`PlainInv`).

`ThreadControl_proofs`, for any number of workers, requests, crashes and attempts:

- `TypeCorrect`: types; it takes that a thread without a row has no lease, that a dead
  worker runs nothing, and that JetStream remembers the id of every command but a report.
- `DeletedStaysGone`: `DeletedIsGone`. A handler that is between its claim and its save
  has the row and the lease (`Owners`), and such a thread is busy for `threadTreeBusyTx`;
  so none is left that could save a row into a deleted tree.
- `ArchivedStays`: `Spec => ArchiveStays`: a whole row that is saved keeps the archive mark
  of the row it replaces, whatever the copy in memory says.
- `CascadeReachesAll`: `CascadeWindsDown`. The property is about states in which nothing is
  under way any more; `CascadeInv` says why they come about. Of a thread whose lease is
  live, something is on the way that ends it (`Winding`: a handler that cancels or
  disconnects, or a command that it will not refuse) once the cascade has sent the
  thread's command, and before that the list has a command that will do (`Planned`). A
  command is refused for its generation only while another release is on the way
  (`Known`, `Foreign`), and the turn of a report does not make a listed status too old
  for its command.
- `FirstAttemptRecovers` and `OneCrashNoOrphan`: `NoOrphan`, each under a condition on the
  steps. A thread is an orphan while its row is in the middle of something and its lease
  is dead (`Orphan`). No step makes one but one that takes its worker from it
  (`OrphanStays`), and the generation in an orphan's row agrees with its lease
  (`SweepInv`, `Agreed`), so that no handler refuses the recovery. The first attempt
  publishes its command (`Counted`: an id that JetStream has seen was counted), the
  command stays until somebody has handled it (`Attended`), and a state in which it can
  be taken is not settled.
  `FirstAttemptRecovers` asks that no thread lose its worker after the first attempt for
  it (`LostFirst`), whatever happens before. `OneCrashNoOrphan` asks what a reader can
  see (`OneLoss`): at most one worker dies, and no disconnect lets a parent go that waits
  for its child; it follows from the first, since till the crash there is no orphan and
  no attempt (`LossInv`).
  The conditions are needed: recovery attempts are counted for a thread in a worker's
  life and never reset, and all of them may be spent on one loss, because a sweep counts an
  attempt whose command JetStream drops as a repetition. With three workers, one attempt
  each and two crashes the property is false, and with five attempts it takes more
  repetitions, not another argument.

`Edge_proofs`, of `ThreadClient`, for any number of threads, messages, clicks and faults:

- `ClientTypeCorrect`: every variable keeps its type.
- `ConversationIsShown`: `ShowsTheThread`. The property is about quiet states; the invariant
  speaks of all of them: what is shown and the frames on the wire together make up what was
  published, in order, with part of at most one message (`Fit`, kept by everything the
  worker sends and the browser takes: `FitSays`, `FitWrites`, `FitTakes`). What a load has
  read is of a thread at rest, which stays at rest until the answer is shown
  (`ReadsRest`); a new thread's frames fit the empty page until the browser knows it.
- `LastClickIsShown`: `LastClickWins`. Only the load with the latest number may change the
  view, and it leads to what is wanted (`Underway`, `Wants`); a busy view has a turn under
  way whose end is still to come (`StreamsOn`).
- `SwitchWasConfirmed`: `ClientSpec => SwitchAsks`. Browser and worker must agree on who is busy
  (`Agreed`): the open thread has at most one turn, and while it is not over the view is
  busy, or a load that leaves it was confirmed; so a load that was not confirmed leaves a
  thread in which nothing is under way, and the cascade has no turn to cancel.

Only model-checked, and why:

- `StaleTurnIsCut` of `ThreadOwnership`, and every liveness property: liveness under fairness
  and ENABLED are out of the prover's reach.
- Nothing is proved by induction over data, and none of the models needs it.

## 6. What is not modelled

- Clock time. Leases, AckWaits and timeouts pass at any moment; that renewals come in
  time, or that a back-off ends before the stream's maximum age of an hour, is not
  stated. THREAD_CMD is in memory; the loss of the stream is outside.
- A child that never reports. Retry exhaustion, an error event, a missing
  checkpoint and `thread.cancel` end a child without telling its parent. `SpawnBarrier`
  has these ends, and `BarrierReleases` is about parents whose children have all
  reported; the others wait for ever, by the shape of the code.
- The content of requests, responses, prompts, events and pages; JSON conversion;
  listing, searching, paging and rendering; start-up and wiring; the OCR microservice.
- The read loop of `openaiws`: its end drops the event channel with what is buffered in
  it, and the turn's `Receive` fails. That failure is a step of `ToolTurn`
  (`HandlerFails`) and `SpawnBarrier`; that the lost event may have been the last one of
  a completed response is not told apart.
- A relay that cannot be written to. `publishEvent` then fails the turn as any failed
  call of a handler does.
- In `ThreadControl`: a lease that runs out under a living worker (see
  `ThreadOwnership`), an input to a thread without a response yet, and the end of
  JetStream's deduplication window: ids are remembered for ever.
- In `ThreadClient`: archive and delete from the list, the list itself, drafts,
  attachments, the user's own messages, reasoning items in the store, citations and
  indicators, failed and incomplete responses.
- Collections, repositories and images (one statement or blob per request), the git
  service (the splitter's handler around `git clone`), the rotation schedule and the
  heartbeat row of the worker registry.
