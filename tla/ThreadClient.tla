----------------------------- MODULE ThreadClient ---------------------------
(***************************************************************************)
(* The browser's ThreadService beside the server: the user opens threads,  *)
(* sends messages and starts new conversations while requests are under    *)
(* way, and live frames of all threads come over the worker's relay, the   *)
(* hub and one WebSocket.                                                  *)
(*                                                                         *)
(* JavaScript runs to the next await in one step; between the awaits the   *)
(* server and the other calls go on.  A thread's turn is here what the     *)
(* browser can tell of it: messages are published, then stored, and a turn *)
(* that calls tools completes a response and goes on with another one.     *)
(* Only the model's messages are followed; users' own messages, drafts,    *)
(* attachments, archive and delete are not.                                *)
(***************************************************************************)
EXTENDS Integers, Sequences, FiniteSets

CONSTANTS Roots,         \* threads that exist
          First,         \* the one that may be open at first
          Fresh,         \* the thread that a first message creates
          MaxItems,      \* bound: messages of a thread
          MaxClicks,     \* bound: what the user does
          MaxFaults      \* bound: frames lost and requests failed

None == "none"
ASSUME NamesAreFree == First \in Roots /\ Fresh \notin Roots /\ None \notin Roots \cup {Fresh}
ASSUME BoundsAreNat == MaxItems \in Nat \ {0} /\ MaxClicks \in Nat /\ MaxFaults \in Nat

Threads == Roots \cup {Fresh}

VARIABLES
  turn,        \* thread -> what its row and its handler say
  log,         \* thread -> how many messages the store has
  inputs,      \* thread -> commands with input not yet handled
  order,       \* thread -> the cascade's command, not yet handled
  wire,        \* thread -> frames between its worker and the browser
  view,        \* the part of ThreadState that this is about
  generation,  \* loadGeneration
  loads,       \* calls of loadThread under way
  send,        \* the call of sendMessage under way
  wanted,      \* history: the thread that the user asked for last
  odd,         \* history: what makes a promise void
  clicks, mishaps

clientVars == <<turn, log, inputs, order, wire, view, generation, loads, send, wanted, odd,
                clicks, mishaps>>
server == <<turn, log, inputs, order, wire>>
browser == <<view, generation, loads, send, wanted, clicks>>

NoOrder == [kind |-> "none", asked |-> FALSE]
NoSend == [at |-> "idle", to |-> None]

(* A message as shown; the store and the stream name it differently.       *)
Message(source, t, n, whole) == [id |-> <<source, t, n>>, whole |-> whole]

(* The empty conversation, and one that is loaded. *)
Empty == [thread |-> None, shown |-> <<>>, phase |-> "idle", thinking |-> FALSE,
          last |-> "ready"]
Opened == [Empty EXCEPT !.thread = First, !.phase = "streaming",
                        !.shown = <<Message("cursor", First, 1, TRUE)>>]

(* A fresh page, or a thread is open in the turn of a message.             *)
ClientInit ==
  /\ view \in {Empty, Opened}
  /\ turn = [t \in Threads |-> IF t = Fresh THEN "none"
                               ELSE IF t = view.thread THEN "running" ELSE "ready"]
  /\ log = [t \in Threads |-> IF t \in Roots THEN 1 ELSE 0]
  /\ inputs = [t \in Threads |-> 0]
  /\ order = [t \in Threads |-> NoOrder]
  /\ wire = [t \in Threads |-> <<>>]
  /\ generation = 0 /\ loads = {} /\ send = NoSend
  /\ wanted = view.thread /\ odd = {}
  /\ clicks = MaxClicks /\ mishaps = MaxFaults

Streaming == {"running", "writing", "saving", "said"}
Busy == Streaming \cup {"waiting_children"}
-----------------------------------------------------------------------------
(* The worker. *)

Frame(t, f) == wire' = [wire EXCEPT ![t] = Append(@, f)]
Goes(t, status) == turn' = [turn EXCEPT ![t] = status]

(* A start or an input begins a turn; it comes between two handlers.       *)
BeginTurn(t) ==
  /\ inputs[t] > 0 /\ turn[t] \in {"new", "ready", "cancelled", "waiting_children"}
  /\ inputs' = [inputs EXCEPT ![t] = @ - 1]
  /\ Goes(t, "running")
  /\ UNCHANGED <<browser, log, order, wire, odd, mishaps>>

(* Frames before an item is done: it is thought about, and then written.   *)
Streams(t, kind) ==
  /\ turn[t] = "running" /\ log[t] < MaxItems /\ wire[t] = <<>>
  /\ Frame(t, [kind |-> kind, n |-> log[t] + 1])
  /\ Goes(t, IF kind = "delta" THEN "writing" ELSE "running")
  /\ UNCHANGED <<browser, log, inputs, order, odd, mishaps>>

(* streamUntilTerminal: an item is published first and stored next. *)
Says(t) ==
  /\ turn[t] \in {"running", "writing"} /\ log[t] < MaxItems
  /\ Frame(t, [kind |-> "done", n |-> log[t] + 1])
  /\ Goes(t, "saving")
  /\ UNCHANGED <<browser, log, inputs, order, odd, mishaps>>

Stores(t) ==
  /\ turn[t] = "saving"
  /\ log' = [log EXCEPT ![t] = @ + 1]
  /\ Goes(t, "said")
  /\ UNCHANGED <<browser, inputs, order, wire, odd, mishaps>>

(* response.completed: the end of the turn, or its children's time.        *)
Completes(t) ==
  /\ turn[t] \in {"running", "said"}
  /\ Frame(t, [kind |-> "completed", n |-> 0])
  /\ \/ Goes(t, "ready") /\ UNCHANGED odd
     \/ /\ log[t] < MaxItems /\ wire[t] = <<>>
        /\ Goes(t, "waiting_children")
        /\ odd' = odd \cup {"tools"}
  /\ UNCHANGED <<browser, log, inputs, order, mishaps>>

GoesOn(t) ==
  /\ turn[t] = "waiting_children"
  /\ Goes(t, "running")
  /\ UNCHANGED <<browser, log, inputs, order, wire, odd, mishaps>>

(* The cascade's command waits until no handler runs; a disconnect is for  *)
(* an idle thread.                                                         *)
Obeys(t) ==
  /\ order[t].kind # "none" /\ turn[t] \notin Streaming
  /\ order' = [order EXCEPT ![t] = NoOrder]
  /\ Goes(t, IF order[t].kind = "cancel" THEN "cancelled" ELSE turn[t])
  /\ UNCHANGED <<browser, log, inputs, wire, odd, mishaps>>
-----------------------------------------------------------------------------
(* The browser. *)

Click == clicks > 0 /\ clicks' = clicks - 1

(* Mutation: only the thinking counts. *)
InFlight_Thinking == view.thinking

(* A turn that the browser knows of. *)
InFlight == view.phase = "streaming" \/ view.thinking

(* asked: the user has agreed to leave the thread, now or before.          *)
NewLoad(t, at) ==
  [gen |-> generation + 1, to |-> t, prev |-> view.thread, at |-> at,
   asked |-> InFlight \/ \E l \in loads : l.prev = view.thread /\ l.asked,
   status |-> "unread", items |-> 0, read |-> {}]

(* Mutation: the counter is not counted back. *)
Decline_Counts(t) == generation' = generation + 1

(* The user does not confirm: the counter is counted up, and back again.   *)
Decline(t) == UNCHANGED generation

(* loadThread up to its first await. *)
LoadThread(t) ==
  /\ turn[t] # "none" /\ Click
  /\ \/ /\ t # view.thread
        /\ generation' = generation + 1
        /\ loads' = loads \cup {NewLoad(t, IF view.thread = None THEN "fetch" ELSE "post")}
        /\ view' = IF view.thread = None
                   THEN [view EXCEPT !.phase = "loading", !.thinking = FALSE] ELSE view
        /\ wanted' = t
        /\ odd' = IF send.at # "idle" THEN odd \cup {"crossed"} ELSE odd
     \/ /\ t # view.thread /\ view.thread # None /\ InFlight
        /\ Decline(t)
        /\ UNCHANGED <<loads, view, wanted, odd>>
     \/ /\ t = view.thread /\ loads # {}
        /\ wanted' = t /\ odd' = odd \cup {"crossed"}
        /\ UNCHANGED <<generation, loads, view>>
  /\ UNCHANGED <<server, send, mishaps>>

Swap(l, m) == (loads \ {l}) \cup {m}

IsStale(l) == l.gen # generation

(* disconnect_session: one command by the status at the time. *)
Disconnect(l) ==
  /\ l.at = "post"
  /\ loads' = Swap(l, [l EXCEPT !.at = "posted"])
  /\ order' = [order EXCEPT ![l.prev] =
       IF turn[l.prev] \in Busy THEN [kind |-> "cancel", asked |-> l.asked]
       ELSE IF turn[l.prev] = "ready" /\ @.kind = "none" THEN [kind |-> "disconnect", asked |-> TRUE]
       ELSE @]
  /\ UNCHANGED <<turn, log, inputs, wire, view, generation, send, wanted, odd, clicks, mishaps>>

(* The switch goes on, whether the request failed or not. *)
Switch(l) ==
  /\ l.at \in {"post", "posted"}
  /\ \/ l.at = "posted" /\ UNCHANGED <<mishaps, odd>>
     \/ l.at = "post" /\ mishaps > 0 /\ mishaps' = mishaps - 1 /\ odd' = odd \cup {"failed"}
  /\ IF IsStale(l)
     THEN loads' = loads \ {l} /\ UNCHANGED view
     ELSE /\ loads' = Swap(l, [l EXCEPT !.at = "fetch"])
          /\ view' = [view EXCEPT !.phase = "loading", !.thinking = FALSE]
  /\ UNCHANGED <<server, generation, send, wanted, clicks>>

(* The server answers; the row and the items are read by two requests.     *)
Reads(l, what) ==
  /\ l.at = "fetch" /\ what \notin l.read
  /\ loads' = Swap(l, IF what = "row"
                      THEN [l EXCEPT !.read = @ \cup {what}, !.status = turn[l.to]]
                      ELSE [l EXCEPT !.read = @ \cup {what}, !.items = log[l.to]])
  /\ odd' = IF turn[l.to] \in Busy \/ wire[l.to] # <<>> \/ inputs[l.to] > 0
            THEN odd \cup {"busy"} ELSE odd
  /\ UNCHANGED <<server, view, generation, send, wanted, clicks, mishaps>>

(* Promise.all is there. *)
Loaded(l) ==
  /\ l.at = "fetch" /\ l.read = {"row", "items"}
  /\ loads' = loads \ {l}
  /\ view' = IF IsStale(l) THEN view
             ELSE [thread |-> l.to, shown |-> [i \in 1..l.items |-> Message("cursor", l.to, i, TRUE)],
                   phase |-> IF l.status \in Busy \cup {"new"} THEN "streaming" ELSE "idle",
                   thinking |-> FALSE, last |-> l.status]
  /\ UNCHANGED <<server, generation, send, wanted, odd, clicks, mishaps>>

LoadFails(l) ==
  /\ l.at = "fetch" /\ mishaps > 0 /\ mishaps' = mishaps - 1
  /\ loads' = loads \ {l}
  /\ IF IsStale(l) THEN UNCHANGED <<view, odd>>
     ELSE view' = [Empty EXCEPT !.phase = "error"] /\ odd' = odd \cup {"failed"}
  /\ UNCHANGED <<server, generation, send, wanted, clicks>>

(* sendMessage up to its await; a thread that was cancelled is not used.   *)
SendMessage ==
  /\ view.phase \notin {"loading", "streaming"} /\ send.at = "idle" /\ Click
  /\ LET to == IF view.last = "cancelled" THEN None ELSE view.thread IN
     /\ to = None => turn[Fresh] = "none"
     /\ send' = [at |-> "post", to |-> to]
     /\ wanted' = IF to = None THEN Fresh ELSE wanted
     /\ odd' = LET o == IF loads # {} THEN odd \cup {"crossed"} ELSE odd IN
               IF to = None /\ view.thread # None THEN o \cup {"continued"} ELSE o
  /\ view' = [view EXCEPT !.phase = "streaming", !.thinking = FALSE]
  /\ UNCHANGED <<server, generation, loads, mishaps>>

(* handleCreateThread, or handleSubmitCommand. *)
Accept ==
  /\ send.at = "post"
  /\ LET t == IF send.to = None THEN Fresh ELSE send.to IN
     /\ turn[t] # "cancelled"
     /\ inputs' = [inputs EXCEPT ![t] = @ + 1]
     /\ turn' = IF send.to = None THEN [turn EXCEPT ![t] = "new"] ELSE turn
     /\ send' = [at |-> "posted", to |-> t]
  /\ UNCHANGED <<log, order, wire, view, generation, loads, wanted, odd, clicks, mishaps>>

Sent ==
  /\ send.at = "posted"
  /\ view' = IF send.to = Fresh THEN [view EXCEPT !.thread = Fresh] ELSE view
  /\ send' = NoSend
  /\ UNCHANGED <<server, generation, loads, wanted, odd, clicks, mishaps>>

(* A conflict for a cancelled thread, or a failure. *)
SendFails ==
  /\ send.at = "post"
  /\ \/ send.to # None /\ turn[send.to] = "cancelled" /\ UNCHANGED mishaps
     \/ mishaps > 0 /\ mishaps' = mishaps - 1
  /\ view' = [view EXCEPT !.phase = "idle"]
  /\ send' = NoSend /\ odd' = odd \cup {"failed"}
  /\ UNCHANGED <<server, generation, loads, wanted, clicks>>

(* The button for a new conversation. *)
ResetConversation ==
  /\ Click /\ view # Empty
  /\ view' = Empty /\ wanted' = None
  /\ odd' = IF loads # {} \/ send.at # "idle" THEN odd \cup {"crossed"} ELSE odd
  /\ UNCHANGED <<server, generation, loads, send, mishaps>>

Known(shown, m) == \E i \in DOMAIN shown : shown[i].id = m.id

(* applyOutputItemAdded, applyOutputTextDelta *)
AddPart(shown, m) == IF Known(shown, m) THEN shown ELSE Append(shown, m)

(* Mutation: what the deltas have made stays. *)
Upsert_Keeps(shown, m) == AddPart(shown, m)

(* upsertMessage: completion is truth. *)
Upsert(shown, m) ==
  IF Known(shown, m)
  THEN [i \in DOMAIN shown |-> IF shown[i].id = m.id THEN m ELSE shown[i]]
  ELSE Append(shown, m)

(* handleStreamMessage: frames of other threads are dropped. *)
ForView(t) == view.thread = t

Receive(t) ==
  /\ wire[t] # <<>>
  /\ wire' = [wire EXCEPT ![t] = Tail(@)]
  /\ LET f == Head(wire[t]) IN
     IF ForView(t)
     THEN /\ view' = CASE f.kind = "thinking" -> [view EXCEPT !.thinking = TRUE]
                       [] f.kind = "delta" ->
                            [view EXCEPT !.thinking = FALSE,
                               !.shown = AddPart(@, Message("item", t, f.n, FALSE))]
                       [] f.kind = "done" ->
                            [view EXCEPT !.thinking = FALSE,
                               !.shown = Upsert(@, Message("item", t, f.n, TRUE))]
                       [] OTHER -> [view EXCEPT !.phase = "idle", !.thinking = FALSE,
                                                !.last = "completed"]
          /\ UNCHANGED odd
     ELSE /\ odd' = IF t = Fresh /\ send.at = "posted" THEN odd \cup {"early"} ELSE odd
          /\ UNCHANGED view
  /\ UNCHANGED <<turn, log, inputs, order, generation, loads, send, wanted, clicks, mishaps>>

(* A connection breaks behind the worker's buffer, or the browser's own.   *)
LoseFrame(t) ==
  /\ wire[t] # <<>> /\ mishaps > 0 /\ mishaps' = mishaps - 1
  /\ wire' = [wire EXCEPT ![t] = Tail(@)]
  /\ odd' = odd \cup {"lost"}
  /\ UNCHANGED <<browser, turn, log, inputs, order>>
-----------------------------------------------------------------------------
Work(t) == BeginTurn(t) \/ Says(t) \/ Stores(t) \/ Completes(t) \/ GoesOn(t) \/ Obeys(t)

Answer == \/ Accept \/ Sent
          \/ \E l \in loads : Disconnect(l) \/ Switch(l) \/ Loaded(l)
                              \/ \E what \in {"row", "items"} : Reads(l, what)

User == SendMessage \/ ResetConversation \/ \E t \in Threads : LoadThread(t)

Fault == SendFails \/ (\E l \in loads : LoadFails(l)) \/ (\E t \in Threads : LoseFrame(t))

ClientNext == \/ User \/ Answer \/ Fault
              \/ \E t \in Threads : Work(t) \/ Receive(t) \/ Streams(t, "thinking") \/ Streams(t, "delta")

ClientSpec == ClientInit /\ [][ClientNext]_clientVars
-----------------------------------------------------------------------------
(* The state is well formed. *)
ClientTypeOK ==
  /\ \A t \in Threads :
       /\ turn[t] \in Busy \cup {"none", "new", "ready", "cancelled"}
       /\ log[t] \in 0..MaxItems /\ inputs[t] \in Nat
       /\ order[t].kind \in {"none", "cancel", "disconnect"}
  /\ view.phase \in {"idle", "loading", "streaming", "error"}
  /\ \A l \in loads : l.gen \in 1..generation /\ l.read \subseteq {"row", "items"}

Quiet == /\ loads = {} /\ send.at = "idle"
         /\ \A t \in Threads : wire[t] = <<>> /\ inputs[t] = 0 /\ turn[t] \notin Busy

Void(reasons) == odd \cap reasons # {}

(* When all is quiet the conversation shows what the store has, each       *)
(* message once, whole and in order, though several loads were under way   *)
(* and frames of all threads came in between.  Void when a thread was      *)
(* loaded while a turn of it was under way (what is published or stored    *)
(* between the snapshot and its display is missed, or shown twice), a      *)
(* frame was lost or came before its thread was known, a conversation went *)
(* on in a new thread, or a send or a reset crossed a load.                *)
ShowsTheThread ==
  (Quiet /\ view.thread # None /\ ~Void({"busy", "lost", "early", "continued", "crossed"}))
    => /\ Len(view.shown) = log[view.thread]
       /\ \A i \in DOMAIN view.shown :
            view.shown[i].whole /\ view.shown[i].id[2] = view.thread /\ view.shown[i].id[3] = i

(* ThreadService.ts 299: a switch that cancels a turn was confirmed.  Void *)
(* when the turn went on after its tools, which the browser takes for its  *)
(* end, and for what makes the display wrong.                              *)
SwitchAsks ==
  [][\A t \in Threads :
       turn'[t] = "cancelled" /\ turn[t] # "cancelled"
         => order[t].asked \/ Void({"tools", "crossed", "busy", "lost", "early"})]_turn

(* The thread that the user asked for last is the one that is shown once   *)
(* every request is answered, whichever answers came last and whatever was *)
(* declined meanwhile; the view is neither left loading, nor busy with a   *)
(* turn that has ended.                                                    *)
LastClickWins ==
  Quiet => /\ ~Void({"crossed", "failed"}) => view.thread = wanted /\ view.phase # "loading"
           /\ odd \subseteq {"tools", "continued"} => view.phase = "idle"
=============================================================================
