---------------------------- MODULE Edge_proofs ----------------------------
(***************************************************************************)
(* Proofs about the two ends of the system that a user sees.               *)
(*                                                                         *)
(* Of ThreadClient, whose definitions carry names of their own where the   *)
(* two would clash, for any number of threads, messages, clicks and        *)
(* faults: type correctness; that the conversation shows what the store    *)
(* has; that the last click wins; that a switch that cancels a turn was    *)
(* confirmed.  These are of quiet states, or of single steps; what leads   *)
(* there is the invariant Settled: what is shown and what is on the wire   *)
(* make up what was published (ShownFits), a load reads a thread at rest   *)
(* (ReadsRest), the click under way leads to what is wanted (Wants), a     *)
(* busy view has a turn to wait for (StreamsOn), and browser and worker    *)
(* agree on who is busy (Agreed).                                          *)
(*                                                                         *)
(* Of DocumentPipeline, for any number of pages, splitters, readers and    *)
(* faults: type correctness; that a manifest names OCR results that are on *)
(* disk; that a document that is ready has been announced to the OCR       *)
(* pipeline.  Neither is inductive as it stands.  What is on disk must     *)
(* also hold of the copies of the manifest that instances carry around     *)
(* (CopiesOnDisk), and what was announced must be so from the moment a     *)
(* splitter is about to mark the row (ReadyIsTold).                        *)
(***************************************************************************)
EXTENDS ThreadClient, DocumentPipeline, SequenceTheorems, FiniteSetTheorems, TLAPS

Statuses == Busy \cup {"none", "new", "ready", "cancelled"}
Frames == [kind : {"thinking", "delta", "done", "completed"}, n : Nat]
Texts == [id : {"cursor", "item"} \X Threads \X Nat, whole : BOOLEAN]
Phases == {"idle", "loading", "streaming", "error"}
Lasts == Statuses \cup {"unread", "completed"}
Orders == [kind : {"none", "cancel", "disconnect"}, asked : BOOLEAN]
Views == [thread : Threads \cup {None}, shown : Seq(Texts), phase : Phases,
          thinking : BOOLEAN, last : Lasts]
Loads == [gen : Nat, to : Threads, prev : Threads \cup {None},
          at : {"post", "posted", "fetch"}, asked : BOOLEAN, status : Lasts,
          items : Nat, read : SUBSET {"row", "items"}]
Voids == {"tools", "crossed", "failed", "busy", "continued", "early", "lost"}

Typed ==
  /\ turn \in [Threads -> Statuses] /\ log \in [Threads -> 0..MaxItems]
  /\ inputs \in [Threads -> Nat] /\ wire \in [Threads -> Seq(Frames)]
  /\ order \in [Threads -> Orders]
  /\ view \in Views
  /\ generation \in Nat /\ loads \subseteq Loads
  /\ \A l \in loads : l.gen \in 1..generation
  /\ send \in [at : {"idle", "post", "posted"}, to : Threads \cup {None}]
  /\ send.at = "posted" => send.to # None
  /\ send.at = "idle" => send.to = None
  /\ wanted \in Threads \cup {None} /\ odd \subseteq Voids
  /\ \A t \in Threads : turn[t] = "saving" => log[t] < MaxItems

Alike(m, l) == m.gen = l.gen /\ m.to = l.to /\ m.prev = l.prev /\ m.asked = l.asked
-----------------------------------------------------------------------------
(* Of sequences and records. *)
LEMMA Names ==
  /\ First \in Threads /\ Fresh \in Threads /\ None \notin Threads
  /\ MaxItems \in Nat \ {0}
BY NamesAreFree, BoundsAreNat DEF Threads

LEMMA Appended ==
  ASSUME NEW S, NEW s \in Seq(S), NEW e \in S
  PROVE  /\ Append(s, e) \in Seq(S) /\ DOMAIN Append(s, e) = 1..Len(s) + 1
         /\ DOMAIN s = 1..Len(s) /\ Len(s) \in Nat /\ Len(Append(s, e)) = Len(s) + 1
         /\ \A i \in DOMAIN s : Append(s, e)[i] = s[i]
         /\ Append(s, e)[Len(s) + 1] = e
OBVIOUS

LEMMA Taken ==
  ASSUME NEW S, NEW s \in Seq(S), s # <<>>
  PROVE  /\ Tail(s) \in Seq(S) /\ DOMAIN Tail(s) = 1..Len(s) - 1
         /\ DOMAIN s = 1..Len(s) /\ Len(s) \in Nat /\ Len(s) > 0
         /\ \A i \in DOMAIN Tail(s) : Tail(s)[i] = s[i + 1]
         /\ Head(s) = s[1] /\ Head(s) \in S
OBVIOUS

LEMMA OneIsSeq ==
  ASSUME NEW S, NEW e \in S
  PROVE  <<e>> \in Seq(S)
OBVIOUS

LEMMA FunctionIsSeq ==
  ASSUME NEW S, NEW n \in Nat, NEW s \in [1..n -> S]
  PROVE  s \in Seq(S) /\ Len(s) = n
<1>1. s \in Seq(S)
  BY SeqDef
<1>2. Len(s) = n
  BY <1>1
<1>3. QED BY <1>1, <1>2

LEMMA MessageIs ==
  ASSUME NEW source \in {"cursor", "item"}, NEW t \in Threads, NEW n \in Nat, NEW whole \in BOOLEAN
  PROVE  Message(source, t, n, whole) \in Texts
BY DEF Message, Texts

LEMMA SnapshotIs ==
  ASSUME NEW t \in Threads, NEW n \in Nat, NEW s,
         s = [i \in 1..n |-> Message("cursor", t, i, TRUE)]
  PROVE  /\ s \in Seq(Texts) /\ Len(s) = n
         /\ \A i \in 1..n : s[i] = Message("cursor", t, i, TRUE)
<1>1. \A i \in 1..n : Message("cursor", t, i, TRUE) \in Texts
  BY DEF Message, Texts
<1>2. s \in [1..n -> Texts]
  BY <1>1
<1>3. QED
  BY <1>2, FunctionIsSeq

LEMMA UpsertIs ==
  ASSUME NEW s \in Seq(Texts), NEW m \in Texts
  PROVE  Upsert(s, m) \in Seq(Texts) /\ AddPart(s, m) \in Seq(Texts)
<1>1. [i \in DOMAIN s |-> IF s[i].id = m.id THEN m ELSE s[i]] \in Seq(Texts)
  <2>1. DOMAIN s = 1..Len(s) /\ Len(s) \in Nat
    OBVIOUS
  <2>2. \A i \in DOMAIN s : s[i] \in Texts
    OBVIOUS
  <2>3. QED
    BY <2>1, <2>2
<1>2. QED
  BY <1>1 DEF Upsert, AddPart

LEMMA EmptyIs ==
  /\ Empty \in Views /\ Empty.thread = None /\ Empty.shown = <<>> /\ Empty.phase = "idle"
  /\ [Empty EXCEPT !.phase = "error"] \in Views
  /\ [Empty EXCEPT !.phase = "error"].thread = None
  /\ [Empty EXCEPT !.phase = "error"].shown = <<>>
  /\ [Empty EXCEPT !.phase = "error"].phase = "error"
<1>1. Empty \in Views /\ Empty.thread = None /\ Empty.shown = <<>> /\ Empty.phase = "idle"
  BY DEF Empty, Views, Phases, Lasts, Statuses
<1>2. QED
  BY <1>1 DEF Views, Phases

LEMMA OpenedIs ==
  /\ Opened \in Views /\ Opened.thread = First /\ Opened.phase = "streaming"
  /\ Opened.shown = <<Message("cursor", First, 1, TRUE)>>
<1> PICK m : m = Message("cursor", First, 1, TRUE)
  OBVIOUS
<1>1. m \in Texts
  BY Names, MessageIs
<1>2. <<m>> \in Seq(Texts)
  BY <1>1, OneIsSeq
<1>3. Opened = [Empty EXCEPT !.thread = First, !.phase = "streaming", !.shown = <<m>>]
  BY DEF Opened
<1>4. "streaming" \in Phases
  BY DEF Phases
<1>5. QED
  BY <1>2, <1>3, <1>4, EmptyIs, Names DEF Views

-----------------------------------------------------------------------------
(* What each step of the browser does, field by field. *)
LEMMA LoadThreadDoes ==
  ASSUME Typed, NEW t \in Threads, LoadThread(t)
  PROVE  /\ turn[t] # "none" /\ view' \in Views
         /\ UNCHANGED <<turn, log, inputs, order, wire, send>>
         /\ view'.thread = view.thread /\ view'.shown = view.shown
         /\ odd \subseteq odd' /\ odd' \subseteq odd \cup {"crossed"}
         /\ \/ /\ \E l \in Loads :
                    /\ loads' = loads \cup {l} /\ l.gen = generation + 1 /\ l.to = t
                    /\ l.prev = view.thread /\ l.read = {}
                    /\ l.at = "post" => view.thread # None
                    /\ l.at # "posted"
                    /\ l.asked = (InFlight \/ \E m \in loads : m.prev = view.thread /\ m.asked)
               /\ generation' = generation + 1 /\ wanted' = t
               /\ "crossed" \notin odd' => send.at = "idle"
               /\ view'.phase = IF view.thread = None THEN "loading" ELSE view.phase
            \/ UNCHANGED <<generation, loads, view, wanted, odd>>
            \/ "crossed" \in odd' /\ wanted' = t /\ UNCHANGED <<generation, loads, view>>
<1>1. /\ turn[t] # "none" /\ UNCHANGED <<turn, log, inputs, order, wire, send>>
      /\ odd \subseteq odd' /\ odd' \subseteq odd \cup {"crossed"}
  BY DEF LoadThread, server
<1>2. CASE /\ generation' = generation + 1 /\ t # view.thread
           /\ loads' = loads \cup {NewLoad(t, IF view.thread = None THEN "fetch" ELSE "post")}
           /\ view' = IF view.thread = None
                      THEN [view EXCEPT !.phase = "loading", !.thinking = FALSE] ELSE view
           /\ wanted' = t
           /\ odd' = IF send.at # "idle" THEN odd \cup {"crossed"} ELSE odd
  <2> PICK l : l = NewLoad(t, IF view.thread = None THEN "fetch" ELSE "post")
    OBVIOUS
  <2>1. /\ view.thread \in Threads \cup {None} /\ InFlight \in BOOLEAN /\ generation + 1 \in Nat
        /\ (InFlight \/ \E m \in loads : m.prev = view.thread /\ m.asked) \in BOOLEAN
    BY DEF Typed, Views, InFlight
  <2>2. "unread" \in Lasts
    BY DEF Lasts
  <2>3. /\ l \in Loads /\ l.gen = generation + 1 /\ l.to = t
        /\ l.prev = view.thread /\ l.read = {}
        /\ l.at = "post" => view.thread # None
        /\ l.at # "posted"
        /\ l.asked = (InFlight \/ \E m \in loads : m.prev = view.thread /\ m.asked)
    BY <2>1, <2>2 DEF NewLoad, Loads
  <2>4. /\ view' \in Views /\ view'.thread = view.thread /\ view'.shown = view.shown
        /\ view'.phase = IF view.thread = None THEN "loading" ELSE view.phase
    <3>1. view \in Views /\ "loading" \in Phases
      BY DEF Typed, Phases
    <3>2. QED
      BY <1>2, <3>1 DEF Views
  <2>5. "crossed" \notin odd' => send.at = "idle"
    BY <1>2
  <2>6. QED
    BY <1>1, <1>2, <2>3, <2>4, <2>5
<1>3. CASE UNCHANGED <<generation, loads, view, wanted, odd>>
  BY <1>1, <1>3 DEF Typed
<1>4. CASE wanted' = t /\ odd' = odd \cup {"crossed"} /\ UNCHANGED <<generation, loads, view>>
  BY <1>1, <1>4 DEF Typed
<1>5. QED
  BY <1>2, <1>3, <1>4 DEF LoadThread, Decline

LEMMA DisconnectDoes ==
  ASSUME Typed, NEW l \in loads, Disconnect(l)
  PROVE  /\ UNCHANGED <<turn, log, inputs, wire, view, generation, send, wanted, odd>>
         /\ l.at = "post"
         /\ \E m \in Loads : /\ loads' = (loads \ {l}) \cup {m} /\ Alike(m, l)
                             /\ m.at = "posted" /\ m.read = l.read
                             /\ m.items = l.items /\ m.status = l.status
         /\ order' \in [Threads -> Orders]
         /\ l.prev \in Threads =>
              order'[l.prev] \in {[kind |-> "cancel", asked |-> l.asked],
                                  [kind |-> "disconnect", asked |-> TRUE], order[l.prev]}
         /\ l.prev \in Threads /\ turn[l.prev] \notin Busy =>
              order'[l.prev] \in {[kind |-> "disconnect", asked |-> TRUE], order[l.prev]}
         /\ l.prev \in Threads /\ turn[l.prev] = "none" => order'[l.prev] = order[l.prev]
         /\ \A t \in Threads : t # l.prev => order'[t] = order[t]
<1>1. l \in Loads
  BY DEF Typed
<1> PICK m : m = [l EXCEPT !.at = "posted"]
  OBVIOUS
<1>2. /\ m \in Loads /\ Alike(m, l) /\ m.at = "posted" /\ m.read = l.read
      /\ m.items = l.items /\ m.status = l.status
  BY <1>1 DEF Loads, Alike
<1>3. loads' = (loads \ {l}) \cup {m} /\ l.at = "post"
      /\ UNCHANGED <<turn, log, inputs, wire, view, generation, send, wanted, odd>>
  BY DEF Disconnect, Swap
<1> PICK o : o = IF turn[l.prev] \in Busy THEN [kind |-> "cancel", asked |-> l.asked]
                 ELSE IF turn[l.prev] = "ready" /\ order[l.prev].kind = "none"
                 THEN [kind |-> "disconnect", asked |-> TRUE] ELSE order[l.prev]
  OBVIOUS
<1>4. order' = [order EXCEPT ![l.prev] = o] /\ order \in [Threads -> Orders]
  BY DEF Disconnect, Typed
<1>5. l.asked \in BOOLEAN
  BY <1>1 DEF Loads
<1>6. /\ [kind |-> "cancel", asked |-> l.asked] \in Orders
      /\ [kind |-> "disconnect", asked |-> TRUE] \in Orders
  BY <1>5 DEF Orders
<1>7. order' \in [Threads -> Orders]
  BY <1>4, <1>6
<1>8. "none" \notin Busy
  BY DEF Busy, Streaming
<1>9. QED
  BY <1>2, <1>3, <1>4, <1>7, <1>8

LEMMA SwitchDoes ==
  ASSUME Typed, NEW l \in loads, Switch(l)
  PROVE  /\ UNCHANGED <<turn, log, inputs, order, wire, generation, send, wanted>>
         /\ l.at \in {"post", "posted"} /\ odd' \in {odd, odd \cup {"failed"}}
         /\ \/ l.gen # generation /\ loads' = loads \ {l} /\ view' = view
            \/ /\ l.gen = generation
               /\ \E m \in Loads : /\ loads' = (loads \ {l}) \cup {m} /\ Alike(m, l)
                                   /\ m.at = "fetch" /\ m.read = l.read
                                   /\ m.items = l.items /\ m.status = l.status
               /\ view' \in Views /\ view'.thread = view.thread /\ view'.shown = view.shown
               /\ view'.phase = "loading"
<1>1. l \in Loads
  BY DEF Typed
<1>2. /\ UNCHANGED <<turn, log, inputs, order, wire, generation, send, wanted>>
      /\ l.at \in {"post", "posted"} /\ odd' \in {odd, odd \cup {"failed"}}
  BY DEF Switch, server
<1>3. CASE l.gen # generation
  BY <1>2, <1>3 DEF Switch, IsStale
<1>4. CASE l.gen = generation
  <2> PICK m : m = [l EXCEPT !.at = "fetch"]
    OBVIOUS
  <2>1. /\ m \in Loads /\ Alike(m, l) /\ m.at = "fetch" /\ m.read = l.read
        /\ m.items = l.items /\ m.status = l.status
    BY <1>1 DEF Loads, Alike
  <2>2. loads' = (loads \ {l}) \cup {m}
    BY <1>4 DEF Switch, Swap, IsStale
  <2>3. view' = [view EXCEPT !.phase = "loading", !.thinking = FALSE]
    BY <1>4 DEF Switch, IsStale
  <2>4. /\ view' \in Views /\ view'.thread = view.thread /\ view'.shown = view.shown
        /\ view'.phase = "loading"
    <3>1. view \in Views /\ "loading" \in Phases
      BY DEF Typed, Phases
    <3>2. QED
      BY <2>3, <3>1 DEF Views
  <2>5. QED
    BY <1>2, <1>4, <2>1, <2>2, <2>4
<1>5. QED
  BY <1>3, <1>4

LEMMA ReadsDoes ==
  ASSUME Typed, NEW l \in loads, NEW what \in {"row", "items"}, Reads(l, what)
  PROVE  /\ UNCHANGED <<turn, log, inputs, order, wire, view, generation, send, wanted>>
         /\ odd' \in {odd, odd \cup {"busy"}} /\ l.at = "fetch"
         /\ turn[l.to] \in Busy \/ wire[l.to] # <<>> \/ inputs[l.to] > 0 => "busy" \in odd'
         /\ \E m \in Loads :
              /\ loads' = (loads \ {l}) \cup {m} /\ Alike(m, l) /\ m.at = "fetch"
              /\ m.read \subseteq l.read \cup {what}
              /\ m.items = (IF what = "items" THEN log[l.to] ELSE l.items)
              /\ m.status = (IF what = "row" THEN turn[l.to] ELSE l.status)
<1>1. l \in Loads /\ turn[l.to] \in Lasts /\ log[l.to] \in Nat
  <2>1. l \in Loads
    BY DEF Typed
  <2>2. l.to \in Threads
    BY <2>1 DEF Loads
  <2>3. turn[l.to] \in Statuses /\ log[l.to] \in 0..MaxItems
    BY <2>2 DEF Typed
  <2>4. QED
    BY <2>1, <2>3, Names DEF Lasts
<1>2. what = "row" \/ what = "items"
  OBVIOUS
<1> PICK m : m = IF what = "row"
                 THEN [l EXCEPT !.read = @ \cup {what}, !.status = turn[l.to]]
                 ELSE [l EXCEPT !.read = @ \cup {what}, !.items = log[l.to]]
  OBVIOUS
<1>3. l.read \cup {what} \in SUBSET {"row", "items"}
  BY <1>1 DEF Loads
<1>4. /\ m \in Loads /\ Alike(m, l) /\ m.at = l.at /\ m.read = l.read \cup {what}
      /\ m.items = (IF what = "items" THEN log[l.to] ELSE l.items)
      /\ m.status = (IF what = "row" THEN turn[l.to] ELSE l.status)
  <2>1. CASE what = "row"
    BY <1>1, <1>3, <2>1 DEF Loads, Alike
  <2>2. CASE what = "items"
    BY <1>1, <1>3, <2>2 DEF Loads, Alike
  <2>3. QED
    BY <1>2, <2>1, <2>2
<1>5. loads' = (loads \ {l}) \cup {m} /\ l.at = "fetch"
  BY DEF Reads, Swap
<1>6. QED
  BY <1>4, <1>5 DEF Reads, server

LEMMA LoadedDoes ==
  ASSUME Typed, NEW l \in loads, Loaded(l)
  PROVE  /\ UNCHANGED <<turn, log, inputs, order, wire, generation, send, wanted, odd>>
         /\ l.at = "fetch" /\ l.read = {"row", "items"} /\ loads' = loads \ {l}
         /\ \/ l.gen # generation /\ view' = view
            \/ /\ l.gen = generation
               /\ view' \in Views /\ view'.thread = l.to
               /\ view'.shown = [i \in 1..l.items |-> Message("cursor", l.to, i, TRUE)]
               /\ view'.phase = IF l.status \in Busy \cup {"new"} THEN "streaming" ELSE "idle"
<1>1. l \in Loads /\ l.to \in Threads /\ l.items \in Nat /\ l.status \in Lasts
  BY DEF Typed, Loads
<1>2. /\ UNCHANGED <<turn, log, inputs, order, wire, generation, send, wanted, odd>>
      /\ l.at = "fetch" /\ l.read = {"row", "items"} /\ loads' = loads \ {l}
  BY DEF Loaded, server
<1>3. CASE l.gen # generation
  BY <1>2, <1>3 DEF Loaded, IsStale
<1>4. CASE l.gen = generation
  <2> PICK s : s = [i \in 1..l.items |-> Message("cursor", l.to, i, TRUE)]
    OBVIOUS
  <2> PICK p : p = IF l.status \in Busy \cup {"new"} THEN "streaming" ELSE "idle"
    OBVIOUS
  <2>1. s \in Seq(Texts) /\ p \in Phases
    BY <1>1, SnapshotIs DEF Phases
  <2>2. view' = [thread |-> l.to, shown |-> s, phase |-> p, thinking |-> FALSE, last |-> l.status]
    BY <1>4 DEF Loaded, IsStale
  <2>3. view' \in Views /\ view'.thread = l.to /\ view'.shown = s /\ view'.phase = p
    BY <1>1, <2>1, <2>2 DEF Views
  <2>4. QED
    BY <1>2, <1>4, <2>3
<1>5. QED
  BY <1>3, <1>4

LEMMA LoadFailsDoes ==
  ASSUME Typed, NEW l \in loads, LoadFails(l)
  PROVE  /\ UNCHANGED <<turn, log, inputs, order, wire, generation, send, wanted>>
         /\ loads' = loads \ {l} /\ odd \subseteq odd' /\ odd' \subseteq odd \cup {"failed"}
         /\ \/ l.gen # generation /\ view' = view
            \/ /\ l.gen = generation /\ "failed" \in odd'
               /\ view' \in Views /\ view'.thread = None /\ view'.shown = <<>>
               /\ view'.phase = "error"
BY EmptyIs DEF LoadFails, server, IsStale

LEMMA SendMessageDoes ==
  ASSUME Typed, SendMessage
  PROVE  /\ UNCHANGED <<turn, log, inputs, order, wire, generation, loads>>
         /\ view.phase \notin {"loading", "streaming"} /\ send.at = "idle"
         /\ send' = [at |-> "post", to |-> send'.to]
         /\ view' \in Views /\ view'.thread = view.thread /\ view'.shown = view.shown
         /\ view'.phase = "streaming"
         /\ odd \subseteq odd' /\ odd' \subseteq odd \cup {"crossed", "continued"}
         /\ loads # {} => "crossed" \in odd'
         /\ \/ /\ send'.to = None /\ turn[Fresh] = "none" /\ wanted' = Fresh
               /\ view.thread # None => "continued" \in odd'
            \/ send'.to = view.thread /\ send'.to # None /\ wanted' = wanted
<1>1. view' = [view EXCEPT !.phase = "streaming", !.thinking = FALSE]
  BY DEF SendMessage
<1>2. /\ view' \in Views /\ view'.thread = view.thread /\ view'.shown = view.shown
      /\ view'.phase = "streaming"
  <2>1. view \in Views /\ "streaming" \in Phases
    BY DEF Typed, Phases
  <2>2. QED
    BY <1>1, <2>1 DEF Views
<1> PICK to : to = IF view.last = "cancelled" THEN None ELSE view.thread
  OBVIOUS
<1>3. /\ send' = [at |-> "post", to |-> to]
      /\ to = None => turn[Fresh] = "none"
      /\ wanted' = IF to = None THEN Fresh ELSE wanted
  BY DEF SendMessage
<1>4. /\ odd \subseteq odd' /\ odd' \subseteq odd \cup {"crossed", "continued"}
      /\ loads # {} => "crossed" \in odd'
      /\ to = None /\ view.thread # None => "continued" \in odd'
  BY DEF SendMessage
<1>5. /\ UNCHANGED <<turn, log, inputs, order, wire, generation, loads>>
      /\ view.phase \notin {"loading", "streaming"} /\ send.at = "idle"
  BY DEF SendMessage, server
<1>6. send'.to = to /\ send' = [at |-> "post", to |-> send'.to]
  BY <1>3
<1>7. to = None \/ (to = view.thread /\ to # None)
  OBVIOUS
<1>8. CASE to = None
  BY <1>2, <1>3, <1>4, <1>5, <1>6, <1>8
<1>9. CASE to = view.thread /\ to # None
  BY <1>2, <1>3, <1>4, <1>5, <1>6, <1>9
<1>10. QED
  BY <1>7, <1>8, <1>9

LEMMA AcceptDoes ==
  ASSUME Typed, Accept
  PROVE  /\ UNCHANGED <<log, order, wire, view, generation, loads, wanted, odd>>
         /\ send.at = "post"
         /\ \E t \in Threads :
              /\ t = IF send.to = None THEN Fresh ELSE send.to
              /\ turn[t] # "cancelled" /\ send' = [at |-> "posted", to |-> t]
              /\ inputs' \in [Threads -> Nat] /\ inputs'[t] = inputs[t] + 1
              /\ \A u \in Threads : u # t => inputs'[u] = inputs[u] /\ turn'[u] = turn[u]
              /\ turn' \in [Threads -> Statuses]
              /\ turn'[t] = IF send.to = None THEN "new" ELSE turn[t]
<1> PICK t : t = IF send.to = None THEN Fresh ELSE send.to
  OBVIOUS
<1>1. t \in Threads
  BY Names DEF Typed
<1>2. /\ inputs' = [inputs EXCEPT ![t] = @ + 1] /\ send' = [at |-> "posted", to |-> t]
      /\ turn' = IF send.to = None THEN [turn EXCEPT ![t] = "new"] ELSE turn
      /\ turn[t] # "cancelled" /\ send.at = "post"
      /\ UNCHANGED <<log, order, wire, view, generation, loads, wanted, odd>>
  BY DEF Accept
<1>3. /\ turn' \in [Threads -> Statuses]
      /\ \A u \in Threads : u # t => turn'[u] = turn[u]
      /\ turn'[t] = IF send.to = None THEN "new" ELSE turn[t]
  BY <1>1, <1>2 DEF Typed, Statuses
<1>4. /\ inputs' \in [Threads -> Nat] /\ inputs'[t] = inputs[t] + 1
      /\ \A u \in Threads : u # t => inputs'[u] = inputs[u]
  BY <1>1, <1>2 DEF Typed
<1>5. QED
  BY <1>1, <1>2, <1>3, <1>4

LEMMA SentDoes ==
  ASSUME Typed, Sent
  PROVE  /\ UNCHANGED <<turn, log, inputs, order, wire, generation, loads, wanted, odd>>
         /\ send.at = "posted" /\ send' = NoSend
         /\ view' \in Views /\ view'.shown = view.shown /\ view'.phase = view.phase
         /\ view'.thread = IF send.to = Fresh THEN Fresh ELSE view.thread
<1>1. /\ UNCHANGED <<turn, log, inputs, order, wire, generation, loads, wanted, odd>>
      /\ send.at = "posted" /\ send' = NoSend
      /\ view' = IF send.to = Fresh THEN [view EXCEPT !.thread = Fresh] ELSE view
  BY DEF Sent, server
<1>2. view \in Views
  BY DEF Typed
<1>3. /\ view' \in Views /\ view'.shown = view.shown /\ view'.phase = view.phase
      /\ view'.thread = IF send.to = Fresh THEN Fresh ELSE view.thread
  BY <1>1, <1>2, Names DEF Views
<1>4. QED
  BY <1>1, <1>3

LEMMA SendFailsDoes ==
  ASSUME Typed, SendFails
  PROVE  /\ UNCHANGED <<turn, log, inputs, order, wire, generation, loads, wanted>>
         /\ send.at = "post" /\ send' = NoSend /\ odd' = odd \cup {"failed"}
         /\ view' \in Views /\ view'.shown = view.shown /\ view'.phase = "idle"
         /\ view'.thread = view.thread
<1>1. /\ UNCHANGED <<turn, log, inputs, order, wire, generation, loads, wanted>>
      /\ send.at = "post" /\ send' = NoSend /\ odd' = odd \cup {"failed"}
      /\ view' = [view EXCEPT !.phase = "idle"]
  BY DEF SendFails, server
<1>2. view \in Views /\ "idle" \in Phases
  BY DEF Typed, Phases
<1>3. /\ view' \in Views /\ view'.shown = view.shown /\ view'.phase = "idle"
      /\ view'.thread = view.thread
  BY <1>1, <1>2 DEF Views
<1>4. QED
  BY <1>1, <1>3

LEMMA ResetDoes ==
  ASSUME ResetConversation
  PROVE  /\ UNCHANGED <<turn, log, inputs, order, wire, generation, loads, send>>
         /\ view' = Empty /\ wanted' = None
         /\ odd \subseteq odd' /\ odd' \subseteq odd \cup {"crossed"}
         /\ loads # {} \/ send.at # "idle" => "crossed" \in odd'
BY DEF ResetConversation, server

LEMMA ReceiveDoes ==
  ASSUME Typed, NEW t \in Threads, Receive(t)
  PROVE  /\ UNCHANGED <<turn, log, inputs, order, generation, loads, send, wanted>>
         /\ wire[t] # <<>> /\ wire[t] \in Seq(Frames) /\ Head(wire[t]) \in Frames
         /\ wire' \in [Threads -> Seq(Frames)] /\ wire'[t] = Tail(wire[t])
         /\ \A u \in Threads : u # t => wire'[u] = wire[u]
         /\ odd \subseteq odd' /\ odd' \subseteq odd \cup {"early"}
         /\ t = Fresh /\ send.at = "posted" /\ view.thread # t => "early" \in odd'
         /\ view.thread # t => view' = view
         /\ view' \in Views /\ view'.thread = view.thread
         /\ view.thread = t =>
              /\ view'.phase = IF Head(wire[t]).kind = "completed" THEN "idle" ELSE view.phase
              /\ view'.shown =
                   IF Head(wire[t]).kind = "delta"
                   THEN AddPart(view.shown, Message("item", t, Head(wire[t]).n, FALSE))
                   ELSE IF Head(wire[t]).kind = "done"
                   THEN Upsert(view.shown, Message("item", t, Head(wire[t]).n, TRUE))
                   ELSE view.shown
<1> PICK f : f = Head(wire[t])
  OBVIOUS
<1>1. wire[t] # <<>> /\ wire' = [wire EXCEPT ![t] = Tail(@)] /\ wire[t] \in Seq(Frames)
      /\ UNCHANGED <<turn, log, inputs, order, generation, loads, send, wanted>>
  BY DEF Receive, Typed
<1>2. f \in Frames /\ Tail(wire[t]) \in Seq(Frames)
  BY <1>1, Taken
<1>3. /\ wire' \in [Threads -> Seq(Frames)] /\ wire'[t] = Tail(wire[t])
      /\ \A u \in Threads : u # t => wire'[u] = wire[u]
  BY <1>1, <1>2 DEF Typed
<1>4. CASE view.thread # t
  <2>1. /\ view' = view
        /\ odd' = IF t = Fresh /\ send.at = "posted" THEN odd \cup {"early"} ELSE odd
    BY <1>4 DEF Receive, ForView
  <2>2. view' \in Views
    BY <2>1 DEF Typed
  <2>3. QED
    BY <1>1, <1>2, <1>3, <1>4, <2>1, <2>2
<1>5. CASE view.thread = t
  <2>1. /\ odd' = odd
        /\ view' = CASE f.kind = "thinking" -> [view EXCEPT !.thinking = TRUE]
                     [] f.kind = "delta" ->
                          [view EXCEPT !.thinking = FALSE,
                             !.shown = AddPart(@, Message("item", t, f.n, FALSE))]
                     [] f.kind = "done" ->
                          [view EXCEPT !.thinking = FALSE,
                             !.shown = Upsert(@, Message("item", t, f.n, TRUE))]
                     [] OTHER -> [view EXCEPT !.phase = "idle", !.thinking = FALSE,
                                              !.last = "completed"]
    BY <1>5 DEF Receive, ForView
  <2>0. view \in Views /\ "idle" \in Phases /\ "completed" \in Lasts
    BY DEF Typed, Phases, Lasts
  <2>2. f.n \in Nat /\ f.kind \in {"thinking", "delta", "done", "completed"}
    BY <1>2 DEF Frames
  <2>3. /\ AddPart(view.shown, Message("item", t, f.n, FALSE)) \in Seq(Texts)
        /\ Upsert(view.shown, Message("item", t, f.n, TRUE)) \in Seq(Texts)
    <3>1. /\ Message("item", t, f.n, FALSE) \in Texts /\ Message("item", t, f.n, TRUE) \in Texts
          /\ view.shown \in Seq(Texts)
      BY <2>2, MessageIs DEF Typed, Views
    <3>2. QED
      BY <3>1, UpsertIs
  <2>4. CASE f.kind = "thinking"
    <3>1. view' = [view EXCEPT !.thinking = TRUE]
      BY <2>1, <2>4
    <3>2. QED
      <4>1. /\ view' \in Views /\ view'.phase = view.phase /\ view'.thread = t
            /\ view'.shown = view.shown
        BY <1>5, <3>1, <2>0 DEF Views
      <4>2. QED
        BY <1>1, <1>2, <1>3, <1>5, <2>1, <2>4, <4>1
  <2>5. CASE f.kind = "delta"
    <3> PICK s : s = AddPart(view.shown, Message("item", t, f.n, FALSE))
      OBVIOUS
    <3>1. view' = [view EXCEPT !.thinking = FALSE, !.shown = s]
      BY <2>1, <2>5
    <3>2. view' \in Views /\ view'.phase = view.phase /\ view'.thread = t /\ view'.shown = s
      BY <1>5, <2>3, <3>1, <2>0 DEF Views
    <3>3. QED
      BY <1>1, <1>2, <1>3, <1>5, <2>1, <2>5, <3>2
  <2>6. CASE f.kind = "done"
    <3> PICK s : s = Upsert(view.shown, Message("item", t, f.n, TRUE))
      OBVIOUS
    <3>1. view' = [view EXCEPT !.thinking = FALSE, !.shown = s]
      BY <2>1, <2>6
    <3>2. view' \in Views /\ view'.phase = view.phase /\ view'.thread = t /\ view'.shown = s
      BY <1>5, <2>3, <3>1, <2>0 DEF Views
    <3>3. QED
      BY <1>1, <1>2, <1>3, <1>5, <2>1, <2>6, <3>2
  <2>7. CASE f.kind = "completed"
    <3>1. view' = [view EXCEPT !.phase = "idle", !.thinking = FALSE, !.last = "completed"]
      BY <2>1, <2>7
    <3>2. view' \in Views /\ view'.phase = "idle" /\ view'.thread = t /\ view'.shown = view.shown
      BY <1>5, <3>1, <2>0 DEF Views
    <3>3. QED
      BY <1>1, <1>2, <1>3, <1>5, <2>1, <2>7, <3>2
  <2>8. QED
    BY <2>2, <2>4, <2>5, <2>6, <2>7
<1>6. QED
  BY <1>4, <1>5

LEMMA LoseDoes ==
  ASSUME Typed, NEW t \in Threads, LoseFrame(t)
  PROVE  /\ UNCHANGED <<view, generation, loads, send, wanted, turn, log, inputs, order>>
         /\ wire' \in [Threads -> Seq(Frames)]
         /\ \A u \in Threads : wire[u] = <<>> => wire'[u] = <<>>
         /\ odd' = odd \cup {"lost"}
<1>1. wire[t] # <<>> /\ wire' = [wire EXCEPT ![t] = Tail(@)] /\ wire[t] \in Seq(Frames)
      /\ odd' = odd \cup {"lost"}
      /\ UNCHANGED <<view, generation, loads, send, wanted, turn, log, inputs, order>>
  BY DEF LoseFrame, Typed, browser
<1>2. Tail(wire[t]) \in Seq(Frames)
  BY <1>1, Taken
<1>3. QED
  BY <1>1, <1>2 DEF Typed
-----------------------------------------------------------------------------
(* What each step of a worker does to its thread. *)
WorkerStep(t) == Work(t) \/ Streams(t, "thinking") \/ Streams(t, "delta")

Does(t) ==
  \/ /\ inputs[t] > 0 /\ turn[t] \in {"new", "ready", "cancelled", "waiting_children"}
     /\ turn'[t] = "running" /\ inputs'[t] = inputs[t] - 1
     /\ UNCHANGED <<log, wire, order, odd>>
  \/ /\ turn[t] = "running" /\ log[t] < MaxItems /\ wire[t] = <<>>
     /\ UNCHANGED <<log, inputs, order, odd>>
     /\ \/ turn'[t] = "running" /\ wire'[t] = Append(wire[t], [kind |-> "thinking", n |-> log[t] + 1])
        \/ turn'[t] = "writing" /\ wire'[t] = Append(wire[t], [kind |-> "delta", n |-> log[t] + 1])
  \/ /\ turn[t] \in {"running", "writing"} /\ log[t] < MaxItems
     /\ turn'[t] = "saving" /\ wire'[t] = Append(wire[t], [kind |-> "done", n |-> log[t] + 1])
     /\ UNCHANGED <<log, inputs, order, odd>>
  \/ /\ turn[t] = "saving" /\ turn'[t] = "said" /\ log'[t] = log[t] + 1
     /\ UNCHANGED <<inputs, order, wire, odd>>
  \/ /\ turn[t] \in {"running", "said"}
     /\ wire'[t] = Append(wire[t], [kind |-> "completed", n |-> 0])
     /\ UNCHANGED <<log, inputs, order>>
     /\ \/ turn'[t] = "ready" /\ odd' = odd
        \/ turn'[t] = "waiting_children" /\ odd' = odd \cup {"tools"}
  \/ /\ turn[t] = "waiting_children" /\ turn'[t] = "running"
     /\ UNCHANGED <<log, inputs, order, wire, odd>>
  \/ /\ turn[t] \notin Streaming /\ order[t].kind # "none" /\ order'[t] = NoOrder
     /\ turn'[t] = (IF order[t].kind = "cancel" THEN "cancelled" ELSE turn[t])
     /\ UNCHANGED <<log, inputs, wire, odd>>

LEMMA WorkerDoes ==
  ASSUME Typed, NEW t \in Threads, WorkerStep(t)
  PROVE  /\ Does(t) /\ Typed'
         /\ UNCHANGED <<view, generation, loads, send, wanted>>
         /\ \A u \in Threads : u # t =>
              /\ turn'[u] = turn[u] /\ log'[u] = log[u] /\ inputs'[u] = inputs[u]
              /\ wire'[u] = wire[u] /\ order'[u] = order[u]
<1> DEFINE Others ==
      /\ UNCHANGED <<view, generation, loads, send, wanted>>
      /\ \A u \in Threads : u # t =>
           /\ turn'[u] = turn[u] /\ log'[u] = log[u] /\ inputs'[u] = inputs[u]
           /\ wire'[u] = wire[u] /\ order'[u] = order[u]
<1>1. CASE BeginTurn(t)
  <2>1. Does(t) /\ Others
    BY <1>1 DEF BeginTurn, Goes, browser, Does, Typed
  <2>2. Typed'
    BY <1>1 DEF BeginTurn, Goes, browser, Typed, Statuses, Busy, Streaming
  <2>3. QED
    BY <2>1, <2>2
<1>2. ASSUME NEW f \in Frames, wire' = [wire EXCEPT ![t] = Append(@, f)],
             turn'[t] = "saving" => log[t] < MaxItems,
             turn' = [turn EXCEPT ![t] = turn'[t]], turn'[t] \in Statuses,
             odd \subseteq odd', odd' \subseteq odd \cup {"tools"},
             UNCHANGED <<browser, log, inputs, order>>
      PROVE  Others /\ Typed' /\ wire'[t] = Append(wire[t], f)
  <2>1. /\ wire' \in [Threads -> Seq(Frames)] /\ wire'[t] = Append(wire[t], f)
        /\ \A u \in Threads : u # t => wire'[u] = wire[u]
    BY <1>2, Appended DEF Typed
  <2>2. turn' \in [Threads -> Statuses] /\ \A u \in Threads : u # t => turn'[u] = turn[u]
    BY <1>2 DEF Typed
  <2>3. odd' \subseteq Voids
    BY <1>2 DEF Typed, Voids
  <2>4. Others
    BY <1>2, <2>1, <2>2 DEF browser
  <2>5. \A u \in Threads : turn'[u] = "saving" => log'[u] < MaxItems
    BY <1>2, <2>2 DEF Typed
  <2>6. Typed'
    BY <1>2, <2>1, <2>2, <2>3, <2>5 DEF browser, Typed
  <2>7. QED
    BY <2>1, <2>4, <2>6
<1>3. /\ [kind |-> "thinking", n |-> log[t] + 1] \in Frames
      /\ [kind |-> "delta", n |-> log[t] + 1] \in Frames
      /\ [kind |-> "done", n |-> log[t] + 1] \in Frames
      /\ [kind |-> "completed", n |-> 0] \in Frames
  <2>1. log[t] + 1 \in Nat
    BY Names DEF Typed
  <2>2. QED
    BY <2>1 DEF Frames
<1>4. CASE Streams(t, "thinking")
  <2>1. /\ turn[t] = "running" /\ log[t] < MaxItems /\ wire[t] = <<>> /\ odd' = odd
        /\ wire' = [wire EXCEPT ![t] = Append(@, [kind |-> "thinking", n |-> log[t] + 1])]
        /\ turn' = [turn EXCEPT ![t] = "running"] /\ UNCHANGED <<browser, log, inputs, order>>
    BY <1>4 DEF Streams, Frame, Goes
  <2>2. turn'[t] = "running" /\ turn'[t] \in Statuses
    BY <2>1 DEF Typed, Statuses, Busy, Streaming
  <2>3. Others /\ Typed' /\ wire'[t] = Append(wire[t], [kind |-> "thinking", n |-> log[t] + 1])
    BY <1>2, <1>3, <2>1, <2>2
  <2>4. QED
    BY <2>1, <2>2, <2>3 DEF Does
<1>5. CASE Streams(t, "delta")
  <2>1. /\ turn[t] = "running" /\ log[t] < MaxItems /\ wire[t] = <<>> /\ odd' = odd
        /\ wire' = [wire EXCEPT ![t] = Append(@, [kind |-> "delta", n |-> log[t] + 1])]
        /\ turn' = [turn EXCEPT ![t] = "writing"] /\ UNCHANGED <<browser, log, inputs, order>>
    BY <1>5 DEF Streams, Frame, Goes
  <2>2. turn'[t] = "writing" /\ turn'[t] \in Statuses
    BY <2>1 DEF Typed, Statuses, Busy, Streaming
  <2>3. Others /\ Typed' /\ wire'[t] = Append(wire[t], [kind |-> "delta", n |-> log[t] + 1])
    BY <1>2, <1>3, <2>1, <2>2
  <2>4. QED
    BY <2>1, <2>2, <2>3 DEF Does
<1>6. CASE Says(t)
  <2>1. /\ turn[t] \in {"running", "writing"} /\ log[t] < MaxItems /\ odd' = odd
        /\ wire' = [wire EXCEPT ![t] = Append(@, [kind |-> "done", n |-> log[t] + 1])]
        /\ turn' = [turn EXCEPT ![t] = "saving"] /\ UNCHANGED <<browser, log, inputs, order>>
    BY <1>6 DEF Says, Frame, Goes
  <2>2. turn'[t] = "saving" /\ turn'[t] \in Statuses
    BY <2>1 DEF Typed, Statuses, Busy, Streaming
  <2>3. Others /\ Typed' /\ wire'[t] = Append(wire[t], [kind |-> "done", n |-> log[t] + 1])
    BY <1>2, <1>3, <2>1, <2>2
  <2>4. QED
    BY <2>1, <2>2, <2>3 DEF Does
<1>7. CASE Stores(t)
  <2>1. Does(t) /\ Others
    BY <1>7 DEF Stores, Goes, browser, Does, Typed
  <2>2. Typed'
    BY <1>7, Names DEF Stores, Goes, browser, Typed, Statuses, Busy, Streaming
  <2>3. QED
    BY <2>1, <2>2
<1>8. CASE Completes(t)
  <2>1. /\ turn[t] \in {"running", "said"}
        /\ wire' = [wire EXCEPT ![t] = Append(@, [kind |-> "completed", n |-> 0])]
        /\ UNCHANGED <<browser, log, inputs, order>>
        /\ \/ turn' = [turn EXCEPT ![t] = "ready"] /\ odd' = odd
           \/ turn' = [turn EXCEPT ![t] = "waiting_children"] /\ odd' = odd \cup {"tools"}
    BY <1>8 DEF Completes, Frame, Goes
  <2>2. /\ turn' = [turn EXCEPT ![t] = turn'[t]] /\ turn'[t] \in Statuses /\ turn'[t] # "saving"
        /\ \/ turn'[t] = "ready" /\ odd' = odd
           \/ turn'[t] = "waiting_children" /\ odd' = odd \cup {"tools"}
    BY <2>1 DEF Typed, Statuses, Busy, Streaming
  <2>3. Others /\ Typed' /\ wire'[t] = Append(wire[t], [kind |-> "completed", n |-> 0])
    BY <1>2, <1>3, <2>1, <2>2
  <2>4. QED
    BY <2>1, <2>2, <2>3 DEF Does
<1>9. CASE GoesOn(t)
  <2>1. Does(t) /\ Others
    BY <1>9 DEF GoesOn, Goes, browser, Does, Typed
  <2>2. Typed'
    BY <1>9 DEF GoesOn, Goes, browser, Typed, Statuses, Busy, Streaming
  <2>3. QED
    BY <2>1, <2>2
<1>10. CASE Obeys(t)
  <2>1. Does(t) /\ Others
    BY <1>10 DEF Obeys, Goes, browser, Does, Typed
  <2>2. NoOrder \in Orders /\ "cancelled" \in Statuses
    BY DEF NoOrder, Orders, Statuses
  <2>3. Typed'
    BY <1>10, <2>2 DEF Obeys, Goes, browser, Typed
  <2>4. QED
    BY <2>1, <2>3
<1>11. QED
  BY <1>1, <1>4, <1>5, <1>6, <1>7, <1>8, <1>9, <1>10 DEF WorkerStep, Work
-----------------------------------------------------------------------------
(* Every variable keeps its type. *)
LEMMA TypedInit == ClientInit => Typed
<1> SUFFICES ASSUME ClientInit PROVE Typed
  OBVIOUS
<1>1. view \in Views /\ wanted \in Threads \cup {None}
  BY EmptyIs, OpenedIs, Names DEF ClientInit, Views
<1>2. NoOrder \in Orders
  BY DEF NoOrder, Orders
<1>3. /\ turn \in [Threads -> Statuses] /\ log \in [Threads -> 0..MaxItems]
      /\ \A t \in Threads : turn[t] # "saving"
  BY Names DEF ClientInit, Statuses, Busy, Streaming
<1>4. /\ inputs \in [Threads -> Nat] /\ wire \in [Threads -> Seq(Frames)]
      /\ order \in [Threads -> Orders]
  BY <1>2 DEF ClientInit
<1>5. QED
  BY <1>1, <1>3, <1>4 DEF ClientInit, Typed, NoSend

LEMMA SwapTyped ==
  ASSUME Typed, NEW l \in loads, NEW m \in Loads, Alike(m, l),
         loads' = (loads \ {l}) \cup {m}
  PROVE  loads' \subseteq Loads /\ \A k \in loads' : k.gen \in 1..generation
BY DEF Typed, Alike

LEMMA TypedNext ==
  ASSUME Typed, [ClientNext]_clientVars
  PROVE  Typed' /\ odd \subseteq odd'
<1>1. CASE UNCHANGED clientVars
  BY <1>1 DEF clientVars, Typed
<1>2. CASE SendMessage
  <2>1. /\ odd' \subseteq Voids /\ odd \subseteq odd' /\ wanted' \in Threads \cup {None}
        /\ send' \in [at : {"idle", "post", "posted"}, to : Threads \cup {None}]
        /\ send'.at = "post" /\ view' \in Views
    <3>1. send'.to \in Threads \cup {None} /\ send' = [at |-> "post", to |-> send'.to]
      BY <1>2, SendMessageDoes DEF Typed, Views
    <3>2. send' \in [at : {"idle", "post", "posted"}, to : Threads \cup {None}] /\ send'.at = "post"
      BY <3>1
    <3>3. QED
      BY <1>2, <3>2, SendMessageDoes, Names DEF Typed, Voids
  <2>2. QED
    BY <1>2, <2>1, SendMessageDoes DEF Typed
<1>3. CASE ResetConversation
  BY <1>3, ResetDoes, EmptyIs DEF Typed, Voids
<1>4. ASSUME NEW t \in Threads, LoadThread(t) PROVE Typed' /\ odd \subseteq odd'
  <2>1. odd' \subseteq Voids /\ view' \in Views
    BY <1>4, LoadThreadDoes DEF Typed, Voids
  <2>2. generation' \in Nat /\ wanted' \in Threads \cup {None}
    BY <1>4, LoadThreadDoes DEF Typed
  <2>3. loads' \subseteq Loads /\ \A l \in loads' : l.gen \in 1..generation'
    <3>1. CASE UNCHANGED <<generation, loads>>
      BY <3>1 DEF Typed
    <3>2. ASSUME NEW l \in Loads, loads' = loads \cup {l}, l.gen = generation + 1,
                 generation' = generation + 1
          PROVE  loads' \subseteq Loads /\ \A m \in loads' : m.gen \in 1..generation'
      BY <3>2 DEF Typed
    <3>3. QED
      BY <1>4, <3>1, <3>2, LoadThreadDoes
  <2>4. QED
    BY <1>4, <2>1, <2>2, <2>3, LoadThreadDoes DEF Typed
<1>5. CASE Accept
  <2>1. /\ turn' \in [Threads -> Statuses] /\ inputs' \in [Threads -> Nat]
        /\ send' \in [at : {"idle", "post", "posted"}, to : Threads \cup {None}]
        /\ send'.at = "posted" /\ send'.to # None
        /\ \A t \in Threads : turn'[t] = "saving" => turn[t] = "saving"
    BY <1>5, AcceptDoes, Names
  <2>2. QED
    BY <1>5, <2>1, AcceptDoes DEF Typed
<1>6. CASE Sent
  BY <1>6, SentDoes DEF Typed, NoSend
<1>7. CASE SendFails
  <2>1. odd' \subseteq Voids /\ odd \subseteq odd'
    BY <1>7, SendFailsDoes DEF Typed, Voids
  <2>2. QED
    BY <1>7, <2>1, SendFailsDoes DEF Typed, NoSend
<1>8. ASSUME NEW l \in loads, Disconnect(l) PROVE Typed' /\ odd \subseteq odd'
  <2>1. loads' \subseteq Loads /\ \A m \in loads' : m.gen \in 1..generation
    BY <1>8, DisconnectDoes, SwapTyped
  <2>2. QED
    BY <1>8, <2>1, DisconnectDoes DEF Typed
<1>9. ASSUME NEW l \in loads, Switch(l) PROVE Typed' /\ odd \subseteq odd'
  <2>1. loads' \subseteq Loads /\ \A m \in loads' : m.gen \in 1..generation
    <3>1. CASE loads' = loads \ {l}
      BY <3>1 DEF Typed
    <3>2. CASE \E m \in Loads : loads' = (loads \ {l}) \cup {m} /\ Alike(m, l)
      BY <3>2, SwapTyped
    <3>3. QED
      BY <1>9, <3>1, <3>2, SwitchDoes
  <2>2. view' \in Views /\ odd' \subseteq Voids /\ odd \subseteq odd'
    BY <1>9, SwitchDoes DEF Typed, Voids
  <2>3. QED
    BY <1>9, <2>1, <2>2, SwitchDoes DEF Typed
<1>10. ASSUME NEW l \in loads, Loaded(l) PROVE Typed' /\ odd \subseteq odd'
  <2>1. view' \in Views /\ loads' \subseteq loads
    BY <1>10, LoadedDoes DEF Typed
  <2>2. QED
    BY <1>10, <2>1, LoadedDoes DEF Typed
<1>11. ASSUME NEW l \in loads, LoadFails(l) PROVE Typed' /\ odd \subseteq odd'
  <2>1. view' \in Views /\ loads' \subseteq loads
    BY <1>11, LoadFailsDoes DEF Typed
  <2>2. odd' \subseteq Voids /\ odd \subseteq odd'
    BY <1>11, LoadFailsDoes DEF Typed, Voids
  <2>3. QED
    BY <1>11, <2>1, <2>2, LoadFailsDoes DEF Typed
<1>12. ASSUME NEW l \in loads, NEW what \in {"row", "items"}, Reads(l, what)
       PROVE  Typed' /\ odd \subseteq odd'
  <2>1. loads' \subseteq Loads /\ \A m \in loads' : m.gen \in 1..generation
    BY <1>12, ReadsDoes, SwapTyped
  <2>2. odd' \subseteq Voids /\ odd \subseteq odd'
    BY <1>12, ReadsDoes DEF Typed, Voids
  <2>3. QED
    BY <1>12, <2>1, <2>2, ReadsDoes DEF Typed
<1>13. ASSUME NEW t \in Threads, Receive(t) PROVE Typed' /\ odd \subseteq odd'
  BY <1>13, ReceiveDoes DEF Typed, Voids
<1>14. ASSUME NEW t \in Threads, LoseFrame(t) PROVE Typed' /\ odd \subseteq odd'
  BY <1>14, LoseDoes DEF Typed, Voids
<1>15. ASSUME NEW t \in Threads, WorkerStep(t) PROVE Typed' /\ odd \subseteq odd'
  BY <1>15, WorkerDoes DEF Does
<1>16. QED
  BY <1>1, <1>2, <1>3, <1>4, <1>5, <1>6, <1>7, <1>8, <1>9, <1>10, <1>11, <1>12, <1>13,
     <1>14, <1>15 DEF ClientNext, User, Answer, Fault, WorkerStep

LEMMA AlwaysTyped == ClientSpec => []Typed
<1>1. Typed /\ [ClientNext]_clientVars => Typed'
  BY TypedNext
<1>2. QED
  BY TypedInit, <1>1, PTL DEF ClientSpec

(* Every variable of the browser's model keeps its type, and a load in progress has a number that    *)
(* loadGeneration has handed out.                                                                    *)
THEOREM ClientTypeCorrect == ClientSpec => []ClientTypeOK
<1>1. Typed => ClientTypeOK
  BY DEF Typed, ClientTypeOK, Statuses, Orders, Views, Phases, Loads
<1>2. QED
  BY AlwaysTyped, <1>1, PTL
-----------------------------------------------------------------------------
(* What is under way in the browser: loads have numbers of their own, only the latest is not stale,  *)
(* and unless something crossed no message is sent beside a load.                                    *)
Underway ==
  /\ \A l, m \in loads : l.gen = m.gen => l = m
  /\ "crossed" \notin odd =>
       /\ loads = {} \/ send.at = "idle"
       /\ \A l \in loads : l.gen = generation => l.prev = view.thread /\ l.to = wanted

(* Who is not there yet has nothing, and nobody is about it. *)
Births ==
  /\ \A t \in Threads : /\ turn[t] = "none" =>
                             /\ inputs[t] = 0 /\ wire[t] = <<>> /\ log[t] = 0
                             /\ order[t].kind = "none"
                        /\ turn[t] = "new" => inputs[t] > 0
  /\ view.thread # None => turn[view.thread] # "none"
  /\ \A l \in loads : turn[l.to] # "none"
  /\ send.to # None => turn[send.to] # "none"
  /\ send.at = "post" /\ send.to = None => turn[Fresh] = "none"

LEMMA SwapUnderway ==
  ASSUME Typed, Underway, NEW l \in loads, NEW m, Alike(m, l),
         loads' = (loads \ {l}) \cup {m},
         generation' = generation, view'.thread = view.thread, wanted' = wanted, send' = send,
         odd \subseteq odd'
  PROVE  Underway'
BY DEF Underway, Alike

LEMMA DropUnderway ==
  ASSUME Typed, Underway, NEW l \in loads, loads' = loads \ {l},
         generation' = generation, wanted' = wanted, send' = send, odd \subseteq odd',
         l.gen = generation \/ view' = view
  PROVE  Underway'
BY DEF Underway

LEMMA UnderwayNext ==
  ASSUME Typed, Underway, [ClientNext]_clientVars
  PROVE  Underway'
<1> odd \subseteq odd'
  BY TypedNext
<1>1. CASE UNCHANGED <<loads, generation, send, wanted, view>>
  BY <1>1 DEF Underway
<1>2. CASE SendMessage
  BY <1>2, SendMessageDoes DEF Underway
<1>3. CASE ResetConversation
  BY <1>3, ResetDoes DEF Underway
<1>4. ASSUME NEW t \in Threads, LoadThread(t) PROVE Underway'
  <2>1. CASE UNCHANGED <<generation, loads, view, wanted, odd, send>>
    BY <2>1 DEF Underway
  <2>2. CASE "crossed" \in odd' /\ UNCHANGED <<generation, loads, view>>
    BY <2>2 DEF Underway
  <2>3. ASSUME NEW l \in Loads, loads' = loads \cup {l}, l.gen = generation + 1, l.to = t,
               l.prev = view.thread, generation' = generation + 1, wanted' = t,
               "crossed" \notin odd' => send.at = "idle",
               view'.thread = view.thread, send' = send
        PROVE  Underway'
    <3>1. \A m \in loads : m.gen # generation + 1
      BY DEF Typed
    <3>2. QED
      BY <2>3, <3>1 DEF Underway
  <2>4. QED
    BY <1>4, <2>1, <2>2, <2>3, LoadThreadDoes
<1>5. CASE Accept
  BY <1>5, AcceptDoes DEF Underway
<1>6. CASE Sent
  BY <1>6, SentDoes DEF Underway, NoSend
<1>7. CASE SendFails
  BY <1>7, SendFailsDoes DEF Underway, NoSend
<1>8. ASSUME NEW l \in loads, Disconnect(l) PROVE Underway'
  BY <1>8, DisconnectDoes, SwapUnderway
<1>9. ASSUME NEW l \in loads, Switch(l) PROVE Underway'
  <2>1. CASE loads' = loads \ {l} /\ view' = view
    BY <1>9, <2>1, SwitchDoes, DropUnderway
  <2>2. CASE /\ \E m \in Loads : loads' = (loads \ {l}) \cup {m} /\ Alike(m, l)
             /\ view'.thread = view.thread
    BY <1>9, <2>2, SwitchDoes, SwapUnderway
  <2>3. QED
    BY <1>9, <2>1, <2>2, SwitchDoes
<1>10. ASSUME NEW l \in loads, Loaded(l) PROVE Underway'
  BY <1>10, LoadedDoes, DropUnderway
<1>11. ASSUME NEW l \in loads, LoadFails(l) PROVE Underway'
  BY <1>11, LoadFailsDoes, DropUnderway
<1>12. ASSUME NEW l \in loads, NEW what \in {"row", "items"}, Reads(l, what) PROVE Underway'
  BY <1>12, ReadsDoes, SwapUnderway
<1>13. ASSUME NEW t \in Threads, Receive(t) PROVE Underway'
  BY <1>13, ReceiveDoes DEF Underway
<1>14. ASSUME NEW t \in Threads, LoseFrame(t) PROVE Underway'
  BY <1>1, <1>14, LoseDoes
<1>15. ASSUME NEW t \in Threads, WorkerStep(t) PROVE Underway'
  BY <1>1, <1>15, WorkerDoes
<1>16. QED
  BY <1>1, <1>2, <1>3, <1>4, <1>5, <1>6, <1>7, <1>8, <1>9, <1>10, <1>11, <1>12, <1>13,
     <1>14, <1>15 DEF ClientNext, User, Answer, Fault, WorkerStep, clientVars

LEMMA BirthsNext ==
  ASSUME Typed, Births, [ClientNext]_clientVars
  PROVE  Births'
<1>1. CASE UNCHANGED clientVars
  BY <1>1 DEF Births, clientVars
<1>2. CASE SendMessage
  BY <1>2, SendMessageDoes DEF Births
<1>3. CASE ResetConversation
  BY <1>3, ResetDoes, EmptyIs DEF Births
<1>4. ASSUME NEW t \in Threads, LoadThread(t) PROVE Births'
  <2>1. \A l \in loads' : turn[l.to] # "none"
    BY <1>4, LoadThreadDoes DEF Births
  <2>2. QED
    BY <1>4, <2>1, LoadThreadDoes DEF Births
<1>5. CASE Accept
  <2> PICK t \in Threads :
              /\ t = IF send.to = None THEN Fresh ELSE send.to
              /\ turn[t] # "cancelled" /\ send' = [at |-> "posted", to |-> t]
              /\ inputs' \in [Threads -> Nat] /\ inputs'[t] = inputs[t] + 1
              /\ \A u \in Threads : u # t => inputs'[u] = inputs[u] /\ turn'[u] = turn[u]
              /\ turn' \in [Threads -> Statuses]
              /\ turn'[t] = IF send.to = None THEN "new" ELSE turn[t]
    BY <1>5, AcceptDoes
  <2>1. UNCHANGED <<log, order, wire, view, loads>> /\ send.at = "post"
    BY <1>5, AcceptDoes
  <2>2. turn'[t] # "none" /\ inputs'[t] > 0
    BY DEF Births, Typed
  <2>3. \A u \in Threads : turn'[u] = "none" => turn[u] = "none" /\ u # t
    BY <2>2
  <2>4. \A l \in loads : l.to \in Threads
    BY DEF Typed, Loads
  <2>5. view.thread \in Threads \cup {None}
    BY DEF Typed, Views
  <2>6. \A u \in Threads : turn'[u] = "new" => inputs'[u] > 0
    BY <2>2 DEF Births
  <2>7. send'.to = t /\ send'.at = "posted"
    OBVIOUS
  <2>8. QED
    BY <2>1, <2>2, <2>3, <2>4, <2>5, <2>6, <2>7 DEF Births
<1>6. CASE Sent
  BY <1>6, SentDoes DEF Births, NoSend
<1>7. CASE SendFails
  BY <1>7, SendFailsDoes DEF Births, NoSend
<1>8. ASSUME NEW l \in loads, Disconnect(l) PROVE Births'
  <2>0. \E m \in Loads : loads' = (loads \ {l}) \cup {m} /\ m.to = l.to
    BY <1>8, DisconnectDoes DEF Alike
  <2>1. \A m \in loads' : turn[m.to] # "none"
    BY <2>0 DEF Births
  <2>2. \A t \in Threads : turn[t] = "none" => order'[t] = order[t]
    BY <1>8, DisconnectDoes
  <2>3. QED
    BY <1>8, <2>1, <2>2, DisconnectDoes DEF Births
<1>9. ASSUME NEW l \in loads, Switch(l) PROVE Births'
  <2>1. \A m \in loads' : turn[m.to] # "none"
    BY <1>9, SwitchDoes DEF Births, Alike
  <2>2. view'.thread = view.thread
    BY <1>9, SwitchDoes
  <2>3. QED
    BY <1>9, <2>1, <2>2, SwitchDoes DEF Births
<1>10. ASSUME NEW l \in loads, Loaded(l) PROVE Births'
  BY <1>10, LoadedDoes DEF Births
<1>11. ASSUME NEW l \in loads, LoadFails(l) PROVE Births'
  BY <1>11, LoadFailsDoes DEF Births
<1>12. ASSUME NEW l \in loads, NEW what \in {"row", "items"}, Reads(l, what) PROVE Births'
  <2>1. \E m \in Loads : loads' = (loads \ {l}) \cup {m} /\ m.to = l.to
    BY <1>12, ReadsDoes DEF Alike
  <2>2. \A m \in loads' : turn[m.to] # "none"
    BY <2>1 DEF Births
  <2>3. QED
    BY <1>12, <2>2, ReadsDoes DEF Births
<1>13. ASSUME NEW t \in Threads, Receive(t) PROVE Births'
  BY <1>13, ReceiveDoes DEF Births
<1>14. ASSUME NEW t \in Threads, LoseFrame(t) PROVE Births'
  BY <1>14, LoseDoes DEF Births
<1>15. ASSUME NEW t \in Threads, WorkerStep(t) PROVE Births'
  <2>1. turn[t] # "none" /\ turn'[t] # "none"
    BY <1>15, WorkerDoes DEF Births, Does, Streaming
  <2>2. turn'[t] = "new" => turn[t] = "new" /\ inputs'[t] = inputs[t]
    BY <1>15, WorkerDoes DEF Does, Typed
  <2>3. \A u \in Threads : turn'[u] = "none" <=> turn[u] = "none"
    BY <1>15, <2>1, WorkerDoes
  <2>4. \A l \in loads : l.to \in Threads
    BY DEF Typed, Loads
  <2>5. view.thread \in Threads \cup {None} /\ send.to \in Threads \cup {None}
    BY DEF Typed, Views
  <2>6. QED
    BY <1>15, <2>1, <2>2, <2>3, <2>4, <2>5, WorkerDoes, Names DEF Births
<1>16. QED
  BY <1>1, <1>2, <1>3, <1>4, <1>5, <1>6, <1>7, <1>8, <1>9, <1>10, <1>11, <1>12, <1>13,
     <1>14, <1>15 DEF ClientNext, User, Answer, Fault, WorkerStep
-----------------------------------------------------------------------------
(* A thread was read at rest, and rests while the load is under way. *)
Resting(t) == inputs[t] = 0 /\ wire[t] = <<>> /\ turn[t] \notin Busy

ReadsRest ==
  ~Void({"busy", "crossed"}) =>
    \A l \in loads : /\ l.read # {} => Resting(l.to)
                     /\ "items" \in l.read => l.items = log[l.to]
                     /\ "row" \in l.read => l.status \notin Busy \cup {"new"}

LEMMA Voided ==
  ASSUME odd \subseteq odd', NEW reasons, ~Void(reasons)'
  PROVE  ~Void(reasons)
BY DEF Void

LEMMA ReadsRestNext ==
  ASSUME Typed, Underway, Births, ReadsRest, [ClientNext]_clientVars
  PROVE  ReadsRest'
<1> odd \subseteq odd'
  BY TypedNext
<1> SUFFICES ASSUME ~Void({"busy", "crossed"})', ~Void({"busy", "crossed"}), "crossed" \notin odd,
                    "busy" \notin odd'
             PROVE  \A l \in loads' : /\ l.read # {} => Resting(l.to)'
                                      /\ "items" \in l.read => l.items = log'[l.to]
                                      /\ "row" \in l.read => l.status \notin Busy \cup {"new"}
  <2>1. ~Void({"busy", "crossed"})' => ~Void({"busy", "crossed"})
    BY Voided
  <2>2. QED
    BY <2>1 DEF Void, ReadsRest
<1> DEFINE Kept(l) == /\ l.read # {} => Resting(l.to)'
                      /\ "items" \in l.read => l.items = log'[l.to]
                      /\ "row" \in l.read => l.status \notin Busy \cup {"new"}
<1>0. \A l \in loads : /\ l.read # {} => Resting(l.to)
                       /\ "items" \in l.read => l.items = log[l.to]
                       /\ "row" \in l.read => l.status \notin Busy \cup {"new"}
                       /\ l.to \in Threads
  BY DEF ReadsRest, Typed, Loads
<1>1. ASSUME UNCHANGED <<turn, log, inputs, wire>>,
             \A m \in loads' : m \in loads \/ m.read = {} \/ \E l \in loads :
                /\ Alike(m, l) /\ m.read = l.read /\ m.items = l.items /\ m.status = l.status
      PROVE  \A l \in loads' : Kept(l)
  BY <1>0, <1>1 DEF Resting, Alike
<1>2. CASE UNCHANGED clientVars \/ SendMessage \/ ResetConversation \/ Sent \/ SendFails
  BY <1>1, <1>2, SendMessageDoes, ResetDoes, SentDoes, SendFailsDoes DEF clientVars
<1>3. ASSUME NEW t \in Threads, LoadThread(t) PROVE \A l \in loads' : Kept(l)
  BY <1>1, <1>3, LoadThreadDoes
<1>4. CASE Accept
  BY <1>4, AcceptDoes DEF Underway
<1>5. ASSUME NEW l \in loads, Disconnect(l) PROVE \A m \in loads' : Kept(m)
  <2>1. /\ UNCHANGED <<turn, log, inputs, wire>>
        /\ \E m \in Loads : /\ loads' = (loads \ {l}) \cup {m} /\ Alike(m, l)
                            /\ m.read = l.read /\ m.items = l.items /\ m.status = l.status
    BY <1>5, DisconnectDoes
  <2>2. QED
    BY <1>1, <2>1
<1>6. ASSUME NEW l \in loads, Switch(l) PROVE \A m \in loads' : Kept(m)
  BY <1>1, <1>6, SwitchDoes
<1>7. ASSUME NEW l \in loads, Loaded(l) \/ LoadFails(l) PROVE \A m \in loads' : Kept(m)
  BY <1>1, <1>7, LoadedDoes, LoadFailsDoes
<1>8. ASSUME NEW l \in loads, NEW what \in {"row", "items"}, Reads(l, what)
      PROVE  \A m \in loads' : Kept(m)
  <2> PICK m \in Loads :
              /\ loads' = (loads \ {l}) \cup {m} /\ Alike(m, l) /\ m.at = "fetch"
              /\ m.read \subseteq l.read \cup {what}
              /\ m.items = (IF what = "items" THEN log[l.to] ELSE l.items)
              /\ m.status = (IF what = "row" THEN turn[l.to] ELSE l.status)
    BY <1>8, ReadsDoes
  <2>1. UNCHANGED <<turn, log, inputs, wire>> /\ m.to = l.to
    BY <1>8, ReadsDoes DEF Alike
  <2>2. Resting(l.to) /\ turn[l.to] # "new"
    <3>1. turn[l.to] \notin Busy /\ wire[l.to] = <<>> /\ ~(inputs[l.to] > 0)
      BY <1>8, ReadsDoes
    <3>2. inputs[l.to] \in Nat
      BY <1>0 DEF Typed
    <3>3. QED
      BY <1>0, <3>1, <3>2 DEF Resting, Births
  <2>3. Kept(m)
    <3>1. "items" \in m.read => m.items = log[l.to]
      BY <1>0
    <3>2. "row" \in m.read => m.status \notin Busy \cup {"new"}
      BY <1>0, <2>2 DEF Resting
    <3>3. QED
      BY <2>1, <2>2, <3>1, <3>2 DEF Resting
  <2>4. \A k \in loads : Kept(k)
    BY <1>0, <2>1 DEF Resting
  <2>5. QED
    BY <2>3, <2>4
<1>9. ASSUME NEW t \in Threads, Receive(t) \/ LoseFrame(t) PROVE \A l \in loads' : Kept(l)
  <2>1. /\ UNCHANGED <<turn, log, inputs, loads>>
        /\ \A u \in Threads : wire[u] = <<>> => wire'[u] = <<>>
    BY <1>9, ReceiveDoes, LoseDoes
  <2>2. QED
    BY <1>0, <2>1 DEF Resting
<1>10. ASSUME NEW t \in Threads, WorkerStep(t) PROVE \A l \in loads' : Kept(l)
  <2>1. loads' = loads
    BY <1>10, WorkerDoes
  <2>2. ASSUME Resting(t)
        PROVE  /\ inputs' = inputs /\ wire' = wire /\ log' = log
               /\ turn'[t] = turn[t] \/ turn'[t] = "cancelled"
    <3>1. inputs[t] = 0 /\ turn[t] \notin Streaming /\ turn[t] # "waiting_children"
      BY <2>2 DEF Resting, Busy
    <3>2. Does(t)
      BY <1>10, WorkerDoes
    <3>3. QED
      BY <3>1, <3>2 DEF Does, Streaming
  <2>3. \A u \in Threads : Resting(u) => Resting(u)' /\ log'[u] = log[u]
    <3>1. ASSUME NEW u \in Threads, u # t, Resting(u) PROVE Resting(u)' /\ log'[u] = log[u]
      BY <1>10, <3>1, WorkerDoes DEF Resting
    <3>2. Resting(t) => Resting(t)' /\ log'[t] = log[t]
      BY <2>2 DEF Resting, Busy, Streaming
    <3>3. QED
      BY <3>1, <3>2
  <2>4. QED
    BY <1>0, <2>1, <2>3
<1>11. QED
  BY <1>2, <1>3, <1>4, <1>5, <1>6, <1>7, <1>8, <1>9, <1>10
     DEF ClientNext, User, Answer, Fault, WorkerStep
-----------------------------------------------------------------------------
(* The conversation s of thread t shows w messages whole, and maybe a part of the next one. *)
Shows(t, s, w) ==
  /\ Len(s) = w \/ Len(s) = w + 1
  /\ \A i \in 1..w : s[i].whole /\ s[i].id[2] = t /\ s[i].id[3] = i
  /\ Len(s) = w + 1 => s[w + 1].id = <<"item", t, w + 1>>

(* Of p messages published all but the first w are on the wire f, in order, and a part of the next   *)
(* one at most is before them.                                                                       *)
Comes(f, p, w) ==
  /\ w <= p
  /\ \A i \in DOMAIN f : f[i].kind = "delta" => i = 1 /\ f[i].n = w + 1
  /\ \A i \in DOMAIN f : f[i].kind = "done" => w < f[i].n /\ f[i].n <= p
  /\ \A i, j \in DOMAIN f :
       i < j /\ f[i].kind = "done" /\ f[j].kind = "done" => f[i].n < f[j].n
  /\ \A n \in Nat : w < n /\ n <= p => \E i \in DOMAIN f : f[i].kind = "done" /\ f[i].n = n

(* They fit together; a part is there only as long as its message is being written (wr) or comes.    *)
Fit(f, p, wr, t, s, w) ==
  /\ Shows(t, s, w) /\ Comes(f, p, w)
  /\ Len(s) = w + 1 \/ (\E i \in DOMAIN f : f[i].kind = "delta") => wr \/ w < p

LEMMA Numbered ==
  ASSUME NEW f \in Seq(Frames)
  PROVE  \A i \in DOMAIN f : f[i] \in Frames /\ f[i].n \in Nat
<1>1. \A i \in DOMAIN f : f[i] \in Frames
  OBVIOUS
<1>2. \A e \in Frames : e.n \in Nat
  BY DEF Frames
<1>3. QED
  BY <1>1, <1>2

(* The frame of a message that is done. *)
LEMMA ComesMore ==
  ASSUME NEW f \in Seq(Frames), NEW p \in Nat, NEW w \in Nat, Comes(f, p, w)
  PROVE  Comes(Append(f, [kind |-> "done", n |-> p + 1]), p + 1, w)
<1> PICK e : e = [kind |-> "done", n |-> p + 1]
  OBVIOUS
<1> PICK g : g = Append(f, e)
  OBVIOUS
<1>1. e \in Frames /\ e.kind = "done" /\ e.n = p + 1
  BY DEF Frames
<1>2. /\ DOMAIN g = 1..Len(f) + 1 /\ DOMAIN f = 1..Len(f) /\ Len(f) \in Nat
      /\ \A i \in DOMAIN f : g[i] = f[i]
      /\ g[Len(f) + 1] = e
  BY <1>1, Appended
<1>3. \A i \in DOMAIN g : (i \in DOMAIN f /\ g[i] = f[i]) \/ (i = Len(f) + 1 /\ g[i] = e)
  BY <1>2
<1>4. \A i \in DOMAIN f : f[i].n \in Nat
  BY Numbered
<1>5. w <= p /\ w <= p + 1
  BY DEF Comes
<1>6. \A i \in DOMAIN g : g[i].kind = "delta" => i = 1 /\ g[i].n = w + 1
  BY <1>1, <1>3 DEF Comes
<1>7. \A i \in DOMAIN g : g[i].kind = "done" => w < g[i].n /\ g[i].n <= p + 1
  BY <1>1, <1>3, <1>4, <1>5 DEF Comes
<1>8. ASSUME NEW i \in DOMAIN g, NEW j \in DOMAIN g,
             i < j, g[i].kind = "done", g[j].kind = "done"
      PROVE  g[i].n < g[j].n
  <2>1. i \in DOMAIN f /\ g[i] = f[i]
    BY <1>2, <1>3, <1>8
  <2>2. g[i].n <= p /\ g[i].n \in Nat
    BY <1>4, <1>8, <2>1 DEF Comes
  <2>3. CASE g[j] = e
    BY <1>1, <2>2, <2>3
  <2>4. CASE j \in DOMAIN f /\ g[j] = f[j]
    BY <1>8, <2>1, <2>4 DEF Comes
  <2>5. QED
    BY <1>3, <2>3, <2>4
<1>9. ASSUME NEW n \in Nat, w < n, n <= p + 1
      PROVE  \E i \in DOMAIN g : g[i].kind = "done" /\ g[i].n = n
  <2>1. CASE n = p + 1
    <3>1. Len(f) + 1 \in DOMAIN g
      BY <1>2
    <3>2. QED
      BY <1>1, <1>2, <2>1, <3>1
  <2>2. CASE n <= p
    <3>1. PICK i \in DOMAIN f : f[i].kind = "done" /\ f[i].n = n
      BY <1>9, <2>2 DEF Comes
    <3>2. i \in DOMAIN g /\ g[i] = f[i]
      BY <1>2
    <3>3. QED
      BY <3>1, <3>2
  <2>3. QED
    BY <1>9, <2>1, <2>2
<1>10. QED
  BY <1>5, <1>6, <1>7, <1>8, <1>9 DEF Comes

LEMMA FitSays ==
  ASSUME NEW f \in Seq(Frames), NEW p \in Nat, NEW wr \in BOOLEAN, NEW t \in Threads,
         NEW s \in Seq(Texts), NEW w \in Nat, Fit(f, p, wr, t, s, w), NEW b \in BOOLEAN
  PROVE  Fit(Append(f, [kind |-> "done", n |-> p + 1]), p + 1, b, t, s, w)
<1>1. Comes(Append(f, [kind |-> "done", n |-> p + 1]), p + 1, w)
  BY ComesMore DEF Fit
<1>2. w < p + 1
  BY DEF Fit, Comes
<1>3. QED
  BY <1>1, <1>2 DEF Fit

(* Any other frame but a delta. *)
LEMMA FitAdds ==
  ASSUME NEW f \in Seq(Frames), NEW p \in Nat, NEW wr \in BOOLEAN, NEW t \in Threads,
         NEW s \in Seq(Texts), NEW w \in Nat, Fit(f, p, wr, t, s, w),
         NEW e \in Frames, e.kind \notin {"done", "delta"}
  PROVE  Fit(Append(f, e), p, wr, t, s, w)
<1> PICK g : g = Append(f, e)
  OBVIOUS
<1>1. /\ DOMAIN g = 1..Len(f) + 1 /\ DOMAIN f = 1..Len(f) /\ Len(f) \in Nat
      /\ \A i \in DOMAIN f : g[i] = f[i]
      /\ g[Len(f) + 1] = e
  BY Appended
<1>2. \A i \in DOMAIN g : g[i].kind \in {"done", "delta"} => i \in DOMAIN f /\ g[i] = f[i]
  BY <1>1
<1>3. DOMAIN f \subseteq DOMAIN g
  BY <1>1
<1>4. QED
  BY <1>1, <1>2, <1>3 DEF Fit, Comes

LEMMA AllArrived ==
  ASSUME NEW f \in Seq(Frames), f = <<>>, NEW p \in Nat, NEW t \in Threads,
         NEW s \in Seq(Texts), NEW w \in Nat, NEW wr \in BOOLEAN, ~wr, Fit(f, p, wr, t, s, w)
  PROVE  Len(s) = p /\ Shows(t, s, p)
<1>1. DOMAIN f = {}
  OBVIOUS
<1>2. w <= p /\ \A n \in Nat : w < n /\ n <= p => FALSE
  BY <1>1 DEF Fit, Comes
<1>3. w = p
  BY <1>2
<1>4. QED
  BY <1>3 DEF Fit, Shows

(* The first part of the next message, when all that was published has arrived. *)
LEMMA FitWrites ==
  ASSUME NEW f \in Seq(Frames), f = <<>>, NEW p \in Nat, NEW t \in Threads,
         NEW s \in Seq(Texts), NEW w \in Nat, Fit(f, p, FALSE, t, s, w),
         NEW e \in Frames, e.kind = "delta", e.n = p + 1
  PROVE  Fit(Append(f, e), p, TRUE, t, s, w)
<1> PICK g : g = Append(f, e)
  OBVIOUS
<1>1. DOMAIN g = {1} /\ g[1] = e
  BY Appended
<1>2. w = p
  <2>1. DOMAIN f = {}
    OBVIOUS
  <2>2. w <= p /\ \A n \in Nat : w < n /\ n <= p => FALSE
    BY <2>1 DEF Fit, Comes
  <2>3. QED
    BY <2>2
<1>3. Comes(g, p, w)
  BY <1>1, <1>2 DEF Comes
<1>4. QED
  BY <1>3 DEF Fit

(* What is left on the wire when a frame is taken. *)
LEMMA ComesRest ==
  ASSUME NEW f \in Seq(Frames), f # <<>>, NEW p \in Nat, NEW w \in Nat, Comes(f, p, w)
  PROVE  /\ Head(f) \in Frames
         /\ \A i \in DOMAIN Tail(f) : Tail(f)[i].kind # "delta"
         /\ Head(f).kind = "delta" => Head(f).n = w + 1
         /\ Head(f).kind # "done" => Comes(Tail(f), p, w)
         /\ Head(f).kind = "done" => Head(f).n = w + 1 /\ w < p /\ Comes(Tail(f), p, w + 1)
<1> PICK g : g = Tail(f)
  OBVIOUS
<1> PICK h : h = f[1]
  OBVIOUS
<1>1. /\ DOMAIN g = 1..Len(f) - 1 /\ DOMAIN f = 1..Len(f) /\ Len(f) \in Nat /\ Len(f) > 0
      /\ \A i \in DOMAIN g : g[i] = f[i + 1]
      /\ Head(f) = h /\ h \in Frames
  BY Taken
<1>2. h.n \in Nat /\ 1 \in DOMAIN f
  BY <1>1 DEF Frames
<1>3. \A i \in DOMAIN g : i + 1 \in DOMAIN f /\ g[i] = f[i + 1] /\ i + 1 # 1 /\ g[i].n \in Nat /\ 1 < i + 1
  BY <1>1, Numbered
<1>4. \A i \in DOMAIN f : i # 1 => (i - 1) \in DOMAIN g /\ g[i - 1] = f[i] /\ 1 < i
  BY <1>1
<1>5. \A i \in DOMAIN g : g[i].kind # "delta"
  BY <1>3 DEF Comes
<1>6. ASSUME NEW i \in DOMAIN g, NEW j \in DOMAIN g,
             i < j, g[i].kind = "done", g[j].kind = "done"
      PROVE  g[i].n < g[j].n
  <2>1. i + 1 < j + 1
    BY <1>1, <1>6
  <2>2. QED
    BY <1>3, <1>6, <2>1 DEF Comes
<1>7. h.kind = "delta" => h.n = w + 1
  BY <1>2 DEF Comes
<1>8. ASSUME h.kind # "done" PROVE Comes(g, p, w)
  <2>1. w <= p /\ \A i \in DOMAIN g : g[i].kind = "done" => w < g[i].n /\ g[i].n <= p
    BY <1>3 DEF Comes
  <2>2. ASSUME NEW n \in Nat, w < n, n <= p
        PROVE  \E i \in DOMAIN g : g[i].kind = "done" /\ g[i].n = n
    <3>1. PICK i \in DOMAIN f : f[i].kind = "done" /\ f[i].n = n
      BY <2>2 DEF Comes
    <3>2. i # 1
      BY <1>8, <3>1
    <3>3. QED
      BY <1>4, <3>1, <3>2
  <2>3. QED
    BY <1>5, <1>6, <2>1, <2>2 DEF Comes
<1>9. ASSUME h.kind = "done" PROVE h.n = w + 1 /\ w < p /\ Comes(g, p, w + 1)
  <2>1. w < h.n /\ h.n <= p
    BY <1>2, <1>9 DEF Comes
  <2>2. w < p /\ w + 1 \in Nat /\ w < w + 1 /\ w + 1 <= p
    BY <1>2, <2>1
  <2>3. PICK k \in DOMAIN f : f[k].kind = "done" /\ f[k].n = w + 1
    BY <2>2 DEF Comes
  <2>4. k # 1 => h.n < w + 1
    BY <1>2, <1>4, <1>9, <2>3 DEF Comes
  <2>5. h.n = w + 1
    BY <1>2, <2>1, <2>3, <2>4
  <2>6. ASSUME NEW i \in DOMAIN g, g[i].kind = "done" PROVE w + 1 < g[i].n /\ g[i].n <= p
    <3>1. h.n < g[i].n /\ g[i].n <= p
      BY <1>2, <1>3, <1>9, <2>6 DEF Comes
    <3>2. QED
      BY <2>5, <3>1
  <2>7. ASSUME NEW n \in Nat, w + 1 < n, n <= p
        PROVE  \E i \in DOMAIN g : g[i].kind = "done" /\ g[i].n = n
    <3>1. w < n /\ n # w + 1
      BY <2>7
    <3>2. PICK i \in DOMAIN f : f[i].kind = "done" /\ f[i].n = n
      BY <2>7, <3>1 DEF Comes
    <3>3. i # 1
      BY <2>5, <3>1, <3>2
    <3>4. QED
      BY <1>4, <3>2, <3>3
  <2>8. Comes(g, p, w + 1)
    BY <1>5, <1>6, <2>2, <2>6, <2>7 DEF Comes
  <2>9. QED
    BY <2>2, <2>5, <2>8
<1>10. QED
  BY <1>1, <1>5, <1>7, <1>8, <1>9

(* What is shown when a part of the next message comes, and when all of it does. *)
LEMMA ShowsMore ==
  ASSUME NEW t \in Threads, NEW s \in Seq(Texts), NEW w \in Nat, Shows(t, s, w),
         NEW m \in Texts, m.id = <<"item", t, w + 1>>
  PROVE  /\ Shows(t, AddPart(s, m), w)
         /\ m.whole => Shows(t, Upsert(s, m), w + 1) /\ Len(Upsert(s, m)) = w + 1
<1>1. DOMAIN s = 1..Len(s) /\ Len(s) \in Nat
  OBVIOUS
<1>2. m.id[2] = t /\ m.id[3] = w + 1
  OBVIOUS
<1>3. \A i \in 1..w : i \in DOMAIN s /\ s[i].id # m.id
  <2>1. \A i \in 1..w : s[i].id[3] = i /\ i # w + 1
    BY DEF Shows
  <2>2. Len(s) = w \/ Len(s) = w + 1
    BY DEF Shows
  <2>3. ASSUME NEW i \in 1..w PROVE i \in DOMAIN s
    <3> PICK n \in Nat : n = Len(s)
      BY <1>1
    <3>1. DOMAIN s = 1..n /\ (n = w \/ n = w + 1)
      BY <1>1, <2>2
    <3>2. i \in 1..n
      BY <3>1
    <3>3. QED
      BY <3>1, <3>2
  <2>4. QED
    BY <1>2, <2>1, <2>3
<1>4. CASE Len(s) = w
  <2>1. ~Known(s, m)
    BY <1>1, <1>3, <1>4 DEF Known
  <2> PICK r : r = Append(s, m)
    OBVIOUS
  <2>2. AddPart(s, m) = r /\ Upsert(s, m) = r
    BY <2>1 DEF AddPart, Upsert
  <2>3. Len(r) = w + 1 /\ r[w + 1] = m /\ \A i \in 1..w : r[i] = s[i]
    BY <1>1, <1>4, Appended
  <2>4. Shows(t, r, w)
    BY <2>3 DEF Shows
  <2>5. ASSUME m.whole PROVE Shows(t, r, w + 1)
    <3>1. \A i \in 1..(w + 1) : i \in 1..w \/ i = w + 1
      OBVIOUS
    <3>2. \A i \in 1..(w + 1) : r[i].whole /\ r[i].id[2] = t /\ r[i].id[3] = i
      BY <1>2, <2>3, <2>5, <3>1 DEF Shows
    <3>3. Len(r) # (w + 1) + 1
      BY <2>3
    <3>4. QED
      BY <2>3, <3>2, <3>3 DEF Shows
  <2>6. QED
    BY <2>2, <2>3, <2>4, <2>5
<1>5. CASE Len(s) = w + 1
  <2>1. w + 1 \in DOMAIN s /\ s[w + 1].id = m.id
    BY <1>1, <1>5 DEF Shows
  <2>2. Known(s, m)
    BY <2>1 DEF Known
  <2> PICK r : r = [i \in DOMAIN s |-> IF s[i].id = m.id THEN m ELSE s[i]]
    OBVIOUS
  <2>3. AddPart(s, m) = s /\ Upsert(s, m) = r
    BY <2>2 DEF AddPart, Upsert
  <2>4. r[w + 1] = m
    BY <2>1
  <2>5. \A i \in 1..w : r[i] = s[i]
    BY <1>3
  <2>6. Len(r) = w + 1
    <3>1. \A i \in 1..(w + 1) : s[i] \in Texts
      BY <1>1, <1>5
    <3>2. r \in [1..(w + 1) -> Texts]
      BY <1>1, <1>5, <3>1
    <3>3. w + 1 \in Nat
      OBVIOUS
    <3>4. QED
      BY <3>2, <3>3, FunctionIsSeq
  <2>7. ASSUME m.whole PROVE Shows(t, r, w + 1)
    <3>1. \A i \in 1..(w + 1) : i \in 1..w \/ i = w + 1
      OBVIOUS
    <3>2. \A i \in 1..(w + 1) : r[i].whole /\ r[i].id[2] = t /\ r[i].id[3] = i
      BY <1>2, <2>4, <2>5, <2>7, <3>1 DEF Shows
    <3>3. Len(r) # (w + 1) + 1
      BY <2>6
    <3>4. QED
      BY <2>6, <3>2, <3>3 DEF Shows
  <2>8. QED
    BY <2>3, <2>6, <2>7
<1>6. QED
  BY <1>4, <1>5 DEF Shows

(* The browser takes a frame. *)
LEMMA FitTakes ==
  ASSUME NEW f \in Seq(Frames), f # <<>>, NEW p \in Nat, NEW wr \in BOOLEAN, NEW t \in Threads,
         NEW s \in Seq(Texts), NEW w \in Nat, Fit(f, p, wr, t, s, w), NEW r, NEW m \in Texts,
         m.id = <<"item", t, Head(f).n>>, Head(f).kind = "done" => m.whole,
         Head(f).kind = "delta" => r = AddPart(s, m),
         Head(f).kind = "done" => r = Upsert(s, m),
         Head(f).kind \notin {"done", "delta"} => r = s
  PROVE  \E v \in Nat : Fit(Tail(f), p, wr, t, r, v)
<1> PICK g : g = Tail(f)
  OBVIOUS
<1> PICK h : h = Head(f)
  OBVIOUS
<1>1. Shows(t, s, w) /\ Comes(f, p, w)
  BY DEF Fit
<1>2. /\ \A i \in DOMAIN g : g[i].kind # "delta"
      /\ h.kind = "delta" => h.n = w + 1
      /\ h.kind # "done" => Comes(g, p, w)
      /\ h.kind = "done" => h.n = w + 1 /\ w < p /\ Comes(g, p, w + 1)
  BY <1>1, ComesRest
<1>3. h = f[1] /\ 1 \in DOMAIN f
  BY Taken
<1>4. CASE h.kind \notin {"done", "delta"}
  <2>1. Fit(g, p, wr, t, s, w)
    BY <1>1, <1>2, <1>4 DEF Fit
  <2>2. QED
    BY <1>4, <2>1
<1>5. CASE h.kind = "delta"
  <2>1. Shows(t, r, w)
    BY <1>1, <1>2, <1>5, ShowsMore
  <2>2. wr \/ w < p
    BY <1>3, <1>5 DEF Fit
  <2>3. Fit(g, p, wr, t, r, w)
    BY <1>2, <1>5, <2>1, <2>2 DEF Fit
  <2>4. QED
    BY <2>3
<1>6. CASE h.kind = "done"
  <2>1. Shows(t, r, w + 1) /\ Len(r) = w + 1 /\ w + 1 \in Nat
    BY <1>1, <1>2, <1>6, ShowsMore
  <2>2. Len(r) # (w + 1) + 1
    BY <2>1
  <2>3. Fit(g, p, wr, t, r, w + 1)
    BY <1>2, <1>6, <2>1, <2>2 DEF Fit
  <2>4. QED
    BY <2>1, <2>3
<1>7. QED
  BY <1>4, <1>5, <1>6
-----------------------------------------------------------------------------
Published(t) == IF turn[t] = "saving" THEN log[t] + 1 ELSE log[t]

Fits(t, s, w) == Fit(wire[t], Published(t), turn[t] = "writing", t, s, w)

(* Unless a promise is void, what is shown of the open thread fits what its worker has published,    *)
(* and so will the empty page when the thread of its first message is there.                         *)
ShownFits ==
  /\ view.thread = None => view.shown = <<>>
  /\ ~Void({"busy", "lost", "early", "continued", "crossed"}) =>
       /\ view.thread # None => \E w \in Nat : Fits(view.thread, view.shown, w)
       /\ send.at # "idle" => \/ send.to = view.thread
                              \/ send.at = "posted" /\ send.to = Fresh /\ view.thread = None
       /\ send.at = "posted" /\ send.to = Fresh /\ view.thread = None => Fits(Fresh, <<>>, 0)

(* A thread that has published n messages and says nothing fits all of them. *)
LEMMA FitAtRest ==
  ASSUME NEW t \in Threads, NEW n \in Nat, NEW f, f = <<>>, NEW s, Len(s) = n,
         \A i \in 1..n : s[i].whole /\ s[i].id[2] = t /\ s[i].id[3] = i
  PROVE  Fit(f, n, FALSE, t, s, n)
<1>1. DOMAIN f = {}
  OBVIOUS
<1>2. Shows(t, s, n)
  BY DEF Shows
<1>3. Comes(f, n, n)
  BY <1>1 DEF Comes
<1>4. QED
  BY <1>1, <1>2, <1>3 DEF Fit

LEMMA WorkerKeepsFit ==
  ASSUME Typed, NEW t \in Threads, WorkerStep(t),
         NEW u \in Threads, NEW s \in Seq(Texts), NEW w \in Nat, Fits(u, s, w)
  PROVE  Fits(u, s, w)'
<1>1. CASE u # t
  BY <1>1, WorkerDoes DEF Fits, Published
<1>2. CASE u = t
  <2> PICK p : p = Published(t)
    OBVIOUS
  <2> PICK f : f = wire[t]
    OBVIOUS
  <2>1. p \in Nat /\ f \in Seq(Frames) /\ log[t] \in Nat
    <3>1. log[t] \in Nat
      BY Names DEF Typed
    <3>2. QED
      BY <3>1 DEF Typed, Published
  <2>2. Fit(f, p, turn[t] = "writing", t, s, w)
    BY <1>2 DEF Fits
  <2>3. Does(t)
    BY WorkerDoes
  <2>4. CASE /\ wire'[t] = f /\ Published(t)' = p
             /\ turn[t] # "writing" /\ turn'[t] # "writing"
    BY <1>2, <2>2, <2>4 DEF Fits
  <2>5. ASSUME NEW e \in Frames, e.kind \notin {"done", "delta"},
               wire'[t] = Append(f, e), Published(t)' = p,
               turn[t] # "writing", turn'[t] # "writing"
        PROVE  Fits(u, s, w)'
    <3>1. Fit(f, p, FALSE, t, s, w)
      BY <2>2, <2>5
    <3>2. Fit(Append(f, e), p, FALSE, t, s, w)
      BY <2>1, <2>5, <3>1, FitAdds
    <3>3. QED
      BY <1>2, <2>5, <3>2 DEF Fits
  <2>6. CASE /\ turn[t] = "running" /\ turn'[t] = "running" /\ UNCHANGED log
             /\ wire'[t] = Append(wire[t], [kind |-> "thinking", n |-> log[t] + 1])
    <3>1. [kind |-> "thinking", n |-> log[t] + 1] \in Frames
      BY <2>1 DEF Frames
    <3>2. QED
      BY <2>5, <2>6, <3>1 DEF Published
  <2>7. CASE /\ turn[t] = "running" /\ turn'[t] = "writing" /\ UNCHANGED log /\ wire[t] = <<>>
             /\ wire'[t] = Append(wire[t], [kind |-> "delta", n |-> log[t] + 1])
    <3> PICK e : e = [kind |-> "delta", n |-> log[t] + 1]
      OBVIOUS
    <3>1. e \in Frames /\ p = log[t] /\ e.kind = "delta" /\ e.n = p + 1
      BY <2>1, <2>7 DEF Frames, Published
    <3>2. Fit(f, p, FALSE, t, s, w)
      BY <2>2, <2>7
    <3>3. Fit(Append(f, e), p, TRUE, t, s, w)
      BY <2>1, <2>7, <3>1, <3>2, FitWrites
    <3>4. Published(t)' = p
      BY <2>7, <3>1 DEF Published
    <3>5. QED
      BY <1>2, <2>7, <3>3, <3>4 DEF Fits
  <2>8. CASE /\ turn[t] \in {"running", "writing"} /\ turn'[t] = "saving" /\ UNCHANGED log
             /\ wire'[t] = Append(wire[t], [kind |-> "done", n |-> log[t] + 1])
    <3>1. p = log[t] /\ Published(t)' = p + 1
      BY <2>8 DEF Published
    <3>2. (turn[t] = "writing") \in BOOLEAN /\ FALSE \in BOOLEAN
      OBVIOUS
    <3>3. Fit(Append(f, [kind |-> "done", n |-> p + 1]), p + 1, FALSE, t, s, w)
      BY <2>1, <2>2, <3>2, FitSays
    <3>4. QED
      BY <1>2, <2>8, <3>1, <3>3 DEF Fits
  <2>9. CASE turn[t] = "saving" /\ turn'[t] = "said" /\ log'[t] = log[t] + 1 /\ UNCHANGED wire
    BY <2>4, <2>9 DEF Published
  <2>10. CASE /\ turn[t] \in {"running", "said"} /\ turn'[t] \in {"ready", "waiting_children"}
              /\ UNCHANGED log /\ wire'[t] = Append(wire[t], [kind |-> "completed", n |-> 0])
    <3>1. [kind |-> "completed", n |-> 0] \in Frames
      BY DEF Frames
    <3>2. QED
      BY <2>5, <2>10, <3>1 DEF Published
  <2>11. CASE /\ turn[t] \in {"new", "ready", "cancelled", "waiting_children"}
              /\ turn'[t] = "running" /\ UNCHANGED <<log, wire>>
    BY <2>4, <2>11 DEF Published
  <2>12. CASE turn[t] \notin Streaming /\ turn'[t] \in {turn[t], "cancelled"} /\ UNCHANGED <<log, wire>>
    BY <2>4, <2>12 DEF Published, Streaming
  <2>13. QED
    BY <2>3, <2>6, <2>7, <2>8, <2>9, <2>10, <2>11, <2>12 DEF Does
<1>3. QED
  BY <1>1, <1>2

LEMMA ShownFitsNext ==
  ASSUME Typed, Underway, Births, ReadsRest, ShownFits, [ClientNext]_clientVars
  PROVE  ShownFits'
<1> DEFINE Odd == {"busy", "lost", "early", "continued", "crossed"}
           Good == /\ view.thread # None => \E w \in Nat : Fits(view.thread, view.shown, w)
                   /\ send.at # "idle" =>
                        \/ send.to = view.thread
                        \/ send.at = "posted" /\ send.to = Fresh /\ view.thread = None
                   /\ send.at = "posted" /\ send.to = Fresh /\ view.thread = None =>
                        Fits(Fresh, <<>>, 0)
<1> odd \subseteq odd'
  BY TypedNext
<1>a. (view.thread = None => view.shown = <<>>) /\ (~Void(Odd) => Good)
  BY DEF ShownFits
<1>b. ASSUME (view.thread = None => view.shown = <<>>)', ~Void(Odd)' /\ ~Void(Odd) => Good'
      PROVE  ShownFits'
  BY <1>b, Voided DEF ShownFits
<1>c. view.thread \in Threads \cup {None} /\ view.shown \in Seq(Texts) /\ Fresh \in Threads
  BY Names DEF Typed, Views
<1>d. <<>> \in Seq(Texts) /\ 0 \in Nat
  OBVIOUS
<1>e. ASSUME NEW u \in Threads, turn'[u] = turn[u], log'[u] = log[u], wire'[u] = wire[u],
             NEW s, NEW w, Fits(u, s, w)
      PROVE  Fits(u, s, w)'
  BY <1>e DEF Fits, Published
<1>1. ASSUME UNCHANGED <<turn, log, wire, send>>, view'.thread = view.thread, view'.shown = view.shown
      PROVE  ShownFits'
  BY <1>1, <1>a, <1>b DEF Fits, Published
<1>2. CASE SendMessage
  <2>1. /\ UNCHANGED <<turn, log, wire>> /\ view'.thread = view.thread /\ view'.shown = view.shown
        /\ send'.at = "post"
    BY <1>2, SendMessageDoes
  <2>2. ~Void(Odd)' => send'.to = view.thread
    BY <1>2, SendMessageDoes DEF Void
  <2>3. QED
    BY <1>a, <1>b, <2>1, <2>2 DEF Fits, Published
<1>3. CASE ResetConversation
  <2>1. view'.thread = None /\ view'.shown = <<>> /\ send' = send
    BY <1>3, ResetDoes, EmptyIs
  <2>2. ~Void(Odd)' => send.at = "idle"
    BY <1>3, ResetDoes DEF Void
  <2>3. QED
    BY <1>b, <2>1, <2>2
<1>4. ASSUME NEW t \in Threads, LoadThread(t) PROVE ShownFits'
  BY <1>1, <1>4, LoadThreadDoes
<1>5. CASE Accept
  <2> PICK t \in Threads :
              /\ t = IF send.to = None THEN Fresh ELSE send.to
              /\ send' = [at |-> "posted", to |-> t]
              /\ \A u \in Threads : u # t => turn'[u] = turn[u]
              /\ turn'[t] = IF send.to = None THEN "new" ELSE turn[t]
    BY <1>5, AcceptDoes
  <2>1. UNCHANGED <<log, wire, view, odd>> /\ send.at = "post"
    BY <1>5, AcceptDoes
  <2>2. CASE send.to # None
    <3>1. \A u \in Threads : turn'[u] = turn[u]
      BY <2>2
    <3>2. ~Void(Odd) => send.to = view.thread
      BY <1>a, <2>1
    <3>3. ~Void(Odd) /\ view.thread # None => (\E w \in Nat : Fits(view.thread, view.shown, w))'
      BY <1>a, <1>c, <1>e, <2>1, <3>1
    <3>4. send'.to = send.to /\ send'.at = "posted"
      BY <2>2
    <3>5. QED
      BY <1>a, <1>b, <2>1, <2>2, <3>2, <3>3, <3>4
  <2>3. CASE send.to = None
    <3>1. t = Fresh /\ turn[Fresh] = "none" /\ turn'[Fresh] = "new"
      BY <2>1, <2>3 DEF Births
    <3>2. wire[Fresh] = <<>> /\ log[Fresh] = 0
      BY <1>c, <3>1 DEF Births
    <3>3. Published(Fresh)' = 0 /\ wire'[Fresh] = <<>> /\ turn'[Fresh] # "writing"
      BY <2>1, <3>1, <3>2 DEF Published
    <3>4. Fit(<<>>, 0, FALSE, Fresh, <<>>, 0)
      <4> PICK e : e = <<>>
        OBVIOUS
      <4>1. Len(e) = 0 /\ \A i \in 1..0 : e[i].whole /\ e[i].id[2] = Fresh /\ e[i].id[3] = i
        OBVIOUS
      <4>2. Fit(e, 0, FALSE, Fresh, e, 0)
        BY <1>c, <1>d, <4>1, FitAtRest
      <4>3. QED
        BY <4>2
    <3>5. Fits(Fresh, <<>>, 0)'
      BY <3>3, <3>4 DEF Fits
    <3>6. ~Void(Odd) => view.thread = None
      BY <1>a, <2>1, <2>3
    <3>7. send'.to = Fresh /\ send'.at = "posted"
      BY <3>1
    <3>8. QED
      BY <1>a, <1>b, <2>1, <3>5, <3>6, <3>7
  <2>4. QED
    BY <2>2, <2>3
<1>6. CASE Sent
  <2>1. /\ UNCHANGED <<turn, log, wire, odd>> /\ send.at = "posted" /\ send'.at = "idle"
        /\ view'.shown = view.shown
        /\ view'.thread = IF send.to = Fresh THEN Fresh ELSE view.thread
    BY <1>6, SentDoes DEF NoSend
  <2>2. send.to # None
    BY <2>1 DEF Typed
  <2>3. view'.thread = None => view'.shown = <<>>
    BY <1>a, <1>c, <2>1, Names
  <2>4. CASE view'.thread = view.thread
    BY <1>a, <1>b, <2>1, <2>3, <2>4 DEF Fits, Published
  <2>5. CASE view'.thread = Fresh /\ view.thread # Fresh /\ send.to = Fresh
    <3>1. ~Void(Odd) => view.thread = None /\ view.shown = <<>> /\ Fits(Fresh, <<>>, 0)
      BY <1>a, <2>1, <2>5
    <3>2. ~Void(Odd) => (\E w \in Nat : Fits(view.thread, view.shown, w))'
      BY <1>d, <2>1, <2>5, <3>1 DEF Fits, Published
    <3>3. QED
      BY <1>b, <2>1, <2>3, <3>2
  <2>6. QED
    BY <2>1, <2>4, <2>5
<1>7. CASE SendFails
  <2>1. /\ UNCHANGED <<turn, log, wire>> /\ view'.thread = view.thread /\ view'.shown = view.shown
        /\ send'.at = "idle"
    BY <1>7, SendFailsDoes DEF NoSend
  <2>2. QED
    BY <1>a, <1>b, <2>1 DEF Fits, Published
<1>8. ASSUME NEW l \in loads, Disconnect(l) PROVE ShownFits'
  BY <1>1, <1>8, DisconnectDoes
<1>9. ASSUME NEW l \in loads, Switch(l) PROVE ShownFits'
  <2>1. UNCHANGED <<turn, log, wire, send>> /\ view'.thread = view.thread /\ view'.shown = view.shown
    BY <1>9, SwitchDoes
  <2>2. QED
    BY <1>1, <2>1
<1>10. ASSUME NEW l \in loads, Loaded(l) PROVE ShownFits'
  <2>1. CASE view' = view
    BY <1>1, <1>10, <2>1, LoadedDoes
  <2>2. CASE /\ view'.thread = l.to
             /\ view'.shown = [i \in 1..l.items |-> Message("cursor", l.to, i, TRUE)]
    <3>1. UNCHANGED <<turn, log, wire, send, odd>> /\ l.read = {"row", "items"}
      BY <1>10, LoadedDoes
    <3>2. l.to \in Threads /\ l.items \in Nat
      BY DEF Typed, Loads
    <3>3. ~Void(Odd) => send.at = "idle"
      BY DEF Underway, Void
    <3>4. ~Void(Odd) => Resting(l.to) /\ l.items = log[l.to]
      BY <3>1 DEF ReadsRest, Void
    <3> PICK s : s = [i \in 1..l.items |-> Message("cursor", l.to, i, TRUE)]
      OBVIOUS
    <3>5. /\ Len(s) = l.items
          /\ \A i \in 1..l.items : s[i].whole /\ s[i].id[2] = l.to /\ s[i].id[3] = i
      BY <3>2, SnapshotIs DEF Message
    <3>6. Fit(<<>>, l.items, FALSE, l.to, s, l.items)
      BY <3>2, <3>5, FitAtRest
    <3>7. ASSUME ~Void(Odd) PROVE Fits(l.to, s, l.items)
      <4>1. wire[l.to] = <<>> /\ turn[l.to] \notin Busy /\ log[l.to] = l.items
        BY <3>4, <3>7 DEF Resting
      <4>2. turn[l.to] # "saving" /\ turn[l.to] # "writing"
        BY <4>1 DEF Busy, Streaming
      <4>3. QED
        BY <3>6, <4>1, <4>2 DEF Fits, Published
    <3>8. ~Void(Odd) => (\E w \in Nat : Fits(view.thread, view.shown, w))'
      BY <2>2, <3>1, <3>2, <3>7 DEF Fits, Published
    <3>9. QED
      BY <1>b, <2>2, <3>1, <3>2, <3>3, <3>8, Names
  <2>3. QED
    BY <1>10, <2>1, <2>2, LoadedDoes
<1>11. ASSUME NEW l \in loads, LoadFails(l) PROVE ShownFits'
  <2>1. CASE view' = view
    BY <1>1, <1>11, <2>1, LoadFailsDoes
  <2>2. CASE view'.thread = None /\ view'.shown = <<>>
    <3>1. send' = send
      BY <1>11, LoadFailsDoes
    <3>2. ~Void(Odd) => send.at = "idle"
      BY DEF Underway, Void
    <3>3. QED
      BY <1>b, <2>2, <3>1, <3>2
  <2>3. QED
    BY <1>11, <2>1, <2>2, LoadFailsDoes
<1>12. ASSUME NEW l \in loads, NEW what \in {"row", "items"}, Reads(l, what) PROVE ShownFits'
  BY <1>1, <1>12, ReadsDoes
<1>13. ASSUME NEW t \in Threads, Receive(t) PROVE ShownFits'
  <2>1. /\ UNCHANGED <<turn, log, send>> /\ wire[t] # <<>> /\ wire[t] \in Seq(Frames)
        /\ Head(wire[t]) \in Frames /\ wire'[t] = Tail(wire[t])
        /\ \A u \in Threads : u # t => wire'[u] = wire[u]
        /\ view'.thread = view.thread
        /\ view.thread # t => view' = view
    BY <1>13, ReceiveDoes
  <2>2. ~Void(Odd)' => ~(t = Fresh /\ send.at = "posted" /\ view.thread # t)
    BY <1>13, ReceiveDoes DEF Void
  <2>3. view'.thread = None => view'.shown = <<>>
    BY <1>a, <2>1, Names
  <2>4. ASSUME ~Void(Odd), view.thread = t
        PROVE  (\E w \in Nat : Fits(view.thread, view.shown, w))'
    <3>1. PICK w \in Nat : Fits(t, view.shown, w)
      BY <1>a, <2>4, Names
    <3> PICK f : f = wire[t]
      OBVIOUS
    <3> PICK h : h = Head(f)
      OBVIOUS
    <3> PICK s : s = view.shown
      OBVIOUS
    <3> PICK r : r = view'.shown
      OBVIOUS
    <3> PICK m : m = Message("item", t, h.n, h.kind = "done")
      OBVIOUS
    <3>2. h.n \in Nat /\ (h.kind = "done") \in BOOLEAN
      BY <2>1 DEF Frames
    <3>3. m \in Texts /\ m.id = <<"item", t, h.n>> /\ (h.kind = "done" => m.whole)
      BY <3>2, MessageIs DEF Message
    <3>4. r = IF h.kind = "delta" THEN AddPart(s, Message("item", t, h.n, FALSE))
              ELSE IF h.kind = "done" THEN Upsert(s, Message("item", t, h.n, TRUE)) ELSE s
      BY <1>13, <2>4, ReceiveDoes
    <3>5. h.kind = "delta" => m = Message("item", t, h.n, FALSE)
      OBVIOUS
    <3>6. h.kind = "done" => m = Message("item", t, h.n, TRUE)
      OBVIOUS
    <3>7. /\ h.kind = "delta" => r = AddPart(s, m)
          /\ h.kind = "done" => r = Upsert(s, m)
          /\ h.kind \notin {"done", "delta"} => r = s
      BY <3>4, <3>5, <3>6
    <3>8. /\ f \in Seq(Frames) /\ f # <<>> /\ Published(t) \in Nat
          /\ (turn[t] = "writing") \in BOOLEAN /\ s \in Seq(Texts)
      <4>1. log[t] \in Nat
        BY Names DEF Typed
      <4>2. QED
        BY <1>c, <2>1, <4>1 DEF Published
    <3>9. Fit(f, Published(t), turn[t] = "writing", t, s, w)
      BY <3>1 DEF Fits
    <3>10. \E v \in Nat : Fit(Tail(f), Published(t), turn[t] = "writing", t, r, v)
      <4>1. /\ m.id = <<"item", t, Head(f).n>> /\ (Head(f).kind = "done" => m.whole)
            /\ Head(f).kind = "delta" => r = AddPart(s, m)
            /\ Head(f).kind = "done" => r = Upsert(s, m)
            /\ Head(f).kind \notin {"done", "delta"} => r = s
        BY <3>3, <3>7
      <4> PICK p \in Nat : p = Published(t)
        BY <3>8
      <4> PICK wr \in BOOLEAN : wr = (turn[t] = "writing")
        BY <3>8
      <4>2. s \in Seq(Texts) /\ f \in Seq(Frames) /\ f # <<>> /\ m \in Texts
        BY <3>3, <3>8
      <4>3. Fit(f, p, wr, t, s, w)
        BY <3>9
      <4>4. \E v \in Nat : Fit(Tail(f), p, wr, t, r, v)
        BY <4>1, <4>2, <4>3, FitTakes
      <4>5. QED
        BY <4>4
    <3>11. Published(t)' = Published(t) /\ turn'[t] = turn[t] /\ wire'[t] = Tail(f)
      BY <2>1 DEF Published
    <3>12. QED
      BY <2>1, <2>4, <3>10, <3>11 DEF Fits
  <2>5. ASSUME ~Void(Odd), view.thread # t, view.thread # None
        PROVE  (\E w \in Nat : Fits(view.thread, view.shown, w))'
    BY <1>a, <1>c, <2>1, <2>5 DEF Fits, Published
  <2>6. ASSUME ~Void(Odd)', ~Void(Odd), send.at = "posted" /\ send.to = Fresh /\ view.thread = None
        PROVE  Fits(Fresh, <<>>, 0)'
    <3>1. t # Fresh /\ Fits(Fresh, <<>>, 0)
      BY <1>a, <2>2, <2>6, Names
    <3>2. QED
      BY <1>c, <1>e, <2>1, <3>1
  <2>7. QED
    BY <1>a, <1>b, <2>1, <2>3, <2>4, <2>5, <2>6
<1>14. ASSUME NEW t \in Threads, LoseFrame(t) PROVE ShownFits'
  <2>1. view' = view /\ "lost" \in odd'
    BY <1>14, LoseDoes
  <2>2. QED
    BY <1>a, <1>b, <2>1 DEF Void
<1>15. ASSUME NEW t \in Threads, WorkerStep(t) PROVE ShownFits'
  <2>1. UNCHANGED <<view, send>>
    BY <1>15, WorkerDoes
  <2>2. \A u \in Threads, s \in Seq(Texts), w \in Nat : Fits(u, s, w) => Fits(u, s, w)'
    BY <1>15, WorkerKeepsFit
  <2>3. ~Void(Odd) /\ view.thread # None => (\E w \in Nat : Fits(view.thread, view.shown, w))'
    BY <1>a, <1>c, <2>1, <2>2
  <2>4. QED
    BY <1>a, <1>b, <1>c, <1>d, <2>1, <2>2, <2>3
<1>16. QED
  BY <1>1, <1>2, <1>3, <1>4, <1>5, <1>6, <1>7, <1>8, <1>9, <1>10, <1>11, <1>12, <1>13,
     <1>14, <1>15 DEF ClientNext, User, Answer, Fault, WorkerStep, clientVars
-----------------------------------------------------------------------------
(* Where the last click leads while it is under way. *)
Wants ==
  ~Void({"crossed", "failed"}) =>
    /\ view.phase # "error"
    /\ view.phase = "loading" => \E l \in loads : l.gen = generation
    /\ (\A l \in loads : l.gen # generation) /\ (send.at = "idle" \/ send.to \notin {None, Fresh})
         => view.thread = wanted
    /\ send.at = "post" /\ send.to = None => wanted = Fresh
    /\ send.at # "idle" /\ send.to # None => wanted = send.to
    /\ send.at # "idle" /\ send.to \notin {None, Fresh} => view.thread = send.to

LEMMA WantsNext ==
  ASSUME Typed, Underway, Wants, [ClientNext]_clientVars
  PROVE  Wants'
<1> odd \subseteq odd'
  BY TypedNext
<1> SUFFICES ASSUME "crossed" \notin odd', "failed" \notin odd', "crossed" \notin odd, "failed" \notin odd
             PROVE  Wants'
  BY DEF Wants, Void
<1>a. /\ view.phase # "error"
      /\ view.phase = "loading" => \E l \in loads : l.gen = generation
      /\ (\A l \in loads : l.gen # generation) /\ (send.at = "idle" \/ send.to \notin {None, Fresh})
           => view.thread = wanted
      /\ send.at = "post" /\ send.to = None => wanted = Fresh
      /\ send.at # "idle" /\ send.to # None => wanted = send.to
      /\ send.at # "idle" /\ send.to \notin {None, Fresh} => view.thread = send.to
  BY DEF Wants, Void
<1>b. loads = {} \/ send.at = "idle"
  BY DEF Underway
<1>c. view \in Views /\ send.to \in Threads \cup {None} /\ Fresh # None /\ (send.at = "posted" => send.to # None)
  BY Names DEF Typed
<1>1. ASSUME UNCHANGED <<generation, send, wanted>>, view'.thread = view.thread,
             view'.phase \in {view.phase, "idle"},
             \A l \in loads : l.gen = generation => \E m \in loads' : m.gen = generation
      PROVE  Wants'
  BY <1>1, <1>a DEF Wants
<1>2. CASE SendMessage
  <2>1. /\ UNCHANGED <<generation, loads>> /\ send.at = "idle" /\ send'.at = "post"
        /\ view'.thread = view.thread /\ view'.phase = "streaming" /\ loads = {}
        /\ \/ send'.to = None /\ wanted' = Fresh
           \/ send'.to = view.thread /\ send'.to # None /\ wanted' = wanted
    BY <1>2, SendMessageDoes
  <2>2. view.thread = wanted
    BY <1>a, <2>1
  <2>3. QED
    BY <2>1, <2>2 DEF Wants
<1>3. CASE ResetConversation
  <2>1. /\ view'.thread = None /\ view'.phase = "idle" /\ wanted' = None
        /\ send' = send /\ send.at = "idle"
    BY <1>3, ResetDoes, EmptyIs
  <2>2. QED
    BY <2>1 DEF Wants
<1>4. ASSUME NEW t \in Threads, LoadThread(t) PROVE Wants'
  <2>1. CASE UNCHANGED <<generation, loads, view, wanted, odd>>
    BY <1>1, <1>4, <2>1, LoadThreadDoes
  <2>2. ASSUME NEW l \in Loads, loads' = loads \cup {l}, l.gen = generation + 1,
               generation' = generation + 1, send.at = "idle", send' = send,
               view'.phase \in {"loading", view.phase}
        PROVE  Wants'
    BY <1>a, <2>2 DEF Wants
  <2>3. QED
    BY <1>4, <2>1, <2>2, LoadThreadDoes
<1>5. CASE Accept
  <2> PICK t \in Threads : /\ t = IF send.to = None THEN Fresh ELSE send.to
                           /\ send' = [at |-> "posted", to |-> t]
    BY <1>5, AcceptDoes
  <2>1. UNCHANGED <<view, generation, loads, wanted>> /\ send.at = "post"
    BY <1>5, AcceptDoes
  <2>2. send'.at = "posted" /\ send'.to = t /\ t # None
    BY Names
  <2>3. wanted = t /\ (t # Fresh => view.thread = t)
    BY <1>a, <1>c, <2>1
  <2>4. QED
    BY <1>a, <2>1, <2>2, <2>3 DEF Wants
<1>6. CASE Sent
  <2>1. /\ UNCHANGED <<generation, loads, wanted>> /\ send.at = "posted"
        /\ send'.at = "idle" /\ send'.to = None /\ view'.phase = view.phase
        /\ view'.thread = IF send.to = Fresh THEN Fresh ELSE view.thread
    BY <1>6, SentDoes DEF NoSend
  <2>2. view'.thread = wanted
    BY <1>a, <1>c, <2>1
  <2>3. QED
    BY <1>a, <2>1, <2>2 DEF Wants
<1>7. CASE SendFails
  BY <1>7, SendFailsDoes
<1>8. ASSUME NEW l \in loads, NEW m, Alike(m, l), loads' = (loads \ {l}) \cup {m},
             UNCHANGED <<generation, send, wanted>>, view'.thread = view.thread,
             view'.phase = view.phase \/ (view'.phase = "loading" /\ l.gen = generation)
      PROVE  Wants'
  BY <1>8, <1>a DEF Wants, Alike
<1>9. ASSUME NEW l \in loads, Disconnect(l) PROVE Wants'
  BY <1>8, <1>9, DisconnectDoes
<1>10. ASSUME NEW l \in loads, Switch(l) PROVE Wants'
  <2>1. UNCHANGED <<generation, send, wanted>>
    BY <1>10, SwitchDoes
  <2>2. CASE l.gen # generation /\ loads' = loads \ {l} /\ view' = view
    BY <1>1, <2>1, <2>2
  <2>3. ASSUME NEW m \in Loads, loads' = (loads \ {l}) \cup {m}, Alike(m, l), l.gen = generation,
               view'.thread = view.thread, view'.phase = "loading"
        PROVE  Wants'
    BY <1>8, <2>1, <2>3
  <2>4. QED
    BY <1>10, <2>2, <2>3, SwitchDoes
<1>11. ASSUME NEW l \in loads, Loaded(l) PROVE Wants'
  <2>1. UNCHANGED <<generation, send, wanted>> /\ loads' = loads \ {l} /\ send.at = "idle"
    BY <1>b, <1>11, LoadedDoes
  <2>2. CASE l.gen # generation /\ view' = view
    BY <1>1, <2>1, <2>2
  <2>3. CASE l.gen = generation /\ view'.thread = l.to /\ view'.phase \in {"streaming", "idle"}
    <3>1. l.to = wanted
      BY <2>3 DEF Underway
    <3>2. QED
      BY <2>1, <2>3, <3>1 DEF Wants
  <2>4. QED
    BY <1>11, <2>2, <2>3, LoadedDoes
<1>12. ASSUME NEW l \in loads, LoadFails(l) PROVE Wants'
  <2>1. UNCHANGED <<generation, send, wanted>> /\ loads' = loads \ {l} /\ l.gen # generation /\ view' = view
    BY <1>12, LoadFailsDoes
  <2>2. QED
    BY <1>1, <2>1
<1>13. ASSUME NEW l \in loads, NEW what \in {"row", "items"}, Reads(l, what) PROVE Wants'
  BY <1>8, <1>13, ReadsDoes
<1>14. ASSUME NEW t \in Threads, Receive(t) PROVE Wants'
  <2>1. /\ UNCHANGED <<generation, loads, send, wanted>> /\ view'.thread = view.thread
        /\ view'.phase \in {view.phase, "idle"}
    BY <1>14, ReceiveDoes
  <2>2. QED
    BY <1>1, <2>1
<1>15. ASSUME NEW t \in Threads, LoseFrame(t) \/ WorkerStep(t) PROVE Wants'
  <2>1. UNCHANGED <<view, generation, loads, send, wanted>>
    BY <1>15, LoseDoes, WorkerDoes
  <2>2. QED
    BY <1>1, <2>1
<1>16. CASE UNCHANGED clientVars
  BY <1>1, <1>16 DEF clientVars
<1>17. QED
  BY <1>2, <1>3, <1>4, <1>5, <1>6, <1>7, <1>9, <1>10, <1>11, <1>12, <1>13, <1>14, <1>15, <1>16
     DEF ClientNext, User, Answer, Fault, WorkerStep
-----------------------------------------------------------------------------
(* A turn is to come, is there, or has its end on the wire. *)
Ended(t) == \E i \in DOMAIN wire[t] : wire[t][i].kind = "completed"
Ongoing(t) == inputs[t] > 0 \/ turn[t] \in Streaming \/ Ended(t)

(* There is one turn at most, and one end of it. *)
Single(t) ==
  /\ inputs[t] \in {0, 1}
  /\ inputs[t] = 1 => turn[t] \notin Streaming /\ ~Ended(t)
  /\ turn[t] \in Streaming => ~Ended(t)
  /\ \A i, j \in DOMAIN wire[t] :
       wire[t][i].kind = "completed" /\ wire[t][j].kind = "completed" => i = j

(* The ends among the frames when one is added. *)
LEMMA EndsGrow ==
  ASSUME NEW f \in Seq(Frames), NEW e \in Frames, NEW g, g = Append(f, e)
  PROVE  /\ (\E i \in DOMAIN f : f[i].kind = "completed") => \E i \in DOMAIN g : g[i].kind = "completed"
         /\ e.kind = "completed" => \E i \in DOMAIN g : g[i].kind = "completed"
         /\ e.kind # "completed" =>
              /\ (\E i \in DOMAIN g : g[i].kind = "completed") => \E i \in DOMAIN f : f[i].kind = "completed"
              /\ (\A i, j \in DOMAIN f : f[i].kind = "completed" /\ f[j].kind = "completed" => i = j)
                   => \A i, j \in DOMAIN g : g[i].kind = "completed" /\ g[j].kind = "completed" => i = j
         /\ ~(\E i \in DOMAIN f : f[i].kind = "completed")
              => \A i, j \in DOMAIN g : g[i].kind = "completed" /\ g[j].kind = "completed" => i = j
<1>1. /\ DOMAIN g = 1..Len(f) + 1 /\ DOMAIN f = 1..Len(f) /\ Len(f) \in Nat
      /\ \A i \in DOMAIN f : g[i] = f[i]
      /\ g[Len(f) + 1] = e
  BY Appended
<1>2. \A i \in DOMAIN g : (i \in DOMAIN f /\ g[i] = f[i]) \/ (i = Len(f) + 1 /\ g[i] = e)
  BY <1>1
<1>3. DOMAIN f \subseteq DOMAIN g /\ Len(f) + 1 \in DOMAIN g
  BY <1>1
<1>4. QED
  BY <1>1, <1>2, <1>3

LEMMA WorkerGoesOn ==
  ASSUME Typed, NEW t \in Threads, WorkerStep(t), NEW u \in Threads
  PROVE  /\ Ongoing(u) => Ongoing(u)'
         /\ turn[t] # "waiting_children" =>
              /\ Ongoing(u)' => Ongoing(u)
              /\ "tools" \notin odd' /\ Single(u) => Single(u)'
<1>1. CASE u # t
  BY <1>1, WorkerDoes DEF Ongoing, Ended, Single
<1>2. CASE u = t
  <2> PICK f : f = wire[t]
    OBVIOUS
  <2>1. f \in Seq(Frames) /\ inputs[t] \in Nat /\ log[t] \in Nat
    BY Names DEF Typed
  <2>2. Does(t)
    BY WorkerDoes
  <2>3. CASE /\ inputs[t] > 0 /\ turn[t] \in {"new", "ready", "cancelled", "waiting_children"}
             /\ turn'[t] = "running" /\ inputs'[t] = inputs[t] - 1 /\ wire'[t] = f
    BY <1>2, <2>1, <2>3 DEF Ongoing, Ended, Single, Streaming
  <2>4. ASSUME NEW e \in Frames, e.kind # "completed", wire'[t] = Append(f, e),
               inputs'[t] = inputs[t], turn[t] \in Streaming, turn'[t] \in Streaming
        PROVE  /\ Ongoing(u) /\ Ongoing(u)'
               /\ Single(u) => Single(u)'
    <3> PICK g : g = Append(f, e)
      OBVIOUS
    <3>1. Ongoing(t) /\ Ongoing(t)'
      BY <2>4 DEF Ongoing
    <3>2. /\ (\E i \in DOMAIN g : g[i].kind = "completed") => \E i \in DOMAIN f : f[i].kind = "completed"
          /\ (\A i, j \in DOMAIN f : f[i].kind = "completed" /\ f[j].kind = "completed" => i = j)
               => \A i, j \in DOMAIN g : g[i].kind = "completed" /\ g[j].kind = "completed" => i = j
      BY <2>1, <2>4, EndsGrow
    <3>3. Single(t) => Single(t)'
      BY <2>4, <3>2 DEF Single, Ended
    <3>4. QED
      BY <1>2, <3>1, <3>3
  <2>5. CASE /\ turn[t] = "running" /\ turn'[t] = "running" /\ UNCHANGED inputs
             /\ wire'[t] = Append(wire[t], [kind |-> "thinking", n |-> log[t] + 1])
    <3>1. [kind |-> "thinking", n |-> log[t] + 1] \in Frames
      BY <2>1 DEF Frames
    <3>2. QED
      BY <2>4, <2>5, <3>1 DEF Streaming
  <2>6. CASE /\ turn[t] = "running" /\ turn'[t] = "writing" /\ UNCHANGED inputs
             /\ wire'[t] = Append(wire[t], [kind |-> "delta", n |-> log[t] + 1])
    <3>1. [kind |-> "delta", n |-> log[t] + 1] \in Frames
      BY <2>1 DEF Frames
    <3>2. QED
      BY <2>4, <2>6, <3>1 DEF Streaming
  <2>7. CASE /\ turn[t] \in {"running", "writing"} /\ turn'[t] = "saving" /\ UNCHANGED inputs
             /\ wire'[t] = Append(wire[t], [kind |-> "done", n |-> log[t] + 1])
    <3>1. [kind |-> "done", n |-> log[t] + 1] \in Frames
      BY <2>1 DEF Frames
    <3>2. QED
      BY <2>4, <2>7, <3>1 DEF Streaming
  <2>8. CASE turn[t] = "saving" /\ turn'[t] = "said" /\ UNCHANGED <<inputs, wire>>
    BY <1>2, <2>8 DEF Ongoing, Ended, Single, Streaming
  <2>9. CASE /\ turn[t] \in {"running", "said"}
             /\ wire'[t] = Append(wire[t], [kind |-> "completed", n |-> 0]) /\ UNCHANGED inputs
             /\ turn'[t] = "ready" \/ "tools" \in odd'
    <3> PICK e : e = [kind |-> "completed", n |-> 0]
      OBVIOUS
    <3> PICK g : g = Append(f, e)
      OBVIOUS
    <3>1. e \in Frames /\ e.kind = "completed"
      BY DEF Frames
    <3>2. wire'[t] = g
      BY <2>9
    <3>3. /\ \E i \in DOMAIN g : g[i].kind = "completed"
          /\ ~(\E i \in DOMAIN f : f[i].kind = "completed")
               => \A i, j \in DOMAIN g : g[i].kind = "completed" /\ g[j].kind = "completed" => i = j
      BY <2>1, <3>1, EndsGrow
    <3>4. Ongoing(t) /\ Ongoing(t)'
      BY <2>9, <3>2, <3>3 DEF Ongoing, Ended, Streaming
    <3>5. "tools" \notin odd' /\ Single(t) => Single(t)'
      BY <2>9, <3>2, <3>3 DEF Single, Ended, Streaming
    <3>6. QED
      BY <1>2, <3>4, <3>5
  <2>10. CASE turn[t] = "waiting_children" /\ turn'[t] = "running" /\ UNCHANGED <<inputs, wire>>
              /\ odd' = odd
    <3>1. Ongoing(t)'
      BY <2>10 DEF Ongoing, Streaming
    <3>2. QED
      BY <1>2, <2>10, <3>1
  <2>11. CASE /\ turn[t] \notin Streaming /\ turn'[t] \in {turn[t], "cancelled"}
              /\ UNCHANGED <<inputs, wire>>
    BY <1>2, <2>11 DEF Ongoing, Ended, Single, Streaming
  <2>12. QED
    BY <2>2, <2>3, <2>5, <2>6, <2>7, <2>8, <2>9, <2>10, <2>11 DEF Does
<1>3. QED
  BY <1>1, <1>2

(* A view that is busy is so with a turn that has not ended. *)
StreamsOn ==
  odd \subseteq {"tools", "continued"} =>
    /\ view.phase = "streaming" /\ send.at = "idle" => view.thread # None /\ Ongoing(view.thread)
    /\ view.phase = "streaming" /\ send.at = "posted" => Ongoing(send.to)

LEMMA ReceivedEnds ==
  ASSUME Typed, NEW t \in Threads, Receive(t), NEW u \in Threads
  PROVE  /\ Ongoing(u)' => Ongoing(u)
         /\ Head(wire[t]).kind # "completed" \/ u # t => (Ongoing(u) => Ongoing(u)')
         /\ Head(wire[t]).kind = "completed" => Ended(t)
         /\ Head(wire[t]).kind = "completed" /\ Single(t) => ~Ongoing(t)'
         /\ Single(u) => Single(u)'
<1> PICK f : f = wire[t]
  OBVIOUS
<1> PICK g : g = Tail(f)
  OBVIOUS
<1>1. /\ UNCHANGED <<turn, inputs>> /\ f # <<>> /\ f \in Seq(Frames)
      /\ wire'[t] = g /\ \A v \in Threads : v # t => wire'[v] = wire[v]
  BY ReceiveDoes
<1>2. /\ DOMAIN g = 1..Len(f) - 1 /\ DOMAIN f = 1..Len(f) /\ Len(f) \in Nat /\ Len(f) > 0
      /\ \A i \in DOMAIN g : g[i] = f[i + 1]
      /\ Head(f) = f[1]
  BY <1>1, Taken
<1>3. /\ 1 \in DOMAIN f
      /\ \A i \in DOMAIN g : i + 1 \in DOMAIN f /\ g[i] = f[i + 1] /\ i + 1 # 1
      /\ \A i \in DOMAIN f : i # 1 => (i - 1) \in DOMAIN g /\ g[i - 1] = f[i]
      /\ \A i, j \in DOMAIN g : i + 1 = j + 1 => i = j
  BY <1>2
<1>4. (\E i \in DOMAIN g : g[i].kind = "completed") => \E i \in DOMAIN f : f[i].kind = "completed"
  BY <1>3
<1>5. Head(f).kind # "completed" /\ (\E i \in DOMAIN f : f[i].kind = "completed")
        => \E i \in DOMAIN g : g[i].kind = "completed"
  <2> SUFFICES ASSUME Head(f).kind # "completed", NEW i \in DOMAIN f, f[i].kind = "completed"
               PROVE  \E k \in DOMAIN g : g[k].kind = "completed"
    OBVIOUS
  <2>1. i # 1
    BY <1>2
  <2>2. (i - 1) \in DOMAIN g /\ g[i - 1] = f[i]
    BY <1>3, <2>1
  <2>3. QED
    BY <2>2
<1>6. (\A i, j \in DOMAIN f : f[i].kind = "completed" /\ f[j].kind = "completed" => i = j)
        => /\ \A i, j \in DOMAIN g : g[i].kind = "completed" /\ g[j].kind = "completed" => i = j
           /\ Head(f).kind = "completed" => ~\E i \in DOMAIN g : g[i].kind = "completed"
  <2> SUFFICES ASSUME \A i, j \in DOMAIN f :
                        f[i].kind = "completed" /\ f[j].kind = "completed" => i = j
               PROVE  /\ \A i, j \in DOMAIN g :
                           g[i].kind = "completed" /\ g[j].kind = "completed" => i = j
                      /\ Head(f).kind = "completed" => ~\E i \in DOMAIN g : g[i].kind = "completed"
    OBVIOUS
  <2>1. ASSUME NEW i \in DOMAIN g, NEW j \in DOMAIN g, g[i].kind = "completed", g[j].kind = "completed"
        PROVE  i = j
    <3>1. i + 1 \in DOMAIN f /\ j + 1 \in DOMAIN f /\ g[i] = f[i + 1] /\ g[j] = f[j + 1]
      BY <1>3
    <3>2. i + 1 = j + 1
      BY <2>1, <3>1
    <3>3. QED
      BY <1>3, <3>2
  <2>2. ASSUME Head(f).kind = "completed", NEW i \in DOMAIN g, g[i].kind = "completed" PROVE FALSE
    <3>1. i + 1 \in DOMAIN f /\ g[i] = f[i + 1] /\ i + 1 # 1 /\ 1 \in DOMAIN f
      BY <1>3
    <3>2. f[1].kind = "completed" /\ f[i + 1].kind = "completed"
      BY <1>2, <2>2, <3>1
    <3>3. QED
      BY <3>1, <3>2
  <2>3. QED
    BY <2>1, <2>2
<1>7. Head(f).kind = "completed" => Ended(t)
  BY <1>2, <1>3 DEF Ended
<1>8. Head(f).kind = "completed" /\ Single(t) => ~Ongoing(t)'
  BY <1>1, <1>6, <1>7 DEF Single, Ongoing, Ended
<1>9. CASE u # t
  BY <1>1, <1>7, <1>8, <1>9 DEF Ongoing, Ended, Single
<1>10. CASE u = t
  <2>1. Ended(t)' => Ended(t)
    BY <1>1, <1>4 DEF Ended
  <2>2. Ongoing(u)' => Ongoing(u)
    BY <1>1, <1>10, <2>1 DEF Ongoing
  <2>3. Head(f).kind # "completed" => (Ongoing(u) => Ongoing(u)')
    BY <1>1, <1>5, <1>10 DEF Ongoing, Ended
  <2>4. Single(u) => Single(u)'
    BY <1>1, <1>6, <1>10, <2>1 DEF Single
  <2>5. QED
    BY <1>7, <1>8, <1>10, <2>2, <2>3, <2>4
<1>11. QED
  BY <1>9, <1>10

LEMMA StreamsOnNext ==
  ASSUME Typed, Underway, Births, ReadsRest, Wants, StreamsOn, [ClientNext]_clientVars
  PROVE  StreamsOn'
<1> odd \subseteq odd'
  BY TypedNext
<1> SUFFICES ASSUME odd' \subseteq {"tools", "continued"}, odd \subseteq {"tools", "continued"}
             PROVE  StreamsOn'
  BY DEF StreamsOn
<1>a. /\ view.phase = "streaming" /\ send.at = "idle" => view.thread # None /\ Ongoing(view.thread)
      /\ view.phase = "streaming" /\ send.at = "posted" => Ongoing(send.to)
  BY DEF StreamsOn
<1>b. /\ "crossed" \notin odd' /\ "failed" \notin odd' /\ "busy" \notin odd' /\ "lost" \notin odd'
      /\ "early" \notin odd' /\ "crossed" \notin odd /\ "busy" \notin odd
  OBVIOUS
<1>c. send.at = "posted" => send.to \in Threads /\ (send.to # Fresh => view.thread = send.to)
  BY Names DEF Wants, Void, Typed
<1>d. view.thread \in Threads \cup {None}
  BY DEF Typed, Views
<1>1. ASSUME UNCHANGED send, view'.thread = view.thread, view'.phase = view.phase \/ view'.phase # "streaming",
             \A u \in Threads : Ongoing(u) => Ongoing(u)'
      PROVE  StreamsOn'
  BY <1>1, <1>a, <1>c, <1>d DEF StreamsOn
<1>2. ASSUME UNCHANGED <<turn, inputs, wire, send>>, view'.thread = view.thread,
             view'.phase = view.phase \/ view'.phase # "streaming"
      PROVE  StreamsOn'
  BY <1>1, <1>2 DEF Ongoing, Ended
<1>3. CASE SendMessage
  <2>1. send'.at = "post"
    BY <1>3, SendMessageDoes
  <2>2. QED
    BY <2>1 DEF StreamsOn
<1>4. CASE ResetConversation
  <2>1. view'.phase # "streaming"
    BY <1>4, ResetDoes, EmptyIs
  <2>2. QED
    BY <2>1 DEF StreamsOn
<1>5. ASSUME NEW t \in Threads, LoadThread(t) PROVE StreamsOn'
  <2>1. /\ UNCHANGED <<turn, inputs, wire, send>> /\ view'.thread = view.thread
        /\ view'.phase = view.phase \/ view'.phase # "streaming"
    BY <1>5, LoadThreadDoes
  <2>2. QED
    BY <1>2, <2>1
<1>6. CASE Accept
  <2> PICK t \in Threads : send' = [at |-> "posted", to |-> t] /\ inputs'[t] = inputs[t] + 1
    BY <1>6, AcceptDoes
  <2>1. inputs'[t] > 0
    BY DEF Typed
  <2>2. send'.at = "posted" /\ send'.to = t
    OBVIOUS
  <2>3. Ongoing(t)'
    BY <2>1 DEF Ongoing
  <2>4. QED
    BY <2>2, <2>3 DEF StreamsOn
<1>7. CASE Sent
  <2>1. /\ UNCHANGED <<turn, inputs, wire>> /\ send.at = "posted" /\ send'.at = "idle"
        /\ view'.phase = view.phase
        /\ view'.thread = IF send.to = Fresh THEN Fresh ELSE view.thread
    BY <1>7, SentDoes DEF NoSend
  <2> PICK v : v = send.to
    OBVIOUS
  <2>2. view'.thread = v /\ v # None
    BY <1>c, <2>1, Names
  <2>3. view.phase = "streaming" => Ongoing(v)'
    BY <1>a, <2>1 DEF Ongoing, Ended
  <2>4. QED
    BY <2>1, <2>2, <2>3 DEF StreamsOn
<1>8. CASE SendFails
  BY <1>8, SendFailsDoes
<1>9. ASSUME NEW l \in loads, Disconnect(l) PROVE StreamsOn'
  BY <1>2, <1>9, DisconnectDoes
<1>10. ASSUME NEW l \in loads, Switch(l) PROVE StreamsOn'
  <2>1. /\ UNCHANGED <<turn, inputs, wire, send>> /\ view'.thread = view.thread
        /\ view'.phase = view.phase \/ view'.phase # "streaming"
    BY <1>10, SwitchDoes
  <2>2. QED
    BY <1>2, <2>1
<1>11. ASSUME NEW l \in loads, Loaded(l) PROVE StreamsOn'
  <2>1. UNCHANGED <<turn, inputs, wire, send>> /\ l.read = {"row", "items"}
    BY <1>11, LoadedDoes
  <2>2. CASE view' = view
    BY <1>2, <2>1, <2>2
  <2>3. CASE view'.phase = IF l.status \in Busy \cup {"new"} THEN "streaming" ELSE "idle"
    <3>1. l.status \notin Busy \cup {"new"}
      BY <2>1 DEF ReadsRest, Void
    <3>2. QED
      BY <2>3, <3>1 DEF StreamsOn
  <2>4. QED
    BY <1>11, <2>2, <2>3, LoadedDoes
<1>12. ASSUME NEW l \in loads, LoadFails(l) PROVE StreamsOn'
  <2>1. UNCHANGED <<turn, inputs, wire, send>> /\ view' = view
    BY <1>b, <1>12, LoadFailsDoes
  <2>2. QED
    BY <1>2, <2>1
<1>13. ASSUME NEW l \in loads, NEW what \in {"row", "items"}, Reads(l, what) PROVE StreamsOn'
  BY <1>2, <1>13, ReadsDoes
<1>14. ASSUME NEW t \in Threads, Receive(t) PROVE StreamsOn'
  <2>1. /\ send' = send /\ view'.thread = view.thread
        /\ view.thread # t => view' = view
        /\ view.thread = t =>
             view'.phase = IF Head(wire[t]).kind = "completed" THEN "idle" ELSE view.phase
    BY <1>14, ReceiveDoes
  <2>2. ~(t = Fresh /\ send.at = "posted" /\ view.thread # t)
    BY <1>14, ReceiveDoes
  <2>3. \A u \in Threads : Head(wire[t]).kind # "completed" \/ u # t => (Ongoing(u) => Ongoing(u)')
    BY <1>14, ReceivedEnds
  <2>4. CASE view.thread = t /\ Head(wire[t]).kind = "completed"
    BY <2>1, <2>4 DEF StreamsOn
  <2>5. CASE Head(wire[t]).kind # "completed"
    BY <1>1, <2>1, <2>3, <2>5
  <2>6. CASE view.thread # t
    <3>1. send.at = "posted" => send.to # t
      BY <1>c, <2>2, <2>6
    <3>2. \A u \in Threads : u # t => (Ongoing(u) => Ongoing(u)')
      BY <2>3
    <3>3. QED
      BY <1>a, <1>c, <1>d, <2>1, <2>6, <3>1, <3>2 DEF StreamsOn
  <2>7. QED
    BY <2>4, <2>5, <2>6
<1>15. ASSUME NEW t \in Threads, LoseFrame(t) PROVE StreamsOn'
  BY <1>b, <1>15, LoseDoes
<1>16. ASSUME NEW t \in Threads, WorkerStep(t) PROVE StreamsOn'
  <2>1. UNCHANGED <<view, send>>
    BY <1>16, WorkerDoes
  <2>2. \A u \in Threads : Ongoing(u) => Ongoing(u)'
    BY <1>16, WorkerGoesOn
  <2>3. QED
    BY <1>1, <2>1, <2>2
<1>17. CASE UNCHANGED clientVars
  BY <1>2, <1>17 DEF clientVars
<1>18. QED
  BY <1>3, <1>4, <1>5, <1>6, <1>7, <1>8, <1>9, <1>10, <1>11, <1>12, <1>13, <1>14, <1>15, <1>16,
     <1>17 DEF ClientNext, User, Answer, Fault, WorkerStep
-----------------------------------------------------------------------------
(* What browser and worker agree on: who is busy, in the open thread and in one that is left.        *)
Agreed ==
  ~Void({"tools", "crossed", "busy", "lost", "early"}) =>
    /\ \A t \in Threads : /\ turn[t] # "waiting_children"
                          /\ order[t].kind = "cancel" => order[t].asked
    /\ \A l \in loads : l.prev # None /\ ~l.asked => ~Ongoing(l.prev)
    /\ view.thread # None => Single(view.thread)
    /\ view.thread # None /\ Ongoing(view.thread) =>
         \/ view.phase = "streaming"
         \/ \E l \in loads : l.gen = generation /\ l.prev = view.thread /\ l.asked
    /\ send.at = "post" => view.phase = "streaming"
    /\ send.at = "post" /\ view.thread # None => ~Ongoing(view.thread)
    /\ send.at = "post" /\ send.to # None => send.to = view.thread
    /\ send.at = "posted" /\ send.to # view.thread =>
         /\ send.to = Fresh /\ Single(Fresh) /\ view.phase = "streaming"
         /\ view.thread # None => ~Ongoing(view.thread)

LEMMA AgreedNext ==
  ASSUME Typed, Underway, Births, ReadsRest, Agreed, [ClientNext]_clientVars
  PROVE  Agreed'
<1> odd \subseteq odd'
  BY TypedNext
<1> DEFINE Calm == \A t \in Threads : /\ turn[t] # "waiting_children"
                                      /\ order[t].kind = "cancel" => order[t].asked
           Leaves == \A l \in loads : l.prev # None /\ ~l.asked => ~Ongoing(l.prev)
           Open == /\ view.thread # None => Single(view.thread)
                   /\ view.thread # None /\ Ongoing(view.thread) =>
                        \/ view.phase = "streaming"
                        \/ \E l \in loads : l.gen = generation /\ l.prev = view.thread /\ l.asked
           Posts == /\ send.at = "post" => view.phase = "streaming"
                    /\ send.at = "post" /\ view.thread # None => ~Ongoing(view.thread)
                    /\ send.at = "post" /\ send.to # None => send.to = view.thread
                    /\ send.at = "posted" /\ send.to # view.thread =>
                         /\ send.to = Fresh /\ Single(Fresh) /\ view.phase = "streaming"
                         /\ view.thread # None => ~Ongoing(view.thread)
           Odd == {"tools", "crossed", "busy", "lost", "early"}
<1> SUFFICES ASSUME ~Void(Odd)', ~Void(Odd)
             PROVE  Agreed'
  BY Voided DEF Agreed
<1>a. Calm /\ Leaves /\ Open /\ Posts
  BY DEF Agreed
<1>b. ASSUME Calm', Leaves', Open', Posts'
      PROVE  Agreed'
  BY <1>b DEF Agreed
<1>c. /\ "crossed" \notin odd' /\ "busy" \notin odd' /\ "lost" \notin odd' /\ "early" \notin odd'
      /\ "tools" \notin odd' /\ "crossed" \notin odd /\ "busy" \notin odd
  BY DEF Void
<1>d. /\ view.thread \in Threads \cup {None} /\ send.to \in Threads \cup {None}
      /\ \A l \in loads : l.prev \in Threads \cup {None} /\ l.to \in Threads
      /\ Fresh \in Threads /\ None \notin Threads
      /\ send.at = "posted" => send.to # None
  BY Names DEF Typed, Views, Loads
<1>e. loads = {} \/ send.at = "idle"
  BY <1>c DEF Underway
<1> DEFINE Same == UNCHANGED <<turn, inputs, wire>>
<1>f. ASSUME Same, NEW u
      PROVE  (Ongoing(u)' <=> Ongoing(u)) /\ (Single(u)' <=> Single(u))
  BY <1>f DEF Ongoing, Single, Ended
<1>g. ASSUME send'.at = "idle"
      PROVE  Posts'
  BY <1>g
<1> HIDE DEF Calm, Leaves, Open, Posts
<1>1. ASSUME Same, UNCHANGED <<order, loads, generation, send>>, view'.thread = view.thread,
             view'.phase = view.phase
      PROVE  Agreed'
  <2>1. Calm' /\ Leaves' /\ Open' /\ Posts'
    BY <1>1, <1>a, <1>f DEF Calm, Leaves, Open, Posts
  <2>2. QED
    BY <1>b, <2>1
<1>2. CASE SendMessage
  <2>1. /\ Same /\ UNCHANGED <<order, loads, generation>> /\ view'.thread = view.thread
        /\ view'.phase = "streaming" /\ view.phase # "streaming" /\ send'.at = "post"
        /\ send'.to = None \/ send'.to = view.thread
    BY <1>2, SendMessageDoes
  <2>2. loads = {}
    BY <1>2, <1>c, SendMessageDoes
  <2>3. view.thread # None => ~Ongoing(view.thread)
    BY <1>a, <2>1, <2>2 DEF Open
  <2>4. Calm' /\ Leaves' /\ Open'
    BY <1>a, <1>f, <2>1 DEF Calm, Leaves, Open
  <2>5. Posts'
    BY <1>f, <2>1, <2>3 DEF Posts
  <2>6. QED
    BY <1>b, <2>4, <2>5
<1>3. CASE ResetConversation
  <2>1. /\ Same /\ UNCHANGED <<order, loads, send>> /\ view'.thread = None
        /\ send.at = "idle"
    BY <1>3, <1>c, ResetDoes, EmptyIs
  <2>2. Calm' /\ Leaves' /\ Open'
    BY <1>a, <1>f, <2>1 DEF Calm, Leaves, Open
  <2>3. QED
    BY <1>b, <1>g, <2>1, <2>2
<1>4. ASSUME NEW t \in Threads, LoadThread(t) PROVE Agreed'
  <2>1. Same /\ UNCHANGED <<order, send>> /\ view'.thread = view.thread
    BY <1>4, LoadThreadDoes
  <2>2. CASE UNCHANGED <<generation, loads, view, wanted, odd>>
    BY <1>1, <2>1, <2>2
  <2>3. ASSUME NEW l \in Loads, loads' = loads \cup {l}, l.gen = generation + 1,
               l.prev = view.thread,
               l.asked = (InFlight \/ \E m \in loads : m.prev = view.thread /\ m.asked),
               generation' = generation + 1, send.at = "idle",
               view'.phase = IF view.thread = None THEN "loading" ELSE view.phase
        PROVE  Agreed'
    <3>1. Calm'
      BY <1>a, <2>1 DEF Calm
    <3>2. view.thread # None /\ Ongoing(view.thread) => l.asked
      BY <1>a, <2>3 DEF Open, InFlight
    <3>3. Leaves'
      BY <1>a, <1>f, <2>1, <2>3, <3>2 DEF Leaves
    <3>4. Open'
      BY <1>a, <1>f, <2>1, <2>3, <3>2 DEF Open
    <3>5. QED
      BY <1>b, <1>g, <2>1, <2>3, <3>1, <3>3, <3>4
  <2>4. QED
    BY <1>4, <1>c, <2>2, <2>3, LoadThreadDoes
<1>5. CASE Accept
  <2> PICK t \in Threads :
              /\ t = IF send.to = None THEN Fresh ELSE send.to
              /\ send' = [at |-> "posted", to |-> t]
              /\ inputs'[t] = inputs[t] + 1
              /\ \A u \in Threads : u # t => inputs'[u] = inputs[u] /\ turn'[u] = turn[u]
              /\ turn'[t] = IF send.to = None THEN "new" ELSE turn[t]
    BY <1>5, AcceptDoes
  <2>1. /\ UNCHANGED <<order, wire, view, generation, loads>> /\ send.at = "post" /\ loads = {}
        /\ send'.at = "posted" /\ send'.to = t
    BY <1>5, <1>e, AcceptDoes
  <2>2. /\ view.phase = "streaming"
        /\ view.thread # None => ~Ongoing(view.thread)
        /\ send.to # None => send.to = view.thread
    BY <1>a, <2>1 DEF Posts
  <2>3. \A u \in Threads : u # t => (Ongoing(u)' <=> Ongoing(u)) /\ (Single(u)' <=> Single(u))
    BY <2>1 DEF Ongoing, Single, Ended
  <2>4. ~Ongoing(t) /\ turn'[t] \notin Streaming
    <3>1. CASE send.to = None
      <4>1. turn[Fresh] = "none" /\ t = Fresh
        BY <2>1, <3>1 DEF Births
      <4>2. inputs[Fresh] = 0 /\ wire[Fresh] = <<>>
        BY <1>d, <4>1 DEF Births
      <4>3. ~Ended(Fresh)
        BY <4>2 DEF Ended
      <4>4. QED
        BY <3>1, <4>1, <4>2, <4>3 DEF Ongoing, Streaming
    <3>2. CASE send.to # None
      BY <1>d, <2>2, <3>2 DEF Ongoing
    <3>3. QED
      BY <3>1, <3>2
  <2>5. Single(t)'
    <3>1. inputs[t] = 0 /\ ~Ended(t)
      BY <2>4 DEF Ongoing, Typed
    <3>2. inputs'[t] = 1 /\ ~Ended(t)'
      BY <2>1, <3>1 DEF Ended
    <3>3. QED
      BY <2>4, <3>2 DEF Single, Ended
  <2>6. Calm'
    <3>1. turn'[t] # "waiting_children"
      BY <1>a DEF Calm
    <3>2. QED
      BY <1>a, <2>1, <3>1 DEF Calm
  <2>7. Leaves'
    BY <2>1 DEF Leaves
  <2>8. Open'
    BY <1>d, <1>a, <2>1, <2>2, <2>3, <2>5 DEF Open
  <2>9. Posts'
    <3>1. t # view.thread => t = Fresh
      BY <2>2
    <3>2. t # view.thread /\ view.thread # None => ~Ongoing(view.thread)'
      BY <1>d, <2>1, <2>2, <2>3
    <3>3. QED
      BY <2>1, <2>2, <2>5, <3>1, <3>2 DEF Posts
  <2>10. QED
    BY <1>b, <2>6, <2>7, <2>8, <2>9
<1>6. CASE Sent
  <2>1. /\ Same /\ UNCHANGED <<order, loads, generation>> /\ send.at = "posted"
        /\ send'.at = "idle" /\ view'.phase = view.phase /\ loads = {}
        /\ view'.thread = IF send.to = Fresh THEN Fresh ELSE view.thread
    BY <1>6, <1>e, SentDoes DEF NoSend
  <2>2. Calm' /\ Leaves'
    BY <1>a, <2>1 DEF Calm, Leaves
  <2>3. Open'
    <3>1. CASE view'.thread = view.thread
      BY <1>a, <1>f, <2>1, <3>1 DEF Open
    <3>2. CASE view'.thread = Fresh /\ view.thread # Fresh /\ send.to = Fresh
      <4>1. Single(Fresh) /\ view.phase = "streaming"
        BY <1>a, <2>1, <3>2 DEF Posts
      <4>2. QED
        BY <1>f, <2>1, <3>2, <4>1 DEF Open
    <3>3. QED
      BY <2>1, <3>1, <3>2
  <2>4. QED
    BY <1>b, <1>g, <2>1, <2>2, <2>3
<1>7. CASE SendFails
  <2>1. /\ Same /\ UNCHANGED <<order, loads, generation>> /\ send.at = "post"
        /\ send'.at = "idle" /\ view'.thread = view.thread
    BY <1>7, SendFailsDoes DEF NoSend
  <2>2. view.thread # None => ~Ongoing(view.thread)
    BY <1>a, <2>1 DEF Posts
  <2>3. loads = {}
    BY <1>e, <2>1
  <2>4. Calm' /\ Leaves' /\ Open'
    BY <1>a, <1>f, <2>1, <2>2, <2>3 DEF Calm, Leaves, Open
  <2>5. QED
    BY <1>b, <1>g, <2>1, <2>4
<1>8. ASSUME NEW l \in loads, NEW m, Alike(m, l), loads' = (loads \ {l}) \cup {m}, Same,
             UNCHANGED <<generation, send>>, view'.thread = view.thread, Calm',
             view'.phase = view.phase \/ (l.gen = generation /\ l.prev = view.thread)
      PROVE  Agreed'
  <2>1. Leaves'
    BY <1>8, <1>a, <1>f DEF Leaves, Alike
  <2>2. Open'
    <3>1. view.thread # None => Single(view.thread)
      BY <1>a DEF Open
    <3>2. CASE view'.phase = view.phase
      BY <1>8, <1>a, <1>f, <3>2 DEF Open, Alike
    <3>3. CASE l.gen = generation /\ l.prev = view.thread
      <4>1. view.thread # None /\ Ongoing(view.thread) => l.asked
        BY <1>a, <3>3 DEF Leaves
      <4>2. m \in loads' /\ m.gen = generation /\ m.prev = view.thread /\ m.asked = l.asked
        BY <1>8, <3>3 DEF Alike
      <4>3. QED
        BY <1>8, <1>f, <3>1, <4>1, <4>2 DEF Open
    <3>4. QED
      BY <1>8, <3>2, <3>3
  <2>3. QED
    BY <1>8, <1>b, <1>e, <1>g, <2>1, <2>2
<1>9. ASSUME NEW l \in loads, Disconnect(l) PROVE Agreed'
  <2>1. /\ UNCHANGED <<turn, inputs, wire, view, generation, send>>
        /\ \E m \in Loads : loads' = (loads \ {l}) \cup {m} /\ Alike(m, l)
    BY <1>9, DisconnectDoes
  <2>2. Calm'
    <3>1. ASSUME NEW t \in Threads, t = l.prev
          PROVE  order'[t].kind = "cancel" => order'[t].asked
      <4>1. CASE order'[t] = order[t]
        BY <1>a, <4>1 DEF Calm
      <4>2. CASE order'[t] = [kind |-> "disconnect", asked |-> TRUE]
        BY <4>2
      <4>3. CASE order'[t] = [kind |-> "cancel", asked |-> l.asked] /\ turn[t] \in Busy
        <5>1. turn[t] \in Streaming
          BY <1>a, <4>3 DEF Calm, Busy
        <5>2. l.asked
          BY <1>a, <1>d, <3>1, <5>1 DEF Leaves, Ongoing
        <5>3. QED
          BY <4>3, <5>2
      <4>4. QED
        BY <1>9, <3>1, <4>1, <4>2, <4>3, DisconnectDoes
    <3>2. \A t \in Threads : t # l.prev => order'[t] = order[t]
      BY <1>9, DisconnectDoes
    <3>3. QED
      BY <1>a, <2>1, <3>1, <3>2 DEF Calm
  <2>3. QED
    BY <1>8, <2>1, <2>2
<1>10. ASSUME NEW l \in loads, loads' = loads \ {l}, l.gen # generation, view' = view, Same,
              UNCHANGED <<order, generation, send>>
       PROVE  Agreed'
  <2>1. Calm' /\ Leaves' /\ Open'
    BY <1>10, <1>a, <1>f DEF Calm, Leaves, Open
  <2>2. QED
    BY <1>10, <1>b, <1>e, <1>g, <2>1
<1>11. ASSUME NEW l \in loads, Switch(l) PROVE Agreed'
  <2>1. Same /\ UNCHANGED <<order, generation, send>>
    BY <1>11, SwitchDoes
  <2>2. CASE l.gen # generation /\ loads' = loads \ {l} /\ view' = view
    BY <1>10, <2>1, <2>2
  <2>3. ASSUME NEW m \in Loads, loads' = (loads \ {l}) \cup {m}, Alike(m, l), l.gen = generation,
               view'.thread = view.thread
        PROVE  Agreed'
    <3>1. l.prev = view.thread
      BY <1>c, <2>3 DEF Underway
    <3>2. Calm'
      BY <1>a, <2>1 DEF Calm
    <3>3. QED
      BY <1>8, <2>1, <2>3, <3>1, <3>2
  <2>4. QED
    BY <1>11, <2>2, <2>3, SwitchDoes
<1>12. ASSUME NEW l \in loads, NEW what \in {"row", "items"}, Reads(l, what) PROVE Agreed'
  <2>1. /\ Same /\ UNCHANGED <<order, view, generation, send>>
        /\ \E m \in Loads : loads' = (loads \ {l}) \cup {m} /\ Alike(m, l)
    BY <1>12, ReadsDoes
  <2>2. Calm'
    BY <1>a, <2>1 DEF Calm
  <2>3. QED
    BY <1>8, <2>1, <2>2
<1>13. ASSUME NEW l \in loads, Loaded(l) PROVE Agreed'
  <2>1. Same /\ UNCHANGED <<order, generation, send>> /\ loads' = loads \ {l} /\ l.read = {"row", "items"}
    BY <1>13, LoadedDoes
  <2>2. CASE l.gen # generation /\ view' = view
    BY <1>10, <2>1, <2>2
  <2>3. CASE view'.thread = l.to
    <3>1. Resting(l.to)
      BY <1>c, <2>1 DEF ReadsRest, Void
    <3>2. inputs[l.to] = 0 /\ wire[l.to] = <<>> /\ turn[l.to] \notin Streaming
      BY <3>1 DEF Resting, Busy
    <3>3. Single(l.to) /\ ~Ongoing(l.to)
      BY <3>2 DEF Single, Ongoing, Ended
    <3>4. Calm' /\ Leaves'
      BY <1>a, <1>f, <2>1 DEF Calm, Leaves
    <3>5. Open'
      BY <1>f, <2>1, <2>3, <3>3 DEF Open
    <3>6. QED
      BY <1>b, <1>e, <1>g, <2>1, <3>4, <3>5
  <2>4. QED
    BY <1>13, <2>2, <2>3, LoadedDoes
<1>14. ASSUME NEW l \in loads, LoadFails(l) PROVE Agreed'
  <2>1. Same /\ UNCHANGED <<order, generation, send>> /\ loads' = loads \ {l}
    BY <1>14, LoadFailsDoes
  <2>2. CASE l.gen # generation /\ view' = view
    BY <1>10, <2>1, <2>2
  <2>3. CASE view'.thread = None
    <3>1. Calm' /\ Leaves' /\ Open'
      BY <1>a, <1>f, <2>1, <2>3 DEF Calm, Leaves, Open
    <3>2. QED
      BY <1>b, <1>e, <1>g, <2>1, <3>1
  <2>4. QED
    BY <1>14, <2>2, <2>3, LoadFailsDoes
<1>15. ASSUME NEW t \in Threads, Receive(t) PROVE Agreed'
  <2>1. /\ UNCHANGED <<turn, order, generation, loads, send>> /\ view'.thread = view.thread
        /\ view.thread # t => view' = view
        /\ view.thread = t =>
             view'.phase = IF Head(wire[t]).kind = "completed" THEN "idle" ELSE view.phase
    BY <1>15, ReceiveDoes
  <2>2. \A u \in Threads : /\ Ongoing(u)' => Ongoing(u)
                           /\ Single(u) => Single(u)'
    BY <1>15, ReceivedEnds
  <2>3. Head(wire[t]).kind = "completed" => Ongoing(t) /\ (Single(t) => ~Ongoing(t)')
    BY <1>15, ReceivedEnds DEF Ongoing
  <2>4. Calm'
    BY <1>a, <2>1 DEF Calm
  <2>5. Leaves'
    BY <1>a, <1>d, <2>1, <2>2 DEF Leaves
  <2>6. CASE view'.phase = view.phase
    <3>1. Open'
      BY <1>a, <1>d, <2>1, <2>2, <2>6 DEF Open
    <3>2. Posts'
      BY <1>a, <1>d, <2>1, <2>2, <2>6 DEF Posts
    <3>3. QED
      BY <1>b, <2>4, <2>5, <3>1, <3>2
  <2>7. CASE view.thread = t /\ Head(wire[t]).kind = "completed"
    <3>1. t # None /\ Ongoing(t) /\ ~Ongoing(t)' /\ Single(t)'
      BY <1>a, <1>d, <2>2, <2>3, <2>7 DEF Open
    <3>2. Open'
      BY <2>1, <2>7, <3>1 DEF Open
    <3>3. send.at # "post" /\ ~(send.at = "posted" /\ send.to # view.thread)
      BY <1>a, <2>7, <3>1 DEF Posts
    <3>4. Posts'
      BY <2>1, <3>3 DEF Posts
    <3>5. QED
      BY <1>b, <2>4, <2>5, <3>2, <3>4
  <2>8. QED
    BY <2>1, <2>6, <2>7
<1>16. ASSUME NEW t \in Threads, LoseFrame(t) PROVE Agreed'
  BY <1>c, <1>16, LoseDoes
<1>17. ASSUME NEW t \in Threads, WorkerStep(t) PROVE Agreed'
  <2>1. UNCHANGED <<view, generation, loads, send>>
    BY <1>17, WorkerDoes
  <2>2. turn[t] # "waiting_children"
    BY <1>a DEF Calm
  <2>3. \A u \in Threads : /\ Ongoing(u)' => Ongoing(u)
                           /\ Single(u) => Single(u)'
    BY <1>17, <1>c, <2>2, WorkerGoesOn
  <2>4. Calm'
    <3>1. \A u \in Threads : u # t => turn'[u] = turn[u] /\ order'[u] = order[u]
      BY <1>17, WorkerDoes
    <3>2. Does(t)
      BY <1>17, WorkerDoes
    <3>3. turn'[t] # "waiting_children"
      BY <1>c, <2>2, <3>2 DEF Does
    <3>4. order'[t] = order[t] \/ order'[t] = NoOrder
      BY <3>2 DEF Does
    <3>5. order'[t].kind = "cancel" => order'[t].asked
      BY <1>a, <3>4 DEF Calm, NoOrder
    <3>6. QED
      BY <1>a, <3>1, <3>3, <3>5 DEF Calm
  <2>5. Leaves'
    BY <1>a, <1>d, <2>1, <2>3 DEF Leaves
  <2>6. Open'
    BY <1>a, <1>d, <2>1, <2>3 DEF Open
  <2>7. Posts'
    BY <1>a, <1>d, <2>1, <2>3 DEF Posts
  <2>8. QED
    BY <1>b, <2>4, <2>5, <2>6, <2>7
<1>18. CASE UNCHANGED clientVars
  BY <1>1, <1>18 DEF clientVars
<1>19. QED
  BY <1>2, <1>3, <1>4, <1>5, <1>6, <1>7, <1>9, <1>11, <1>12, <1>13, <1>14, <1>15, <1>16, <1>17,
     <1>18 DEF ClientNext, User, Answer, Fault, WorkerStep
-----------------------------------------------------------------------------
Settled == Typed /\ Underway /\ Births /\ ReadsRest /\ ShownFits /\ Wants /\ StreamsOn /\ Agreed

LEMMA SettledInit == ClientInit => Settled
<1> SUFFICES ASSUME ClientInit PROVE Settled
  OBVIOUS
<1>1. Typed
  BY TypedInit
<1>2. /\ generation = 0 /\ loads = {} /\ send.at = "idle" /\ send.to = None
      /\ wanted = view.thread /\ odd = {} /\ view \in {Empty, Opened}
      /\ \A t \in Threads : inputs[t] = 0 /\ wire[t] = <<>> /\ order[t] = NoOrder
  BY DEF ClientInit, NoSend
<1>3. \A t \in Threads :
        /\ turn[t] = IF t = Fresh THEN "none" ELSE IF t = view.thread THEN "running" ELSE "ready"
        /\ log[t] = IF t \in Roots THEN 1 ELSE 0
  BY DEF ClientInit
<1>4. view.thread \in {None, First} /\ First # Fresh /\ First \in Roots /\ First \in Threads /\ First # None
      /\ None \notin Threads
  BY <1>2, EmptyIs, OpenedIs, Names, NamesAreFree
<1>5. Fresh \notin Roots
  BY NamesAreFree
<1>6. Underway
  BY <1>2 DEF Underway
<1>7. Births
  <2>1. \A t \in Threads : turn[t] = "none" => t = Fresh
    BY <1>3
  <2>2. log[Fresh] = 0
    BY <1>3, <1>5, Names
  <2>3. view.thread # None => turn[view.thread] # "none"
    BY <1>3, <1>4
  <2>4. \A t \in Threads : turn[t] # "new"
    BY <1>3
  <2>5. QED
    BY <1>2, <2>1, <2>2, <2>3, <2>4 DEF Births, NoOrder
<1>8. ReadsRest
  BY <1>2 DEF ReadsRest
<1>9. ShownFits
  <2>1. CASE view = Empty
    BY <1>2, <2>1, EmptyIs DEF ShownFits
  <2>2. CASE view = Opened
    <3>1. view.thread = First /\ view.shown = <<Message("cursor", First, 1, TRUE)>>
      BY <2>2, OpenedIs
    <3> PICK s : s = view.shown
      OBVIOUS
    <3>2. Len(s) = 1 /\ \A i \in 1..1 : s[i].whole /\ s[i].id[2] = First /\ s[i].id[3] = i
      BY <3>1 DEF Message
    <3>3. Fit(<<>>, 1, FALSE, First, s, 1)
      BY <1>4, <3>2, FitAtRest
    <3>4. turn[First] = "running" /\ log[First] = 1 /\ wire[First] = <<>>
      BY <1>2, <1>3, <1>4, <3>1
    <3>5. Fits(First, s, 1)
      BY <3>3, <3>4 DEF Fits, Published
    <3>6. QED
      BY <1>2, <1>4, <3>1, <3>5 DEF ShownFits
  <2>3. QED
    BY <1>2, <2>1, <2>2
<1>10. Wants
  BY <1>2, EmptyIs, OpenedIs DEF Wants
<1>11. Ongoing(First) \/ view = Empty
  BY <1>2, <1>3, <1>4, OpenedIs DEF Ongoing, Streaming
<1>12. StreamsOn
  BY <1>2, <1>4, <1>11, EmptyIs, OpenedIs DEF StreamsOn
<1>13. Agreed
  <2>1. \A t \in Threads : Single(t)
    BY <1>2 DEF Single, Ended
  <2>2. \A t \in Threads : turn[t] # "waiting_children" /\ order[t].kind # "cancel"
    BY <1>2, <1>3 DEF NoOrder
  <2>3. view.thread # None => view.phase = "streaming"
    BY <1>2, EmptyIs, OpenedIs
  <2>4. QED
    BY <1>2, <1>4, <2>1, <2>2, <2>3 DEF Agreed
<1>14. QED
  BY <1>1, <1>6, <1>7, <1>8, <1>9, <1>10, <1>12, <1>13 DEF Settled

LEMMA SettledNext ==
  ASSUME Settled, [ClientNext]_clientVars
  PROVE  Settled'
BY TypedNext, UnderwayNext, BirthsNext, ReadsRestNext, ShownFitsNext, WantsNext, StreamsOnNext,
   AgreedNext DEF Settled

LEMMA AlwaysSettled == ClientSpec => []Settled
<1>1. Settled /\ [ClientNext]_clientVars => Settled'
  BY SettledNext
<1>2. QED
  BY SettledInit, <1>1, PTL DEF ClientSpec

(* When all is quiet the conversation shows what the store has, each message once, whole and in      *)
(* order: what was shown and what was on the wire always made up what was published.                 *)
THEOREM ConversationIsShown == ClientSpec => []ShowsTheThread
<1>1. Settled => ShowsTheThread
  <2> SUFFICES ASSUME Settled, Quiet, view.thread # None,
                      ~Void({"busy", "lost", "early", "continued", "crossed"})
               PROVE  /\ Len(view.shown) = log[view.thread]
                      /\ \A i \in DOMAIN view.shown :
                           /\ view.shown[i].whole
                           /\ view.shown[i].id[2] = view.thread
                           /\ view.shown[i].id[3] = i
    BY DEF ShowsTheThread
  <2> PICK t \in Threads : t = view.thread
    BY DEF Settled, Typed, Views
  <2> PICK s \in Seq(Texts) : s = view.shown
    BY DEF Settled, Typed, Views
  <2>1. wire[t] = <<>> /\ turn[t] # "saving" /\ turn[t] # "writing"
    BY DEF Quiet, Busy, Streaming
  <2>2. PICK w \in Nat : Fits(t, s, w)
    BY DEF Settled, ShownFits
  <2>3. Fit(wire[t], log[t], FALSE, t, s, w)
    BY <2>1, <2>2 DEF Fits, Published
  <2>4. log[t] \in Nat /\ wire[t] \in Seq(Frames)
    BY Names DEF Settled, Typed
  <2>5. Len(s) = log[t] /\ \A i \in 1..log[t] : s[i].whole /\ s[i].id[2] = t /\ s[i].id[3] = i
    <3> PICK f : f = wire[t]
      OBVIOUS
    <3> PICK p \in Nat : p = log[t]
      BY <2>4
    <3> PICK wr \in BOOLEAN : wr = FALSE
      OBVIOUS
    <3>1. f = <<>> /\ f \in Seq(Frames) /\ ~wr /\ Fit(f, p, wr, t, s, w)
      BY <2>1, <2>3, <2>4
    <3>2. Len(s) = p /\ Shows(t, s, p)
      BY <3>1, AllArrived
    <3>3. QED
      BY <3>2 DEF Shows
  <2>6. DOMAIN s = 1..log[t]
    BY <2>5
  <2>7. QED
    BY <2>5, <2>6
<1>2. QED
  BY <1>1, AlwaysSettled, PTL

(* The thread that the user asked for last is the one that is shown once every request is answered,  *)
(* and the view is neither left loading, nor busy with a turn that has ended.                        *)
THEOREM LastClickIsShown == ClientSpec => []LastClickWins
<1>1. Settled => LastClickWins
  <2> SUFFICES ASSUME Settled, Quiet
               PROVE  /\ ~Void({"crossed", "failed"}) => view.thread = wanted /\ view.phase # "loading"
                      /\ odd \subseteq {"tools", "continued"} => view.phase = "idle"
    BY DEF LastClickWins
  <2>1. loads = {} /\ send.at = "idle"
    BY DEF Quiet
  <2>2. ~Void({"crossed", "failed"}) =>
          view.thread = wanted /\ view.phase # "loading" /\ view.phase # "error"
    BY <2>1 DEF Settled, Wants
  <2>3. ASSUME odd \subseteq {"tools", "continued"} PROVE view.phase = "idle"
    <3>1. ~Void({"crossed", "failed"})
      BY <2>3 DEF Void
    <3>2. view.phase \in Phases
      BY DEF Settled, Typed, Views
    <3>3. ASSUME view.phase = "streaming" PROVE FALSE
      <4>1. view.thread # None /\ Ongoing(view.thread)
        BY <2>1, <2>3, <3>3 DEF Settled, StreamsOn
      <4>2. view.thread \in Threads
        BY <4>1 DEF Settled, Typed, Views
      <4>3. inputs[view.thread] = 0 /\ wire[view.thread] = <<>> /\ turn[view.thread] \notin Busy
        BY <4>2 DEF Quiet
      <4>4. QED
        BY <4>1, <4>3 DEF Ongoing, Ended, Busy
    <3>4. QED
      BY <2>2, <3>1, <3>2, <3>3 DEF Phases
  <2>4. QED
    BY <2>2, <2>3
<1>2. QED
  BY <1>1, AlwaysSettled, PTL

(* A switch that cancels a turn was confirmed: whoever leaves a thread with a turn under way has     *)
(* been asked, for the browser knows of every turn that it is about to leave.                        *)
THEOREM SwitchWasConfirmed == ClientSpec => SwitchAsks
<1>1. ASSUME Settled, [ClientNext]_clientVars
      PROVE  [\A t \in Threads :
                turn'[t] = "cancelled" /\ turn[t] # "cancelled"
                  => order[t].asked \/ Void({"tools", "crossed", "busy", "lost", "early"})]_turn
  <2> SUFFICES ASSUME NEW t \in Threads, turn'[t] = "cancelled", turn[t] # "cancelled",
                      ~Void({"tools", "crossed", "busy", "lost", "early"})
               PROVE  order[t].asked
    OBVIOUS
  <2>1. order[t].kind = "cancel" => order[t].asked
    BY <1>1 DEF Settled, Agreed
  <2>2. Typed
    BY <1>1 DEF Settled
  <2>3. ASSUME NEW u \in Threads, WorkerStep(u) PROVE order[t].kind = "cancel"
    <3>1. u = t
      BY <2>2, <2>3, WorkerDoes
    <3>2. Does(t)
      BY <2>2, <2>3, <3>1, WorkerDoes
    <3>3. QED
      BY <3>2 DEF Does
  <2>4. turn' = turn => FALSE
    OBVIOUS
  <2>5. ~Accept
    BY <2>2, AcceptDoes
  <2>6. ~SendMessage /\ ~ResetConversation /\ ~Sent /\ ~SendFails
    BY <2>2, <2>4, SendMessageDoes, ResetDoes, SentDoes, SendFailsDoes
  <2>7. \A u \in Threads : ~LoadThread(u) /\ ~Receive(u) /\ ~LoseFrame(u)
    BY <2>2, <2>4, LoadThreadDoes, ReceiveDoes, LoseDoes
  <2>8. \A l \in loads : /\ ~Disconnect(l) /\ ~Switch(l) /\ ~Loaded(l) /\ ~LoadFails(l)
                         /\ \A what \in {"row", "items"} : ~Reads(l, what)
    BY <2>2, <2>4, DisconnectDoes, SwitchDoes, LoadedDoes, LoadFailsDoes, ReadsDoes
  <2>9. \E u \in Threads : WorkerStep(u)
    BY <1>1, <2>4, <2>5, <2>6, <2>7, <2>8
       DEF ClientNext, User, Answer, Fault, WorkerStep, clientVars
  <2>10. QED
    BY <2>1, <2>3, <2>9
<1>2. QED
  BY <1>1, AlwaysSettled, PTL DEF ClientSpec, SwitchAsks
-----------------------------------------------------------------------------
(* The document pipeline. *)
USE PagesAndDeliveries, DocumentBoundsAreNat

(* What JetStream keeps of a message: one that is yet to be published was  *)
(* never delivered, and one that waits has a delivery left.                *)
DeliveriesLeft ==
  \A m \in Messages :
    /\ msg[m].state \in {"none", "reserved"} => msg[m].deliveries = 0
    /\ msg[m].state = "waiting" => msg[m].deliveries < MaxDeliver

(* The parts of TypeOK that take a lemma each. *)
MsgOK == msg \in [Messages -> [state : States, deliveries : 0..MaxDeliver]]
ManifestOK == manifest \in [size : 0..NumPages + 1, whole : BOOLEAN, refs : SUBSET Pages]
LocalsOK == /\ pc \in [Instances -> Places]
            /\ holds \in [Instances -> Messages]
            /\ refs \in [Instances -> SUBSET Pages]

LEMMA Numbers == /\ SplitCmd \in Messages /\ SplitDones \subseteq Messages
                 /\ 0 \in 0..MaxDeliver /\ 0 \in 0..NumPages + 1
                 /\ Splitters \subseteq Instances /\ Readers \subseteq Instances
  BY DEF Messages, SplitCmd, SplitDones, Instances

(* A manifest is as long as the refs it holds, at most one for each page.  *)
LEMMA SizeOfManifest ==
  ASSUME NEW R, R \subseteq Pages
  PROVE  1 + Cardinality(R) \in 0..NumPages + 1
<1>1. IsFiniteSet(Pages) /\ Cardinality(Pages) = NumPages
  BY FS_Interval DEF Pages
<1>2. IsFiniteSet(R) /\ Cardinality(R) <= Cardinality(Pages)
  BY <1>1, FS_Subset
<1>3. Cardinality(R) \in Nat
  BY <1>2, FS_CardinalityType
<1>4. QED
  BY <1>1, <1>2, <1>3

(* The ways in which a handler or JetStream changes one message. *)
LEMMA MessageSteps ==
  ASSUME TypeOK, DeliveriesLeft, NEW m \in Messages
  PROVE  /\ Done(m) => MsgOK' /\ DeliveriesLeft'
         /\ Again(m) => MsgOK' /\ DeliveriesLeft'
         /\ Publish(m) /\ msg[m].state \in {"none", "reserved"} => MsgOK' /\ DeliveriesLeft'
         /\ \A i \in Instances, place \in Places :
              Deliver(i, m, place) => MsgOK' /\ DeliveriesLeft'
<1>s. ASSUME NEW st \in {"waiting", "gone"}, msg' = [msg EXCEPT ![m].state = st],
             st = "waiting" => msg[m].deliveries < MaxDeliver
      PROVE  MsgOK' /\ DeliveriesLeft'
  <2>1. /\ DOMAIN msg' = Messages
        /\ \A n \in Messages : msg'[n] = IF n = m THEN [msg[m] EXCEPT !.state = st] ELSE msg[n]
    BY <1>s DEF TypeOK
  <2>2. \A n \in Messages : msg[n] \in [state : States, deliveries : 0..MaxDeliver]
    BY DEF TypeOK
  <2>3. /\ [msg[m] EXCEPT !.state = st] \in [state : States, deliveries : 0..MaxDeliver]
        /\ [msg[m] EXCEPT !.state = st].state = st
        /\ [msg[m] EXCEPT !.state = st].deliveries = msg[m].deliveries
    BY <2>2 DEF States
  <2>4. MsgOK'
    BY <1>s, <2>2, <2>3 DEF MsgOK, TypeOK
  <2>5. DeliveriesLeft'
    BY <1>s, <2>1, <2>3 DEF DeliveriesLeft
  <2>6. QED
    BY <2>4, <2>5
<1>t. msg[m].deliveries \in 0..MaxDeliver
  BY DEF TypeOK
<1>1. Done(m) => MsgOK' /\ DeliveriesLeft'
  BY <1>s DEF Done
<1>2. ASSUME Again(m) PROVE MsgOK' /\ DeliveriesLeft'
  <2> DEFINE st == IF msg[m].state = "gone" \/ msg[m].deliveries = MaxDeliver
                   THEN "gone" ELSE "waiting"
  <2>1. /\ st \in {"waiting", "gone"}
        /\ st = "waiting" => msg[m].deliveries < MaxDeliver
    BY <1>t
  <2>2. msg' = [msg EXCEPT ![m].state = st]
    BY <1>2 DEF Again
  <2> HIDE DEF st
  <2>3. QED
    BY <2>1, <2>2, <1>s
<1>3. Publish(m) /\ msg[m].state \in {"none", "reserved"} => MsgOK' /\ DeliveriesLeft'
  BY <1>s DEF Publish, DeliveriesLeft
<1>4. ASSUME NEW i \in Instances, NEW place \in Places, Deliver(i, m, place)
      PROVE  MsgOK' /\ DeliveriesLeft'
  <2>1. msg[m].deliveries + 1 \in 0..MaxDeliver
    BY <1>4, <1>t DEF Deliver, DeliveriesLeft
  <2>2. msg' = [msg EXCEPT ![m] = [state |-> "out", deliveries |-> msg[m].deliveries + 1]]
    BY <1>4 DEF Deliver
  <2>3. QED
    BY <2>1, <2>2 DEF TypeOK, MsgOK, DeliveriesLeft, States
<1>5. QED
  BY <1>1, <1>2, <1>3, <1>4

LEMMA MsgNext == TypeOK /\ DeliveriesLeft /\ [Next]_vars => MsgOK' /\ DeliveriesLeft'
<1> SUFFICES ASSUME TypeOK, DeliveriesLeft, Next PROVE MsgOK' /\ DeliveriesLeft'
  BY DEF TypeOK, MsgOK, DeliveriesLeft, vars
<1> USE Numbers, MessageSteps
<1>0. CASE UNCHANGED msg
  BY <1>0 DEF TypeOK, MsgOK, DeliveriesLeft
<1>h. \A i \in Instances : holds[i] \in Messages
  BY DEF TypeOK
<1>1. CASE CreateDocument
  BY <1>1 DEF CreateDocument, TypeOK, MsgOK, DeliveriesLeft, States
<1>2. CASE PublishSplit
  BY <1>2 DEF PublishSplit
<1>3. CASE DeleteDocument
  BY <1>3, <1>0 DEF DeleteDocument
<1>4. ASSUME NEW s \in Splitters, Split(s) \/ SplitFails(s) PROVE MsgOK' /\ DeliveriesLeft'
  <2>1. CASE DeliverSplit(s)
    BY <2>1 DEF DeliverSplit, Places
  <2>2. CASE PublishSplitDone(s)
    BY <2>2 DEF PublishSplitDone
  <2>3. CASE MarkSplitting(s) \/ RenderPages(s) \/ MergeExistingOCRRefs(s) \/ MarkReady(s) \/ SplitFails(s)
    BY <2>3, <1>0 DEF MarkSplitting, RenderPages, MergeExistingOCRRefs, MarkReady, SplitFails
  <2>4. QED
    BY <1>4, <2>1, <2>2, <2>3 DEF Split
<1>5. ASSUME NEW r \in Readers, Read(r) PROVE MsgOK' /\ DeliveriesLeft'
  <2>1. CASE DeliverSplitDone(r)
    BY <2>1 DEF DeliverSplitDone, Places
  <2>2. CASE ManifestUnreadable(r) \/ PublishOCRDone(r)
    BY <2>2, <1>h DEF ManifestUnreadable, PublishOCRDone
  <2>3. CASE ReadManifest(r) \/ OCRPage(r)
    BY <2>3, <1>0 DEF ReadManifest, OCRPage
  <2>4. QED
    BY <1>5, <2>1, <2>2, <2>3 DEF Read
<1>6. ASSUME NEW i \in Instances, Write(i) \/ Nak(i) \/ Crash(i) PROVE MsgOK' /\ DeliveriesLeft'
  <2>1. CASE Ack(i) \/ Nak(i)
    BY <2>1, <1>h DEF Ack, Nak
  <2>2. CASE TruncateManifest(i) \/ WriteManifest(i) \/ Crash(i)
    BY <2>2, <1>0 DEF TruncateManifest, WriteManifest, Crash
  <2>3. QED
    BY <1>6, <2>1, <2>2 DEF Write
<1>7. ASSUME NEW m \in Messages, AckTimeout(m) \/ Redeliver(m) PROVE MsgOK' /\ DeliveriesLeft'
  BY <1>7 DEF AckTimeout, Redeliver
<1>8. QED
  BY <1>1, <1>2, <1>3, <1>4, <1>5, <1>6, <1>7 DEF Next

LEMMA ManifestNext == TypeOK /\ [Next]_vars => ManifestOK'
<1> SUFFICES ASSUME TypeOK, Next, manifest' # manifest PROVE ManifestOK'
  BY DEF TypeOK, ManifestOK, vars
<1>1. PICK i \in Instances : TruncateManifest(i) \/ WriteManifest(i)
  BY DEF Next, CreateDocument, PublishSplit, DeleteDocument, Split, DeliverSplit, Deliver,
         MarkSplitting, RenderPages, MergeExistingOCRRefs, PublishSplitDone, MarkReady,
         SplitFails, Read, DeliverSplitDone, ReadManifest, ManifestUnreadable, OCRPage,
         PublishOCRDone, Write, Ack, Nak, Crash, AckTimeout, Redeliver
<1>2. CASE TruncateManifest(i)
  BY <1>2, Numbers DEF TruncateManifest, ManifestOK
<1>3. CASE WriteManifest(i)
  <2>1. refs[i] \in SUBSET Pages
    BY DEF TypeOK
  <2>2. 1 + Cardinality(refs[i]) \in 0..NumPages + 1
    BY <2>1, SizeOfManifest
  <2>3. QED
    BY <1>3, <2>1, <2>2 DEF WriteManifest, TypeOK, ManifestOK
<1>4. QED
  BY <1>1, <1>2, <1>3

LEMMA LocalsNext == TypeOK /\ [Next]_vars => LocalsOK'
<1> SUFFICES ASSUME TypeOK, Next PROVE LocalsOK'
  BY DEF TypeOK, LocalsOK, vars
<1> USE Numbers
<1>r. ASSUME NEW i \in Instances, Return(i) PROVE LocalsOK'
  BY <1>r DEF Return, Goto, TypeOK, LocalsOK, Places
<1>d. ASSUME NEW i \in Instances, NEW m \in Messages, NEW place \in Places, Deliver(i, m, place)
      PROVE  LocalsOK'
  BY <1>d DEF Deliver, Goto, TypeOK, LocalsOK
<1>g. ASSUME NEW i \in Instances, NEW place \in Places, Goto(i, place), UNCHANGED holds,
             \/ UNCHANGED refs
             \/ \E R \in SUBSET Pages : refs' = [refs EXCEPT ![i] = R]
      PROVE  LocalsOK'
  BY <1>g DEF Goto, TypeOK, LocalsOK
<1>1. CASE CreateDocument \/ PublishSplit \/ DeleteDocument
  BY <1>1 DEF CreateDocument, PublishSplit, DeleteDocument, TypeOK, LocalsOK
<1>2. ASSUME NEW s \in Splitters, Split(s) \/ SplitFails(s) PROVE LocalsOK'
  <2>1. CASE DeliverSplit(s)
    BY <2>1, <1>d DEF DeliverSplit, Places
  <2>2. CASE MarkSplitting(s) \/ RenderPages(s) \/ PublishSplitDone(s) \/ MarkReady(s)
             \/ SplitFails(s)
    BY <2>2, <1>g DEF MarkSplitting, RenderPages, PublishSplitDone, MarkReady, SplitFails, Places
  <2>3. CASE MergeExistingOCRRefs(s)
    <3>1. (IF manifest.whole THEN manifest.refs ELSE {}) \in SUBSET Pages
      BY DEF TypeOK
    <3>2. QED
      BY <2>3, <3>1, <1>g DEF MergeExistingOCRRefs, Places
  <2>4. QED
    BY <1>2, <2>1, <2>2, <2>3 DEF Split
<1>3. ASSUME NEW r \in Readers, Read(r) PROVE LocalsOK'
  <2>1. CASE DeliverSplitDone(r)
    BY <2>1, <1>d DEF DeliverSplitDone, Places
  <2>2. CASE ReadManifest(r)
    BY <2>2, <1>g DEF ReadManifest, Places, TypeOK
  <2>3. CASE ManifestUnreadable(r) \/ PublishOCRDone(r)
    BY <2>3, <1>r DEF ManifestUnreadable, PublishOCRDone
  <2>4. CASE OCRPage(r)
    BY <2>4 DEF OCRPage, Missing, TypeOK, LocalsOK
  <2>5. QED
    BY <1>3, <2>1, <2>2, <2>3, <2>4 DEF Read
<1>4. ASSUME NEW i \in Instances, Write(i) \/ Nak(i) \/ Crash(i) PROVE LocalsOK'
  <2>1. CASE TruncateManifest(i) \/ WriteManifest(i)
    BY <2>1, <1>g DEF TruncateManifest, WriteManifest, Places
  <2>2. CASE Ack(i) \/ Nak(i) \/ Crash(i)
    BY <2>2, <1>r DEF Ack, Nak, Crash
  <2>3. QED
    BY <1>4, <2>1, <2>2 DEF Write
<1>5. ASSUME NEW m \in Messages, AckTimeout(m) \/ Redeliver(m) PROVE LocalsOK'
  BY <1>5 DEF AckTimeout, Redeliver, TypeOK, LocalsOK
<1>6. QED
  BY <1>1, <1>2, <1>3, <1>4, <1>5 DEF Next

(* The row, and the pages with a result on disk. *)
LEMMA RowNext == TypeOK /\ [Next]_vars => /\ row' \in {"none", "pending", "splitting", "ready", "failed"}
                                          /\ blobs \subseteq blobs' /\ blobs' \subseteq Pages
<1> SUFFICES ASSUME TypeOK, Next
             PROVE  /\ row' \in {"none", "pending", "splitting", "ready", "failed"}
                    /\ blobs \subseteq blobs' /\ blobs' \subseteq Pages
  BY DEF TypeOK, vars
<1> USE DEF TypeOK, UpdateStatus
<1>1. CASE CreateDocument \/ PublishSplit \/ DeleteDocument
  BY <1>1 DEF CreateDocument, PublishSplit, DeleteDocument
<1>2. ASSUME NEW s \in Splitters, Split(s) \/ SplitFails(s)
      PROVE  row' \in {"none", "pending", "splitting", "ready", "failed"} /\ UNCHANGED blobs
  BY <1>2 DEF Split, SplitFails, DeliverSplit, Deliver, MarkSplitting, RenderPages,
              MergeExistingOCRRefs, PublishSplitDone, MarkReady
<1>3. ASSUME NEW r \in Readers, Read(r)
      PROVE  UNCHANGED row /\ blobs \subseteq blobs' /\ blobs' \subseteq Pages
  <2>1. CASE OCRPage(r)
    BY <2>1 DEF OCRPage, Missing
  <2>2. CASE ~OCRPage(r)
    BY <1>3, <2>2 DEF Read, DeliverSplitDone, Deliver, ReadManifest, ManifestUnreadable,
                      PublishOCRDone
  <2>3. QED
    BY <2>1, <2>2
<1>4. ASSUME NEW i \in Instances, Write(i) \/ Nak(i) \/ Crash(i) PROVE UNCHANGED <<row, blobs>>
  BY <1>4 DEF Write, TruncateManifest, WriteManifest, Ack, Nak, Crash
<1>5. ASSUME NEW m \in Messages, AckTimeout(m) \/ Redeliver(m) PROVE UNCHANGED <<row, blobs>>
  BY <1>5 DEF AckTimeout, Redeliver
<1>6. QED
  BY <1>1, <1>2, <1>3, <1>4, <1>5 DEF Next

LEMMA InitTypes == Init => TypeOK /\ DeliveriesLeft
  BY Numbers DEF Init, TypeOK, DeliveriesLeft, States, Places

(* The variables keep their types, and no message is delivered more often  *)
(* than the consumer's MaxDeliver allows.                                  *)
THEOREM TypeCorrect == Spec => [](TypeOK /\ DeliveriesLeft)
<1>1. TypeOK /\ DeliveriesLeft /\ [Next]_vars => TypeOK' /\ DeliveriesLeft'
  BY MsgNext, ManifestNext, LocalsNext, RowNext DEF TypeOK, MsgOK, ManifestOK, LocalsOK
<1>2. QED
  BY InitTypes, <1>1, PTL DEF Spec
-----------------------------------------------------------------------------
(* No copy of the manifest, on disk or in an instance's hands, has an      *)
(* ocr_ref whose result is not on disk.                                    *)
CopiesOnDisk == /\ manifest.refs \subseteq blobs
                /\ \A i \in Instances : refs[i] \subseteq blobs

(* What a step may do to an instance's copy: drop it, take the file's, or  *)
(* add pages whose results it has just stored.                             *)
LEMMA CopiesNext ==
  ASSUME TypeOK, CopiesOnDisk, [Next]_vars
  PROVE  \A i \in Instances : refs'[i] \subseteq blobs'
<1>u. CASE UNCHANGED refs
  BY <1>u, RowNext DEF CopiesOnDisk
<1>r. ASSUME NEW i \in Instances, Return(i) PROVE \A j \in Instances : refs'[j] \subseteq blobs'
  BY <1>r, RowNext DEF Return, CopiesOnDisk, TypeOK
<1>m. ASSUME NEW i \in Instances, NEW R, R \subseteq manifest.refs, refs' = [refs EXCEPT ![i] = R]
      PROVE  \A j \in Instances : refs'[j] \subseteq blobs'
  BY <1>m, RowNext DEF CopiesOnDisk, TypeOK
<1> SUFFICES ASSUME Next, refs' # refs PROVE \A i \in Instances : refs'[i] \subseteq blobs'
  BY <1>u DEF vars
<1>1. ASSUME NEW s \in Splitters, Split(s) PROVE \A j \in Instances : refs'[j] \subseteq blobs'
  <2>1. MergeExistingOCRRefs(s)
    BY <1>1 DEF Split, DeliverSplit, Deliver, MarkSplitting, RenderPages, PublishSplitDone, MarkReady
  <2>2. QED
    BY <2>1, <1>m, Numbers DEF MergeExistingOCRRefs
<1>2. ASSUME NEW r \in Readers, Read(r) PROVE \A j \in Instances : refs'[j] \subseteq blobs'
  <2>1. CASE ReadManifest(r)
    BY <2>1, <1>m, Numbers DEF ReadManifest
  <2>2. CASE ManifestUnreadable(r) \/ PublishOCRDone(r)
    BY <2>2, <1>r, Numbers DEF ManifestUnreadable, PublishOCRDone
  <2>3. CASE OCRPage(r)
    <3>1. PICK p \in Missing(r) : /\ blobs' = blobs \cup {p}
                                  /\ refs' = [refs EXCEPT ![r] = @ \cup {p}]
      BY <2>3 DEF OCRPage
    <3>2. QED
      BY <3>1, Numbers DEF CopiesOnDisk, TypeOK
  <2>4. QED
    BY <1>2, <2>1, <2>2, <2>3 DEF Read, DeliverSplitDone, Deliver
<1>3. ASSUME NEW i \in Instances, Write(i) \/ Nak(i) \/ Crash(i)
      PROVE  \A j \in Instances : refs'[j] \subseteq blobs'
  BY <1>3, <1>r DEF Write, TruncateManifest, WriteManifest, Ack, Nak, Crash
<1>4. QED
  BY <1>1, <1>2, <1>3 DEF Next, CreateDocument, PublishSplit, DeleteDocument, SplitFails,
                          AckTimeout, Redeliver

(* The file is emptied, cut off by a longer one, or one instance's copy. *)
LEMMA FileNext == TypeOK /\ CopiesOnDisk /\ [Next]_vars => manifest'.refs \subseteq blobs'
<1> SUFFICES ASSUME TypeOK, CopiesOnDisk, Next, manifest' # manifest
             PROVE  manifest'.refs \subseteq blobs'
  BY RowNext DEF CopiesOnDisk, vars
<1>1. PICK i \in Instances : TruncateManifest(i) \/ WriteManifest(i)
  BY DEF Next, CreateDocument, PublishSplit, DeleteDocument, Split, DeliverSplit, Deliver,
         MarkSplitting, RenderPages, MergeExistingOCRRefs, PublishSplitDone, MarkReady,
         SplitFails, Read, DeliverSplitDone, ReadManifest, ManifestUnreadable, OCRPage,
         PublishOCRDone, Write, Ack, Nak, Crash, AckTimeout, Redeliver
<1>2. UNCHANGED blobs
  BY <1>1 DEF TruncateManifest, WriteManifest
<1>3. CASE TruncateManifest(i)
  BY <1>3 DEF TruncateManifest
<1>4. CASE WriteManifest(i)
  <2>1. CASE manifest' = [manifest EXCEPT !.whole = FALSE, !.refs = {}]
    BY <2>1 DEF TypeOK
  <2>2. CASE manifest' = [size |-> 1 + Cardinality(refs[i]), whole |-> TRUE, refs |-> refs[i]]
    BY <2>2, <1>2 DEF CopiesOnDisk
  <2>3. QED
    BY <1>4, <2>1, <2>2 DEF WriteManifest
<1>5. QED
  BY <1>1, <1>3, <1>4

(* Every ocr_ref of the manifest names a result that is on disk, although  *)
(* splitters and readers truncate and rewrite the file under each other.   *)
THEOREM RefsStayOnDisk == Spec => []RefsAreOnDisk
<1>1. Init => CopiesOnDisk
  BY DEF Init, CopiesOnDisk
<1>2. TypeOK /\ CopiesOnDisk /\ [Next]_vars => CopiesOnDisk'
  BY CopiesNext, FileNext DEF CopiesOnDisk
<1>3. CopiesOnDisk => RefsAreOnDisk
  BY DEF CopiesOnDisk, RefsAreOnDisk
<1>4. QED
  BY <1>1, <1>2, <1>3, TypeCorrect, PTL DEF Spec
-----------------------------------------------------------------------------
Told == \E m \in SplitDones : msg[m].state # "none"

(* A splitter that is about to mark the row has published its split.done.  *)
ReadyIsTold == row = "ready" \/ (\E s \in Splitters : pc[s] = "ready") => Told

(* No step takes a message back that was published. *)
LEMMA ToldStays == TypeOK /\ Told /\ [Next]_vars => Told'
<1> SUFFICES ASSUME TypeOK, Next, NEW m \in SplitDones, msg[m].state # "none"
             PROVE  msg'[m].state # "none"
  BY DEF Told, vars
<1> USE DEF TypeOK
<1>0. m \in Messages
  BY Numbers
<1>p. ASSUME NEW n \in Messages, Publish(n) \/ Done(n) \/ Again(n) PROVE msg'[m].state # "none"
  BY <1>p, <1>0 DEF Publish, Done, Again
<1>d. ASSUME NEW i, NEW n \in Messages, NEW place, Deliver(i, n, place) PROVE msg'[m].state # "none"
  BY <1>d, <1>0 DEF Deliver
<1>u. CASE UNCHANGED msg
  BY <1>u
<1> USE Numbers
<1>1. CASE CreateDocument \/ PublishSplit \/ DeleteDocument
  BY <1>1, <1>p, <1>u, <1>0 DEF CreateDocument, PublishSplit, DeleteDocument
<1>2. ASSUME NEW s \in Splitters, Split(s) \/ SplitFails(s) PROVE msg'[m].state # "none"
  BY <1>2, <1>p, <1>d, <1>u DEF Split, SplitFails, DeliverSplit, MarkSplitting, RenderPages,
              MergeExistingOCRRefs, PublishSplitDone, MarkReady
<1>3. ASSUME NEW r \in Readers, Read(r) PROVE msg'[m].state # "none"
  BY <1>3, <1>p, <1>d, <1>u DEF Read, DeliverSplitDone, ReadManifest, ManifestUnreadable,
              OCRPage, PublishOCRDone
<1>4. ASSUME NEW i \in Instances, Write(i) \/ Nak(i) \/ Crash(i) PROVE msg'[m].state # "none"
  BY <1>4, <1>p, <1>u DEF Write, TruncateManifest, WriteManifest, Ack, Nak, Crash
<1>5. ASSUME NEW n \in Messages, AckTimeout(n) \/ Redeliver(n) PROVE msg'[m].state # "none"
  BY <1>5, <1>p DEF AckTimeout, Redeliver
<1>6. QED
  BY <1>1, <1>2, <1>3, <1>4, <1>5 DEF Next

(* The way to "ready", of an instance and of the row. *)
LEMMA ReadyNext ==
  ASSUME TypeOK, [Next]_vars
  PROVE  /\ row' = "ready" => row = "ready" \/ \E s \in Splitters : pc[s] = "ready"
         /\ \A s \in Splitters : pc'[s] = "ready" => pc[s] = "ready" \/ Told'
<1> SUFFICES ASSUME Next
             PROVE  /\ row' = "ready" => row = "ready" \/ \E s \in Splitters : pc[s] = "ready"
                    /\ \A s \in Splitters : pc'[s] = "ready" => pc[s] = "ready" \/ Told'
  BY DEF vars
<1> USE DEF TypeOK, Goto, UpdateStatus
<1>1. CASE CreateDocument \/ PublishSplit \/ DeleteDocument
  BY <1>1 DEF CreateDocument, PublishSplit, DeleteDocument
<1>2. ASSUME NEW s \in Splitters, Split(s) \/ SplitFails(s)
      PROVE  /\ row' = "ready" => row = "ready" \/ pc[s] = "ready"
             /\ \A i \in Splitters : pc'[i] = "ready" => pc[i] = "ready" \/ Told'
  <2>1. CASE PublishSplitDone(s)
    <3>1. PICK m \in SplitDones : Publish(m)
      BY <2>1 DEF PublishSplitDone
    <3>2. Told'
      BY <3>1, Numbers DEF Publish, Told
    <3>3. QED
      BY <2>1, <3>2 DEF PublishSplitDone
  <2>2. CASE ~PublishSplitDone(s)
    BY <1>2, <2>2, Numbers DEF Split, SplitFails, DeliverSplit, Deliver, MarkSplitting, RenderPages,
                      MergeExistingOCRRefs, MarkReady, At
  <2>3. QED
    BY <2>1, <2>2
<1>3. ASSUME NEW r \in Readers, Read(r)
      PROVE  UNCHANGED row /\ \A i \in Splitters : pc'[i] = "ready" => pc[i] = "ready"
  BY <1>3, Numbers DEF Read, DeliverSplitDone, Deliver, ReadManifest, ManifestUnreadable, OCRPage,
              PublishOCRDone, Return
<1>4. ASSUME NEW i \in Instances, Write(i) \/ Nak(i) \/ Crash(i)
      PROVE  UNCHANGED row /\ \A s \in Splitters : pc'[s] = "ready" => pc[s] = "ready"
  BY <1>4, Numbers DEF Write, TruncateManifest, WriteManifest, Ack, Nak, Crash, Return
<1>5. ASSUME NEW m \in Messages, AckTimeout(m) \/ Redeliver(m) PROVE UNCHANGED <<row, pc>>
  BY <1>5 DEF AckTimeout, Redeliver
<1>6. QED
  BY <1>1, <1>2, <1>3, <1>4, <1>5 DEF Next

(* A document is marked ready only after its split.done was published,     *)
(* whatever is redelivered, fails or dies in between.                      *)
THEOREM ReadyIsAnnounced == Spec => []ReadyWasAnnounced
<1>1. Init => ReadyIsTold
  BY Numbers DEF Init, ReadyIsTold
<1>2. TypeOK /\ ReadyIsTold /\ [Next]_vars => ReadyIsTold'
  BY ToldStays, ReadyNext DEF ReadyIsTold
<1>3. ReadyIsTold => ReadyWasAnnounced
  BY DEF ReadyIsTold, ReadyWasAnnounced, Told
<1>4. QED
  BY <1>1, <1>2, <1>3, TypeCorrect, PTL DEF Spec
=============================================================================
