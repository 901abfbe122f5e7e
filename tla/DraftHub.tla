------------------------------ MODULE DraftHub ------------------------------
(***************************************************************************)
(* The commit message several people edit at once: the draft hub of a       *)
(* review process, the browser tabs that show it (PrecommitBar.js), the     *)
(* terminal prompt and the editor the prompt opens.                         *)
(*                                                                         *)
(* A text is the set of the edits it contains: what an update throws away   *)
(* is then visible.  A client subscribes in two steps, shows what arrives   *)
(* unless it is older than what it shows, and publishes what it has.  A tab *)
(* publishes 160 ms after the key was struck, and its answers travel beside *)
(* the events.                                                              *)
(***************************************************************************)
EXTENDS Naturals, Sequences

CONSTANTS
  Page,     \* browser tabs
  Edit,     \* what may be typed, each once (a bound)
  Cap       \* capacity of a watcher's channel, 16 in the code

ASSUME PageAssumption == "tui" \notin Page
ASSUME CapAssumption == Cap \in Nat \ {0}

VARIABLES
  hub,      \* [text, version, frozen]
  watch,    \* clients whose channel is registered
  greet,    \* the snapshot a subscribing client is about to put in its channel
  chan,     \* the watchers' channels
  view,     \* what each client shows
  pending,  \* text a tab has captured and not yet published
  answer,   \* answer on its way to a tab
  editor,   \* the snapshot the open editor was given
  missed,   \* clients a snapshot was dropped for (history)
  unused    \* edits not yet typed

hubVars == <<hub, watch, greet, chan, view, pending, answer, editor, missed, unused>>

Client == Page \cup {"tui"}
None == [kind |-> "none"]
Closed == [kind |-> "closed"]

Editing == editor \notin {None, Closed}

\* newDraftHub: version 1, and 0 at a client that has seen nothing.
HubInit(initial, edits) ==
  /\ hub = [text |-> initial, version |-> 1, frozen |-> FALSE]
  /\ watch = {}
  /\ greet = [c \in Client |-> None]
  /\ chan = [c \in Client |-> <<>>]
  /\ view = [c \in Client |-> [text |-> initial, version |-> 0]]
  /\ pending = [p \in Page |-> None]
  /\ answer = [p \in Page |-> None]
  /\ editor = None
  /\ missed = {}
  /\ unused = edits

-----------------------------------------------------------------------------
(* The hub: each operation is one critical section *)

\* broadcastLocked: a full channel is passed over.
Broadcast(snap) ==
  /\ chan' = [c \in Client |-> IF c \in watch /\ Len(chan[c]) < Cap
                               THEN Append(chan[c], snap) ELSE chan[c]]
  /\ missed' = missed \cup {c \in watch : Len(chan[c]) = Cap}

\* Mutant: the version a client expects is not compared.
TakesAny(expected) == ~hub.frozen

Takes(expected) == ~hub.frozen /\ (expected > 0 => expected >= hub.version)

Written(text) == [hub EXCEPT !.text = text, !.version = @ + 1]

\* Update: expected 0 overwrites whatever there is.
Update(text, expected) ==
  IF Takes(expected)
  THEN hub' = Written(text) /\ Broadcast(Written(text))
  ELSE UNCHANGED <<hub, chan, missed>>

\* Freeze keeps the version: watchers are told all the same.
Freeze ==
  /\ hub' = [hub EXCEPT !.frozen = TRUE]
  /\ Broadcast(hub')

\* Subscribe, under the lock ...
Register(c) ==
  /\ c \notin watch
  /\ watch' = watch \cup {c}
  /\ greet' = [greet EXCEPT ![c] = hub]
  /\ UNCHANGED <<hub, chan, view, pending, answer, editor, missed, unused>>

\* ... and after it: waits while the channel is full, and nobody reads it yet.
Greet(c) ==
  /\ greet[c] # None
  /\ Len(chan[c]) < Cap
  /\ chan' = [chan EXCEPT ![c] = Append(@, greet[c])]
  /\ greet' = [greet EXCEPT ![c] = None]
  /\ UNCHANGED <<hub, watch, view, pending, answer, editor, missed, unused>>

Subscribe(c) == Register(c) \/ Greet(c)

\* A tab's stream ends: the handler unsubscribes, what its channel holds is lost, and the
\* tab subscribes again.
Unsubscribe(p) ==
  /\ p \in watch /\ greet[p] = None
  /\ watch' = watch \ {p}
  /\ chan' = [chan EXCEPT ![p] = <<>>]
  /\ UNCHANGED <<hub, greet, view, pending, answer, editor, missed, unused>>

-----------------------------------------------------------------------------
(* What clients do *)

Show(c, snap) == view' = [view EXCEPT ![c] = [text |-> snap.text, version |-> snap.version]]

\* Mutant: a client shows whatever arrives.
Newer(c, snap) == TRUE

\* Both clients drop a snapshot older than the one they show.
NotOlder(c, snap) == snap.version >= view[c].version

\* A snapshot arrives: as a server-sent event, or through the prompt's own channel,
\* which drops it when it is full.  The prompt is not listening while its editor is open.
Deliver(c) ==
  /\ chan[c] # <<>> /\ greet[c] = None
  /\ c = "tui" => ~Editing
  /\ chan' = [chan EXCEPT ![c] = Tail(@)]
  /\ \/ /\ IF NotOlder(c, Head(chan[c])) THEN Show(c, Head(chan[c])) ELSE UNCHANGED view
        /\ UNCHANGED missed
     \/ /\ c = "tui" /\ missed' = missed \cup {c}
        /\ UNCHANGED view
  /\ UNCHANGED <<hub, watch, greet, pending, answer, editor, unused>>

\* Typing in a tab: the text is captured now and published later.
TypeInPage(p) ==
  \E e \in unused :
    /\ unused' = unused \ {e}
    /\ view' = [view EXCEPT ![p].text = @ \cup {e}]
    /\ pending' = [pending EXCEPT ![p] = [text |-> view'[p].text]]
    /\ UNCHANGED <<hub, watch, greet, chan, answer, editor, missed>>

\* POST /api/draft: the captured text, with the version shown when the timer fires.
Publish(p) ==
  /\ pending[p] # None /\ answer[p] = None
  /\ Update(pending[p].text, view[p].version)
  /\ pending' = [pending EXCEPT ![p] = None]
  /\ answer' = [answer EXCEPT ![p] = IF Takes(view[p].version)
                                     THEN [kind |-> "post", snap |-> hub']
                                     ELSE [kind |-> "refused"]]
  /\ UNCHANGED <<watch, greet, view, editor, unused>>

\* GET /api/draft, when the tab opens and after a refusal.
Fetch(p) ==
  /\ \/ answer[p] = [kind |-> "refused"]
     \/ answer[p] = None /\ view[p].version = 0
  /\ answer' = [answer EXCEPT ![p] = [kind |-> "get", snap |-> hub]]
  /\ UNCHANGED <<hub, watch, greet, chan, view, pending, editor, missed, unused>>

\* An answer arrives: of a POST only the version counts, of a GET everything, and
\* neither is compared with what is shown.
Answered(p) ==
  /\ answer[p] # None /\ answer[p].kind # "refused"
  /\ IF answer[p].kind = "get" THEN Show(p, answer[p].snap)
     ELSE view' = [view EXCEPT ![p].version = answer[p].snap.version]
  /\ answer' = [answer EXCEPT ![p] = None]
  /\ UNCHANGED <<hub, watch, greet, chan, pending, editor, missed, unused>>

\* A key in the prompt: what it shows now overwrites the draft, unless that is frozen.
TypeInPrompt ==
  /\ ~Editing
  /\ \E e \in unused :
       LET text == view["tui"].text \cup {e}
       IN  /\ unused' = unused \ {e}
           /\ Update(text, 0)
           /\ view' = [view EXCEPT !["tui"] =
                         [text |-> text,
                          version |-> IF Takes(0) THEN hub'.version ELSE @.version]]
           /\ UNCHANGED <<watch, greet, pending, answer, editor>>

\* The prompt opens an editor on a snapshot and waits for it; once (a bound).
OpenEditor ==
  /\ editor = None
  /\ editor' = hub
  /\ UNCHANGED <<hub, watch, greet, chan, view, pending, answer, missed, unused>>

\* The editor is closed: what was edited replaces the draft, unless that has changed.
CloseEditor ==
  /\ Editing
  /\ \E more \in SUBSET unused :
       LET text == editor.text \cup more
       IN  /\ unused' = unused \ more
           /\ Update(text, editor.version)
           /\ IF Takes(editor.version) THEN Show("tui", hub') ELSE UNCHANGED view
  /\ editor' = Closed
  /\ UNCHANGED <<watch, greet, pending, answer>>

PageStep(p) ==
  TypeInPage(p) \/ Publish(p) \/ Fetch(p) \/ Answered(p)

-----------------------------------------------------------------------------
(* Properties *)

\* An editor that stays open for minutes never undoes what was written meanwhile: its
\* text is taken only if it contains all there is.
EditorKeepsOthers ==
  [][Editing /\ editor' = Closed /\ hub'.version # hub.version
       => hub.text \subseteq hub'.text]_hubVars

\* Whatever the order of the first snapshot and the broadcasts: a prompt that has read
\* all it was sent, and for which nothing had to be dropped, shows the draft.
PromptShowsDraft ==
  "tui" \in watch /\ greet["tui"] = None /\ chan["tui"] = <<>> /\ "tui" \notin missed =>
    /\ view["tui"].version = hub.version
    /\ ~hub.frozen => view["tui"].text = hub.text
=============================================================================
