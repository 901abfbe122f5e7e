-------------------------- MODULE ReviewCommandProofs --------------------------
(***************************************************************************)
(* Proofs about ReviewCommand and its DraftHub, for any number of tabs,    *)
(* requests and edits, channels of any capacity, and any ways to start.    *)
(***************************************************************************)
EXTENDS ReviewCommand, SequenceTheorems, TLAPS

Snapshot == [text : SUBSET Edit, version : Nat, frozen : BOOLEAN]
Answer == {None, [kind |-> "refused"]} \cup [kind : {"post", "get"}, snap : Snapshot]

HubTypeOK ==
  /\ setup \in Setup
  /\ hub \in Snapshot /\ hub.version > 0
  /\ watch \subseteq Client /\ missed \subseteq Client /\ unused \subseteq Edit
  /\ greet \in [Client -> Snapshot \cup {None}]
  /\ chan \in [Client -> Seq(Snapshot)]
  /\ view \in [Client -> [text : SUBSET Edit, version : Nat]]
  /\ pending \in [Page -> {None} \cup [text : SUBSET Edit]]
  /\ answer \in [Page -> Answer]
  /\ editor \in {None, Closed} \cup Snapshot

\* A snapshot is of the past, or of the draft as it is.
FaithfulTo(draft, snap) ==
  /\ 0 < snap.version /\ snap.version <= draft.version
  /\ snap.version = draft.version => snap.text = draft.text
Faithful(snap) == FaithfulTo(hub, snap)

\* What is on its way to the prompt, and what the editor was given.
SnapsAreFaithful ==
  /\ \A i \in DOMAIN chan["tui"] : Faithful(chan["tui"][i])
  /\ greet["tui"] # None => Faithful(greet["tui"])
  /\ Editing => Faithful(editor)

\* What the prompt shows is no newer than the draft; a frozen one may be edited in vain.
ViewIsFaithful ==
  /\ view["tui"].version <= hub.version
  /\ view["tui"].version = hub.version /\ ~hub.frozen => view["tui"].text = hub.text

\* The draft's version is shown, or on its way.
OnItsWay == \E i \in DOMAIN chan["tui"] : chan["tui"][i].version = hub.version
NothingIsLost ==
  "tui" \in watch /\ "tui" \notin missed =>
    \/ view["tui"].version = hub.version
    \/ greet["tui"] # None /\ greet["tui"].version = hub.version
    \/ OnItsWay

ChannelsHold == \A c \in Client : Len(chan[c]) <= Cap

HubInv ==
  HubTypeOK /\ ChannelsHold /\ SnapsAreFaithful /\ ViewIsFaithful /\ NothingIsLost

-----------------------------------------------------------------------------

LEMMA SnapshotIsNoMark ==
  ASSUME NEW s \in Snapshot PROVE s # None /\ s # Closed
<1>1. DOMAIN s = {"text", "version", "frozen"}
  BY DEF Snapshot
<1>2. DOMAIN None = {"kind"} /\ DOMAIN Closed = {"kind"}
  BY DEF None, Closed
<1>3. "text" \in DOMAIN s /\ "text" \notin {"kind"}
  BY <1>1
<1>4. QED BY <1>2, <1>3

LEMMA Clients == "tui" \in Client /\ Page \subseteq Client /\ \A p \in Page : p # "tui"
BY PageAssumption DEF Client

\* The other clients and the hub see nothing of what the rest of the command does.
Quiet == UNCHANGED <<watch, greet, view, pending, answer, editor, unused>>

LEMMA HubSteps ==
  ASSUME HubTypeOK, [Next]_vars
  PROVE  /\ setup' = setup
         /\ \/ UNCHANGED hubVars
            \/ Freeze /\ Quiet
            \/ \E text \in SUBSET Edit : Update(text, 0) /\ Quiet
            \/ \E c \in Client : Register(c) \/ Greet(c) \/ Deliver(c)
            \/ \E p \in Page : Unsubscribe(p) \/ PageStep(p)
            \/ TypeInPrompt \/ OpenEditor \/ CloseEditor
<1>1. CASE Main \/ Timeout \/ View
  <2> USE DEF before, rest
  <2>1. CASE AttestNow \/ Prepare \/ Collect \/ Submit
    BY <2>1 DEF AttestNow, Prepare, Collect, Submit
  <2>2. CASE Serve \/ Begin \/ WaitHistory \/ HistoryResult \/ WaitPlain \/ PlainResult
    BY <2>2 DEF Serve, Begin, WaitHistory, HistoryResult, WaitPlain, PlainResult
  <2>3. CASE AttestAgent \/ Outputs \/ Finish \/ TakeDecision \/ Settle \/ PollDone
    BY <2>3 DEF AttestAgent, Outputs, Finish, TakeDecision, Settle, PollDone
  <2>4. CASE BlockingResult \/ Execute \/ Exit \/ Timeout \/ View
    BY <2>4 DEF BlockingResult, Execute, Exit, Timeout, View
  <2>5. QED BY <1>1, <2>1, <2>2, <2>3, <2>4 DEF Main
<1>2. CASE PollStep \/ Score \/ Upload \/ Interrupt
  BY <1>2 DEF PollStep, Score, Upload, Interrupt, others, still
<1>3. ASSUME NEW q \in Req, Request(q) PROVE setup' = setup /\ (UNCHANGED hubVars \/ (Freeze /\ Quiet)
               \/ \E text \in SUBSET Edit : Update(text, 0) /\ Quiet)
  <2>1. \A p \in Page : view[p].text \in SUBSET Edit
    BY Clients DEF HubTypeOK
  <2>2. setup' = setup
    BY <1>3 DEF Request, still
  <2>3. CASE ~HasHub
    BY <1>3, <2>2, <2>3 DEF Request
  <2>4. CASE HasHub
    <3>1. PICK p \in Page, code \in Code :
            LET text == IF code \in {"abort", "handoff"} THEN {} ELSE view[p].text IN
            /\ CASE code = "abort" -> Freeze
                 [] code = "handoff" -> UNCHANGED <<hub, chan, missed>>
                 [] OTHER -> Update(text, 0)
            /\ Quiet
      BY <1>3, <2>4 DEF Request, Quiet
    <3>2. QED BY <2>1, <2>2, <3>1 DEF Quiet, hubVars
  <2>5. QED BY <2>3, <2>4
<1>4. ASSUME NEW t \in Thread, Decide(t) PROVE setup' = setup /\ (UNCHANGED hubVars \/ (Freeze /\ Quiet))
  BY <1>4 DEF Decide, still, Quiet
<1>5. CASE Draft
  <2>1. setup.following \subseteq Client
    BY SetupAssumption DEF HubTypeOK, SetupType
  <2>2. QED BY <1>5, <2>1 DEF Draft, still, Subscribe
<1>6. CASE UNCHANGED vars
  BY <1>6 DEF vars
<1>7. QED BY <1>1, <1>2, <1>3, <1>4, <1>5, <1>6 DEF Next

\* A change of the draft, as all operations of the hub make it: it is told to the watchers.
HubMoves ==
  /\ hub' \in Snapshot /\ hub.version <= hub'.version /\ hub'.version > 0
  /\ hub'.version = hub.version => hub'.text = hub.text
  /\ hub.frozen => hub'.frozen
  /\ Broadcast(hub')

LEMMA UpdateMoves ==
  ASSUME HubTypeOK, NEW text \in SUBSET Edit, NEW expected \in Nat, Update(text, expected), Takes(expected)
  PROVE  HubMoves /\ hub'.text = text /\ hub'.version = hub.version + 1 /\ ~hub.frozen
<1>1. hub' = Written(text) /\ Broadcast(hub')
  BY DEF Update, Broadcast
<1>2. hub' = [hub EXCEPT !.text = text, !.version = hub.version + 1]
  BY <1>1 DEF Written
<1>3. hub' \in Snapshot /\ hub'.text = text /\ hub'.version = hub.version + 1 /\ (hub.frozen => hub'.frozen)
  <2>1. hub \in [text : SUBSET Edit, version : Nat, frozen : BOOLEAN] /\ hub.version + 1 \in Nat
    BY DEF HubTypeOK, Snapshot
  <2>2. hub' = [text |-> text, version |-> hub.version + 1, frozen |-> hub.frozen]
    BY <1>2, <2>1
  <2>3. hub' \in [text : SUBSET Edit, version : Nat, frozen : BOOLEAN]
    BY <2>1, <2>2
  <2>4. QED BY <2>2, <2>3 DEF Snapshot
<1>4. hub.version \in Nat
  BY DEF HubTypeOK, Snapshot
<1>5. ~hub.frozen
  BY DEF Takes
<1>6. hub.version <= hub'.version /\ hub'.version > 0 /\ hub'.version # hub.version
  BY <1>3, <1>4
<1>7. QED BY <1>1, <1>3, <1>5, <1>6 DEF HubMoves

LEMMA FreezeMoves == ASSUME HubTypeOK, Freeze PROVE HubMoves
<1>1. hub' = [hub EXCEPT !.frozen = TRUE] /\ Broadcast(hub')
  BY DEF Freeze, Broadcast
<1>2. hub' \in Snapshot /\ hub'.text = hub.text /\ hub'.version = hub.version /\ hub'.frozen
  BY <1>1 DEF HubTypeOK, Snapshot
<1>3. hub.version <= hub'.version /\ hub'.version > 0
  BY <1>2 DEF HubTypeOK, Snapshot
<1>4. QED BY <1>1, <1>2, <1>3 DEF HubMoves

\* A watcher's channel gets the new draft, or is full and missed it.
LEMMA BroadcastReaches ==
  ASSUME HubTypeOK, ChannelsHold, HubMoves
  PROVE  /\ chan' \in [Client -> Seq(Snapshot)] /\ missed' \subseteq Client /\ missed \subseteq missed'
         /\ ChannelsHold'
         /\ \/ chan'["tui"] = chan["tui"] /\ ("tui" \in watch => "tui" \in missed')
            \/ chan'["tui"] = Append(chan["tui"], hub')
<1>1. \A c \in Client : /\ chan[c] \in Seq(Snapshot) /\ Len(chan[c]) \in Nat /\ Len(chan[c]) <= Cap
                        /\ Append(chan[c], hub') \in Seq(Snapshot)
                        /\ Len(Append(chan[c], hub')) = Len(chan[c]) + 1
  BY DEF HubTypeOK, ChannelsHold, HubMoves
<1>2. chan' = [c \in Client |-> IF c \in watch /\ Len(chan[c]) < Cap THEN Append(chan[c], hub') ELSE chan[c]]
      /\ missed' = missed \cup {c \in watch : Len(chan[c]) = Cap}
  BY DEF HubMoves, Broadcast
<1>3. chan' \in [Client -> Seq(Snapshot)]
  BY <1>1, <1>2
<1>4. ChannelsHold'
  <2>1. ASSUME NEW c \in Client PROVE Len(chan'[c]) <= Cap
    BY <1>1, <1>2, CapAssumption
  <2>2. QED BY <2>1 DEF ChannelsHold
<1>5. missed' \subseteq Client /\ missed \subseteq missed'
  BY <1>2 DEF HubTypeOK
<1>6. chan'["tui"] = IF "tui" \in watch /\ Len(chan["tui"]) < Cap THEN Append(chan["tui"], hub') ELSE chan["tui"]
  BY <1>2, Clients
<1>7. "tui" \in watch /\ ~(Len(chan["tui"]) < Cap) => "tui" \in missed'
  BY <1>1, <1>2, CapAssumption, Clients
<1>8. QED BY <1>3, <1>4, <1>5, <1>6, <1>7

\* What was faithful to the draft is so after it has moved.
LEMMA FaithfulStays ==
  ASSUME HubTypeOK, HubMoves, NEW s \in Snapshot, Faithful(s)
  PROVE  FaithfulTo(hub', s)
BY DEF HubTypeOK, HubMoves, Faithful, FaithfulTo, Snapshot

LEMMA AppendedElements ==
  ASSUME NEW S, NEW q \in Seq(S), NEW e \in S
  PROVE  /\ DOMAIN Append(q, e) = 1..(Len(q) + 1) /\ DOMAIN q = 1..Len(q) /\ Len(q) \in Nat
         /\ \A i \in 1..Len(q) : Append(q, e)[i] = q[i]
         /\ Append(q, e)[Len(q) + 1] = e
OBVIOUS

\* A move of the draft by which nothing else changes but what clients show and hold.
LEMMA MoveKeeps ==
  ASSUME HubInv, HubMoves, UNCHANGED <<watch, greet>>
  PROVE  /\ \A i \in DOMAIN chan'["tui"] : FaithfulTo(hub', chan'["tui"][i])
         /\ greet'["tui"] # None => FaithfulTo(hub', greet'["tui"])
         /\ Editing => FaithfulTo(hub', editor)
         /\ "tui" \in watch /\ "tui" \notin missed' => OnItsWay'
<1> USE DEF HubInv
<1>1. /\ chan["tui"] \in Seq(Snapshot) /\ greet["tui"] \in Snapshot \cup {None}
      /\ editor \in {None, Closed} \cup Snapshot
  BY Clients DEF HubTypeOK
<1>2. hub' \in Snapshot /\ hub'.version \in Nat /\ hub'.version > 0
  BY DEF HubMoves, Snapshot
<1>3. \A i \in DOMAIN chan["tui"] : chan["tui"][i] \in Snapshot /\ FaithfulTo(hub', chan["tui"][i])
  <2>1. ASSUME NEW i \in DOMAIN chan["tui"] PROVE chan["tui"][i] \in Snapshot /\ Faithful(chan["tui"][i])
    BY <1>1, <2>1 DEF SnapsAreFaithful
  <2>2. QED BY <2>1, FaithfulStays
<1>4. /\ greet'["tui"] # None => FaithfulTo(hub', greet'["tui"])
      /\ Editing => FaithfulTo(hub', editor)
  BY <1>1, FaithfulStays DEF SnapsAreFaithful, Editing
<1>5. CASE chan'["tui"] = Append(chan["tui"], hub')
  <2>1. FaithfulTo(hub', hub')
    BY <1>2 DEF FaithfulTo
  <2>2. \A i \in DOMAIN chan'["tui"] : FaithfulTo(hub', chan'["tui"][i])
    BY <1>1, <1>2, <1>3, <1>5, <2>1, AppendedElements
  <2>3. OnItsWay'
    BY <1>1, <1>2, <1>5, AppendedElements DEF OnItsWay
  <2>4. QED BY <1>4, <2>2, <2>3
<1>6. CASE chan'["tui"] = chan["tui"] /\ ("tui" \in watch => "tui" \in missed')
  BY <1>3, <1>4, <1>6
<1>7. QED BY <1>5, <1>6, BroadcastReaches

\* The invariant after a move, whoever made it: the prompt shows what it showed, or the
\* draft it has just written.
LEMMA MoveInv ==
  ASSUME HubInv, HubMoves, UNCHANGED <<setup, watch, greet>>,
         unused' \subseteq Edit,
         view' \in [Client -> [text : SUBSET Edit, version : Nat]],
         pending' \in [Page -> {None} \cup [text : SUBSET Edit]],
         answer' \in [Page -> Answer],
         editor' = editor \/ editor' = Closed,
         \/ view'["tui"] = view["tui"]
         \/ view'["tui"].version = hub'.version /\ view'["tui"].text = hub'.text
  PROVE  HubInv'
<1> USE DEF HubInv
<1>1. HubTypeOK' /\ ChannelsHold'
  BY BroadcastReaches DEF HubTypeOK, HubMoves
<1>2. SnapsAreFaithful'
  <2>1. \A i \in DOMAIN chan'["tui"] : FaithfulTo(hub', chan'["tui"][i])
    BY MoveKeeps
  <2>2. greet'["tui"] # None => FaithfulTo(hub', greet'["tui"])
    BY MoveKeeps
  <2>3. Editing' => FaithfulTo(hub', editor')
    <3>1. CASE editor' = editor
      BY <3>1, MoveKeeps DEF Editing
    <3>2. CASE editor' = Closed
      BY <3>2 DEF Editing
    <3>3. QED BY <3>1, <3>2
  <2>4. QED BY <2>1, <2>2, <2>3 DEF SnapsAreFaithful, Faithful
<1>3. ViewIsFaithful'
  <2>1. view["tui"].version \in Nat /\ hub.version \in Nat /\ hub'.version \in Nat
    BY Clients DEF HubTypeOK, HubMoves, Snapshot
  <2>2. CASE view'["tui"] = view["tui"]
    <3>1. view'["tui"].version <= hub'.version
      BY <2>1, <2>2 DEF ViewIsFaithful, HubMoves
    <3>2. ASSUME view["tui"].version = hub'.version, ~hub'.frozen PROVE view["tui"].text = hub'.text
      <4>1. hub'.version = hub.version /\ view["tui"].version = hub.version
        BY <2>1, <3>2 DEF ViewIsFaithful, HubMoves
      <4>2. hub'.text = hub.text
        BY <4>1 DEF HubMoves
      <4>3. ~hub.frozen
        BY <3>2 DEF HubMoves
      <4>4. QED BY <4>1, <4>2, <4>3 DEF ViewIsFaithful
    <3>3. QED BY <2>2, <3>1, <3>2 DEF ViewIsFaithful
  <2>3. CASE view'["tui"].version = hub'.version /\ view'["tui"].text = hub'.text
    BY <2>1, <2>3 DEF ViewIsFaithful
  <2>4. QED BY <2>2, <2>3
<1>4. NothingIsLost'
  BY MoveKeeps DEF NothingIsLost
<1>5. QED BY <1>1, <1>2, <1>3, <1>4

\* The invariant when the draft stands still and nothing new is sent to the prompt.
LEMMA StillInv ==
  ASSUME HubInv, UNCHANGED <<setup, hub, missed>>, HubTypeOK', ChannelsHold',
         "tui" \in watch' <=> "tui" \in watch,
         chan'["tui"] = chan["tui"], greet'["tui"] = greet["tui"],
         view'["tui"].version = view["tui"].version,
         view'["tui"].text = view["tui"].text \/ hub.frozen,
         editor' = editor \/ editor' = hub \/ editor' = Closed
  PROVE  HubInv'
<1> USE DEF HubInv
<1>1. SnapsAreFaithful'
  <2>1. FaithfulTo(hub, hub)
    BY DEF FaithfulTo, HubTypeOK, Snapshot
  <2>2. QED BY <2>1 DEF SnapsAreFaithful, Faithful, Editing
<1>2. ViewIsFaithful' /\ NothingIsLost'
  BY DEF ViewIsFaithful, NothingIsLost, OnItsWay
<1>3. QED BY <1>1, <1>2

\* A client subscribes and reads.
LEMMA ClientInv ==
  ASSUME HubInv, setup' = setup, NEW c \in Client, Register(c) \/ Greet(c) \/ Deliver(c)
  PROVE  HubInv'
<1> USE DEF HubInv
<1>0. /\ chan["tui"] \in Seq(Snapshot) /\ chan[c] \in Seq(Snapshot)
      /\ greet["tui"] \in Snapshot \cup {None} /\ greet[c] \in Snapshot \cup {None}
      /\ hub \in Snapshot /\ hub.version \in Nat /\ hub.version > 0 /\ view["tui"].version \in Nat
  BY Clients DEF HubTypeOK, Snapshot
<1>1. CASE Register(c)
  <2>1. HubTypeOK' /\ ChannelsHold'
    BY <1>1 DEF Register, HubTypeOK, ChannelsHold
  <2>2. CASE c # "tui"
    BY <1>1, <2>1, <2>2, StillInv DEF Register, HubTypeOK
  <2>3. CASE c = "tui"
    <3>1. greet'["tui"] = hub /\ hub # None
      BY <1>0, <1>1, <2>3, SnapshotIsNoMark DEF Register, HubTypeOK
    <3>2. SnapsAreFaithful'
      BY <1>0, <1>1, <3>1 DEF Register, SnapsAreFaithful, Faithful, FaithfulTo, Editing
    <3>3. ViewIsFaithful' /\ NothingIsLost'
      BY <1>1, <3>1 DEF Register, ViewIsFaithful, NothingIsLost
    <3>4. QED BY <2>1, <3>2, <3>3
  <2>4. QED BY <2>2, <2>3
<1>2. CASE Greet(c)
  <2>1. HubTypeOK'
    <3>1. Append(chan[c], greet[c]) \in Seq(Snapshot)
      BY <1>0, <1>2 DEF Greet
    <3>2. QED BY <1>2, <3>1 DEF Greet, HubTypeOK
  <2>2. ChannelsHold'
    <3>1. Len(chan[c]) \in Nat /\ Len(Append(chan[c], greet[c])) = Len(chan[c]) + 1
      BY <1>0, <1>2 DEF Greet
    <3>2. ASSUME NEW d \in Client PROVE Len(chan'[d]) <= Cap
      BY <1>2, <3>1, CapAssumption DEF Greet, ChannelsHold, HubTypeOK
    <3>3. QED BY <3>2 DEF ChannelsHold
  <2>3. CASE c # "tui"
    BY <1>2, <2>1, <2>2, <2>3, StillInv DEF Greet, HubTypeOK
  <2>4. CASE c = "tui"
    <3>1. greet["tui"] \in Snapshot /\ Faithful(greet["tui"]) /\ greet'["tui"] = None
          /\ chan'["tui"] = Append(chan["tui"], greet["tui"])
      BY <1>0, <1>2, <2>4 DEF Greet, SnapsAreFaithful, HubTypeOK
    <3>2. SnapsAreFaithful'
      <4>1. \A i \in DOMAIN chan'["tui"] : Faithful(chan'["tui"][i])
        BY <1>0, <3>1, AppendedElements DEF SnapsAreFaithful
      <4>2. QED BY <1>2, <3>1, <4>1 DEF Greet, SnapsAreFaithful, Faithful, Editing
    <3>3. ViewIsFaithful'
      BY <1>2 DEF Greet, ViewIsFaithful
    <3>4. NothingIsLost'
      <4>1. /\ DOMAIN chan'["tui"] = 1..(Len(chan["tui"]) + 1) /\ DOMAIN chan["tui"] = 1..Len(chan["tui"])
            /\ Len(chan["tui"]) \in Nat
            /\ \A i \in 1..Len(chan["tui"]) : chan'["tui"][i] = chan["tui"][i]
            /\ chan'["tui"][Len(chan["tui"]) + 1] = greet["tui"]
        BY <1>0, <3>1, AppendedElements
      <4>2. hub' = hub /\ view' = view /\ watch' = watch /\ missed' = missed
        BY <1>2 DEF Greet
      <4>3. OnItsWay \/ greet["tui"].version = hub.version => OnItsWay'
        BY <4>1, <4>2 DEF OnItsWay
      <4>4. QED BY <4>2, <4>3 DEF NothingIsLost
    <3>5. QED BY <2>1, <2>2, <3>2, <3>3, <3>4
  <2>5. QED BY <2>3, <2>4
<1>3. CASE Deliver(c)
  <2>1. Tail(chan[c]) \in Seq(Snapshot) /\ Head(chan[c]) \in Snapshot /\ Head(chan[c]) = chan[c][1]
        /\ Len(Tail(chan[c])) <= Len(chan[c]) /\ Len(chan[c]) \in Nat /\ Len(Tail(chan[c])) \in Nat
    BY <1>0, <1>3 DEF Deliver
  <2>2. chan' = [chan EXCEPT ![c] = Tail(chan[c])] /\ UNCHANGED <<hub, watch, greet, pending, answer, editor, unused>>
    BY <1>3 DEF Deliver
  <2>3. \/ view' = view
        \/ /\ NotOlder(c, chan[c][1])
           /\ view' = [view EXCEPT ![c] = [text |-> chan[c][1].text, version |-> chan[c][1].version]]
    BY <1>3, <2>1 DEF Deliver, Show
  <2>4. missed' = missed \/ (missed' = missed \cup {"tui"} /\ c = "tui")
    BY <1>3 DEF Deliver
  <2>5. view' \in [Client -> [text : SUBSET Edit, version : Nat]]
    <3>1. chan[c][1].text \in SUBSET Edit /\ chan[c][1].version \in Nat
      BY <2>1 DEF Snapshot
    <3>2. [text |-> chan[c][1].text, version |-> chan[c][1].version] \in [text : SUBSET Edit, version : Nat]
      BY <3>1
    <3>3. QED BY <2>3, <3>2 DEF HubTypeOK
  <2>6. HubTypeOK'
    BY <2>1, <2>2, <2>4, <2>5, Clients DEF HubTypeOK
  <2>7. ChannelsHold'
    <3>1. ASSUME NEW d \in Client PROVE Len(chan'[d]) <= Cap
      BY <2>1, <2>2, CapAssumption DEF ChannelsHold, HubTypeOK
    <3>2. QED BY <3>1 DEF ChannelsHold
  <2>8. CASE c # "tui"
    <3>1. view'["tui"] = view["tui"] /\ chan'["tui"] = chan["tui"]
      BY <2>2, <2>3, <2>8, Clients DEF HubTypeOK
    <3>2. QED BY <2>2, <2>4, <2>6, <2>7, <2>8, <3>1, StillInv
  <2>9. CASE c = "tui"
    <3>1. /\ chan'["tui"] = Tail(chan["tui"])
          /\ DOMAIN Tail(chan["tui"]) = 1..(Len(chan["tui"]) - 1)
          /\ DOMAIN chan["tui"] = 1..Len(chan["tui"]) /\ Len(chan["tui"]) \in Nat /\ Len(chan["tui"]) > 0
          /\ \A i \in 1..(Len(chan["tui"]) - 1) : Tail(chan["tui"])[i] = chan["tui"][i + 1]
      <4>1. chan["tui"] # <<>>
        BY <1>3, <2>9 DEF Deliver
      <4>2. chan'["tui"] = Tail(chan["tui"])
        BY <2>2, <2>9, Clients DEF HubTypeOK
      <4>3. QED BY <1>0, <4>1, <4>2
    <3>2. \A i \in DOMAIN chan'["tui"] : Faithful(chan'["tui"][i])
      BY <3>1 DEF SnapsAreFaithful
    <3>3. SnapsAreFaithful'
      BY <2>2, <3>2 DEF SnapsAreFaithful, Faithful, Editing
    <3>4. Faithful(chan["tui"][1]) /\ chan["tui"][1].version \in Nat
      BY <2>1, <2>9, <3>1 DEF SnapsAreFaithful, Snapshot
    <3>5. \/ view'["tui"] = view["tui"]
          \/ /\ view'["tui"].version = chan["tui"][1].version /\ view'["tui"].text = chan["tui"][1].text
      BY <2>3, <2>9, Clients DEF HubTypeOK
    <3>6. ViewIsFaithful'
      BY <1>0, <2>2, <3>4, <3>5 DEF ViewIsFaithful, Faithful, FaithfulTo
    <3>7. NothingIsLost'
      <4> SUFFICES ASSUME "tui" \in watch, "tui" \notin missed'
                   PROVE  view'["tui"].version = hub.version \/ OnItsWay'
        BY <2>2 DEF NothingIsLost
      <4>1. greet["tui"] = None /\ missed' = missed /\ "tui" \notin missed
        BY <1>3, <2>4, <2>9 DEF Deliver
      <4>2. CASE view["tui"].version = hub.version
        <5>1. view'["tui"] = view["tui"] \/ view'["tui"].version >= view["tui"].version
          BY <1>0, <2>3, <2>9, <3>4, <3>5 DEF NotOlder
        <5>2. view'["tui"].version \in Nat
          BY <2>5, Clients
        <5>3. QED BY <1>0, <2>2, <3>6, <4>2, <5>1, <5>2 DEF ViewIsFaithful
      <4>3. CASE OnItsWay
        <5>1. PICK i \in 1..Len(chan["tui"]) : chan["tui"][i].version = hub.version
          BY <3>1, <4>3 DEF OnItsWay
        <5>2. CASE i = 1
          <6>1. NotOlder("tui", chan["tui"][1])
            BY <1>0, <5>1, <5>2 DEF NotOlder, ViewIsFaithful
          <6>2. view' = [view EXCEPT !["tui"] = [text |-> chan["tui"][1].text, version |-> chan["tui"][1].version]]
            BY <1>3, <2>1, <2>9, <4>1, <6>1, Clients DEF Deliver, Show
          <6>3. QED BY <5>1, <5>2, <6>2, Clients DEF HubTypeOK
        <5>3. CASE i # 1
          <6>1. i - 1 \in DOMAIN chan'["tui"] /\ chan'["tui"][i - 1] = chan["tui"][i]
            BY <3>1, <5>1, <5>3
          <6>2. QED BY <2>2, <5>1, <6>1 DEF OnItsWay
        <5>4. QED BY <5>2, <5>3
      <4>4. QED BY <4>1, <4>2, <4>3 DEF NothingIsLost
    <3>8. QED BY <2>6, <2>7, <3>3, <3>6, <3>7
  <2>10. QED BY <2>8, <2>9
<1>4. QED BY <1>1, <1>2, <1>3

\* A tab types, publishes, asks, is answered, and loses its stream.
LEMMA PageInv ==
  ASSUME HubInv, setup' = setup, NEW p \in Page, Unsubscribe(p) \/ PageStep(p)
  PROVE  HubInv'
<1> USE DEF HubInv
<1>0. p \in Client /\ p # "tui" /\ "tui" \in Client
  BY Clients
<1>1. CASE Unsubscribe(p)
  <2>1. HubTypeOK'
    BY <1>0, <1>1 DEF Unsubscribe, HubTypeOK
  <2>2. ChannelsHold'
    <3>1. Len(<<>>) = 0
      OBVIOUS
    <3>2. ASSUME NEW d \in Client PROVE Len(chan'[d]) <= Cap
      BY <1>1, <3>1, CapAssumption DEF Unsubscribe, ChannelsHold, HubTypeOK
    <3>3. QED BY <3>2 DEF ChannelsHold
  <2>3. QED BY <1>0, <1>1, <2>1, <2>2, StillInv DEF Unsubscribe, HubTypeOK
<1>2. CASE TypeInPage(p)
  <2>1. PICK e \in unused :
          /\ unused' = unused \ {e}
          /\ view' = [view EXCEPT ![p].text = @ \cup {e}]
          /\ pending' = [pending EXCEPT ![p] = [text |-> view'[p].text]]
          /\ UNCHANGED <<hub, watch, greet, chan, answer, editor, missed>>
    BY <1>2 DEF TypeInPage
  <2>2. view' \in [Client -> [text : SUBSET Edit, version : Nat]] /\ view'["tui"] = view["tui"]
    BY <1>0, <2>1 DEF HubTypeOK
  <2>3. view'[p].text \in SUBSET Edit
    BY <1>0, <2>2
  <2>4. HubTypeOK' /\ ChannelsHold'
    BY <2>1, <2>2, <2>3 DEF HubTypeOK, ChannelsHold
  <2>5. QED BY <2>1, <2>2, <2>4, StillInv
<1>3. CASE Publish(p)
  <2>1. pending[p].text \in SUBSET Edit /\ view[p].version \in Nat
    BY <1>0, <1>3 DEF Publish, HubTypeOK
  <2>2. Update(pending[p].text, view[p].version) /\ UNCHANGED <<watch, greet, view, editor, unused>>
        /\ pending' = [pending EXCEPT ![p] = None]
        /\ answer' = [answer EXCEPT ![p] = IF Takes(view[p].version) THEN [kind |-> "post", snap |-> hub']
                                           ELSE [kind |-> "refused"]]
    BY <1>3 DEF Publish
  <2>3. pending' \in [Page -> {None} \cup [text : SUBSET Edit]]
    BY <2>2 DEF HubTypeOK
  <2>4. CASE Takes(view[p].version)
    <3>1. HubMoves
      BY <2>1, <2>2, <2>4, UpdateMoves
    <3>2. [kind |-> "post", snap |-> hub'] \in Answer
      BY <3>1 DEF HubMoves, Answer
    <3>3. answer' \in [Page -> Answer]
      BY <2>2, <2>4, <3>2 DEF HubTypeOK
    <3>4. QED BY <2>2, <2>3, <3>1, <3>3, MoveInv DEF HubTypeOK
  <2>5. CASE ~Takes(view[p].version)
    <3>1. UNCHANGED <<hub, chan, missed>>
      BY <2>2, <2>5 DEF Update
    <3>2. answer' \in [Page -> Answer]
      BY <2>2, <2>5 DEF HubTypeOK, Answer
    <3>3. HubTypeOK' /\ ChannelsHold'
      BY <2>2, <2>3, <3>1, <3>2 DEF HubTypeOK, ChannelsHold
    <3>4. QED BY <2>2, <3>1, <3>3, StillInv
  <2>6. QED BY <2>4, <2>5
<1>4. CASE Fetch(p)
  <2>1. [kind |-> "get", snap |-> hub] \in Answer
    BY DEF HubTypeOK, Answer
  <2>2. answer' = [answer EXCEPT ![p] = [kind |-> "get", snap |-> hub]]
        /\ UNCHANGED <<hub, watch, greet, chan, view, pending, editor, missed, unused>>
    BY <1>4 DEF Fetch
  <2>3. HubTypeOK' /\ ChannelsHold'
    BY <2>1, <2>2 DEF HubTypeOK, ChannelsHold
  <2>4. QED BY <2>2, <2>3, StillInv
<1>5. CASE Answered(p)
  <2>1. answer[p].snap \in Snapshot
    <3>1. answer[p] \in Answer /\ answer[p] # None /\ answer[p].kind # "refused"
      BY <1>5 DEF Answered, HubTypeOK
    <3>2. answer[p] \in [kind : {"post", "get"}, snap : Snapshot]
      BY <3>1 DEF Answer
    <3>3. QED BY <3>2
  <2>2. answer[p].snap.text \in SUBSET Edit /\ answer[p].snap.version \in Nat
    BY <2>1 DEF Snapshot
  <2>3. /\ \/ view' = [view EXCEPT ![p] = [text |-> answer[p].snap.text, version |-> answer[p].snap.version]]
           \/ view' = [view EXCEPT ![p].version = answer[p].snap.version]
        /\ answer' = [answer EXCEPT ![p] = None]
        /\ UNCHANGED <<hub, watch, greet, chan, pending, editor, missed, unused>>
    BY <1>5 DEF Answered, Show
  <2>4. view' \in [Client -> [text : SUBSET Edit, version : Nat]] /\ view'["tui"] = view["tui"]
    <3>1. CASE view' = [view EXCEPT ![p] = [text |-> answer[p].snap.text, version |-> answer[p].snap.version]]
      BY <1>0, <2>2, <3>1 DEF HubTypeOK
    <3>2. CASE view' = [view EXCEPT ![p].version = answer[p].snap.version]
      BY <1>0, <2>2, <3>2 DEF HubTypeOK
    <3>3. QED BY <2>3, <3>1, <3>2
  <2>5. answer' \in [Page -> Answer]
    BY <2>3 DEF HubTypeOK, Answer
  <2>6. HubTypeOK' /\ ChannelsHold'
    BY <2>3, <2>4, <2>5 DEF HubTypeOK, ChannelsHold
  <2>7. QED BY <2>3, <2>4, <2>6, StillInv
<1>6. QED BY <1>1, <1>2, <1>3, <1>4, <1>5 DEF PageStep

\* The editor closes: its text is taken only when the draft is still the one it was given.
LEMMA ClosedEditor ==
  ASSUME HubInv, CloseEditor
  PROVE  /\ Editing /\ editor' = Closed /\ editor \in Snapshot /\ Faithful(editor)
         /\ UNCHANGED <<watch, greet, pending, answer>>
         /\ unused' \subseteq Edit
         /\ \E text \in SUBSET Edit :
              /\ editor.text \subseteq text
              /\ Update(text, editor.version)
              /\ IF Takes(editor.version) THEN Show("tui", hub') ELSE UNCHANGED view
<1>1. Editing /\ editor' = Closed /\ UNCHANGED <<watch, greet, pending, answer>>
  BY DEF CloseEditor
<1>2. editor \in Snapshot /\ Faithful(editor)
  BY <1>1 DEF HubInv, HubTypeOK, SnapsAreFaithful, Editing
<1>3. PICK more \in SUBSET unused :
        /\ unused' = unused \ more
        /\ Update(editor.text \cup more, editor.version)
        /\ IF Takes(editor.version) THEN Show("tui", hub') ELSE UNCHANGED view
  BY DEF CloseEditor
<1>4. editor.text \cup more \in SUBSET Edit /\ unused' \subseteq Edit
  BY <1>2, <1>3 DEF HubInv, HubTypeOK, Snapshot
<1>5. QED BY <1>1, <1>2, <1>3, <1>4

\* A key in the prompt, and the editor it opens.
LEMMA PromptInv ==
  ASSUME HubInv, setup' = setup, TypeInPrompt \/ OpenEditor \/ CloseEditor
  PROVE  HubInv'
<1> USE DEF HubInv
<1>0. "tui" \in Client /\ view["tui"] \in [text : SUBSET Edit, version : Nat]
  BY Clients DEF HubTypeOK
<1>1. CASE TypeInPrompt
  <2>1. PICK e \in unused :
          /\ unused' = unused \ {e}
          /\ Update(view["tui"].text \cup {e}, 0)
          /\ view' = [view EXCEPT !["tui"] =
                        [text |-> view["tui"].text \cup {e},
                         version |-> IF Takes(0) THEN hub'.version ELSE view["tui"].version]]
          /\ UNCHANGED <<watch, greet, pending, answer, editor>>
    BY <1>1 DEF TypeInPrompt
  <2>2. view["tui"].text \cup {e} \in SUBSET Edit /\ unused' \subseteq Edit
    BY <1>0, <2>1 DEF HubTypeOK
  <2>3. CASE Takes(0)
    <3>1. HubMoves /\ hub'.text = view["tui"].text \cup {e} /\ hub'.version \in Nat
      <4>1. HubMoves /\ hub'.text = view["tui"].text \cup {e}
        BY <2>1, <2>2, <2>3, UpdateMoves
      <4>2. QED BY <4>1 DEF HubMoves, Snapshot
    <3>2. /\ view' \in [Client -> [text : SUBSET Edit, version : Nat]]
          /\ view'["tui"].version = hub'.version /\ view'["tui"].text = hub'.text
      BY <1>0, <2>1, <2>2, <2>3, <3>1 DEF HubTypeOK
    <3>3. QED BY <2>1, <2>2, <3>1, <3>2, MoveInv DEF HubTypeOK
  <2>4. CASE ~Takes(0)
    <3>1. UNCHANGED <<hub, chan, missed>>
      BY <2>1, <2>4 DEF Update
    <3>2. hub.frozen
      BY <2>4 DEF Takes
    <3>3. view' \in [Client -> [text : SUBSET Edit, version : Nat]] /\ view'["tui"].version = view["tui"].version
      BY <1>0, <2>1, <2>2, <2>4 DEF HubTypeOK
    <3>4. HubTypeOK' /\ ChannelsHold'
      BY <2>1, <2>2, <3>1, <3>3 DEF HubTypeOK, ChannelsHold
    <3>5. QED BY <2>1, <3>1, <3>2, <3>3, <3>4, StillInv
  <2>5. QED BY <2>3, <2>4
<1>2. CASE OpenEditor
  <2>1. editor' = hub /\ UNCHANGED <<hub, watch, greet, chan, view, pending, answer, missed, unused>>
    BY <1>2 DEF OpenEditor
  <2>2. HubTypeOK' /\ ChannelsHold'
    BY <2>1 DEF HubTypeOK, ChannelsHold
  <2>3. QED BY <2>1, <2>2, StillInv
<1>3. CASE CloseEditor
  <2>1. PICK text \in SUBSET Edit :
          /\ Update(text, editor.version)
          /\ IF Takes(editor.version) THEN Show("tui", hub') ELSE UNCHANGED view
    BY <1>3, ClosedEditor
  <2>2. /\ editor' = Closed /\ editor.version \in Nat /\ unused' \subseteq Edit
        /\ UNCHANGED <<watch, greet, pending, answer>>
    BY <1>3, ClosedEditor DEF Snapshot
  <2>3. CASE Takes(editor.version)
    <3>1. HubMoves
      BY <2>1, <2>2, <2>3, UpdateMoves
    <3>2. hub'.text \in SUBSET Edit /\ hub'.version \in Nat
      BY <3>1 DEF HubMoves, Snapshot
    <3>3. view' = [view EXCEPT !["tui"] = [text |-> hub'.text, version |-> hub'.version]]
      BY <2>1, <2>3 DEF Show
    <3>4. /\ view' \in [Client -> [text : SUBSET Edit, version : Nat]]
          /\ view'["tui"].version = hub'.version /\ view'["tui"].text = hub'.text
      BY <1>0, <3>2, <3>3 DEF HubTypeOK
    <3>5. QED BY <2>2, <3>1, <3>4, MoveInv DEF HubTypeOK
  <2>4. CASE ~Takes(editor.version)
    <3>1. UNCHANGED <<hub, chan, missed, view>>
      BY <2>1, <2>4 DEF Update
    <3>2. HubTypeOK' /\ ChannelsHold'
      BY <2>2, <3>1 DEF HubTypeOK, ChannelsHold
    <3>3. QED BY <2>2, <3>1, <3>2, StillInv
  <2>5. QED BY <2>3, <2>4
<1>4. QED BY <1>1, <1>2, <1>3

LEMMA HubStart == Init => HubInv
<1> SUFFICES ASSUME Init PROVE HubInv
  OBVIOUS
<1>1. setup \in Setup /\ setup.initial \in SUBSET Edit /\ setup.edits \in SUBSET Edit
  BY SetupAssumption DEF Init, SetupType
<1>2. HubTypeOK /\ ChannelsHold
  <2>1. [text |-> setup.initial, version |-> 1, frozen |-> FALSE] \in Snapshot
    BY <1>1 DEF Snapshot
  <2>2. [text |-> setup.initial, version |-> 0] \in [text : SUBSET Edit, version : Nat]
    BY <1>1
  <2>3. Len(<<>>) = 0 /\ <<>> \in Seq(Snapshot)
    OBVIOUS
  <2>4. HubTypeOK
    BY <1>1, <2>1, <2>2, <2>3 DEF Init, HubInit, HubTypeOK, Answer
  <2>5. ChannelsHold
    BY <2>3, CapAssumption DEF Init, HubInit, ChannelsHold
  <2>6. QED BY <2>4, <2>5
<1>3. SnapsAreFaithful /\ ViewIsFaithful /\ NothingIsLost
  BY <1>1, Clients DEF Init, HubInit, SnapsAreFaithful, ViewIsFaithful, NothingIsLost, Editing
<1>4. QED BY <1>2, <1>3 DEF HubInv

LEMMA HubStep == ASSUME HubInv, [Next]_vars PROVE HubInv'
<1>1. HubTypeOK
  BY DEF HubInv
<1>2. setup' = setup
  BY <1>1, HubSteps
<1>3. CASE UNCHANGED hubVars
  BY <1>2, <1>3 DEF hubVars, HubInv, HubTypeOK, ChannelsHold, SnapsAreFaithful, Faithful, Editing,
                    ViewIsFaithful, NothingIsLost, OnItsWay
<1>4. CASE Freeze /\ Quiet
  BY <1>1, <1>2, <1>4, FreezeMoves, MoveInv DEF Quiet, HubTypeOK
<1>5. ASSUME NEW text \in SUBSET Edit, Update(text, 0), Quiet PROVE HubInv'
  <2>1. CASE Takes(0)
    BY <1>1, <1>2, <1>5, <2>1, UpdateMoves, MoveInv DEF Quiet, HubTypeOK
  <2>2. CASE ~Takes(0)
    <3>1. UNCHANGED hubVars
      BY <1>5, <2>2 DEF Update, Quiet, hubVars
    <3>2. QED BY <1>3, <3>1
  <2>3. QED BY <2>1, <2>2
<1>6. QED BY <1>1, <1>2, <1>3, <1>4, <1>5, HubSteps, ClientInv, PageInv, PromptInv

\* Whatever the order of the first snapshot and the broadcasts, a prompt that has read all it
\* was sent shows the draft (draft_sync.go: Subscribe against broadcastLocked).
THEOREM CommandShowsDraft == Spec => []PromptShowsDraft
<1>1. HubInv => PromptShowsDraft
  <2> SUFFICES ASSUME HubInv, "tui" \in watch, greet["tui"] = None, chan["tui"] = <<>>, "tui" \notin missed
               PROVE  /\ view["tui"].version = hub.version
                      /\ ~hub.frozen => view["tui"].text = hub.text
    BY DEF PromptShowsDraft
  <2>1. ~OnItsWay
    BY DEF OnItsWay
  <2>2. QED BY <2>1 DEF HubInv, NothingIsLost, ViewIsFaithful
<1>2. QED BY <1>1, HubStart, HubStep, PTL DEF Spec

\* An editor that was open for any time never undoes what was written meanwhile
\* (review_runtime.go: openEditor updates with the version of its snapshot).
THEOREM CommandEditorKeeps == Spec => EditorKeepsOthers
<1>1. HubInv /\ [Next]_vars =>
        [Editing /\ editor' = Closed /\ hub'.version # hub.version => hub.text \subseteq hub'.text]_hubVars
  <2> SUFFICES ASSUME HubInv, [Next]_vars, Editing, editor' = Closed, hub'.version # hub.version
               PROVE  hub.text \subseteq hub'.text
    OBVIOUS
  <2>1. HubTypeOK /\ editor # Closed
    BY DEF HubInv, Editing
  <2>2. CASE CloseEditor
    <3>1. PICK text \in SUBSET Edit : editor.text \subseteq text /\ Update(text, editor.version)
      BY <2>2, ClosedEditor
    <3>2. editor \in Snapshot /\ Faithful(editor)
      BY <2>2, ClosedEditor
    <3>3. Takes(editor.version)
      BY <3>1 DEF Update
    <3>4. editor.version \in Nat /\ hub.version \in Nat /\ hub.version > 0
      BY <2>1, <3>2 DEF HubTypeOK, Snapshot
    <3>5. editor.version = hub.version
      BY <3>2, <3>3, <3>4 DEF Takes, Faithful, FaithfulTo
    <3>6. QED BY <2>1, <3>1, <3>2, <3>3, <3>4, <3>5, UpdateMoves DEF Faithful, FaithfulTo
  <2>3. CASE ~CloseEditor
    <3>1. editor' = editor \/ editor' = hub
      BY <2>1, <2>3, HubSteps DEF hubVars, Quiet, Register, Greet, Deliver, Unsubscribe, PageStep,
           TypeInPage, Publish, Fetch, Answered, TypeInPrompt, OpenEditor
    <3>2. hub # Closed
      BY <2>1, SnapshotIsNoMark DEF HubTypeOK
    <3>3. QED BY <2>1, <3>1, <3>2
  <2>4. QED BY <2>2, <2>3
<1>2. QED BY <1>1, HubStart, HubStep, PTL DEF Spec, EditorKeepsOthers

-----------------------------------------------------------------------------
(* The command around the hub *)

Held == Decision \cup {NoDecision}

CommandTypeOK ==
  /\ rt \in Runtime /\ box \in Held /\ held \in Held
  /\ th \in [Thread -> [at : {"idle", "try", "freeze", "send", "ok", "refused"}, d : Held]]
  /\ page \in [shown : BOOLEAN, status : {"in_progress", "completed", "failed"}, blocked : BOOLEAN]

Early == {"start", "collect", "submit", "serve", "begin"}

\* What main has behind it where it is.
WhereMainIs ==
  /\ main \in Early => poll = "idle" /\ ~written
  /\ main \in {"settle", "execute"} => blocking
  /\ main \in Early \cup {"wait", "stopping", "polled", "decide"} => held = NoDecision
  /\ main \in {"attest", "outputs", "finish"} /\ setup.way = "agent" => poll = "ok"
  /\ main = "attest" => setup.way = "agent"
  /\ exit # "none" => main \in {"leaving", "done"}

\* A commit on its way to main was accepted after the poll of a blocking review, and main
\* goes on with that review only when it has succeeded.
CommitsAreAccepted ==
  /\ \A d \in {rt.chosen, box, held} : d.code = "commit" => rt.phase = "complete"
  /\ rt.phase = "complete" =>
       /\ blocking /\ main \in {"polled", "decide", "settle", "execute", "leaving", "done"}
       /\ main \in {"decide", "settle", "execute"} => poll = "ok" /\ (tree # "none" \/ failed)

\* An attestation is written once, over the one that was found or the one --force deleted.
WrittenOnce ==
  /\ written => tree # "none"
  /\ ~written => tree \in {setup.tree, "none"}

\* The upload is announced before there is a page, and a page does not come by itself.
UploadFirst ==
  /\ scoring # "off" => setup.score
  /\ main \in {"start", "collect", "submit"} => ~page.shown
  /\ (page.shown \/ main = "serve") /\ setup.score /\ ~setup.fake => upload # "idle"

CommandInv ==
  /\ CommandTypeOK /\ WhereMainIs /\ CommitsAreAccepted /\ WrittenOnce /\ UploadFirst
  /\ AttestedAsDone /\ BlockingCommitWasReviewed

\* What a goroutine is about to decide is a decision.
LEMMA RequestAsks ==
  ASSUME HubTypeOK, NEW q \in Req, Request(q)
  PROVE  \E d \in Held : th' = [th EXCEPT ![q] = [at |-> "try", d |-> d]]
<1>1. PICK p \in Page, code \in Code, push \in BOOLEAN :
        th' = [th EXCEPT ![q] =
                 [at |-> "try",
                  d |-> [source |-> "web", code |-> code, push |-> push,
                         msg |-> IF code \in {"abort", "handoff"} THEN {} ELSE view[p].text]]]
  BY DEF Request
<1> DEFINE text == IF code \in {"abort", "handoff"} THEN {} ELSE view[p].text
<1>2. text \in SUBSET Edit
  BY Clients DEF HubTypeOK
<1> HIDE DEF text
<1>3. [source |-> "web", code |-> code, push |-> push, msg |-> text] \in Held
  BY <1>2 DEF Held, Decision, Source
<1> QED BY <1>1, <1>3 DEF text

LEMMA SignalAborts == Abort("signal") \in Held
BY DEF Abort, Held, Decision, Source, Code

LEMMA Asks ==
  ASSUME CommandTypeOK, NEW t \in Thread, NEW d \in Held, th' = [th EXCEPT ![t] = [at |-> "try", d |-> d]],
         UNCHANGED <<rt, box, held, page>>
  PROVE  CommandTypeOK'
BY DEF CommandTypeOK

\* The steps of main, one by one.
LEMMA CommandStep ==
  ASSUME HubTypeOK, CommandInv, [Next]_vars
  PROVE  CommandInv'
<1> USE DEF CommandInv, blocking, HasHub, HasPage, PollEnded, CommandTypeOK, Held, Early, WhereMainIs, CommitsAreAccepted, WrittenOnce, UploadFirst, AttestedAsDone, BlockingCommitWasReviewed
<1>0. setup' = setup
  BY HubSteps
<1> USE <1>0
<1>1. CASE AttestNow
  BY <1>1 DEF AttestNow, before, blastVars, disk, AttestOk, AttestFails, Return, pageVars, decideVars, blastVars
<1>2. CASE Prepare
  BY <1>2 DEF Prepare, before, blastVars, Return, pageVars, decideVars, blastVars
<1>3. CASE Collect
  BY <1>3 DEF Collect, before, AttestOk, AttestFails, Return, pageVars, decideVars, blastVars
<1>4. CASE Submit
  BY <1>4 DEF Submit, AttestOk, AttestFails, Return, UploadStarts, pageVars, decideVars, blastVars
<1>5. CASE Serve
  BY <1>5 DEF Serve, rest, disk, NewPage, Leave, pageVars, decideVars, blastVars
<1>6. CASE Begin
  BY <1>6 DEF Begin, rest, disk, Leave, pageVars, decideVars, blastVars
<1>7. CASE WaitHistory \/ WaitPlain
  BY <1>7 DEF WaitHistory, WaitPlain, rest, disk, Wait, Leave, pageVars, decideVars, blastVars
<1>8. CASE HistoryResult
  BY <1>8 DEF HistoryResult, rest, disk, Leave, WithResult, WithError, pageVars, decideVars, blastVars
<1>9. CASE PlainResult
  BY <1>9 DEF PlainResult, rest, disk, Leave, pageVars, decideVars, blastVars
<1>10. CASE AttestAgent
  BY <1>10 DEF AttestAgent, rest, RecordAndAttest, RecordFails, AttestOk, pageVars, decideVars, blastVars
<1>11. CASE Outputs
  BY <1>11 DEF Outputs, rest, disk, Leave, pageVars, decideVars, blastVars
<1>12. CASE Finish
  BY <1>12 DEF Finish, rest, AttestOk, AttestFails, Leave, pageVars, decideVars, blastVars
<1>13. CASE TakeDecision
  BY <1>13 DEF TakeDecision, NoDecision, disk, Leave, pageVars, decideVars, blastVars
<1>14. CASE Settle
  BY <1>14 DEF Settle, rest, disk, Leave, pageVars, decideVars, blastVars
<1>15. CASE PollDone
  BY <1>15 DEF PollDone, Runtime, Phase, disk, InPhase, pageVars, decideVars, blastVars
<1>16. CASE BlockingResult
  BY <1>16 DEF BlockingResult, rest, disk, WithResult, WithError, Leave, RecordAndAttest, RecordFails, AttestOk, pageVars, decideVars, blastVars
<1>17. CASE Execute
  BY <1>17 DEF Execute, rest, disk, AttestOk, AttestFails, Leave, pageVars, decideVars, blastVars
<1>18. CASE Exit
  BY <1>18 DEF Exit, rest, disk, pageVars, decideVars, blastVars
<1>19. CASE Timeout
  BY <1>19 DEF Timeout, rest, disk, Leave, WithError, pageVars, decideVars, blastVars
<1>20. CASE View
  BY <1>20 DEF View, rest, disk, Leave, pageVars, decideVars, blastVars
<1>21. CASE PollStep
  BY <1>21 DEF PollStep, others, disk, pageVars, decideVars, blastVars
<1>22. CASE Score
  BY <1>22 DEF Score, others, disk, pageVars, decideVars, blastVars
<1>23. CASE Upload
  BY <1>23 DEF Upload, others, disk, pageVars, decideVars, blastVars
<1>24. ASSUME NEW q \in Req, Request(q) PROVE CommandInv'
  <2>1. PICK d \in Held : th' = [th EXCEPT ![q] = [at |-> "try", d |-> d]]
    BY <1>24, RequestAsks
  <2>2. CommandTypeOK'
    BY <1>24, <2>1, Asks DEF Request, still, pageVars, Thread
  <2> QED BY <1>24, <2>2 DEF Request, still, pageVars, blastVars, disk
<1>25. CASE Interrupt
  <2>1. CommandTypeOK'
    BY <1>25, SignalAborts, Asks DEF Interrupt, still, pageVars, Thread
  <2> QED BY <1>25, <2>1 DEF Interrupt, still, pageVars, blastVars, disk
<1>26. ASSUME NEW t \in Thread, Decide(t) PROVE CommandInv'
  <2>1. CASE th[t].at = "try"
    BY <1>26, <2>1 DEF Decide, still, pageVars, blastVars, disk, Runtime, Accepts, Decided, Valid,
         ValidRequest, ActionAllowedInPhase, NoDecision
  <2>2. CASE th[t].at = "freeze"
    BY <1>26, <2>2 DEF Decide, still, pageVars, blastVars, disk
  <2>3. CASE th[t].at = "send"
    BY <1>26, <2>3 DEF Decide, still, pageVars, blastVars, disk, Runtime
  <2> QED BY <1>26, <2>1, <2>2, <2>3 DEF Decide
<1>27. CASE Draft
  BY <1>27 DEF Draft, still, decideVars, pageVars, blastVars, disk
<1>28. CASE UNCHANGED vars
  BY <1>28 DEF vars, decideVars, pageVars, blastVars, disk
<1> QED
  BY <1>1, <1>2, <1>3, <1>4, <1>5, <1>6, <1>7, <1>8, <1>9, <1>10, <1>11, <1>12, <1>13, <1>14, <1>15,
     <1>16, <1>17, <1>18, <1>19, <1>20, <1>21, <1>22, <1>23, <1>24, <1>25, <1>26, <1>27, <1>28
  DEF Next, Main

LEMMA CommandStart == Init => CommandInv
<1> SUFFICES ASSUME Init PROVE CommandInv
  OBVIOUS
<1>1. NewRuntime("running") \in Runtime /\ NewRuntime("running").chosen = NoDecision
      /\ NewRuntime("running").phase = "running"
  BY DEF NewRuntime, Runtime, Phase
<1>2. CommandTypeOK
  BY <1>1 DEF Init, CommandTypeOK, Held
<1>3. WhereMainIs
  BY DEF Init, WhereMainIs
<1>4. CommitsAreAccepted
  BY <1>1 DEF Init, CommitsAreAccepted, NoDecision
<1>5. WrittenOnce /\ UploadFirst /\ AttestedAsDone /\ BlockingCommitWasReviewed
  BY DEF Init, WrittenOnce, UploadFirst, AttestedAsDone, BlockingCommitWasReviewed
<1> QED BY <1>2, <1>3, <1>4, <1>5 DEF CommandInv

LEMMA CommandAlways == Spec => []CommandInv
<1>1. HubInv => HubTypeOK
  BY DEF HubInv
<1> QED BY <1>1, HubStart, HubStep, CommandStart, CommandStep, PTL DEF Spec

\* Whatever the browser, the signal, the timer and the poll do, and in any order: a blocking
\* review lets a commit go on only after its poll has succeeded and the tree is attested, with
\* a message that was decided on (review_runtime.go: the blocking branch of runReviewWithOptions).
THEOREM CommandCommitsReviewed == Spec => []BlockingCommitWasReviewed
<1>1. CommandInv => BlockingCommitWasReviewed
  BY DEF CommandInv
<1> QED BY <1>1, CommandAlways, PTL

\* Each way through the command attests only what it did: no way, and no failure of a write or
\* of the poll, leaves the attestation of another (ensureAttestationFull, executeDecision).
THEOREM CommandAttestsAsDone == Spec => []AttestedAsDone
<1>1. CommandInv => AttestedAsDone
  BY DEF CommandInv
<1> QED BY <1>1, CommandAlways, PTL

\* The upload of the scores is announced before the page that could be closed on it
\* (review_runtime.go: "uploading" is set before the goroutine and the server are started).
THEOREM CommandShowsUpload == Spec => []UploadShown
<1>1. CommandInv => UploadShown
  BY DEF CommandInv, UploadFirst, UploadShown
<1> QED BY <1>1, CommandAlways, PTL

=============================================================================
