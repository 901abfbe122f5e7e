-------------------------- MODULE CommitHooksProofs --------------------------
(***************************************************************************)
(* Proofs about CommitHooks, for any number of commands at the same time,   *)
(* of trees and of commits.                                                 *)
(***************************************************************************)
EXTENDS CommitHooks, TLAPS

LEMMA IdleType == Idle \in Command
BY DEF Idle, Command, Bypass, Choice, Trailer

\* What the steps of a command change in what it knows leaves it well formed.
LEMMA CommandUpdates ==
  \A c \in Command :
    /\ \A n \in Nat : [c EXCEPT !.base = n] \in Command
    /\ \A t \in Tree \cup {NoTree} : /\ [c EXCEPT !.tree = t] \in Command
                                    /\ [c EXCEPT !.msgFor = t] \in Command
    /\ [c EXCEPT !.written = TRUE] \in Command
    /\ \A ch \in Choice : /\ [c EXCEPT !.choice = ch] \in Command
                         /\ \A t \in Tree : [c EXCEPT !.choice = ch, !.msgFor = t] \in Command
    /\ \A b \in BOOLEAN : /\ [c EXCEPT !.syncable = b] \in Command
                          /\ [c EXCEPT !.queued = b] \in Command
    /\ \A t \in Tree \cup {NoTree}, tr \in Trailer, b \in BOOLEAN :
         [c EXCEPT !.msgFor = t, !.trailer = tr, !.reused = b] \in Command
<1> TAKE c \in Command
<1>1. \A n \in Nat : [c EXCEPT !.base = n] \in Command
  BY DEF Command
<1>2. \A t \in Tree \cup {NoTree} : [c EXCEPT !.tree = t] \in Command
  BY DEF Command
<1>3. \A t \in Tree \cup {NoTree} : [c EXCEPT !.msgFor = t] \in Command
  BY DEF Command
<1>4. [c EXCEPT !.written = TRUE] \in Command
  BY DEF Command
<1>5. \A ch \in Choice : [c EXCEPT !.choice = ch] \in Command
  BY DEF Command
<1>6. \A ch \in Choice, t \in Tree : [c EXCEPT !.choice = ch, !.msgFor = t] \in Command
  BY DEF Command
<1>7. \A b \in BOOLEAN : [c EXCEPT !.syncable = b] \in Command
  BY DEF Command
<1>8. \A b \in BOOLEAN : [c EXCEPT !.queued = b] \in Command
  BY DEF Command
<1>9. \A t \in Tree \cup {NoTree}, tr \in Trailer, b \in BOOLEAN :
         [c EXCEPT !.msgFor = t, !.trailer = tr, !.reused = b] \in Command
  BY DEF Command
<1>10. QED BY <1>1, <1>2, <1>3, <1>4, <1>5, <1>6, <1>7, <1>8, <1>9

\* A command starts out knowing how it was started, and nothing else.
LEMMA StartType ==
  \A way \in Ways : /\ [Idle EXCEPT !.tty = way.tty, !.bypass = way.bypass] \in Command
                    /\ way.at \in {"pre", "start"}
<1> TAKE way \in Ways
<1>1. way.at \in {"pre", "start"} /\ way.tty \in BOOLEAN /\ way.bypass \in Bypass
  <2>1. way \in GitCommit \/ way = LrcReview \/ way = ClaudeCommit
    BY WaysAssumption
  <2>2. CASE way \in GitCommit
    BY <2>2 DEF GitCommit, Bypass
  <2>3. CASE way = LrcReview
    BY <2>3 DEF LrcReview, Bypass
  <2>4. CASE way = ClaudeCommit
    BY <2>4 DEF ClaudeCommit, Bypass
  <2>5. QED BY <2>1, <2>2, <2>3, <2>4
<1>2. [Idle EXCEPT !.tty = way.tty, !.bypass = way.bypass] \in Command
  BY <1>1, IdleType DEF Command
<1>3. QED BY <1>1, <1>2

Place == {"off", "pre", "tree", "prepare", "lock", "start", "review", "decide",
          "msg", "commit", "clear", "enqueue", "forget", "push"}

Placed == pc \in [Proc -> Place]
Known == cmd \in [Proc -> Command]

\* The files, without the commands.
FilesOK ==
  /\ index \in Tree /\ head \in Tree /\ count \in Nat /\ runs \in 0..MaxRuns
  /\ attest \in [Tree -> Action \cup {"none"}]
  /\ sessions \subseteq Tree
  /\ state \in {"none", "ran", "skipped", "skipped_manual", "skipped_lock"}
  /\ message \in Tree \cup {NoTree}
  /\ pushFlag \in BOOLEAN
  /\ lock \in {"free", "held", "stale"}
  /\ looked \subseteq Tree /\ used \subseteq Tree
  /\ touched \in BOOLEAN /\ overlap \in BOOLEAN

\* Types are of the files, of where the commands are and of what they know.
LEMMA TypeParts == /\ TypeOK <=> FilesOK /\ Placed /\ Known
                   /\ TypeOK' <=> FilesOK' /\ Placed' /\ Known'
<1>1. TypeOK <=> FilesOK /\ Placed /\ Known
  BY Zenon DEF TypeOK, FilesOK, Placed, Known, Place
<1>2. TypeOK' <=> FilesOK' /\ Placed' /\ Known'
  BY Zenon DEF TypeOK, FilesOK, Placed, Known, Place
<1>3. QED BY <1>1, <1>2

\* A command goes to a place.
LEMMA GoToType ==
  ASSUME Placed, NEW p \in Proc, NEW at \in Place, GoTo(p, at)
  PROVE  Placed'
BY DEF Placed, GoTo

\* A command knows something else.
LEMMA KnowType ==
  ASSUME Known, NEW p \in Proc, NEW c \in Command, cmd' = [cmd EXCEPT ![p] = c]
  PROVE  Known'
BY DEF Known

\* A command that ends is idle.
LEMMA EndsType ==
  ASSUME Placed, Known, NEW p \in Proc, Ends(p)
  PROVE  Placed' /\ Known'
BY IdleType DEF Placed, Known, Ends, GoTo, Place

\* An attestation is written for a tree that exists.
LEMMA AttestTypes ==
  ASSUME FilesOK, NEW action \in Action, AttestIndex(action)
  PROVE  attest' \in [Tree -> Action \cup {"none"}] /\ used' \subseteq Tree
BY DEF FilesOK, AttestIndex

\* Going on after a review, or stopping with it, is for the command and the state file.
LEMMA ReviewEndTypes ==
  ASSUME FilesOK, Placed, Known, NEW p \in Proc
  PROVE  /\ Stops(p) => /\ Placed' /\ Known'
                        /\ state' \in {state, "skipped"} /\ lock' \in {lock, "free"}
         /\ \A code \in {0, 2} :
              GoesOn(p, code) => /\ Placed'
                                 /\ state' \in {state, "ran", "skipped_manual"}
                                 /\ lock' \in {lock, "free"}
<1>1. Stops(p) => Placed' /\ Known'
  BY EndsType DEF Stops
<1>2. Stops(p) => state' \in {state, "skipped"} /\ lock' \in {lock, "free"}
  BY DEF Stops
<1>3. ASSUME NEW code \in {0, 2}, GoesOn(p, code) PROVE Placed'
  BY <1>3, GoToType DEF GoesOn, Place
<1>4. ASSUME NEW code \in {0, 2}, GoesOn(p, code)
      PROVE  state' \in {state, "ran", "skipped_manual"} /\ lock' \in {lock, "free"}
  BY <1>4 DEF GoesOn
<1>5. QED BY <1>1, <1>2, <1>3, <1>4

\* Commands whose tree git has written: past pre-commit, or in the review of their hook.
Holding(p) ==
  \/ pc[p] \in {"prepare", "lock", "msg", "commit", "clear", "enqueue", "forget", "push"}
  \/ InHook(p) /\ pc[p] \in {"start", "review", "decide"}

\* What becomes HEAD is a tree.
Held == \A p \in Proc : Holding(p) => cmd[p].tree # NoTree

\* A step leaves the types, since what is committed is a tree.
LEMMA TypeStep ==
  ASSUME TypeOK, Held, [Next]_vars
  PROVE  TypeOK'
<1> FilesOK /\ Placed /\ Known
  BY TypeParts
<1> SUFFICES FilesOK' /\ Placed' /\ Known'
  BY TypeParts
<1> USE DEF Place
<1>1. CASE User
  <2>1. attest' \in [Tree -> Action \cup {"none"}] /\ used' \subseteq Tree
    BY <1>1, AttestTypes DEF User, Stage, QuickSkip, QuickVouch, RemoveAttestation, Action, FilesOK
  <2>2. touched' \in BOOLEAN /\ index' \in Tree
    BY <1>1 DEF User, Stage, QuickSkip, QuickVouch, RemoveAttestation, Meddling, FilesOK
  <2>3. UNCHANGED <<head, count, runs, sessions, state, message, pushFlag, lock, pc, cmd,
                    looked, overlap>>
    BY <1>1 DEF User, Stage, QuickSkip, QuickVouch, RemoveAttestation
  <2>4. QED BY <2>1, <2>2, <2>3 DEF FilesOK, Placed, Known
<1>2. CASE LockAges
  BY <1>2 DEF LockAges, FilesOK, Placed, Known
<1>3. ASSUME NEW p \in Proc, Begin(p) PROVE FilesOK' /\ Placed' /\ Known'
  <2>1. Placed' /\ Known'
    BY <1>3, StartType, GoToType, KnowType DEF Begin
  <2>2. overlap' \in BOOLEAN
    BY <1>3 DEF Begin
  <2>3. QED BY <1>3, <2>1, <2>2, RunsAssumption DEF Begin, FilesOK
<1>4. ASSUME NEW p \in Proc, Before(p) PROVE FilesOK' /\ Placed' /\ Known'
  <2>1. FilesOK'
    BY <1>4 DEF Before, PreCommit, WriteTree, Prepare, TakeLock, LockExpires, FilesOK
  <2>2. cmd[p] \in Command /\ count \in Nat /\ index \in Tree /\ MessageOf(p) \in Tree \cup {NoTree}
    BY DEF Known, FilesOK, MessageOf, Command
  <2>3. CASE PreCommit(p)
    <3>1. [cmd[p] EXCEPT !.base = count] \in Command
      BY <2>2, CommandUpdates
    <3>2. QED BY <2>1, <2>3, <3>1, GoToType, KnowType, EndsType DEF PreCommit
  <2>4. CASE WriteTree(p)
    <3>1. [cmd[p] EXCEPT !.tree = index] \in Command
      BY <2>2, CommandUpdates
    <3>2. QED BY <2>1, <2>4, <3>1, GoToType, KnowType, EndsType DEF WriteTree
  <2>5. CASE Prepare(p)
    <3>1. [cmd[p] EXCEPT !.msgFor = MessageOf(p)] \in Command
      BY <2>2, CommandUpdates
    <3>2. Ends(p) \/ /\ GoTo(p, "msg") \/ GoTo(p, "lock")
                     /\ UNCHANGED cmd \/ cmd' = [cmd EXCEPT ![p].msgFor = MessageOf(p)]
      BY <2>5 DEF Prepare
    <3>3. UNCHANGED cmd => Known'
      BY DEF Known
    <3>4. QED BY <2>1, <3>1, <3>2, <3>3, GoToType, KnowType, EndsType
  <2>6. CASE TakeLock(p) \/ LockExpires(p)
    <3>1. Placed' /\ UNCHANGED cmd
      BY <2>6, GoToType DEF TakeLock, LockExpires
    <3>2. QED BY <2>1, <3>1 DEF Known
  <2>7. QED BY <1>4, <2>3, <2>4, <2>5, <2>6 DEF Before
<1>5. ASSUME NEW p \in Proc, Review(p) PROVE FilesOK' /\ Placed' /\ Known'
  <2>1. CASE StartReview(p)
    <3>1. message' \in Tree \cup {NoTree} /\ attest' \in [Tree -> Action \cup {"none"}]
      BY <2>1 DEF StartReview, StartMessage, FilesOK
    <3>2. /\ looked' \subseteq Tree
          /\ state' \in {state, "skipped"} /\ lock' \in {lock, "free"}
      BY <2>1, ReviewEndTypes DEF StartReview, FilesOK
    <3>3. FilesOK'
      BY <2>1, <3>1, <3>2 DEF StartReview, FilesOK
    <3>4. Stops(p) \/ ((GoTo(p, "review") \/ GoTo(p, "pre")) /\ UNCHANGED cmd)
      BY <2>1 DEF StartReview
    <3>5. QED BY <3>3, <3>4, ReviewEndTypes, GoToType DEF Known
  <2>2. CASE ReviewFails(p)
    BY <2>2, ReviewEndTypes DEF ReviewFails, FilesOK
  <2>3. CASE TooLarge(p)
    <3>1. attest' \in [Tree -> Action \cup {"none"}] /\ used' \subseteq Tree
      BY <2>3, AttestTypes DEF TooLarge, Action
    <3>2. FilesOK'
      BY <2>3, <3>1 DEF TooLarge, FilesOK
    <3>3. QED BY <2>3, <3>2, EndsType DEF TooLarge
  <2>4. CASE ReviewCompletes(p)
    <3>1. attest' \in [Tree -> Action \cup {"none"}] /\ used' \subseteq Tree
      BY <2>4, AttestTypes DEF ReviewCompletes, Action, FilesOK
    <3>2. FilesOK'
      BY <2>4, <3>1 DEF ReviewCompletes, FilesOK
    <3>3. [cmd[p] EXCEPT !.written = TRUE] \in Command
      BY CommandUpdates DEF Known
    <3>4. Known'
      BY <2>4, <3>3, KnowType DEF ReviewCompletes, Known
    <3>5. QED BY <2>4, <3>2, <3>4, GoToType DEF ReviewCompletes
  <2>5. CASE AllExcluded(p)
    <3>1. message' \in Tree \cup {NoTree}
      BY <2>5 DEF AllExcluded, StartMessage, FilesOK
    <3>2. attest' \in [Tree -> Action \cup {"none"}] /\ used' \subseteq Tree
      BY <2>5, AttestTypes DEF AllExcluded, Action, FilesOK
    <3>3. /\ Stops(p) \/ (GoesOn(p, 0) /\ UNCHANGED cmd) \/ (Ends(p) /\ UNCHANGED <<state, lock>>)
          /\ UNCHANGED <<index, head, count, runs, sessions, pushFlag, looked, touched, overlap>>
      BY <2>5 DEF AllExcluded
    <3>4. state' \in {state, "ran", "skipped_manual", "skipped"} /\ lock' \in {lock, "free"}
      BY <3>3 DEF Stops, GoesOn
    <3>5. FilesOK'
      BY <3>1, <3>2, <3>3, <3>4 DEF FilesOK
    <3>6. QED BY <3>3, <3>5, ReviewEndTypes, EndsType DEF Known
  <2>6. QED BY <1>5, <2>1, <2>2, <2>3, <2>4, <2>5 DEF Review
<1>6. ASSUME NEW p \in Proc, Decide(p) PROVE FilesOK' /\ Placed' /\ Known'
  <2>1. \A ch \in Choice : /\ [cmd[p] EXCEPT !.choice = ch] \in Command
                          /\ [cmd[p] EXCEPT !.choice = ch, !.msgFor = index] \in Command
    BY CommandUpdates DEF Known, FilesOK
  <2>2. CASE DecideCommit(p)
    <3>1. PICK choice \in {"commit", "push"} :
            /\ cmd' = [cmd EXCEPT ![p].choice = choice, ![p].msgFor = index]
            /\ pushFlag' = IF Defers(p) THEN choice = "push" ELSE pushFlag
      BY <2>2 DEF DecideCommit
    <3>2. cmd' = [cmd EXCEPT ![p] = [cmd[p] EXCEPT !.choice = choice, !.msgFor = index]]
      BY <3>1 DEF Known
    <3>3. Known'
      BY <2>1, <3>2, KnowType DEF Choice
    <3>4. (choice = "push") \in BOOLEAN
      OBVIOUS
    <3>5. pushFlag' \in BOOLEAN
      BY <3>1, <3>4 DEF FilesOK
    <3>6. message' \in Tree \cup {NoTree}
      BY <2>2 DEF DecideCommit, FilesOK
    <3>7. Placed' /\ state' \in {state, "ran", "skipped_manual"} /\ lock' \in {lock, "free"}
      BY <2>2, ReviewEndTypes DEF DecideCommit
    <3>8. FilesOK'
      BY <2>2, <3>5, <3>6, <3>7 DEF DecideCommit, FilesOK
    <3>9. QED BY <3>3, <3>7, <3>8
  <2>3. CASE DecideSkip(p) \/ DecideVouch(p)
    <3>1. attest' \in [Tree -> Action \cup {"none"}] /\ used' \subseteq Tree
      BY <2>3, AttestTypes DEF DecideSkip, DecideVouch, AttestOnce, Action, FilesOK
    <3>2. GoesOn(p, 2)
      BY <2>3 DEF DecideSkip, DecideVouch
    <3>3. Placed' /\ state' \in {state, "ran", "skipped_manual"} /\ lock' \in {lock, "free"}
      BY <3>2, ReviewEndTypes
    <3>4. Known'
      BY <2>1, <2>3, KnowType DEF DecideSkip, DecideVouch, Choice
    <3>5. message' \in Tree \cup {NoTree} /\ pushFlag' \in BOOLEAN /\ sessions' \subseteq Tree
      BY <2>3 DEF DecideSkip, DecideVouch, ClearRequests, FilesOK
    <3>6. FilesOK'
      BY <2>3, <3>1, <3>3, <3>5 DEF DecideSkip, DecideVouch, FilesOK
    <3>7. QED BY <3>3, <3>4, <3>6
  <2>4. CASE DecideHandoff(p)
    <3>1. CASE GoesOn(p, 0) /\ cmd' = [cmd EXCEPT ![p].choice = "handoff"]
      <4>1. Known'
        BY <2>1, <3>1, KnowType DEF Choice
      <4>2. Placed' /\ state' \in {state, "ran", "skipped_manual"} /\ lock' \in {lock, "free"}
        BY <3>1, ReviewEndTypes
      <4>3. QED BY <2>4, <4>1, <4>2 DEF DecideHandoff, FilesOK
    <3>2. CASE Stops(p)
      BY <2>4, <3>2, ReviewEndTypes DEF DecideHandoff, FilesOK
    <3>3. QED BY <2>4, <3>1, <3>2 DEF DecideHandoff
  <2>5. CASE DecideAbort(p)
    BY <2>5, ReviewEndTypes DEF DecideAbort, FilesOK
  <2>6. CASE DecideFails(p)
    BY <2>6, ReviewEndTypes DEF DecideFails, FilesOK
  <2>7. QED BY <1>6, <2>2, <2>3, <2>4, <2>5, <2>6 DEF Decide
<1>7. ASSUME NEW p \in Proc, Finish(p) PROVE FilesOK' /\ Placed' /\ Known'
  <2>1. CASE CommitMsg(p)
    <3>1. MessageOf(p) \in Tree \cup {NoTree}
      BY DEF MessageOf, Known, FilesOK, Command
    <3>2. (IF Attested THEN TrailerOf(attest[index]) ELSE StateTrailer) \in Trailer
      BY DEF Attested, TrailerOf, StateTrailer, Action, Trailer, FilesOK
    <3>3. (Attested /\ index \in used) \in BOOLEAN
      BY DEF Attested
    <3> DEFINE tr == IF Attested THEN TrailerOf(attest[index]) ELSE StateTrailer
               re == Attested /\ index \in used
    <3>4. [cmd[p] EXCEPT !.msgFor = MessageOf(p), !.trailer = tr, !.reused = re] \in Command
      BY <3>1, <3>2, <3>3, CommandUpdates DEF Known
    <3>5. \/ Ends(p)
          \/ GoTo(p, "commit") /\ UNCHANGED cmd
          \/ /\ GoTo(p, "commit")
             /\ cmd' = [cmd EXCEPT ![p].msgFor = MessageOf(p), ![p].trailer = tr, ![p].reused = re]
      BY <2>1 DEF CommitMsg
    <3> HIDE DEF tr, re
    <3>6. ASSUME cmd' = [cmd EXCEPT ![p].msgFor = MessageOf(p), ![p].trailer = tr, ![p].reused = re]
          PROVE  Known'
      <4>1. cmd' = [cmd EXCEPT ![p] = [cmd[p] EXCEPT !.msgFor = MessageOf(p), !.trailer = tr,
                                                     !.reused = re]]
        BY <3>6 DEF Known
      <4>2. QED BY <3>4, <4>1, KnowType
    <3>7. Placed' /\ Known'
      BY <3>5, <3>6, GoToType, EndsType DEF Known
    <3>8. message' \in {message, NoTree} /\ state' \in {state, "none"} /\ lock' \in {lock, "free"}
      BY <2>1 DEF CommitMsg
    <3>9. FilesOK'
      BY <2>1, <3>8 DEF CommitMsg, FilesOK
    <3>10. QED BY <3>7, <3>9
  <2>2. CASE GitFails(p) \/ HeadMoved(p)
    <3>1. Placed' /\ Known'
      BY <2>2, EndsType DEF GitFails, HeadMoved
    <3>2. QED BY <2>2, <3>1 DEF GitFails, HeadMoved, FilesOK
  <2>3. CASE MakeCommit(p)
    <3> DEFINE sy == cmd[p].tree \in sessions
    <3>1. sy \in BOOLEAN
      OBVIOUS
    <3>2. \/ Ends(p)
          \/ GoTo(p, "clear") /\ cmd' = [cmd EXCEPT ![p].syncable = sy]
      BY <2>3 DEF MakeCommit
    <3> HIDE DEF sy
    <3>3. [cmd[p] EXCEPT !.syncable = sy] \in Command
      BY <3>1, CommandUpdates DEF Known
    <3>4. Placed' /\ Known'
      BY <3>2, <3>3, EndsType, GoToType, KnowType
    <3>5. cmd[p].tree \in Tree /\ count + 1 \in Nat
      BY <2>3 DEF MakeCommit, Known, FilesOK, Command, Held, Holding
    <3>6. QED BY <2>3, <3>4, <3>5 DEF MakeCommit, FilesOK
  <2>4. CASE ClearAttestation(p)
    <3>1. Placed' /\ UNCHANGED cmd
      BY <2>4, GoToType DEF ClearAttestation
    <3>2. cmd[p].tree \in Tree
      BY <2>4 DEF ClearAttestation, Known, Command, Held, Holding
    <3>3. attest' \in [Tree -> Action \cup {"none"}] /\ used' \subseteq Tree
      BY <2>4, <3>2 DEF ClearAttestation, FilesOK
    <3>4. QED BY <2>4, <3>1, <3>3 DEF ClearAttestation, FilesOK, Known
  <2>5. CASE Enqueue(p)
    <3>1. (head \in sessions) \in BOOLEAN
      OBVIOUS
    <3>2. [cmd[p] EXCEPT !.queued = (head \in sessions)] \in Command
      BY <3>1, CommandUpdates DEF Known
    <3>3. Known'
      BY <2>5, <3>2, KnowType DEF Enqueue, Known
    <3>4. Placed'
      BY <2>5, GoToType DEF Enqueue
    <3>5. QED BY <2>5, <3>3, <3>4 DEF Enqueue, FilesOK
  <2>6. CASE ForgetSessions(p)
    <3>1. Placed'
      BY <2>6, GoToType DEF ForgetSessions
    <3>2. QED BY <2>6, <3>1 DEF ForgetSessions, FilesOK, Known
  <2>7. CASE Push(p)
    <3>1. Placed' /\ Known'
      BY <2>7, EndsType DEF Push
    <3>2. QED BY <2>7, <3>1 DEF Push, FilesOK
  <2>8. QED BY <1>7, <2>1, <2>2, <2>3, <2>4, <2>5, <2>6, <2>7 DEF Finish
<1>8. ASSUME NEW p \in Proc, Killed(p) PROVE FilesOK' /\ Placed' /\ Known'
  <2>1. Placed' /\ Known'
    BY <1>8, EndsType DEF Killed
  <2>2. QED BY <1>8, <2>1 DEF Killed, FilesOK
<1>9. CASE UNCHANGED vars
  BY <1>9 DEF vars, FilesOK, Placed, Known
<1>10. QED BY <1>1, <1>2, <1>3, <1>4, <1>5, <1>6, <1>7, <1>8, <1>9 DEF Next

-----------------------------------------------------------------------------
(* What a step of a command changes *)

\* A step of one command.
Step(p) == Begin(p) \/ Before(p) \/ Review(p) \/ Decide(p) \/ Finish(p) \/ Killed(p)

\* A step is one of the user's, of a command, or of time.
LEMMA Steps ==
  ASSUME [Next]_vars
  PROVE  User \/ LockAges \/ UNCHANGED vars \/ \E p \in Proc : Step(p)
BY DEF Next, Step

\* A command starts in pre-commit, or in a review that is not a hook's.
LEMMA StartPlaces ==
  \A way \in Ways : way.at = "start" => way.bypass # "none"
BY WaysAssumption DEF GitCommit, LrcReview, ClaudeCommit

\* Commands end alone.
LEMMA EndsAlone ==
  ASSUME TypeOK, NEW p \in Proc, Ends(p)
  PROVE  /\ pc'[p] = "off" /\ cmd'[p] = Idle
         /\ \A q \in Proc \ {p} : pc'[q] = pc[q] /\ cmd'[q] = cmd[q]
BY DEF TypeOK, Ends, GoTo

\* The user and time leave the commands and the state file alone.
LEMMA Quiet ==
  ASSUME User \/ LockAges \/ UNCHANGED vars
  PROVE  UNCHANGED <<head, count, runs, sessions, state, message, pushFlag, pc, cmd, looked,
                     overlap>>
BY DEF User, Stage, QuickSkip, QuickVouch, RemoveAttestation, LockAges, vars

\* A step of a command is no other's.
LEMMA Alone ==
  ASSUME TypeOK, NEW p \in Proc, Step(p)
  PROVE  \A q \in Proc \ {p} : pc'[q] = pc[q] /\ cmd'[q] = cmd[q]
<1> USE DEF TypeOK
<1>1. \A code : Stops(p) \/ GoesOn(p, code) => \A q \in Proc \ {p} : pc'[q] = pc[q]
  BY DEF Stops, GoesOn, Ends, GoTo
<1>2. Stops(p) \/ UNCHANGED cmd => \A q \in Proc \ {p} : cmd'[q] = cmd[q]
  BY DEF Stops, Ends
<1>3. CASE Begin(p)
  BY <1>3 DEF Begin, GoTo
<1>4. CASE Before(p)
  BY <1>4 DEF Before, PreCommit, WriteTree, Prepare, TakeLock, LockExpires, GoTo, Ends
<1>5. CASE Review(p)
  <2>1. CASE StartReview(p)
    BY <2>1, <1>1, <1>2 DEF StartReview, GoTo
  <2>2. CASE ReviewFails(p) \/ TooLarge(p) \/ ReviewCompletes(p)
    BY <2>2, <1>1, <1>2 DEF ReviewFails, TooLarge, ReviewCompletes, GoTo, Ends
  <2>3. CASE AllExcluded(p)
    BY <2>3, <1>1, <1>2 DEF AllExcluded, GoTo, Ends
  <2>4. QED BY <1>5, <2>1, <2>2, <2>3 DEF Review
<1>6. CASE Decide(p)
  <2>1. CASE DecideCommit(p)
    BY <2>1, <1>1 DEF DecideCommit
  <2>2. CASE DecideSkip(p) \/ DecideVouch(p)
    BY <2>2, <1>1 DEF DecideSkip, DecideVouch
  <2>3. CASE DecideHandoff(p) \/ DecideAbort(p) \/ DecideFails(p)
    BY <2>3, <1>1, <1>2 DEF DecideHandoff, DecideAbort, DecideFails
  <2>4. QED BY <1>6, <2>1, <2>2, <2>3 DEF Decide
<1>7. CASE Finish(p)
  <2>1. CASE CommitMsg(p)
    BY <2>1 DEF CommitMsg, GoTo, Ends
  <2>2. CASE GitFails(p) \/ MakeCommit(p) \/ HeadMoved(p)
    BY <2>2 DEF GitFails, MakeCommit, HeadMoved, GoTo, Ends
  <2>3. CASE ClearAttestation(p) \/ Enqueue(p) \/ ForgetSessions(p) \/ Push(p)
    BY <2>3 DEF ClearAttestation, Enqueue, ForgetSessions, Push, GoTo, Ends
  <2>4. QED BY <1>7, <2>1, <2>2, <2>3 DEF Finish
<1>8. CASE Killed(p)
  BY <1>8 DEF Killed, GoTo, Ends
<1>9. QED BY <1>3, <1>4, <1>5, <1>6, <1>7, <1>8 DEF Step

\* Each file has the steps that write it.
LEMMA FileChanges ==
  ASSUME NEW p \in Proc, Step(p)
  PROVE  /\ UNCHANGED <<index, touched>>
         /\ Begin(p) \/ UNCHANGED overlap
         /\ MakeCommit(p) \/ UNCHANGED <<head, count>>
         /\ Decide(p) \/ Push(p) \/ UNCHANGED pushFlag
         /\ StartReview(p) \/ UNCHANGED looked
<1>1. CASE Begin(p) \/ Killed(p)
  BY <1>1 DEF Begin, Killed
<1>2. CASE Before(p)
  BY <1>2 DEF Before, PreCommit, WriteTree, Prepare, TakeLock, LockExpires
<1>3. CASE Review(p)
  BY <1>3 DEF Review, StartReview, AllExcluded, ReviewFails, TooLarge, ReviewCompletes
<1>4. CASE Decide(p)
  BY <1>4 DEF Decide, DecideCommit, DecideSkip, DecideVouch, DecideHandoff, DecideAbort,
              DecideFails
<1>5. CASE Finish(p)
  BY <1>5 DEF Finish, CommitMsg, GitFails, MakeCommit, HeadMoved, ClearAttestation, Enqueue,
              ForgetSessions, Push
<1>6. QED BY <1>1, <1>2, <1>3, <1>4, <1>5 DEF Step

\* A command that goes on learns one thing at a time; one that ends forgets everything.
LEMMA OwnChanges ==
  ASSUME TypeOK, NEW p \in Proc, Step(p), ~Begin(p)
  PROVE  /\ pc[p] # "off"
         /\ \/ pc'[p] = "off" /\ cmd'[p] = Idle
            \/ /\ pc'[p] # "off"
               /\ cmd'[p].tty = cmd[p].tty /\ cmd'[p].bypass = cmd[p].bypass
               /\ PreCommit(p) \/ cmd'[p].base = cmd[p].base
               /\ WriteTree(p) \/ cmd'[p].tree = cmd[p].tree
               /\ Decide(p) \/ cmd'[p].choice = cmd[p].choice
               /\ CommitMsg(p) \/ cmd'[p].trailer = cmd[p].trailer
               /\ CommitMsg(p) \/ cmd'[p].reused = cmd[p].reused
               /\ MakeCommit(p) \/ cmd'[p].syncable = cmd[p].syncable
               /\ Enqueue(p) \/ cmd'[p].queued = cmd[p].queued
<1> cmd[p] \in Command /\ pc \in [Proc -> Place] /\ cmd \in [Proc -> Command]
  BY DEF TypeOK, Place
<1> DEFINE Gone == pc'[p] = "off" /\ cmd'[p] = Idle
           Same == cmd'[p] = cmd[p] /\ pc'[p] # "off"
<1>e. Ends(p) => Gone
  BY EndsAlone
<1>s. Stops(p) => Gone
  BY <1>e DEF Stops
<1>g. \A at \in Place \ {"off"} : GoTo(p, at) => pc'[p] # "off"
  BY DEF GoTo
<1>c. \A code : GoesOn(p, code) => pc'[p] # "off"
  BY <1>g DEF GoesOn, Place
<1> HIDE DEF Gone
<1>1. CASE Before(p)
  <2>1. CASE PreCommit(p)
    <3>1. pc[p] # "off" /\ (Ends(p) \/ (GoTo(p, "tree") /\ cmd' = [cmd EXCEPT ![p].base = count]))
      BY <2>1 DEF PreCommit
    <3>2. QED BY <2>1, <3>1, <1>e, <1>g DEF Gone, Command, Place
  <2>2. CASE WriteTree(p)
    <3>1. /\ pc[p] # "off"
          /\ Ends(p) \/ (GoTo(p, "prepare") /\ cmd' = [cmd EXCEPT ![p].tree = index])
      BY <2>2 DEF WriteTree
    <3>2. QED BY <2>2, <3>1, <1>e, <1>g DEF Gone, Command, Place
  <2>3. CASE Prepare(p)
    <3>1. /\ pc[p] # "off"
          /\ \/ Ends(p)
             \/ /\ GoTo(p, "msg") \/ GoTo(p, "lock")
                /\ UNCHANGED cmd \/ cmd' = [cmd EXCEPT ![p].msgFor = MessageOf(p)]
      BY <2>3 DEF Prepare
    <3>2. QED BY <3>1, <1>e, <1>g DEF Gone, Command, Place
  <2>4. CASE TakeLock(p) \/ LockExpires(p)
    BY <2>4, <1>g DEF TakeLock, LockExpires, Place
  <2>5. QED BY <1>1, <2>1, <2>2, <2>3, <2>4 DEF Before
<1>2. CASE Review(p)
  <2>1. CASE StartReview(p)
    <3>1. pc[p] # "off" /\ (Stops(p) \/ ((GoTo(p, "review") \/ GoTo(p, "pre")) /\ UNCHANGED cmd))
      BY <2>1 DEF StartReview
    <3>2. QED BY <3>1, <1>s, <1>g DEF Gone, Place
  <2>2. CASE ReviewFails(p) \/ TooLarge(p)
    BY <2>2, <1>e, <1>s DEF ReviewFails, TooLarge, Gone
  <2>3. CASE ReviewCompletes(p)
    BY <2>3, <1>g DEF ReviewCompletes, Command, Place
  <2>4. CASE AllExcluded(p)
    <3>1. pc[p] # "off" /\ (Stops(p) \/ Ends(p) \/ (GoesOn(p, 0) /\ UNCHANGED cmd))
      BY <2>4 DEF AllExcluded
    <3>2. QED BY <3>1, <1>s, <1>e, <1>g DEF Gone, GoesOn, Place
  <2>5. QED BY <1>2, <2>1, <2>2, <2>3, <2>4 DEF Review
<1>3. CASE Decide(p)
  <2>1. CASE Stops(p)
    BY <1>3, <2>1, <1>s DEF Gone, Decide, DecideCommit, DecideSkip, DecideVouch, DecideHandoff,
                            DecideAbort, DecideFails
  <2>2. CASE DecideCommit(p)
    BY <2>2, <1>3, <1>c DEF DecideCommit, Command
  <2>3. CASE DecideSkip(p) \/ DecideVouch(p)
    BY <2>3, <1>3, <1>c DEF DecideSkip, DecideVouch, Command
  <2>4. CASE DecideHandoff(p) /\ ~Stops(p)
    BY <2>4, <1>3, <1>c DEF DecideHandoff, Command
  <2>5. QED BY <1>3, <2>1, <2>2, <2>3, <2>4 DEF Decide, DecideAbort, DecideFails
<1>4. CASE Finish(p)
  <2>1. CASE CommitMsg(p)
    <3>1. pc[p] # "off" /\ (Ends(p) \/ GoTo(p, "commit"))
      BY <2>1 DEF CommitMsg
    <3>2. CASE GoTo(p, "commit") /\ ~Ends(p)
      <4>1. pc'[p] # "off"
        BY <3>2, <1>g DEF Place
      <4> DEFINE tr == IF Attested THEN TrailerOf(attest[index]) ELSE StateTrailer
                 re == Attested /\ index \in used
      <4>2. \/ UNCHANGED cmd
            \/ cmd' = [cmd EXCEPT ![p].msgFor = MessageOf(p), ![p].trailer = tr, ![p].reused = re]
        BY <2>1, <3>2 DEF CommitMsg
      <4> HIDE DEF tr, re
      <4>3. \/ cmd'[p] = cmd[p]
            \/ cmd'[p] = [cmd[p] EXCEPT !.msgFor = MessageOf(p), !.trailer = tr, !.reused = re]
        BY <4>2
      <4>4. /\ cmd'[p].tty = cmd[p].tty /\ cmd'[p].bypass = cmd[p].bypass
            /\ cmd'[p].base = cmd[p].base /\ cmd'[p].tree = cmd[p].tree
            /\ cmd'[p].choice = cmd[p].choice
            /\ cmd'[p].syncable = cmd[p].syncable /\ cmd'[p].queued = cmd[p].queued
        BY <4>3 DEF Command
      <4>5. QED BY <2>1, <3>1, <4>1, <4>4
    <3>3. QED BY <3>1, <3>2, <1>e DEF Gone
  <2>2. CASE GitFails(p) \/ HeadMoved(p) \/ Push(p)
    BY <2>2, <1>e DEF GitFails, HeadMoved, Push, Gone
  <2>3. CASE MakeCommit(p)
    <3> DEFINE sy == cmd[p].tree \in sessions
    <3>1. /\ pc[p] # "off"
          /\ \/ Ends(p)
             \/ GoTo(p, "clear") /\ cmd' = [cmd EXCEPT ![p].syncable = sy]
      BY <2>3 DEF MakeCommit
    <3> HIDE DEF sy
    <3>2. CASE Ends(p)
      BY <3>1, <3>2, <1>e DEF Gone
    <3>3. CASE GoTo(p, "clear") /\ cmd' = [cmd EXCEPT ![p].syncable = sy]
      BY <2>3, <3>1, <3>3, <1>g DEF Command, Place
    <3>4. QED BY <3>1, <3>2, <3>3
  <2>4. CASE ClearAttestation(p) \/ ForgetSessions(p)
    BY <2>4, <1>g DEF ClearAttestation, ForgetSessions, Place
  <2>5. CASE Enqueue(p)
    BY <2>5, <1>g DEF Enqueue, Command, Place
  <2>6. QED BY <1>4, <2>1, <2>2, <2>3, <2>4, <2>5 DEF Finish
<1>5. CASE Killed(p)
  BY <1>5, <1>e DEF Killed, Gone
<1>6. QED BY <1>1, <1>2, <1>3, <1>4, <1>5 DEF Step

\* Every command starts with nothing but the way it was started.
LEMMA Begins ==
  ASSUME TypeOK, NEW p \in Proc, Begin(p)
  PROVE  /\ pc[p] = "off" /\ pc'[p] \in {"pre", "start"}
         /\ cmd'[p].choice = "none" /\ cmd'[p].tree = NoTree /\ cmd'[p].base = 0
         /\ ~cmd'[p].reused /\ ~cmd'[p].syncable
         /\ pc'[p] = "start" => cmd'[p].bypass # "none"
         /\ ~overlap' => ~overlap /\ \A q \in Proc : pc[q] = "off"
<1>1. PICK way \in Ways :
        /\ GoTo(p, way.at)
        /\ cmd' = [cmd EXCEPT ![p] = [Idle EXCEPT !.tty = way.tty, !.bypass = way.bypass]]
  BY DEF Begin
<1>2. pc'[p] = way.at /\ cmd'[p] = [Idle EXCEPT !.tty = way.tty, !.bypass = way.bypass]
  BY <1>1 DEF TypeOK, GoTo
<1>3. /\ cmd'[p].bypass = way.bypass /\ cmd'[p].choice = "none" /\ cmd'[p].tree = NoTree
      /\ cmd'[p].base = 0
  BY <1>2 DEF Idle
<1>4. ~cmd'[p].reused /\ ~cmd'[p].syncable
  BY <1>2 DEF Idle
<1>5. pc[p] = "off" /\ (~overlap' => ~overlap /\ \A q \in Proc : pc[q] = "off")
  BY DEF Begin, Busy
<1>6. QED BY <1>2, <1>3, <1>4, <1>5, StartType, StartPlaces

\* A command that is holding a tree held it before, or takes it from the index.
LEMMA HoldingStep ==
  ASSUME TypeOK, NEW p \in Proc, Step(p), Holding(p)'
  PROVE  Holding(p) \/ WriteTree(p)
<1> cmd[p] \in Command /\ pc \in [Proc -> Place] /\ cmd \in [Proc -> Command]
  BY DEF TypeOK, Place
<1>e. Ends(p) => ~Holding(p)'
  BY EndsAlone DEF Holding
<1>i. Begin(p) \/ cmd'[p].bypass = cmd[p].bypass
  BY OwnChanges DEF Holding
<1>1. CASE Begin(p)
  BY <1>1, Begins DEF Holding, InHook
<1>2. CASE Before(p)
  BY <1>2, <1>e DEF Before, PreCommit, Prepare, TakeLock, LockExpires, GoTo, Holding
<1>3. CASE Review(p)
  <2>1. CASE StartReview(p)
    BY <2>1, <1>e DEF StartReview, Stops, GoTo, Holding, InHook
  <2>2. CASE ReviewFails(p) \/ TooLarge(p)
    BY <2>2, <1>e DEF ReviewFails, Stops, TooLarge
  <2>3. CASE ReviewCompletes(p)
    BY <2>3, <1>i DEF ReviewCompletes, Begin, GoTo, Holding, InHook
  <2>4. CASE AllExcluded(p)
    BY <2>4, <1>e, <1>i DEF AllExcluded, Begin, Stops, GoesOn, GoTo, Holding, InHook
  <2>5. QED BY <1>3, <2>1, <2>2, <2>3, <2>4 DEF Review
<1>4. CASE Decide(p)
  <2>1. pc[p] \in {"review", "decide"} /\ (Stops(p) \/ GoesOn(p, 0) \/ GoesOn(p, 2))
    BY <1>4 DEF Decide, DecideCommit, DecideSkip, DecideVouch, DecideHandoff, DecideAbort,
                DecideFails
  <2>2. cmd'[p].bypass = cmd[p].bypass
    BY <2>1, <1>i DEF Begin
  <2>3. QED BY <2>1, <2>2, <1>e DEF Stops, GoesOn, GoTo, Holding, InHook
<1>5. CASE Finish(p)
  BY <1>5, <1>e DEF Finish, CommitMsg, GitFails, MakeCommit, HeadMoved, ClearAttestation, Enqueue,
                    ForgetSessions, Push, GoTo, Holding
<1>6. CASE Killed(p)
  BY <1>6, <1>e DEF Killed
<1>7. QED BY <1>1, <1>2, <1>3, <1>4, <1>5, <1>6 DEF Step

\* What becomes of a tree that a command holds: it is kept, or taken from the index.
LEMMA HeldStep ==
  ASSUME TypeOK, Held, NEW p \in Proc, Step(p)
  PROVE  Holding(p)' => cmd'[p].tree # NoTree
<1> SUFFICES ASSUME Holding(p)' PROVE cmd'[p].tree # NoTree
  OBVIOUS
<1>1. CASE WriteTree(p)
  <2>1. cmd'[p].tree = index
    BY <1>1, EndsAlone DEF WriteTree, Holding, TypeOK, Command
  <2>2. QED BY <2>1, TreeAssumption DEF TypeOK
<1>2. CASE ~WriteTree(p)
  <2>1. Holding(p) /\ ~Begin(p)
    BY <1>2, HoldingStep DEF Begin, Holding
  <2>2. cmd'[p].tree = cmd[p].tree
    BY <1>2, <2>1, OwnChanges DEF Holding
  <2>3. QED BY <2>1, <2>2 DEF Held
<1>3. QED BY <1>1, <1>2

\* Whether a command holds its tree is its own matter.
LEMMA HoldingAlone ==
  ASSUME NEW q \in Proc, pc'[q] = pc[q], cmd'[q] = cmd[q]
  PROVE  Holding(q)' = Holding(q)
BY DEF Holding, InHook

\* Type correctness of the worktree's files and of the commands in it.
THEOREM HooksTypes == Spec => []TypeOK
<1>1. Init => TypeOK /\ Held
  <2> SUFFICES ASSUME Init PROVE TypeOK /\ Held
    OBVIOUS
  <2>1. Placed /\ Known
    BY IdleType DEF Init, Placed, Known, Place
  <2>2. attest \in [Tree -> Action \cup {"none"}]
    BY DEF Init
  <2>3. runs \in 0..MaxRuns
    BY RunsAssumption DEF Init
  <2>4. FilesOK
    BY <2>2, <2>3, TreeAssumption DEF Init, FilesOK
  <2>5. Held
    BY DEF Init, Held, Holding
  <2>6. QED BY <2>1, <2>4, <2>5, TypeParts
<1>2. TypeOK /\ Held /\ [Next]_vars => TypeOK' /\ Held'
  <2> SUFFICES ASSUME TypeOK, Held, [Next]_vars PROVE TypeOK' /\ Held'
    OBVIOUS
  <2>1. TypeOK'
    BY TypeStep
  <2>2. CASE User \/ LockAges \/ UNCHANGED vars
    BY <2>1, <2>2, Quiet DEF Held, Holding, InHook
  <2>3. ASSUME NEW p \in Proc, Step(p) PROVE Held'
    <3>1. Holding(p)' => cmd'[p].tree # NoTree
      BY <2>3, HeldStep
    <3>2. ASSUME NEW q \in Proc, q # p, Holding(q)' PROVE cmd'[q].tree # NoTree
      <4>1. pc'[q] = pc[q] /\ cmd'[q] = cmd[q]
        BY <2>3, <3>2, Alone
      <4>2. QED BY <3>2, <4>1, HoldingAlone DEF Held
    <3>3. QED BY <3>1, <3>2 DEF Held
  <2>4. QED BY <2>1, <2>2, <2>3, Steps
<1>3. QED BY <1>1, <1>2, PTL DEF Spec

-----------------------------------------------------------------------------
(* One command at a time *)

\* A command that does not run knows nothing; unless two have overlapped, one runs at most.
Solo ==
  /\ \A p \in Proc : pc[p] = "off" => cmd[p] = Idle
  /\ ~overlap => \A p, q \in Proc : pc[p] # "off" /\ pc[q] # "off" => p = q

\* A command begins alone, or is noted to overlap.
LEMMA SoloStep ==
  ASSUME TypeOK, Solo, [Next]_vars
  PROVE  Solo'
<1>1. CASE User \/ LockAges \/ UNCHANGED vars
  BY <1>1, Quiet DEF Solo
<1>2. ASSUME NEW p \in Proc, Step(p) PROVE Solo'
  <2>1. \A q \in Proc \ {p} : pc'[q] = pc[q] /\ cmd'[q] = cmd[q]
    BY <1>2, Alone
  <2>2. CASE Begin(p)
    BY <2>1, <2>2, Begins DEF Solo
  <2>3. CASE ~Begin(p)
    <3>1. pc[p] # "off" /\ overlap' = overlap /\ (pc'[p] = "off" => cmd'[p] = Idle)
      BY <1>2, <2>3, OwnChanges, FileChanges
    <3>2. QED BY <2>1, <3>1 DEF Solo
  <2>4. QED BY <2>2, <2>3
<1>3. QED BY <1>1, <1>2, Steps

\* While commands run one after the other, a command has the worktree for itself.
LEMMA OthersOff ==
  ASSUME TypeOK, Solo, NEW p \in Proc, Step(p), ~overlap'
  PROVE  /\ ~overlap
         /\ \A q \in Proc \ {p} : pc[q] = "off" /\ pc'[q] = "off" /\ cmd'[q] = Idle
<1>1. \A q \in Proc \ {p} : pc'[q] = pc[q] /\ cmd'[q] = cmd[q]
  BY Alone
<1>2. CASE Begin(p)
  BY <1>1, <1>2, Begins DEF Solo
<1>3. CASE ~Begin(p)
  BY <1>1, <1>3, OwnChanges, FileChanges DEF Solo
<1>4. QED BY <1>2, <1>3

\* Unless two commands have overlapped, one runs at most.
THEOREM HooksSolo == Spec => []Solo
<1>1. Init => Solo
  BY DEF Init, Solo
<1>2. TypeOK /\ Solo /\ [Next]_vars => Solo'
  BY SoloStep
<1>3. QED BY <1>1, <1>2, HooksTypes, PTL DEF Spec

-----------------------------------------------------------------------------
(* The push request *)

\* Once a hook's review has decided against a push, there is no request for one.
PushInv ==
  ~overlap => \A p \in Proc :
    cmd[p].bypass # "skip" /\ cmd[p].choice \in {"commit", "skip", "vouch"} => ~pushFlag

\* A decision made in a hook writes or removes the request; nothing else writes one.
LEMMA PushStep ==
  ASSUME TypeOK, Solo, PushInv, [Next]_vars
  PROVE  PushInv'
<1>1. CASE User \/ LockAges \/ UNCHANGED vars
  BY <1>1, Quiet DEF PushInv
<1>2. ASSUME NEW p \in Proc, Step(p) PROVE PushInv'
  <2> SUFFICES ASSUME ~overlap', NEW q \in Proc, cmd'[q].bypass # "skip",
                      cmd'[q].choice \in {"commit", "skip", "vouch"}
               PROVE  ~pushFlag'
    BY DEF PushInv
  <2>1. q = p
    BY <1>2, OthersOff DEF Idle
  <2>2. ~overlap
    BY <1>2, OthersOff
  <2>3. ~Begin(p) /\ cmd'[p] # Idle
    BY <2>1, Begins DEF Idle
  <2>4. cmd'[p].bypass = cmd[p].bypass /\ (Decide(p) \/ cmd'[p].choice = cmd[p].choice)
    BY <1>2, <2>3, OwnChanges
  <2>5. CASE Decide(p)
    <3>1. cmd[p] \in Command /\ cmd \in [Proc -> Command]
      BY DEF TypeOK
    <3>2. Defers(p)
      BY <2>1, <2>4 DEF Defers
    <3>3. Stops(p) => cmd'[p] = Idle
      BY EndsAlone DEF Stops
    <3>4. CASE DecideCommit(p)
      <4>1. PICK choice \in {"commit", "push"} :
              /\ cmd' = [cmd EXCEPT ![p].choice = choice, ![p].msgFor = index]
              /\ pushFlag' = IF Defers(p) THEN choice = "push" ELSE pushFlag
        BY <3>4 DEF DecideCommit
      <4>2. cmd'[p].choice = choice
        BY <3>1, <4>1 DEF Command
      <4>3. choice # "push"
        BY <2>1, <4>2
      <4>4. pushFlag' = FALSE
        BY <3>2, <4>1, <4>3
      <4>5. QED BY <4>4
    <3>5. CASE DecideSkip(p) \/ DecideVouch(p)
      BY <3>2, <3>5 DEF DecideSkip, DecideVouch, ClearRequests
    <3>6. CASE DecideHandoff(p)
      BY <2>1, <2>3, <3>1, <3>3, <3>6 DEF DecideHandoff, Command
    <3>7. QED BY <2>3, <2>5, <3>3, <3>4, <3>5, <3>6 DEF Decide, DecideAbort, DecideFails
  <2>6. CASE Push(p)
    BY <2>6 DEF Push
  <2>7. CASE ~Decide(p) /\ ~Push(p)
    BY <1>2, <2>1, <2>2, <2>4, <2>7, FileChanges DEF PushInv
  <2>8. QED BY <2>5, <2>6, <2>7
<1>3. QED BY <1>1, <1>2, Steps

\* A commit decided in a hook's review, among commands that run one after the other, only
\* finds a push request if the decision was one to push.
THEOREM HooksPushedAsDecided == Spec => []PushedAsDecided
<1>1. Init => PushInv
  BY DEF Init, PushInv, Idle
<1>2. TypeOK /\ Solo /\ PushInv /\ [Next]_vars => PushInv'
  BY PushStep
<1>3. PushInv => PushedAsDecided
  BY DEF PushInv, PushedAsDecided
<1>4. QED BY <1>1, <1>2, <1>3, HooksTypes, HooksSolo, PTL DEF Spec

-----------------------------------------------------------------------------
(* The tree of a commit *)

\* Moved under a running command, the index or an attestation is noted as touched.
LEMMA Undisturbed ==
  ASSUME User \/ LockAges \/ UNCHANGED vars, ~touched'
  PROVE  ~touched /\ (Busy => UNCHANGED <<index, attest, used>>)
<1>1. CASE User
  BY <1>1 DEF User, Stage, QuickSkip, QuickVouch, RemoveAttestation, Meddling
<1>2. CASE LockAges \/ UNCHANGED vars
  BY <1>2 DEF LockAges, vars
<1>3. QED BY <1>1, <1>2

\* The tree of a commit is not HEAD's while HEAD is where the command found it; it is what
\* is staged, and afterwards what HEAD has, if nobody changes the index meanwhile.
TreeOf(p) ==
  /\ cmd[p].base <= count
  /\ Holding(p) =>
       /\ cmd[p].tree # NoTree
       /\ cmd[p].base = count => cmd[p].tree # head
       /\ ~touched => cmd[p].tree = index
  /\ ~touched /\ pc[p] \in {"clear", "enqueue", "forget", "push"} => cmd[p].tree = head

TreeInv == \A p \in Proc : TreeOf(p)

Done == {"clear", "enqueue", "forget", "push"}

\* Past the commit, a command has come from it.
LEMMA DoneStep ==
  ASSUME TypeOK, NEW p \in Proc, Step(p), pc'[p] \in Done
  PROVE  MakeCommit(p) \/ pc[p] \in Done
<1> USE DEF Done
<1>e. Ends(p) => pc'[p] \notin Done
  BY EndsAlone
<1>g. \A at : GoTo(p, at) => pc'[p] = at
  BY DEF TypeOK, GoTo
<1>c. Stops(p) \/ GoesOn(p, 0) \/ GoesOn(p, 2) => pc'[p] \notin Done
  BY <1>e, <1>g DEF Stops, GoesOn
<1>1. CASE Begin(p) \/ Killed(p)
  BY <1>1, <1>e, Begins DEF Killed
<1>2. CASE Before(p)
  BY <1>2, <1>e, <1>g DEF Before, PreCommit, WriteTree, Prepare, TakeLock, LockExpires
<1>3. CASE Review(p)
  BY <1>3, <1>e, <1>g, <1>c DEF Review, StartReview, AllExcluded, ReviewFails, TooLarge, ReviewCompletes
<1>4. CASE Decide(p)
  BY <1>4, <1>c DEF Decide, DecideCommit, DecideSkip, DecideVouch, DecideHandoff, DecideAbort,
                    DecideFails
<1>5. CASE Finish(p)
  BY <1>5, <1>e, <1>g DEF Finish, CommitMsg, GitFails, MakeCommit, HeadMoved, ClearAttestation,
                          Enqueue, ForgetSessions, Push
<1>6. QED BY <1>1, <1>2, <1>3, <1>4, <1>5 DEF Step

\* HEAD moves on, to the tree of the command that moves it.
LEMMA HeadStep ==
  ASSUME TypeOK, NEW p \in Proc, Step(p)
  PROVE  \/ UNCHANGED <<head, count>>
         \/ /\ MakeCommit(p) /\ Holding(p)
            /\ cmd[p].base = count /\ count' = count + 1 /\ head' = cmd[p].tree
BY FileChanges DEF MakeCommit, Holding

\* The tree of a commit stays what it is.
LEMMA TreeStep ==
  ASSUME TypeOK, TypeOK', TreeInv, [Next]_vars
  PROVE  TreeInv'
<1> count \in Nat /\ \A p \in Proc : cmd[p] \in Command /\ cmd'[p] \in Command
  BY DEF TypeOK
<1>1. CASE User \/ LockAges \/ UNCHANGED vars
  <2> SUFFICES ASSUME NEW q \in Proc PROVE TreeOf(q)'
    BY DEF TreeInv
  <2>1. UNCHANGED <<pc, cmd, head, count>>
    BY <1>1, Quiet
  <2>2. Holding(q)' = Holding(q)
    BY <2>1, HoldingAlone
  <2>3. Holding(q) => Busy
    BY DEF Holding, Busy
  <2>4. ~touched' => ~touched /\ (Busy => index' = index)
    BY <1>1, Undisturbed
  <2>5. TreeOf(q)
    BY DEF TreeInv
  <2>6. QED BY <2>1, <2>2, <2>3, <2>4, <2>5 DEF TreeOf
<1>2. ASSUME NEW p \in Proc, Step(p) PROVE TreeInv'
  <2>1. UNCHANGED <<index, touched>>
    BY <1>2, FileChanges
  <2>2. TreeOf(p)
    BY DEF TreeInv
  <2>3. ASSUME NEW q \in Proc \ {p} PROVE TreeOf(q)'
    <3>1. pc'[q] = pc[q] /\ cmd'[q] = cmd[q]
      BY <1>2, <2>3, Alone
    <3>2. Holding(q)' = Holding(q)
      BY <2>3, <3>1, HoldingAlone
    <3>3. TreeOf(q) /\ (pc[q] \in Done => Holding(q))
      BY <2>3 DEF TreeInv, Done, Holding
    <3>4. cmd[q].base \in Nat
      BY <2>3 DEF Command
    <3>5. CASE UNCHANGED <<head, count>>
      BY <2>1, <3>1, <3>2, <3>3, <3>5 DEF TreeOf
    <3>6. CASE Holding(p) /\ count' = count + 1 /\ head' = cmd[p].tree
      <4>1. cmd[q].base <= count' /\ cmd[q].base # count'
        BY <3>3, <3>4, <3>6 DEF TreeOf
      <4>2. ~touched => head' = index
        BY <2>2, <3>6 DEF TreeOf
      <4>3. QED BY <2>1, <3>1, <3>2, <3>3, <4>1, <4>2 DEF TreeOf, Done
    <3>7. QED BY <1>2, <3>5, <3>6, HeadStep
  <2>4. TreeOf(p)'
    <3>1. cmd[p].base \in Nat
      BY DEF Command
    <3>2. cmd'[p].base <= count' /\ (Holding(p) /\ Holding(p)' => cmd'[p].base = cmd[p].base)
      <4>1. CASE Begin(p)
        <5>1. cmd'[p].base = 0 /\ pc[p] = "off"
          BY <4>1, Begins
        <5>2. count' = count
          BY <4>1 DEF Begin
        <5>3. QED BY <5>1, <5>2 DEF Holding
      <4>2. CASE PreCommit(p)
        <5>1. pc[p] = "pre" /\ count' = count /\ (Ends(p) \/ cmd' = [cmd EXCEPT ![p].base = count])
          BY <4>2 DEF PreCommit
        <5>2. cmd'[p].base \in {0, count}
          BY <5>1, EndsAlone DEF Idle, TypeOK, Command
        <5>3. QED BY <5>1, <5>2 DEF Holding
      <4>3. CASE ~Begin(p) /\ ~PreCommit(p)
        <5>1. (cmd'[p] = Idle /\ pc'[p] = "off") \/ cmd'[p].base = cmd[p].base
          BY <1>2, <4>3, OwnChanges
        <5>2. cmd[p].base <= count /\ count <= count'
          BY <1>2, <2>2, HeadStep DEF TreeOf
        <5>3. QED BY <3>1, <5>1, <5>2 DEF Idle, Holding, TypeOK
      <4>4. QED BY <4>1, <4>2, <4>3
    <3>3. ASSUME Holding(p)'
          PROVE  /\ cmd'[p].tree # NoTree
                 /\ cmd'[p].base = count' => cmd'[p].tree # head'
                 /\ ~touched' => cmd'[p].tree = index'
      <4>1. CASE WriteTree(p)
        <5>1. cmd'[p].tree = index /\ index # head /\ UNCHANGED <<head, count>>
          BY <3>3, <4>1, EndsAlone DEF WriteTree, Holding, TypeOK, Command
        <5>2. QED BY <2>1, <5>1, TreeAssumption DEF TypeOK
      <4>2. CASE ~WriteTree(p)
        <5>1. Holding(p) /\ ~Begin(p)
          BY <1>2, <3>3, <4>2, HoldingStep DEF Begin, Holding
        <5>2. cmd'[p].tree = cmd[p].tree
          BY <1>2, <3>3, <4>2, <5>1, OwnChanges DEF Holding
        <5>3. cmd'[p].base = cmd[p].base
          BY <3>2, <3>3, <5>1
        <5>4. CASE UNCHANGED <<head, count>>
          BY <2>1, <2>2, <5>1, <5>2, <5>3, <5>4 DEF TreeOf
        <5>5. CASE count' = count + 1
          BY <2>1, <2>2, <3>1, <5>1, <5>2, <5>3, <5>5 DEF TreeOf
        <5>6. QED BY <1>2, <5>4, <5>5, HeadStep
      <4>3. QED BY <4>1, <4>2
    <3>4. ASSUME ~touched', pc'[p] \in Done PROVE cmd'[p].tree = head'
      <4>1. Holding(p) /\ ~Begin(p) /\ ~WriteTree(p)
        BY <1>2, <3>4, DoneStep, HeadStep DEF Done, Holding, Begin, WriteTree, MakeCommit
      <4>2. cmd'[p].tree = cmd[p].tree
        BY <1>2, <3>4, <4>1, OwnChanges DEF Done
      <4>3. CASE MakeCommit(p)
        BY <4>2, <4>3 DEF MakeCommit
      <4>4. CASE ~MakeCommit(p)
        BY <1>2, <2>1, <2>2, <3>4, <4>2, <4>4, DoneStep, HeadStep DEF TreeOf, Done
      <4>5. QED BY <4>3, <4>4
    <3>5. QED BY <3>2, <3>3, <3>4 DEF TreeOf, Done
  <2>5. QED BY <2>3, <2>4 DEF TreeInv
<1>3. QED BY <1>1, <1>2, Steps

\* What a command commits is what was staged when git read it, and never HEAD's own tree.
THEOREM HooksTree == Spec => []TreeInv
<1>1. Init => TreeInv
  BY DEF Init, TreeInv, TreeOf, Holding, Idle
<1>2. TypeOK /\ TypeOK' /\ TreeInv /\ [Next]_vars => TreeInv'
  BY TreeStep
<1>3. QED BY <1>1, <1>2, HooksTypes, PTL DEF Spec

-----------------------------------------------------------------------------
(* What was looked at *)

\* Attestations come and go: "reviewed" is written by the end of a review, what is removed
\* was of HEAD's tree or of the tree a review starts with.
LEMMA AttestChanges ==
  ASSUME TypeOK, NEW p \in Proc, Step(p)
  PROVE  \A t \in Tree :
           /\ attest'[t] = "reviewed" => attest[t] = "reviewed" \/ (ReviewCompletes(p) /\ t = index)
           /\ attest'[t] = "none" =>
                \/ attest[t] = "none"
                \/ ClearAttestation(p) /\ t = head
                \/ StartReview(p) /\ t = index
           /\ t \in used' /\ attest'[t] # "none" =>
                /\ attest[t] # "none"
                /\ t \in used \/ (ClearAttestation(p) /\ t = cmd[p].tree /\ t # head)
<1> SUFFICES ASSUME NEW t \in Tree
             PROVE  /\ attest'[t] = "reviewed" =>
                         attest[t] = "reviewed" \/ (ReviewCompletes(p) /\ t = index)
                    /\ attest'[t] = "none" =>
                         \/ attest[t] = "none"
                         \/ ClearAttestation(p) /\ t = head
                         \/ StartReview(p) /\ t = index
                    /\ t \in used' /\ attest'[t] # "none" =>
                         /\ attest[t] # "none"
                         /\ t \in used \/ (ClearAttestation(p) /\ t = cmd[p].tree /\ t # head)
  OBVIOUS
<1> attest \in [Tree -> Action \cup {"none"}]
  BY DEF TypeOK
<1> DEFINE Kept == attest'[t] = attest[t] /\ (t \in used' => t \in used)
           Written(action) == t = index /\ attest'[t] = action /\ t \notin used'
<1>k. UNCHANGED <<attest, used>> => Kept
  OBVIOUS
<1>w. \A action : AttestIndex(action) => Kept \/ Written(action)
  BY DEF AttestIndex
<1> HIDE DEF Written
<1>1. CASE Begin(p) \/ Killed(p) \/ Before(p)
  BY <1>1 DEF Begin, Killed, Before, PreCommit, WriteTree, Prepare, TakeLock, LockExpires
<1>2. CASE Review(p)
  <2>1. CASE StartReview(p)
    BY <2>1 DEF StartReview
  <2>2. CASE ReviewFails(p)
    BY <2>2 DEF ReviewFails
  <2>3. CASE TooLarge(p)
    <3>1. Kept \/ Written("skipped")
      BY <2>3, <1>w DEF TooLarge
    <3>2. QED BY <3>1 DEF Written
  <2>4. CASE ReviewCompletes(p)
    <3>1. Kept \/ Written("reviewed")
      BY <2>4, <1>w DEF ReviewCompletes
    <3>2. QED BY <2>4, <3>1 DEF Written
  <2>5. CASE AllExcluded(p)
    <3>1. Kept \/ Written("skipped")
      BY <2>5, <1>w, <1>k DEF AllExcluded
    <3>2. QED BY <3>1 DEF Written
  <2>6. QED BY <1>2, <2>1, <2>2, <2>3, <2>4, <2>5 DEF Review
<1>3. CASE Decide(p)
  <2>1. CASE DecideSkip(p) \/ DecideVouch(p)
    <3>1. Kept \/ Written("skipped") \/ Written("vouched")
      BY <2>1, <1>w DEF DecideSkip, DecideVouch, AttestOnce
    <3>2. QED BY <3>1 DEF Written
  <2>2. CASE DecideCommit(p) \/ DecideHandoff(p) \/ DecideAbort(p) \/ DecideFails(p)
    BY <2>2 DEF DecideCommit, DecideHandoff, DecideAbort, DecideFails
  <2>3. QED BY <1>3, <2>1, <2>2 DEF Decide
<1>4. CASE Finish(p)
  <2>1. CASE ClearAttestation(p)
    BY <2>1 DEF ClearAttestation
  <2>2. CASE ~ClearAttestation(p)
    <3>1. UNCHANGED <<attest, used>>
      BY <1>4, <2>2 DEF Finish, CommitMsg, GitFails, MakeCommit, HeadMoved, Enqueue, ForgetSessions,
                        Push
    <3>2. QED BY <3>1
  <2>3. QED BY <2>1, <2>2
<1>5. QED BY <1>1, <1>2, <1>3, <1>4 DEF Step

\* A command that has a review has had its diff collected.
LEMMA ReviewStep ==
  ASSUME TypeOK, NEW p \in Proc, Step(p), pc'[p] \in {"review", "decide"}
  PROVE  pc[p] \in {"review", "decide"} \/ (StartReview(p) /\ index \in looked')
<1>e. Ends(p) \/ Stops(p) => pc'[p] = "off"
  BY EndsAlone DEF Stops
<1>g. \A at : GoTo(p, at) => pc'[p] = at
  BY DEF TypeOK, GoTo
<1>1. CASE Begin(p) \/ Killed(p)
  BY <1>1, <1>e, Begins DEF Killed
<1>2. CASE Before(p)
  BY <1>2, <1>e, <1>g DEF Before, PreCommit, WriteTree, Prepare, TakeLock, LockExpires
<1>3. CASE Review(p)
  <2>1. CASE AllExcluded(p)
    BY <2>1, <1>e, <1>g DEF AllExcluded, GoesOn
  <2>2. QED BY <1>3, <2>1, <1>e, <1>g DEF Review, StartReview, ReviewFails, TooLarge, ReviewCompletes
<1>4. CASE Decide(p)
  BY <1>4 DEF Decide, DecideCommit, DecideSkip, DecideVouch, DecideHandoff, DecideAbort,
              DecideFails
<1>5. CASE Finish(p)
  BY <1>5, <1>e, <1>g DEF Finish, CommitMsg, GitFails, MakeCommit, HeadMoved, ClearAttestation,
                          Enqueue, ForgetSessions, Push
<1>6. QED BY <1>1, <1>2, <1>3, <1>4, <1>5 DEF Step

\* While nobody changes the index under a command, a review and an attestation that says
\* "reviewed" are of a tree whose diff was collected.
LookInv ==
  ~touched =>
    /\ \A p \in Proc : pc[p] \in {"review", "decide"} => index \in looked
    /\ \A t \in Tree : attest[t] = "reviewed" => t \in looked

\* What was looked at stays looked at, and reviews write what they looked at.
LEMMA LookStep ==
  ASSUME TypeOK, LookInv, [Next]_vars
  PROVE  LookInv'
<1> SUFFICES ASSUME ~touched' PROVE LookInv'
  BY DEF LookInv
<1>1. CASE User \/ LockAges \/ UNCHANGED vars
  <2>1. ~touched /\ UNCHANGED <<pc, looked>> /\ (Busy => index' = index)
    BY <1>1, Undisturbed, Quiet
  <2>2. \A t \in Tree : attest'[t] = "reviewed" => attest[t] = "reviewed"
    BY <1>1 DEF User, Stage, QuickSkip, QuickVouch, RemoveAttestation, AttestIndex, LockAges, vars,
                TypeOK
  <2>3. QED BY <2>1, <2>2 DEF LookInv, Busy
<1>2. ASSUME NEW p \in Proc, Step(p) PROVE LookInv'
  <2>1. ~touched /\ index' = index /\ looked \subseteq looked'
    BY <1>2, FileChanges DEF StartReview
  <2>2. \A q \in Proc \ {p} : pc'[q] = pc[q]
    BY <1>2, Alone
  <2>3. pc'[p] \in {"review", "decide"} => index \in looked'
    BY <1>2, <2>1, ReviewStep DEF LookInv
  <2>4. ASSUME NEW t \in Tree, attest'[t] = "reviewed" PROVE t \in looked'
    BY <1>2, <2>1, <2>4, AttestChanges DEF LookInv, ReviewCompletes
  <2>5. QED BY <2>1, <2>2, <2>3, <2>4 DEF LookInv
<1>3. QED BY <1>1, <1>2, Steps

\* "reviewed" is only said of what was looked at, if nobody stages during a review.
THEOREM HooksLooked == Spec => []LookInv
<1>1. Init => LookInv
  BY DEF Init, LookInv
<1>2. TypeOK /\ LookInv /\ [Next]_vars => LookInv'
  BY LookStep
<1>3. QED BY <1>1, <1>2, HooksTypes, PTL DEF Spec

-----------------------------------------------------------------------------
(* One attestation for one commit *)

UsedInv ==
  ~touched => /\ \A t \in used : attest[t] = "none"
              /\ \A p \in Proc : ~cmd[p].reused

\* What served a commit is gone until it is attested again.
LEMMA UsedStep ==
  ASSUME TypeOK, TypeOK', TreeInv, UsedInv, [Next]_vars
  PROVE  UsedInv'
<1> SUFFICES ASSUME ~touched' PROVE UsedInv'
  BY DEF UsedInv
<1> used \subseteq Tree /\ used' \subseteq Tree
  BY DEF TypeOK
<1>1. CASE User \/ LockAges \/ UNCHANGED vars
  <2>1. ~touched /\ UNCHANGED cmd
    BY <1>1, Undisturbed, Quiet
  <2>2. \A t \in used' : t \in used /\ (attest[t] = "none" => attest'[t] = "none")
    BY <1>1 DEF User, Stage, QuickSkip, QuickVouch, RemoveAttestation, AttestIndex, LockAges, vars,
                TypeOK
  <2>3. QED BY <2>1, <2>2 DEF UsedInv
<1>2. ASSUME NEW p \in Proc, Step(p) PROVE UsedInv'
  <2>1. ~touched
    BY <1>2, FileChanges
  <2>2. ClearAttestation(p) => cmd[p].tree = head
    BY <2>1 DEF ClearAttestation, TreeInv, TreeOf
  <2>3. \A t \in used' : attest'[t] = "none"
    BY <1>2, <2>1, <2>2, AttestChanges DEF UsedInv
  <2>4. ~cmd'[p].reused
    <3>1. CASE Begin(p)
      BY <3>1, Begins
    <3>2. CASE CommitMsg(p)
      <4>1. ~(Attested /\ index \in used)
        BY <2>1 DEF UsedInv, Attested
      <4>2. ~cmd[p].reused /\ ~Idle.reused
        BY <2>1 DEF UsedInv, Idle
      <4> DEFINE tr == IF Attested THEN TrailerOf(attest[index]) ELSE StateTrailer
                 re == Attested /\ index \in used
      <4>3. \/ UNCHANGED cmd \/ Ends(p)
            \/ cmd' = [cmd EXCEPT ![p].msgFor = MessageOf(p), ![p].trailer = tr, ![p].reused = re]
        BY <3>2 DEF CommitMsg
      <4>4. re = FALSE
        BY <4>1
      <4> HIDE DEF tr, re
      <4>5. cmd'[p] = Idle \/ cmd'[p] = cmd[p] \/ cmd'[p].reused = re
        BY <4>3, EndsAlone DEF TypeOK, Command
      <4>6. QED BY <4>2, <4>4, <4>5
    <3>3. CASE ~Begin(p) /\ ~CommitMsg(p)
      BY <1>2, <2>1, <3>3, OwnChanges DEF UsedInv, Idle
    <3>4. QED BY <3>1, <3>2, <3>3
  <2>5. \A q \in Proc \ {p} : cmd'[q] = cmd[q]
    BY <1>2, Alone
  <2>6. QED BY <2>1, <2>3, <2>4, <2>5 DEF UsedInv
<1>3. QED BY <1>1, <1>2, Steps

\* One attestation serves one commit, whatever runs at the same time, fails or is killed.
THEOREM HooksAttestOnce == Spec => []AttestationServesOnce
<1>1. Init => UsedInv
  BY DEF Init, UsedInv, Idle
<1>2. TypeOK /\ TypeOK' /\ TreeInv /\ UsedInv /\ [Next]_vars => UsedInv'
  BY UsedStep
<1>3. UsedInv => AttestationServesOnce
  BY DEF UsedInv, AttestationServesOnce
<1>4. QED BY <1>1, <1>2, <1>3, HooksTypes, HooksTree, PTL DEF Spec

-----------------------------------------------------------------------------
(* The trailer *)

\* "ran" is left by a hook whose tree is attested or whose review was decided.
LEMMA StateChanges ==
  ASSUME TypeOK, NEW p \in Proc, Step(p)
  PROVE  /\ state' = "none" => state = "none" \/ CommitMsg(p)
         /\ state' = "ran" =>
              \/ state = "ran"
              \/ Attested'
              \/ pc[p] = "decide"
<1>1. CASE Begin(p) \/ Killed(p)
  BY <1>1 DEF Begin, Killed
<1>2. CASE Before(p)
  BY <1>2 DEF Before, PreCommit, WriteTree, Prepare, TakeLock, LockExpires, Attested
<1>3. CASE Review(p)
  <2>1. CASE AllExcluded(p)
    <3>1. CASE AttestIndex("skipped")
      BY <2>1, <3>1 DEF AllExcluded, AttestIndex, Attested, GoesOn, TypeOK
    <3>2. CASE Stops(p)
      BY <2>1, <3>2 DEF Stops
    <3>3. QED BY <2>1, <3>1, <3>2 DEF AllExcluded
  <2>2. QED BY <1>3, <2>1 DEF Review, StartReview, ReviewFails, TooLarge, ReviewCompletes, Stops
<1>4. CASE Decide(p)
  BY <1>4 DEF Decide, DecideCommit, DecideSkip, DecideVouch, DecideHandoff, DecideAbort,
              DecideFails, Stops, GoesOn
<1>5. CASE Finish(p)
  BY <1>5 DEF Finish, CommitMsg, GitFails, MakeCommit, HeadMoved, ClearAttestation, Enqueue,
              ForgetSessions, Push
<1>6. QED BY <1>1, <1>2, <1>3, <1>4, <1>5 DEF Step

\* A command whose hooks all run reaches commit-msg with a word in the state file, unless
\* its tree is attested without a terminal.
LEMMA MsgStep ==
  ASSUME TypeOK, NEW p \in Proc, Step(p), pc'[p] = "msg",
         cmd'[p].bypass = "none", cmd'[p].tty
  PROVE  /\ state' # "none"
         /\ state' = "ran" => Attested' \/ pc[p] = "decide"
<1>e. Ends(p) \/ Stops(p) => pc'[p] = "off"
  BY EndsAlone DEF Stops
<1>g. \A at : GoTo(p, at) => pc'[p] = at
  BY DEF TypeOK, GoTo
<1>0. ~Begin(p) /\ cmd[p].bypass = "none" /\ cmd[p].tty
  BY Begins, OwnChanges
<1>1. CASE Before(p)
  BY <1>1, <1>0, <1>e, <1>g DEF Before, PreCommit, WriteTree, Prepare, TakeLock, LockExpires, Attested
<1>2. CASE Review(p)
  <2>1. CASE AllExcluded(p)
    <3>1. AttestIndex("skipped") => Attested'
      BY <2>1 DEF AllExcluded, AttestIndex, Attested, TypeOK
    <3>2. QED BY <2>1, <3>1, <1>0, <1>e DEF AllExcluded, GoesOn, InHook
  <2>2. QED BY <1>2, <2>1, <1>e, <1>g DEF Review, StartReview, ReviewFails, TooLarge, ReviewCompletes
<1>3. CASE Decide(p)
  <2>1. Stops(p) \/ (pc[p] = "decide" /\ GoesOn(p, 0)) \/ GoesOn(p, 2)
    BY <1>3 DEF Decide, DecideCommit, DecideSkip, DecideVouch, DecideHandoff, DecideAbort,
                DecideFails
  <2>2. QED BY <2>1, <1>0, <1>e DEF GoesOn, InHook
<1>4. CASE Finish(p)
  BY <1>4, <1>e, <1>g DEF Finish, CommitMsg, GitFails, MakeCommit, HeadMoved, ClearAttestation,
                          Enqueue, ForgetSessions, Push
<1>5. CASE Killed(p)
  BY <1>5, <1>e DEF Killed
<1>6. QED BY <1>0, <1>1, <1>2, <1>3, <1>4, <1>5 DEF Step

\* commit-msg writes a trailer before git commits, and git commits before post-commit.
LEMMA CommitStep ==
  ASSUME TypeOK, NEW p \in Proc, Step(p)
  PROVE  /\ pc'[p] = "commit" => CommitMsg(p)
         /\ pc'[p] = "clear" => MakeCommit(p)
<1>e. Ends(p) \/ Stops(p) => pc'[p] = "off"
  BY EndsAlone DEF Stops
<1>g. \A at : GoTo(p, at) => pc'[p] = at
  BY DEF TypeOK, GoTo
<1>1. CASE Begin(p) \/ Killed(p)
  BY <1>1, <1>e, Begins DEF Killed
<1>2. CASE Before(p)
  BY <1>2, <1>e, <1>g DEF Before, PreCommit, WriteTree, Prepare, TakeLock, LockExpires
<1>3. CASE Review(p)
  <2>1. CASE AllExcluded(p)
    BY <2>1, <1>e, <1>g DEF AllExcluded, GoesOn
  <2>2. QED BY <1>3, <2>1, <1>e, <1>g DEF Review, StartReview, ReviewFails, TooLarge, ReviewCompletes
<1>4. CASE Decide(p)
  <2>1. Stops(p) \/ GoesOn(p, 0) \/ GoesOn(p, 2)
    BY <1>4 DEF Decide, DecideCommit, DecideSkip, DecideVouch, DecideHandoff, DecideAbort,
                DecideFails
  <2>2. QED BY <2>1, <1>e, <1>g DEF GoesOn
<1>5. CASE Finish(p)
  BY <1>5, <1>e, <1>g DEF Finish, CommitMsg, GitFails, MakeCommit, HeadMoved, ClearAttestation,
                          Enqueue, ForgetSessions, Push
<1>6. QED BY <1>1, <1>2, <1>3, <1>4, <1>5 DEF Step

\* What the state file says when commit-msg reads it, and what the trailer says from then on,
\* of a command whose hooks all run.
Told(p) ==
  cmd[p].bypass = "none" =>
    /\ pc[p] = "msg" /\ cmd[p].tty =>
         /\ state = "none" => overlap
         /\ ~touched /\ cmd[p].base = count /\ state = "ran" => Attested \/ index \in looked
    /\ pc[p] \in {"commit", "clear"} =>
         /\ cmd[p].trailer = "none" => overlap
         /\ ~touched /\ cmd[p].trailer = "ran" /\ (pc[p] = "commit" => cmd[p].base = count)
            => cmd[p].tree \in looked

TrailerInv == \A p \in Proc : Told(p)

\* commit-msg takes the trailer from the attestation, or else from the state file.
LEMMA TrailerWritten ==
  ASSUME TypeOK, NEW p \in Proc, CommitMsg(p), pc'[p] = "commit", cmd[p].bypass = "none"
  PROVE  /\ pc[p] = "msg" /\ (cmd[p].tty \/ Attested)
         /\ cmd'[p].trailer = IF Attested THEN TrailerOf(attest[index]) ELSE StateTrailer
<1> DEFINE tr == IF Attested THEN TrailerOf(attest[index]) ELSE StateTrailer
           re == Attested /\ index \in used
<1>1. ~Ends(p)
  BY EndsAlone
<1>2. GateOpen(p)
  BY <1>1 DEF CommitMsg
<1>3. cmd' = [cmd EXCEPT ![p].msgFor = MessageOf(p), ![p].trailer = tr, ![p].reused = re]
  BY <1>1 DEF CommitMsg
<1>4. pc[p] = "msg"
  BY DEF CommitMsg
<1>5. cmd \in [Proc -> Command]
  BY DEF TypeOK
<1> HIDE DEF tr, re
<1>6. cmd'[p].trailer = tr
  BY <1>3, <1>5 DEF Command
<1>7. QED BY <1>2, <1>4, <1>6 DEF GateOpen, tr

\* A review that starts looks at what is staged, unless that is attested or HEAD's.
LEMMA StartLooks ==
  ASSUME NEW p \in Proc, StartReview(p), attest'[index] = "none", index # head
  PROVE  index \in looked'
BY DEF StartReview

\* Two commands at a time take each other's state, but not a review that was not.
LEMMA ToldOthers ==
  ASSUME TypeOK, Solo, TreeInv, LookInv, TrailerInv, NEW p \in Proc, Step(p),
         NEW q \in Proc \ {p}
  PROVE  Told(q)'
<1>1. pc'[q] = pc[q] /\ cmd'[q] = cmd[q]
  BY Alone
<1>2. UNCHANGED <<index, touched>> /\ looked \subseteq looked'
  BY FileChanges DEF StartReview
<1>3. pc'[q] # "off" => overlap'
  BY OthersOff
<1>4. Told(q) /\ TreeOf(q)
  BY DEF TrailerInv, TreeInv
<1>5. index \in Tree /\ count \in Nat /\ cmd[q].base \in Nat
  BY DEF TypeOK, Command
<1>6. Holding(q) /\ cmd[q].base = count' => UNCHANGED <<head, count>>
  BY <1>4, <1>5, HeadStep DEF TreeOf
<1>7. ASSUME pc[q] = "msg", cmd[q].bypass = "none", cmd[q].tty, ~touched, cmd[q].base = count',
             state' = "ran"
      PROVE  Attested' \/ index \in looked'
  <2>1. UNCHANGED <<head, count>> /\ index # head
    BY <1>4, <1>6, <1>7 DEF TreeOf, Holding
  <2>2. CASE state = "ran"
    <3>1. Attested \/ index \in looked
      BY <1>4, <1>7, <2>1, <2>2 DEF Told
    <3>2. attest'[index] = "none" => attest[index] = "none" \/ index \in looked'
      BY <1>5, <2>1, AttestChanges, StartLooks
    <3>3. QED BY <1>2, <3>1, <3>2 DEF Attested
  <2>3. CASE Attested'
    BY <2>3
  <2>4. CASE pc[p] = "decide"
    BY <1>2, <1>7, <2>4 DEF LookInv
  <2>5. QED BY <1>7, <2>2, <2>3, <2>4, StateChanges
<1>8. pc[q] = "commit" => (cmd[q].base = count' => cmd[q].base = count)
  BY <1>6 DEF Holding
<1>9. QED BY <1>1, <1>2, <1>3, <1>4, <1>7, <1>8 DEF Told

\* A command is told the truth about its own tree.
LEMMA ToldSelf ==
  ASSUME TypeOK, Solo, TreeInv, LookInv, TrailerInv, NEW p \in Proc, Step(p)
  PROVE  Told(p)'
<1>1. UNCHANGED <<index, touched>> /\ looked \subseteq looked'
  BY FileChanges DEF StartReview
<1>2. Told(p) /\ TreeOf(p)
  BY DEF TrailerInv, TreeInv
<1> SUFFICES ASSUME cmd'[p].bypass = "none", pc'[p] \in {"msg", "commit", "clear"}
             PROVE  Told(p)'
  BY DEF Told
<1>3. ~Begin(p) /\ cmd[p].bypass = "none"
  BY Begins, OwnChanges
<1>4. CASE pc'[p] = "msg"
  <2>1. ASSUME cmd'[p].tty
        PROVE  /\ state' # "none"
               /\ state' = "ran" => Attested' \/ pc[p] = "decide"
    BY <1>4, <2>1, MsgStep
  <2>3. ~touched /\ pc[p] = "decide" => index \in looked'
    BY <1>1 DEF LookInv
  <2>4. QED BY <1>1, <1>4, <2>1, <2>3 DEF Told
<1>5. CASE pc'[p] = "commit"
  <2>1. CommitMsg(p)
    BY <1>5, CommitStep
  <2>2. /\ pc[p] = "msg" /\ (cmd[p].tty \/ Attested)
        /\ cmd'[p].trailer = IF Attested THEN TrailerOf(attest[index]) ELSE StateTrailer
    BY <1>3, <1>5, <2>1, TrailerWritten
  <2>3. cmd'[p].tree = cmd[p].tree /\ cmd'[p].base = cmd[p].base
    BY <1>3, <1>5, <2>1, OwnChanges DEF CommitMsg, PreCommit, WriteTree
  <2>4. UNCHANGED <<count, overlap>>
    BY <2>1 DEF CommitMsg
  <2>5. CASE Attested
    <3>1. attest[index] \in Action
      BY <2>5 DEF Attested, TypeOK
    <3>2. cmd'[p].trailer # "none" /\ (cmd'[p].trailer = "ran" => attest[index] = "reviewed")
      BY <2>2, <2>5, <3>1 DEF TrailerOf, Action
    <3>3. ~touched => cmd[p].tree = index
      BY <1>2, <2>2 DEF TreeOf, Holding
    <3>4. ~touched /\ attest[index] = "reviewed" => index \in looked'
      BY <1>1 DEF LookInv, TypeOK
    <3>5. QED BY <1>1, <1>5, <2>3, <3>2, <3>3, <3>4 DEF Told
  <2>6. CASE ~Attested
    <3>1. /\ cmd'[p].trailer = "none" => state = "none"
          /\ cmd'[p].trailer = "ran" => state = "ran"
      BY <2>2, <2>6 DEF StateTrailer, TypeOK
    <3>2. ~touched => cmd[p].tree = index
      BY <1>2, <2>2 DEF TreeOf, Holding
    <3>3. state = "none" => overlap
      BY <1>2, <1>3, <2>2, <2>6 DEF Told
    <3>4. ~touched /\ cmd[p].base = count /\ state = "ran" => index \in looked'
      BY <1>1, <1>2, <1>3, <2>2, <2>6 DEF Told
    <3>5. QED BY <1>1, <1>5, <2>3, <2>4, <3>1, <3>2, <3>3, <3>4 DEF Told
  <2>7. QED BY <2>5, <2>6
<1>6. CASE pc'[p] = "clear"
  <2>1. MakeCommit(p)
    BY <1>6, CommitStep
  <2>2. pc[p] = "commit" /\ cmd[p].base = count /\ UNCHANGED overlap
    BY <2>1 DEF MakeCommit
  <2>3. cmd'[p].tree = cmd[p].tree /\ cmd'[p].trailer = cmd[p].trailer
    BY <1>3, <1>6, <2>2, OwnChanges DEF WriteTree, CommitMsg
  <2>4. QED BY <1>1, <1>2, <1>3, <1>6, <2>2, <2>3 DEF Told
<1>7. QED BY <1>4, <1>5, <1>6

\* Every step leaves the trailers true.
LEMMA TrailerStep ==
  ASSUME TypeOK, Solo, TreeInv, LookInv, TrailerInv, [Next]_vars
  PROVE  TrailerInv'
<1>1. CASE User \/ LockAges \/ UNCHANGED vars
  <2> SUFFICES ASSUME NEW q \in Proc PROVE Told(q)'
    BY DEF TrailerInv
  <2>1. UNCHANGED <<pc, cmd, count, state, overlap, looked>>
    BY <1>1, Quiet
  <2>2. ~touched' /\ pc[q] # "off" => ~touched /\ UNCHANGED <<index, attest>>
    BY <1>1, Undisturbed DEF Busy
  <2>3. Told(q)
    BY DEF TrailerInv
  <2>4. QED BY <2>1, <2>2, <2>3 DEF Told, Attested
<1>2. ASSUME NEW p \in Proc, Step(p) PROVE TrailerInv'
  BY <1>2, ToldOthers, ToldSelf DEF TrailerInv
<1>3. QED BY <1>1, <1>2, Steps

\* The trailer of a commit whose hooks all ran says "ran" only of a reviewed tree, and says
\* something unless two commands have overlapped.
THEOREM HooksTrailerTells == Spec => []TrailerTells
<1>1. Init => TrailerInv
  BY DEF Init, TrailerInv, Told
<1>2. TypeOK /\ Solo /\ TreeInv /\ LookInv /\ TrailerInv /\ [Next]_vars => TrailerInv'
  BY TrailerStep
<1>3. TrailerInv => TrailerTells
  BY DEF TrailerInv, Told, TrailerTells
<1>4. QED BY <1>1, <1>2, <1>3, HooksTypes, HooksSolo, HooksTree, HooksLooked, PTL DEF Spec

-----------------------------------------------------------------------------
(* The sync of a commit *)

\* Until its sessions are forgotten, HEAD of a commit that has some has them; then it is queued.
Reports(p) ==
  cmd[p].syncable =>
    /\ pc[p] \in Done
    /\ pc[p] \in {"clear", "enqueue"} => head \in sessions
    /\ pc[p] \in {"forget", "push"} => cmd[p].queued

SyncInv == ~overlap /\ ~CanFail => \A p \in Proc : Reports(p)

\* Past the commit, only post-commit's steps are left.
LEMMA DoneActions ==
  ASSUME NEW p \in Proc, Step(p), pc[p] \in Done
  PROVE  ClearAttestation(p) \/ Enqueue(p) \/ ForgetSessions(p) \/ Push(p) \/ Killed(p)
BY DEF Done, Step, Begin, Before, PreCommit, WriteTree, Prepare, TakeLock, LockExpires,
       Review, StartReview, AllExcluded, ReviewFails, TooLarge, ReviewCompletes,
       Decide, DecideCommit, DecideSkip, DecideVouch, DecideHandoff, DecideAbort, DecideFails,
       Finish, CommitMsg, GitFails, MakeCommit, HeadMoved

\* Post-commit queues the commit before it forgets the sessions.
LEMMA SyncStep ==
  ASSUME TypeOK, Solo, SyncInv, [Next]_vars
  PROVE  SyncInv'
<1>1. CASE User \/ LockAges \/ UNCHANGED vars
  BY <1>1, Quiet DEF SyncInv, Reports
<1>2. ASSUME NEW p \in Proc, Step(p) PROVE SyncInv'
  <2> SUFFICES ASSUME ~overlap', ~CanFail, NEW q \in Proc, cmd'[q].syncable
               PROVE  Reports(q)'
    BY DEF SyncInv, Reports
  <2>1. q = p /\ ~overlap
    BY <1>2, OthersOff DEF Idle
  <2>2. ~Begin(p) /\ cmd'[p] # Idle
    BY <2>1, Begins DEF Idle
  <2>3. pc'[p] # "off" /\ (MakeCommit(p) \/ cmd'[p].syncable = cmd[p].syncable)
    BY <1>2, <2>2, OwnChanges
  <2>4. cmd[p] \in Command /\ cmd \in [Proc -> Command] /\ pc \in [Proc -> Place]
    BY DEF TypeOK, Place
  <2>5. CASE MakeCommit(p)
    <3> DEFINE sy == cmd[p].tree \in sessions
    <3>1. /\ GoTo(p, "clear") /\ cmd' = [cmd EXCEPT ![p].syncable = sy]
          /\ head' = cmd[p].tree /\ UNCHANGED sessions
      BY <2>2, <2>5, EndsAlone DEF MakeCommit
    <3> HIDE DEF sy
    <3>2. pc'[p] = "clear" /\ cmd'[p].syncable = sy
      BY <2>4, <3>1 DEF GoTo, Command
    <3>3. head' \in sessions'
      BY <2>1, <3>1, <3>2 DEF sy
    <3>4. QED BY <2>1, <3>2, <3>3 DEF Reports, Done
  <2>6. CASE ~MakeCommit(p)
    <3>1. Reports(p) /\ cmd[p].syncable
      BY <2>1, <2>3, <2>6 DEF SyncInv
    <3>2. pc[p] \in Done
      BY <3>1 DEF Reports
    <3>3. CASE ClearAttestation(p)
      BY <2>1, <2>4, <3>1, <3>3 DEF ClearAttestation, GoTo, Reports, Done
    <3>4. CASE Enqueue(p)
      <4>1. cmd' = [cmd EXCEPT ![p].queued = (head \in sessions)]
        BY <3>4 DEF Enqueue
      <4>2. cmd'[p].queued = (head \in sessions)
        BY <2>4, <4>1 DEF Command
      <4>3. pc[p] = "enqueue" /\ pc'[p] = "forget"
        BY <2>4, <3>4 DEF Enqueue, GoTo
      <4>4. head \in sessions
        BY <3>1, <4>3 DEF Reports
      <4>5. QED BY <2>1, <4>2, <4>3, <4>4 DEF Reports, Done
    <3>5. CASE ForgetSessions(p)
      BY <2>1, <2>4, <3>1, <3>5 DEF ForgetSessions, GoTo, Reports, Done
    <3>6. CASE Push(p) \/ Killed(p)
      BY <2>3, <3>6, EndsAlone DEF Push, Killed
    <3>7. QED BY <1>2, <3>2, <3>3, <3>4, <3>5, <3>6, DoneActions
  <2>7. QED BY <2>5, <2>6
<1>3. QED BY <1>1, <1>2, Steps

\* A commit that has a review to report is queued by the time its sessions are forgotten.
THEOREM HooksQueued == Spec => []QueuedBeforeForgotten
<1>1. Init => SyncInv
  BY DEF Init, SyncInv, Reports, Idle
<1>2. TypeOK /\ Solo /\ SyncInv /\ [Next]_vars => SyncInv'
  BY SyncStep
<1>3. SyncInv => QueuedBeforeForgotten
  BY DEF SyncInv, Reports, QueuedBeforeForgotten
<1>4. QED BY <1>1, <1>2, <1>3, HooksTypes, HooksSolo, PTL DEF Spec

-----------------------------------------------------------------------------
(* The message *)

\* The override is only written by the decision to commit a handled review, for its tree.
LEMMA MessageChanges ==
  ASSUME TypeOK, NEW p \in Proc, Step(p)
  PROVE  /\ message' \in {message, NoTree} \/ (DecideCommit(p) /\ message' = index)
         /\ StartReview(p) => message' = (IF Defers(p) THEN NoTree ELSE message)
<1> SUFFICES message' \in {message, NoTree} \/ (DecideCommit(p) /\ message' = index)
  BY DEF StartReview, StartMessage
<1>1. CASE Begin(p) \/ Killed(p) \/ Before(p)
  BY <1>1 DEF Begin, Killed, Before, PreCommit, WriteTree, Prepare, TakeLock, LockExpires
<1>2. CASE Review(p)
  BY <1>2 DEF Review, StartReview, StartMessage, AllExcluded, ReviewFails, TooLarge, ReviewCompletes
<1>3. CASE Decide(p)
  BY <1>3 DEF Decide, DecideCommit, DecideSkip, DecideVouch, DecideHandoff, DecideAbort,
              DecideFails, ClearRequests
<1>4. CASE Finish(p)
  BY <1>4 DEF Finish, CommitMsg, GitFails, MakeCommit, HeadMoved, ClearAttestation, Enqueue,
              ForgetSessions, Push
<1>5. QED BY <1>1, <1>2, <1>3, <1>4 DEF Step

\* A command's message is its own, or the override's.
LEMMA MsgForChanges ==
  ASSUME TypeOK, NEW p \in Proc, Step(p), pc'[p] # "off", ~Begin(p)
  PROVE  \/ DecideCommit(p) /\ cmd'[p].msgFor = index
         \/ ~DecideCommit(p) /\ cmd'[p].msgFor \in {cmd[p].msgFor, MessageOf(p)}
<1> cmd[p] \in Command /\ cmd \in [Proc -> Command]
  BY DEF TypeOK
<1>e. ~Ends(p) /\ ~Stops(p)
  BY EndsAlone DEF Stops
<1>1. CASE Before(p)
  <2>1. ~DecideCommit(p)
    BY <1>1 DEF Before, PreCommit, WriteTree, Prepare, TakeLock, LockExpires, DecideCommit
  <2>2. CASE PreCommit(p) \/ WriteTree(p)
    BY <2>1, <2>2, <1>e DEF PreCommit, WriteTree, Command
  <2>3. CASE Prepare(p) \/ TakeLock(p) \/ LockExpires(p)
    BY <2>1, <2>3, <1>e DEF Prepare, TakeLock, LockExpires, Command
  <2>4. QED BY <1>1, <2>2, <2>3 DEF Before
<1>2. CASE Review(p)
  <2>1. ~DecideCommit(p) \/ pc[p] = "decide"
    BY DEF DecideCommit
  <2>2. QED BY <1>2, <2>1, <1>e DEF Review, StartReview, AllExcluded, ReviewFails, TooLarge, ReviewCompletes,
                                    Command
<1>3. CASE Decide(p)
  <2>1. CASE DecideCommit(p)
    BY <2>1 DEF DecideCommit, Command
  <2>2. CASE ~DecideCommit(p)
    BY <1>3, <2>2, <1>e DEF Decide, DecideSkip, DecideVouch, DecideHandoff, DecideAbort,
                            DecideFails, Command
  <2>3. QED BY <2>1, <2>2
<1>4. CASE Finish(p)
  <2>1. pc[p] # "decide"
    BY <1>4 DEF Finish, CommitMsg, GitFails, MakeCommit, HeadMoved, ClearAttestation, Enqueue,
                ForgetSessions, Push
  <2>2. ~DecideCommit(p)
    BY <2>1 DEF DecideCommit
  <2>3. CASE CommitMsg(p)
    <3> DEFINE tr == IF Attested THEN TrailerOf(attest[index]) ELSE StateTrailer
               re == Attested /\ index \in used
    <3>1. \/ UNCHANGED cmd
          \/ cmd' = [cmd EXCEPT ![p].msgFor = MessageOf(p), ![p].trailer = tr, ![p].reused = re]
      BY <2>3, <1>e DEF CommitMsg
    <3> HIDE DEF tr, re
    <3>2. QED BY <2>2, <3>1 DEF Command
  <2>4. CASE MakeCommit(p)
    <3> DEFINE sy == cmd[p].tree \in sessions
    <3>1. cmd' = [cmd EXCEPT ![p].syncable = sy]
      BY <2>4, <1>e DEF MakeCommit
    <3> HIDE DEF sy
    <3>2. QED BY <2>2, <3>1 DEF Command
  <2>5. CASE Enqueue(p)
    <3> DEFINE qu == head \in sessions
    <3>1. UNCHANGED cmd \/ cmd' = [cmd EXCEPT ![p].queued = qu]
      BY <2>5 DEF Enqueue
    <3> HIDE DEF qu
    <3>2. QED BY <2>2, <3>1 DEF Command
  <2>6. CASE ClearAttestation(p) \/ ForgetSessions(p) \/ GitFails(p) \/ HeadMoved(p) \/ Push(p)
    BY <2>2, <2>6, <1>e DEF ClearAttestation, ForgetSessions, GitFails, HeadMoved, Push
  <2>7. QED BY <1>4, <2>3, <2>4, <2>5, <2>6 DEF Finish
<1>5. CASE Killed(p)
  BY <1>5, <1>e DEF Killed
<1>6. QED BY <1>1, <1>2, <1>3, <1>4, <1>5 DEF Step

\* A hook's review starts without an override; once it has decided to commit, the override
\* is that decision's or there is none.
Decided(p) ==
  cmd[p].bypass # "skip" =>
    /\ pc[p] \in {"review", "decide"} => message = NoTree
    /\ cmd[p].choice \in {"commit", "push"} => message \in {NoTree, index} /\ cmd[p].msgFor = index

MessageInv == ~touched /\ ~overlap => \A p \in Proc : Decided(p)

\* A decision's message is not replaced by another.
LEMMA MessageStep ==
  ASSUME TypeOK, Solo, MessageInv, [Next]_vars
  PROVE  MessageInv'
<1> SUFFICES ASSUME ~touched', ~overlap' PROVE \A q \in Proc : Decided(q)'
  BY DEF MessageInv
<1>1. CASE User \/ LockAges \/ UNCHANGED vars
  <2>1. ~touched /\ UNCHANGED <<pc, cmd, message, overlap>> /\ (Busy => index' = index)
    BY <1>1, Undisturbed, Quiet
  <2>2. ASSUME NEW q \in Proc, pc[q] = "off" PROVE cmd[q].choice = "none"
    BY <2>2 DEF Solo, Idle
  <2>3. QED BY <2>1, <2>2 DEF MessageInv, Decided, Busy
<1>2. ASSUME NEW p \in Proc, Step(p) PROVE \A q \in Proc : Decided(q)'
  <2>1. \A q \in Proc \ {p} : pc'[q] = "off" /\ cmd'[q] = Idle
    BY <1>2, OthersOff
  <2>2. \A q \in Proc \ {p} : Decided(q)'
    BY <2>1 DEF Decided, Idle
  <2> SUFFICES Decided(p)'
    BY <2>2
  <2>3. CASE Begin(p)
    BY <2>3, Begins DEF Decided
  <2>4. CASE ~Begin(p) /\ pc'[p] = "off"
    BY <1>2, <2>4, OwnChanges DEF Decided, Idle
  <2>5. CASE ~Begin(p) /\ pc'[p] # "off"
    <3>1. Decided(p) /\ index' = index
      BY <1>2, <2>5, FileChanges DEF MessageInv
    <3>2. cmd'[p].bypass = cmd[p].bypass /\ (Decide(p) \/ cmd'[p].choice = cmd[p].choice)
      BY <1>2, <2>5, OwnChanges
    <3>3. CASE DecideCommit(p)
      <4>1. pc[p] = "decide" /\ cmd'[p].msgFor = index
        BY <1>2, <2>5, <3>3, MsgForChanges DEF DecideCommit
      <4>2. message' \in {message, NoTree, index} /\ pc'[p] \notin {"review", "decide"}
        BY <1>2, <3>3, MessageChanges DEF DecideCommit, GoesOn, GoTo, TypeOK
      <4>3. QED BY <3>1, <3>2, <4>1, <4>2 DEF Decided
    <3>4. CASE ~DecideCommit(p)
      <4>1. message' \in {message, NoTree} /\ cmd'[p].msgFor \in {cmd[p].msgFor, MessageOf(p)}
        BY <1>2, <2>5, <3>4, MessageChanges, MsgForChanges
      <4>2. cmd'[p].choice \in {"commit", "push"} => cmd[p].choice = cmd'[p].choice
        BY <3>2, <3>4 DEF Decide, DecideSkip, DecideVouch, DecideHandoff, DecideAbort, DecideFails,
                          Stops, Ends, TypeOK, Command, Idle
      <4>3. pc'[p] \in {"review", "decide"} /\ cmd[p].bypass # "skip" => message' = NoTree
        BY <1>2, <3>1, <4>1, ReviewStep, MessageChanges DEF Decided, Defers
      <4>4. QED BY <3>1, <3>2, <4>1, <4>2, <4>3 DEF Decided, MessageOf
    <3>5. QED BY <3>3, <3>4
  <2>6. QED BY <2>3, <2>4, <2>5
<1>3. QED BY <1>1, <1>2, Steps

\* The message decided in a hook's review is the commit's.
THEOREM HooksMessageKept == Spec => []DecidedMessageKept
<1>1. Init => MessageInv
  BY DEF Init, MessageInv, Decided, Idle
<1>2. TypeOK /\ Solo /\ MessageInv /\ [Next]_vars => MessageInv'
  BY MessageStep
<1>3. MessageInv /\ TreeInv => DecidedMessageKept
  BY DEF MessageInv, Decided, TreeInv, TreeOf, Holding, DecidedMessageKept
<1>4. QED BY <1>1, <1>2, <1>3, HooksTypes, HooksSolo, HooksTree, PTL DEF Spec

=============================================================================
