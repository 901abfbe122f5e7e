----------------------------- MODULE CommitHooks -----------------------------
(***************************************************************************)
(* The git hooks of one worktree, chained by the files they leave for each *)
(* other: attestations per staged tree, the state file, the message         *)
(* override, the push request, the lock directory, the review sessions of   *)
(* the branch.  Several commands run in the worktree (several terminals, an *)
(* IDE, an agent), while somebody stages changes.                           *)
(*                                                                         *)
(* A hook is a short script: each is one step here, except where it waits   *)
(* (for the lock, for the review).  git itself is external: it reads HEAD,  *)
(* runs pre-commit, writes the tree it will commit from the index, runs     *)
(* prepare-commit-msg, the editor and commit-msg, and moves HEAD if HEAD is *)
(* still what it was.                                                       *)
(***************************************************************************)
EXTENDS Integers

CONSTANTS
  Tree,         \* contents the index may hold
  T0,           \* the tree of HEAD when the story starts
  NoTree,       \* no tree
  Proc,         \* commands running in the worktree at the same time (a bound)
  Ways,         \* the ways commands are started (a bound)
  MaxRuns,      \* bound: commands ever started
  Meddles,      \* whether the index or an attestation may change under a command
  CanFail,      \* whether writes of attestations and sessions may fail
  CanKill       \* whether commands may be killed (SIGKILL, power loss)

ASSUME TreeAssumption   == T0 \in Tree /\ NoTree \notin Tree
\* git commit, from a terminal or from an IDE; lrc review --staged in a terminal, which
\* commits with LRC_SKIP_REVIEW=1 by itself; git commit from Claude Code, which its hook
\* turns into a blocking review first.
GitCommit == [at : {"pre"}, tty : BOOLEAN, bypass : {"none", "skip", "off"}]
LrcReview == [at |-> "start", tty |-> TRUE, bypass |-> "skip"]
ClaudeCommit == [at |-> "start", tty |-> FALSE, bypass |-> "handled"]

ASSUME WaysAssumption   == Ways \subseteq GitCommit \cup {LrcReview, ClaudeCommit}
ASSUME RunsAssumption   == MaxRuns \in Nat
ASSUME FaultAssumption  == Meddles \in BOOLEAN /\ CanFail \in BOOLEAN /\ CanKill \in BOOLEAN

VARIABLES
  index,     \* the staged tree
  head,      \* the tree of HEAD
  count,     \* how many commits HEAD has on top of T0
  runs,      \* how many commands have been started
  attest,    \* lrc/attestations: action recorded for each tree
  sessions,  \* trees with a syncable review session of this branch
  state,     \* livereview_state: what prepare-commit-msg did last
  message,   \* the tree whose review left the commit message override
  pushFlag,  \* the push request file exists
  lock,      \* livereview_state.lock; "stale" is one older than 300 s
  pc,        \* what each command is doing
  cmd,       \* how it was started, and what it knows
  looked,    \* history: trees whose diff was given to a review
  used,      \* history: trees not attested again since post-commit cleared them
  touched,   \* history: the index or an attestation was changed under a command
  overlap    \* history: two commands ran at the same time

vars == <<index, head, count, runs, attest, sessions, state, message, pushFlag, lock,
          pc, cmd, looked, used, touched, overlap>>

Action == {"reviewed", "skipped", "vouched"}
Trailer == {"none", "ran", "skipped", "skipped manually", "vouched"}
Choice == {"none", "commit", "push", "skip", "vouch", "handoff"}

\* none: every hook runs; skip: LRC_SKIP_REVIEW=1; handled: LRC_CLAUDE_REVIEW_HANDLED=1;
\* off: hooks disabled, or a merge, rebase or cherry-pick in progress.
Bypass == {"none", "skip", "handled", "off"}

Command == [tty : BOOLEAN, bypass : Bypass,
            base : Nat,                    \* commits HEAD had at the start
            tree : Tree \cup {NoTree},     \* the tree git will commit
            written : BOOLEAN,             \* attestationWritten
            choice : Choice,               \* the decision of its review
            msgFor : Tree \cup {NoTree},   \* the tree whose review chose its message
            trailer : Trailer,
            reused : BOOLEAN,     \* history: its attestation has served before
            syncable : BOOLEAN,   \* history: its tree had a session when HEAD moved
            queued : BOOLEAN]     \* history: its commit is on the sync queue

Idle == [tty |-> FALSE, bypass |-> "none", base |-> 0, tree |-> NoTree, written |-> FALSE,
         choice |-> "none", msgFor |-> NoTree, trailer |-> "none", reused |-> FALSE,
         syncable |-> FALSE, queued |-> FALSE]

TypeOK ==
  /\ index \in Tree
  /\ head \in Tree
  /\ count \in Nat
  /\ runs \in 0..MaxRuns
  /\ attest \in [Tree -> Action \cup {"none"}]
  /\ sessions \subseteq Tree
  /\ state \in {"none", "ran", "skipped", "skipped_manual", "skipped_lock"}
  /\ message \in Tree \cup {NoTree}
  /\ pushFlag \in BOOLEAN
  /\ lock \in {"free", "held", "stale"}
  /\ pc \in [Proc -> {"off", "pre", "tree", "prepare", "lock", "start", "review", "decide",
                      "msg", "commit", "clear", "enqueue", "forget", "push"}]
  /\ cmd \in [Proc -> Command]
  /\ looked \subseteq Tree
  /\ used \subseteq Tree
  /\ touched \in BOOLEAN
  /\ overlap \in BOOLEAN

Init ==
  /\ index = T0
  /\ head = T0
  /\ count = 0
  /\ runs = 0
  /\ attest = [t \in Tree |-> "none"]
  /\ sessions = {}
  /\ state = "none"
  /\ message = NoTree
  /\ pushFlag = FALSE
  /\ lock = "free"
  /\ pc = [p \in Proc |-> "off"]
  /\ cmd = [p \in Proc |-> Idle]
  /\ looked = {}
  /\ used = {}
  /\ touched = FALSE
  /\ overlap = FALSE

Busy == \E p \in Proc : pc[p] # "off"

Attested == attest[index] # "none"

GoTo(p, at) == pc' = [pc EXCEPT ![p] = at]

\* A command ends, by itself or not; what it knew is gone.
Ends(p) ==
  /\ GoTo(p, "off")
  /\ cmd' = [cmd EXCEPT ![p] = Idle]

-----------------------------------------------------------------------------
(* What the user does between and during commands *)

\* What happens between commands, or is noted to have happened under one.
Meddling == touched' = (touched \/ Busy) /\ (Busy => Meddles)

\* git add, git restore --staged: the index gets other contents.
Stage ==
  /\ \E t \in Tree \ {index} : index' = t
  /\ Meddling
  /\ UNCHANGED <<head, count, runs, attest, sessions, state, message, pushFlag, lock, pc, cmd,
                 looked, used, overlap>>

\* A fresh attestation has not served a commit yet.
AttestIndex(action) ==
  /\ attest' = [attest EXCEPT ![index] = action]
  /\ used' = used \ {index}

\* lrc review --skip and --vouch: an attestation without a review, over any other.
\* The session they record has no review id: it is never synced.
QuickSkip ==
  /\ AttestIndex("skipped")
  /\ Meddling
  /\ UNCHANGED <<index, head, count, runs, sessions, state, message, pushFlag, lock, pc, cmd,
                 looked, overlap>>

\* There must be something to vouch for.
QuickVouch ==
  /\ index # head
  /\ AttestIndex("vouched")
  /\ Meddling
  /\ UNCHANGED <<index, head, count, runs, sessions, state, message, pushFlag, lock, pc, cmd,
                 looked, overlap>>

\* lrc attestation remove
RemoveAttestation ==
  /\ Attested
  /\ attest' = [attest EXCEPT ![index] = "none"]
  /\ Meddling
  /\ UNCHANGED <<index, head, count, runs, sessions, state, message, pushFlag, lock, pc, cmd,
                 looked, used, overlap>>

\* A lock directory gets older than five minutes.
LockAges ==
  /\ lock = "held"
  /\ lock' = "stale"
  /\ UNCHANGED <<index, head, count, runs, attest, sessions, state, message, pushFlag, pc, cmd,
                 looked, used, touched, overlap>>

Begin(p) ==
  /\ pc[p] = "off"
  /\ runs < MaxRuns
  /\ runs' = runs + 1
  /\ \E way \in Ways :
       /\ GoTo(p, way.at)
       /\ cmd' = [cmd EXCEPT ![p] = [Idle EXCEPT !.tty = way.tty, !.bypass = way.bypass]]
  /\ overlap' = (overlap \/ Busy)
  /\ UNCHANGED <<index, head, count, attest, sessions, state, message, pushFlag, lock,
                 looked, used, touched>>

-----------------------------------------------------------------------------
(* pre-commit, the tree, prepare-commit-msg *)

\* Without a terminal the staged tree must be attested; all three hooks ask.
GateOpen(p) == cmd[p].tty \/ cmd[p].bypass = "off" \/ Attested

PreCommit(p) ==
  /\ pc[p] = "pre"
  /\ IF GateOpen(p)
     THEN GoTo(p, "tree") /\ cmd' = [cmd EXCEPT ![p].base = count]
     ELSE Ends(p)
  /\ UNCHANGED <<index, head, count, runs, attest, sessions, state, message, pushFlag, lock,
                 looked, used, touched, overlap>>

\* git: nothing to commit, or the tree this commit will have.
WriteTree(p) ==
  /\ pc[p] = "tree"
  /\ IF index = head THEN Ends(p)
     ELSE GoTo(p, "prepare") /\ cmd' = [cmd EXCEPT ![p].tree = index]
  /\ UNCHANGED <<index, head, count, runs, attest, sessions, state, message, pushFlag, lock,
                 looked, used, touched, overlap>>

\* apply_commit_message_override: the file stays for commit-msg.
MessageOf(p) == IF message # NoTree THEN message ELSE cmd[p].msgFor

Prepare(p) ==
  /\ pc[p] = "prepare"
  /\ \/ /\ cmd[p].bypass \in {"skip", "off"}
        /\ GoTo(p, "msg") /\ UNCHANGED <<cmd, state, lock>>
     \/ /\ \/ cmd[p].bypass = "handled"
           \/ cmd[p].bypass = "none" /\ ~cmd[p].tty /\ Attested
        /\ GoTo(p, "msg") /\ cmd' = [cmd EXCEPT ![p].msgFor = MessageOf(p)]
        /\ UNCHANGED <<state, lock>>
     \/ /\ cmd[p].bypass = "none" /\ ~cmd[p].tty /\ ~Attested
        /\ Ends(p) /\ UNCHANGED <<state, lock>>
     \/ /\ cmd[p].bypass = "none" /\ cmd[p].tty /\ Attested
        /\ GoTo(p, "msg") /\ cmd' = [cmd EXCEPT ![p].msgFor = MessageOf(p)]
        /\ state' = "ran"
        /\ lock' = "free"              \* the EXIT trap, whoever holds it
     \/ /\ cmd[p].bypass = "none" /\ cmd[p].tty /\ ~Attested
        /\ GoTo(p, "lock") /\ UNCHANGED <<cmd, state>>
        /\ lock' = IF lock = "stale" THEN "free" ELSE lock
  /\ UNCHANGED <<index, head, count, runs, attest, sessions, message, pushFlag,
                 looked, used, touched, overlap>>

\* mkdir succeeds.
TakeLock(p) ==
  /\ pc[p] = "lock"
  /\ lock = "free"
  /\ lock' = "held"
  /\ GoTo(p, "start")
  /\ UNCHANGED <<index, head, count, runs, attest, sessions, state, message, pushFlag, cmd,
                 looked, used, touched, overlap>>

\* Mutant: only a lock that is stale by now is given up on.
LockExpiresIfStale(p) ==
  /\ pc[p] = "lock"
  /\ lock = "stale"
  /\ state' = "skipped_lock"
  /\ lock' = "free"
  /\ GoTo(p, "msg")
  /\ UNCHANGED <<index, head, count, runs, attest, sessions, message, pushFlag, cmd,
                 looked, used, touched, overlap>>

\* Mutant: the state file is left as it is.
LockExpiresSilently(p) ==
  /\ pc[p] = "lock"
  /\ lock # "free"
  /\ lock' = "free"
  /\ GoTo(p, "msg")
  /\ UNCHANGED <<index, head, count, runs, attest, sessions, state, message, pushFlag, cmd,
                 looked, used, touched, overlap>>

\* mkdir has failed for 300 s: commit without a review; the trap frees the lock.
LockExpires(p) ==
  /\ pc[p] = "lock"
  /\ lock # "free"
  /\ state' = "skipped_lock"
  /\ lock' = "free"
  /\ GoTo(p, "msg")
  /\ UNCHANGED <<index, head, count, runs, attest, sessions, message, pushFlag, cmd,
                 looked, used, touched, overlap>>

-----------------------------------------------------------------------------
(* lrc review: in prepare-commit-msg, in a terminal, or for Claude's hook *)

InHook(p) == cmd[p].bypass = "none"
Defers(p) == cmd[p].bypass # "skip"    \* deferCommit: somebody else commits

\* What follows the end of a review: 0 and 2 let the commit go on, 1 stops it.
\* The hook records how it went and its trap removes the lock.
GoesOn(p, code) ==
  IF InHook(p)
  THEN GoTo(p, "msg") /\ state' = (IF code = 0 THEN "ran" ELSE "skipped_manual") /\ lock' = "free"
  ELSE GoTo(p, "pre") /\ UNCHANGED <<state, lock>>

Stops(p) ==
  /\ Ends(p)
  /\ IF InHook(p) THEN state' = "skipped" /\ lock' = "free" ELSE UNCHANGED <<state, lock>>

\* A deferred review starts without a message override.
StartMessage(p) == IF Defers(p) THEN NoTree ELSE message

\* An attestation that is already there is an error (exit 1), on which Claude's hook
\* goes on to git commit; --force removes it first.
StartReview(p) ==
  /\ pc[p] = "start"
  /\ message' = StartMessage(p)
  /\ \E force \in {FALSE, ~Defers(p)} :
       /\ attest' = IF force THEN [attest EXCEPT ![index] = "none"] ELSE attest
       /\ \/ /\ attest'[index] = "none" /\ index # head
             /\ GoTo(p, "review") /\ looked' = looked \cup {index}
             /\ UNCHANGED <<cmd, state, lock>>
          \/ /\ attest'[index] # "none" /\ cmd[p].bypass = "handled"
             /\ GoTo(p, "pre")
             /\ UNCHANGED <<cmd, state, lock, looked>>
          \/ /\ attest'[index] # "none" /\ cmd[p].bypass # "handled"
             /\ Stops(p) /\ UNCHANGED looked
          \/ /\ attest'[index] = "none" /\ index = head       \* no diff
             /\ Stops(p) /\ UNCHANGED looked
  /\ UNCHANGED <<index, head, count, runs, sessions, pushFlag, used, touched, overlap>>

\* .lrc/ignore leaves nothing of the diff: without a review the tree is attested as skipped and lrc
\* ends with 0 and no commit of its own, or with the error of the attestation.
AllExcluded(p) ==
  /\ pc[p] = "start" /\ index # head
  /\ attest[index] = "none" \/ ~Defers(p)          \* --force
  /\ message' = StartMessage(p)
  /\ \/ /\ AttestIndex("skipped")
        /\ IF Defers(p) THEN GoesOn(p, 0) /\ UNCHANGED cmd ELSE Ends(p) /\ UNCHANGED <<state, lock>>
     \/ CanFail /\ attest[index] = "none" /\ Stops(p) /\ UNCHANGED <<attest, used>>
  /\ UNCHANGED <<index, head, count, runs, sessions, pushFlag, looked, touched, overlap>>

\* The review could not be submitted, or failed or timed out where that is an error.
ReviewFails(p) ==
  /\ pc[p] = "review"
  /\ Stops(p)
  /\ UNCHANGED <<index, head, count, runs, attest, sessions, message, pushFlag,
                 looked, used, touched, overlap>>

\* The backend refuses a diff of this size: asked in the terminal, which a hook has not,
\* the user has the tree attested as skipped; lrc ends without a commit.
TooLarge(p) ==
  /\ pc[p] = "review"
  /\ ~InHook(p) /\ cmd[p].tty
  /\ AttestIndex("skipped")
  /\ Ends(p)
  /\ UNCHANGED <<index, head, count, runs, sessions, state, message, pushFlag, lock, looked,
                 touched, overlap>>

\* The session and the attestation are of the tree that is staged NOW.  A session
\* without a review id (nothing was submitted) or that is not stored is not syncable.
ReviewCompletes(p) ==
  /\ pc[p] = "review"
  /\ sessions' \in {sessions, sessions \cup {index}}
  /\ \/ /\ AttestIndex("reviewed")
        /\ cmd' = [cmd EXCEPT ![p].written = TRUE]
     \/ CanFail /\ UNCHANGED <<attest, used, cmd>>
  /\ GoTo(p, "decide")
  /\ UNCHANGED <<index, head, count, runs, state, message, pushFlag, lock, looked,
                 touched, overlap>>

\* Commit, or commit & push, a finished review.  In a hook the message goes into git's
\* own file; Claude's git commit finds it in the override, unless it is empty.
DecideCommit(p) ==
  /\ pc[p] = "decide"
  /\ \E choice \in {"commit", "push"} :
       /\ cmd' = [cmd EXCEPT ![p].choice = choice, ![p].msgFor = index]
       /\ pushFlag' = IF Defers(p) THEN choice = "push" ELSE pushFlag
  /\ message' \in IF cmd[p].bypass = "handled" THEN {index, NoTree} ELSE {message}
  /\ GoesOn(p, 0)
  /\ UNCHANGED <<index, head, count, runs, attest, sessions, looked, used, touched, overlap>>

\* ensureAttestation, unless this review has written one.
AttestOnce(p, action) ==
  IF cmd[p].written THEN UNCHANGED <<attest, used>> ELSE AttestIndex(action)

\* Mutant: an old push request survives a skip and a vouch.
ClearMessageOnly(p) ==
  IF Defers(p) THEN message' = NoTree /\ UNCHANGED pushFlag ELSE UNCHANGED <<message, pushFlag>>

ClearRequests(p) ==
  IF Defers(p) THEN message' = NoTree /\ pushFlag' = FALSE ELSE UNCHANGED <<message, pushFlag>>

DecideSkip(p) ==
  /\ pc[p] \in {"review", "decide"}
  /\ AttestOnce(p, "skipped")
  /\ ClearRequests(p)
  /\ cmd' = [cmd EXCEPT ![p].choice = "skip"]
  /\ GoesOn(p, 2)
  /\ UNCHANGED <<index, head, count, runs, sessions, looked, touched, overlap>>

DecideVouch(p) ==
  /\ pc[p] \in {"review", "decide"}
  /\ AttestOnce(p, "vouched")
  /\ sessions' \in {sessions, sessions \cup {index}}
  /\ ClearRequests(p)
  /\ cmd' = [cmd EXCEPT ![p].choice = "vouch"]
  /\ GoesOn(p, 2)
  /\ UNCHANGED <<index, head, count, runs, looked, touched, overlap>>

\* Claude Code gets the findings, and may fail; exit 0 lets a deferred commit go on, and
\* leaves both files as they were.
DecideHandoff(p) ==
  /\ pc[p] = "decide"
  /\ \/ Defers(p) /\ GoesOn(p, 0) /\ cmd' = [cmd EXCEPT ![p].choice = "handoff"]
     \/ Stops(p)
  /\ UNCHANGED <<index, head, count, runs, attest, sessions, message, pushFlag,
                 looked, used, touched, overlap>>

DecideAbort(p) ==
  /\ pc[p] \in {"review", "decide"}
  /\ Stops(p)
  /\ UNCHANGED <<index, head, count, runs, attest, sessions, message, pushFlag,
                 looked, used, touched, overlap>>

\* A skip or vouch whose attestation cannot be written, after the vouch's session.
DecideFails(p) ==
  /\ CanFail
  /\ pc[p] \in {"review", "decide"}
  /\ ~cmd[p].written
  /\ sessions' \in {sessions, sessions \cup {index}}
  /\ Stops(p)
  /\ UNCHANGED <<index, head, count, runs, attest, message, pushFlag,
                 looked, used, touched, overlap>>

Decide(p) ==
  \/ DecideCommit(p) \/ DecideSkip(p) \/ DecideVouch(p) \/ DecideHandoff(p)
  \/ DecideAbort(p) \/ DecideFails(p)

-----------------------------------------------------------------------------
(* commit-msg, the commit *)

TrailerOf(action) == CASE action = "reviewed" -> "ran"
                       [] action = "skipped"  -> "skipped"
                       [] action = "vouched"  -> "vouched"

StateTrailer == CASE state = "none" -> "none"
                  [] state = "ran" -> "ran"
                  [] state = "skipped_manual" -> "skipped manually"
                  [] state \in {"skipped", "skipped_lock"} -> "skipped"

\* The trailer comes from the attestation of the tree staged NOW; without one, from the
\* state file, which is only removed then, together with the lock.
CommitMsg(p) ==
  /\ pc[p] = "msg"
  /\ \/ /\ cmd[p].bypass = "off"
        /\ GoTo(p, "commit") /\ UNCHANGED <<cmd, message, state, lock>>
     \/ /\ ~GateOpen(p)
        /\ Ends(p) /\ UNCHANGED <<message, state, lock>>
     \/ /\ cmd[p].bypass # "off" /\ GateOpen(p)
        /\ GoTo(p, "commit")
        /\ message' = NoTree
        /\ cmd' = [cmd EXCEPT ![p].msgFor = MessageOf(p),
                              ![p].trailer = IF Attested THEN TrailerOf(attest[index]) ELSE StateTrailer,
                              ![p].reused = Attested /\ index \in used]
        /\ IF ~Attested /\ state # "none" THEN state' = "none" /\ lock' = "free"
           ELSE UNCHANGED <<state, lock>>
  /\ UNCHANGED <<index, head, count, runs, attest, sessions, pushFlag,
                 looked, used, touched, overlap>>

\* An empty message, or a hook of the repository's own that fails: no commit, and all
\* the files stay.
GitFails(p) ==
  /\ pc[p] \in {"msg", "commit"}
  /\ Ends(p)
  /\ UNCHANGED <<index, head, count, runs, attest, sessions, state, message, pushFlag, lock,
                 looked, used, touched, overlap>>

\* git moves HEAD unless it has moved since this command read it.  Only disabled hooks and
\* a rebase also stop post-commit: the files of a merge are gone by then.
MakeCommit(p) ==
  /\ pc[p] = "commit"
  /\ cmd[p].base = count
  /\ count' = count + 1
  /\ head' = cmd[p].tree
  /\ \/ cmd[p].bypass = "off" /\ Ends(p)
     \/ GoTo(p, "clear") /\ cmd' = [cmd EXCEPT ![p].syncable = cmd[p].tree \in sessions]
  /\ UNCHANGED <<index, runs, attest, sessions, state, message, pushFlag, lock,
                 looked, used, touched, overlap>>

HeadMoved(p) ==
  /\ pc[p] = "commit"
  /\ cmd[p].base # count
  /\ Ends(p)
  /\ UNCHANGED <<index, head, count, runs, attest, sessions, state, message, pushFlag, lock,
                 looked, used, touched, overlap>>

-----------------------------------------------------------------------------
(* post-commit *)

\* Mutant: a commit made by lrc itself leaves its attestation.
ClearUnlessSkipped(p) ==
  /\ pc[p] = "clear"
  /\ attest' = IF cmd[p].bypass = "skip" THEN attest ELSE [attest EXCEPT ![head] = "none"]
  /\ used' = used \cup {cmd[p].tree}
  /\ GoTo(p, "enqueue")
  /\ UNCHANGED <<index, head, count, runs, sessions, state, message, pushFlag, lock, cmd,
                 looked, touched, overlap>>

\* Mutant: the sessions are forgotten before they are enqueued.
ClearAndForget(p) ==
  /\ pc[p] = "clear"
  /\ attest' = [attest EXCEPT ![head] = "none"]
  /\ sessions' = {}
  /\ used' = used \cup {cmd[p].tree}
  /\ GoTo(p, "enqueue")
  /\ UNCHANGED <<index, head, count, runs, state, message, pushFlag, lock, cmd,
                 looked, touched, overlap>>

\* The attestation of HEAD's tree has done its work.
ClearAttestation(p) ==
  /\ pc[p] = "clear"
  /\ attest' = [attest EXCEPT ![head] = "none"]
  /\ used' = used \cup {cmd[p].tree}
  /\ GoTo(p, "enqueue")
  /\ UNCHANGED <<index, head, count, runs, sessions, state, message, pushFlag, lock, cmd,
                 looked, touched, overlap>>

\* lrc internal sync enqueue: HEAD, if its tree has a syncable session.
Enqueue(p) ==
  /\ pc[p] = "enqueue"
  /\ \/ cmd' = [cmd EXCEPT ![p].queued = head \in sessions]
     \/ CanFail /\ UNCHANGED cmd
  /\ GoTo(p, "forget")
  /\ UNCHANGED <<index, head, count, runs, attest, sessions, state, message, pushFlag, lock,
                 looked, used, touched, overlap>>

\* lrc review-cleanup: every session of the branch.
ForgetSessions(p) ==
  /\ pc[p] = "forget"
  /\ sessions' = {} \/ (CanFail /\ UNCHANGED sessions)
  /\ GoTo(p, "push")
  /\ UNCHANGED <<index, head, count, runs, attest, state, message, pushFlag, lock, cmd,
                 looked, used, touched, overlap>>

\* The push is skipped (detached HEAD, fetch failed, diverged), fails, or succeeds;
\* the request is gone in every case.
Push(p) ==
  /\ pc[p] = "push"
  /\ pushFlag' = FALSE
  /\ Ends(p)
  /\ UNCHANGED <<index, head, count, runs, attest, sessions, state, message, lock,
                 looked, used, touched, overlap>>

-----------------------------------------------------------------------------

\* No trap runs: the lock stays, and so does everything else.
Killed(p) ==
  /\ CanKill
  /\ pc[p] # "off"
  /\ Ends(p)
  /\ UNCHANGED <<index, head, count, runs, attest, sessions, state, message, pushFlag, lock,
                 looked, used, touched, overlap>>

Before(p) == PreCommit(p) \/ WriteTree(p) \/ Prepare(p) \/ TakeLock(p) \/ LockExpires(p)

Review(p) == StartReview(p) \/ AllExcluded(p) \/ ReviewFails(p) \/ TooLarge(p) \/ ReviewCompletes(p)

Finish(p) ==
  \/ CommitMsg(p) \/ GitFails(p) \/ MakeCommit(p) \/ HeadMoved(p)
  \/ ClearAttestation(p) \/ Enqueue(p) \/ ForgetSessions(p) \/ Push(p)

User == Stage \/ QuickSkip \/ QuickVouch \/ RemoveAttestation

Next ==
  \/ User \/ LockAges
  \/ \E p \in Proc : Begin(p) \/ Before(p) \/ Review(p) \/ Decide(p) \/ Finish(p) \/ Killed(p)

Spec == Init /\ [][Next]_vars

\* Processes are scheduled, reviews have a timeout, and the user decides in the end.
Fairness == \A p \in Proc : WF_vars(Before(p) \/ Review(p) \/ Decide(p) \/ Finish(p))

FairSpec == Spec /\ Fairness

-----------------------------------------------------------------------------
(* Properties *)

\* The trailer of a commit whose hooks all ran says what was done with its tree: "ran" was
\* reviewed, and there is a trailer, whatever earlier commits that failed or were killed
\* left behind.  (As long as nobody changes the index or an attestation under a command;
\* of two commits at the same time, one takes the other's state file.)
TrailerTells ==
  ~touched =>
    \A p \in Proc : pc[p] = "clear" /\ cmd[p].bypass = "none" =>
      /\ cmd[p].trailer = "none" => overlap
      /\ cmd[p].trailer = "ran" => cmd[p].tree \in looked

\* One attestation serves one commit: committing the same tree again (after a revert)
\* takes a new one, unless the earlier commit's post-commit hook did not get to it.
AttestationServesOnce == ~touched => \A p \in Proc : pc[p] = "clear" => ~cmd[p].reused

\* A commit that has a review to report is on the sync queue by the time its post-commit
\* hook has forgotten the branch's sessions (when the queue can be written).
QueuedBeforeForgotten ==
  ~overlap /\ ~CanFail =>
    \A p \in Proc : pc[p] = "push" /\ cmd[p].syncable => cmd[p].queued

\* The message decided in a review of a hook is the commit's, though an earlier
\* review's message may still lie in the override file.
DecidedMessageKept ==
  ~touched /\ ~overlap =>
    \A p \in Proc :
      /\ pc[p] = "clear"
      /\ cmd[p].choice \in {"commit", "push"}
      /\ cmd[p].bypass # "skip"
      => cmd[p].msgFor = cmd[p].tree

\* A commit decided in a hook finds a request to push only if the decision said so,
\* though an earlier one may have been left behind.
PushedAsDecided ==
  ~overlap =>
    \A p \in Proc :
      /\ pc[p] = "push"
      /\ pushFlag
      /\ cmd[p].bypass # "skip"
      => cmd[p].choice \notin {"commit", "skip", "vouch"}

\* No command waits forever, not even for the lock of a hook that was killed.
CommandsEnd == \A p \in Proc : (pc[p] # "off") ~> (pc[p] = "off")

=============================================================================
