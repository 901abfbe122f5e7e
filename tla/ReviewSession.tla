---------------------------- MODULE ReviewSession ----------------------------
(***************************************************************************)
(* One interactive review, from the moment its page is served until the    *)
(* process returns a decision to git (runReviewWithOptions).                *)
(*                                                                         *)
(* Decisions come from browser requests, from the terminal prompt of either *)
(* stage (tui1 while the review runs, tui2 when it is complete) and from    *)
(* signals (sig1, sig2).  Every one of them runs TryDecide, Freeze and a    *)
(* channel send on a goroutine of its own, against one of TWO runtimes:     *)
(* tui1 and sig1 against interactiveRuntime, the others against             *)
(* progressiveRuntime.  The main goroutine waits for both channels and for  *)
(* the poll of the backend.                                                 *)
(***************************************************************************)
EXTENDS Decisions, FiniteSets

CONSTANTS
  Req,        \* browser requests that may be made (a bound)
  Setup,      \* [submitted, defer, initial, stale]: how sessions may start
  CanFail     \* whether coverage and attestation writes may fail

ASSUME ReqAssumption == Req \cap {"tui1", "tui2", "sig1", "sig2"} = {}
ASSUME SetupAssumption ==
  Setup \subseteq [submitted : BOOLEAN, defer : BOOLEAN, initial : Msg, stale : BOOLEAN]
ASSUME CanFailAssumption == CanFail \in BOOLEAN

VARIABLES
  main,      \* where the main goroutine is
  poll,      \* the backend's review as the poll goroutine sees it
  rt,        \* the two decision runtimes
  box,       \* their channels, of capacity one
  sent,      \* runtimes whose sync.Once has fired
  th,        \* the goroutine of each source of decisions
  draft,     \* the commit message as the draft hub holds it
  frozen,    \* the draft hub takes no more edits
  held,      \* the decision the main goroutine has received
  executed,  \* the decision executeDecision was called with
  exit,      \* how the process ends
  attested,  \* action of the attestation this session wrote
  ledger,    \* actions of the review sessions this session recorded
  failed,    \* a coverage or attestation write has failed
  msgFile,   \* commit message left for the commit-msg hook
  pushFlag,  \* push request left for the post-commit hook
  setup      \* the review was submitted; a hook commits after us; the message so
             \* far; an earlier session's push request is still on disk

vars == <<main, poll, rt, box, sent, th, draft, frozen, held, executed, exit, attested,
          ledger, failed, msgFile, pushFlag, setup>>

Which == {"inter", "prog"}
Thread == Req \cup {"tui1", "tui2", "sig1", "sig2"}

\* The runtime a source of decisions is wired to.
Target(t) == IF t \in {"tui1", "sig1"} THEN "inter" ELSE "prog"

TypeOK ==
  /\ main \in {"select", "pollDone", "phases", "grace", "outcome", "final",
               "finalwait", "execute", "done"}
  /\ poll \in {"running", "ok", "failed", "nothing"}
  /\ rt \in [Which -> Runtime]
  /\ box \in [Which -> Decision \cup {NoDecision}]
  /\ sent \subseteq Which
  /\ th \in [Thread -> [at : {"idle", "try", "freeze", "send", "ok", "refused"},
                        d : Decision \cup {NoDecision}]]
  /\ draft \in Msg
  /\ frozen \in BOOLEAN
  /\ held \in Decision \cup {NoDecision}
  /\ executed \in Decision \cup {NoDecision}
  /\ exit \in {"none", "commit", "abort", "skip", "direct", "handoff", "error"}
  /\ attested \in {"none", "reviewed", "skipped", "vouched"}
  /\ ledger \subseteq {"reviewed", "vouched"}
  /\ failed \in BOOLEAN
  /\ msgFile \in Msg
  /\ pushFlag \in BOOLEAN
  /\ setup \in Setup

\* The message file is cleared before a hook's review starts, the push request is not.
Init ==
  /\ setup \in Setup
  /\ main = "select"
  /\ poll = "running"
  /\ rt = [w \in Which |-> NewRuntime("running")]
  /\ box = [w \in Which |-> NoDecision]
  /\ sent = {}
  /\ th = [t \in Thread |-> [at |-> "idle", d |-> NoDecision]]
  /\ frozen = FALSE
  /\ draft = setup.initial
  /\ held = NoDecision
  /\ executed = NoDecision
  /\ exit = "none"
  /\ attested = "none"
  /\ ledger = {}
  /\ failed = FALSE
  /\ msgFile = Blank
  /\ pushFlag = setup.stale

-----------------------------------------------------------------------------
(* Sources of decisions *)

disk == <<attested, ledger, failed, msgFile, pushFlag>>

Submit(t, d) ==
  /\ th[t].at = "idle"
  /\ th' = [th EXCEPT ![t] = [at |-> "try", d |-> d]]

Update(m) == draft' = IF frozen THEN draft ELSE m

\* An edit of the draft from the browser, the prompt or the external editor.
Edit ==
  /\ main # "done"
  /\ \E m \in Msg : m # draft /\ Update(m)
  /\ UNCHANGED <<main, poll, rt, box, sent, th, frozen, held, executed, exit, setup, disk>>

\* A POST to /commit, /commit-push, /skip or /vouch, which make their message the
\* draft, to /handoff (whose body, the findings, is left out), or to /abort, which
\* freezes the draft before it knows whether the abort is accepted.
Request(q) ==
  /\ main # "done"
  /\ \E code \in Code, m \in Msg, push \in BOOLEAN :
       /\ push => code = "commit"
       /\ code \in {"abort", "handoff"} => m = Blank
       /\ Submit(q, [source |-> "web", code |-> code, msg |-> m, push |-> push])
       /\ frozen' = (frozen \/ code = "abort")
       /\ IF code \in {"abort", "handoff"} THEN UNCHANGED draft ELSE Update(m)
  /\ UNCHANGED <<main, poll, rt, box, sent, held, executed, exit, setup, disk>>

\* The prompt of the first stage: skip and vouch want a message, abort does not.
Prompt1 ==
  /\ main \in {"select", "pollDone"}
  /\ \E code \in {"abort", "skip", "vouch"}, m \in Msg :
       /\ m = Blank => code = "abort"
       /\ Submit("tui1", [source |-> "terminal", code |-> code, msg |-> m, push |-> FALSE])
  /\ UNCHANGED <<main, poll, rt, box, sent, draft, frozen, held, executed, exit, setup, disk>>

\* The prompt of the second stage.
Prompt2 ==
  /\ main = "finalwait"
  /\ \E code \in {"abort", "commit"}, m \in Msg, push \in BOOLEAN :
       /\ m = Blank => code = "abort"
       /\ push => code = "commit"
       /\ Submit("tui2", [source |-> "terminal", code |-> code, msg |-> m, push |-> push])
  /\ UNCHANGED <<main, poll, rt, box, sent, draft, frozen, held, executed, exit, setup, disk>>

\* Ctrl-C or SIGTERM goes to every channel registered with signal.Notify whose
\* goroutine still waits.
Interrupt ==
  /\ main # "done"
  /\ LET hit == {t \in {"sig1"} \cup (IF main = "finalwait" THEN {"sig2"} ELSE {}) :
                   th[t].at = "idle"}
     IN  /\ hit # {}
         /\ th' = [t \in Thread |-> IF t \in hit THEN [at |-> "try", d |-> Abort("signal")]
                                    ELSE th[t]]
  /\ UNCHANGED <<main, poll, rt, box, sent, draft, frozen, held, executed, exit, setup, disk>>

TryDecide(t) ==
  LET w == Target(t)
      d == th[t].d
  IN  /\ main # "done"
      /\ th[t].at = "try"
      /\ IF Accepts(rt[w], d)
         THEN /\ rt' = [rt EXCEPT ![w] = Decided(@, d)]
              /\ th' = [th EXCEPT ![t].at = "freeze"]
         ELSE /\ th' = [th EXCEPT ![t] = [at |-> "refused", d |-> NoDecision]]
              /\ UNCHANGED rt
      /\ UNCHANGED <<main, poll, box, sent, draft, frozen, held, executed, exit, setup, disk>>

Freeze(t) ==
  /\ main # "done"
  /\ th[t].at = "freeze"
  /\ frozen' = TRUE
  /\ th' = [th EXCEPT ![t].at = "send"]
  /\ UNCHANGED <<main, poll, rt, box, sent, draft, held, executed, exit, setup, disk>>

\* decisionOnce.Do: send what the runtime has chosen, then answer 200 "ok".
Send(t) ==
  LET w == Target(t)
  IN  /\ main # "done"
      /\ th[t].at = "send"
      /\ IF w \in sent THEN UNCHANGED <<box, sent>>
         ELSE /\ box[w] = NoDecision
              /\ box' = [box EXCEPT ![w] = rt[w].chosen]
              /\ sent' = sent \cup {w}
      /\ th' = [th EXCEPT ![t].at = "ok"]
      /\ UNCHANGED <<main, poll, rt, draft, frozen, held, executed, exit, setup, disk>>

\* Mutant: the decision is sent before the draft is frozen.
DecideUnfrozen(t) ==
  \/ TryDecide(t)
  \/ /\ th[t].at = "freeze"
     /\ LET w == Target(t)
        IN  /\ box' = [box EXCEPT ![w] = rt[w].chosen]
            /\ sent' = sent \cup {w}
     /\ th' = [th EXCEPT ![t].at = "ok"]
     /\ UNCHANGED <<main, poll, rt, draft, frozen, held, executed, exit, setup, disk>>

Decide(t) == TryDecide(t) \/ Freeze(t) \/ Send(t)

-----------------------------------------------------------------------------
(* The poll goroutine and the main goroutine *)

sources == <<rt, box, sent, th, draft, frozen>>

\* pollReviewWithRecovery returns; without a submitted review it returns at once.
PollEnds ==
  /\ main # "done"
  /\ poll = "running"
  /\ poll' \in IF setup.submitted THEN {"ok", "failed"} ELSE {"nothing"}
  /\ UNCHANGED <<main, sources, held, executed, exit, setup, disk>>

\* One channel of a select fires; a channel holds a decision until it is received.
Receive(w, next) ==
  /\ box[w] # NoDecision
  /\ held' = box[w]
  /\ box' = [box EXCEPT ![w] = NoDecision]
  /\ main' = next
  /\ UNCHANGED <<poll, rt, sent, th, draft, frozen, executed, exit, setup, disk>>

\* Mutant: the complete phase starts without waiting for the poll.
SelectEager ==
  /\ main = "select"
  /\ \/ \E w \in Which : Receive(w, "execute")
     \/ /\ main' = "pollDone"
        /\ UNCHANGED <<poll, sources, held, executed, exit, setup, disk>>

\* select over decisionChan, webDecisionChan and pollDone, chosen at random when
\* several are ready.
Select ==
  /\ main = "select"
  /\ \/ \E w \in Which : Receive(w, "execute")
     \/ /\ poll # "running"
        /\ main' = "pollDone"
        /\ UNCHANGED <<poll, sources, held, executed, exit, setup, disk>>

\* SetPhase on one runtime, then on the other.
CompletePhase(from, w, to) ==
  /\ main = from
  /\ main' = to
  /\ rt' = [rt EXCEPT ![w] = InPhase(@, "complete")]
  /\ UNCHANGED <<poll, box, sent, th, draft, frozen, held, executed, exit, setup, disk>>

\* A decision that arrives within 300 ms of the poll's end still counts.
Grace ==
  /\ main = "grace"
  /\ \/ \E w \in Which : Receive(w, "outcome")
     \/ /\ main' = "outcome"
        /\ UNCHANGED <<poll, sources, held, executed, exit, setup, disk>>

\* ensureAttestationFull: at most one attestation per session.
Attest(action) == attested' = IF attested = "none" THEN action ELSE attested

\* recordCoverageAndAttest: a review session in the database, then the attestation.
\* RecordAndComputeCoverage swallows the database's errors.
RecordAndAttest(action) ==
  /\ \/ ledger' = ledger \cup {action} /\ UNCHANGED failed
     \/ CanFail /\ failed' = TRUE /\ UNCHANGED ledger
  /\ Attest(action)

\* The diff does not parse, or the attestation cannot be written after the session.
RecordFails(action) ==
  /\ CanFail
  /\ \/ UNCHANGED ledger
     \/ attested = "none" /\ ledger' = ledger \cup {action}
  /\ failed' = TRUE
  /\ UNCHANGED attested

\* Mutant: no attestation after the grace window.
OutcomeUnattested ==
  /\ main = "outcome"
  /\ main' = IF held # NoDecision THEN "execute" ELSE "final"
  /\ UNCHANGED <<poll, sources, held, executed, exit, disk, setup>>

\* Whatever the poll returned - a result, an error the browser will show, or
\* nothing at all - the tree is recorded as "reviewed"; a failure is a warning.
Outcome ==
  /\ main = "outcome"
  /\ RecordAndAttest("reviewed") \/ RecordFails("reviewed")
  /\ main' = IF held # NoDecision THEN "execute" ELSE "final"
  /\ UNCHANGED <<poll, sources, held, executed, exit, msgFile, pushFlag, setup>>

\* The second stage starts with an attestation, or not at all.
Final ==
  /\ main = "final"
  /\ \/ Attest("reviewed") /\ main' = "finalwait" /\ UNCHANGED <<failed, exit>>
     \/ /\ CanFail /\ attested = "none"
        /\ failed' = TRUE /\ exit' = "error" /\ main' = "done"
        /\ UNCHANGED attested
  /\ UNCHANGED <<poll, sources, held, executed, setup, ledger, msgFile, pushFlag>>

\* Mutant: the second stage listens to the first stage's channel.
FinalWaitTerminal == main = "finalwait" /\ Receive("inter", "execute")

\* decision := <-progressiveDecisionChan
FinalWait == main = "finalwait" /\ Receive("prog", "execute")

-----------------------------------------------------------------------------
(* executeDecision *)

Ends(how) ==
  /\ main' = "done"
  /\ executed' = held
  /\ exit' = how
  /\ UNCHANGED <<poll, sources, held, setup>>

ExecuteAbort ==
  /\ held.code = "abort"
  /\ Ends("abort")
  /\ UNCHANGED disk

FinalMessage == IF held.msg # Blank THEN held.msg ELSE setup.initial

\* Mutant: an old push request survives a commit that does not ask to push.
ExecuteCommitKeepingPush ==
  /\ held.code = "commit"
  /\ IF setup.defer
     THEN Ends("commit") /\ msgFile' = FinalMessage /\ pushFlag' = (pushFlag \/ held.push)
     ELSE Ends("direct") /\ UNCHANGED <<msgFile, pushFlag>>
  /\ UNCHANGED <<attested, ledger, failed>>

\* In a hook the message and the push request are left on disk for the hooks that
\* follow; outside of one, lrc runs git commit (and git push) itself.
ExecuteCommit ==
  /\ held.code = "commit"
  /\ IF setup.defer
     THEN Ends("commit") /\ msgFile' = FinalMessage /\ pushFlag' = held.push
     ELSE Ends("direct") /\ UNCHANGED <<msgFile, pushFlag>>
  /\ UNCHANGED <<attested, ledger, failed>>

\* Skip and vouch clear both files in a hook.
Proceed ==
  IF setup.defer
  THEN Ends("skip") /\ msgFile' = Blank /\ pushFlag' = FALSE
  ELSE Ends("direct") /\ UNCHANGED <<msgFile, pushFlag>>

ExecuteSkip ==
  /\ held.code = "skip"
  /\ \/ Attest("skipped") /\ Proceed /\ UNCHANGED <<ledger, failed>>
     \/ /\ CanFail /\ attested = "none"
        /\ failed' = TRUE /\ Ends("error")
        /\ UNCHANGED <<attested, ledger, msgFile, pushFlag>>

ExecuteVouch ==
  /\ held.code = "vouch"
  /\ \/ RecordAndAttest("vouched") /\ Proceed
     \/ RecordFails("vouched") /\ Ends("error") /\ UNCHANGED <<msgFile, pushFlag>>

\* Findings are written and Claude Code runs; its failure is the process's error.
ExecuteHandoff ==
  /\ held.code = "handoff"
  /\ Ends("handoff") \/ Ends("error")
  /\ UNCHANGED disk

Execute ==
  /\ main = "execute"
  /\ ExecuteAbort \/ ExecuteCommit \/ ExecuteSkip \/ ExecuteVouch \/ ExecuteHandoff

-----------------------------------------------------------------------------

Main ==
  \/ Select
  \/ CompletePhase("pollDone", "inter", "phases")
  \/ CompletePhase("phases", "prog", "grace")
  \/ Grace \/ Outcome \/ Final \/ FinalWait \/ Execute

Next ==
  \/ Edit \/ Prompt1 \/ Prompt2 \/ Interrupt \/ PollEnds \/ Main
  \/ \E q \in Req : Request(q)
  \/ \E t \in Thread : Decide(t)

Spec == Init /\ [][Next]_vars

\* The Go scheduler runs every goroutine that can run, timers fire and the poll has
\* a timeout.  Nothing obliges the user to decide.
Fairness == WF_vars(Main) /\ WF_vars(PollEnds) /\ \A t \in Thread : WF_vars(Decide(t))

FairSpec == Spec /\ Fairness

-----------------------------------------------------------------------------
(* Properties *)

\* Only a finished review is committed or handed over, whichever goroutine decided
\* and however its decision raced the end of the poll and the two SetPhase calls.
CommitAfterReview ==
  held.code \in {"commit", "handoff"} => poll # "running"

\* Whatever main acts on was accepted by the runtime of its source, and each browser
\* request that was answered "ok" holds the one decision of its runtime: two
\* clients are never both told that their decision was taken.
OneWinnerPerRuntime ==
  /\ held # NoDecision => \E w \in Which : held = rt[w].chosen
  /\ \A t \in Thread :
       th[t].at \in {"freeze", "send", "ok"} =>
         /\ rt[Target(t)].chosen = th[t].d
         /\ \A u \in Thread \ {t} :
              Target(u) = Target(t) => th[u].at \notin {"freeze", "send", "ok"}

\* When main acts, the draft is frozen: nobody still edits a message that has been taken.
DraftFrozenOnAction == held # NoDecision => frozen

\* From the moment main holds a decision, whichever way it came, no step of any client,
\* prompt or signal changes the draft everybody sees or opens it to edits again.
TakenDraftStays == [][held # NoDecision => frozen' /\ draft' = draft]_vars

\* A commit let through is attested, unless a write failed: the hooks that run
\* next find what this session did with the tree.
LetThroughIsAttested ==
  exit \in {"commit", "skip", "direct"} => attested # "none" \/ failed

\* A vouch lets the commit through only with an attestation, and with its session in
\* the ledger unless the database failed (which the code keeps to itself).
VouchIsRecorded ==
  exit \in {"skip", "direct"} /\ executed.code = "vouch" =>
    attested # "none" /\ ("vouched" \in ledger \/ failed)

\* After a hook's decision to go on, the push request on disk is this decision's own.
PushAsDecided == exit \in {"commit", "skip"} => pushFlag = executed.push

\* A decision accepted by progressiveRuntime ends the session: the browser that was
\* told "ok" does not see it hang, whichever select had fired before.
AcceptedEndsSession == (rt["prog"].chosen # NoDecision) ~> (main = "done")

=============================================================================
