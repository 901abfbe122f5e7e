---------------------------- MODULE ReviewCommand ----------------------------
(***************************************************************************)
(* The ways through runReviewWithOptions that ReviewSession leaves out: to  *)
(* skip or vouch at once, a blocking review decided in the browser, an      *)
(* agent's or a plain review without a page, and a read-only review of      *)
(* commits that exist already.  Around each of them run the poll, the blast *)
(* radius scores with their upload, and the page with its draft hub; of an  *)
(* interactive review only these last two are here.                         *)
(***************************************************************************)
EXTENDS DraftHub

CONSTANTS
  Req,        \* browser requests that may be made (a bound)
  Setup,      \* how commands may start, see SetupType
  CanFail     \* whether coverage and attestation writes may fail

INSTANCE Decisions WITH Msg <- SUBSET Edit, Blank <- {}

Way == {"skip", "vouch", "blocking", "agent", "plain", "history", "interactive"}
Action == {"reviewed", "skipped", "vouched", "agent-reviewed"}

SetupType ==
  [way : Way, serve : BOOLEAN, force : BOOLEAN, score : BOOLEAN, fake : BOOLEAN,
   tree : Action \cup {"none"}, initial : SUBSET Edit, edits : SUBSET Edit, editing : SUBSET Client,
   following : SUBSET Client]

ASSUME ReqAssumption == "sig" \notin Req
ASSUME SetupAssumption == Setup \subseteq SetupType
ASSUME CanFailAssumption == CanFail \in BOOLEAN

VARIABLES
  main,       \* where the main goroutine is
  submitted,  \* the backend took the review
  poll,       \* what the poll goroutine is doing, or what it returned
  stop,       \* the poll was told to stop
  rt,         \* progressiveRuntime
  box,        \* its channel, of capacity one
  sent,       \* its sync.Once has fired
  th,         \* the goroutines of browser requests and of the signal
  held,       \* the decision main has received
  page,       \* the page's state: [shown, status, blocked]
  scored,     \* the page's hunks have scores
  scoring,    \* the scoring goroutine
  upload,     \* state of the report's upload, as the page reads it
  tree,       \* the attestation of the working tree
  written,    \* this process has written one
  ledger,     \* review sessions this process recorded
  failed,     \* a coverage or attestation write has failed
  left,       \* left for the hooks: commit message and push request
  exit,       \* how the process ends
  setup       \* [way, --serve, --force, --blast-radius, fake build, attestation found,
              \* message so far, edits to come, who edits the draft, who follows it]

decideVars == <<rt, box, sent, th>>
pageVars == <<page, scored>>
blastVars == <<scoring, upload>>
disk == <<tree, written, ledger, failed, left>>
vars == <<main, submitted, poll, stop, decideVars, held, pageVars, blastVars, disk, exit,
          setup, hubVars>>

Thread == Req \cup {"sig"}

Polling == poll \in {"running", "recovering", "again"}
PollEnded == poll \in {"ok", "failed", "rejected", "cancelled", "nothing"}
HasHub == setup.way \in {"blocking", "interactive"}
HasPage == HasHub \/ (setup.way = "history" /\ setup.serve)

Init ==
  /\ setup \in Setup
  /\ HubInit(setup.initial, setup.edits)
  /\ main = "start" /\ submitted = FALSE /\ poll = "idle" /\ stop = FALSE
  /\ rt = NewRuntime("running") /\ box = NoDecision /\ sent = FALSE
  /\ th = [t \in Thread |-> [at |-> "idle", d |-> NoDecision]]
  /\ held = NoDecision
  /\ page = [shown |-> FALSE, status |-> "in_progress", blocked |-> FALSE]
  /\ scored = FALSE /\ scoring = "off" /\ upload = "idle"
  /\ tree = setup.tree /\ written = FALSE /\ ledger = {} /\ failed = FALSE
  /\ left = [msg |-> setup.initial, push |-> TRUE]
  /\ exit = "none"

-----------------------------------------------------------------------------
(* Ways to return and to attest *)

\* Before the submission nothing is deferred; afterwards the upload is waited for.
Return(how) == main' = "done" /\ exit' = how
Leave(how) == main' = "leaving" /\ exit' = how

\* ensureAttestationFull: at most one attestation per process.
AttestOk(action) ==
  /\ tree' = IF written THEN tree ELSE action
  /\ written' = TRUE
  /\ UNCHANGED failed

AttestFails ==
  /\ CanFail /\ ~written
  /\ failed' = TRUE
  /\ UNCHANGED <<tree, written>>

\* recordCoverageAndAttest: the session first, whose database errors are swallowed.
RecordAndAttest(action) ==
  /\ ledger' = ledger \cup {action} /\ AttestOk(action)
  /\ UNCHANGED left

RecordFails(action) ==
  /\ CanFail
  /\ \/ UNCHANGED <<tree, written>> /\ ledger' \in {ledger, ledger \cup {action}}
     \/ /\ tree' = IF written THEN tree ELSE action
        /\ written' = TRUE
        /\ UNCHANGED ledger
  /\ failed' = TRUE
  /\ UNCHANGED left

-----------------------------------------------------------------------------
(* Up to the submission *)

before == <<submitted, poll, stop, decideVars, held, pageVars, setup, hubVars>>

\* --skip and --vouch attest and return.  Coverage is a best effort; a vouch wants a
\* diff that parses.
AttestNow ==
  /\ main = "start"
  /\ \/ /\ setup.way = "skip"
        /\ ledger' \in {ledger, ledger \cup {"skipped"}}
        /\ \/ AttestOk("skipped") /\ Return("ok")
           \/ AttestFails /\ Return("error")
     \/ /\ setup.way = "vouch"
        /\ \/ /\ ledger' \in {ledger, ledger \cup {"vouched"}}
              /\ \/ AttestOk("vouched") /\ Return("ok")
                 \/ AttestFails /\ Return("error")
           \/ Return("error") /\ UNCHANGED <<tree, written, ledger, failed>>
  /\ UNCHANGED <<before, blastVars, left>>

\* An attestation that is there already ends the command, unless --force deletes it; if
\* that fails the review goes on.  History has nothing to do with the tree.
Prepare ==
  /\ main = "start" /\ setup.way \notin {"skip", "vouch"}
  /\ left' = IF setup.way = "blocking" THEN [left EXCEPT !.msg = {}] ELSE left
  /\ \/ /\ setup.way # "history" /\ ~setup.force /\ tree # "none"
        /\ Return("error") /\ UNCHANGED tree
     \/ /\ setup.way = "history" \/ setup.force \/ tree = "none"
        /\ \/ tree' = IF setup.way = "history" THEN tree ELSE "none"
           \/ CanFail /\ UNCHANGED tree
        /\ main' = "collect" /\ UNCHANGED exit
  /\ UNCHANGED <<before, blastVars, written, ledger, failed>>

\* Configuration and diff; everything may be excluded by .lrc/ignore, which counts as
\* skipped.  Scoring starts beside the review.
Collect ==
  /\ main = "collect"
  /\ \/ /\ \/ Return("error") /\ UNCHANGED <<tree, written, failed>>
           \/ /\ setup.way = "history" /\ Return("ok")
              /\ UNCHANGED <<tree, written, failed>>
           \/ /\ setup.way # "history"
              /\ \/ AttestOk("skipped") /\ Return("ok")
                 \/ AttestFails /\ Return("error")
        /\ UNCHANGED scoring
     \/ /\ main' = "submit"
        /\ scoring' = IF setup.score THEN "pending" ELSE "off"
        /\ UNCHANGED <<exit, tree, written, failed>>
  /\ UNCHANGED <<before, upload, ledger, left>>

\* Mutant: the upload's goroutine says that it has started.
UploadStartsLater == upload

\* "uploading" is set before the goroutine exists.
UploadStarts == IF setup.score /\ ~setup.fake THEN "uploading" ELSE upload

\* Submission, with one recovery of the API key inside: the review is taken; or the
\* quota is used up, which a served page will show; or the diff is too large and the
\* user at the terminal chooses to skip; or it is an error.
Submit ==
  /\ main = "submit"
  /\ \/ /\ main' = IF HasPage THEN "serve" ELSE "begin"
        /\ submitted' = TRUE /\ upload' = UploadStarts
        /\ UNCHANGED <<exit, tree, written, failed>>
     \/ /\ ~setup.fake /\ setup.serve
        /\ main' = "serve" /\ upload' = UploadStarts
        /\ UNCHANGED <<exit, submitted, tree, written, failed>>
     \/ /\ ~setup.fake /\ setup.way # "agent"
        /\ \/ AttestOk("skipped") /\ Return("ok")
           \/ AttestFails /\ Return("error")
        /\ UNCHANGED <<submitted, upload>>
     \/ /\ ~setup.fake /\ Return("error")
        /\ UNCHANGED <<submitted, upload, tree, written, failed>>
  /\ UNCHANGED <<poll, stop, decideVars, held, pageVars, setup, hubVars, scoring, ledger, left>>

\* NewReviewState, SetBlocked; UpdateFromResult, SetFailed: what the page shows.
NewPage == [shown |-> TRUE, status |-> IF submitted THEN "in_progress" ELSE "failed",
            blocked |-> ~submitted]
WithResult(p) == IF p.shown THEN [p EXCEPT !.status = "completed"] ELSE p
WithError(p) == [p EXCEPT !.status = "failed"]

rest == <<submitted, decideVars, held, blastVars, setup, hubVars>>

\* The page, made under reviewStateMu with the scores there are; no port may be free.
Serve ==
  /\ main = "serve"
  /\ page' = NewPage
  /\ scored' = (scoring \in {"ready", "joined"})
  /\ \/ main' = "begin" /\ UNCHANGED exit
     \/ Leave("error")
  /\ UNCHANGED <<rest, disk, poll, stop>>

\* The poll starts (an interactive review's is in ReviewSession); a blocking review
\* that was not submitted ends here.
Begin ==
  /\ main = "begin"
  /\ IF setup.way = "blocking" /\ ~submitted
     THEN Leave("error") /\ UNCHANGED poll
     ELSE /\ main' = "wait" /\ UNCHANGED exit
          /\ poll' = CASE setup.way = "interactive" -> poll
                       [] submitted -> "running"
                       [] OTHER -> "nothing"
  /\ UNCHANGED <<rest, pageVars, disk, stop>>

-----------------------------------------------------------------------------
(* The poll, the scores and their upload *)

others == <<main, submitted, stop, decideVars, held, disk, exit, setup, hubVars>>

\* PollReview: an answer, an error, a 401, or cancelled; once a rejected API key is
\* recovered and the poll starts again, deaf to stop meanwhile.
PollStep ==
  /\ main # "done"
  /\ \/ /\ poll \in {"running", "again"}
        /\ poll' \in {"ok"} \cup (IF setup.fake THEN {} ELSE {"failed", "rejected"})
                            \cup (IF stop THEN {"cancelled"} ELSE {})
     \/ poll = "running" /\ ~setup.fake /\ poll' = "recovering"
     \/ poll = "recovering" /\ poll' \in {"again", "failed"}
  /\ UNCHANGED <<others, pageVars, blastVars>>

\* The scoring goroutine publishes its report, then joins it to the page if there is one.
Score ==
  /\ main # "done"
  /\ \/ scoring = "pending" /\ scoring' \in {"ready", "unavailable"} /\ UNCHANGED scored
     \/ scoring = "ready" /\ scoring' = "joined" /\ scored' = (scored \/ page.shown)
  /\ UNCHANGED <<others, poll, page, upload>>

\* Mutant: without a report the goroutine returns.
UploadForgets ==
  /\ main # "done"
  /\ upload = "uploading" /\ scoring = "joined"
  /\ upload' \in {"uploaded", "failed"}
  /\ UNCHANGED <<others, poll, pageVars, scoring>>

\* The upload waits for the scores, at most as long as these may take.
Upload ==
  /\ main # "done"
  /\ upload = "uploading"
  /\ \/ scoring = "joined" /\ upload' = "uploaded"
     \/ upload' = "failed"
  /\ UNCHANGED <<others, poll, pageVars, scoring>>

-----------------------------------------------------------------------------
(* Reviews without decisions: history, plain, agent *)

\* The poll's end, or Ctrl-C; then the poll is stopped and awaited.
Wait ==
  \/ main = "wait" /\ PollEnded /\ main' = "polled" /\ UNCHANGED <<stop, exit>>
  \/ main = "wait" /\ main' = "stopping" /\ stop' = TRUE /\ UNCHANGED exit
  \/ /\ main = "stopping" /\ PollEnded /\ UNCHANGED stop
     /\ IF poll = "cancelled" THEN Leave("ok")
        ELSE main' = "polled" /\ UNCHANGED exit

WaitHistory ==
  /\ setup.way = "history" /\ Wait
  /\ UNCHANGED <<rest, pageVars, disk, poll>>

WaitPlain ==
  /\ setup.way \in {"plain", "agent"} /\ Wait
  /\ UNCHANGED <<rest, pageVars, disk, poll>>

\* Read-only: an error ends the review, unless a page stays up to show it.
HistoryResult ==
  /\ setup.way = "history" /\ main = "polled"
  /\ \/ /\ poll = "rejected" \/ (poll = "failed" /\ ~page.shown)
        /\ Leave("error") /\ UNCHANGED page
     \/ /\ poll \in {"ok", "nothing"} \/ (poll = "failed" /\ page.shown)
        /\ page' = CASE poll = "ok" -> WithResult(page) [] poll = "failed" -> WithError(page)
                     [] OTHER -> page
        /\ main' = IF page.shown THEN "view" ELSE "outputs"
        /\ UNCHANGED exit
  /\ UNCHANGED <<rest, scored, disk, poll, stop>>

\* The page is served until Ctrl-C.
View ==
  /\ main = "view"
  /\ Leave("ok")
  /\ UNCHANGED <<rest, pageVars, disk, poll, stop>>

\* Mutant: the result of a poll is not looked at.
PlainResultUnchecked ==
  /\ setup.way \in {"plain", "agent"} /\ main = "polled"
  /\ main' = IF setup.way = "agent" THEN "attest" ELSE "outputs"
  /\ UNCHANGED <<rest, pageVars, exit, disk, poll, stop>>

PlainResult ==
  /\ setup.way \in {"plain", "agent"} /\ main = "polled"
  /\ IF poll # "ok" THEN Leave("error")
     ELSE /\ main' = IF setup.way = "agent" THEN "attest" ELSE "outputs"
          /\ UNCHANGED exit
  /\ UNCHANGED <<rest, pageVars, disk, poll, stop>>

\* An agent's review: what fails here is only a warning ...
AttestAgent ==
  /\ main = "attest"
  /\ RecordAndAttest("agent-reviewed") \/ RecordFails("agent-reviewed")
  /\ main' = "outputs"
  /\ UNCHANGED <<rest, pageVars, exit, poll, stop>>

\* Files and standard output, after a short wait for the scores; each may fail.
Outputs ==
  /\ main = "outputs"
  /\ \/ Leave("error")
     \/ main' = "finish" /\ UNCHANGED exit
  /\ UNCHANGED <<rest, pageVars, disk, poll, stop>>

\* ... because the last step of the command tries again and is strict.
Finish ==
  /\ main = "finish"
  /\ \/ setup.way # "agent" /\ Leave("ok") /\ UNCHANGED <<tree, written, failed>>
     \/ setup.way = "agent" /\ AttestOk("agent-reviewed") /\ Leave("ok")
     \/ setup.way = "agent" /\ AttestFails /\ Leave("error")
  /\ UNCHANGED <<rest, pageVars, poll, stop, ledger, left>>

-----------------------------------------------------------------------------
(* The blocking review *)

blocking == setup.way = "blocking"

\* The timer drops what the poll and the browser still have to say.
Timeout ==
  /\ blocking /\ main \in {"wait", "decide"}
  /\ stop' = TRUE
  /\ page' = WithError(page)
  /\ Leave("error")
  /\ UNCHANGED <<rest, scored, disk, poll>>

\* A decision stops the poll, which is awaited before anything is done; an interactive
\* review goes on as ReviewSession says.
TakeDecision ==
  /\ HasHub /\ main \in {"wait", "decide"}
  /\ box # NoDecision
  /\ held' = box /\ box' = NoDecision
  /\ IF blocking THEN main' = "settle" /\ stop' = TRUE /\ UNCHANGED exit
     ELSE Leave("session") /\ UNCHANGED stop
  /\ UNCHANGED <<submitted, rt, sent, th, pageVars, blastVars, setup, hubVars, disk, poll>>

\* A poll that has failed on its own loses the decision.
Settle ==
  /\ main = "settle" /\ PollEnded
  /\ IF poll \in {"failed", "rejected"} THEN Leave("error")
     ELSE main' = "execute" /\ UNCHANGED exit
  /\ UNCHANGED <<rest, pageVars, disk, poll, stop>>

\* The poll has ended: commits are accepted from here on, whatever it returned.
PollDone ==
  /\ blocking /\ main = "wait" /\ PollEnded
  /\ rt' = InPhase(rt, "complete")
  /\ main' = "polled"
  /\ UNCHANGED <<submitted, box, sent, th, held, pageVars, blastVars, setup, hubVars, disk,
                 exit, poll, stop>>

\* Mutant: the tree is attested by the decision, as for skip and vouch.
BlockingResultUnattested ==
  /\ blocking /\ main = "polled"
  /\ page' = WithResult(page)
  /\ main' = "decide"
  /\ UNCHANGED <<rest, scored, poll, stop, exit, disk>>

BlockingResult ==
  /\ blocking /\ main = "polled"
  /\ IF poll # "ok"
     THEN /\ page' = WithError(page)
          /\ Leave("error") /\ UNCHANGED disk
     ELSE /\ page' = WithResult(page)
          /\ RecordAndAttest("reviewed") \/ RecordFails("reviewed")
          /\ main' = "decide" /\ UNCHANGED exit
  /\ UNCHANGED <<rest, scored, poll, stop>>

\* executeDecision, with the commit left to the caller's hooks.
Execute ==
  /\ main = "execute"
  /\ \/ /\ held.code \in {"abort", "handoff"}
        /\ \/ Leave(held.code)
           \/ held.code = "handoff" /\ Leave("error")
        /\ UNCHANGED disk
     \/ /\ held.code = "commit"
        /\ left' = [msg |-> held.msg, push |-> held.push]
        /\ Leave("commit")
        /\ UNCHANGED <<tree, written, ledger, failed>>
     \/ /\ held.code = "skip"
        /\ \/ AttestOk("skipped") /\ Leave("skip") /\ left' = [msg |-> {}, push |-> FALSE]
           \/ AttestFails /\ Leave("error") /\ UNCHANGED left
        /\ UNCHANGED ledger
     \/ /\ held.code = "vouch" /\ ledger' \in {ledger, ledger \cup {"vouched"}}
        /\ \/ AttestOk("vouched") /\ Leave("skip") /\ left' = [msg |-> {}, push |-> FALSE]
           \/ AttestFails /\ Leave("error") /\ UNCHANGED left
  /\ UNCHANGED <<rest, pageVars, poll, stop>>

-----------------------------------------------------------------------------
(* The browser and the signal *)

live == main # "done" /\ page.shown
still == <<main, submitted, poll, stop, held, pageVars, blastVars, disk, exit, setup>>

\* A POST to a decision's address.  The message becomes the draft first, and an abort
\* freezes it first; a history page has the addresses but no draft.
Request(q) ==
  /\ live /\ th[q].at = "idle"
  /\ \E p \in Page, code \in Code, push \in BOOLEAN :
       LET text == IF code \in {"abort", "handoff"} THEN {} ELSE view[p].text
       IN  /\ push => code = "commit"
           /\ IF ~HasHub THEN UNCHANGED hubVars
              ELSE /\ CASE code = "abort" -> Freeze
                        [] code = "handoff" -> UNCHANGED <<hub, chan, missed>>
                        [] OTHER -> Update(text, 0)
                   /\ UNCHANGED <<watch, greet, view, pending, answer, editor, unused>>
           /\ th' = [th EXCEPT ![q] =
                       [at |-> "try", d |-> [source |-> "web", code |-> code,
                                             msg |-> text, push |-> push]]]
  /\ UNCHANGED <<still, rt, box, sent>>

\* SIGINT or SIGTERM, for the goroutine a blocking review starts.
Interrupt ==
  /\ main # "done" /\ blocking /\ poll # "idle" /\ th["sig"].at = "idle"
  /\ th' = [th EXCEPT !["sig"] = [at |-> "try", d |-> Abort("signal")]]
  /\ UNCHANGED <<still, hubVars, rt, box, sent>>

\* TryDecide; then the draft is frozen; then the channel gets the chosen decision.
Decide(t) ==
  /\ main # "done"
  /\ \/ /\ th[t].at = "try"
        /\ IF Accepts(rt, th[t].d)
           THEN rt' = Decided(rt, th[t].d) /\ th' = [th EXCEPT ![t].at = "freeze"]
           ELSE th' = [th EXCEPT ![t].at = "refused"] /\ UNCHANGED rt
        /\ UNCHANGED <<box, sent, hubVars>>
     \/ /\ th[t].at = "freeze"
        /\ th' = [th EXCEPT ![t].at = "send"]
        /\ IF HasHub
           THEN Freeze /\ UNCHANGED <<watch, greet, view, pending, answer, editor, unused>>
           ELSE UNCHANGED hubVars
        /\ UNCHANGED <<rt, box, sent>>
     \/ /\ th[t].at = "send"
        /\ th' = [th EXCEPT ![t].at = "ok"]
        /\ box' = IF sent THEN box ELSE rt.chosen
        /\ sent' = TRUE
        /\ UNCHANGED <<rt, hubVars>>
  /\ UNCHANGED still

\* Clients edit and follow the draft; the prompt belongs to an interactive review.
Draft ==
  /\ live /\ HasHub
  /\ \/ \E c \in setup.following : Subscribe(c) \/ Deliver(c)
     \/ \E p \in setup.following \cap Page : Unsubscribe(p)
     \/ \E p \in setup.editing \cap Page : PageStep(p)
     \/ "tui" \in setup.editing /\ (TypeInPrompt \/ OpenEditor \/ CloseEditor)
  /\ UNCHANGED <<still, decideVars>>

-----------------------------------------------------------------------------

\* The deferred wait for the upload is over, with or without it.
Exit ==
  /\ main = "leaving" /\ main' = "done"
  /\ UNCHANGED <<rest, pageVars, disk, poll, stop, exit>>

Main ==
  \/ AttestNow \/ Prepare \/ Collect \/ Submit \/ Serve \/ Begin
  \/ WaitHistory \/ HistoryResult \/ WaitPlain \/ PlainResult
  \/ AttestAgent \/ Outputs \/ Finish
  \/ TakeDecision \/ Settle \/ PollDone \/ BlockingResult \/ Execute \/ Exit

Next ==
  \/ Main \/ Timeout \/ View
  \/ PollStep \/ Score \/ Upload
  \/ \E q \in Req : Request(q)
  \/ Interrupt \/ Draft
  \/ \E t \in Thread : Decide(t)

\* Goroutines run; the scoring and the upload have timeouts.
Fairness == WF_vars(Score) /\ WF_vars(Upload)

Spec == Init /\ [][Next]_vars /\ Fairness

-----------------------------------------------------------------------------
(* Properties *)

\* A blocking review lets a commit go on only after a review that succeeded and left its
\* attestation, unless that could not be written; the message is one that was decided on.
BlockingCommitWasReviewed ==
  exit = "commit" => poll = "ok" /\ (tree # "none" \/ failed) /\ left.msg = held.msg

\* A page that sees the scores finished also sees that they are being uploaded, so
\* that it warns before it is closed.
UploadShown ==
  page.shown /\ scoring \in {"ready", "joined"} /\ ~setup.fake => upload # "idle"

\* An upload the page has shown comes to an end: the page does not hold on to its
\* warning for ever.
UploadEnds == (upload = "uploading") ~> (upload \in {"uploaded", "failed"} \/ main = "done")

\* Whatever way the command took and wherever it is: an attestation it leaves
\* says what happened to the tree.
AttestedAsDone ==
  tree # setup.tree =>
    /\ tree = "none" => setup.force
    /\ tree = "reviewed" => blocking /\ poll = "ok"
    /\ tree = "agent-reviewed" => setup.way = "agent" /\ poll = "ok"
    /\ tree = "vouched" => setup.way = "vouch" \/ held.code = "vouch"
    /\ tree = "skipped" => setup.way = "skip" \/ held.code = "skip" \/ poll = "idle"

=============================================================================
