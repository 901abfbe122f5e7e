------------------------- MODULE ReviewSessionProofs -------------------------
(***************************************************************************)
(* Proofs about ReviewSession, for any set of browser requests, messages    *)
(* and ways to start a session.                                             *)
(***************************************************************************)
EXTENDS ReviewSession, TLAPS

\* The empty channel is no decision, and an abort is one.
LEMMA DecisionFacts ==
  /\ NoDecision \notin Decision
  /\ NoDecision.code = "none" /\ NoDecision.msg \in Msg /\ NoDecision.push \in BOOLEAN
  /\ \A s \in Source : Abort(s) \in Decision
BY BlankAssumption DEF NoDecision, Decision, Source, Abort, Code

\* Deciding touches the chosen decision of a runtime, completing its phase.
LEMMA RuntimeUpdates ==
  \A r \in Runtime :
    /\ \A d \in Decision : /\ Decided(r, d) \in Runtime
                            /\ Decided(r, d).chosen = d /\ Decided(r, d).phase = r.phase
    /\ \A ph \in Phase : /\ InPhase(r, ph) \in Runtime
                          /\ InPhase(r, ph).phase = ph /\ InPhase(r, ph).chosen = r.chosen
BY DEF Decided, InPhase, Runtime

\* Every source of decisions is wired to one of the two runtimes.
LEMMA TargetType == \A t \in Thread : Target(t) \in Which
BY DEF Target, Which

ThreadStates == [Thread -> [at : {"idle", "try", "freeze", "send", "ok", "refused"},
                            d : Decision \cup {NoDecision}]]

\* A submitted decision leaves the threads well typed.
LEMMA SubmitTypes ==
  ASSUME th \in ThreadStates, NEW t \in Thread, NEW d \in Decision, Submit(t, d)
  PROVE  th' \in ThreadStates
BY DEF Submit, ThreadStates

\* Type correctness of the session.
THEOREM SessionTypes == Spec => []TypeOK
<1>1. Init => TypeOK
  <2>1. NewRuntime("running") \in Runtime
    BY DEF NewRuntime, Runtime, Phase
  <2>2. ASSUME Init PROVE TypeOK
    BY <2>1, <2>2, BlankAssumption, SetupAssumption DEF Init, TypeOK
  <2>3. QED BY <2>2
<1>2. TypeOK /\ [Next]_vars => TypeOK'
  <2> SUFFICES ASSUME TypeOK, [Next]_vars PROVE TypeOK'
    OBVIOUS
  <2> USE DecisionFacts DEF TypeOK
  <2>1. CASE Edit
    BY <2>1 DEF Edit, Update, disk
  <2>2. CASE Prompt1
    <3>1. PICK d \in Decision : Submit("tui1", d)
      BY <2>2 DEF Prompt1, Decision, Source, Code
    <3>2. th' \in ThreadStates
      BY <3>1, SubmitTypes DEF ThreadStates, Thread
    <3>3. UNCHANGED <<main, poll, rt, box, sent, draft, frozen, held, executed, exit, setup, disk>>
      BY <2>2 DEF Prompt1
    <3>4. QED BY <3>2, <3>3 DEF ThreadStates, disk
  <2>3. CASE Prompt2
    <3>1. PICK d \in Decision : Submit("tui2", d)
      BY <2>3 DEF Prompt2, Decision, Source, Code
    <3>2. th' \in ThreadStates
      BY <3>1, SubmitTypes DEF ThreadStates, Thread
    <3>3. UNCHANGED <<main, poll, rt, box, sent, draft, frozen, held, executed, exit, setup, disk>>
      BY <2>3 DEF Prompt2
    <3>4. QED BY <3>2, <3>3 DEF ThreadStates, disk
  <2>4. CASE Interrupt
    <3>1. Abort("signal") \in Decision
      BY DEF Source
    <3>2. QED BY <2>4, <3>1 DEF Interrupt, disk
  <2>5. CASE PollEnds
    BY <2>5 DEF PollEnds, sources, disk
  <2>6. ASSUME NEW q \in Req, Request(q) PROVE TypeOK'
    <3>1. PICK d \in Decision : Submit(q, d)
      BY <2>6 DEF Request, Decision, Source, Code
    <3>2. draft' \in Msg /\ frozen' \in BOOLEAN
      BY <2>6 DEF Request, Update
    <3>3. th' \in ThreadStates
      BY <3>1, SubmitTypes DEF ThreadStates, Thread
    <3>4. UNCHANGED <<main, poll, rt, box, sent, held, executed, exit, setup, disk>>
      BY <2>6 DEF Request
    <3>5. QED BY <3>2, <3>3, <3>4 DEF ThreadStates, disk
  <2>7. ASSUME NEW t \in Thread, Decide(t) PROVE TypeOK'
    <3>1. CASE TryDecide(t)
      <4>1. CASE Accepts(rt[Target(t)], th[t].d) /\ th[t].d \in Decision
        <5>1. Decided(rt[Target(t)], th[t].d) \in Runtime
          BY <4>1, TargetType, RuntimeUpdates
        <5>2. QED BY <3>1, <4>1, <5>1, TargetType DEF TryDecide, disk
      <4>2. CASE ~Accepts(rt[Target(t)], th[t].d)
        BY <3>1, <4>2 DEF TryDecide, disk
      <4>3. CASE th[t].d = NoDecision /\ Accepts(rt[Target(t)], th[t].d)
        BY <4>3 DEF Accepts, Valid, ValidRequest, ActionAllowedInPhase, NoDecision
      <4>4. QED BY <4>1, <4>2, <4>3
    <3>2. CASE Freeze(t)
      BY <3>2 DEF Freeze, disk
    <3>3. CASE Send(t)
      <4>1. rt[Target(t)].chosen \in Decision \cup {NoDecision} /\ Target(t) \in Which
        BY TargetType DEF Runtime
      <4>2. QED BY <3>3, <4>1 DEF Send, disk
    <3>4. QED BY <2>7, <3>1, <3>2, <3>3 DEF Decide
  <2>8. CASE Main
    <3>1. ASSUME NEW w \in Which, NEW next, Receive(w, next),
                 next \in {"execute", "outcome"}
          PROVE  TypeOK'
      BY <3>1 DEF Receive, disk
    <3>2. CASE Select
      <4>1. CASE \E w \in Which : Receive(w, "execute")
        BY <4>1, <3>1
      <4>2. CASE /\ main' = "pollDone"
                 /\ UNCHANGED <<poll, sources, held, executed, exit, setup, disk>>
        BY <4>2 DEF sources, disk
      <4>3. QED BY <3>2, <4>1, <4>2 DEF Select
    <3>3. ASSUME NEW w \in Which, NEW from, NEW to, CompletePhase(from, w, to),
                 to \in {"phases", "grace"}
          PROVE  TypeOK'
      <4>1. InPhase(rt[w], "complete") \in Runtime
        BY RuntimeUpdates DEF Phase
      <4>2. QED BY <3>3, <4>1 DEF CompletePhase, disk
    <3>4. CASE Grace
      <4>1. CASE \E w \in Which : Receive(w, "outcome")
        BY <4>1, <3>1
      <4>2. CASE /\ main' = "outcome"
                 /\ UNCHANGED <<poll, sources, held, executed, exit, setup, disk>>
        BY <4>2 DEF sources, disk
      <4>3. QED BY <3>4, <4>1, <4>2 DEF Grace
    <3>5. CASE Outcome
      <4>1. /\ attested' \in {"none", "reviewed", "skipped", "vouched"}
            /\ ledger' \subseteq {"reviewed", "vouched"}
            /\ failed' \in BOOLEAN
        BY <3>5 DEF Outcome, RecordAndAttest, RecordFails, Attest
      <4>2. /\ main' \in {"execute", "final"}
            /\ UNCHANGED <<poll, sources, held, executed, exit, msgFile, pushFlag, setup>>
        BY <3>5 DEF Outcome
      <4>3. QED BY <4>1, <4>2 DEF sources
    <3>6. CASE Final
      <4>1. /\ attested' \in {"none", "reviewed", "skipped", "vouched"}
            /\ failed' \in BOOLEAN
            /\ main' \in {"finalwait", "done"}
            /\ exit' \in {exit, "error"}
        BY <3>6 DEF Final, Attest
      <4>2. UNCHANGED <<poll, sources, held, executed, setup, ledger, msgFile, pushFlag>>
        BY <3>6 DEF Final
      <4>3. QED BY <4>1, <4>2 DEF sources
    <3>7. CASE FinalWait
      BY <3>7, <3>1 DEF FinalWait, Which
    <3>8. CASE Execute
      <4>1. FinalMessage \in Msg
        BY SetupAssumption DEF FinalMessage, Decision
      <4>2. held.push \in BOOLEAN
        BY DEF Decision
      <4>3. CASE ExecuteAbort \/ ExecuteHandoff
        BY <4>3 DEF ExecuteAbort, ExecuteHandoff, Ends, sources, disk
      <4>4. CASE ExecuteCommit
        BY <4>1, <4>2, <4>4 DEF ExecuteCommit, Ends, sources, disk
      <4>5. CASE ExecuteSkip
        BY <4>5, BlankAssumption DEF ExecuteSkip, Attest, Proceed, Ends, sources, disk
      <4>6. CASE ExecuteVouch
        BY <4>6, BlankAssumption
           DEF ExecuteVouch, RecordAndAttest, RecordFails, Attest, Proceed, Ends, sources, disk
      <4>7. QED BY <3>8, <4>3, <4>4, <4>5, <4>6 DEF Execute
    <3>9. QED BY <2>8, <3>2, <3>3, <3>4, <3>5, <3>6, <3>7, <3>8 DEF Main, Which
  <2>9. CASE UNCHANGED vars
    BY <2>9 DEF vars
  <2>10. QED BY <2>1, <2>2, <2>3, <2>4, <2>5, <2>6, <2>7, <2>8, <2>9 DEF Next
<1>3. QED BY <1>1, <1>2, PTL DEF Spec

-----------------------------------------------------------------------------
(* The inductive invariant *)

Won == {"freeze", "send", "ok"}

Proper(d) == d \in Decision /\ (d.push => d.code = "commit")

\* A decision travels from a source's goroutine to its runtime, to the channel
\* and to main; each place holds what the runtime chose.
FlightInv ==
  /\ \A t \in Thread : th[t].at \in Won \cup {"try"} => Proper(th[t].d)
  /\ \A t \in Thread : th[t].at \in Won => rt[Target(t)].chosen = th[t].d
  /\ \A t, u \in Thread :
       t # u /\ Target(t) = Target(u) /\ th[t].at \in Won => th[u].at \notin Won
  /\ \A w \in Which : rt[w].chosen # NoDecision => Proper(rt[w].chosen)
  /\ \A w \in Which : box[w] # NoDecision => box[w] = rt[w].chosen
  /\ held # NoDecision => \E w \in Which : held = rt[w].chosen

\* Whoever has passed Freeze, or waits to be acted on, finds the draft frozen.
FreezeInv ==
  /\ \A t \in Thread : th[t].at \in {"send", "ok"} => frozen
  /\ \A w \in Which : box[w] # NoDecision => frozen
  /\ held # NoDecision => frozen

\* The complete phase begins after the poll, and so do the decisions it allows.
PhaseInv ==
  /\ main \notin {"select", "execute", "done"} => poll # "running"
  /\ \A w \in Which :
       rt[w].phase = "complete" => poll # "running" /\ main \notin {"select", "pollDone"}
  /\ \A w \in Which : rt[w].chosen.code \in {"commit", "handoff"}
       => poll # "running" /\ main \notin {"select", "pollDone"}

\* What has been written when a commit may be let through.
AttestInv ==
  /\ main \in {"final", "finalwait"} => attested # "none" \/ failed
  /\ main = "execute" /\ held.code \in {"commit", "handoff"} => attested # "none" \/ failed
  /\ main # "done" => exit = "none"
  /\ LetThroughIsAttested
  /\ VouchIsRecorded
  /\ PushAsDecided

\* What a source that submits may do to the threads.
Submits ==
  \A t \in Thread :
    \/ th'[t] = th[t]
    \/ th[t].at = "idle" /\ th'[t].at = "try" /\ Proper(th'[t].d)

\* Submitting a proper decision is all that Submit does to the threads.
LEMMA SubmitSubmits ==
  ASSUME th \in ThreadStates, NEW t \in Thread, NEW d, Proper(d), Submit(t, d)
  PROVE  Submits
BY DEF Submit, Submits, ThreadStates

\* Every step either submits decisions, or is a step of one submitted decision,
\* or leaves the threads and what the runtimes chose alone.
LEMMA StepKinds ==
  ASSUME TypeOK, [Next]_vars
  PROVE  \/ Submits /\ UNCHANGED <<main, poll, rt, box, held, executed, exit, disk>>
         \/ \E t \in Thread : Decide(t)
         \/ PollEnds \/ Main \/ UNCHANGED vars
<1> USE DEF TypeOK
<1>0. th \in ThreadStates
  BY DEF ThreadStates
<1>1. CASE Edit
  BY <1>1 DEF Edit, Submits
<1>2. CASE Prompt1
  <2>1. PICK d : Proper(d) /\ Submit("tui1", d)
    BY <1>2 DEF Prompt1, Decision, Source, Code, Proper
  <2>2. Submits
    BY <1>0, <2>1, SubmitSubmits DEF Thread
  <2>3. QED BY <1>2, <2>2 DEF Prompt1
<1>3. CASE Prompt2
  <2>1. PICK d : Proper(d) /\ Submit("tui2", d)
    BY <1>3 DEF Prompt2, Decision, Source, Code, Proper
  <2>2. Submits
    BY <1>0, <2>1, SubmitSubmits DEF Thread
  <2>3. QED BY <1>3, <2>2 DEF Prompt2
<1>4. CASE Interrupt
  <2>1. Proper(Abort("signal"))
    BY DecisionFacts DEF Proper, Source, Abort
  <2>2. Submits
    BY <1>4, <2>1 DEF Interrupt, Submits
  <2>3. QED BY <1>4, <2>2 DEF Interrupt
<1>5. ASSUME NEW q \in Req, Request(q)
      PROVE  Submits /\ UNCHANGED <<main, poll, rt, box, held, executed, exit, disk>>
  <2>1. PICK d : Proper(d) /\ Submit(q, d)
    BY <1>5 DEF Request, Decision, Source, Code, Proper
  <2>2. Submits
    BY <1>0, <2>1, SubmitSubmits DEF Thread
  <2>3. QED BY <1>5, <2>2 DEF Request
<1>6. QED BY <1>1, <1>2, <1>3, <1>4, <1>5 DEF Next

\* Main never touches a source's goroutine, chooses nothing and keeps the draft as
\* it is; it takes decisions out of the channels.
LEMMA MainSteps ==
  ASSUME TypeOK, Main
  PROVE  /\ UNCHANGED <<th, frozen, draft, poll>>
         /\ \A w \in Which : rt'[w].chosen = rt[w].chosen
         /\ \A w \in Which : box'[w] \in {box[w], NoDecision}
         /\ held' = held \/ \E w \in Which : box[w] # NoDecision /\ held' = box[w]
<1> USE DEF TypeOK
<1>1. ASSUME NEW w \in Which, NEW next, Receive(w, next)
      PROVE  /\ UNCHANGED <<th, frozen, draft, poll, rt>>
             /\ \A v \in Which : box'[v] \in {box[v], NoDecision}
             /\ box[w] # NoDecision /\ held' = box[w]
  BY <1>1 DEF Receive
<1>2. CASE Select \/ Grace \/ FinalWait
  BY <1>1, <1>2 DEF Select, Grace, FinalWait, sources, Which
<1>3. ASSUME NEW w \in Which, NEW from, NEW to, CompletePhase(from, w, to)
      PROVE  /\ UNCHANGED <<th, frozen, draft, poll, box, held>>
             /\ \A v \in Which : rt'[v].chosen = rt[v].chosen
  BY <1>3, RuntimeUpdates DEF CompletePhase, Phase
<1>4. CASE Outcome \/ Final \/ Execute
  BY <1>4 DEF Outcome, Final, Execute, ExecuteAbort, ExecuteCommit, ExecuteSkip, ExecuteVouch,
              ExecuteHandoff, Proceed, Ends, sources
<1>5. QED BY <1>2, <1>3, <1>4 DEF Main, Which

\* A runtime's choice, once made, is never changed.
LEMMA ChoiceStays ==
  ASSUME TypeOK, FlightInv, [Next]_vars, NEW w \in Which, rt[w].chosen # NoDecision
  PROVE  rt'[w].chosen = rt[w].chosen
<1>1. ASSUME NEW t \in Thread, Decide(t) PROVE rt'[w].chosen = rt[w].chosen
  <2>1. CASE TryDecide(t)
    BY <2>1, TargetType DEF TryDecide, Accepts, TypeOK
  <2>2. CASE Freeze(t) \/ Send(t)
    BY <2>2 DEF Freeze, Send
  <2>3. QED BY <1>1, <2>1, <2>2 DEF Decide
<1>2. QED BY <1>1, StepKinds, MainSteps DEF PollEnds, sources, vars

\* No step thaws the draft or changes a frozen one.
LEMMA FrozenStays ==
  ASSUME TypeOK, [Next]_vars, frozen
  PROVE  frozen' /\ draft' = draft
<1>1. CASE Edit \/ Prompt1 \/ Prompt2 \/ Interrupt \/ PollEnds
  BY <1>1 DEF Edit, Update, Prompt1, Prompt2, Interrupt, PollEnds, sources
<1>2. ASSUME NEW q \in Req, Request(q) PROVE frozen' /\ draft' = draft
  BY <1>2 DEF Request, Update
<1>3. ASSUME NEW t \in Thread, Decide(t) PROVE frozen' /\ draft' = draft
  BY <1>3 DEF Decide, TryDecide, Freeze, Send
<1>4. CASE Main
  BY <1>4, MainSteps
<1>5. CASE UNCHANGED vars
  BY <1>5 DEF vars
<1>6. QED BY <1>1, <1>2, <1>3, <1>4, <1>5 DEF Next

\* Decisions reach main as their runtimes chose them.
THEOREM SessionFlight == Spec => []FlightInv
<1>1. Init => FlightInv
  BY DEF Init, FlightInv, NewRuntime, Won
<1>2. TypeOK /\ FlightInv /\ [Next]_vars => FlightInv'
  <2> SUFFICES ASSUME TypeOK, FlightInv, [Next]_vars PROVE FlightInv'
    OBVIOUS
  <2>1. CASE Submits /\ UNCHANGED <<main, poll, rt, box, held, executed, exit, disk>>
    BY <2>1 DEF Submits, FlightInv, Won
  <2>2. ASSUME NEW t \in Thread, Decide(t) PROVE FlightInv'
    <3> USE TargetType
    <3>1. CASE TryDecide(t) /\ Accepts(rt[Target(t)], th[t].d)
      <4> DEFINE d == th[t].d
      <4> DEFINE w == Target(t)
      <4>1. /\ Proper(d) /\ w \in Which /\ rt[w].chosen = NoDecision
            /\ UNCHANGED <<box, held>>
        BY <3>1 DEF TryDecide, FlightInv, Accepts
      <4>2. /\ rt'[w].chosen = d
            /\ \A v \in Which \ {w} : rt'[v] = rt[v]
        BY <3>1, <4>1, RuntimeUpdates DEF TryDecide, TypeOK, Proper
      <4>3. /\ th'[t].at = "freeze" /\ th'[t].d = d
            /\ \A u \in Thread \ {t} : th'[u] = th[u]
        BY <3>1 DEF TryDecide, TypeOK
      <4>4. \A u \in Thread : Target(u) = w => th[u].at \notin Won
        BY <4>1, DecisionFacts DEF FlightInv, Proper
      <4>5. \A v \in Which : rt[v].chosen # NoDecision => rt'[v].chosen = rt[v].chosen
        BY <4>1, <4>2
      <4>6. \A u \in Thread : th'[u].at \in Won \cup {"try"} => Proper(th'[u].d)
        BY <4>1, <4>3 DEF FlightInv
      <4>7. \A u \in Thread : th'[u].at \in Won => rt'[Target(u)].chosen = th'[u].d
        BY <4>2, <4>3, <4>4 DEF FlightInv
      <4>8. \A u, v \in Thread :
              u # v /\ Target(u) = Target(v) /\ th'[u].at \in Won => th'[v].at \notin Won
        BY <4>3, <4>4 DEF FlightInv
      <4>9. \A v \in Which : rt'[v].chosen # NoDecision => Proper(rt'[v].chosen)
        BY <4>1, <4>2 DEF FlightInv
      <4>10. \A v \in Which : box'[v] # NoDecision => box'[v] = rt'[v].chosen
        BY <4>1, <4>5 DEF FlightInv
      <4>11. held' # NoDecision => \E v \in Which : held' = rt'[v].chosen
        BY <4>1, <4>5 DEF FlightInv
      <4> HIDE DEF d, w
      <4>12. QED BY <4>6, <4>7, <4>8, <4>9, <4>10, <4>11 DEF FlightInv
    <3>2. CASE TryDecide(t) /\ ~Accepts(rt[Target(t)], th[t].d)
      BY <3>2 DEF TryDecide, FlightInv, TypeOK, Won
    <3>3. CASE Freeze(t)
      BY <3>3 DEF Freeze, FlightInv, TypeOK, Won
    <3>4. CASE Send(t)
      BY <3>4 DEF Send, FlightInv, TypeOK, Won
    <3>5. QED BY <2>2, <3>1, <3>2, <3>3, <3>4 DEF Decide
  <2>3. CASE Main
    <3>1. /\ UNCHANGED th
          /\ \A w \in Which : rt'[w].chosen = rt[w].chosen
          /\ \A w \in Which : box'[w] \in {box[w], NoDecision}
          /\ held' = held \/ \E w \in Which : box[w] # NoDecision /\ held' = box[w]
      BY <2>3, MainSteps
    <3>2. \A t \in Thread : th[t].at \in Won => rt'[Target(t)].chosen = th[t].d
      BY <3>1, TargetType DEF FlightInv
    <3>3. held' # NoDecision => \E w \in Which : held' = rt'[w].chosen
      BY <3>1 DEF FlightInv
    <3>4. \A w \in Which : rt'[w].chosen # NoDecision => Proper(rt'[w].chosen)
      BY <3>1 DEF FlightInv
    <3>5. \A w \in Which : box'[w] # NoDecision => box'[w] = rt'[w].chosen
      BY <3>1 DEF FlightInv
    <3>6. QED BY <3>1, <3>2, <3>3, <3>4, <3>5 DEF FlightInv
  <2>4. CASE PollEnds \/ UNCHANGED vars
    BY <2>4 DEF PollEnds, sources, vars, FlightInv
  <2>5. QED BY <2>1, <2>2, <2>3, <2>4, StepKinds
<1>3. QED BY <1>1, <1>2, SessionTypes, PTL DEF Spec

\* Whatever main acts on was accepted by a runtime, and a runtime accepts once: no
\* two clients are told that their decisions were taken.
THEOREM SessionOneWinner == Spec => []OneWinnerPerRuntime
<1>1. FlightInv => OneWinnerPerRuntime
  BY DEF FlightInv, OneWinnerPerRuntime, Won
<1>2. QED BY <1>1, SessionFlight, PTL

\* A decision is acted on behind a frozen draft.
THEOREM SessionFreezes == Spec => [](FreezeInv /\ DraftFrozenOnAction)
<1>1. Init => FreezeInv
  BY DEF Init, FreezeInv
<1>2. TypeOK /\ FreezeInv /\ [Next]_vars => FreezeInv'
  <2> SUFFICES ASSUME TypeOK, FreezeInv, [Next]_vars PROVE FreezeInv'
    OBVIOUS
  <2>1. CASE Submits /\ UNCHANGED <<main, poll, rt, box, held, executed, exit, disk>>
    <3>1. frozen => frozen'
      BY FrozenStays
    <3>2. QED BY <2>1, <3>1 DEF Submits, FreezeInv
  <2>2. ASSUME NEW t \in Thread, Decide(t) PROVE FreezeInv'
    <3>1. CASE TryDecide(t)
      BY <3>1 DEF TryDecide, FreezeInv, TypeOK
    <3>2. CASE Freeze(t)
      BY <3>2 DEF Freeze, FreezeInv, TypeOK
    <3>3. CASE Send(t)
      BY <3>3 DEF Send, FreezeInv, TypeOK
    <3>4. QED BY <2>2, <3>1, <3>2, <3>3 DEF Decide
  <2>3. CASE Main
    BY <2>3, MainSteps DEF FreezeInv
  <2>4. CASE PollEnds \/ UNCHANGED vars
    BY <2>4 DEF PollEnds, sources, vars, FreezeInv
  <2>5. QED BY <2>1, <2>2, <2>3, <2>4, StepKinds
<1>3. FreezeInv => DraftFrozenOnAction
  BY DEF FreezeInv, DraftFrozenOnAction
<1>4. QED BY <1>1, <1>2, <1>3, SessionTypes, PTL DEF Spec

\* What main acts on leaves the draft as it is, for everybody and for good: by the time main
\* holds a decision the draft is frozen, and no step of any actor thaws or changes it then.
THEOREM SessionTakenDraft == Spec => TakenDraftStays
<1>1. TypeOK /\ DraftFrozenOnAction /\ [Next]_vars => [held # NoDecision => frozen' /\ draft' = draft]_vars
  BY FrozenStays DEF DraftFrozenOnAction
<1>2. QED BY <1>1, SessionTypes, SessionFreezes, PTL DEF Spec, TakenDraftStays

\* What the runtimes accepted for the complete phase comes after the poll, however
\* TryDecide interleaves with the two SetPhase calls.
THEOREM SessionPhases == Spec => [](PhaseInv /\ CommitAfterReview)
<1>1. Init => PhaseInv
  BY DEF Init, PhaseInv, NewRuntime, NoDecision
<1>2. TypeOK /\ PhaseInv /\ [Next]_vars => PhaseInv'
  <2> SUFFICES ASSUME TypeOK, PhaseInv, [Next]_vars PROVE PhaseInv'
    OBVIOUS
  <2>1. CASE Submits /\ UNCHANGED <<main, poll, rt, box, held, executed, exit, disk>>
    BY <2>1 DEF PhaseInv
  <2>2. ASSUME NEW t \in Thread, Decide(t) PROVE PhaseInv'
    <3>1. CASE TryDecide(t) /\ Accepts(rt[Target(t)], th[t].d)
      <4>1. Target(t) \in Which /\ UNCHANGED <<main, poll>>
        BY <3>1, TargetType DEF TryDecide
      <4>2. th[t].d.code \in {"commit", "handoff"} => rt[Target(t)].phase = "complete"
        BY <3>1 DEF Accepts, Valid, ValidRequest, ActionAllowedInPhase
      <4>3. \A w \in Which : /\ rt'[w].phase = rt[w].phase
                              /\ rt'[w].chosen \in {rt[w].chosen} \cup
                                   (IF w = Target(t) THEN {th[t].d} ELSE {})
        BY <3>1, <4>1 DEF TryDecide, Decided, TypeOK, Runtime
      <4>4. QED BY <4>1, <4>2, <4>3 DEF PhaseInv
    <3>2. CASE TryDecide(t) /\ ~Accepts(rt[Target(t)], th[t].d)
      BY <3>2 DEF TryDecide, PhaseInv
    <3>3. CASE Freeze(t) \/ Send(t)
      BY <3>3 DEF Freeze, Send, PhaseInv
    <3>4. QED BY <2>2, <3>1, <3>2, <3>3 DEF Decide
  <2>3. CASE Main
    <3>1. UNCHANGED poll
      BY <2>3, MainSteps
    <3>2. CASE Select \/ Grace \/ FinalWait \/ Outcome \/ Final \/ Execute
      <4>1. UNCHANGED rt /\ (main \notin {"select", "pollDone"} => main' \notin {"select", "pollDone"})
        BY <3>2 DEF Select, Grace, FinalWait, Outcome, Final, Execute, Receive, sources,
           ExecuteAbort, ExecuteCommit, ExecuteSkip, ExecuteVouch, ExecuteHandoff, Proceed, Ends
      <4>2. main' \notin {"select", "execute", "done"} => poll # "running"
        BY <3>2 DEF Select, Grace, FinalWait, Outcome, Final, Execute, Receive, PhaseInv,
           ExecuteAbort, ExecuteCommit, ExecuteSkip, ExecuteVouch, ExecuteHandoff, Proceed, Ends
      <4>3. QED BY <3>1, <4>1, <4>2 DEF PhaseInv
    <3>3. ASSUME NEW w \in Which, NEW from, NEW to, CompletePhase(from, w, to),
                 from \in {"pollDone", "phases"}, to \in {"phases", "grace"}
          PROVE  PhaseInv'
      <4>1. \A v \in Which : rt'[v].chosen = rt[v].chosen
        BY <3>3, RuntimeUpdates DEF CompletePhase, Phase, TypeOK
      <4>2. poll # "running" /\ main' \in {"phases", "grace"}
        BY <3>3 DEF CompletePhase, PhaseInv
      <4>3. QED BY <3>1, <4>1, <4>2 DEF PhaseInv
    <3>4. QED BY <2>3, <3>2, <3>3 DEF Main, Which
  <2>4. CASE PollEnds \/ UNCHANGED vars
    BY <2>4 DEF PollEnds, sources, vars, PhaseInv
  <2>5. QED BY <2>1, <2>2, <2>3, <2>4, StepKinds
<1>3. FlightInv /\ PhaseInv => CommitAfterReview
  BY DEF FlightInv, PhaseInv, CommitAfterReview, NoDecision
<1>4. QED BY <1>1, <1>2, <1>3, SessionTypes, SessionFlight, PTL DEF Spec

\* A step other than main's leaves what has been written, and main, alone.
LEMMA OnlyMainWrites ==
  ASSUME TypeOK, [Next]_vars, ~Main
  PROVE  UNCHANGED <<main, held, executed, exit, attested, ledger, failed, msgFile, pushFlag>>
<1>1. ASSUME NEW t \in Thread, Decide(t)
      PROVE  UNCHANGED <<main, held, executed, exit, disk>>
  BY <1>1 DEF Decide, TryDecide, Freeze, Send
<1>2. CASE PollEnds \/ UNCHANGED vars
  BY <1>2 DEF PollEnds, vars, disk
<1>3. QED BY <1>1, <1>2, StepKinds DEF disk

\* By where main is, what it has attested and written: the three results at once, since
\* they are of one induction.
LEMMA SessionResults == Spec => [](LetThroughIsAttested /\ VouchIsRecorded /\ PushAsDecided)
<1>1. Init => AttestInv
  BY DEF Init, AttestInv, LetThroughIsAttested, VouchIsRecorded, PushAsDecided
<1>2. TypeOK /\ FlightInv /\ PhaseInv /\ AttestInv /\ [Next]_vars => AttestInv'
  <2> SUFFICES ASSUME TypeOK, FlightInv, PhaseInv, AttestInv, [Next]_vars PROVE AttestInv'
    OBVIOUS
  <2> USE DEF LetThroughIsAttested, VouchIsRecorded, PushAsDecided
  <2>1. CASE ~Main
    BY <2>1, OnlyMainWrites DEF AttestInv
  <2>2. CASE Select
    <3>1. ASSUME NEW w \in Which, Receive(w, "execute"), main = "select" PROVE AttestInv'
      <4>1. held'.code \notin {"commit", "handoff"}
        BY <3>1 DEF Receive, FlightInv, PhaseInv
      <4>2. QED BY <3>1, <4>1 DEF Receive, AttestInv, disk
    <3>2. CASE main' = "pollDone" /\ UNCHANGED <<poll, sources, held, executed, exit, setup, disk>>
      BY <2>2, <3>2 DEF Select, AttestInv, disk
    <3>3. QED BY <2>2, <3>1, <3>2 DEF Select
  <2>3. ASSUME NEW w \in Which, NEW from, NEW to, CompletePhase(from, w, to),
               from \in {"pollDone", "phases"}, to \in {"phases", "grace"}
        PROVE  AttestInv'
    BY <2>3 DEF CompletePhase, AttestInv, disk
  <2>4. CASE Grace
    BY <2>4 DEF Grace, Receive, AttestInv, disk
  <2>5. CASE Outcome
    <3>1. attested' # "none" \/ failed'
      BY <2>5 DEF Outcome, RecordAndAttest, RecordFails, Attest
    <3>2. QED BY <2>5, <3>1 DEF Outcome, AttestInv
  <2>6. CASE Final
    BY <2>6 DEF Final, Attest, AttestInv
  <2>7. CASE FinalWait
    BY <2>7 DEF FinalWait, Receive, AttestInv, Which, disk
  <2>8. CASE Execute
    <3> USE DEF Ends, AttestInv, disk
    <3>1. CASE ExecuteAbort \/ ExecuteHandoff
      BY <2>8, <3>1 DEF ExecuteAbort, ExecuteHandoff, Execute
    <3>2. CASE ExecuteCommit
      BY <2>8, <3>2 DEF ExecuteCommit, Execute
    <3>3. held # NoDecision => (held.push => held.code = "commit")
      BY DEF FlightInv, Proper
    <3>4. held.code \in {"skip", "vouch"} => held.push = FALSE
      BY <3>3, DecisionFacts DEF TypeOK, Decision
    <3>5. CASE ExecuteSkip
      <4>1. CASE Ends("error")
        BY <4>1
      <4>2. CASE Attest("skipped") /\ Proceed /\ UNCHANGED <<ledger, failed>>
        <5>1. attested' # "none"
          BY <4>2 DEF Attest
        <5>2. QED BY <2>8, <3>4, <3>5, <4>2, <5>1 DEF ExecuteSkip, Proceed
      <4>3. QED BY <3>5, <4>1, <4>2 DEF ExecuteSkip
    <3>6. CASE ExecuteVouch
      <4>1. CASE Ends("error")
        BY <4>1
      <4>2. CASE RecordAndAttest("vouched") /\ Proceed
        <5>1. attested' # "none" /\ ("vouched" \in ledger' \/ failed')
          BY <4>2 DEF RecordAndAttest, Attest
        <5>2. QED BY <2>8, <3>4, <3>6, <4>2, <5>1 DEF ExecuteVouch, Proceed
      <4>3. QED BY <3>6, <4>1, <4>2 DEF ExecuteVouch
    <3>7. QED BY <2>8, <3>1, <3>2, <3>5, <3>6 DEF Execute
  <2>9. QED BY <2>1, <2>2, <2>3, <2>4, <2>5, <2>6, <2>7, <2>8 DEF Main, Which
<1>3. AttestInv => LetThroughIsAttested /\ VouchIsRecorded /\ PushAsDecided
  BY DEF AttestInv
<1>4. QED BY <1>1, <1>2, <1>3, SessionTypes, SessionFlight, SessionPhases, PTL DEF Spec

\* A commit is let through with the tree attested (unless a write failed), and a vouch
\* with its entry in the ledger.
THEOREM SessionAttests == Spec => [](LetThroughIsAttested /\ VouchIsRecorded)
<1>1. LetThroughIsAttested /\ VouchIsRecorded /\ PushAsDecided => LetThroughIsAttested /\ VouchIsRecorded
  OBVIOUS
<1>2. QED BY <1>1, SessionResults, PTL

\* A push request on disk when main lets a commit through is the one that was decided on,
\* whatever an earlier session left there.
THEOREM SessionPush == Spec => []PushAsDecided
<1>1. LetThroughIsAttested /\ VouchIsRecorded /\ PushAsDecided => PushAsDecided
  OBVIOUS
<1>2. QED BY <1>1, SessionResults, PTL

=============================================================================
