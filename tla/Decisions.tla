------------------------------ MODULE Decisions ------------------------------
(***************************************************************************)
(* Review decisions and the runtime that arbitrates them: which decision is *)
(* allowed in which phase, and "first valid decision wins" as an operation  *)
(* on a runtime [phase, chosen].  Each operation is one critical section of *)
(* the runtime's mutex in the code.                                         *)
(***************************************************************************)
CONSTANTS
  Msg,      \* commit messages
  Blank     \* the message that is empty after trimming

ASSUME BlankAssumption == Blank \in Msg

Code == {"commit", "abort", "skip", "vouch", "handoff"}
Source == {"terminal", "web", "signal"}
Phase == {"running", "complete"}

Decision == [source : Source, code : Code, msg : Msg, push : BOOLEAN]

\* The chosen decision of an unresolved runtime; an empty channel.
NoDecision == [source |-> "none", code |-> "none", msg |-> Blank, push |-> FALSE]

Runtime == [phase : Phase, chosen : Decision \cup {NoDecision}]

NewRuntime(phase) == [phase |-> phase, chosen |-> NoDecision]

Abort(source) == [source |-> source, code |-> "abort", msg |-> Blank, push |-> FALSE]

ActionAllowedInPhase(code, phase) ==
  \/ code = "abort"
  \/ code \in {"skip", "vouch"} /\ phase = "running"
  \/ code \in {"commit", "handoff"} /\ phase = "complete"

ValidRequest(d, phase) ==
  /\ ActionAllowedInPhase(d.code, phase)
  /\ d.code = "commit" => d.msg # Blank

\* TryDecide lets skip and vouch pass in both phases, before the phase check.
Valid(d, phase) ==
  \/ phase = "complete" /\ d.code \in {"skip", "vouch"}
  \/ d.source = "web" /\ ValidRequest(d, phase)
  \/ d.source # "web" /\ ActionAllowedInPhase(d.code, phase)

\* Mutant: resolved is not checked, the last decision wins.
AcceptsAgain(r, d) == Valid(d, r.phase)

Accepts(r, d) == r.chosen = NoDecision /\ Valid(d, r.phase)

Decided(r, d) == [r EXCEPT !.chosen = d]

InPhase(r, phase) == [r EXCEPT !.phase = phase]
=============================================================================
