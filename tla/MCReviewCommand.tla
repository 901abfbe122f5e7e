--------------------------- MODULE MCReviewCommand ---------------------------
(* Small instances of ReviewCommand for TLC. *)
EXTENDS ReviewCommand

CONSTANTS p1, q1, e1

\* A command without clients that edit, and without a draft to speak of.
Start(way, serve, force, score, found) ==
  [way |-> way, serve |-> serve, force |-> force, score |-> score, fake |-> FALSE,
   tree |-> found, initial |-> {}, edits |-> {}, editing |-> {}, following |-> {}]

\* Each way once, with what can go wrong in it; then a tab that edits the draft of a
\* blocking review, one that only follows it, and a tab and the prompt that edit the draft of an interactive one.
MCSetup ==
  {Start("skip", FALSE, FALSE, FALSE, "reviewed"), Start("vouch", FALSE, FALSE, FALSE, "none"),
   Start("agent", FALSE, TRUE, TRUE, "skipped"), Start("plain", FALSE, FALSE, TRUE, "none"),
   Start("plain", FALSE, FALSE, FALSE, "reviewed"),
   Start("history", TRUE, FALSE, TRUE, "none"), Start("history", FALSE, FALSE, FALSE, "none"),
   [Start("blocking", TRUE, TRUE, TRUE, "vouched") EXCEPT !.initial = {e1}],
   [Start("blocking", TRUE, FALSE, FALSE, "none")
      EXCEPT !.edits = {e1}, !.editing = {p1}, !.fake = TRUE],
   [Start("blocking", TRUE, FALSE, FALSE, "none") EXCEPT !.following = {p1}, !.fake = TRUE],
   [Start("interactive", FALSE, FALSE, FALSE, "none")
      EXCEPT !.edits = {e1}, !.editing = {p1, "tui"}, !.following = {"tui"}]}
=============================================================================
