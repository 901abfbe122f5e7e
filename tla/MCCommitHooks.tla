--------------------------- MODULE MCCommitHooks ---------------------------
(* Model values for CommitHooks. *)
EXTENDS CommitHooks

AllWays == GitCommit \cup {LrcReview, ClaudeCommit}
\* The two kinds that review in a terminal: git commit, whose hook does, and lrc review.
Reviewers == {[at |-> "pre", tty |-> TRUE, bypass |-> "none"], LrcReview}
=============================================================================
