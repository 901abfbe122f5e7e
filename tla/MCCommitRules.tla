---------------------------- MODULE MCCommitRules ----------------------------
(* What README.md says of commits made through the hooks, for a run of its own. *)
EXTENDS MCCommitHooks

\* "Your team sees exactly which commits were reviewed, vouched, or skipped" (README.md:374):
\* the tree an attestation of a review is filed under is one whose diff a review was given.
AttestedWasReviewed == \A t \in Tree : attest[t] = "reviewed" => t \in looked
=============================================================================
