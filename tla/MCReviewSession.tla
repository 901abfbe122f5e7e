--------------------------- MODULE MCReviewSession ---------------------------
(* Small instances of ReviewSession for TLC. *)
EXTENDS ReviewSession

CONSTANTS q1, m1

MCSetup == {[submitted |-> TRUE, defer |-> TRUE, initial |-> Blank, stale |-> TRUE],
            [submitted |-> FALSE, defer |-> FALSE, initial |-> m1, stale |-> FALSE]}

MCHookSetup == {[submitted |-> TRUE, defer |-> TRUE, initial |-> Blank, stale |-> FALSE]}
=============================================================================
