----------------------------- MODULE MCCoverage -----------------------------
(* Small instances of Coverage for TLC. *)
EXTENDS Coverage, TLC

CONSTANTS app, spaced, word, main, topic

\* One file with room for a line no hunk reaches, and one of a single line with a space in its
\* name, of which lrc reads the first word.
MCTree == (app :> <<1, 2, 3>>) @@ (spaced :> <<>>)
MCWord == (app :> app) @@ (spaced :> word)
MCCap == [lines |-> 5, sessions |-> 2, commits |-> 3, faults |-> 1]
MCBelow == [lines |-> 5, sessions |-> 2, commits |-> 2, faults |-> 0]
=============================================================================
