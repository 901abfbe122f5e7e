------------------------------ MODULE Coverage ------------------------------
(***************************************************************************)
(* How much of a diff was already reviewed: the review database            *)
(* (.git/lrc/reviews.db) and the coverage of an attestation.               *)
(* attestation, internal/reviewdb, storage/attestation_review_db_io.go,    *)
(* appcore/attestation_flow.go.                                            *)
(*                                                                         *)
(* A review, a skip or a vouch compares the staged diff with the sessions  *)
(* of its branch, then stores a session of its own.  A commit deletes the  *)
(* sessions of the branch.  Meanwhile the user stages, commits, resets,    *)
(* switches branches and changes what .lrc/ignore excludes.                *)
(*                                                                         *)
(* A file is the sequence of its lines, and every line ever written has a  *)
(* number of its own; an edit keeps the order of the others.  A tree hash  *)
(* is its tree.  Hunks are the line numbers they span on the new side.     *)
(***************************************************************************)
EXTENDS Integers, FiniteSets, Sequences, SequencesExt, FiniteSetsExt, Functions

CONSTANTS
  File, Branch,
  Main,           \* the branch at first
  FirstTree,      \* what is committed and staged at first
  FirstLine,      \* the last line written by then
  Word,           \* the path lrc reads from a file's header in a diff: cut at its first space, or ""
  Context,        \* how many unchanged lines git shows around a change
  InSubdirectory, \* whether lrc is run below the root of the repository
  Ends, Decisions,  \* how a review may end, and what may be decided without one
  Ignorable,      \* the files .lrc/ignore may come to exclude
  Cap             \* bounds: [lines, sessions, commits, faults]

ASSUME CoverageAssumption ==
  /\ Main \in Branch
  /\ FirstTree \in [File -> Seq(Nat)] /\ FirstLine \in Nat
  /\ \A f \in File : \A i, j \in DOMAIN FirstTree[f] :
       FirstTree[f][i] \in 1..FirstLine /\ (FirstTree[f][i] = FirstTree[f][j] => i = j)
  /\ DOMAIN Word = File
  /\ Context \in Nat
  /\ InSubdirectory \in BOOLEAN
  /\ Ends \subseteq {"reviewed", "agent-reviewed", "vouched"}
  /\ Decisions \subseteq {"skipped", "vouched"}

VARIABLES
  commits,        \* of each branch: the trees of its commits, the last is its HEAD
  branch,         \* the branch checked out
  index,          \* the tree that is staged
  ignored,        \* the files .lrc/ignore excludes
  line,           \* numbers the edits, and the lines they write
  sessions,       \* review_sessions: its rows by their id
  asked,          \* the review that is running: what it shows, or NoReview
  attestation,    \* the attestation of the staged tree, or NoAttestation
  rounds,         \* history: reviews and decisions on each branch since its last commit
  unsure,         \* history: the branches with a session that was not stored, or not cleaned up
  faults          \* how many calls have failed

coverageVars == <<commits, branch, index, ignored, line, sessions, asked, attestation, rounds, unsure, faults>>
userVars == <<commits, branch, ignored, line>>

Page(tree, head, without) == [tree |-> tree, head |-> head, without |-> without]
NoPage == Page(FirstTree, FirstTree, {})
NoReview == [page |-> NoPage, entries |-> <<>>]
NoAttestation ==
  [action |-> "none", iterations |-> 0, lines |-> {}, covered |-> {}, tree |-> FirstTree, page |-> NoPage,
   prior |-> {}, sure |-> FALSE]
HEAD == Last(commits[branch])

-----------------------------------------------------------------------------
(* git diff.                                                               *)

\* How many of old's lines up to i are still in new: where, in new, what follows them goes.
Kept(old, new, i) == Cardinality({j \in 1..i : old[j] \in Range(new)})
\* The line of new that line i of old stands behind, when it is gone.
Gap(old, new, i) ==
  LET k == Kept(old, new, i) IN
  IF k = 0 THEN 0
  ELSE CHOOSE p \in DOMAIN new : /\ new[p] \in Range(old)
                                 /\ Cardinality({q \in 1..p : new[q] \in Range(old)}) = k
\* The lines of new in a hunk: those written or next to one, and those around a line that is gone.
ChangedLines(old, new) ==
  {p \in DOMAIN new :
     \/ \E q \in DOMAIN new : new[q] \notin Range(old) /\ p - Context <= q /\ q <= p + Context
     \/ \E i \in DOMAIN old : /\ old[i] \notin Range(new)
                              /\ LET g == Gap(old, new, i) IN g - Context < p /\ p <= g + Context}

\* parseDiffToFiles, filesToEntries: a hunk of 0 lines, of a file that is now empty, counts as line 0.
ShownLines(old, new) == IF new = <<>> THEN {0} ELSE ChangedLines(old, new)
Entries(old, new, without) == [f \in {g \in File \ without : old[g] # new[g]} |-> ShownLines(old[f], new[f])]
\* The file_path of the entries.
Paths(entries) == {Word[f] : f \in DOMAIN entries}
\* CountTotalNewLines counts them.
LinesOf(entries) == UNION {{f} \X entries[f] : f \in DOMAIN entries}

DiffTreeFiles(t1, t2) == {f \in File : t1[f] # t2[f]}
\* Mutant: a range ends before its last line.
EndExclusive(t1, t2, f) == {p \in ChangedLines(t1[f], t2[f]) : p + 1 \in ChangedLines(t1[f], t2[f])}
\* Mutant: the diff between trees is taken without context (-U0).
NoContext(t1, t2, f) == {p \in DOMAIN t2[f] : t2[f][p] \notin Range(t1[f])}
\* `git diff t1 t2 -- path`: git takes the path from the directory lrc is run in.
DiffTreeFileHunks(t1, t2, f) == IF InSubdirectory THEN {} ELSE ChangedLines(t1[f], t2[f])

-----------------------------------------------------------------------------
(* ComputePriorCoverage.                                                   *)

\* Mutant: the ranges of the inter-tree diff are taken from its old side.
OldSideOverlap(s, tree, entries, f) == {p \in entries[f] : p \notin ChangedLines(tree[Word[f]], s.tree[Word[f]])}

\* The lines of a changed file the diff between the two trees does not touch.
MarkOverlappingLines(s, tree, entries, f) == {p \in entries[f] : p \notin DiffTreeFileHunks(s.tree, tree, Word[f])}

\* Files are told apart by the path of their entry, while git names the files that changed: what
\* is not among these is covered, and so is a file whose path was cut to one git does not know.
Marked(s, tree, entries) ==
  UNION {{Word[f]} \X (IF s.tree = tree \/ Word[f] \notin DiffTreeFiles(s.tree, tree) THEN entries[f]
                       ELSE IF Word[f] \in Paths(s.entries) THEN MarkOverlappingLines(s, tree, entries, f)
                       ELSE {}) : f \in DOMAIN entries}

OnBranch(b) == {id \in DOMAIN sessions : sessions[id].branch = b}
GetPriorReviewedSessions(b) ==
  {s \in {sessions[id] : id \in OnBranch(b)} : s.action \in {"reviewed", "agent-reviewed"}}
CountIterations(b) == Cardinality(OnBranch(b))

\* lost: the trees git no longer has; their sessions are skipped with a warning.
ComputePriorCoverage(b, tree, entries, lost) ==
  [iterations |-> CountIterations(b) + 1,
   lines      |-> LinesOf(entries),
   prior      |-> GetPriorReviewedSessions(b),
   covered    |-> UNION {Marked(s, tree, entries) :
                           s \in {r \in GetPriorReviewedSessions(b) : r.tree = tree \/ r.tree \notin lost}}]
NoCoverage == [iterations |-> 1, lines |-> {}, prior |-> {}, covered |-> {}]

\* InsertReviewSession, with an id no row has: page is history, the trees and the ignore rules
\* behind the hunks.
Session(action, page, entries) ==
  [branch |-> branch, tree |-> index, action |-> action, entries |-> entries, page |-> page]
NewID == CHOOSE id \in 1..(Cardinality(DOMAIN sessions) + 1) : id \notin DOMAIN sessions
InsertReviewSession(row) ==
  [id \in DOMAIN sessions \cup {NewID} |-> IF id \in DOMAIN sessions THEN sessions[id] ELSE row]

\* RecordAndComputeCoverage, then the attestation, both of the tree that is staged now.  The
\* coverage may not be computed and the session may not be stored, each for itself, which are only
\* warnings; when the database does not open it is neither.
RecordAndComputeCoverage(action, page, entries, counts, stores, lost) ==
  LET cov == IF counts THEN ComputePriorCoverage(branch, index, entries, lost) ELSE NoCoverage IN
  /\ stores => Cardinality(DOMAIN sessions) < Cap.sessions
  /\ faults' = faults + (IF counts /\ stores /\ lost = {} THEN 0 ELSE 1)
  /\ sessions' = IF stores THEN InsertReviewSession(Session(action, page, entries)) ELSE sessions
  /\ rounds' = [rounds EXCEPT ![branch] = @ + 1]
  /\ unsure' = IF stores THEN unsure ELSE unsure \cup {branch}
  /\ attestation' = [action |-> action, iterations |-> cov.iterations, lines |-> cov.lines,
                     covered |-> cov.covered, tree |-> index, page |-> page, prior |-> cov.prior,
                     sure |-> counts /\ branch \notin unsure]

-----------------------------------------------------------------------------
(* lrc.                                                                    *)

Fails == IF faults < Cap.faults THEN BOOLEAN ELSE {FALSE}
Lost == IF faults < Cap.faults THEN SUBSET {sessions[id].tree : id \in DOMAIN sessions} ELSE {{}}

\* runReviewWithOptions, from the diff to its upload: --force forgets an attestation there is.
StartReview ==
  LET entries == Entries(HEAD, index, ignored) IN
  /\ asked = NoReview
  /\ DOMAIN entries # {}
  /\ asked' = [page |-> Page(index, HEAD, ignored), entries |-> entries]
  /\ attestation' = NoAttestation
  /\ UNCHANGED <<userVars, index, sessions, rounds, unsure, faults>>

\* recordCoverageAndAttest, when the review is complete: the hunks are those of the diff that was
\* uploaded, the tree is the one that is staged by then.
FinishReview ==
  /\ asked # NoReview
  /\ \E action \in Ends, badCount \in Fails, badStore \in Fails, lost \in Lost :
       RecordAndComputeCoverage(action, asked.page, asked.entries, ~badCount, ~badStore, lost)
  /\ asked' = NoReview
  /\ UNCHANGED <<userVars, index>>

\* The review ends without a result, or its session is killed.
AbandonReview ==
  /\ asked # NoReview
  /\ asked' = NoReview
  /\ UNCHANGED <<userVars, index, sessions, attestation, rounds, unsure, faults>>

\* Every file of the diff is ignored: it counts as skipped, and no session is stored.
AllExcluded ==
  /\ asked = NoReview
  /\ {f \in File : HEAD[f] # index[f]} # {} /\ DOMAIN Entries(HEAD, index, ignored) = {}
  /\ attestation' = [NoAttestation EXCEPT !.action = "skipped", !.tree = index]
  /\ UNCHANGED <<userVars, index, sessions, asked, rounds, unsure, faults>>

\* --skip and --vouch: at once, and of the whole diff.
Decide ==
  LET entries == Entries(HEAD, index, {}) IN
  /\ asked = NoReview
  /\ DOMAIN entries # {}
  /\ \E action \in Decisions, badCount \in Fails, badStore \in Fails :
       RecordAndComputeCoverage(action, Page(index, HEAD, {}), entries, ~badCount, ~badStore, {})
  /\ UNCHANGED <<userVars, index, asked>>

-----------------------------------------------------------------------------
(* The user, and the post-commit hook.                                     *)

Staged(f, lines) ==
  /\ index' = [index EXCEPT ![f] = lines]
  /\ attestation' = NoAttestation
  /\ UNCHANGED <<commits, branch, ignored, sessions, asked, rounds, unsure, faults>>

\* git add of a file with one more line, or one line less, or none.
Write(f) ==
  /\ line < Cap.lines
  /\ line' = line + 1
  /\ \E p \in 1..(Len(index[f]) + 1) : Staged(f, InsertAt(index[f], p, line'))
Delete(f) ==
  /\ line < Cap.lines
  /\ line' = line + 1
  /\ \/ \E p \in DOMAIN index[f] : Staged(f, RemoveAt(index[f], p))
     \/ index[f] # <<>> /\ Staged(f, <<>>)

\* Mutant: the sessions of every branch are deleted (CleanupAllSessions).
ForgetAll(b) == <<>>
\* RunReviewDBCleanup.
Cleanup(b) == [id \in DOMAIN sessions \ OnBranch(b) |-> sessions[id]]

\* git commit, and the cleanup of the post-commit hook; a database that does not open is left alone.
Commit ==
  /\ index # HEAD
  /\ FoldFunction(LAMBDA c, n : Len(c) + n, 0, commits) < Cap.commits
  /\ commits' = [commits EXCEPT ![branch] = Append(@, index)]
  /\ \/ sessions' = Cleanup(branch) /\ unsure' = unsure \ {branch} /\ UNCHANGED faults
     \/ faults < Cap.faults /\ faults' = faults + 1 /\ unsure' = unsure \cup {branch} /\ UNCHANGED sessions
  /\ rounds' = [rounds EXCEPT ![branch] = 0]
  /\ attestation' = NoAttestation
  /\ UNCHANGED <<branch, index, ignored, line, asked>>

\* git reset --soft HEAD~1.
ResetSoft ==
  /\ Len(commits[branch]) > 1
  /\ commits' = [commits EXCEPT ![branch] = Front(@)]
  /\ UNCHANGED <<branch, index, ignored, line, sessions, asked, attestation, rounds, unsure, faults>>

\* git switch, with nothing staged.
Switch(b) ==
  /\ b # branch /\ index = HEAD
  /\ branch' = b
  /\ index' = Last(commits[b])
  /\ attestation' = NoAttestation
  /\ UNCHANGED <<commits, ignored, line, sessions, asked, rounds, unsure, faults>>

SetIgnore(f) ==
  /\ ignored' = IF f \in ignored THEN ignored \ {f} ELSE ignored \union {f}
  /\ UNCHANGED <<commits, branch, index, line, sessions, asked, attestation, rounds, unsure, faults>>

-----------------------------------------------------------------------------
CoverageInit ==
  /\ commits = [b \in Branch |-> <<FirstTree>>]
  /\ branch = Main
  /\ index = FirstTree
  /\ ignored = {}
  /\ line = FirstLine
  /\ sessions = <<>>
  /\ asked = NoReview
  /\ attestation = NoAttestation
  /\ rounds = [b \in Branch |-> 0]
  /\ unsure = {}
  /\ faults = 0

CoverageNext ==
  \/ StartReview \/ FinishReview \/ AbandonReview \/ AllExcluded \/ Decide
  \/ \E f \in File : Write(f) \/ Delete(f)
  \/ \E f \in Ignorable : SetIgnore(f)
  \/ Commit \/ ResetSoft
  \/ \E b \in Branch : Switch(b)

CoverageSpec == CoverageInit /\ [][CoverageNext]_coverageVars

-----------------------------------------------------------------------------
(* Properties.                                                             *)

\* The files whose path lrc reads whole, and no other file's as theirs.  All that follows is about
\* them: a line of another file is covered as soon as the branch has a review.
Own == {f \in File : \A g \in File : Word[g] = f <=> g = f}
Covered(f, p) == f \in Own /\ <<f, p>> \in attestation.covered

\* A line counts as covered only if it was in the tree of a review of the branch: what was
\* written after every review is never taken for reviewed (attestation/coverage_helpers.go).
ChangedIsNotCovered ==
  \A f \in File : \A p \in DOMAIN attestation.tree[f] :
    Covered(f, p) => \E s \in attestation.prior : attestation.tree[f][p] \in Range(s.tree[f])

\* As long as HEAD, the ignore rules and the index stand still between the reviews of a branch and
\* what they store, a covered line was in a hunk some review of it showed.
Steady(s) == s.page.tree = s.tree
CoveredWasShown ==
  (/\ Steady(attestation)
   /\ \A s \in attestation.prior :
        /\ Steady(s)
        /\ s.page.head = attestation.page.head /\ s.page.without = attestation.page.without) =>
    \A f \in File : \A p \in DOMAIN attestation.tree[f] :
      Covered(f, p) =>
        \E s \in attestation.prior :
          /\ f \in DOMAIN s.entries
          /\ \E q \in s.entries[f] \ {0} : s.tree[f][q] = attestation.tree[f][p]

\* What a review showed and no edit came near since is covered: lines far from any change are not
\* put before the reviewer's eyes as new (LineInRanges, with the context git adds to a hunk).
Line(lines, p) == IF p \in DOMAIN lines THEN lines[p] ELSE 0
Untouched(old, new, p) ==
  \E q \in DOMAIN old : \A d \in -Context..Context : Line(old, q + d) = Line(new, p + d)
UntouchedIsCovered ==
  (attestation # NoAttestation /\ faults = 0) =>
    \A s \in attestation.prior, f \in Own :
      f \in DOMAIN s.entries /\ s.tree[f] # attestation.tree[f] =>
        \A p \in DOMAIN attestation.tree[f] :
          Untouched(s.tree[f], attestation.tree[f], p) =>
            Covered(f, p) \/ <<f, p>> \notin attestation.lines

\* An iteration is a review or a decision on the branch since its last commit; commits, sessions
\* and failures of other branches do not count, nor does what failed before the branch was last
\* cleaned up (RunReviewDBCleanup).  A round whose own session was not stored still counts itself.
IterationsCountRounds == attestation.sure => attestation.iterations = rounds[branch]
=============================================================================
