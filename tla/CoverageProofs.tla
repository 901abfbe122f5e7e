--------------------------- MODULE CoverageProofs ---------------------------
(***************************************************************************)
(* Proofs about Coverage, for any files, branches, trees and context.      *)
(***************************************************************************)
EXTENDS Coverage, SequenceTheorems, FiniteSetTheorems, FunctionTheorems, WellFoundedInduction, TLAPS

Tree == [File -> Seq(Nat)]

\* The trees git holds: every branch has a commit, and lines have numbers.
TreesAreTrees ==
  /\ branch \in Branch
  /\ commits \in [Branch -> Seq(Tree) \ {<<>>}]
  /\ index \in Tree
  /\ line \in Nat

\* What a review shows is about files of the repository.
EntriesAreFiles == DOMAIN asked.entries \subseteq File

LEMMA FirstIsTree == FirstTree \in Tree
BY CoverageAssumption DEF Tree

\* Inserting and removing a line of a file gives a file.
LEMMA InsertIsFile ==
  ASSUME NEW lines \in Seq(Nat), NEW p \in 1..(Len(lines) + 1), NEW l \in Nat
  PROVE  InsertAt(lines, p, l) \in Seq(Nat)
BY DEF InsertAt

LEMMA RemoveIsFile ==
  ASSUME NEW lines \in Seq(Nat), NEW p \in DOMAIN lines
  PROVE  RemoveAt(lines, p) \in Seq(Nat)
BY DEF RemoveAt

LEMMA FrontIsSeq ==
  ASSUME NEW S, NEW s \in Seq(S), Len(s) > 1
  PROVE  Front(s) \in Seq(S) /\ Front(s) # <<>>
<1> DEFINE t == SubSeq(s, 1, Len(s) - 1)
<1>1. t \in Seq(S)
  OBVIOUS
<1>2. Len(t) = Len(s) - 1
  <2>1. Len(s) \in Int /\ Len(s) - 1 \in Int /\ 1 \in Int /\ 1 <= Len(s) - 1
    OBVIOUS
  <2>2. \A i \in 1..(Len(s) - 1) : s[i] \in S
    OBVIOUS
  <2> HIDE DEF t
  <2>3. Len(SubSeq(s, 1, Len(s) - 1)) = Len(s) - 1 - 1 + 1
    BY <2>1, <2>2, SubSeqProperties
  <2> QED BY <2>1, <2>3 DEF t
<1>3. Len(t) # 0 /\ Len(<<>>) = 0
  BY <1>2
<1> HIDE DEF t
<1>4. t # <<>>
  BY <1>3
<1> QED BY <1>1, <1>4 DEF Front, t

LEMMA StagedIsTree ==
  ASSUME index \in Tree, NEW f \in File, NEW lines \in Seq(Nat), Staged(f, lines)
  PROVE  index' \in Tree
BY DEF Staged, Tree

LEMMA HeadIsTree ==
  ASSUME TreesAreTrees, NEW b \in Branch
  PROVE  Last(commits[b]) \in Tree
BY DEF TreesAreTrees, Last

LEMMA EntriesDomain ==
  ASSUME NEW old, NEW new, NEW without
  PROVE  DOMAIN Entries(old, new, without) \subseteq File
BY DEF Entries

LEMMA TreesStep ==
  ASSUME TreesAreTrees, [CoverageNext]_coverageVars
  PROVE  TreesAreTrees'
<1> USE DEF TreesAreTrees
<1>1. CASE StartReview
  BY <1>1 DEF StartReview, userVars
<1>2. CASE FinishReview
  BY <1>2 DEF FinishReview, userVars
<1>3. CASE AbandonReview
  BY <1>3 DEF AbandonReview, userVars
<1>4. CASE AllExcluded \/ Decide
  BY <1>4 DEF AllExcluded, Decide, userVars
<1>5. ASSUME NEW f \in File, Write(f) PROVE TreesAreTrees'
  <2>1. line' \in Nat
    BY <1>5 DEF Write
  <2>2. PICK p \in 1..(Len(index[f]) + 1) : Staged(f, InsertAt(index[f], p, line'))
    BY <1>5 DEF Write
  <2>3. InsertAt(index[f], p, line') \in Seq(Nat)
    BY <2>1, InsertIsFile DEF Tree
  <2>4. index' \in Tree
    BY <2>2, <2>3, StagedIsTree
  <2> QED BY <2>1, <2>2, <2>4 DEF Staged
<1>6. ASSUME NEW f \in File, Delete(f) PROVE TreesAreTrees'
  <2>1. line' \in Nat
    BY <1>6 DEF Delete
  <2>2. PICK lines \in Seq(Nat) : Staged(f, lines)
    <3>1. CASE Staged(f, <<>>)
      <4>1. <<>> \in Seq(Nat)
        OBVIOUS
      <4> WITNESS <<>> \in Seq(Nat)
      <4> QED BY <3>1
    <3>2. CASE \E p \in DOMAIN index[f] : Staged(f, RemoveAt(index[f], p))
      BY <3>2, RemoveIsFile DEF Tree
    <3> QED BY <1>6, <3>1, <3>2 DEF Delete
  <2>3. index' \in Tree
    BY <2>2, StagedIsTree
  <2> QED BY <2>1, <2>2, <2>3 DEF Staged
<1>7. ASSUME NEW f \in Ignorable, SetIgnore(f) PROVE TreesAreTrees'
  BY <1>7 DEF SetIgnore
<1>8. CASE Commit
  <2>1. Append(commits[branch], index) \in Seq(Tree) \ {<<>>}
    OBVIOUS
  <2> QED BY <1>8, <2>1 DEF Commit
<1>9. CASE ResetSoft
  <2>1. Front(commits[branch]) \in Seq(Tree) \ {<<>>}
    BY <1>9, FrontIsSeq DEF ResetSoft
  <2> QED BY <1>9, <2>1 DEF ResetSoft
<1>10. ASSUME NEW b \in Branch, Switch(b) PROVE TreesAreTrees'
  BY <1>10, HeadIsTree DEF Switch
<1>11. CASE UNCHANGED coverageVars
  BY <1>11 DEF coverageVars
<1> QED BY <1>1, <1>2, <1>3, <1>4, <1>5, <1>6, <1>7, <1>8, <1>9, <1>10, <1>11 DEF CoverageNext

LEMMA EntriesStep ==
  ASSUME EntriesAreFiles, [CoverageNext]_coverageVars
  PROVE  EntriesAreFiles'
<1> USE DEF EntriesAreFiles
<1>1. CASE StartReview
  BY <1>1, EntriesDomain DEF StartReview
<1>2. CASE FinishReview \/ AbandonReview
  BY <1>2 DEF FinishReview, AbandonReview, NoReview
<1>3. CASE UNCHANGED asked
  BY <1>3
<1>4. AllExcluded \/ Decide => UNCHANGED asked
  BY DEF AllExcluded, Decide
<1>5. \A f : Write(f) \/ Delete(f) \/ SetIgnore(f) => UNCHANGED asked
  BY DEF Write, Delete, SetIgnore, Staged
<1>6. Commit \/ ResetSoft => UNCHANGED asked
  BY DEF Commit, ResetSoft
<1>7. \A b : Switch(b) => UNCHANGED asked
  BY DEF Switch
<1>8. UNCHANGED coverageVars => UNCHANGED asked
  BY DEF coverageVars
<1> QED BY <1>1, <1>2, <1>3, <1>4, <1>5, <1>6, <1>7, <1>8 DEF CoverageNext

\* The lines the diff between two trees leaves alone are lines of the older one.
LEMMA OutsideIsOld ==
  ASSUME NEW old, NEW new \in Seq(Nat), NEW p \in DOMAIN new, p \notin ChangedLines(old, new)
  PROVE  new[p] \in Range(old)
<1>1. p \in Int /\ p - Context <= p /\ p <= p + Context
  BY CoverageAssumption
<1> QED BY <1>1 DEF ChangedLines

\* The entries of a file with a path of its own are found by that path.
LEMMA OwnPath ==
  ASSUME NEW f \in Own, NEW entries, DOMAIN entries \subseteq File
  PROVE  Word[f] = f /\ f \in File /\ (f \in Paths(entries) <=> f \in DOMAIN entries)
BY DEF Own, Paths

\* What a session covers of such a file are lines of its entry.
LEMMA MarkedIs ==
  ASSUME NEW s, NEW tree, NEW entries, DOMAIN entries \subseteq File,
         NEW f \in Own, NEW p, <<f, p>> \in Marked(s, tree, entries)
  PROVE  /\ f \in DOMAIN entries /\ Word[f] = f
         /\ p \in (IF s.tree = tree \/ f \notin DiffTreeFiles(s.tree, tree) THEN entries[f]
                   ELSE IF f \in Paths(s.entries) THEN MarkOverlappingLines(s, tree, entries, f)
                   ELSE {})
<1>1. PICK g \in DOMAIN entries :
        <<f, p>> \in {Word[g]} \X (IF s.tree = tree \/ Word[g] \notin DiffTreeFiles(s.tree, tree) THEN entries[g]
                                  ELSE IF Word[g] \in Paths(s.entries) THEN MarkOverlappingLines(s, tree, entries, g)
                                  ELSE {})
  BY DEF Marked
<1>2. Word[g] = f
  BY <1>1
<1>3. g = f
  BY <1>2 DEF Own
<1> QED BY <1>1, <1>2, <1>3

\* A line a session covers was in the tree of that session.
LEMMA MarkedIsOld ==
  ASSUME ~InSubdirectory, NEW s, NEW tree \in Tree, NEW entries, DOMAIN entries \subseteq File,
         NEW f \in Own, NEW p \in DOMAIN tree[f], <<f, p>> \in Marked(s, tree, entries)
  PROVE  tree[f][p] \in Range(s.tree[f])
<1>1. /\ f \in File /\ Word[f] = f
      /\ p \in (IF s.tree = tree \/ f \notin DiffTreeFiles(s.tree, tree) THEN entries[f]
                ELSE IF f \in Paths(s.entries) THEN MarkOverlappingLines(s, tree, entries, f)
                ELSE {})
  BY MarkedIs DEF Own
<1>2. tree[f][p] \in Range(tree[f])
  BY DEF Range
<1>3. CASE s.tree = tree \/ f \notin DiffTreeFiles(s.tree, tree)
  <2>1. s.tree[f] = tree[f]
    BY <1>1, <1>3 DEF DiffTreeFiles
  <2> QED BY <1>2, <2>1
<1>4. CASE ~(s.tree = tree \/ f \notin DiffTreeFiles(s.tree, tree))
  <2>1. p \in MarkOverlappingLines(s, tree, entries, f)
    BY <1>1, <1>4
  <2>2. p \notin ChangedLines(s.tree[f], tree[f])
    BY <1>1, <2>1 DEF MarkOverlappingLines, DiffTreeFileHunks
  <2>3. tree[f] \in Seq(Nat)
    BY <1>1 DEF Tree
  <2> QED BY <2>2, <2>3, OutsideIsOld
<1> QED BY <1>3, <1>4

LEMMA RecordKeeps ==
  ASSUME ~InSubdirectory, TreesAreTrees, NEW entries, DOMAIN entries \subseteq File,
         NEW action, NEW page, NEW counts, NEW stores, NEW lost,
         RecordAndComputeCoverage(action, page, entries, counts, stores, lost)
  PROVE  ChangedIsNotCovered'
<1> DEFINE cov == IF counts THEN ComputePriorCoverage(branch, index, entries, lost) ELSE NoCoverage
<1>1. /\ attestation'.covered = cov.covered /\ attestation'.prior = cov.prior
      /\ attestation'.tree = index
  BY DEF RecordAndComputeCoverage
<1> HIDE DEF cov
<1>2. SUFFICES ASSUME NEW f \in Own, NEW p \in DOMAIN index[f], <<f, p>> \in cov.covered
               PROVE  \E s \in cov.prior : index[f][p] \in Range(s.tree[f])
  BY <1>1 DEF ChangedIsNotCovered, Covered
<1>3. CASE ~counts
  BY <1>2, <1>3 DEF NoCoverage, cov
<1>4. CASE counts
  <2>1. cov = ComputePriorCoverage(branch, index, entries, lost)
    BY <1>4 DEF cov
  <2>2. PICK s \in GetPriorReviewedSessions(branch) : <<f, p>> \in Marked(s, index, entries)
    BY <1>2, <2>1 DEF ComputePriorCoverage
  <2>3. index[f][p] \in Range(s.tree[f])
    BY <1>2, <2>2, MarkedIsOld DEF TreesAreTrees
  <2>4. cov.prior = GetPriorReviewedSessions(branch)
    BY <2>1 DEF ComputePriorCoverage
  <2> QED BY <2>2, <2>3, <2>4
<1> QED BY <1>3, <1>4

LEMMA CoveredStep ==
  ASSUME ~InSubdirectory, TreesAreTrees, EntriesAreFiles, ChangedIsNotCovered, [CoverageNext]_coverageVars
  PROVE  ChangedIsNotCovered'
<1>1. CASE FinishReview
  <2>1. PICK action \in Ends, badCount \in Fails, badStore \in Fails, lost \in Lost :
          RecordAndComputeCoverage(action, asked.page, asked.entries, ~badCount, ~badStore, lost)
    BY <1>1 DEF FinishReview
  <2> QED BY <2>1, RecordKeeps DEF EntriesAreFiles
<1>2. CASE Decide
  <2>1. PICK action \in Decisions, badCount \in Fails, badStore \in Fails :
          RecordAndComputeCoverage(action, Page(index, HEAD, {}), Entries(HEAD, index, {}), ~badCount, ~badStore, {})
    BY <1>2 DEF Decide
  <2> QED BY <2>1, RecordKeeps, EntriesDomain
<1>3. attestation'.covered = {} => ChangedIsNotCovered'
  BY DEF ChangedIsNotCovered, Covered
<1>4. UNCHANGED attestation => ChangedIsNotCovered'
  BY DEF ChangedIsNotCovered, Covered
<1>5. StartReview \/ Commit \/ AllExcluded => attestation'.covered = {}
  <2>1. NoAttestation.covered = {}
    BY DEF NoAttestation
  <2>2. AllExcluded => attestation'.covered = {}
    BY DEF AllExcluded, NoAttestation
  <2> QED BY <2>1, <2>2 DEF StartReview, Commit
<1>6. \A f : Write(f) \/ Delete(f) => attestation'.covered = {}
  BY DEF Write, Delete, Staged, NoAttestation
<1>7. \A b : Switch(b) => attestation'.covered = {}
  BY DEF Switch, NoAttestation
<1>8. AbandonReview \/ ResetSoft => UNCHANGED attestation
  BY DEF AbandonReview, ResetSoft
<1>9. \A f : SetIgnore(f) => UNCHANGED attestation
  BY DEF SetIgnore
<1>10. UNCHANGED coverageVars => UNCHANGED attestation
  BY DEF coverageVars
<1> QED BY <1>1, <1>2, <1>3, <1>4, <1>5, <1>6, <1>7, <1>8, <1>9, <1>10 DEF CoverageNext

LEMMA CoverageStart ==
  ASSUME CoverageInit
  PROVE  TreesAreTrees /\ EntriesAreFiles /\ ChangedIsNotCovered
<1>1. TreesAreTrees
  BY FirstIsTree, CoverageAssumption DEF CoverageInit, TreesAreTrees
<1>2. EntriesAreFiles
  BY DEF CoverageInit, EntriesAreFiles, NoReview
<1>3. ChangedIsNotCovered
  BY DEF CoverageInit, ChangedIsNotCovered, Covered, NoAttestation
<1> QED BY <1>1, <1>2, <1>3

\* Run at the root of the repository, lrc never counts a line that was written after every review
\* of its branch as reviewed: whatever is edited, committed, reset or ignored in between, and
\* whichever calls fail.
THEOREM ChangedNeverCovered == ~InSubdirectory => (CoverageSpec => []ChangedIsNotCovered)
<1> SUFFICES ASSUME ~InSubdirectory PROVE CoverageSpec => []ChangedIsNotCovered
  OBVIOUS
<1> DEFINE Inv == TreesAreTrees /\ EntriesAreFiles /\ ChangedIsNotCovered
<1>1. CoverageInit => Inv
  BY CoverageStart
<1>2. Inv /\ [CoverageNext]_coverageVars => Inv'
  BY TreesStep, EntriesStep, CoveredStep
<1> HIDE DEF Inv
<1>3. CoverageSpec => []Inv
  BY <1>1, <1>2, PTL DEF CoverageSpec
<1>4. Inv => ChangedIsNotCovered
  BY DEF Inv
<1> QED BY <1>3, <1>4, PTL

-----------------------------------------------------------------------------
(* Counting rounds.  The table has as many rows of a branch as there were  *)
(* reviews and decisions on it since its last commit, unless one of these  *)
(* sessions was not stored or the commit's cleanup failed; an attestation  *)
(* that is sure of its count was made on the branch that is checked out,   *)
(* in the last of these rounds.                                            *)

RowsAreCounted ==
  /\ IsFiniteSet(DOMAIN sessions) /\ DOMAIN sessions \subseteq Nat
  /\ rounds \in [Branch -> Nat]
  /\ \A b \in Branch : b \notin unsure => CountIterations(b) = rounds[b]

RoundsInv == branch \in Branch /\ RowsAreCounted /\ IterationsCountRounds

\* A row that is inserted has an id of its own.
LEMMA IDIsNew ==
  ASSUME IsFiniteSet(DOMAIN sessions)
  PROVE  NewID \in Nat /\ NewID \notin DOMAIN sessions
<1> DEFINE n == Cardinality(DOMAIN sessions)
           Ids == 1..(n + 1)
<1>1. n \in Nat
  BY FS_CardinalityType
<1>2. Cardinality(Ids) = n + 1
  <2>1. ASSUME NEW k \in Nat PROVE Cardinality(1..(k + 1)) = k + 1
    <3>1. Cardinality(1..(k + 1)) = IF 1 > k + 1 THEN 0 ELSE k + 1 - 1 + 1
      BY FS_Interval
    <3> QED BY <3>1
  <2> HIDE DEF n
  <2> QED BY <1>1, <2>1
<1> HIDE DEF n, Ids
<1>3. ~(Ids \subseteq DOMAIN sessions)
  <2> SUFFICES ASSUME Ids \subseteq DOMAIN sessions PROVE FALSE
    OBVIOUS
  <2>1. Cardinality(Ids) <= n
    BY FS_Subset DEF n
  <2> QED BY <1>1, <1>2, <2>1
<1>4. NewID \in Ids /\ NewID \notin DOMAIN sessions
  BY <1>3 DEF NewID, Ids, n
<1> QED BY <1>1, <1>4 DEF Ids

\* A session that is stored is one row more of the branch, and of no other.
LEMMA InsertCounts ==
  ASSUME RowsAreCounted, NEW row, sessions' = InsertReviewSession(row)
  PROVE  /\ IsFiniteSet(DOMAIN sessions') /\ DOMAIN sessions' \subseteq Nat
         /\ \A b \in Branch :
              CountIterations(b)' = IF b = row.branch THEN CountIterations(b) + 1 ELSE CountIterations(b)
<1> DEFINE id == NewID
<1>1. id \in Nat /\ id \notin DOMAIN sessions
  BY IDIsNew DEF RowsAreCounted
<1>2. DOMAIN sessions' = DOMAIN sessions \cup {id}
  BY DEF InsertReviewSession
<1>3. sessions'[id] = row /\ \A i \in DOMAIN sessions : sessions'[i] = sessions[i]
  BY <1>1 DEF InsertReviewSession
<1> HIDE DEF id
<1>4. IsFiniteSet(DOMAIN sessions') /\ DOMAIN sessions' \subseteq Nat
  <2>1. IsFiniteSet(DOMAIN sessions \cup {id})
    BY FS_AddElement DEF RowsAreCounted
  <2> QED BY <1>1, <1>2, <2>1 DEF RowsAreCounted
<1>5. ASSUME NEW b \in Branch
      PROVE  CountIterations(b)' = IF b = row.branch THEN CountIterations(b) + 1 ELSE CountIterations(b)
  <2>1. IsFiniteSet(OnBranch(b))
    <3>1. OnBranch(b) \subseteq DOMAIN sessions
      BY DEF OnBranch
    <3> QED BY <3>1, FS_Subset DEF RowsAreCounted
  <2>2. CASE b = row.branch
    <3>1. OnBranch(b)' = OnBranch(b) \cup {id}
      BY <1>2, <1>3, <2>2 DEF OnBranch
    <3>2. id \notin OnBranch(b)
      BY <1>1 DEF OnBranch
    <3>3. Cardinality(OnBranch(b) \cup {id}) = Cardinality(OnBranch(b)) + 1
      BY <2>1, <3>2, FS_AddElement
    <3> QED BY <2>2, <3>1, <3>3 DEF CountIterations
  <2>3. CASE b # row.branch
    <3>1. OnBranch(b)' = OnBranch(b)
      BY <1>1, <1>2, <1>3, <2>3 DEF OnBranch
    <3> QED BY <2>3, <3>1 DEF CountIterations
  <2> QED BY <2>2, <2>3
<1> QED BY <1>4, <1>5

\* The cleanup of the post-commit hook leaves no row of the branch, and the others alone.
LEMMA CleanupCounts ==
  ASSUME RowsAreCounted, sessions' = Cleanup(branch)
  PROVE  /\ IsFiniteSet(DOMAIN sessions') /\ DOMAIN sessions' \subseteq Nat
         /\ \A b \in Branch : CountIterations(b)' = IF b = branch THEN 0 ELSE CountIterations(b)
<1>1. DOMAIN sessions' = DOMAIN sessions \ OnBranch(branch)
  BY DEF Cleanup
<1>2. \A id \in DOMAIN sessions' : sessions'[id] = sessions[id]
  BY <1>1 DEF Cleanup
<1>3. IsFiniteSet(DOMAIN sessions') /\ DOMAIN sessions' \subseteq Nat
  BY <1>1, FS_Subset DEF RowsAreCounted
<1>4. ASSUME NEW b \in Branch PROVE CountIterations(b)' = IF b = branch THEN 0 ELSE CountIterations(b)
  <2>1. CASE b = branch
    <3>1. OnBranch(b)' = {}
      BY <1>1, <1>2, <2>1 DEF OnBranch
    <3> QED BY <2>1, <3>1, FS_EmptySet DEF CountIterations
  <2>2. CASE b # branch
    <3>1. OnBranch(b)' = OnBranch(b)
      BY <1>1, <1>2, <2>2 DEF OnBranch
    <3> QED BY <2>2, <3>1 DEF CountIterations
  <2> QED BY <2>1, <2>2
<1> QED BY <1>3, <1>4

\* An attestation whose coverage was computed counts what was stored before it, and its own round.
LEMMA RecordCounts ==
  ASSUME RoundsInv, UNCHANGED branch,
         NEW action, NEW page, NEW entries, NEW counts \in BOOLEAN, NEW stores \in BOOLEAN, NEW lost,
         RecordAndComputeCoverage(action, page, entries, counts, stores, lost)
  PROVE  RoundsInv'
<1> DEFINE row == Session(action, page, entries)
<1>1. row.branch = branch
  BY DEF Session
<1>2. /\ branch \in Branch
      /\ rounds' \in [Branch -> Nat]
      /\ \A b \in Branch : rounds'[b] = IF b = branch THEN rounds[b] + 1 ELSE rounds[b]
  BY DEF RecordAndComputeCoverage, RoundsInv, RowsAreCounted
<1>3. IterationsCountRounds'
  <2>1. attestation'.sure => counts /\ branch \notin unsure
    BY DEF RecordAndComputeCoverage
  <2>2. counts => attestation'.iterations = CountIterations(branch) + 1
    BY DEF RecordAndComputeCoverage, ComputePriorCoverage
  <2> QED BY <1>2, <2>1, <2>2 DEF IterationsCountRounds, RoundsInv, RowsAreCounted
<1>4. CASE stores
  <2>1. sessions' = InsertReviewSession(row) /\ unsure' = unsure
    BY <1>4 DEF RecordAndComputeCoverage
  <2> HIDE DEF row
  <2>2. /\ IsFiniteSet(DOMAIN sessions') /\ DOMAIN sessions' \subseteq Nat
        /\ \A b \in Branch :
             CountIterations(b)' = IF b = branch THEN CountIterations(b) + 1 ELSE CountIterations(b)
    BY <1>1, <2>1, InsertCounts DEF RoundsInv
  <2>3. RowsAreCounted'
    BY <1>2, <2>1, <2>2 DEF RoundsInv, RowsAreCounted
  <2> QED BY <1>2, <1>3, <2>3 DEF RoundsInv
<1>5. CASE ~stores
  <2>1. UNCHANGED sessions /\ unsure' = unsure \cup {branch}
    BY <1>5 DEF RecordAndComputeCoverage
  <2>2. \A b : CountIterations(b)' = CountIterations(b)
    BY <2>1 DEF CountIterations, OnBranch
  <2>3. RowsAreCounted'
    BY <1>2, <2>1, <2>2 DEF RoundsInv, RowsAreCounted
  <2> QED BY <1>2, <1>3, <2>3 DEF RoundsInv
<1> QED BY <1>4, <1>5

\* A commit ends the count of its branch, and drops the attestation.
LEMMA CommitCounts ==
  ASSUME RoundsInv, Commit
  PROVE  RoundsInv'
<1>1. attestation'.sure = FALSE /\ branch' = branch /\ branch \in Branch
  BY DEF Commit, NoAttestation, RoundsInv
<1>2. IterationsCountRounds'
  BY <1>1 DEF IterationsCountRounds
<1>3. /\ rounds' \in [Branch -> Nat]
      /\ \A b \in Branch : rounds'[b] = IF b = branch THEN 0 ELSE rounds[b]
  BY <1>1 DEF Commit, RoundsInv, RowsAreCounted
<1>4. CASE sessions' = Cleanup(branch) /\ unsure' = unsure \ {branch}
  <2>1. /\ IsFiniteSet(DOMAIN sessions') /\ DOMAIN sessions' \subseteq Nat
        /\ \A b \in Branch : CountIterations(b)' = IF b = branch THEN 0 ELSE CountIterations(b)
    BY <1>4, CleanupCounts DEF RoundsInv
  <2>2. RowsAreCounted'
    BY <1>3, <1>4, <2>1 DEF RoundsInv, RowsAreCounted
  <2> QED BY <1>1, <1>2, <2>2 DEF RoundsInv
<1>5. CASE unsure' = unsure \cup {branch} /\ UNCHANGED sessions
  <2>1. \A b : CountIterations(b)' = CountIterations(b)
    BY <1>5 DEF CountIterations, OnBranch
  <2>2. RowsAreCounted'
    BY <1>3, <1>5, <2>1 DEF RoundsInv, RowsAreCounted
  <2> QED BY <1>1, <1>2, <2>2 DEF RoundsInv
<1> QED BY <1>4, <1>5 DEF Commit

\* Nothing else touches the table: the attestation is kept, or replaced by one that does not count.
LEMMA OthersCount ==
  ASSUME RoundsInv, branch' \in Branch, UNCHANGED <<sessions, rounds, unsure>>,
         attestation'.sure = FALSE \/ UNCHANGED <<attestation, branch>>
  PROVE  RoundsInv'
<1>1. RowsAreCounted'
  BY DEF RoundsInv, RowsAreCounted, CountIterations, OnBranch
<1>2. IterationsCountRounds'
  BY DEF RoundsInv, IterationsCountRounds
<1> QED BY <1>1, <1>2 DEF RoundsInv

LEMMA RoundsStep ==
  ASSUME RoundsInv, [CoverageNext]_coverageVars
  PROVE  RoundsInv'
<1> DEFINE Rests == /\ branch' \in Branch /\ UNCHANGED <<sessions, rounds, unsure>>
                    /\ attestation'.sure = FALSE \/ UNCHANGED <<attestation, branch>>
<1>0. branch \in Branch /\ NoAttestation.sure = FALSE
  BY DEF RoundsInv, NoAttestation
<1>1. CASE FinishReview
  <2>1. PICK action \in Ends, badCount \in Fails, badStore \in Fails, lost \in Lost :
          RecordAndComputeCoverage(action, asked.page, asked.entries, ~badCount, ~badStore, lost)
    BY <1>1 DEF FinishReview
  <2>2. UNCHANGED branch
    BY <1>1 DEF FinishReview, userVars
  <2> QED BY <2>1, <2>2, RecordCounts
<1>2. CASE Decide
  <2>1. PICK action \in Decisions, badCount \in Fails, badStore \in Fails :
          RecordAndComputeCoverage(action, Page(index, HEAD, {}), Entries(HEAD, index, {}), ~badCount, ~badStore, {})
    BY <1>2 DEF Decide
  <2>2. UNCHANGED branch
    BY <1>2 DEF Decide, userVars
  <2> QED BY <2>1, <2>2, RecordCounts
<1>3. CASE Commit
  BY <1>3, CommitCounts
<1>4. StartReview \/ AbandonReview \/ AllExcluded => Rests
  <2>1. StartReview \/ AbandonReview => Rests
    BY <1>0 DEF StartReview, AbandonReview, userVars
  <2>2. AllExcluded => Rests
    BY <1>0 DEF AllExcluded, NoAttestation, userVars
  <2> QED BY <2>1, <2>2
<1>5. \A f \in File : Write(f) \/ Delete(f) => Rests
  BY <1>0 DEF Write, Delete, Staged
<1>6. \A f \in Ignorable : SetIgnore(f) => Rests
  BY <1>0 DEF SetIgnore
<1>7. ResetSoft => Rests
  BY <1>0 DEF ResetSoft
<1>8. \A b \in Branch : Switch(b) => Rests
  BY <1>0 DEF Switch
<1>9. UNCHANGED coverageVars => Rests
  BY <1>0 DEF coverageVars
<1>10. Rests => RoundsInv'
  BY OthersCount
<1> HIDE DEF Rests
<1> QED BY <1>1, <1>2, <1>3, <1>4, <1>5, <1>6, <1>7, <1>8, <1>9, <1>10 DEF CoverageNext

\* Whatever is reviewed, committed, reset or switched to in between, and whichever calls fail: an
\* attestation counts the rounds of its branch since the last commit there, and no others, as long
\* as each earlier one of these was stored and the cleanup of that commit did its work.
THEOREM RoundsAreCounted == CoverageSpec => []IterationsCountRounds
<1>1. CoverageInit => RoundsInv
  <2> SUFFICES ASSUME CoverageInit PROVE RoundsInv
    OBVIOUS
  <2>1. DOMAIN sessions = {}
    BY DEF CoverageInit
  <2>2. \A b \in Branch : CountIterations(b) = 0
    BY <2>1, FS_EmptySet DEF CountIterations, OnBranch
  <2>3. RowsAreCounted
    BY <2>1, <2>2, FS_EmptySet DEF CoverageInit, RowsAreCounted
  <2>4. IterationsCountRounds
    BY DEF CoverageInit, IterationsCountRounds, NoAttestation
  <2> QED BY <2>3, <2>4, CoverageAssumption DEF CoverageInit, RoundsInv
<1>2. RoundsInv /\ [CoverageNext]_coverageVars => RoundsInv'
  BY RoundsStep
<1>3. RoundsInv => IterationsCountRounds
  BY DEF RoundsInv
<1> QED BY <1>1, <1>2, <1>3, PTL DEF CoverageSpec

-----------------------------------------------------------------------------
(* Files of one history.                                                   *)

\* The common lines of two files are in the same order in both, and none is there twice.
Ordered(a, b) ==
  \A i, j \in DOMAIN a, k, l \in DOMAIN b : a[i] = b[k] /\ a[j] = b[l] => (i < j <=> k < l)

LEMMA InOrder ==
  ASSUME NEW a \in Seq(Nat), NEW b \in Seq(Nat), Ordered(a, b),
         NEW i \in 1..Len(a), NEW j \in 1..Len(a), NEW k \in 1..Len(b), NEW l \in 1..Len(b),
         a[i] = b[k], a[j] = b[l]
  PROVE  (i < j <=> k < l) /\ (i = j <=> k = l)
<1>1. DOMAIN a = 1..Len(a) /\ DOMAIN b = 1..Len(b)
  OBVIOUS
<1>2. i < j <=> k < l
  BY <1>1 DEF Ordered
<1>3. j < i <=> l < k
  BY <1>1 DEF Ordered
<1> QED BY <1>2, <1>3

LEMMA OrderedTurns ==
  ASSUME NEW a, NEW b, Ordered(a, b)
  PROVE  Ordered(b, a)
BY DEF Ordered

LEMMA NoLineTwice ==
  ASSUME NEW a \in Seq(Nat), Ordered(a, a), NEW i \in 1..Len(a), NEW j \in 1..Len(a), a[i] = a[j]
  PROVE  i = j
<1>1. DOMAIN a = 1..Len(a)
  OBVIOUS
<1>2. i < j <=> j < i
  BY <1>1 DEF Ordered
<1> QED BY <1>2

\* An edit of a to e keeps the lines D of e, from back, and writes a line l at most.
Edits(a, e, D, back, l) ==
  /\ a \in Seq(Nat) /\ e \in Seq(Nat) /\ D \in SUBSET (1..Len(e)) /\ back \in [D -> 1..Len(a)]
  /\ \A x \in D : e[x] = a[back[x]]
  /\ \A x, y \in D : x < y => back[x] < back[y]
  /\ \A x \in (1..Len(e)) \ D : e[x] = l
  /\ \A x, y \in (1..Len(e)) \ D : x = y

\* It keeps their order.
LEMMA EditOrdered ==
  ASSUME NEW a, NEW e, NEW D, NEW back, NEW l, Edits(a, e, D, back, l), Ordered(a, a), l \notin Range(a)
  PROVE  /\ Ordered(e, e)
         /\ \A b \in Seq(Nat) : Ordered(a, b) /\ l \notin Range(b) => Ordered(e, b)
<1> USE DEF Edits
<1>1. DOMAIN a = 1..Len(a) /\ DOMAIN e = 1..Len(e)
  OBVIOUS
<1>2. \A x, y \in D : x < y <=> back[x] < back[y]
  <2>1. \A x, y \in D : x \in Int /\ y \in Int /\ back[x] \in Int /\ back[y] \in Int
    OBVIOUS
  <2>2. SUFFICES ASSUME NEW x \in D, NEW y \in D PROVE x < y <=> back[x] < back[y]
    OBVIOUS
  <2>3. x < y => back[x] < back[y]
    OBVIOUS
  <2>4. y < x => back[y] < back[x]
    OBVIOUS
  <2> QED BY <2>1, <2>3, <2>4
<1>3. ASSUME NEW b \in Seq(Nat), Ordered(a, b), l \notin Range(b) PROVE Ordered(e, b)
  <2>1. DOMAIN b = 1..Len(b)
    OBVIOUS
  <2>2. SUFFICES ASSUME NEW i \in 1..Len(e), NEW j \in 1..Len(e), NEW k \in 1..Len(b), NEW m \in 1..Len(b),
                        e[i] = b[k], e[j] = b[m]
                 PROVE  i < j <=> k < m
    BY <1>1, <2>1 DEF Ordered
  <2>3. b[k] # l /\ b[m] # l
    BY <1>3, <2>1 DEF Range
  <2>4. i \in D /\ j \in D
    BY <2>2, <2>3
  <2>5. a[back[i]] = b[k] /\ a[back[j]] = b[m] /\ back[i] \in 1..Len(a) /\ back[j] \in 1..Len(a)
    BY <2>2, <2>4
  <2>6. \A u, v \in 1..Len(a) : a[u] = b[k] /\ a[v] = b[m] => (u < v <=> k < m)
    <3>1. SUFFICES ASSUME NEW u \in 1..Len(a), NEW v \in 1..Len(a), a[u] = b[k], a[v] = b[m]
                   PROVE  u < v <=> k < m
      OBVIOUS
    <3> QED BY <1>1, <1>3, <2>1, <2>2, <3>1 DEF Ordered
  <2>7. back[i] < back[j] <=> k < m
    BY <2>5, <2>6
  <2> QED BY <1>2, <2>4, <2>7
<1>4. ASSUME NEW x \in 1..Len(e), NEW y \in 1..Len(e), e[x] = e[y] PROVE x = y
  <2>1. \A z \in D : e[z] # l
    BY <1>1 DEF Range
  <2>2. CASE x \in D
    <3>1. y \in D
      BY <1>4, <2>1, <2>2
    <3>2. back[x] \in 1..Len(a) /\ back[y] \in 1..Len(a) /\ a[back[x]] = a[back[y]]
      BY <1>4, <2>2, <3>1
    <3>3. back[x] = back[y]
      BY <3>2, NoLineTwice
    <3>4. ~(x < y) /\ ~(y < x)
      BY <1>2, <2>2, <3>1, <3>2, <3>3
    <3> QED BY <3>4
  <2>3. CASE x \notin D
    <3>1. y \notin D
      BY <1>4, <2>1, <2>3
    <3> QED BY <2>3, <3>1
  <2> QED BY <2>2, <2>3
<1>5. Ordered(e, e)
  BY <1>1, <1>4 DEF Ordered
<1> QED BY <1>3, <1>5

LEMMA Joined ==
  ASSUME NEW u \in Seq(Nat), NEW w \in Seq(Nat)
  PROVE  /\ u \o w \in Seq(Nat) /\ Len(u \o w) = Len(u) + Len(w)
         /\ \A x \in 1..Len(u) : (u \o w)[x] = u[x]
         /\ \A y \in 1..Len(w) : (u \o w)[Len(u) + y] = w[y]
<1>1. /\ u \o w \in Seq(Nat) /\ Len(u \o w) = Len(u) + Len(w)
      /\ \A x \in 1..(Len(u) + Len(w)) : (u \o w)[x] = IF x <= Len(u) THEN u[x] ELSE w[x - Len(u)]
  BY ConcatProperties
<1>2. Len(u) \in Nat /\ Len(w) \in Nat
  OBVIOUS
<1>3. ASSUME NEW y \in 1..Len(w) PROVE (u \o w)[Len(u) + y] = w[y]
  <2>1. Len(u) + y \in 1..(Len(u) + Len(w)) /\ ~(Len(u) + y <= Len(u)) /\ Len(u) + y - Len(u) = y
    BY <1>2
  <2> QED BY <1>1, <2>1
<1>4. ASSUME NEW x \in 1..Len(u) PROVE (u \o w)[x] = u[x]
  <2>1. x \in 1..(Len(u) + Len(w)) /\ x <= Len(u)
    BY <1>2
  <2> QED BY <1>1, <2>1
<1> QED BY <1>1, <1>3, <1>4

\* The parts of a file before and from a line on.
LEMMA Parts ==
  ASSUME NEW a \in Seq(Nat), NEW p \in 1..(Len(a) + 1), NEW k \in 1..(Len(a) + 1)
  PROVE  /\ SubSeq(a, 1, p - 1) \in Seq(Nat) /\ Len(SubSeq(a, 1, p - 1)) = p - 1
         /\ \A x \in 1..(p - 1) : SubSeq(a, 1, p - 1)[x] = a[x]
         /\ SubSeq(a, k, Len(a)) \in Seq(Nat) /\ Len(SubSeq(a, k, Len(a))) = Len(a) - k + 1
         /\ \A x \in 1..(Len(a) - k + 1) : SubSeq(a, k, Len(a))[x] = a[k + x - 1]
<1>1. SubSeq(a, 1, p - 1) \in Seq(Nat) /\ SubSeq(a, k, Len(a)) \in Seq(Nat)
  OBVIOUS
<1>2. Len(SubSeq(a, 1, p - 1)) = p - 1 /\ \A x \in 1..(p - 1) : SubSeq(a, 1, p - 1)[x] = a[x]
  OBVIOUS
<1>3. /\ Len(SubSeq(a, k, Len(a))) = Len(a) - k + 1
      /\ \A x \in 1..(Len(a) - k + 1) : SubSeq(a, k, Len(a))[x] = a[k + x - 1]
  OBVIOUS
<1> QED BY <1>1, <1>2, <1>3

LEMMA InsertOrdered ==
  ASSUME NEW a \in Seq(Nat), NEW p \in 1..(Len(a) + 1), NEW l \in Nat, Ordered(a, a), l \notin Range(a)
  PROVE  LET e == InsertAt(a, p, l) IN
         /\ e \in Seq(Nat) /\ Range(e) \subseteq Range(a) \cup {l}
         /\ Ordered(e, e)
         /\ \A b \in Seq(Nat) : Ordered(a, b) /\ l \notin Range(b) => Ordered(e, b)
<1> DEFINE e == InsertAt(a, p, l)
           n == Len(a)
           D == (1..(n + 1)) \ {p}
           back == [x \in D |-> IF x < p THEN x ELSE x - 1]
<1>1. n \in Nat
  OBVIOUS
<1> DEFINE u == SubSeq(a, 1, p - 1)
           w == SubSeq(a, p, n)
<1>a. /\ u \in Seq(Nat) /\ Len(u) = p - 1 /\ \A x \in 1..(p - 1) : u[x] = a[x]
      /\ w \in Seq(Nat) /\ Len(w) = n - p + 1 /\ \A x \in 1..(n - p + 1) : w[x] = a[p + x - 1]
  BY Parts
<1>b. e = u \o <<l>> \o w
  BY DEF InsertAt
<1> HIDE DEF e, u, w
<1> DEFINE c == u \o <<l>>
<1>c. c \in Seq(Nat) /\ Len(c) = p /\ c[p] = l /\ \A x \in 1..(p - 1) : c[x] = a[x]
  <2>1. <<l>> \in Seq(Nat) /\ Len(<<l>>) = 1 /\ <<l>>[1] = l
    OBVIOUS
  <2>2. /\ c \in Seq(Nat) /\ Len(c) = Len(u) + 1
        /\ \A x \in 1..Len(u) : c[x] = u[x]
        /\ \A y \in 1..1 : c[Len(u) + y] = <<l>>[y]
    <3>1. ASSUME NEW v \in Seq(Nat), Len(v) = 1
          PROVE  /\ u \o v \in Seq(Nat) /\ Len(u \o v) = Len(u) + 1
                 /\ \A x \in 1..Len(u) : (u \o v)[x] = u[x]
                 /\ \A y \in 1..1 : (u \o v)[Len(u) + y] = v[y]
      <4>1. /\ u \o v \in Seq(Nat) /\ Len(u \o v) = Len(u) + Len(v)
            /\ \A x \in 1..Len(u) : (u \o v)[x] = u[x]
            /\ \A y \in 1..Len(v) : (u \o v)[Len(u) + y] = v[y]
        BY <1>a, Joined
      <4> QED BY <3>1, <4>1
    <3> QED BY <2>1, <3>1
  <2>3. Len(u) = p - 1 /\ Len(u) + 1 = p /\ 1 \in 1..1
    BY <1>1, <1>a
  <2>4. c[p] = l
    BY <2>1, <2>2, <2>3
  <2> QED BY <1>a, <2>2, <2>3, <2>4
<1>d. e = c \o w
  BY <1>b
<1>e. p + Len(w) = n + 1 /\ p \in Nat
  BY <1>1, <1>a
<1> HIDE DEF c
<1>2. e \in Seq(Nat) /\ Len(e) = n + 1
  BY <1>a, <1>c, <1>d, <1>e, Joined
<1>3. \A x \in 1..(n + 1) : e[x] = IF x < p THEN a[x] ELSE IF x = p THEN l ELSE a[x - 1]
  <2>1. SUFFICES ASSUME NEW x \in 1..(n + 1)
                 PROVE  e[x] = IF x < p THEN a[x] ELSE IF x = p THEN l ELSE a[x - 1]
    OBVIOUS
  <2>2. CASE x <= p
    <3>1. e[x] = c[x]
      <4>1. x \in 1..Len(c)
        BY <1>c, <2>2
      <4> QED BY <1>a, <1>c, <1>d, <4>1, Joined
    <3> QED BY <1>c, <2>2, <3>1
  <2>3. CASE x > p
    <3> DEFINE y == x - p
    <3>1. y \in 1..Len(w) /\ x = Len(c) + y /\ p + y - 1 = x - 1
      BY <1>c, <1>e, <2>3
    <3> HIDE DEF y
    <3>2. e[x] = w[y]
      BY <1>a, <1>c, <1>d, <3>1, Joined
    <3>3. w[y] = a[p + y - 1]
      BY <1>a, <3>1
    <3>4. e[x] = a[x - 1]
      BY <3>1, <3>2, <3>3
    <3>5. ~(x < p) /\ x # p
      BY <1>e, <2>1, <2>3
    <3> QED BY <3>4, <3>5
  <2> QED BY <2>2, <2>3
<1>4. back \in [D -> 1..n]
  <2>1. \A x \in D : (IF x < p THEN x ELSE x - 1) \in 1..n
    BY <1>1
  <2> QED BY <2>1
<1>5. \A x \in D : e[x] = a[back[x]]
  BY <1>3
<1>6. \A x, y \in D : x < y => back[x] < back[y]
  BY <1>1
<1>7. D \in SUBSET (1..Len(e))
  BY <1>2
<1>8. \A x \in (1..Len(e)) \ D : x = p /\ e[x] = l
  BY <1>2, <1>3
<1>9. Range(e) \subseteq Range(a) \cup {l}
  <2>1. DOMAIN e = 1..(n + 1) /\ DOMAIN a = 1..n
    BY <1>2
  <2> HIDE DEF e
  <2>2. \A x \in 1..n : a[x] \in Range(a)
    BY <2>1 DEF Range
  <2>3. \A x \in 1..(n + 1) : x >= p /\ x # p => x - 1 \in 1..n
    BY <1>1
  <2>4. \A x \in 1..(n + 1) : x < p => x \in 1..n
    BY <1>1
  <2>5. ASSUME NEW x \in 1..(n + 1) PROVE e[x] \in Range(a) \cup {l}
    <3>1. CASE x < p
      BY <1>3, <2>2, <2>4, <3>1
    <3>2. CASE x = p
      BY <1>3, <3>2
    <3>3. CASE x > p
      <4>1. x - 1 \in 1..n /\ e[x] = a[x - 1]
        BY <1>3, <2>3, <3>3
      <4> QED BY <2>2, <4>1
    <3> QED BY <3>1, <3>2, <3>3
  <2> QED BY <2>1, <2>5 DEF Range
<1> HIDE DEF e, D, back
<1>10. /\ Ordered(e, e)
       /\ \A b \in Seq(Nat) : Ordered(a, b) /\ l \notin Range(b) => Ordered(e, b)
  <2>1. \A x \in (1..Len(e)) \ D : e[x] = l
    BY <1>8
  <2>2. \A x, y \in (1..Len(e)) \ D : x = y
    BY <1>8
  <2>3. e \in Seq(Nat) /\ back \in [D -> 1..Len(a)]
    BY <1>2, <1>4 DEF n
  <2>4. Edits(a, e, D, back, l)
    BY <1>5, <1>6, <1>7, <2>1, <2>2, <2>3 DEF Edits
  <2> QED BY <2>4, EditOrdered
<1> QED BY <1>2, <1>9, <1>10 DEF e

LEMMA RemoveOrdered ==
  ASSUME NEW a \in Seq(Nat), NEW p \in DOMAIN a, NEW l \in Nat, Ordered(a, a), l \notin Range(a)
  PROVE  LET e == RemoveAt(a, p) IN
         /\ e \in Seq(Nat) /\ Range(e) \subseteq Range(a)
         /\ Ordered(e, e)
         /\ \A b \in Seq(Nat) : Ordered(a, b) /\ l \notin Range(b) => Ordered(e, b)
<1> DEFINE e == RemoveAt(a, p)
           n == Len(a)
           D == 1..(n - 1)
           back == [x \in D |-> IF x < p THEN x ELSE x + 1]
<1>1. n \in Nat /\ p \in 1..n /\ n - 1 \in Nat
  OBVIOUS
<1> DEFINE u == SubSeq(a, 1, p - 1)
           w == SubSeq(a, p + 1, n)
<1>a. /\ u \in Seq(Nat) /\ Len(u) = p - 1 /\ \A x \in 1..(p - 1) : u[x] = a[x]
      /\ w \in Seq(Nat) /\ Len(w) = n - p /\ \A x \in 1..(n - p) : w[x] = a[p + x]
  <2>1. p \in 1..(Len(a) + 1) /\ p + 1 \in 1..(Len(a) + 1)
    BY <1>1
  <2>2. Len(a) - (p + 1) + 1 = n - p /\ \A x \in 1..(n - p) : p + 1 + x - 1 = p + x
    BY <1>1
  <2>3. /\ u \in Seq(Nat) /\ Len(u) = p - 1 /\ \A x \in 1..(p - 1) : u[x] = a[x]
        /\ w \in Seq(Nat) /\ Len(w) = n - (p + 1) + 1
        /\ \A x \in 1..(n - (p + 1) + 1) : w[x] = a[p + 1 + x - 1]
    BY <2>1, Parts
  <2> QED BY <2>2, <2>3
<1>b. e = u \o w
  BY DEF RemoveAt
<1> HIDE DEF e, u, w
<1>2. e \in Seq(Nat) /\ Len(e) = n - 1
  BY <1>1, <1>a, <1>b
<1>3. \A x \in 1..(n - 1) : e[x] = IF x < p THEN a[x] ELSE a[x + 1]
  <2>1. SUFFICES ASSUME NEW x \in 1..(n - 1) PROVE e[x] = IF x < p THEN a[x] ELSE a[x + 1]
    OBVIOUS
  <2>2. CASE x < p
    <3>1. x \in 1..(p - 1)
      BY <1>1, <2>2
    <3>2. e[x] = u[x]
      BY <1>1, <1>a, <1>b, <3>1
    <3> QED BY <1>a, <2>2, <3>1, <3>2
  <2>3. CASE x >= p
    <3> DEFINE y == x - (p - 1)
    <3>0. y \in 1..Len(w) /\ x = Len(u) + y /\ p + y = x + 1
      <4>1. Len(u) = p - 1 /\ Len(w) = n - p
        BY <1>a
      <4>2. p \in Int /\ n \in Int /\ x \in Int /\ x <= n - 1 /\ p <= x
        BY <1>1, <2>1, <2>3
      <4>3. y \in Int /\ 1 <= y /\ y <= n - p
        BY <4>2
      <4>4. x = (p - 1) + y /\ p + y = x + 1
        BY <4>2
      <4> HIDE DEF y
      <4> QED BY <4>1, <4>3, <4>4
    <3> HIDE DEF y
    <3>2. e[x] = w[y]
      BY <1>a, <1>b, <3>0, Joined
    <3>3. w[y] = a[p + y]
      BY <1>a, <3>0
    <3> QED BY <2>3, <3>0, <3>2, <3>3
  <2> QED BY <1>1, <2>2, <2>3
<1>4. back \in [D -> 1..n]
  <2>1. \A x \in D : (IF x < p THEN x ELSE x + 1) \in 1..n
    BY <1>1
  <2> QED BY <2>1
<1>5. \A x \in D : e[x] = a[back[x]]
  BY <1>3
<1>6. \A x, y \in D : x < y => back[x] < back[y]
  BY <1>1
<1>7. D \in SUBSET (1..Len(e)) /\ (1..Len(e)) \ D = {}
  BY <1>2
<1>8. Range(e) \subseteq Range(a)
  <2>1. DOMAIN e = 1..(n - 1) /\ DOMAIN a = 1..n
    BY <1>2
  <2> HIDE DEF e
  <2>2. \A x \in 1..n : a[x] \in Range(a)
    BY <2>1 DEF Range
  <2>3. \A x \in 1..(n - 1) : x \in 1..n /\ x + 1 \in 1..n
    BY <1>1
  <2>5. \A x \in 1..(n - 1) : e[x] \in Range(a)
    BY <1>3, <2>2, <2>3
  <2> QED BY <2>1, <2>5 DEF Range
<1> HIDE DEF e, D, back
<1>9. /\ Ordered(e, e)
      /\ \A b \in Seq(Nat) : Ordered(a, b) /\ l \notin Range(b) => Ordered(e, b)
  <2>1. \A x \in (1..Len(e)) \ D : e[x] = l
    BY <1>7
  <2>2. \A x, y \in (1..Len(e)) \ D : x = y
    BY <1>7
  <2>3. e \in Seq(Nat) /\ back \in [D -> 1..Len(a)]
    BY <1>2, <1>4 DEF n
  <2>4. Edits(a, e, D, back, l)
    BY <1>5, <1>6, <1>7, <2>1, <2>2, <2>3 DEF Edits
  <2> QED BY <2>4, EditOrdered
<1> QED BY <1>2, <1>8, <1>9 DEF e

-----------------------------------------------------------------------------
(* Hunks.  A line is outside of every hunk exactly if it, and the lines    *)
(* around it, stand in the other file as they stand here.                  *)

LessThan == {ss \in Nat \X Nat : ss[1] < ss[2]}

LEMMA Least ==
  ASSUME NEW T \in SUBSET Nat, T # {}
  PROVE  \E m \in T : \A k \in T : m <= k
<1>1. IsWellFoundedOn(LessThan, Nat)
  BY NatLessThanWellFounded DEF OpToRel, LessThan
<1>2. PICK m \in T : \A k \in T : ~(<<k, m>> \in LessThan)
  BY <1>1, WFMin
<1>3. \A k \in T : ~(k < m)
  BY <1>2 DEF LessThan
<1> QED BY <1>3

LEMMA Greatest ==
  ASSUME NEW top \in Nat, NEW S \in SUBSET (1..top), S # {}
  PROVE  \E m \in S : \A k \in S : k <= m
<1> DEFINE T == {k \in Nat : \E m \in S : k = top - m}
<1>1. T # {} /\ T \in SUBSET Nat
  <2>1. PICK m \in S : TRUE
    OBVIOUS
  <2>2. top - m \in T
    BY <2>1
  <2> QED BY <2>2
<1>2. PICK l \in T : \A k \in T : l <= k
  <2> HIDE DEF T
  <2> QED BY <1>1, Least
<1>3. PICK m \in S : l = top - m
  BY <1>2
<1>4. \A k \in S : top - k \in T
  OBVIOUS
<1>5. \A k \in S : k <= m
  BY <1>2, <1>3, <1>4
<1> QED BY <1>5

\* As many lines of one file as of the other, up to a line of both.
LEMMA SameCount ==
  ASSUME NEW old \in Seq(Nat), NEW new \in Seq(Nat),
         Ordered(old, new), Ordered(old, old), Ordered(new, new),
         NEW j \in 1..Len(old), NEW p \in 1..Len(new), old[j] = new[p]
  PROVE  Cardinality({q \in 1..p : new[q] \in Range(old)}) = Kept(old, new, j)
<1> DEFINE A == {i \in 1..j : old[i] \in Range(new)}
           B == {q \in 1..p : new[q] \in Range(old)}
           f == [i \in A |-> CHOOSE q \in 1..Len(new) : new[q] = old[i]]
<1>1. DOMAIN old = 1..Len(old) /\ DOMAIN new = 1..Len(new)
  OBVIOUS
<1>2. ASSUME NEW i \in A PROVE f[i] \in 1..Len(new) /\ new[f[i]] = old[i]
  <2>1. \E q \in 1..Len(new) : new[q] = old[i]
    BY <1>1 DEF Range
  <2> QED BY <2>1
<1>3. ASSUME NEW i \in A PROVE i \in 1..Len(old) /\ i <= j /\ f[i] \in B
  <2>1. i \in 1..Len(old) /\ i <= j
    OBVIOUS
  <2>2. f[i] \in 1..Len(new) /\ new[f[i]] = old[i]
    BY <1>2
  <2> HIDE DEF f
  <2>3. (j < i <=> p < f[i])
    BY <1>1, <2>1, <2>2 DEF Ordered
  <2>4. f[i] <= p
    BY <2>1, <2>2, <2>3
  <2>5. new[f[i]] \in Range(old)
    BY <1>1, <2>1, <2>2 DEF Range
  <2> QED BY <2>1, <2>2, <2>4, <2>5
<1>4. ASSUME NEW a \in A, NEW b \in A, f[a] = f[b] PROVE a = b
  <2>1. old[a] = old[b] /\ a \in 1..Len(old) /\ b \in 1..Len(old)
    BY <1>2, <1>3, <1>4
  <2> QED BY <2>1, NoLineTwice
<1>5. ASSUME NEW q \in B PROVE \E i \in A : f[i] = q
  <2>1. PICK i \in 1..Len(old) : old[i] = new[q]
    BY <1>1 DEF Range
  <2>2. q \in 1..Len(new) /\ q <= p
    OBVIOUS
  <2>3. j < i <=> p < q
    BY <1>1, <2>1, <2>2 DEF Ordered
  <2>4. i \in A
    <3>1. new[q] \in Range(new)
      BY <1>1, <2>2 DEF Range
    <3>2. i \in 1..j
      BY <2>1, <2>2, <2>3
    <3> QED BY <2>1, <3>1, <3>2
  <2>5. f[i] \in 1..Len(new) /\ new[f[i]] = new[q]
    BY <1>2, <2>1, <2>4
  <2>6. f[i] = q
    <3> HIDE DEF f
    <3> QED BY <2>2, <2>5, NoLineTwice
  <2> QED BY <2>4, <2>6
<1>6. f \in [A -> B]
  <2>1. \A i \in A : (CHOOSE q \in 1..Len(new) : new[q] = old[i]) \in B
    BY <1>3
  <2> QED BY <2>1
<1>7. IsFiniteSet(A)
  <2>1. IsFiniteSet(1..j)
    BY FS_Interval
  <2> QED BY <2>1, FS_Subset
<1> HIDE DEF A, B, f
<1>8. f \in Bijection(A, B)
  BY <1>4, <1>5, <1>6, Fun_IsBij
<1>9. Cardinality(B) = Cardinality(A)
  <2>1. ExistsBijection(A, B)
    BY <1>8 DEF ExistsBijection
  <2> QED BY <1>7, <2>1, FS_Bijection
<1> QED BY <1>9 DEF A, B, Kept

\* A line that is gone leaves its gap behind the last line before it that is kept.
LEMMA GapIs ==
  ASSUME NEW old \in Seq(Nat), NEW new \in Seq(Nat),
         Ordered(old, new), Ordered(old, old), Ordered(new, new),
         NEW i \in 1..Len(old), NEW j \in 1..i, NEW p \in 1..Len(new), old[j] = new[p],
         \A m \in 1..i : j < m => old[m] \notin Range(new)
  PROVE  Gap(old, new, i) = p
<1> DEFINE k == Kept(old, new, i)
           Upto(q) == {r \in 1..q : new[r] \in Range(old)}
<1>1. DOMAIN old = 1..Len(old) /\ DOMAIN new = 1..Len(new) /\ j \in 1..Len(old)
  OBVIOUS
<1>2. new[p] \in Range(old) /\ old[j] \in Range(new)
  BY <1>1 DEF Range
<1>3. Kept(old, new, j) = k
  <2>1. {m \in 1..j : old[m] \in Range(new)} = {m \in 1..i : old[m] \in Range(new)}
    <3>1. \A m \in 1..i : old[m] \in Range(new) => m \in 1..j
      OBVIOUS
    <3>2. \A m \in 1..j : m \in 1..i
      OBVIOUS
    <3> QED BY <3>1, <3>2
  <2> QED BY <2>1 DEF Kept
<1>4. ASSUME NEW q \in 1..Len(new) PROVE IsFiniteSet(Upto(q)) /\ Cardinality(Upto(q)) \in Nat
  <2>1. Upto(q) \subseteq 1..q /\ q \in Int
    OBVIOUS
  <2> HIDE DEF Upto
  <2>2. IsFiniteSet(1..q)
    BY <2>1, FS_Interval
  <2>3. IsFiniteSet(Upto(q))
    BY <2>1, <2>2, FS_Subset
  <2> QED BY <2>3, FS_CardinalityType
<1>5. Cardinality(Upto(p)) = k
  BY <1>1, <1>3, SameCount
<1>6. ASSUME NEW q \in 1..Len(new), NEW r \in 1..Len(new), q < r, new[r] \in Range(old)
      PROVE  Cardinality(Upto(q)) < Cardinality(Upto(r))
  <2>a. q \in Int /\ r \in Int /\ r \in 1..r /\ r \notin 1..q /\ 1..q \subseteq 1..r
    BY <1>6
  <2>1. Upto(q) \cup {r} \subseteq Upto(r) /\ r \notin Upto(q)
    BY <1>6, <2>a
  <2>2. /\ IsFiniteSet(Upto(q)) /\ Cardinality(Upto(q)) \in Nat
        /\ IsFiniteSet(Upto(r)) /\ Cardinality(Upto(r)) \in Nat
    BY <1>4
  <2> HIDE DEF Upto
  <2>3. Cardinality(Upto(q) \cup {r}) = Cardinality(Upto(q)) + 1
    BY <2>1, <2>2, FS_AddElement
  <2>4. Cardinality(Upto(q) \cup {r}) <= Cardinality(Upto(r))
    BY <2>1, <2>2, FS_Subset
  <2> QED BY <2>2, <2>3, <2>4
<1>7. k # 0
  <2>1. p \in Upto(p)
    BY <1>2
  <2>2. IsFiniteSet(Upto(p))
    BY <1>4
  <2> HIDE DEF Upto, k
  <2>3. Cardinality(Upto(p)) # 0
    BY <2>1, <2>2, FS_EmptySet
  <2> QED BY <1>5, <2>3
<1>8. \A q \in DOMAIN new : new[q] \in Range(old) /\ Cardinality(Upto(q)) = k => q = p
  <2>1. SUFFICES ASSUME NEW q \in 1..Len(new), new[q] \in Range(old), Cardinality(Upto(q)) = k PROVE q = p
    BY <1>1
  <2>2. Cardinality(Upto(p)) \in Nat
    BY <1>4
  <2> HIDE DEF Upto, k
  <2>3. Cardinality(Upto(q)) = Cardinality(Upto(p)) /\ p \in 1..Len(new) /\ new[p] \in Range(old)
    BY <1>2, <1>5, <2>1
  <2>4. ~(q < p)
    BY <1>6, <2>1, <2>2, <2>3
  <2>5. ~(p < q)
    BY <1>6, <2>1, <2>2, <2>3
  <2>6. q \in Int /\ p \in Int
    BY <2>1, <2>3
  <2> QED BY <2>4, <2>5, <2>6
<1>9. (CHOOSE q \in DOMAIN new : new[q] \in Range(old) /\ Cardinality(Upto(q)) = k) = p
  <2>1. p \in DOMAIN new /\ new[p] \in Range(old) /\ Cardinality(Upto(p)) = k
    BY <1>1, <1>2, <1>5
  <2> HIDE DEF Upto, k
  <2> QED BY <1>8, <2>1
<1> QED BY <1>7, <1>9 DEF Gap

LEMMA NoGap ==
  ASSUME NEW old \in Seq(Nat), NEW new \in Seq(Nat), NEW i \in 1..Len(old),
         \A m \in 1..i : old[m] \notin Range(new)
  PROVE  Gap(old, new, i) = 0
<1>1. {m \in 1..i : old[m] \in Range(new)} = {}
  OBVIOUS
<1>2. Kept(old, new, i) = 0
  BY <1>1, FS_EmptySet DEF Kept
<1> QED BY <1>2 DEF Gap

\* The gap of a line that is gone is at the start, or behind the line before it in the old file.
LEMMA Gaps ==
  ASSUME NEW old \in Seq(Nat), NEW new \in Seq(Nat),
         Ordered(old, new), Ordered(old, old), Ordered(new, new), NEW i \in 1..Len(old)
  PROVE  \/ Gap(old, new, i) = 0 /\ \A m \in 1..i : old[m] \notin Range(new)
         \/ \E j \in 1..i, p \in 1..Len(new) :
              /\ old[j] = new[p] /\ Gap(old, new, i) = p
              /\ \A m \in 1..i : j < m => old[m] \notin Range(new)
<1> DEFINE A == {m \in 1..i : old[m] \in Range(new)}
<1>1. CASE A = {}
  BY <1>1, NoGap
<1>2. CASE A # {}
  <2>1. PICK j \in A : \A m \in A : m <= j
    <3>1. A \in SUBSET (1..i) /\ i \in Nat
      OBVIOUS
    <3> HIDE DEF A
    <3> QED BY <1>2, <3>1, Greatest
  <2>2. j \in 1..i /\ \A m \in 1..i : j < m => old[m] \notin Range(new)
    BY <2>1
  <2>3. PICK p \in 1..Len(new) : old[j] = new[p]
    <3>1. DOMAIN new = 1..Len(new)
      OBVIOUS
    <3> QED BY <3>1, <2>1 DEF Range
  <2>4. Gap(old, new, i) = p
    BY <2>2, <2>3, GapIs
  <2> QED BY <2>2, <2>3, <2>4
<1> QED BY <1>1, <1>2

\* Two files of one history: their lines have numbers from 1 on.
Related(old, new) ==
  /\ old \in Seq(Nat \ {0}) /\ new \in Seq(Nat \ {0})
  /\ Ordered(old, new) /\ Ordered(old, old) /\ Ordered(new, new)

LEMMA LineIs ==
  ASSUME NEW a \in Seq(Nat \ {0}), NEW p \in Int
  PROVE  /\ p \in 1..Len(a) => Line(a, p) = a[p] /\ a[p] \in Nat \ {0}
         /\ p \notin 1..Len(a) => Line(a, p) = 0
BY DEF Line

\* What is the same around a line is in no hunk.
LEMMA SameIsOutside ==
  ASSUME NEW old, NEW new, Related(old, new), NEW p \in 1..Len(new), Untouched(old, new, p)
  PROVE  p \notin ChangedLines(old, new)
<1>1. /\ old \in Seq(Nat) /\ new \in Seq(Nat) /\ DOMAIN old = 1..Len(old) /\ DOMAIN new = 1..Len(new)
      /\ Context \in Nat /\ p \in Int /\ Len(old) \in Nat /\ Len(new) \in Nat
  BY CoverageAssumption DEF Related
<1>2. PICK q \in 1..Len(old) : \A d \in -Context..Context : Line(old, q + d) = Line(new, p + d)
  BY <1>1 DEF Untouched
<1>3. ASSUME NEW x \in 1..Len(new), p - Context <= x, x <= p + Context
      PROVE  x + (q - p) \in 1..Len(old) /\ old[x + (q - p)] = new[x]
  <2>1. x - p \in -Context..Context /\ p + (x - p) = x /\ q + (x - p) = x + (q - p)
    BY <1>1, <1>3
  <2>2. Line(old, x + (q - p)) = Line(new, x)
    BY <1>2, <2>1
  <2>3. x + (q - p) \in Int /\ x \in Int
    BY <1>1
  <2>4. Line(new, x) = new[x] /\ new[x] \in Nat \ {0}
    BY <1>1, <2>3, LineIs DEF Related
  <2> QED BY <2>2, <2>3, <2>4, LineIs DEF Related
<1>4. ASSUME NEW x \in 1..Len(new), new[x] \notin Range(old), p - Context <= x, x <= p + Context
      PROVE  FALSE
  <2>1. x + (q - p) \in 1..Len(old) /\ old[x + (q - p)] = new[x]
    BY <1>3, <1>4
  <2> QED BY <1>1, <1>4, <2>1 DEF Range
<1>5. ASSUME NEW i \in 1..Len(old), old[i] \notin Range(new),
             Gap(old, new, i) - Context < p, p <= Gap(old, new, i) + Context
      PROVE  FALSE
  <2>1. CASE Gap(old, new, i) = 0 /\ \A m \in 1..i : old[m] \notin Range(new)
    <3>1. 0 - Context < p /\ p <= 0 + Context
      BY <1>5, <2>1
    <3>2. 1 \in 1..Len(new) /\ p - Context <= 1 /\ 1 <= p + Context
      BY <1>1, <3>1
    <3>3. 1 + (q - p) \in 1..Len(old) /\ old[1 + (q - p)] = new[1]
      BY <1>3, <3>2
    <3>4. 0 - p \in -Context..Context /\ q + (0 - p) = q - p /\ p + (0 - p) = 0
      BY <1>1, <3>1
    <3>5. Line(old, q - p) = Line(new, 0)
      BY <1>2, <3>4
    <3>6. Line(new, 0) = 0
      BY <1>1, LineIs DEF Related
    <3>7. q - p \notin 1..Len(old)
      <4>1. q - p \in Int
        BY <1>1
      <4>2. q - p \in 1..Len(old) => Line(old, q - p) = old[q - p] /\ old[q - p] \in Nat \ {0}
        BY <4>1, LineIs DEF Related
      <4> QED BY <3>5, <3>6, <4>2
    <3>8. q = p
      BY <1>1, <3>3, <3>7
    <3>9. old[1] = new[1]
      <4>1. 1 + (q - p) = 1
        BY <1>1, <3>8
      <4> QED BY <3>3, <4>1
    <3>10. 1 \in 1..i
      BY <1>5
    <3> QED BY <1>1, <2>1, <3>2, <3>9, <3>10 DEF Range
  <2>2. ASSUME NEW j \in 1..i, NEW g \in 1..Len(new), old[j] = new[g], Gap(old, new, i) = g,
               \A m \in 1..i : j < m => old[m] \notin Range(new)
        PROVE  FALSE
    <3>1. g - Context < p /\ p <= g + Context /\ g \in Int /\ j \in Int /\ i \in Int
      BY <1>5, <2>2
    <3>2. g + (q - p) \in 1..Len(old) /\ old[g + (q - p)] = new[g]
      BY <1>1, <1>3, <3>1
    <3>3. g + (q - p) = j
      <4>1. j \in 1..Len(old)
        BY <1>1, <3>1
      <4> QED BY <1>1, <2>2, <3>2, <4>1, NoLineTwice DEF Related
    <3>4. j # i
      <4>1. new[g] \in Range(new)
        BY <1>1 DEF Range
      <4> QED BY <1>5, <2>2, <4>1
    <3>5. j + 1 \in 1..i /\ j + 1 \in 1..Len(old) /\ j < j + 1
      BY <1>1, <3>1, <3>4
    <3>6. g + 1 - p \in -Context..Context /\ q + (g + 1 - p) = j + 1 /\ p + (g + 1 - p) = g + 1
      BY <1>1, <3>1, <3>3
    <3>7. Line(old, j + 1) = Line(new, g + 1)
      BY <1>2, <3>6
    <3>8. Line(old, j + 1) = old[j + 1] /\ old[j + 1] # 0
      <4>1. j + 1 \in Int
        BY <3>1
      <4> QED BY <3>5, <4>1, LineIs DEF Related
    <3>9. g + 1 \in 1..Len(new) /\ new[g + 1] = old[j + 1]
      <4>1. g + 1 \in Int
        BY <3>1
      <4> QED BY <3>7, <3>8, <4>1, LineIs DEF Related
    <3>10. old[j + 1] \in Range(new)
      BY <1>1, <3>9 DEF Range
    <3> QED BY <2>2, <3>5, <3>10
  <2>3. \/ Gap(old, new, i) = 0 /\ \A m \in 1..i : old[m] \notin Range(new)
        \/ \E j \in 1..i, g \in 1..Len(new) :
             /\ old[j] = new[g] /\ Gap(old, new, i) = g
             /\ \A m \in 1..i : j < m => old[m] \notin Range(new)
    BY <1>1, Gaps DEF Related
  <2> QED BY <2>1, <2>2, <2>3
<1> QED BY <1>1, <1>4, <1>5 DEF ChangedLines

\* No line near p is new, and none is gone from there.
Quiet(old, new, p) ==
  /\ \A x \in 1..Len(new) : p - Context <= x /\ x <= p + Context => new[x] \in Range(old)
  /\ \A i \in 1..Len(old) :
       old[i] \notin Range(new) => ~(Gap(old, new, i) - Context < p /\ p <= Gap(old, new, i) + Context)

Both(old, new, y, x) == y \in 1..Len(old) /\ x \in 1..Len(new) /\ old[y] = new[x]

LEMMA OutsideIsQuiet ==
  ASSUME NEW old, NEW new, Related(old, new), NEW p \in 1..Len(new), p \notin ChangedLines(old, new)
  PROVE  Quiet(old, new, p)
<1>1. DOMAIN old = 1..Len(old) /\ DOMAIN new = 1..Len(new) /\ Context \in Nat
  BY CoverageAssumption DEF Related
<1> QED BY <1>1 DEF ChangedLines, Quiet

LEMMA SamePlace ==
  ASSUME NEW old, NEW new, Related(old, new), NEW y, NEW x, Both(old, new, y, x),
         NEW z, NEW w, Both(old, new, z, w)
  PROVE  (y < z <=> x < w) /\ (z < y <=> w < x) /\ (y = z <=> x = w)
<1>1. /\ old \in Seq(Nat) /\ new \in Seq(Nat) /\ Ordered(old, new)
      /\ y \in 1..Len(old) /\ z \in 1..Len(old) /\ x \in 1..Len(new) /\ w \in 1..Len(new)
      /\ old[y] = new[x] /\ old[z] = new[w]
  BY DEF Related, Both
<1>2. DOMAIN old = 1..Len(old) /\ DOMAIN new = 1..Len(new)
  BY <1>1
<1>3. y < z <=> x < w
  BY <1>1, <1>2 DEF Ordered
<1>4. z < y <=> w < x
  BY <1>1, <1>2 DEF Ordered
<1>5. y \in Int /\ z \in Int /\ x \in Int /\ w \in Int
  BY <1>1
<1> QED BY <1>3, <1>4, <1>5

\* The line behind a pair of lines is a pair, or both files end there.
LEMMA NextPair ==
  ASSUME NEW old, NEW new, Related(old, new), NEW p \in 1..Len(new), Quiet(old, new, p),
         NEW y, NEW x, Both(old, new, y, x), p <= x, x < p + Context
  PROVE  Both(old, new, y + 1, x + 1) \/ (y = Len(old) /\ x = Len(new))
<1>1. /\ old \in Seq(Nat) /\ new \in Seq(Nat) /\ DOMAIN old = 1..Len(old) /\ DOMAIN new = 1..Len(new)
      /\ Context \in Nat /\ p \in Int /\ Len(old) \in Nat /\ Len(new) \in Nat
      /\ y \in 1..Len(old) /\ x \in 1..Len(new) /\ y \in Int /\ x \in Int /\ old[y] = new[x]
  BY CoverageAssumption DEF Related, Both
<1>2. ASSUME x + 1 \in 1..Len(new) PROVE \E z : Both(old, new, z, x + 1) /\ y < z
  <2>1. new[x + 1] \in Range(old)
    BY <1>1, <1>2 DEF Quiet
  <2>2. PICK z \in 1..Len(old) : old[z] = new[x + 1]
    BY <1>1, <2>1 DEF Range
  <2>3. Both(old, new, z, x + 1)
    BY <1>2, <2>2 DEF Both
  <2>4. y < z
    BY <1>1, <2>3, SamePlace
  <2> QED BY <2>3, <2>4
<1>3. CASE y + 1 \in 1..Len(old)
  <2>1. old[y + 1] \in Range(new)
    <3>1. SUFFICES ASSUME old[y + 1] \notin Range(new) PROVE FALSE
      OBVIOUS
    <3>2. y \in 1..(y + 1) /\ \A m \in 1..(y + 1) : y < m => m = y + 1
      BY <1>1
    <3>3. Gap(old, new, y + 1) = x
      <4>1. Ordered(old, new) /\ Ordered(old, old) /\ Ordered(new, new)
        BY DEF Related
      <4>2. \A m \in 1..(y + 1) : y < m => old[m] \notin Range(new)
        BY <3>1, <3>2
      <4> QED BY <1>1, <1>3, <3>2, <4>1, <4>2, GapIs
    <3>4. ~(x - Context < p /\ p <= x + Context)
      BY <1>3, <3>1, <3>3 DEF Quiet
    <3> QED BY <1>1, <3>4
  <2>2. PICK w \in 1..Len(new) : new[w] = old[y + 1]
    BY <1>1, <2>1 DEF Range
  <2>3. Both(old, new, y + 1, w)
    BY <1>3, <2>2 DEF Both
  <2>4. x < w /\ w \in Int
    BY <1>1, <2>3, SamePlace
  <2>5. x + 1 \in 1..Len(new)
    BY <1>1, <2>4
  <2>6. PICK z : Both(old, new, z, x + 1) /\ y < z
    BY <1>2, <2>5
  <2>7. z \in Int
    BY <2>6 DEF Both
  <2>8. w = x + 1
    <3>1. ~(z < y + 1)
      BY <1>1, <2>6, <2>7
    <3>2. ~(x + 1 < w)
      BY <2>3, <2>6, <3>1, SamePlace
    <3> QED BY <1>1, <2>4, <3>2
  <2> QED BY <2>3, <2>8
<1>4. CASE y + 1 \notin 1..Len(old)
  <2>1. y = Len(old)
    <3>1. y \in Int /\ Len(old) \in Int /\ 1 <= y /\ y <= Len(old)
      BY <1>1
    <3>2. ~(y + 1 <= Len(old))
      BY <1>4, <3>1
    <3> QED BY <3>1, <3>2
  <2>2. x + 1 \notin 1..Len(new)
    <3>1. SUFFICES ASSUME x + 1 \in 1..Len(new) PROVE FALSE
      OBVIOUS
    <3>2. PICK z : Both(old, new, z, x + 1) /\ y < z
      BY <1>2, <3>1
    <3> QED BY <1>1, <2>1, <3>2 DEF Both
  <2>3. x = Len(new)
    <3>1. x \in Int /\ Len(new) \in Int /\ 1 <= x /\ x <= Len(new)
      BY <1>1
    <3>2. ~(x + 1 <= Len(new))
      BY <2>2, <3>1
    <3> QED BY <3>1, <3>2
  <2> QED BY <2>1, <2>3
<1> QED BY <1>3, <1>4

\* So is the line before it, or both files start there.
LEMMA PreviousPair ==
  ASSUME NEW old, NEW new, Related(old, new), NEW p \in 1..Len(new), Quiet(old, new, p),
         NEW y, NEW x, Both(old, new, y, x), x <= p, p - Context < x
  PROVE  Both(old, new, y - 1, x - 1) \/ (y = 1 /\ x = 1)
<1>1. /\ old \in Seq(Nat) /\ new \in Seq(Nat) /\ DOMAIN old = 1..Len(old) /\ DOMAIN new = 1..Len(new)
      /\ Context \in Nat /\ p \in Int /\ Len(old) \in Nat /\ Len(new) \in Nat
      /\ y \in 1..Len(old) /\ x \in 1..Len(new) /\ y \in Int /\ x \in Int /\ old[y] = new[x]
  BY CoverageAssumption DEF Related, Both
<1>2. ASSUME x - 1 \in 1..Len(new) PROVE \E z : Both(old, new, z, x - 1) /\ z < y
  <2>1. new[x - 1] \in Range(old)
    BY <1>1, <1>2 DEF Quiet
  <2>2. PICK z \in 1..Len(old) : old[z] = new[x - 1]
    BY <1>1, <2>1 DEF Range
  <2>3. Both(old, new, z, x - 1)
    BY <1>2, <2>2 DEF Both
  <2>4. z < y
    BY <1>1, <2>3, SamePlace
  <2> QED BY <2>3, <2>4
<1>3. CASE y - 1 \in 1..Len(old)
  <2>1. old[y - 1] \in Range(new)
    <3>1. SUFFICES ASSUME old[y - 1] \notin Range(new) PROVE FALSE
      OBVIOUS
    <3>2. ~(x - 1 - Context < p /\ p <= x - 1 + Context) => FALSE
      BY <1>1
    <3>3. CASE Gap(old, new, y - 1) = 0 /\ \A m \in 1..(y - 1) : old[m] \notin Range(new)
      <4>1. x = 1
        <5>1. SUFFICES ASSUME x # 1 PROVE FALSE
          OBVIOUS
        <5>2. x - 1 \in 1..Len(new)
          BY <1>1, <5>1
        <5>3. PICK z : Both(old, new, z, x - 1) /\ z < y
          BY <1>2, <5>2
        <5>4. z \in 1..(y - 1) /\ old[z] = new[x - 1]
          BY <1>1, <5>3 DEF Both
        <5>5. old[z] \in Range(new)
          BY <1>1, <5>2, <5>4 DEF Range
        <5> QED BY <3>3, <5>4, <5>5
      <4>2. Gap(old, new, y - 1) = x - 1
        BY <3>3, <4>1
      <4> QED BY <1>3, <3>1, <3>2, <4>2 DEF Quiet
    <3>4. ASSUME NEW j \in 1..(y - 1), NEW g \in 1..Len(new), old[j] = new[g], Gap(old, new, y - 1) = g,
                 \A m \in 1..(y - 1) : j < m => old[m] \notin Range(new)
          PROVE  FALSE
      <4>1. j \in Int /\ g \in Int /\ j < y /\ Both(old, new, j, g)
        BY <1>1, <3>4 DEF Both
      <4>2. g < x
        BY <4>1, SamePlace
      <4>3. g = x - 1
        <5>1. SUFFICES ASSUME g # x - 1 PROVE FALSE
          OBVIOUS
        <5>2. x - 1 \in 1..Len(new) /\ g < x - 1
          BY <1>1, <4>1, <4>2, <5>1
        <5>3. PICK z : Both(old, new, z, x - 1) /\ z < y
          BY <1>2, <5>2
        <5>4. j < z
          BY <4>1, <5>2, <5>3, SamePlace
        <5>5. z \in 1..(y - 1) /\ old[z] = new[x - 1]
          BY <1>1, <5>3 DEF Both
        <5>6. old[z] \in Range(new)
          BY <1>1, <5>2, <5>5 DEF Range
        <5> QED BY <3>4, <5>4, <5>5, <5>6
      <4> QED BY <1>3, <3>1, <3>2, <3>4, <4>3 DEF Quiet
    <3>5. \/ Gap(old, new, y - 1) = 0 /\ \A m \in 1..(y - 1) : old[m] \notin Range(new)
          \/ \E j \in 1..(y - 1), g \in 1..Len(new) :
               /\ old[j] = new[g] /\ Gap(old, new, y - 1) = g
               /\ \A m \in 1..(y - 1) : j < m => old[m] \notin Range(new)
      BY <1>1, <1>3, Gaps DEF Related
    <3> QED BY <3>3, <3>4, <3>5
  <2>2. PICK w \in 1..Len(new) : new[w] = old[y - 1]
    BY <1>1, <2>1 DEF Range
  <2>3. Both(old, new, y - 1, w)
    BY <1>3, <2>2 DEF Both
  <2>4. w < x /\ w \in Int
    BY <1>1, <2>3, SamePlace
  <2>5. x - 1 \in 1..Len(new)
    BY <1>1, <2>4
  <2>6. PICK z : Both(old, new, z, x - 1) /\ z < y
    BY <1>2, <2>5
  <2>7. z \in Int
    BY <2>6 DEF Both
  <2>8. w = x - 1
    <3>1. ~(y - 1 < z)
      BY <1>1, <2>6, <2>7
    <3>2. ~(w < x - 1)
      BY <2>3, <2>6, <3>1, SamePlace
    <3> QED BY <1>1, <2>4, <3>2
  <2> QED BY <2>3, <2>8
<1>4. CASE y - 1 \notin 1..Len(old)
  <2>1. y = 1
    BY <1>1, <1>4
  <2>2. x - 1 \notin 1..Len(new)
    <3>1. SUFFICES ASSUME x - 1 \in 1..Len(new) PROVE FALSE
      OBVIOUS
    <3>2. PICK z : Both(old, new, z, x - 1) /\ z < y
      BY <1>2, <3>1
    <3> QED BY <1>1, <2>1, <3>2 DEF Both
  <2> QED BY <1>1, <2>1, <2>2
<1> QED BY <1>3, <1>4

\* What is in no hunk is the same, as far as the context reaches.
LEMMA OutsideIsSame ==
  ASSUME NEW old, NEW new, Related(old, new), NEW p \in 1..Len(new), p \notin ChangedLines(old, new)
  PROVE  Untouched(old, new, p)
<1>1. /\ old \in Seq(Nat) /\ new \in Seq(Nat) /\ DOMAIN old = 1..Len(old) /\ DOMAIN new = 1..Len(new)
      /\ Context \in Nat /\ p \in Int /\ Len(old) \in Nat /\ Len(new) \in Nat
  BY CoverageAssumption DEF Related
<1>2. Quiet(old, new, p)
  BY OutsideIsQuiet
<1>3. PICK q \in 1..Len(old) : old[q] = new[p]
  <2>1. new[p] \in Range(old)
    BY <1>1, <1>2 DEF Quiet
  <2> QED BY <1>1, <2>1 DEF Range
<1>4. q \in Int /\ Both(old, new, q, p)
  BY <1>1, <1>3 DEF Both
<1> DEFINE Down(d) == Both(old, new, q + d, p + d) \/ (q + d > Len(old) /\ p + d > Len(new))
           Up(d) == Both(old, new, q - d, p - d) \/ (q - d < 1 /\ p - d < 1)
<1>5. ASSUME NEW d \in Nat, d < Context, Down(d) PROVE Down(d + 1)
  <2>1. q + (d + 1) = (q + d) + 1 /\ p + (d + 1) = (p + d) + 1
    BY <1>1, <1>4
  <2>2. CASE Both(old, new, q + d, p + d)
    <3>1. p <= p + d /\ p + d < p + Context
      BY <1>1, <1>5
    <3>2. Both(old, new, (q + d) + 1, (p + d) + 1) \/ (q + d = Len(old) /\ p + d = Len(new))
      BY <1>2, <2>2, <3>1, NextPair
    <3>3. CASE Both(old, new, (q + d) + 1, (p + d) + 1)
      BY <2>1, <3>3
    <3>4. CASE q + d = Len(old) /\ p + d = Len(new)
      BY <1>1, <1>4, <3>4
    <3> QED BY <3>2, <3>3, <3>4
  <2>3. CASE q + d > Len(old) /\ p + d > Len(new)
    BY <1>1, <1>4, <2>3
  <2> QED BY <1>5, <2>2, <2>3
<1>6. ASSUME NEW d \in Nat, d < Context, Up(d) PROVE Up(d + 1)
  <2>1. q - (d + 1) = (q - d) - 1 /\ p - (d + 1) = (p - d) - 1
    BY <1>1, <1>4
  <2>2. CASE Both(old, new, q - d, p - d)
    <3>1. p - d <= p /\ p - Context < p - d
      BY <1>1, <1>6
    <3>2. Both(old, new, (q - d) - 1, (p - d) - 1) \/ (q - d = 1 /\ p - d = 1)
      BY <1>2, <2>2, <3>1, PreviousPair
    <3>3. CASE Both(old, new, (q - d) - 1, (p - d) - 1)
      BY <2>1, <3>3
    <3>4. CASE q - d = 1 /\ p - d = 1
      BY <1>1, <1>4, <3>4
    <3> QED BY <3>2, <3>3, <3>4
  <2>3. CASE q - d < 1 /\ p - d < 1
    BY <1>1, <1>4, <2>3
  <2> QED BY <1>6, <2>2, <2>3
<1>7. q + 0 = q /\ p + 0 = p /\ q - 0 = q /\ p - 0 = p
  BY <1>1, <1>4
<1>8. Down(0) /\ Up(0)
  BY <1>4, <1>7
<1> DEFINE Both2(d) == Down(d) /\ Up(d)
           Bad == {d \in Nat : d <= Context /\ ~Both2(d)}
<1>9. Bad = {}
  <2>1. SUFFICES ASSUME Bad # {} PROVE FALSE
    OBVIOUS
  <2>2. PICK d \in Bad : \A k \in Bad : d <= k
    <3>1. Bad \in SUBSET Nat
      OBVIOUS
    <3> HIDE DEF Bad
    <3> QED BY <2>1, <3>1, Least
  <2> HIDE DEF Down, Up
  <2>3. d \in Nat /\ d <= Context /\ ~Both2(d)
    BY <2>2
  <2>4. d # 0
    BY <1>8, <2>3
  <2>5. d - 1 \in Nat /\ d - 1 < Context /\ d - 1 + 1 = d
    BY <1>1, <2>3, <2>4
  <2>6. Both2(d - 1)
    <3>1. ~(d <= d - 1) /\ d - 1 <= Context
      BY <1>1, <2>3, <2>5
    <3>2. d - 1 \notin Bad
      BY <2>2, <3>1
    <3> QED BY <2>5, <3>1, <3>2
  <2>7. Down(d - 1 + 1) /\ Up(d - 1 + 1)
    BY <1>5, <1>6, <2>5, <2>6
  <2> QED BY <2>3, <2>5, <2>7
<1>10. ASSUME NEW d \in -Context..Context PROVE Line(old, q + d) = Line(new, p + d)
  <2>0. \A y, x : Both(old, new, y, x) => Line(old, y) = Line(new, x)
    BY <1>1 DEF Both, Line
  <2>1. CASE d >= 0
    <3>1. d \in Nat /\ d <= Context
      BY <1>1, <2>1
    <3>2. Down(d)
      <4> HIDE DEF Down, Up
      <4> QED BY <1>9, <3>1
    <3>3. CASE Both(old, new, q + d, p + d)
      BY <2>0, <3>3
    <3>4. CASE q + d > Len(old) /\ p + d > Len(new)
      <4>1. q + d \notin 1..Len(old) /\ p + d \notin 1..Len(new)
        BY <1>1, <1>4, <3>1, <3>4
      <4> QED BY <1>1, <4>1 DEF Line
    <3> QED BY <3>2, <3>3, <3>4
  <2>2. CASE d < 0
    <3> DEFINE e == 0 - d
    <3>1. e \in Nat /\ e <= Context /\ q + d = q - e /\ p + d = p - e
      BY <1>1, <1>4, <2>2
    <3> HIDE DEF e
    <3>2. Up(e)
      <4> HIDE DEF Down, Up
      <4> QED BY <1>9, <3>1
    <3>3. CASE Both(old, new, q - e, p - e)
      BY <2>0, <3>1, <3>3
    <3>4. CASE q - e < 1 /\ p - e < 1
      <4>1. q - e \notin 1..Len(old) /\ p - e \notin 1..Len(new)
        BY <1>1, <1>4, <3>1, <3>4
      <4> QED BY <1>1, <3>1, <4>1 DEF Line
    <3> QED BY <3>2, <3>3, <3>4
  <2>3. d >= 0 \/ d < 0
    BY <1>1
  <2> QED BY <2>1, <2>2, <2>3
<1> QED BY <1>1, <1>3, <1>10 DEF Untouched

\* Sameness goes on from file to file.
LEMMA SameGoesOn ==
  ASSUME NEW head, NEW old, NEW new, Related(head, old), Related(old, new),
         NEW p \in 1..Len(new), NEW q \in 1..Len(old),
         \A d \in -Context..Context : Line(old, q + d) = Line(new, p + d), Untouched(head, old, q)
  PROVE  Untouched(head, new, p)
BY DEF Untouched

-----------------------------------------------------------------------------
(* One history.                                                            *)

TreesOf(b) == Range(commits[b])
PageTrees(page) == {page.tree, page.head}
Committed == UNION {TreesOf(b) : b \in Branch}
Stored == UNION {{sessions[n].tree} \cup PageTrees(sessions[n].page) : n \in DOMAIN sessions}
Trees == {FirstTree, index} \cup PageTrees(asked.page) \cup Committed \cup Stored

\* However often the user went back and forth: any two trees somebody still knows are of one
\* history, and no line is newer than the last edit.
OneHistory ==
  /\ \A t, u \in Trees, f \in File : Related(t[f], u[f])
  /\ \A t \in Trees, f \in File : \A l \in Range(t[f]) : l <= line

\* What a review shows is what git shows of its page.
Shows(entries, page) == entries = Entries(page.head, page.tree, page.without)
StoredAsShown ==
  /\ asked # NoReview => Shows(asked.entries, asked.page)
  /\ \A id \in DOMAIN sessions : Shows(sessions[id].entries, sessions[id].page)

ShownInv == TreesAreTrees /\ OneHistory /\ StoredAsShown /\ faults \in Nat

LEMMA WhereTreesAre ==
  ASSUME NEW t
  PROVE  t \in Trees <=> \/ t \in {FirstTree, index}
                         \/ t \in PageTrees(asked.page)
                         \/ \E b \in Branch : t \in TreesOf(b)
                         \/ \E n \in DOMAIN sessions :
                              t \in {sessions[n].tree} \cup PageTrees(sessions[n].page)
<1>1. t \in Committed <=> \E b \in Branch : t \in TreesOf(b)
  BY DEF Committed
<1>2. t \in Stored <=> \E n \in DOMAIN sessions : t \in {sessions[n].tree} \cup PageTrees(sessions[n].page)
  BY DEF Stored
<1> QED BY <1>1, <1>2 DEF Trees

LEMMA WhereTreesAreNext ==
  ASSUME NEW t, t \in Trees'
  PROVE  \/ t \in {FirstTree, index'}
         \/ t \in PageTrees(asked'.page)
         \/ \E b \in Branch : t \in Range(commits'[b])
         \/ \E n \in DOMAIN sessions' : t \in {sessions'[n].tree} \cup PageTrees(sessions'[n].page)
<1>1. t \in Committed' <=> \E b \in Branch : t \in Range(commits'[b])
  BY DEF Committed, TreesOf
<1>2. t \in Stored' <=> \E n \in DOMAIN sessions' : t \in {sessions'[n].tree} \cup PageTrees(sessions'[n].page)
  BY DEF Stored, PageTrees
<1>3. Trees' = {FirstTree, index'} \cup PageTrees(asked'.page) \cup Committed' \cup Stored'
  BY DEF Trees, PageTrees
<1> QED BY <1>1, <1>2, <1>3

LEMMA HistoryStays ==
  ASSUME OneHistory, Trees' \subseteq Trees, UNCHANGED line
  PROVE  OneHistory'
BY DEF OneHistory

\* A file with an edit is related to what its file was related to.
LEMMA EditRelates ==
  ASSUME TreesAreTrees, OneHistory, line' = line + 1, NEW f \in File, NEW e \in Seq(Nat),
         Range(e) \subseteq Range(index[f]) \cup {line'}, Ordered(e, e),
         \A b \in Seq(Nat) : Ordered(index[f], b) /\ line' \notin Range(b) => Ordered(e, b),
         index' = [index EXCEPT ![f] = e], Trees' \subseteq Trees \cup {index'}
  PROVE  OneHistory'
<1>1. line \in Nat /\ line' \in Nat /\ line' # 0 /\ line < line' /\ index \in Trees /\ index \in Tree
  BY DEF TreesAreTrees, Trees
<1>2. index'[f] = e /\ \A g \in File : g # f => index'[g] = index[g]
  BY <1>1 DEF Tree
<1>3. \A t \in Trees, g \in File : line' \notin Range(t[g])
  <2>1. SUFFICES ASSUME NEW t \in Trees, NEW g \in File, line' \in Range(t[g]) PROVE FALSE
    OBVIOUS
  <2>2. line' <= line
    BY <2>1 DEF OneHistory
  <2> QED BY <1>1, <2>2
<1>4. e \in Seq(Nat \ {0})
  <2>1. index[f] \in Seq(Nat \ {0})
    BY <1>1 DEF OneHistory, Related
  <2>2. \A l \in Range(index[f]) : l \in Nat \ {0}
    <3>1. \A i \in DOMAIN index[f] : index[f][i] \in Nat \ {0}
      BY <2>1
    <3> QED BY <3>1 DEF Range
  <2>3. \A i \in 1..Len(e) : e[i] \in Nat \ {0}
    <3>1. SUFFICES ASSUME NEW i \in 1..Len(e) PROVE e[i] \in Nat \ {0}
      OBVIOUS
    <3>2. e[i] \in Range(e)
      BY DEF Range
    <3> QED BY <1>1, <2>2, <3>2
  <2> QED BY <2>3
<1>5. ASSUME NEW t \in Trees PROVE Related(e, t[f]) /\ Related(t[f], e)
  <2>1. Related(index[f], t[f])
    BY <1>1 DEF OneHistory
  <2>2. t[f] \in Seq(Nat)
    BY <2>1 DEF Related
  <2>3. Ordered(e, t[f])
    BY <1>3, <2>1, <2>2 DEF Related
  <2>4. Ordered(t[f], e)
    BY <2>3, OrderedTurns
  <2> QED BY <1>4, <2>1, <2>3, <2>4 DEF Related
<1>6. Related(e, e)
  BY <1>4 DEF Related
<1>7. ASSUME NEW t \in Trees, NEW g \in File PROVE Related(index'[g], t[g]) /\ Related(t[g], index'[g])
  <2>1. CASE g = f
    BY <1>2, <1>5, <2>1
  <2>2. CASE g # f
    BY <1>1, <1>2, <2>2 DEF OneHistory
  <2> QED BY <2>1, <2>2
<1>8. ASSUME NEW g \in File PROVE Related(index'[g], index'[g])
  <2>1. CASE g = f
    BY <1>2, <1>6, <2>1
  <2>2. CASE g # f
    BY <1>1, <1>2, <2>2 DEF OneHistory
  <2> QED BY <2>1, <2>2
<1>9. ASSUME NEW g \in File, NEW l \in Range(index'[g]) PROVE l <= line'
  <2>1. \A k \in Range(index[g]) : k <= line'
    <3>1. SUFFICES ASSUME NEW k \in Range(index[g]) PROVE k <= line'
      OBVIOUS
    <3>2. k <= line
      BY <1>1 DEF OneHistory
    <3>3. k \in Nat
      BY <1>1 DEF Range, Tree
    <3> QED BY <1>1, <3>2, <3>3
  <2>2. CASE g = f
    BY <1>1, <1>2, <2>1, <2>2
  <2>3. CASE g # f
    BY <1>2, <2>1, <2>3
  <2> QED BY <2>2, <2>3
<1>10. ASSUME NEW t \in Trees, NEW g \in File, NEW l \in Range(t[g]) PROVE l <= line'
  <2>1. l <= line
    BY DEF OneHistory
  <2>2. l \in Nat
    <3>1. t[g] \in Seq(Nat)
      BY DEF OneHistory, Related
    <3> QED BY <3>1 DEF Range
  <2> QED BY <1>1, <2>1, <2>2
<1>11. ASSUME NEW t \in Trees', NEW u \in Trees', NEW g \in File PROVE Related(t[g], u[g])
  <2>1. (t \in Trees \/ t = index') /\ (u \in Trees \/ u = index')
    OBVIOUS
  <2> QED BY <1>7, <1>8, <2>1 DEF OneHistory
<1>12. ASSUME NEW t \in Trees', NEW g \in File, NEW l \in Range(t[g]) PROVE l <= line'
  <2>1. t \in Trees \/ t = index'
    OBVIOUS
  <2> QED BY <1>9, <1>10, <2>1
<1> QED BY <1>11, <1>12 DEF OneHistory

LEMMA HeadIsKnown ==
  ASSUME TreesAreTrees, NEW b \in Branch
  PROVE  Last(commits[b]) \in TreesOf(b)
<1>1. commits[b] \in Seq(Tree) /\ Len(commits[b]) \in 1..Len(commits[b])
  BY DEF TreesAreTrees
<1> QED BY <1>1 DEF Last, TreesOf, Range

LEMMA RecordTrees ==
  ASSUME TreesAreTrees, StoredAsShown, NEW action, NEW page, NEW entries, NEW counts, NEW stores, NEW lost,
         RecordAndComputeCoverage(action, page, entries, counts, stores, lost),
         Shows(entries, page), PageTrees(page) \subseteq Trees,
         UNCHANGED <<userVars, index>>, asked' \in {asked, NoReview}
  PROVE  Trees' \subseteq Trees /\ StoredAsShown'
<1> DEFINE row == Session(action, page, entries)
           Of(s) == {s.tree} \cup PageTrees(s.page)
<1>1. ASSUME NEW id \in DOMAIN sessions' PROVE \/ id \in DOMAIN sessions /\ sessions'[id] = sessions[id]
                                               \/ sessions'[id] = row
  <2>1. sessions' = sessions \/ sessions' = InsertReviewSession(row)
    BY DEF RecordAndComputeCoverage
  <2> HIDE DEF row
  <2> QED BY <2>1 DEF InsertReviewSession
<1>2. row.tree = index /\ row.page = page /\ row.entries = entries
  BY DEF Session
<1>3. PageTrees(NoReview.page) \subseteq Trees
  BY DEF NoReview, NoPage, Page, PageTrees, Trees
<1>4. PageTrees(asked'.page) \subseteq Trees
  <2>1. PageTrees(asked.page) \subseteq Trees
    BY DEF Trees
  <2> QED BY <1>3, <2>1
<1> HIDE DEF row
<1>5. ASSUME NEW id \in DOMAIN sessions' PROVE Of(sessions'[id]) \subseteq Trees
  <2>1. index \in Trees /\ \A i \in DOMAIN sessions : Of(sessions[i]) \subseteq Trees
    <3>1. ASSUME NEW i \in DOMAIN sessions, NEW t \in Of(sessions[i]) PROVE t \in Trees
      BY <3>1, WhereTreesAre
    <3>2. index \in Trees
      BY DEF Trees
    <3> HIDE DEF Of
    <3> QED BY <3>1, <3>2
  <2>2. Of(row) \subseteq Trees
    BY <1>2, <2>1
  <2> HIDE DEF Of
  <2> QED BY <1>1, <2>1, <2>2
<1>6. \A b \in Branch : TreesOf(b)' \subseteq Trees
  <2>1. SUFFICES ASSUME NEW b \in Branch, NEW t \in TreesOf(b)' PROVE t \in Trees
    OBVIOUS
  <2>2. t \in TreesOf(b)
    BY <2>1 DEF TreesOf, userVars
  <2> QED BY <2>2, WhereTreesAre
<1>7. Trees' \subseteq Trees
  <2>1. {FirstTree, index'} \subseteq Trees
    BY DEF Trees
  <2>2. SUFFICES ASSUME NEW t \in Trees' PROVE t \in Trees
    OBVIOUS
  <2>3. \/ t \in {FirstTree, index'}
        \/ t \in PageTrees(asked'.page)
        \/ \E b \in Branch : t \in TreesOf(b)'
        \/ \E n \in DOMAIN sessions' : t \in Of(sessions'[n])
    BY <2>2, WhereTreesAreNext DEF TreesOf
  <2> HIDE DEF Of
  <2> QED BY <1>4, <1>5, <1>6, <2>1, <2>3
<1>8. StoredAsShown'
  <2>1. asked' # NoReview => Shows(asked'.entries, asked'.page)
    BY DEF StoredAsShown
  <2>2. \A id \in DOMAIN sessions' : Shows(sessions'[id].entries, sessions'[id].page)
    BY <1>1, <1>2 DEF StoredAsShown
  <2> QED BY <2>1, <2>2 DEF StoredAsShown, Shows
<1> QED BY <1>7, <1>8

\* A commit, and what else only moves trees.
LEMMA MovesTrees ==
  ASSUME TreesAreTrees, StoredAsShown, UNCHANGED line,
         index' \in Trees,
         \A b \in Branch : TreesOf(b)' \subseteq Trees,
         asked' = asked \/ asked' = NoReview
           \/ (Shows(asked'.entries, asked'.page) /\ PageTrees(asked'.page) \subseteq Trees),
         DOMAIN sessions' \subseteq DOMAIN sessions, \A n \in DOMAIN sessions' : sessions'[n] = sessions[n]
  PROVE  Trees' \subseteq Trees /\ StoredAsShown'
<1>1. PageTrees(asked'.page) \subseteq Trees
  <2>1. PageTrees(NoReview.page) \subseteq Trees
    BY DEF NoReview, NoPage, Page, PageTrees, Trees
  <2>2. PageTrees(asked.page) \subseteq Trees
    BY DEF Trees
  <2> QED BY <2>1, <2>2
<1>2. ASSUME NEW t \in Trees' PROVE t \in Trees
  <2>1. \/ t \in {FirstTree, index'}
        \/ t \in PageTrees(asked'.page)
        \/ \E b \in Branch : t \in TreesOf(b)'
        \/ \E n \in DOMAIN sessions' : t \in {sessions'[n].tree} \cup PageTrees(sessions'[n].page)
    BY WhereTreesAreNext DEF TreesOf
  <2>2. FirstTree \in Trees
    BY DEF Trees
  <2>3. ASSUME NEW n \in DOMAIN sessions', t \in {sessions'[n].tree} \cup PageTrees(sessions'[n].page)
        PROVE  t \in Trees
    <3>1. n \in DOMAIN sessions /\ t \in {sessions[n].tree} \cup PageTrees(sessions[n].page)
      BY <2>3
    <3> QED BY <3>1, WhereTreesAre
  <2> QED BY <1>1, <2>1, <2>2, <2>3
<1>3. StoredAsShown'
  <2>1. asked' # NoReview => Shows(asked'.entries, asked'.page)
    BY DEF StoredAsShown
  <2>2. \A n \in DOMAIN sessions' : Shows(sessions'[n].entries, sessions'[n].page)
    BY DEF StoredAsShown
  <2> QED BY <2>1, <2>2 DEF StoredAsShown, Shows
<1> QED BY <1>2, <1>3

LEMMA ShownStep ==
  ASSUME ShownInv, [CoverageNext]_coverageVars
  PROVE  ShownInv'
<1>0. TreesAreTrees'
  BY TreesStep DEF ShownInv
<1>a. TreesAreTrees /\ OneHistory /\ StoredAsShown /\ faults \in Nat
  BY DEF ShownInv
<1>b. index \in Trees /\ \A b \in Branch : TreesOf(b) \subseteq Trees
  <2>1. index \in Trees
    BY DEF Trees
  <2> QED BY <2>1, WhereTreesAre
<1>c. branch \in Branch /\ HEAD \in Trees
  BY <1>a, <1>b, HeadIsKnown DEF TreesAreTrees, HEAD
<1>d. Trees' \subseteq Trees /\ StoredAsShown' /\ UNCHANGED line /\ faults' \in Nat => ShownInv'
  BY <1>0, <1>a, HistoryStays DEF ShownInv
<1>e. ASSUME UNCHANGED <<line, sessions, commits>>, faults' \in Nat, index' \in Trees,
             asked' = asked \/ asked' = NoReview
               \/ (Shows(asked'.entries, asked'.page) /\ PageTrees(asked'.page) \subseteq Trees)
      PROVE  ShownInv'
  <2>1. \A b \in Branch : TreesOf(b)' \subseteq Trees
    BY <1>b, <1>e DEF TreesOf
  <2> QED BY <1>a, <1>d, <1>e, <2>1, MovesTrees
<1>f. ASSUME NEW action, NEW page, NEW entries, NEW counts, NEW stores, NEW lost,
             RecordAndComputeCoverage(action, page, entries, counts, stores, lost),
             Shows(entries, page), PageTrees(page) \subseteq Trees,
             UNCHANGED <<userVars, index>>, asked' \in {asked, NoReview}
      PROVE  ShownInv'
  <2>1. faults' \in Nat
    BY <1>a, <1>f DEF RecordAndComputeCoverage
  <2>2. UNCHANGED line
    BY <1>f DEF userVars
  <2>3. Trees' \subseteq Trees /\ StoredAsShown'
    BY <1>a, <1>f, RecordTrees
  <2> QED BY <1>d, <2>1, <2>2, <2>3
<1>g. ASSUME NEW f \in File, NEW e \in Seq(Nat), Staged(f, e), line' = line + 1,
             Range(e) \subseteq Range(index[f]) \cup {line'}, Ordered(e, e),
             \A b \in Seq(Nat) : Ordered(index[f], b) /\ line' \notin Range(b) => Ordered(e, b)
      PROVE  ShownInv'
  <2>1. index' = [index EXCEPT ![f] = e] /\ UNCHANGED <<commits, sessions, asked, faults>>
    BY <1>g DEF Staged
  <2>2. ASSUME NEW t \in Trees' PROVE t \in Trees \cup {index'}
    <3>1. \/ t \in {FirstTree, index'}
          \/ t \in PageTrees(asked.page)
          \/ \E b \in Branch : t \in TreesOf(b)
          \/ \E n \in DOMAIN sessions : t \in {sessions[n].tree} \cup PageTrees(sessions[n].page)
      BY <2>1, WhereTreesAreNext DEF TreesOf
    <3> QED BY <3>1, WhereTreesAre
  <2>3. OneHistory'
    BY <1>a, <1>g, <2>1, <2>2, EditRelates
  <2>4. StoredAsShown'
    BY <1>a, <2>1 DEF StoredAsShown, Shows
  <2> QED BY <1>0, <1>a, <2>1, <2>3, <2>4 DEF ShownInv
<1>h. ASSUME NEW f \in File
      PROVE  index[f] \in Seq(Nat) /\ Ordered(index[f], index[f]) /\ line + 1 \in Nat /\ line + 1 \notin Range(index[f])
  <2>1. index[f] \in Seq(Nat) /\ Ordered(index[f], index[f]) /\ line + 1 \in Nat
    BY <1>a, <1>b DEF OneHistory, Related, TreesAreTrees
  <2>2. \A l \in Range(index[f]) : l <= line
    BY <1>a, <1>b DEF OneHistory
  <2>3. line \in Nat
    BY <1>a DEF TreesAreTrees
  <2> QED BY <2>1, <2>2, <2>3
<1>1. CASE StartReview
  <2>1. Shows(asked'.entries, asked'.page) /\ PageTrees(asked'.page) \subseteq Trees
    BY <1>1, <1>b, <1>c DEF StartReview, Shows, Page, PageTrees
  <2> QED BY <1>1, <1>a, <1>b, <1>e, <2>1 DEF StartReview, userVars
<1>2. CASE FinishReview
  <2>1. PICK action \in Ends, badCount \in Fails, badStore \in Fails, lost \in Lost :
          RecordAndComputeCoverage(action, asked.page, asked.entries, ~badCount, ~badStore, lost)
    BY <1>2 DEF FinishReview
  <2>2. Shows(asked.entries, asked.page) /\ PageTrees(asked.page) \subseteq Trees
    <3>1. PageTrees(asked.page) \subseteq Trees
      BY DEF Trees
    <3> QED BY <1>2, <1>a, <3>1 DEF FinishReview, StoredAsShown
  <2>3. UNCHANGED <<userVars, index>> /\ asked' \in {asked, NoReview}
    BY <1>2 DEF FinishReview
  <2> QED BY <1>f, <2>1, <2>2, <2>3
<1>3. CASE Decide
  <2>1. PICK action \in Decisions, badCount \in Fails, badStore \in Fails :
          RecordAndComputeCoverage(action, Page(index, HEAD, {}), Entries(HEAD, index, {}), ~badCount, ~badStore, {})
    BY <1>3 DEF Decide
  <2>2. Shows(Entries(HEAD, index, {}), Page(index, HEAD, {})) /\ PageTrees(Page(index, HEAD, {})) \subseteq Trees
    BY <1>b, <1>c DEF Shows, Page, PageTrees
  <2>3. UNCHANGED <<userVars, index>> /\ asked' \in {asked, NoReview}
    BY <1>3 DEF Decide
  <2> QED BY <1>f, <2>1, <2>2, <2>3
<1>4. CASE AbandonReview
  BY <1>4, <1>a, <1>b, <1>e DEF AbandonReview, userVars
<1>5. CASE AllExcluded
  BY <1>5, <1>a, <1>b, <1>e DEF AllExcluded, userVars
<1>6. ASSUME NEW f \in File, Write(f) PROVE ShownInv'
  <2>1. PICK p \in 1..(Len(index[f]) + 1) : Staged(f, InsertAt(index[f], p, line'))
    BY <1>6 DEF Write
  <2>2. line' = line + 1
    BY <1>6 DEF Write
  <2> DEFINE e == InsertAt(index[f], p, line')
  <2>3. /\ e \in Seq(Nat) /\ Range(e) \subseteq Range(index[f]) \cup {line'}
        /\ Ordered(e, e)
        /\ \A b \in Seq(Nat) : Ordered(index[f], b) /\ line' \notin Range(b) => Ordered(e, b)
    BY <1>h, <2>2, InsertOrdered
  <2>4. Staged(f, e)
    BY <2>1
  <2> HIDE DEF e
  <2> QED BY <1>g, <2>2, <2>3, <2>4
<1>7. ASSUME NEW f \in File, Delete(f) PROVE ShownInv'
  <2>1. line' = line + 1
    BY <1>7 DEF Delete
  <2>2. ASSUME NEW p \in DOMAIN index[f], Staged(f, RemoveAt(index[f], p)) PROVE ShownInv'
    <3> DEFINE e == RemoveAt(index[f], p)
    <3>1. /\ e \in Seq(Nat) /\ Range(e) \subseteq Range(index[f])
          /\ Ordered(e, e)
          /\ \A b \in Seq(Nat) : Ordered(index[f], b) /\ line' \notin Range(b) => Ordered(e, b)
      BY <1>h, <2>1, RemoveOrdered
    <3>2. Staged(f, e)
      BY <2>2
    <3> HIDE DEF e
    <3>3. Range(e) \subseteq Range(index[f]) \cup {line'}
      BY <3>1
    <3> QED BY <1>g, <2>1, <3>1, <3>2, <3>3
  <2>3. ASSUME Staged(f, <<>>) PROVE ShownInv'
    <3>1. <<>> \in Seq(Nat) /\ DOMAIN <<>> = {}
      OBVIOUS
    <3>2. Range(<<>>) \subseteq Range(index[f]) \cup {line'} /\ \A b : Ordered(<<>>, b)
      BY <3>1 DEF Range, Ordered
    <3> QED BY <1>g, <2>1, <2>3, <3>1, <3>2
  <2> QED BY <1>7, <2>2, <2>3 DEF Delete
<1>8. ASSUME NEW f \in Ignorable, SetIgnore(f) PROVE ShownInv'
  BY <1>8, <1>a, <1>b, <1>e DEF SetIgnore
<1>9. CASE Commit
  <2>1. commits' = [commits EXCEPT ![branch] = Append(@, index)] /\ UNCHANGED <<index, line, asked>>
    BY <1>9 DEF Commit
  <2>2. ASSUME NEW b \in Branch PROVE TreesOf(b)' \subseteq Trees
    <3>1. CASE b = branch
      <4>1. commits'[b] = Append(commits[b], index) /\ commits[b] \in Seq(Tree)
        BY <1>a, <2>1, <3>1 DEF TreesAreTrees
      <4>2. Range(Append(commits[b], index)) \subseteq Range(commits[b]) \cup {index}
        BY <4>1 DEF Range
      <4> QED BY <1>b, <4>1, <4>2 DEF TreesOf
    <3>2. CASE b # branch
      BY <1>a, <1>b, <2>1, <3>2 DEF TreesOf, TreesAreTrees
    <3> QED BY <3>1, <3>2
  <2>3. DOMAIN sessions' \subseteq DOMAIN sessions /\ \A n \in DOMAIN sessions' : sessions'[n] = sessions[n]
    BY <1>9 DEF Commit, Cleanup
  <2>4. faults' \in Nat
    <3>1. faults' = faults \/ faults' = faults + 1
      BY <1>9, Zenon DEF Commit
    <3> QED BY <1>a, <3>1
  <2> QED BY <1>a, <1>b, <1>d, <2>1, <2>2, <2>3, <2>4, MovesTrees
<1>10. CASE ResetSoft
  <2>1. commits' = [commits EXCEPT ![branch] = Front(@)] /\ UNCHANGED <<index, line, asked, sessions, faults>>
    BY <1>10 DEF ResetSoft
  <2>2. ASSUME NEW b \in Branch PROVE TreesOf(b)' \subseteq Trees
    <3>1. CASE b = branch
      <4>1. commits'[b] = Front(commits[b]) /\ commits[b] \in Seq(Tree) /\ Len(commits[b]) > 1
        BY <1>10, <1>a, <2>1, <3>1 DEF TreesAreTrees, ResetSoft
      <4>2. Range(Front(commits[b])) \subseteq Range(commits[b])
        BY <4>1 DEF Range, Front
      <4> QED BY <1>b, <4>1, <4>2 DEF TreesOf
    <3>2. CASE b # branch
      BY <1>a, <1>b, <2>1, <3>2 DEF TreesOf, TreesAreTrees
    <3> QED BY <3>1, <3>2
  <2> QED BY <1>a, <1>b, <1>d, <2>1, <2>2, MovesTrees
<1>11. ASSUME NEW b \in Branch, Switch(b) PROVE ShownInv'
  <2>1. index' = Last(commits[b]) /\ UNCHANGED <<line, sessions, commits, asked, faults>>
    BY <1>11 DEF Switch
  <2>2. index' \in Trees
    BY <1>a, <1>b, <2>1, HeadIsKnown
  <2> QED BY <1>a, <1>e, <2>1, <2>2
<1>12. CASE UNCHANGED coverageVars
  BY <1>12, <1>a, <1>b, <1>e DEF coverageVars
<1> QED BY <1>1, <1>2, <1>3, <1>4, <1>5, <1>6, <1>7, <1>8, <1>9, <1>10, <1>11, <1>12 DEF CoverageNext

-----------------------------------------------------------------------------
(* What was shown, and what is covered.                                    *)

\* A line in a hunk of the diff that no hunk between the reviews reaches was in a hunk of the
\* earlier review: were it not, everything around it would be as in HEAD.
LEMMA ShownBefore ==
  ASSUME NEW head, NEW old, NEW new, Related(head, old), Related(old, new), Related(head, new),
         NEW p \in 1..Len(new), p \in ChangedLines(head, new), p \notin ChangedLines(old, new)
  PROVE  \E q \in 1..Len(old) : q \in ChangedLines(head, old) /\ old[q] = new[p]
<1>1. PICK q \in DOMAIN old : \A d \in -Context..Context : Line(old, q + d) = Line(new, p + d)
  BY OutsideIsSame DEF Untouched
<1>2. q \in 1..Len(old) /\ q \in Int /\ p \in Int /\ 0 \in -Context..Context
  BY CoverageAssumption DEF Related
<1>3. old[q] = new[p]
  <2>1. Line(old, q + 0) = Line(new, p + 0) /\ q + 0 = q /\ p + 0 = p
    BY <1>1, <1>2
  <2>2. Line(old, q) = old[q] /\ Line(new, p) = new[p]
    BY <1>2, LineIs DEF Related
  <2> QED BY <2>1, <2>2
<1>4. q \in ChangedLines(head, old)
  <2>1. SUFFICES ASSUME q \notin ChangedLines(head, old) PROVE FALSE
    OBVIOUS
  <2>2. Untouched(head, old, q)
    BY <1>2, <2>1, OutsideIsSame
  <2>3. Untouched(head, new, p)
    BY <1>1, <1>2, <2>2, SameGoesOn
  <2> QED BY <2>3, SameIsOutside
<1> QED BY <1>2, <1>3, <1>4

\* A line a session covers was in a hunk of it, when both were asked about the same diff.
LEMMA MarkedWasShown ==
  ASSUME ~InSubdirectory, NEW s, NEW tree, NEW head, NEW without, NEW entries,
         entries = Entries(head, tree, without), s.entries = Entries(head, s.tree, without),
         \A f \in File : /\ Related(head[f], s.tree[f]) /\ Related(s.tree[f], tree[f])
                         /\ Related(head[f], tree[f]),
         NEW f \in Own, NEW p \in DOMAIN tree[f], <<f, p>> \in Marked(s, tree, entries)
  PROVE  /\ f \in DOMAIN s.entries
         /\ \E q \in s.entries[f] \ {0} : s.tree[f][q] = tree[f][p]
<1>a. DOMAIN entries \subseteq File /\ DOMAIN s.entries \subseteq File
  BY EntriesDomain
<1>b. Word[f] = f /\ f \in File /\ (f \in Paths(s.entries) <=> f \in DOMAIN s.entries)
  BY <1>a, OwnPath
<1>1. /\ f \in DOMAIN entries
      /\ p \in (IF s.tree = tree \/ f \notin DiffTreeFiles(s.tree, tree) THEN entries[f]
                ELSE IF f \in DOMAIN s.entries THEN MarkOverlappingLines(s, tree, entries, f)
                ELSE {})
  BY <1>a, <1>b, MarkedIs
<1>2. f \in File \ without /\ head[f] # tree[f] /\ entries[f] = ShownLines(head[f], tree[f])
  BY <1>1 DEF Entries
<1>3. \A g \in File \ without : head[g] # s.tree[g] => /\ g \in DOMAIN s.entries
                                                      /\ s.entries[g] = ShownLines(head[g], s.tree[g])
  BY DEF Entries
<1>4. p \in entries[f]
  BY <1>1 DEF MarkOverlappingLines
<1>5. p \in ChangedLines(head[f], tree[f]) /\ p \in 1..Len(tree[f]) /\ p # 0
  <2>1. DOMAIN tree[f] = 1..Len(tree[f])
    BY <1>2 DEF Related
  <2>2. p \in Nat /\ p # 0
    BY <2>1
  <2> QED BY <1>2, <1>4, <2>1, <2>2 DEF ShownLines
<1>6. CASE s.tree = tree \/ f \notin DiffTreeFiles(s.tree, tree)
  <2>1. s.tree[f] = tree[f]
    BY <1>2, <1>6 DEF DiffTreeFiles
  <2>2. f \in DOMAIN s.entries /\ p \in s.entries[f]
    BY <1>2, <1>3, <1>4, <2>1
  <2> QED BY <1>5, <2>1, <2>2
<1>7. CASE ~(s.tree = tree \/ f \notin DiffTreeFiles(s.tree, tree))
  <2>1. f \in DOMAIN s.entries /\ p \in MarkOverlappingLines(s, tree, entries, f)
    BY <1>1, <1>7
  <2>2. p \notin ChangedLines(s.tree[f], tree[f])
    BY <1>b, <2>1 DEF MarkOverlappingLines, DiffTreeFileHunks
  <2>3. PICK q \in 1..Len(s.tree[f]) : q \in ChangedLines(head[f], s.tree[f]) /\ s.tree[f][q] = tree[f][p]
    <3>1. Related(head[f], s.tree[f]) /\ Related(s.tree[f], tree[f]) /\ Related(head[f], tree[f])
      BY <1>2
    <3> QED BY <1>5, <2>2, <3>1, ShownBefore
  <2>4. s.tree[f] # <<>> /\ q # 0
    <3>1. Len(<<>>) = 0
      OBVIOUS
    <3> QED BY <2>3, <3>1
  <2>5. s.entries[f] = ShownLines(head[f], s.tree[f])
    BY <2>1 DEF Entries
  <2>6. q \in s.entries[f] \ {0}
    BY <2>3, <2>4, <2>5 DEF ShownLines
  <2> QED BY <2>1, <2>3, <2>6
<1> QED BY <1>6, <1>7

LEMMA KnownTrees ==
  ASSUME NEW n \in DOMAIN sessions
  PROVE  sessions[n].tree \in Trees /\ index \in Trees
<1>1. index \in Trees
  BY DEF Trees
<1> QED BY <1>1, WhereTreesAre

LEMMA RecordCovers ==
  ASSUME ShownInv, NEW action, NEW page, NEW entries, NEW counts, NEW stores, NEW lost,
         RecordAndComputeCoverage(action, page, entries, counts, stores, lost),
         Shows(entries, page), PageTrees(page) \subseteq Trees
  PROVE  (~InSubdirectory => CoveredWasShown') /\ UntouchedIsCovered'
<1> DEFINE cov == IF counts THEN ComputePriorCoverage(branch, index, entries, lost) ELSE NoCoverage
<1>1. /\ attestation'.covered = cov.covered /\ attestation'.prior = cov.prior
      /\ attestation'.tree = index /\ attestation'.page = page /\ attestation'.lines = cov.lines
  BY DEF RecordAndComputeCoverage
<1>2. ~counts => cov.covered = {} /\ cov.prior = {}
  BY DEF NoCoverage
<1>3. counts => /\ cov.prior = GetPriorReviewedSessions(branch) /\ cov.lines = LinesOf(entries)
               /\ cov.covered = UNION {Marked(s, index, entries) :
                    s \in {r \in GetPriorReviewedSessions(branch) : r.tree = index \/ r.tree \notin lost}}
  BY DEF ComputePriorCoverage
<1> HIDE DEF cov
<1>4. ASSUME NEW s \in GetPriorReviewedSessions(branch)
      PROVE  /\ s.tree \in Trees /\ index \in Trees
             /\ Shows(s.entries, s.page)
  <2>1. PICK n \in DOMAIN sessions : s = sessions[n]
    BY <1>4 DEF GetPriorReviewedSessions, OnBranch
  <2> QED BY <2>1, KnownTrees DEF ShownInv, StoredAsShown
<1>5. ASSUME ~InSubdirectory PROVE CoveredWasShown'
  <2>1. SUFFICES ASSUME page.tree = index,
                        \A s \in cov.prior : /\ s.page.tree = s.tree
                                             /\ s.page.head = page.head /\ s.page.without = page.without,
                        NEW f \in Own, NEW p \in DOMAIN index[f], <<f, p>> \in cov.covered
                 PROVE  \E s \in cov.prior :
                          /\ f \in DOMAIN s.entries
                          /\ \E q \in s.entries[f] \ {0} : s.tree[f][q] = index[f][p]
    BY <1>1 DEF CoveredWasShown, Steady, Covered
  <2>2. counts
    BY <1>2, <2>1
  <2>3. PICK s \in GetPriorReviewedSessions(branch) : <<f, p>> \in Marked(s, index, entries)
    BY <1>3, <2>1, <2>2
  <2>4. s \in cov.prior
    BY <1>3, <2>2
  <2>5. /\ entries = Entries(page.head, index, page.without)
        /\ s.entries = Entries(page.head, s.tree, page.without)
    BY <1>4, <2>1, <2>4 DEF Shows
  <2>6. \A g \in File : /\ Related(page.head[g], s.tree[g]) /\ Related(s.tree[g], index[g])
                        /\ Related(page.head[g], index[g])
    <3>1. page.head \in Trees
      BY DEF PageTrees
    <3> QED BY <1>4, <3>1 DEF ShownInv, OneHistory
  <2>7. /\ f \in DOMAIN s.entries
        /\ \E q \in s.entries[f] \ {0} : s.tree[f][q] = index[f][p]
    BY <1>5, <2>1, <2>3, <2>5, <2>6, MarkedWasShown
  <2> QED BY <2>4, <2>7
<1>6. UntouchedIsCovered'
  <2>1. SUFFICES ASSUME faults' = 0, NEW s \in cov.prior, NEW f \in Own,
                        f \in DOMAIN s.entries, s.tree[f] # index[f],
                        NEW p \in DOMAIN index[f], Untouched(s.tree[f], index[f], p),
                        <<f, p>> \in cov.lines
                 PROVE  <<f, p>> \in cov.covered
    BY <1>1 DEF UntouchedIsCovered, Covered
  <2>a. Word[f] = f /\ f \in File /\ f \in Paths(s.entries)
    BY <2>1 DEF Own, Paths
  <2>2. counts /\ lost = {}
    BY <1>2, <2>1 DEF RecordAndComputeCoverage, ShownInv
  <2>3. s \in GetPriorReviewedSessions(branch) /\ f \in DOMAIN entries /\ p \in entries[f]
    BY <1>3, <2>1, <2>2 DEF LinesOf
  <2>4. p \notin ChangedLines(s.tree[f], index[f])
    <3>1. Related(s.tree[f], index[f])
      BY <1>4, <2>a, <2>3 DEF ShownInv, OneHistory
    <3>2. DOMAIN index[f] = 1..Len(index[f])
      BY <3>1 DEF Related
    <3> QED BY <2>1, <3>1, <3>2, SameIsOutside
  <2>5. p \in MarkOverlappingLines(s, index, entries, f)
    BY <2>a, <2>3, <2>4 DEF MarkOverlappingLines, DiffTreeFileHunks
  <2>6. f \in DiffTreeFiles(s.tree, index) /\ s.tree # index
    BY <2>1, <2>a DEF DiffTreeFiles
  <2>7. <<f, p>> \in Marked(s, index, entries)
    BY <2>a, <2>3, <2>5, <2>6 DEF Marked
  <2> QED BY <1>3, <2>2, <2>3, <2>7
<1> QED BY <1>5, <1>6

LEMMA CoverStep ==
  ASSUME ShownInv, ~InSubdirectory => CoveredWasShown, UntouchedIsCovered, [CoverageNext]_coverageVars
  PROVE  (~InSubdirectory => CoveredWasShown') /\ UntouchedIsCovered'
<1> DEFINE Rests == /\ faults' = 0 => faults = 0
                    /\ (attestation'.prior = {} /\ attestation'.covered = {}) \/ UNCHANGED attestation
<1>0. NoAttestation.covered = {} /\ NoAttestation.prior = {} /\ faults \in Nat
  BY DEF NoAttestation, ShownInv
<1>1. CASE FinishReview
  <2>1. PICK action \in Ends, badCount \in Fails, badStore \in Fails, lost \in Lost :
          RecordAndComputeCoverage(action, asked.page, asked.entries, ~badCount, ~badStore, lost)
    BY <1>1 DEF FinishReview
  <2>2. Shows(asked.entries, asked.page) /\ PageTrees(asked.page) \subseteq Trees
    <3>1. PageTrees(asked.page) \subseteq Trees
      BY DEF Trees
    <3> QED BY <1>1, <3>1 DEF FinishReview, StoredAsShown, ShownInv
  <2> QED BY <2>1, <2>2, RecordCovers
<1>2. CASE Decide
  <2>1. PICK action \in Decisions, badCount \in Fails, badStore \in Fails :
          RecordAndComputeCoverage(action, Page(index, HEAD, {}), Entries(HEAD, index, {}), ~badCount, ~badStore, {})
    BY <1>2 DEF Decide
  <2>2. Shows(Entries(HEAD, index, {}), Page(index, HEAD, {})) /\ PageTrees(Page(index, HEAD, {})) \subseteq Trees
    <3>1. index \in Trees /\ HEAD \in Trees
      <4>1. branch \in Branch
        BY DEF ShownInv, TreesAreTrees
      <4>2. HEAD \in TreesOf(branch)
        BY <4>1, HeadIsKnown DEF ShownInv, HEAD
      <4> QED BY <4>1, <4>2, WhereTreesAre
    <3> QED BY <3>1 DEF Shows, Page, PageTrees
  <2> QED BY <2>1, <2>2, RecordCovers
<1>3. CASE Commit
  <2>1. attestation' = NoAttestation /\ (faults' = faults \/ faults' = faults + 1)
    BY <1>3, Zenon DEF Commit
  <2>2. Rests
    BY <1>0, <2>1
  <2> QED BY <2>2 DEF CoveredWasShown, UntouchedIsCovered, Covered
<1>4. StartReview \/ AbandonReview \/ AllExcluded => Rests
  <2>1. StartReview \/ AbandonReview => Rests
    BY <1>0 DEF StartReview, AbandonReview
  <2>2. AllExcluded => Rests
    BY <1>0 DEF AllExcluded, NoAttestation
  <2> QED BY <2>1, <2>2
<1>5. \A f \in File : Write(f) \/ Delete(f) => Rests
  BY <1>0 DEF Write, Delete, Staged
<1>6. \A f \in Ignorable : SetIgnore(f) => Rests
  BY <1>0 DEF SetIgnore
<1>7. ResetSoft => Rests
  BY <1>0 DEF ResetSoft
<1>8. \A b \in Branch : Switch(b) => Rests
  BY <1>0 DEF Switch
<1>9. UNCHANGED coverageVars => Rests
  BY <1>0 DEF coverageVars
<1>10. ASSUME Rests PROVE (~InSubdirectory => CoveredWasShown') /\ UntouchedIsCovered'
  <2>1. CASE attestation'.prior = {} /\ attestation'.covered = {}
    BY <2>1 DEF CoveredWasShown, UntouchedIsCovered, Covered
  <2>2. CASE UNCHANGED attestation
    <3>1. CoveredWasShown => CoveredWasShown'
      BY <2>2 DEF CoveredWasShown, Steady, Covered
    <3>2. UntouchedIsCovered'
      BY <1>10, <2>2 DEF UntouchedIsCovered, Covered
    <3> QED BY <3>1, <3>2
  <2> QED BY <1>10, <2>1, <2>2
<1> HIDE DEF Rests
<1> QED BY <1>1, <1>2, <1>3, <1>4, <1>5, <1>6, <1>7, <1>8, <1>9, <1>10 DEF CoverageNext

LEMMA ShownStart ==
  ASSUME CoverageInit
  PROVE  ShownInv /\ CoveredWasShown /\ UntouchedIsCovered
<1>1. TreesAreTrees
  BY FirstIsTree, CoverageAssumption DEF CoverageInit, TreesAreTrees
<1>2. \A t \in Trees : t = FirstTree
  <2>1. ASSUME NEW t \in Trees PROVE t = FirstTree
    <3>1. \/ t \in {FirstTree, index}
          \/ t \in PageTrees(asked.page)
          \/ \E b \in Branch : t \in TreesOf(b)
          \/ \E n \in DOMAIN sessions : t \in {sessions[n].tree} \cup PageTrees(sessions[n].page)
      BY WhereTreesAre
    <3>2. DOMAIN sessions = {} /\ index = FirstTree /\ asked = NoReview
      BY DEF CoverageInit
    <3>3. PageTrees(asked.page) = {FirstTree}
      BY <3>2 DEF NoReview, NoPage, Page, PageTrees
    <3>4. ASSUME NEW b \in Branch, t \in TreesOf(b) PROVE t = FirstTree
      <4>1. commits[b] = <<FirstTree>>
        BY DEF CoverageInit
      <4>2. DOMAIN <<FirstTree>> = {1} /\ <<FirstTree>>[1] = FirstTree
        OBVIOUS
      <4> QED BY <3>4, <4>1, <4>2 DEF TreesOf, Range
    <3> QED BY <3>1, <3>2, <3>3, <3>4
  <2> QED BY <2>1
<1>3. ASSUME NEW f \in File PROVE Related(FirstTree[f], FirstTree[f]) /\ \A l \in Range(FirstTree[f]) : l <= line
  <2>1. line = FirstLine /\ FirstLine \in Nat /\ FirstTree[f] \in Seq(Nat)
    BY FirstIsTree, CoverageAssumption DEF CoverageInit, Tree
  <2>2. \A i, j \in DOMAIN FirstTree[f] : FirstTree[f][i] \in 1..FirstLine /\ (FirstTree[f][i] = FirstTree[f][j] => i = j)
    BY CoverageAssumption
  <2>3. FirstTree[f] \in Seq(Nat \ {0})
    <3>1. \A i \in 1..Len(FirstTree[f]) : FirstTree[f][i] \in Nat \ {0}
      BY <2>1, <2>2
    <3> QED BY <2>1, <3>1
  <2>4. Ordered(FirstTree[f], FirstTree[f])
    BY <2>2 DEF Ordered
  <2>5. \A l \in Range(FirstTree[f]) : l <= line
    BY <2>1, <2>2 DEF Range
  <2> QED BY <2>3, <2>4, <2>5 DEF Related
<1>4. OneHistory
  BY <1>2, <1>3 DEF OneHistory
<1>5. StoredAsShown /\ faults \in Nat
  BY DEF CoverageInit, StoredAsShown
<1>6. CoveredWasShown /\ UntouchedIsCovered
  BY DEF CoverageInit, CoveredWasShown, UntouchedIsCovered, Covered, NoAttestation
<1> QED BY <1>1, <1>4, <1>5, <1>6 DEF ShownInv

\* Run at the root, and while HEAD and the ignore rules stand still between the reviews of a
\* branch, a line counts as covered only if a review of it had put the line into a hunk.
THEOREM CoveredLinesWereShown == ~InSubdirectory => (CoverageSpec => []CoveredWasShown)
<1> SUFFICES ASSUME ~InSubdirectory PROVE CoverageSpec => []CoveredWasShown
  OBVIOUS
<1> DEFINE Inv == ShownInv /\ CoveredWasShown /\ UntouchedIsCovered
<1>1. CoverageInit => Inv
  BY ShownStart
<1>2. Inv /\ [CoverageNext]_coverageVars => Inv'
  BY ShownStep, CoverStep
<1>3. Inv => CoveredWasShown
  OBVIOUS
<1> HIDE DEF Inv
<1> QED BY <1>1, <1>2, <1>3, PTL DEF CoverageSpec

\* As long as no call fails, a line that a review showed, and no edit came near since, counts as
\* covered: wherever lrc is run, and however many lines of context git shows.
THEOREM UntouchedLinesAreCovered == CoverageSpec => []UntouchedIsCovered
<1> DEFINE Inv == ShownInv /\ (~InSubdirectory => CoveredWasShown) /\ UntouchedIsCovered
<1>1. CoverageInit => Inv
  BY ShownStart
<1>2. Inv /\ [CoverageNext]_coverageVars => Inv'
  BY ShownStep, CoverStep
<1>3. Inv => UntouchedIsCovered
  OBVIOUS
<1> HIDE DEF Inv
<1> QED BY <1>1, <1>2, <1>3, PTL DEF CoverageSpec
=============================================================================
