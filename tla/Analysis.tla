------------------------------ MODULE Analysis ------------------------------
(***************************************************************************)
(* The diff of a review on its way to the page: collected, stripped of     *)
(* what .lrc/ignore excludes, submitted, scored in the background against  *)
(* the graph of the code (BlastRadius), parsed a second time for the page, *)
(* and the scores joined to its hunks.  appcore/review_runtime.go,         *)
(* appcore/blastradius_bridge.go, blastradius/diffparse, lrcrules.         *)
(*                                                                         *)
(* A diff is a sequence of sections, one for each file: its path, the path *)
(* up to the first space, and its hunks.  git writes no count for a range  *)
(* of one line.                                                            *)
(***************************************************************************)
EXTENDS BlastRadius

CONSTANTS
  Codes,          \* the graphs the index may hold
  Diffs,          \* the diffs git may give
  Sources,        \* what is reviewed: [kind, given, commits]
  LrcDirs,        \* what .lrc/ may be: [is, ignore, patterns, files]
  Outages         \* the kinds of queries that may fail together

ASSUME AnalysisAssumption == \A x \in Outages : x \subseteq Queries

\* What git prints: the lines of a hunk that are not removed are those of its range, and the hunks
\* of a file are in the order of the file.
IsHunk(h) ==
  /\ h.first \in Nat /\ h.lines \in Nat /\ (h.lines > 0 => h.first > 0)
  /\ h.body \in Seq(Range(h.body)) /\ \A k \in DOMAIN h.body : h.body[k].op \in {"+", "-", " "}
  /\ h.lines = Cardinality({k \in DOMAIN h.body : h.body[k].op # "-"})
IsDiff(sections) ==
  /\ sections \in Seq(Range(sections))
  /\ \A i \in DOMAIN sections :
       /\ sections[i].hunks \in Seq(Range(sections[i].hunks))
       /\ \A j \in DOMAIN sections[i].hunks : IsHunk(sections[i].hunks[j])
       /\ IsFiniteSet(Roles[sections[i].path])
  /\ \A i, k \in DOMAIN sections : \A j \in DOMAIN sections[i].hunks, l \in DOMAIN sections[k].hunks :
       /\ ~sections[i].binary /\ ~sections[k].binary /\ sections[i].path = sections[k].path
       /\ i < k \/ (i = k /\ j < l)
       => /\ sections[i].hunks[j].first < sections[k].hunks[l].first
          /\ sections[i].hunks[j].first + sections[i].hunks[j].lines <= sections[k].hunks[l].first
ASSUME DiffsAssumption == \A d \in Diffs : IsDiff(d)

\* What an index holds: one symbol of a name, callers that are symbols, numbers that Logs covers.
IsCount(n) == n \in 0..Len(Logs)
IsGraph(code) ==
  /\ IsFiniteSet(code.symbols) /\ IsFiniteSet(code.calls) /\ IsFiniteSet(code.methods)
  /\ IsFiniteSet(code.implements) /\ IsFiniteSet(code.tests) /\ IsFiniteSet(code.similar)
  /\ \A s, t \in code.symbols : s.qn = t.qn => s = t
  /\ \A s \in code.symbols :
       s.first \in Nat /\ s.last \in Nat /\ s.first <= s.last /\ s.metrics \in [1..4 -> Nat]
  /\ \A e \in code.calls : e = <<e[1], e[2]>> /\ \E s \in code.symbols : e[1] = s.qn
  /\ \A n \in DOMAIN code.usage : /\ code.usage[n].matches \in Nat
                                 /\ IsFiniteSet(code.usage[n].directories)
                                 /\ IsCount(Cardinality(code.usage[n].directories))
  /\ IsCount(Cardinality({s.package : s \in code.symbols})) /\ IsCount(Cardinality(code.implements))
  /\ \A q \in DOMAIN code.architecture.hotspots : IsCount(code.architecture.hotspots[q])
  /\ \A m \in code.similar : m.jaccard \in Nat
  /\ \A f \in DOMAIN code.coupling : code.coupling[f] \in Nat
ASSUME CodesAssumption == \A code \in Codes : IsGraph(code)

VARIABLES
  input,          \* the code, the diff, its source and .lrc/, which nobody changes meanwhile
  stage,          \* "start" | "collected" | "filtered" | "shown" | "ended"
  diff,           \* diffContent
  submitted,      \* what LiveReview gets, or NoSubmission
  report,         \* the scores: "pending", "ready" or "unavailable"
  page            \* the files of the page, with the scores that are known

analysisVars == <<input, stage, diff, submitted, report, page>>

NoSubmission == [sections |-> <<>>, extras |-> {}, refs |-> {}]
Report(status, scores, x) == [status |-> status, scores |-> scores, outage |-> x]
Unscored == -1

-----------------------------------------------------------------------------
(* Parsing, twice.                                                         *)

\* A count git leaves out is one line.
Count(lines) == IF lines = 1 THEN <<>> ELSE <<lines>>
atoiDefault(count) == IF count = <<>> THEN 1 ELSE count[1]

\* diffparse.Parse and ScoreDiff: every hunk of the text files.
Parse(sections) ==
  FlattenSeq([i \in DOMAIN sections |->
    IF sections[i].binary THEN <<>>
    ELSE [j \in DOMAIN sections[i].hunks |->
            LET h == sections[i].hunks[j] IN
            [file |-> sections[i].path, first |-> h.first, lines |-> atoiDefault(Count(h.lines)),
             body |-> h.body]]])

\* parseDiffToFiles: a path ends at its first space, and no hunk has less than one line.
PageHunk(h) ==
  [oldFirst |-> h.oldFirst, first |-> h.first,
   lines |-> IF Count(h.lines) = <<>> \/ h.lines = 0 THEN 1 ELSE Count(h.lines)[1], score |-> Unscored]
parseDiffToFiles(sections) ==
  [i \in DOMAIN sections |->
     [file |-> sections[i].word, hunks |-> [j \in DOMAIN sections[i].hunks |-> PageHunk(sections[i].hunks[j])]]]

FilterDiff(sections, patterns) ==
  LET kept == {i \in DOMAIN sections : sections[i].path \notin patterns} IN
  [n \in 1..Cardinality(kept) |-> sections[CHOOSE i \in kept : Cardinality({j \in kept : j < i}) = n - 1]]
Load(lrc) == lrc.is = "directory"
LoadIgnorePatterns(lrc) == IF lrc.ignore = "file" THEN lrc.patterns ELSE {}

-----------------------------------------------------------------------------
(* Joining the scores.                                                     *)

\* Mutant: the file is not part of the key.
KeyInFile(file, first, lines) == <<first, lines>>
blastRadiusKey(file, first, lines) == <<file, first, lines>>

\* Of two hunks with one key the later one counts.
blastScoresByKey(scores) ==
  [k \in {blastRadiusKey(r.hunk.file, r.hunk.first, r.hunk.lines) : r \in Range(scores)} |->
     scores[Max({i \in DOMAIN scores :
                   LET h == scores[i].hunk IN blastRadiusKey(h.file, h.first, h.lines) = k})].combined]

applyBlastScoresToFiles(scores, files) ==
  LET byKey == blastScoresByKey(scores)
      WithScore(file, h) == LET k == blastRadiusKey(file, h.first, h.lines) IN
                         IF k \in DOMAIN byKey THEN [h EXCEPT !.score = byKey[k]] ELSE h IN
  [i \in DOMAIN files |-> [files[i] EXCEPT !.hunks = [j \in DOMAIN @ |-> WithScore(files[i].file, @[j])]]]

Before(h, other) == h.score # Unscored /\ (other.score = Unscored \/ h.score > other.score)
\* sort.SliceStable: scored hunks by their score, then the others, each as they were.
sortedHunksByBlastRadius(hunks) ==
  LET Ahead(i) == {j \in DOMAIN hunks :
                     Before(hunks[j], hunks[i]) \/ (j < i /\ ~Before(hunks[i], hunks[j]))} IN
  [n \in DOMAIN hunks |-> hunks[CHOOSE i \in DOMAIN hunks : Cardinality(Ahead(i)) = n - 1]]

-----------------------------------------------------------------------------
(* What goes to LiveReview.                                                *)

\* The files of .lrc/; one that is too large, or cannot be read, is left out with a warning.
CollectZipExtras(lrc) == IF Load(lrc) THEN {f.name : f \in {e \in lrc.files : e.readable /\ ~e.large}} ELSE {}

expandRangeToCommitRefs(source) ==
  {[ref |-> source.given, type |-> "range"]} \union {[ref |-> c, type |-> "commit"] : c \in source.commits}
resolveCommitRefs(source) ==
  CASE source.kind = "range" -> expandRangeToCommitRefs(source)
    [] source.kind = "commit" -> {[ref |-> c, type |-> "commit"] : c \in source.commits}
    [] OTHER -> {}

-----------------------------------------------------------------------------
AnalysisInit ==
  /\ input \in [code : Codes, diff : Diffs, source : Sources, lrc : LrcDirs]
  /\ stage = "start"
  /\ diff = <<>>
  /\ submitted = NoSubmission
  /\ report = Report("pending", <<>>, {})
  /\ page = <<>>

\* collectDiffWithOptions: git may fail; without a diff there is no review.
Collect ==
  /\ stage = "start"
  /\ \/ diff' = input.diff /\ stage' = (IF input.diff = <<>> THEN "ended" ELSE "collected")
     \/ diff' = <<>> /\ stage' = "ended"
  /\ UNCHANGED <<input, submitted, report, page>>

\* A directory or a file that cannot be read is a warning: nothing is excluded then.
Exclude ==
  /\ stage = "collected"
  /\ LET patterns == IF Load(input.lrc) THEN LoadIgnorePatterns(input.lrc) ELSE {} IN
     /\ diff' = FilterDiff(diff, patterns)
     /\ stage' = IF diff' = <<>> THEN "ended" ELSE "filtered"
  /\ UNCHANGED <<input, submitted, report, page>>

\* startBlastRadiusScoring, beside the review: when it is ready it scores the hunks there are.
Score ==
  /\ stage \in {"filtered", "shown"} /\ report.status = "pending"
  /\ \E x \in Outages :
       IF Fails(input.code, Parse(diff), x)
       THEN report' = Report("unavailable", <<>>, x) /\ UNCHANGED page
       ELSE /\ report' = Report("ready", ScoreHunks(input.code, Parse(diff), x), x)
            /\ page' = applyBlastScoresToFiles(report'.scores, page)
  /\ UNCHANGED <<input, stage, diff, submitted>>

\* The commits are left out when git does not resolve them.
Submit ==
  /\ stage = "filtered" /\ submitted = NoSubmission
  /\ \E resolved \in BOOLEAN :
       submitted' = [sections |-> diff, extras |-> CollectZipExtras(input.lrc),
                     refs |-> IF resolved THEN resolveCommitRefs(input.source) ELSE {}]
  /\ UNCHANGED <<input, stage, diff, report, page>>

\* The files of the page, and the scores that are ready by then.
Show ==
  /\ stage = "filtered" /\ submitted # NoSubmission
  /\ stage' = "shown"
  /\ page' = applyBlastScoresToFiles(report.scores, parseDiffToFiles(diff))
  /\ UNCHANGED <<input, diff, submitted, report>>

AnalysisNext == Collect \/ Exclude \/ Score \/ Submit \/ Show
AnalysisSpec == AnalysisInit /\ [][AnalysisNext]_analysisVars

-----------------------------------------------------------------------------
(* Properties.                                                             *)

Hunks == Parse(diff)
Scored == UNION {r.hunk.symbols : r \in Range(report.scores)}

\* The symbols that reach qn in d calls and no fewer.
Calling(code, S) == {e[1] : e \in {c \in code.calls : c[2] \in S}}
Layers(code, S) ==
  LET within[d \in 0..MaxDepth] == IF d = 0 THEN S ELSE LET nearer == within[d - 1] IN nearer \union Calling(code, nearer) IN
  [d \in 1..MaxDepth |-> within[d] \ within[d - 1]]
IsChain(code, way) == \A i \in 1..(Len(way) - 1) : <<way[i + 1], way[i]>> \in code.calls

\* The callers of a symbol are those within reach, each once, as far away as the shortest chain of
\* calls; the path shown is such a chain.  Those who use its old name are one step away, and their
\* callers one further than they are from them (score.FanIn, expandPreRenameCallers).
CallersAtTheirDistance ==
  \A c \in Scored :
    LET now == {r \in c.callers : ~r.preRename}
        old == c.callers \ now
        direct == {r.qn : r \in {o \in old : o.depth = 1}} IN
    /\ c.method = "calls" =>
         \A d \in 1..MaxDepth : {r.qn : r \in {n \in now : n.depth = d}} = Layers(input.code, {c.qn})[d]
    /\ \A r \in now : IsChain(input.code, <<c.qn>> \o r.path \o <<r.qn>>)
    /\ \A d \in 2..MaxDepth :
         {r.qn : r \in {o \in old : o.depth = d}} \subseteq Layers(input.code, direct)[d - 1]
    /\ \A r \in old : r.depth > 1 => r.path[1] \in direct /\ IsChain(input.code, Append(r.path, r.qn))
    /\ \A r \in c.callers : Len(r.path) = r.depth - 1 /\ r.qn # c.qn /\ r.weight = <<100, 50, 25>>[r.depth]

\* A query that fails hides risk and never makes any up: the raw blast of no hunk is larger, for it,
\* than with every answer (the queries for routes excepted, without which one route counts as
\* several).  The score on the page is a share of the highest hunk's, which may have lost more.
OutageHidesRisk ==
  report.status = "ready" /\ "routes" \notin report.outage =>
    \A whole \in {ScoreHunks(input.code, Hunks, {})} : \A i \in DOMAIN report.scores :
      report.scores[i].hunk.blast <= whole[i].hunk.blast

\* The two parsers agree on what a hunk is called: with a report and a page, every hunk with lines
\* of its own, of a file without a space in its path, has the score of that very hunk, in either
\* order of arrival (blastRadiusKey).
HunkHasItsScore ==
  stage = "shown" /\ report.status = "ready" =>
    \A i \in DOMAIN diff : \A j \in DOMAIN diff[i].hunks :
      ~diff[i].binary /\ diff[i].path = diff[i].word /\ diff[i].hunks[j].lines > 0 =>
        \E k \in DOMAIN Hunks :
          /\ Hunks[k].file = diff[i].path /\ Hunks[k].body = diff[i].hunks[j].body
          /\ Hunks[k].first = diff[i].hunks[j].first
          /\ page[i].hunks[j].score = report.scores[k].combined

\* Where the line of a declaration is replaced by one with another name, and nothing else, the symbol
\* is scored by its old name too, though only the first hunk that touches it is looked at.
Declares(h, k, s) ==
  /\ k > 1 /\ h.body[k].op = "+" /\ h.body[k - 1].op = "-"
  /\ k = 2 \/ h.body[k - 2].op = " "
  /\ k = Len(h.body) \/ h.body[k + 1].op = " "
  /\ h.first + Cardinality({j \in 1..(k - 1) : h.body[j].op # "-"}) = s.first
RenameIsSeen ==
  \A c \in Scored :
    LET s == SymbolOf(input.code, c.qn) IN
    \A i \in DOMAIN Hunks :
      Hunks[i].file = s.file /\ c.method # None =>
        \A k \in DOMAIN Hunks[i].body :
          Declares(Hunks[i], k, s) =>
            c.renamedFrom = matchSingleIdentSwap(Hunks[i].body[k - 1].text, Hunks[i].body[k].text, s.name)

\* A hunk that reaches as far as another, deserves as much attention and is no more of a mere
\* clean-up never ranks below it, and no score leaves the scale (the normalisation of ScoreHunks,
\* sortedHunksByBlastRadius).
RiskKeepsRank ==
  LET s == report.scores IN
  /\ \A i \in DOMAIN s : 0 <= s[i].combined /\ s[i].combined <= 10000
  /\ \A i, j \in DOMAIN s :
       /\ s[i].hunk.blast >= s[j].hunk.blast
       /\ s[i].hunk.priority >= s[j].hunk.priority
       /\ s[i].hunk.hygiene >= s[j].hunk.hygiene
       => s[i].combined >= s[j].combined
  /\ \A f \in Range(page) :
       LET sorted == sortedHunksByBlastRadius(f.hunks) IN
       /\ ToBag(sorted) = ToBag(f.hunks)
       /\ \A i, j \in DOMAIN sorted : i < j => sorted[i].score >= sorted[j].score
=============================================================================
