----------------------------- MODULE BlastRadius -----------------------------
(***************************************************************************)
(* What a diff may break: the scores of its hunks, from the graph of the   *)
(* repository's code.  blastradius, blastradius/score, blastradius/symbols.*)
(*                                                                         *)
(* The graph is an external index; `code` is what it holds and `x` the     *)
(* kinds of queries that fail.  A symbol is a record of                    *)
(*   qn, name, package, label, file, first, last (its lines), entry,       *)
(*   metrics (complexity, cognitive complexity, loops, fan-out).           *)
(* A hunk is a record of file, first, lines (its range on the new side),   *)
(* and body: the lines with their op ("+", "-", " ") and text.  A text has *)
(* the identifiers of a line, the line without white space, and its kind.  *)
(* Points are hundredths; a square root and a logarithm are rounded down.  *)
(* A name the index does not know is found nowhere.                        *)
(***************************************************************************)
EXTENDS Integers, FiniteSets, Sequences, SequencesExt, FiniteSetsExt, Functions

CONSTANTS
  MaxDepth,       \* how many calls away a caller may be
  Generated, TestFile,  \* the paths that look like generated code, and like tests
  Roles,          \* of each path: the roles its name tells
  Logs            \* of each count from 1 on: the logarithm of one more

\* The queries of more calls than three name no callers between.
ASSUME BlastRadiusAssumption == MaxDepth \in 1..3
ASSUME LogsAssumption == Logs \in Seq(Nat) /\ \A n \in DOMAIN Logs : \A m \in 1..n : Logs[m] <= Logs[n]

Queries ==
  {"symbols", "methods", "implemented", "implementers", "fan-in", "routes", "entries", "architecture",
   "usage", "callers of the old name", "tests", "similar", "writes", "coupling"}

None == "none"
\* The root of a number of hundredths, in hundredths, and the logarithm of 1 + n.
Root(points) == CHOOSE r \in 0..(10 * points) : r * r <= 100 * points /\ 100 * points < (r + 1) * (r + 1)
Log1p(n) == IF n = 0 THEN 0 ELSE Logs[n]
Answer(x, query, found) == IF query \in x THEN {} ELSE found

-----------------------------------------------------------------------------
(* The symbols of a hunk, and a name that changed in it.                   *)

InFile(code, file) == {s \in code.symbols : s.file = file}

ForHunk(symbols, h) ==
  LET last == IF h.lines > 0 THEN h.first + h.lines - 1 ELSE h.first IN
  {s \in symbols : s.first + s.last # 0 /\ s.first <= last /\ h.first <= s.last}

Touched(code, h) == ForHunk(InFile(code, h.file), h)

\* The identifier of old where new has name, when nothing else differs.
matchSingleIdentSwap(old, new, name) ==
  LET differ == {i \in DOMAIN old.identifiers \intersect DOMAIN new.identifiers :
                   old.identifiers[i] # new.identifiers[i]} IN
  IF /\ Len(old.identifiers) = Len(new.identifiers)
     /\ \E i \in DOMAIN new.identifiers : differ = {i} /\ new.identifiers[i] = name
  THEN old.identifiers[CHOOSE i \in differ : TRUE] ELSE None

\* Mutant: a removed line counts as a line of the new file.
CountingRemoved(h, k) == h.first + k - 1
\* The line of the new file that line k of the body is, or stands before.
NewLine(h, k) == h.first + Cardinality({j \in 1..(k - 1) : h.body[j].op # "-"})

\* The lines around k without a context line between them, those of one op.
Run(h, k, op) ==
  {j \in DOMAIN h.body :
     /\ h.body[j].op = op
     /\ \A i \in DOMAIN h.body : (j <= i /\ i <= k) \/ (k <= i /\ i <= j) => h.body[i].op # " "}

\* The old name of a symbol whose declaration is in a block of as many lines as it replaces.
detectDeclRename(h, s) ==
  LET found ==
        {k \in DOMAIN h.body :
           /\ h.body[k].op = "+" /\ s.first > 0 /\ NewLine(h, k) = s.first
           /\ Cardinality(Run(h, k, "-")) = Cardinality(Run(h, k, "+"))}
      Old(k) == CHOOSE j \in Run(h, k, "-") :
                  Cardinality({i \in Run(h, k, "-") : i <= j}) = Cardinality({i \in Run(h, k, "+") : i <= k}) IN
  IF found = {} THEN None
  ELSE LET k == CHOOSE k \in found : TRUE IN matchSingleIdentSwap(h.body[Old(k)].text, h.body[k].text, s.name)

\* Only the first hunk that touches a symbol is looked at.
RenamedFrom(code, hunks, s) ==
  detectDeclRename(hunks[Min({i \in DOMAIN hunks : s \in Touched(code, hunks[i])})], s)

-----------------------------------------------------------------------------
(* The callers of a symbol.                                                *)

\* Every chain of at most depth calls that ends at a symbol, from there on.
Ways(code, qn, depth) ==
  LET ways[d \in 0..depth] ==
        IF d = 0 THEN {<<qn>>}
        ELSE LET shorter == ways[d - 1] IN
             shorter \union UNION {{Append(w, e[1]) : e \in {c \in code.calls : c[2] = Last(w)}} : w \in shorter} IN
  ways[depth]

\* Mutant: the depth of a caller is the last one it is found at.
DeepestDepth(depths) == Max(depths)
BestDepth(depths) == Min(depths)

\* Mutant: the nodes of a path as the query returns them, the caller's end first.
AsReturned(way) == Reverse(Front(Tail(way)))
PathOf(way) == Front(Tail(way))

Weight(depth) == <<100, 50, 25>>[depth]

\* FanIn: each caller once, with one of the shortest ways to it.
FanIn(code, qn, depth) ==
  LET ways == Ways(code, qn, depth) IN
  {LET found == {w \in ways : Last(w) = caller}
       best == BestDepth({Len(w) - 1 : w \in found}) IN
     [qn |-> caller, depth |-> best, weight |-> Weight(best), preRename |-> FALSE,
      path |-> PathOf(CHOOSE w \in found : Len(w) = best + 1)] : caller \in {Last(w) : w \in ways} \ {qn}}

\* Where code still uses the old name; search_code finds the symbol around each use.
oldNameCallers(code, old, self, x) ==
  {[qn |-> u, depth |-> 1, weight |-> 100, preRename |-> TRUE, path |-> <<>>] :
     u \in Answer(x, "callers of the old name", code.uses[old]) \ {self}}

\* The callers of those, one call further away, by the shortest way.
expandPreRenameCallers(code, direct, self, x) ==
  LET known == {d.qn : d \in direct} \union {self}
      via == UNION {{[qn |-> r.qn, depth |-> r.depth + 1, weight |-> r.weight \div 2, preRename |-> TRUE,
                      path |-> <<d.qn>> \o r.path] : r \in FanIn(code, d.qn, MaxDepth - 1)} : d \in direct} IN
  IF "fan-in" \in x THEN {}
  ELSE {CHOOSE r \in via : r.qn = qn /\ \A s \in via : s.qn = qn => r.depth <= s.depth :
          qn \in {r.qn : r \in via} \ known}

PreRename(code, old, self, x) ==
  IF old = None THEN {}
  ELSE LET direct == oldNameCallers(code, old, self, x) IN direct \union expandPreRenameCallers(code, direct, self, x)

-----------------------------------------------------------------------------
(* What a symbol is worth.                                                 *)

SymbolOf(code, qn) == CHOOSE s \in code.symbols : s.qn = qn
packageOf(code, qn) == SymbolOf(code, qn).package
\* sortedUnique: a package without a name is none.
Packages(code, callers) == {packageOf(code, r.qn) : r \in callers} \ {<<>>}
packageDiversityBonus(n) == IF n <= 1 THEN 0 ELSE Log1p(n)

\* TotalMatches of a search for a name, and the directories they are in.
usage(code, name) == IF name \in DOMAIN code.usage THEN code.usage[name] ELSE [matches |-> 0, directories |-> {}]
renameOldNameSignal(code, old, x) ==
  IF old = None \/ "usage" \in x THEN 0 ELSE (3 * Root(100 * usage(code, old).matches)) \div 2

routeHandlers(code, x) == Answer(x, "routes", DOMAIN code.routes)
Architecture(x, found) == Answer(x, "architecture", found)
entryPointFlags(code, x) == Answer(x, "entries", code.entries) \union Architecture(x, code.architecture.entries)

\* Mutant: a caller that is flagged goes by its own name, whatever it handles.
FlagFirst(code, qn, x) ==
  IF qn \in entryPointFlags(code, x) THEN {SymbolOf(code, qn).name}
  ELSE {code.routes[r] : r \in routeHandlers(code, x) \intersect {qn}}
\* What an entry point goes by: the route it handles, or its own name.
EntryLabel(code, qn, x) ==
  IF qn \in routeHandlers(code, x) THEN {code.routes[qn]}
  ELSE {SymbolOf(code, f).name : f \in entryPointFlags(code, x) \intersect {qn}}

\* Each entry point once, by its nearest caller.
entryReachabilitySignal(code, callers, x) ==
  SumFunction([label \in UNION {EntryLabel(code, r.qn, x) : r \in callers} |->
                 (3 * Max({r.weight : r \in {c \in callers : label \in EntryLabel(code, c.qn, x)}})) \div 2])

hotspotSignal(code, qn, x) ==
  IF qn \in Architecture(x, DOMAIN code.architecture.hotspots) THEN Log1p(code.architecture.hotspots[qn]) \div 2 ELSE 0
layerSignal(code, qn, x) ==
  IF Range(packageOf(code, qn)) \intersect Architecture(x, code.architecture.core) = {} THEN 0 ELSE 150

Reach(callers) == Root(SumFunction([r \in callers |-> r.weight]))

\* A function or method: who calls it.
CallScore(code, qn, old, x) ==
  LET callers == FanIn(code, qn, MaxDepth)
      packages == Packages(code, callers) IN
  [method |-> "calls", callers |-> callers \union PreRename(code, old, qn, x), packages |-> packages, renamedFrom |-> old,
   blast |-> Reach(callers)
             + renameOldNameSignal(code, old, x)
             + packageDiversityBonus(Cardinality(packages))
             + (IF EntryLabel(code, qn, x) # {} \/ SymbolOf(code, qn).entry THEN 200 ELSE 0)
             + entryReachabilitySignal(code, callers, x)
             + hotspotSignal(code, qn, x)
             + layerSignal(code, qn, x)]

methodsByParentClass(code, qn, x) == {e[2] : e \in {m \in Answer(x, "methods", code.methods) : m[1] = qn}}
implementedInterfaces(code, qn, x) == {e[2] : e \in {i \in Answer(x, "implemented", code.implements) : i[1] = qn}}
implementerCounts(code, qn, x) == Cardinality({i \in Answer(x, "implementers", code.implements) : i[2] = qn})

\* An interface: who has to stay compatible; another type: who else implements what it implements.
InterfaceScore(code, s, x) ==
  IF s.label = "Interface" THEN Log1p(implementerCounts(code, s.qn, x))
  ELSE SumFunction([i \in implementedInterfaces(code, s.qn, x) |->
                      LET others == implementerCounts(code, i, x) - 1 IN IF others <= 0 THEN 0 ELSE Log1p(others)])

\* Anything else: who mentions it, and who calls its methods.  Without a search there is no score.
TypeScore(code, s, old, x) ==
  LET found == usage(code, s.name)
      refs == IF found.matches = 0 THEN 0 ELSE found.matches - 1
      methods == SumFunction([m \in methodsByParentClass(code, s.qn, x) |-> Reach(FanIn(code, m, MaxDepth))]) IN
  [method |-> "text-references", callers |-> PreRename(code, old, s.qn, x), packages |-> found.directories,
   renamedFrom |-> old,
   blast |-> Root(100 * refs) + renameOldNameSignal(code, old, x) + Root(methods) \div 2
             + packageDiversityBonus(Cardinality(found.directories)) + InterfaceScore(code, s, x)]
NoScore == [qn |-> None, method |-> None, callers |-> {}, packages |-> {}, renamedFrom |-> None, blast |-> 0, priority |-> 0]

testCoverageCounts(code, qn, x) == Cardinality({t \in Answer(x, "tests", code.tests) : t[2] = qn})
codeMetricSignals(s, tests) ==
  100 * s.metrics[1] + 50 * s.metrics[2] + 300 * s.metrics[3] + 30 * s.metrics[4] + 300 \div (1 + tests)
similarSymbols(code, qn, x) == {m \in Answer(x, "similar", code.similar) : m.qn = qn}
duplicationSignal(matches) == SumFunction([m \in matches |-> IF m.sameFile THEN 2 * m.jaccard ELSE 3 * m.jaccard])
symbolsThatWriteData(code, x) == Answer(x, "writes", code.writes)

IsCallable(s) == s.label \in {"Function", "Method"}
\* The contribution of a symbol, the same in every hunk.
Contribution(code, s, old, x) ==
  LET c == IF IsCallable(s) THEN CallScore(code, s.qn, old, x) ELSE TypeScore(code, s, old, x) IN
  IF ~IsCallable(s) /\ "usage" \in x THEN [NoScore EXCEPT !.qn = s.qn]
  ELSE [qn |-> s.qn, method |-> c.method, callers |-> c.callers, packages |-> c.packages, renamedFrom |-> c.renamedFrom,
        blast |-> c.blast + (IF s.qn \in symbolsThatWriteData(code, x) THEN 150 ELSE 0),
        priority |-> codeMetricSignals(s, testCoverageCounts(code, s.qn, x))
                     + duplicationSignal(similarSymbols(code, s.qn, x))]

-----------------------------------------------------------------------------
(* The hunks.                                                              *)

\* The texts of one op; a text that starts like a file header is skipped.
diffLines(h, op) ==
  LET lines == SelectSeq(h.body, LAMBDA l : l.op = op /\ l.text.starts # op \o op) IN
  [i \in DOMAIN lines |-> lines[i].text]
isFormattingOnly(added, removed) ==
  /\ added # <<>> /\ Len(added) = Len(removed)
  /\ \A i \in DOMAIN added : added[i].bare = removed[i].bare
allLinesMatch(changed, kind) ==
  /\ \E t \in changed : t.kind # "blank"
  /\ \A t \in changed : t.kind \in {"blank", kind}
allDeadCode(symbols) == \A s \in symbols : s.callers = 0 /\ ~s.entry /\ ~s.test

\* In hundredths; the first that fits.
classifyHunkHygiene(h, touched) ==
  LET added == diffLines(h, "+")
      removed == diffLines(h, "-")
      changed == Range(added) \union Range(removed) IN
  IF h.file \in Generated THEN 10
  ELSE IF isFormattingOnly(added, removed) THEN 5
  ELSE IF h.lines = 0 /\ touched # {} /\ allDeadCode(touched) THEN 10
  ELSE IF allLinesMatch(changed, "comment") THEN 15
  ELSE IF allLinesMatch(changed, "log") THEN 40
  ELSE IF h.file \in TestFile THEN 60 ELSE 100

archRoleSignals(file) ==
  SumFunction([role \in Roles[file] |-> CASE role \in {"auth", "schema"} -> 200
                                            [] role \in {"persistence", "build"} -> 150
                                            [] OTHER -> 100])
fileCouplingBonus(code, file, x) ==
  IF "coupling" \in x \/ file \notin DOMAIN code.coupling THEN 0 ELSE Root(code.coupling[file])

\* What the symbols of a hunk contribute, before it is compared with the others.
HunkScore(code, hunks, h, x) ==
  LET touched == Touched(code, h)
      symbols == {Contribution(code, s, RenamedFrom(code, hunks, s), x) : s \in touched} IN
  [file |-> h.file, first |-> h.first, lines |-> h.lines, symbols |-> symbols,
   blast |-> Root(SumFunction([c \in symbols |-> c.blast])) + (3 * fileCouplingBonus(code, h.file, x)) \div 10
             + archRoleSignals(h.file),
   priority |-> Root(SumFunction([c \in symbols |-> c.priority])),
   hygiene |-> classifyHunkHygiene(h, touched),
   packages |-> UNION {c.packages : c \in symbols}]

\* Mutant: a hunk is compared with those before it.
RunningMax(points, i) == Max({0} \union {points[j] : j \in 1..i})
Highest(points, i) == Max({0} \union Range(points))
\* A share of the highest, in hundredths of a percent.
Norm(points, i) == IF Highest(points, i) = 0 THEN 0 ELSE (10000 * points[i]) \div Highest(points, i)

\* Weights of 60 and 40.
Combined(scores, i) ==
  ((60 * Norm([j \in DOMAIN scores |-> scores[j].blast], i)
    + 40 * Norm([j \in DOMAIN scores |-> scores[j].priority], i)) * scores[i].hygiene) \div 10000

\* A query the report cannot do without: the symbols of the files, the callers if there are any to ask for.
Fails(code, hunks, x) ==
  \/ "symbols" \in x /\ hunks # <<>>
  \/ /\ "fan-in" \in x
     /\ \E i \in DOMAIN hunks : \E s \in Touched(code, hunks[i]) :
          IsCallable(s) \/ methodsByParentClass(code, s.qn, x) # {}

ScoreHunks(code, hunks, x) ==
  LET scores == FoldLeft(LAMBDA done, h : Append(done, HunkScore(code, hunks, h, x)), <<>>, hunks) IN
  [i \in DOMAIN hunks |-> [hunk |-> scores[i], combined |-> Combined(scores, i)]]
=============================================================================
