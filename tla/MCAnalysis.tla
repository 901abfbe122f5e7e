----------------------------- MODULE MCAnalysis -----------------------------
(* A small repository of one service, its handlers and its store, for TLC. *)
EXTENDS Analysis

Sym(qn, name, package, label, file, first, last) ==
  [qn |-> qn, name |-> name, package |-> package, label |-> label, file |-> file, first |-> first, last |-> last,
   entry |-> FALSE, test |-> FALSE, callers |-> 1, metrics |-> <<1, 0, 0, 1>>]

\* Two handlers of one name, in two packages.
Symbols ==
  {[Sym("load", "load", <<"core">>, "Function", "svc.go", 4, 6) EXCEPT !.metrics = <<4, 2, 1, 2>>],
   Sym("save", "save", <<"core">>, "Method", "svc.go", 8, 9),
   Sym("Store", "Store", <<"core">>, "Struct", "svc.go", 12, 12),
   Sym("Saver", "Saver", <<"core">>, "Interface", "svc.go", 14, 14),
   Sym("h1", "handle", <<"web">>, "Function", "api.go", 4, 5),
   Sym("h2", "handle", <<"rpc">>, "Function", "my api.go", 4, 5),
   [Sym("main", "main", <<>>, "Function", "main.go", 2, 3) EXCEPT !.entry = TRUE],
   [Sym("gone", "gone", <<"core">>, "Function", "old.go", 0, 1) EXCEPT !.callers = 0]}

Found(n, directories) == [matches |-> n, directories |-> directories]
CodeWith(calls, uses) ==
  [symbols |-> Symbols, calls |-> calls, methods |-> {<<"Store", "save">>},
   implements |-> {<<"Store", "Saver">>, <<"Cache", "Saver">>}, tests |-> {<<"t", "load">>},
   routes |-> ("h1" :> "/load") @@ ("h2" :> "/call"), entries |-> {"h1", "h2", "main"},
   architecture |-> [entries |-> {"main"}, hotspots |-> ("load" :> 3), core |-> {"core"}],
   usage |-> ("fetch" :> Found(1, {"web"})) @@ ("Store" :> Found(3, {"core", "web"})) @@ ("Saver" :> Found(1, {"core"})),
   uses |-> ("fetch" :> uses),
   similar |-> {[qn |-> "load", other |-> "save", jaccard |-> 90, sameFile |-> TRUE]},
   writes |-> {"save"}, coupling |-> [file \in {s.file : s \in Symbols} \union {"auth.go", "pb.go", "logo.png"} |->
                                        IF file = "svc.go" THEN 80 ELSE 0]]

MCCodes ==
  {CodeWith({<<"load", "save">>, <<"h2", "load">>} \union more, {"h1"}) :
     more \in SUBSET {<<"h1", "load">>, <<"h1", "save">>, <<"main", "h1">>, <<"save", "load">>}}

\* The lines of the hunks.
Text(identifiers, bare, kind) == [identifiers |-> identifiers, bare |-> bare, kind |-> kind, starts |-> ""]
Code(name) == Text(<<"func", name>>, name, "code")
Other == Text(<<"x">>, "x", "code")
Comment == Text(<<"note">>, "//note", "comment")
Log == Text(<<"log">>, "log", "log")
L(op, text) == [op |-> op, text |-> text]
Hunk(first, lines, body) == [oldFirst |-> first, first |-> first, lines |-> lines, body |-> body]
Section(path, word, hunks) == [path |-> path, word |-> word, binary |-> FALSE, hunks |-> hunks]
Binary == [path |-> "logo.png", word |-> "logo.png", binary |-> TRUE, hunks |-> <<>>]

\* A rename after a line that was removed, a comment in a file of its own, two hunks of one range.
Rename ==
  <<Section("auth.go", "auth.go", <<Hunk(8, 1, <<L("+", Other)>>)>>),
    Section("svc.go", "svc.go",
      <<Hunk(2, 3, <<L(" ", Other), L("-", Other), L(" ", Other), L("-", Code("fetch")), L("+", Code("load"))>>),
        Hunk(8, 1, <<L("-", Other), L("+", Log)>>),
        Hunk(12, 3, <<L("+", Other), L("+", Other), L("+", Comment)>>)>>),
    Section("main.go", "main.go", <<Hunk(3, 1, <<L("+", Other)>>)>>)>>
\* Paths with a space and a file that was emptied; white space and comments only.
Clean ==
  <<Section("my api.go", "my", <<Hunk(4, 1, <<L("-", Other), L("+", Other)>>)>>),
    Binary,
    Section("old.go", "old.go", <<Hunk(0, 0, <<L("-", Other)>>)>>),
    Section("pb.go", "pb.go", <<Hunk(1, 2, <<L("+", Other), L("+", Other)>>)>>),
    Section("api.go", "api.go", <<Hunk(4, 1, <<L("+", Comment)>>), Hunk(5, 1, <<L("+", Other)>>)>>)>>
MCDiffs == {<<>>, Rename, Clean}

MCSources ==
  {[kind |-> "staged", given |-> "", commits |-> {}], [kind |-> "range", given |-> "a..c", commits |-> {"b", "c"}]}
Lrc(is, ignore, files) == [is |-> is, ignore |-> ignore, patterns |-> {"pb.go", "main.go"}, files |-> files]
MCLrcDirs ==
  {Lrc("absent", "absent", {}),
   Lrc("directory", "file", {[name |-> "rules", readable |-> TRUE, large |-> FALSE],
                             [name |-> "dump", readable |-> TRUE, large |-> TRUE]}),
   Lrc("directory", "unreadable", {[name |-> "rules", readable |-> FALSE, large |-> FALSE]})}

\* A hundred times the logarithms of 2, 3 and so on.
MCLogs == <<69, 110, 139, 161, 179, 195, 208>>
MCOutages ==
  {{q} : q \in Queries} \union {{}, {"routes", "fan-in"}, {"entries", "architecture"}, {"usage", "tests"},
                                {"methods", "implemented", "similar", "coupling"}}
MCRoles ==
  [file \in {s.file : s \in Symbols} \union {"auth.go", "pb.go", "logo.png"} |->
     CASE file = "auth.go" -> {"auth"} [] file = "svc.go" -> {"persistence", "concurrency"} [] OTHER -> {}]
=============================================================================
