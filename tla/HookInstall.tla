---------------------------- MODULE HookInstall ----------------------------
(***************************************************************************)
(* `lrc hooks install`, `uninstall`, `enable` and `disable`, and           *)
(* `lrc uninstall`: appcore/hooks_management.go, hooks/operations.go,      *)
(* claude_hooks_management.go, uninstall.go.                               *)
(*                                                                         *)
(* They rewrite files that belong to the user: git's configuration, hook   *)
(* scripts, Claude's settings.  Every self-update runs an install.  Any of *)
(* them may be killed between two writes, and a call that changes one of   *)
(* these things may fail: some errors end the command, others it drops.    *)
(*                                                                         *)
(* A hook script is the sequence of its lines: "sh" is the #! line, "user" *)
(* a line of the user, "begin".."end" a managed section.  The editor       *)
(* wrapper of a place is named by the place.  A write that fails leaves    *)
(* its file as it was; the editor's backup and a hook script may be left   *)
(* empty.  Reads do not fail.  --path, moving directories that are empty   *)
(* and the backups of hook scripts are left out.                           *)
(***************************************************************************)
EXTENDS Naturals, Sequences, FiniteSets

CONSTANTS
  Op,             \* commands, each a process
  Plans,          \* what each of them may be: [kind, local, surface, ...] or NoOp
  Hook,           \* the managed hooks
  Homes,          \* what the user may have: hooks path, editor, hook script, Claude hooks,
                  \* and local Claude settings in the repository the commands run in
  MaxMishaps      \* bound: commands killed and calls that fail

ASSUME HookAssumption ==
  /\ MaxMishaps \in Nat
  /\ \A m \in Homes :
       /\ m.path \in {"", "own"} /\ m.editor \notin {"lrc", "own", "repo", "empty"}
       /\ m.lines \in Seq({"sh", "user", "begin", "body", "end"})
       /\ "managed" \notin m.claude /\ m.legacy \in BOOLEAN
  /\ \A plan \in Plans, o \in Op :
       plan[o] # [kind |-> "none"] => /\ plan[o].local \in BOOLEAN
                                      /\ plan[o].surface \in {"git", "claude", "all"}

VARIABLES
  mine,           \* the user's own setup, before any of the commands
  hooksPath,      \* global core.hooksPath; "" is unset
  editor,         \* core.editor of each scope: "", an editor, or the place of a wrapper
  script,         \* the places with managed scripts
  wrapper,        \* the places with an editor wrapper
  backup,         \* the editor saved at each place; "" no file, "empty" a file with nothing in it
  hook,           \* the hook scripts of each place
  meta,           \* the record of each place: was the path set, and what was it
  claude,         \* Claude's settings: the hooks of its Bash matcher
  claudeScript,   \* whether the managed Claude scripts are there
  legacy,         \* whether that repository has a .claude/settings.local.json
  marker,         \* the repository's disable markers
  home,           \* what `lrc uninstall` removes: "shell", "config", "binaries"
  op,             \* of each command: where it is and what it has read
  mishaps,        \* how many commands were killed, or calls failed
  trace           \* history: the last command, has anything but installs overlapped

hookVars == <<mine, hooksPath, editor, script, wrapper, backup, hook, meta, claude, claudeScript,
              legacy, marker, home, op, mishaps, trace>>

Place     == {"lrc", "own", "repo"}
ScopeOf(place) == IF place = "repo" THEN "local" ELSE "global"
NoMeta    == [is |-> FALSE, prev |-> "", set |-> FALSE]
NoOp      == [kind |-> "none"]
Wait(plan) == [plan |-> plan, pc |-> "wait", place |-> "lrc", prev |-> "", set |-> FALSE, meta |-> NoMeta,
              todo |-> Hook, read |-> {}, alone |-> TRUE, missed |-> {}]
Kind(o)   == op[o].plan.kind
Local(o)  == op[o].plan.local
Git(o)    == op[o].plan.surface \in {"all", "git"}
Surfaces(o) == IF op[o].plan.surface = "all" THEN {"git", "claude"} ELSE {op[o].plan.surface}
Claude(o) == ~Local(o) /\ op[o].plan.surface \in {"all", "claude"}

HooksInit ==
  /\ \E m \in Homes :
       /\ mine = m
       /\ hooksPath = m.path
       /\ editor = [s \in {"global", "local"} |-> IF s = "global" THEN m.editor ELSE ""]
       /\ hook = [p \in Place |-> [h \in Hook |-> IF p = "own" THEN m.lines ELSE <<>>]]
       /\ claude = m.claude /\ legacy = m.legacy
  /\ script = {} /\ wrapper = {} /\ backup = [p \in Place |-> ""]
  /\ meta = [p \in Place |-> NoMeta]
  /\ claudeScript = FALSE
  /\ marker = {} /\ home = {"shell", "config", "binaries"}
  /\ \E plan \in Plans :
       op = [o \in Op |-> Wait(plan[o])]
  /\ mishaps = 0
  /\ trace = [last |-> "none", clash |-> FALSE]

OpAt(o, pc) == op[o].pc = pc
Busy        == {o \in Op : op[o].pc \notin {"wait", "done", "killed"}}
GoOn(o, pc) == op' = [op EXCEPT ![o].pc = pc]
Set(o, pc, f, v) == op' = [op EXCEPT ![o].pc = pc, ![o][f] = v]
\* Something fails and the command goes on; it has missed what it should have done.
Mishap              == mishaps < MaxMishaps /\ mishaps' = mishaps + 1
Miss(o, pc, what)   == Mishap /\ op' = [op EXCEPT ![o].pc = pc, ![o].missed = @ \cup what]
MissHook(o, pc, h)  == Mishap /\ op' = [op EXCEPT ![o].pc = pc, ![o].todo = @ \ {h}, ![o].missed = @ \cup {h}]

-----------------------------------------------------------------------------
(* Hook scripts.                                                           *)

Section == <<"begin", "body", "end">>
Holds(lines, x) == \E i \in DOMAIN lines : lines[i] = x
From(lines, k)  == SubSeq(lines, k, Len(lines))
First(lines, x, k) ==
  IF \E i \in k..Len(lines) : lines[i] = x
  THEN CHOOSE i \in k..Len(lines) : lines[i] = x /\ \A j \in k..(i - 1) : lines[j] # x
  ELSE 0
\* Replaces the first section; a begin without an end is left alone.
ReplaceManagedSection(lines) ==
  LET s == First(lines, "begin", 1)
      e == IF s = 0 THEN 0 ELSE First(lines, "end", s)
  IN IF e = 0 THEN lines ELSE SubSeq(lines, 1, s - 1) \o Section \o From(lines, e + 1)
\* Removes all sections: a line goes when it stands between a begin and the end that closes it.
InSection(lines, i) ==
  /\ \E b \in 1..i : lines[b] = "begin" /\ \A j \in b..(i - 1) : lines[j] # "end"
  /\ \E e \in i..Len(lines) : lines[e] = "end"
\* Mutant: everything after the first begin is taken for the section.
RemoveTail(lines) ==
  LET s == First(lines, "begin", 1) IN IF s = 0 THEN lines ELSE SubSeq(lines, 1, s - 1)
RemoveManagedSection(lines) ==
  LET kept == {i \in DOMAIN lines : ~InSection(lines, i)}
      nth[n \in 1..Cardinality(kept)] ==
        CHOOSE i \in kept : Cardinality({j \in kept : j < i}) = n - 1
  IN [n \in 1..Cardinality(kept) |-> lines[nth[n]]]
\* The section goes after the #! line, which is written when there is none.
InstallHook(lines) ==
  CASE lines = <<>>            -> <<"sh">> \o Section
    [] Holds(lines, "begin")   -> ReplaceManagedSection(lines)
    [] OTHER -> IF Head(lines) = "sh" THEN <<"sh">> \o Section \o Tail(lines)
                                      ELSE <<"sh">> \o Section \o lines
\* A script with nothing but its #! line left is removed.
UninstallHook(lines) ==
  LET rest == RemoveManagedSection(lines) IN
  IF ~Holds(lines, "begin") THEN lines ELSE IF rest \in {<<>>, <<"sh">>} THEN <<>> ELSE rest

-----------------------------------------------------------------------------
(* Starting a command.                                                     *)

Begin(o) ==
  /\ OpAt(o, "wait") /\ op[o].plan # NoOp
  /\ LET place == IF Local(o) THEN "repo" ELSE IF hooksPath = "" THEN "lrc" ELSE hooksPath
         first == CASE Kind(o) = "install" -> IF Git(o) THEN "path" ELSE "cscripts"
                    [] Kind(o) \in {"uninstall", "remove"} -> IF Claude(o) THEN "unset" ELSE "umeta"
                    [] OTHER -> "read"
     IN op' = [q \in Op |->
                 IF q = o THEN [op[o] EXCEPT !.pc = first, !.place = place, !.prev = hooksPath,
                                             !.set = ~Local(o) /\ hooksPath = "",
                                             !.alone = Busy = {}]
                 ELSE [op[q] EXCEPT !.alone = @ /\ op[q].pc \in {"wait", "done", "killed"}]]
  /\ trace' = [last |-> o,
               clash |-> trace.clash \/ (Busy # {} /\ \E q \in Busy \cup {o} : Kind(q) # "install")]
  /\ UNCHANGED <<mine, hooksPath, editor, script, wrapper, backup, hook, meta, claude,
                 claudeScript, legacy, marker, home, mishaps>>

-----------------------------------------------------------------------------
(* installGitHookSurface, installClaudeGlobalHooks, and at the end         *)
(* removeLegacyRepoClaudeIntegration.  An error ends them (see Kill), that *)
(* of the editor's backup is dropped.                                      *)

\* An unset core.hooksPath is set to lrc's own place; one that is set is used as it is.
InstallPath(o) ==
  /\ OpAt(o, "path")
  /\ hooksPath' = IF op[o].set THEN "lrc" ELSE hooksPath
  /\ GoOn(o, "scripts")
  /\ UNCHANGED <<mine, editor, script, wrapper, backup, hook, meta, claude, claudeScript, legacy,
                 marker, home, mishaps, trace>>
InstallScripts(o) ==
  /\ OpAt(o, "scripts")
  /\ script' = script \cup {op[o].place}
  /\ GoOn(o, "backup")
  /\ UNCHANGED <<mine, hooksPath, editor, wrapper, backup, hook, meta, claude, claudeScript,
                 legacy, marker, home, mishaps, trace>>
\* The user's editor is saved, a wrapper's name is not.
ShouldPersistEditorBackup(current) == current # "" /\ current \notin Place
\* What `git config core.editor` says in a repository: its own value before the global one.
CoreEditor(p) == IF p # "repo" \/ editor.local = "" THEN editor.global ELSE editor.local
InstallBackup(o) ==
  /\ OpAt(o, "backup")
  /\ LET p == op[o].place
         current == CoreEditor(p)
     IN \/ /\ backup' = IF ShouldPersistEditorBackup(current) THEN [backup EXCEPT ![p] = current]
                                                              ELSE backup
           /\ GoOn(o, "wrapper") /\ UNCHANGED mishaps
        \/ /\ ShouldPersistEditorBackup(current)
           /\ backup' \in {backup, [backup EXCEPT ![p] = "empty"]}
           /\ Miss(o, "wrapper", {"editor"})
  /\ UNCHANGED <<mine, hooksPath, editor, script, wrapper, hook, meta, claude, claudeScript, legacy,
                 marker, home, trace>>
InstallWrapper(o) ==
  /\ OpAt(o, "wrapper")
  /\ wrapper' = wrapper \cup {op[o].place}
  /\ GoOn(o, "editor")
  /\ UNCHANGED <<mine, hooksPath, editor, script, backup, hook, meta, claude, claudeScript, legacy,
                 marker, home, mishaps, trace>>
InstallEditor(o) ==
  /\ OpAt(o, "editor")
  /\ editor' = [editor EXCEPT ![ScopeOf(op[o].place)] = op[o].place]
  /\ GoOn(o, "hooks")
  /\ UNCHANGED <<mine, hooksPath, script, wrapper, backup, hook, meta, claude, claudeScript,
                 legacy, marker, home, mishaps, trace>>
\* One hook after the other; a write that fails may leave the script empty, and ends the install.
InstallHooks(o) ==
  /\ OpAt(o, "hooks")
  /\ LET p == op[o].place IN
     \E h \in op[o].todo :
       \/ /\ hook' = [hook EXCEPT ![p][h] = InstallHook(@)]
          /\ op' = [op EXCEPT ![o].todo = @ \ {h}] /\ UNCHANGED mishaps
       \/ hook' = [hook EXCEPT ![p][h] = <<>>] /\ MissHook(o, "killed", h)
  /\ UNCHANGED <<mine, hooksPath, editor, script, wrapper, backup, meta, claude, claudeScript, legacy,
                 marker, home, trace>>
\* The hooks done, the place is recorded (not a local one).
InstallMeta(o) ==
  /\ OpAt(o, "hooks") /\ op[o].todo = {}
  /\ meta' = IF Local(o) THEN meta
             ELSE [meta EXCEPT ![op[o].place] = [is |-> TRUE, prev |-> op[o].prev, set |-> op[o].set]]
  /\ GoOn(o, IF Claude(o) THEN "cscripts" ELSE IF Local(o) THEN "done" ELSE "legacy")
  /\ UNCHANGED <<mine, hooksPath, editor, script, wrapper, backup, hook, claude, claudeScript, legacy,
                 marker, home, mishaps, trace>>
ClaudeScripts(o) ==
  /\ OpAt(o, "cscripts")
  /\ claudeScript' = TRUE
  /\ Set(o, "settings", "read", claude)
  /\ UNCHANGED <<mine, hooksPath, editor, script, wrapper, backup, hook, meta, claude, legacy, marker,
                 home, mishaps, trace>>
EnsureManagedClaudeHook(settings) == settings \cup {"managed"}
ClaudeSettings(o) ==
  /\ OpAt(o, "settings")
  /\ claude' = EnsureManagedClaudeHook(op[o].read)
  /\ Set(o, "legacy", "read", {})
  /\ UNCHANGED <<mine, hooksPath, editor, script, wrapper, backup, hook, meta, claudeScript, legacy,
                 marker, home, mishaps, trace>>
\* A repository the install runs in loses its local Claude settings, whoever wrote them.
RemoveLegacy(o) ==
  /\ OpAt(o, "legacy")
  /\ legacy' = FALSE
  /\ GoOn(o, "done")
  /\ UNCHANGED <<mine, hooksPath, editor, script, wrapper, backup, hook, meta, claude, claudeScript,
                 marker, home, mishaps, trace>>

-----------------------------------------------------------------------------
(* uninstallClaudeGlobalHooks, whose errors end the removal of the hooks,  *)
(* and uninstallGitHookSurface, which drops the errors of all it does.     *)

\* The settings are read and written back in one go, before the scripts go.
RemoveManagedClaudeHook(settings) == settings \ {"managed"}
\* Mutant: the scripts go before the settings are read.
ScriptsFirst(o) ==
  /\ OpAt(o, "unset")
  /\ claudeScript' = FALSE
  /\ GoOn(o, "unscript")
  /\ UNCHANGED <<mine, hooksPath, editor, script, wrapper, backup, hook, meta, claude, legacy, marker,
                 home, mishaps, trace>>
UninstallClaude(o) ==
  /\ OpAt(o, "unset")
  /\ claude' = RemoveManagedClaudeHook(claude)
  /\ GoOn(o, "unscript")
  /\ UNCHANGED <<mine, hooksPath, editor, script, wrapper, backup, hook, meta, claudeScript, legacy,
                 marker, home, mishaps, trace>>
UninstallClaudeScripts(o) ==
  /\ OpAt(o, "unscript")
  /\ claudeScript' = FALSE
  /\ GoOn(o, IF Git(o) THEN "umeta" ELSE IF Kind(o) = "remove" THEN "shell" ELSE "done")
  /\ UNCHANGED <<mine, hooksPath, editor, script, wrapper, backup, hook, meta, claude, legacy, marker,
                 home, mishaps, trace>>
\* The error ends `lrc hooks uninstall`; `lrc uninstall` warns and goes on without git's hooks.
UninstallClaudeFails(o) ==
  /\ op[o].pc \in {"unset", "unscript"} /\ Kind(o) = "remove"
  /\ claudeScript' \in {claudeScript, claudeScript /\ OpAt(o, "unset")}
  /\ Miss(o, "shell", {"claude"})
  /\ UNCHANGED <<mine, hooksPath, editor, script, wrapper, backup, hook, meta, claude, legacy, marker,
                 home, trace>>
UninstallReads(o) ==
  /\ OpAt(o, "umeta")
  /\ Set(o, "ueditor", "meta", IF Local(o) THEN NoMeta ELSE meta[op[o].place])
  /\ UNCHANGED <<mine, hooksPath, editor, script, wrapper, backup, hook, meta, claude,
                 claudeScript, legacy, marker, home, mishaps, trace>>
\* A backup with nothing in it leaves core.editor as it is.
Restored(p) ==
  CASE backup[p] \notin {"", "empty"}           -> backup[p]
    [] backup[p] = "" /\ CoreEditor(p) = p      -> ""
    [] OTHER                                    -> editor[ScopeOf(p)]
UninstallEditor(o) ==
  /\ OpAt(o, "ueditor")
  /\ LET p == op[o].place IN
     \/ /\ editor' = [editor EXCEPT ![ScopeOf(p)] = Restored(p)]
        /\ GoOn(o, "uwrap") /\ UNCHANGED mishaps
     \/ Restored(p) # editor[ScopeOf(p)] /\ Miss(o, "uwrap", {"editor"}) /\ UNCHANGED editor
  /\ UNCHANGED <<mine, hooksPath, script, wrapper, backup, hook, meta, claude, claudeScript, legacy,
                 marker, home, trace>>
\* The wrapper and the backup go whether the editor was put back or not.
UninstallWrapper(o) ==
  /\ OpAt(o, "uwrap")
  /\ LET p == op[o].place IN
     \/ /\ wrapper' = wrapper \ {p} /\ backup' = [backup EXCEPT ![p] = ""]
        /\ GoOn(o, "uhooks") /\ UNCHANGED mishaps
     \/ /\ wrapper' \in {wrapper, wrapper \ {p}} /\ backup' \in {backup, [backup EXCEPT ![p] = ""]}
        /\ \E pc \in {"uhooks", "killed"} : Miss(o, pc, {})
  /\ UNCHANGED <<mine, hooksPath, editor, script, hook, meta, claude, claudeScript, legacy, marker,
                 home, trace>>
\* A hook that cannot be written back, and is left as it was or empty, is warned of.
UninstallHooks(o) ==
  /\ OpAt(o, "uhooks")
  /\ LET p == op[o].place IN
     \E h \in op[o].todo :
       \/ /\ hook' = [hook EXCEPT ![p][h] = UninstallHook(@)]
          /\ op' = [op EXCEPT ![o].todo = @ \ {h}] /\ UNCHANGED mishaps
       \/ /\ Holds(hook[p][h], "begin")
          /\ hook' \in {hook, [hook EXCEPT ![p][h] = <<>>]} /\ MissHook(o, "uhooks", h)
  /\ UNCHANGED <<mine, hooksPath, editor, script, wrapper, backup, meta, claude, claudeScript, legacy,
                 marker, home, trace>>
\* The managed directory, that of a global wrapper too, and the record of the place.
UninstallDir(o) ==
  /\ OpAt(o, "uhooks") /\ op[o].todo = {}
  /\ LET p == op[o].place
         dir == script' = script \ {p} /\ IF p = "repo" THEN UNCHANGED <<wrapper, backup>>
                  ELSE wrapper' = wrapper \ {p} /\ backup' = [backup EXCEPT ![p] = ""]
         record == meta' = IF Local(o) THEN meta ELSE [meta EXCEPT ![p] = NoMeta]
         next == IF ~Local(o) THEN "upath" ELSE "done"
     IN \/ dir /\ record /\ GoOn(o, next) /\ UNCHANGED mishaps
        \/ /\ dir \/ UNCHANGED <<script, wrapper, backup>>
           /\ record \/ UNCHANGED meta
           /\ \E pc \in {next, "killed"} : Miss(o, pc, {})
  /\ UNCHANGED <<mine, hooksPath, editor, hook, claude, claudeScript, legacy, marker, home, trace>>
\* What the record says lrc set is put back; without a record, a path that is this place is unset.
UninstallPath(o) ==
  /\ OpAt(o, "upath")
  /\ LET m == op[o].meta
         next == IF Kind(o) = "remove" THEN "shell" ELSE "done"
     IN \/ /\ hooksPath' = CASE m.is /\ m.set  -> m.prev
                             [] ~m.is          -> IF op[o].prev = op[o].place THEN "" ELSE hooksPath
                             [] OTHER          -> hooksPath
           /\ GoOn(o, next) /\ UNCHANGED mishaps
        \/ UNCHANGED hooksPath /\ Miss(o, next, {})
  /\ UNCHANGED <<mine, editor, script, wrapper, backup, hook, meta, claude, claudeScript, legacy,
                 marker, home, trace>>

\* runUninstall after the hooks: shell integration, configuration, binaries.  What goes was
\* decided from the flags, the mode and the answers before anything was touched.
Remove(o) ==
  /\ op[o].pc \in {"shell", "config", "binaries"}
  /\ LET next == CASE OpAt(o, "shell") -> "config" [] OpAt(o, "config") -> "binaries" [] OTHER -> "done"
     IN \/ /\ home' = IF op[o].pc \in op[o].plan.drop THEN home \ {op[o].pc} ELSE home
           /\ GoOn(o, next) /\ UNCHANGED mishaps
        \/ op[o].pc \in op[o].plan.drop /\ UNCHANGED home /\ Miss(o, next, {})
  /\ UNCHANGED <<mine, hooksPath, editor, script, wrapper, backup, hook, meta, claude,
                 claudeScript, legacy, marker, trace>>

-----------------------------------------------------------------------------
(* hooks disable, hooks enable: one marker file says which surfaces are off.*)

ReadMarkers == IF "all" \in marker THEN {"git", "claude"} ELSE marker
ToggleRead(o) ==
  /\ OpAt(o, "read")
  /\ Set(o, "clear", "read", IF Kind(o) = "disable" THEN ReadMarkers \cup Surfaces(o)
                             ELSE ReadMarkers \ Surfaces(o))
  /\ UNCHANGED <<mine, hooksPath, editor, script, wrapper, backup, hook, meta, claude,
                 claudeScript, legacy, marker, home, mishaps, trace>>
\* All markers are removed before the one that is wanted is written.
ToggleClear(o) ==
  /\ OpAt(o, "clear")
  /\ marker' = {} /\ GoOn(o, "mark")
  /\ UNCHANGED <<mine, hooksPath, editor, script, wrapper, backup, hook, meta, claude,
                 claudeScript, legacy, home, mishaps, trace>>
MarkerFor(off) == IF off = {"git", "claude"} THEN {"all"} ELSE off
ToggleMark(o) ==
  /\ OpAt(o, "mark")
  /\ marker' = marker \cup MarkerFor(op[o].read) /\ GoOn(o, "done")
  /\ UNCHANGED <<mine, hooksPath, editor, script, wrapper, backup, hook, meta, claude,
                 claudeScript, legacy, home, mishaps, trace>>

\* A command is killed, or ends with the error of the call it was at.
Kill(o) ==
  /\ o \in Busy /\ Miss(o, "killed", {})
  /\ UNCHANGED <<mine, hooksPath, editor, script, wrapper, backup, hook, meta, claude,
                 claudeScript, legacy, marker, home, trace>>

HooksNext ==
  \E o \in Op :
    \/ Begin(o) \/ InstallPath(o) \/ InstallScripts(o) \/ InstallBackup(o) \/ InstallWrapper(o)
    \/ InstallEditor(o) \/ InstallHooks(o) \/ InstallMeta(o) \/ ClaudeScripts(o)
    \/ ClaudeSettings(o) \/ RemoveLegacy(o)
    \/ UninstallClaude(o) \/ UninstallClaudeScripts(o) \/ UninstallClaudeFails(o)
    \/ UninstallReads(o) \/ UninstallEditor(o) \/ UninstallWrapper(o) \/ UninstallHooks(o)
    \/ UninstallDir(o) \/ UninstallPath(o) \/ Remove(o)
    \/ ToggleRead(o) \/ ToggleClear(o) \/ ToggleMark(o) \/ Kill(o)

HooksSpec == HooksInit /\ [][HooksNext]_hookVars

-----------------------------------------------------------------------------
(* Properties.                                                             *)

UserLines(lines) == Cardinality({i \in DOMAIN lines : lines[i] = "user"})
\* The user has written no line into a section.
OwnLines(lines) == \A i \in DOMAIN lines : lines[i] = "user" => ~InSection(lines, i)
\* The command o ran alone, was the last to run and has come to its end.
LastAlone(o) == o = trace.last /\ OpAt(o, "done") /\ op[o].alone /\ Busy = {}
\* The editor could not be saved by some install, or not be put back by some uninstall; the write
\* of a hook script has failed.
EditorMissed     == \E o \in Op : "editor" \in op[o].missed
HookMissed(p, h) == \E o \in Op : op[o].place = p /\ h \in op[o].missed

\* However many installs ran, overlapped, failed or were killed before it, a global uninstall that
\* runs alone to its end leaves core.editor, Claude's settings and the lines of every hook script as
\* the user had them (unless they stood in a section), and no section of lrc's (unless its end
\* marker had been deleted).  The errors that lrc drops are the exceptions: the editor may be lost
\* when a call that saves it or puts it back has failed, a hook when its script could not be
\* written, and an `lrc uninstall` that failed in Claude's part does not come to git's.
UninstallRestores ==
  \A o \in Op :
    (LastAlone(o) /\ op[o].plan.kind \in {"uninstall", "remove"} /\ op[o].plan.surface = "all"
       /\ ~Local(o) /\ ~trace.clash /\ "claude" \notin op[o].missed)
      => /\ EditorMissed \/ editor.global = mine.editor
         /\ claude = mine.claude
         /\ \A h \in Hook :
              /\ OwnLines(mine.lines) /\ ~HookMissed("own", h)
                   => UserLines(hook["own"][h]) = UserLines(mine.lines)
              /\ ~Holds(mine.lines, "begin") /\ h \notin op[o].missed
                   => ~Holds(hook[op[o].place][h], "begin")

\* At every moment, whichever commands failed or were killed: core.editor names a wrapper that is
\* there, unless a call that saves the user's editor or puts it back has failed; a hook script with
\* a section finds the managed scripts, unless an uninstall could not write that script; and
\* Claude's settings name a validator that is there.
NothingDangles ==
  trace.clash
    \/ /\ EditorMissed \/ \A s \in DOMAIN editor : editor[s] \in Place => editor[s] \in wrapper
       /\ \A p \in Place, h \in Hook :
            Holds(hook[p][h], "begin") /\ ~Holds(mine.lines, "begin") => p \in script \/ HookMissed(p, h)
       /\ "managed" \in claude => claudeScript

=============================================================================
