----------------------------- MODULE SelfUpdate -----------------------------
(***************************************************************************)
(* internal/selfupdate: how the installed binaries change.                 *)
(*                                                                         *)
(* Every command first heals the pair lrc / git-lrc.  A review also starts *)
(* a goroutine that downloads a newer release, and applies what is staged  *)
(* when it exits; `self-update` stages and applies in the foreground.      *)
(* Commands share the two binaries, the staged files, the pending record   *)
(* and a lock file, and any of them may be killed between two steps.       *)
(*                                                                         *)
(* A build is its version number; a file has the version it holds, whether *)
(* it is all there, and the moment its last byte was written (its mtime:   *)
(* a rename keeps it).  Files replaced by a rename are never written in    *)
(* place, so that copying one is a single step.  The Windows helper and    *)
(* locks of another user are left out.                                     *)
(***************************************************************************)
EXTENDS Naturals, FiniteSets

CONSTANTS
  Command,        \* commands, each a process
  Kinds,          \* what they may be: "other", "review", "update", "force" or not there
  MaxVersion,     \* releases are numbered from 1 to it
  Size,           \* the size of the binary of each version
  MaxFaults       \* bound: steps that fail and commands that are killed

ASSUME UpdateAssumption ==
  /\ "none" \notin Command
  /\ Kinds \subseteq [Command -> {"other", "review", "update", "force", "none"}]
  /\ MaxVersion \in Nat \ {0}
  /\ Size \in [1..MaxVersion -> Nat]
  /\ MaxFaults \in Nat

VARIABLES
  release,        \* the version the manifest calls the latest
  bin,            \* the two installed binaries
  staged,         \* the file each command has downloaded to
  pending,        \* the pending record: which version, and whose staged file
  lock,           \* the thread that holds the update lock
  lockMeta,       \* the pid in the lock file, which outlives the lock
  now,            \* the time of the last write
  run,            \* of each command: has it run, how did it end, which build is it
  th,             \* of each thread: where it is and the file in its hands
  faults,         \* how many steps have failed and commands been killed
  hist            \* history: have two commands run at once, which was the last to start

updateVars == <<release, bin, staged, pending, lock, lockMeta, now, run, th, faults, hist>>

None   == "none"
Unlocked == <<None, None>>
NoUpdate == [v |-> 0, of |-> None]
Thread == Command \X {"main", "check"}
Absent == [v |-> 0, whole |-> FALSE, t |-> 0]
File   == [v: 0..MaxVersion, whole: BOOLEAN, t: Nat]
Other(name) == IF name = "lrc" THEN "git" ELSE "lrc"

\* A thread that is not running, or has nothing in its hands.
Off == [pc |-> "off", file |-> Absent, dst |-> "lrc", pend |-> NoUpdate]

UpdateInit ==
  /\ release \in 1..MaxVersion
  /\ bin \in [{"lrc", "git"} -> {Absent, [v |-> 1, whole |-> TRUE, t |-> 1]}]
  /\ bin.lrc # Absent
  /\ staged = [c \in Command |-> Absent]
  /\ pending = NoUpdate /\ lock = Unlocked /\ lockMeta = None
  /\ now = 1
  /\ \E kind \in Kinds :
       run = [c \in Command |-> [at |-> IF kind[c] = "none" THEN "absent" ELSE "no",
                                kind |-> kind[c], own |-> 0, alone |-> TRUE, erred |-> FALSE]]
  /\ th = [x \in Thread |-> Off]
  /\ faults = 0
  /\ hist = [met |-> FALSE, last |-> None]

At(x, pc)   == th[x].pc = pc
Go(x, pc)   == th' = [th EXCEPT ![x].pc = pc]
Drop(x, pc) == th' = [th EXCEPT ![x].pc = pc, ![x].file = Absent, ![x].dst = "lrc"]
Main(c)     == <<c, "main">>
Running     == {c \in Command : run[c].at = "running"}

\* release(): flock lets go; the pid stays in the file.
Free(x) == lock' = IF lock = x THEN Unlocked ELSE lock

\* The thread is done with what it was doing; the main thread of a review still has to
\* apply, any other main thread ends its command.
Finish(x, erred) ==
  /\ th' = [y \in Thread |-> IF y = x \/ (x[2] = "main" /\ y[1] = x[1]) THEN Off ELSE th[y]]
  /\ run' = [run EXCEPT ![x[1]].erred = @ \/ erred,
                        ![x[1]].at = IF x[2] = "main" THEN "done" ELSE @]
  /\ lock' = IF lock = x \/ (x[2] = "main" /\ lock # Unlocked /\ lock[1] = x[1]) THEN Unlocked ELSE lock

-----------------------------------------------------------------------------
(* Healing: ensureBinariesSynced.                                          *)

\* Which binary is copied over the other; "none" when they look alike.  Equal sizes a few
\* seconds apart are taken on trust, equal sizes further apart are hashed.
\* Mutant: the file written first is taken for the newer one.
StaleReversed(close) ==
  CASE bin.lrc.v = 0 /\ bin.git.v = 0 -> None
    [] bin.lrc.v = 0 /\ bin.git.v # 0 -> "lrc"
    [] bin.lrc.v # 0 /\ bin.git.v = 0 -> "git"
    [] OTHER -> IF bin.lrc.t > bin.git.t THEN "lrc" ELSE "git"
\* Mutant: files of different sizes written within seconds of each other look alike.
StaleHurried(close) ==
  CASE bin.lrc.v = 0 \/ bin.git.v = 0 -> None
    [] OTHER -> IF bin.lrc.v = bin.git.v \/ close THEN None
                ELSE IF bin.lrc.t > bin.git.t THEN "git" ELSE "lrc"
Stale(close) ==
  CASE bin.lrc.v = 0 /\ bin.git.v = 0 -> None
    [] bin.lrc.v = 0 /\ bin.git.v # 0 -> "lrc"
    [] bin.lrc.v # 0 /\ bin.git.v = 0 -> "git"
    [] OTHER ->
         IF Size[bin.lrc.v] = Size[bin.git.v] /\ (close \/ bin.lrc.v = bin.git.v) THEN None
         ELSE IF bin.lrc.t > bin.git.t THEN "git" ELSE "lrc"

\* A command starts, as whichever of the two binaries is there.
Start(c) ==
  /\ run[c].at = "no"
  /\ \E name \in {"lrc", "git"}, close \in BOOLEAN :
       /\ bin[name].v # 0
       /\ run' = [d \in Command |->
                    IF d = c THEN [run[c] EXCEPT !.at = "running", !.own = bin[name].v,
                                                 !.alone = Running = {}]
                    ELSE [run[d] EXCEPT !.alone = @ /\ run[d].at # "running"]]
       /\ th' = [th EXCEPT ![Main(c)].pc = IF Stale(close) = None THEN "run" ELSE "heal",
                           ![Main(c)].dst = IF Stale(close) = None THEN "lrc" ELSE Stale(close)]
  /\ hist' = [hist EXCEPT !.met = @ \/ Running # {}, !.last = c]
  /\ UNCHANGED <<release, bin, staged, pending, lock, lockMeta, now, faults>>

\* copyFileContents into a temporary file beside the target; nothing to open is an error.
Copied(x, from) ==
  /\ now' = now + 1
  /\ th' = [th EXCEPT ![x].pc = IF @ = "heal" THEN "healed" ELSE IF @ = "apply" THEN "applied"
                                ELSE "synced",
                      ![x].file = [from EXCEPT !.t = now + 1]]

\* resyncBinary.
HealCopy(c) ==
  /\ At(Main(c), "heal")
  /\ Copied(Main(c), bin[Other(th[Main(c)].dst)])
  /\ UNCHANGED <<release, bin, staged, pending, run, lock, lockMeta, faults, hist>>
HealRename(c) ==
  /\ At(Main(c), "healed")
  /\ bin' = [bin EXCEPT ![th[Main(c)].dst] = th[Main(c)].file]
  /\ Drop(Main(c), "run")
  /\ UNCHANGED <<release, staged, pending, lock, lockMeta, now, run, faults, hist>>

\* What the command was called for.  A review starts its check in the background (once);
\* at its end it applies what is staged.  Any other command but `self-update` just ends.
Work(c) ==
  /\ At(Main(c), "run")
  /\ CASE run[c].kind = "other"  -> Finish(Main(c), FALSE)
       [] run[c].kind = "review" ->
            /\ th' = [th EXCEPT ![Main(c)].pc = "exit", ![<<c, "check">>].pc = "fetch"]
            /\ UNCHANGED <<run, lock>>
       [] OTHER -> Go(Main(c), "fetch") /\ UNCHANGED <<run, lock>>
  /\ UNCHANGED <<release, bin, staged, pending, lockMeta, now, faults, hist>>

-----------------------------------------------------------------------------
(* Staging: fetchLatestVersionFromManifest, stageUpdateVersion.            *)

Release ==
  /\ release < MaxVersion /\ release' = release + 1
  /\ UNCHANGED <<bin, staged, pending, lock, lockMeta, now, run, th, faults, hist>>

\* The check gives up unless the release is newer than the build it runs as; so does
\* `self-update`, unless it is forced.
Fetch(x) ==
  /\ At(x, "fetch")
  /\ \/ /\ run[x[1]].own < release \/ run[x[1]].kind = "force"
        /\ th' = [th EXCEPT ![x].pc = "lock", ![x].pend = [v |-> release, of |-> x[1]]]
        /\ UNCHANGED <<run, lock>>
     \/ run[x[1]].own >= release /\ run[x[1]].kind # "force" /\ Finish(x, FALSE)
  /\ UNCHANGED <<release, bin, staged, pending, lockMeta, now, faults, hist>>

\* acquireUpdateLock of the staging thread.  Held by another: the check and `self-update`
\* stop here; --force kills the process named in the lock file and tries once more.
StageLock(x) ==
  /\ At(x, "lock")
  /\ \/ lock = Unlocked /\ lock' = x /\ Go(x, "meta") /\ UNCHANGED run
     \/ lock # Unlocked /\ run[x[1]].kind # "force" /\ Finish(x, FALSE)
     \/ lock # Unlocked /\ run[x[1]].kind = "force" /\ lockMeta = None /\ Finish(x, TRUE)
     \/ /\ lock # Unlocked /\ run[x[1]].kind = "force" /\ lockMeta # None
        /\ LET shot == {lockMeta} \cap Running IN
             /\ th' = [y \in Thread |-> IF y = x THEN [th[y] EXCEPT !.pc = "relock"]
                                      ELSE IF y[1] \in shot THEN Off
                                      ELSE th[y]]
             /\ run' = [d \in Command |-> IF d \in shot THEN [run[d] EXCEPT !.at = "killed"]
                                          ELSE run[d]]
             /\ lock' = IF lock[1] \in shot THEN Unlocked ELSE lock
  /\ UNCHANGED <<release, bin, staged, pending, lockMeta, now, faults, hist>>
Relock(x) ==
  /\ At(x, "relock")
  /\ \/ lock = Unlocked /\ lock' = x /\ Go(x, "meta") /\ UNCHANGED run
     \/ lock # Unlocked /\ Finish(x, TRUE)
  /\ UNCHANGED <<release, bin, staged, pending, lockMeta, now, faults, hist>>
\* The pid is written after the lock is taken.
LockMeta(x) ==
  /\ At(x, "meta") \/ At(x, "ameta")
  /\ lockMeta' = x[1]
  /\ Go(x, IF At(x, "meta") THEN "stage" ELSE "load")
  /\ UNCHANGED <<release, bin, staged, pending, lock, now, run, faults, hist>>

\* An artifact of this version that is still there is used again; otherwise the binary is
\* downloaded, and refused unless it is what the manifest's checksum says.
Usable(p) == p # NoUpdate /\ staged[p.of].v # 0
Download(x) ==
  /\ At(x, "stage")
  /\ \/ /\ Usable(pending) /\ pending.v = th[x].pend.v /\ run[x[1]].kind # "force"
        /\ th' = [th EXCEPT ![x].pc = "unlock", ![x].pend = pending]
        /\ UNCHANGED <<staged, lock, run>>
     \/ /\ ~(Usable(pending) /\ pending.v = th[x].pend.v) \/ run[x[1]].kind = "force"
        /\ \E whole \in BOOLEAN :
             /\ IF whole
                THEN /\ staged' = [staged EXCEPT ![x[1]] =
                                     [v |-> th[x].pend.v, whole |-> whole, t |-> now]]
                     /\ Go(x, "save") /\ UNCHANGED <<lock, run>>
                ELSE Finish(x, TRUE) /\ UNCHANGED staged
  /\ UNCHANGED <<release, bin, pending, lockMeta, now, faults, hist>>
\* savePendingUpdateState, atomically; a file that cannot be recorded is removed.
Save(x) ==
  /\ At(x, "save")
  /\ pending' = th[x].pend /\ Go(x, "unlock")
  /\ UNCHANGED <<release, bin, staged, lock, run, lockMeta, now, faults, hist>>
\* `self-update` goes on to apply what it staged, without the lock.
Unlock(x) ==
  /\ At(x, "unlock")
  /\ IF x[2] = "main" THEN Go(x, "check") /\ Free(x) /\ UNCHANGED run ELSE Finish(x, FALSE)
  /\ UNCHANGED <<release, bin, staged, pending, lockMeta, now, faults, hist>>

-----------------------------------------------------------------------------
(* Applying: applyPendingUpdateIfAny, applyPendingUpdateState, ...Unix.    *)

\* At the exit of a review, whatever its goroutine is doing.
ApplyLock(c) ==
  /\ At(Main(c), "exit")
  /\ \/ lock = Unlocked /\ lock' = Main(c) /\ Go(Main(c), "ameta") /\ UNCHANGED run
     \/ lock # Unlocked /\ Finish(Main(c), FALSE)
  /\ UNCHANGED <<release, bin, staged, pending, lockMeta, now, faults, hist>>
Load(c) ==
  /\ At(Main(c), "load")
  /\ \/ pending = NoUpdate /\ Finish(Main(c), FALSE)
     \/ /\ pending # NoUpdate
        /\ th' = [th EXCEPT ![Main(c)].pc = "check", ![Main(c)].pend = pending]
        /\ UNCHANGED <<run, lock>>
  /\ UNCHANGED <<release, bin, staged, pending, lockMeta, now, faults, hist>>
\* A record whose file is gone is cleared.
CheckStaged(c) ==
  /\ At(Main(c), "check")
  /\ IF Usable(th[Main(c)].pend)
     THEN Go(Main(c), "apply") /\ UNCHANGED <<pending, run, lock>>
     ELSE pending' = NoUpdate /\ Finish(Main(c), TRUE)
  /\ UNCHANGED <<release, bin, staged, lockMeta, now, faults, hist>>
ApplyCopy(c) ==
  /\ At(Main(c), "apply")
  /\ LET from == staged[th[Main(c)].pend.of] IN
       \/ from.v # 0 /\ Copied(Main(c), from) /\ UNCHANGED <<run, lock>>
       \/ from.v = 0 /\ Finish(Main(c), TRUE) /\ UNCHANGED now
  /\ UNCHANGED <<release, bin, staged, pending, lockMeta, faults, hist>>
ApplyRename(c) ==
  /\ At(Main(c), "applied")
  /\ bin' = [bin EXCEPT !.lrc = th[Main(c)].file]
  /\ Drop(Main(c), "sync")
  /\ UNCHANGED <<release, run, lock, staged, pending, lockMeta, now, faults, hist>>
SyncCopy(c) ==
  /\ At(Main(c), "sync")
  /\ Copied(Main(c), bin.lrc)
  /\ UNCHANGED <<release, bin, run, lock, staged, pending, lockMeta, faults, hist>>
\* The copy is compared with lrc; then lrc hooks install is run.
SyncRename(c) ==
  /\ At(Main(c), "synced")
  /\ bin' = [bin EXCEPT !.git = th[Main(c)].file]
  /\ IF bin.lrc.v = th[Main(c)].file.v THEN Drop(Main(c), "hooks") /\ UNCHANGED <<run, lock>>
                                       ELSE Finish(Main(c), TRUE)
  /\ UNCHANGED <<release, staged, pending, lockMeta, now, faults, hist>>
HooksInstall(c) ==
  /\ At(Main(c), "hooks")
  /\ staged' = [staged EXCEPT ![th[Main(c)].pend.of] = Absent]
  /\ Go(Main(c), "clear")
  /\ UNCHANGED <<release, bin, run, lock, pending, lockMeta, now, faults, hist>>
Clear(c) ==
  /\ At(Main(c), "clear")
  /\ pending' = NoUpdate
  /\ Finish(Main(c), FALSE)
  /\ UNCHANGED <<release, bin, staged, lockMeta, now, faults, hist>>

\* Any step that calls the network or writes a file may fail: healing warns and goes on, the
\* rest ends what the thread was doing.  A file that cannot be recorded is removed.
Fallible == {"heal", "healed", "fetch", "stage", "save", "apply", "applied", "sync", "synced",
             "hooks", "clear"}
Err(x) ==
  /\ faults < MaxFaults /\ faults' = faults + 1
  /\ th[x].pc \in Fallible
  /\ staged' = IF At(x, "save") THEN [staged EXCEPT ![x[1]] = Absent] ELSE staged
  /\ IF th[x].pc \in {"heal", "healed"}
     THEN Drop(x, "run") /\ run' = [run EXCEPT ![x[1]].erred = TRUE] /\ UNCHANGED lock
     ELSE Finish(x, TRUE)
  /\ UNCHANGED <<release, bin, pending, lockMeta, now, hist>>
\* A command is killed.
Die(c) ==
  /\ faults < MaxFaults /\ faults' = faults + 1
  /\ c \in Running
  /\ th' = [x \in Thread |-> IF x[1] = c THEN Off ELSE th[x]]
  /\ run' = [run EXCEPT ![c].at = "killed"]
  /\ lock' = IF lock # Unlocked /\ lock[1] = c THEN Unlocked ELSE lock
  /\ UNCHANGED <<release, bin, staged, pending, lockMeta, now, hist>>

UpdateNext ==
  \/ Release
  \/ \E c \in Command :
       \/ Start(c) \/ HealCopy(c) \/ HealRename(c) \/ Work(c) \/ ApplyLock(c) \/ Load(c)
       \/ CheckStaged(c) \/ ApplyCopy(c) \/ ApplyRename(c) \/ SyncCopy(c) \/ SyncRename(c)
       \/ HooksInstall(c) \/ Clear(c) \/ Die(c)
  \/ \E x \in Thread :
       \/ Fetch(x) \/ StageLock(x) \/ Relock(x) \/ LockMeta(x) \/ Download(x)
       \/ Save(x) \/ Unlock(x) \/ Err(x)

UpdateSpec == UpdateInit /\ [][UpdateNext]_updateVars

-----------------------------------------------------------------------------
(* Properties.                                                             *)

\* "A mismatch introduced by any prior failure mode self-heals on the very next command":
\* after a command that ran alone and met no error, lrc and git-lrc are the same size, whatever
\* the killed and failed commands before it left behind.
NextCommandHeals ==
  \A c \in Command :
    (c = hist.last /\ run[c].at = "done" /\ run[c].alone /\ ~run[c].erred /\ Running = {})
      => \/ bin.lrc.v = 0 /\ bin.git.v = 0
         \/ bin.lrc.v # 0 /\ bin.git.v # 0 /\ Size[bin.lrc.v] = Size[bin.git.v]

\* While commands run one after the other, killed or not, lrc is never replaced by an older
\* build, and a staged build is not forgotten before it is installed, unless its file is gone.
InTurnNothingIsLost ==
  [][hist.met \/ /\ bin'.lrc.v >= bin.lrc.v
                 /\ (pending = NoUpdate \/ pending' # NoUpdate \/ ~Usable(pending)
                       \/ bin.lrc.v = pending.v)]_updateVars
=============================================================================
