--------------------------- MODULE InstallProofs ---------------------------
(***************************************************************************)
(* Proofs about the two components that change what is installed.          *)
(* SelfUpdate, for any number of commands and releases, any sizes of the   *)
(* binaries, and any number of faults; then HookInstall, for any number of *)
(* operations, any hooks and any kills.                                    *)
(***************************************************************************)
EXTENDS SelfUpdate, HookInstall, FiniteSetTheorems, FunctionTheorems, SequenceTheorems,
        WellFoundedInduction, TLAPS

Side == {"lrc", "git"}
Pend == {NoUpdate} \cup [v : 1..MaxVersion, of : Command]

\* The steps of a thread: it heals, stages, applies.
Early   == {"heal", "healed", "run"}
Claims  == {"lock", "relock", "meta", "stage", "save"}
Staging == Claims \cup {"fetch"}
Installed == {"sync", "synced", "hooks", "clear"}
Apply   == Installed \cup {"check", "apply", "applied"}
PC      == Early \cup Staging \cup Apply \cup {"off", "exit", "unlock", "ameta", "load"}

ThreadState == [pc : PC, file : File, dst : Side, pend : Pend]
RunState ==
  [at : {"absent", "no", "running", "done", "killed"},
   kind : {"other", "review", "update", "force", "none"},
   own : 0..MaxVersion, alone : BOOLEAN, erred : BOOLEAN]

UpdateTypeOK ==
  /\ release \in 1..MaxVersion
  /\ bin \in [Side -> File] /\ staged \in [Command -> File]
  /\ pending \in Pend
  /\ lock \in Thread \cup {Unlocked} /\ lockMeta \in Command \cup {None}
  /\ now \in Nat
  /\ run \in [Command -> RunState]
  /\ th \in [Thread -> ThreadState]
  /\ faults \in Nat
  /\ hist \in [met : BOOLEAN, last : Command \cup {None}]

Check(c) == <<c, "check">>

\* What the threads of a command may be doing.  The check of a review comes after its main
\* thread has healed, and ends with it.
ThreadsOf(c) ==
  /\ run[c].kind = "none" => run[c].at = "absent"
  /\ run[c].at # "running" => th[Main(c)].pc = "off" /\ th[Check(c)].pc = "off"
  /\ th[Main(c)].pc \in Early \cup {"off"} => th[Check(c)].pc = "off"
  /\ th[Main(c)].pc \in {"exit", "ameta", "load"} => run[c].kind = "review"
  /\ th[Main(c)].pc \in Staging \cup {"unlock"} => run[c].kind \in {"update", "force"}
  /\ th[Main(c)].pc \in Apply => run[c].kind \in {"review", "update", "force"}
  /\ th[Check(c)].pc # "off" => run[c].kind = "review"
  /\ th[Check(c)].pc \in (Staging \ {"relock"}) \cup {"off", "unlock"}

\* Who works on the staged files and their record holds the lock; only `self-update` applies
\* without it.
NeedsLock(x) ==
  \/ th[x].pc \in {"meta", "stage", "save", "unlock", "ameta", "load"}
  \/ th[x].pc \in Apply /\ run[x[1]].kind = "review"
LockIsHeld == \A x \in Thread : NeedsLock(x) => lock = x

\* A command has left its name in the lock file only once it has had the lock.
Marked(c) ==
  lockMeta = c => /\ run[c].at # "no"
                  /\ th[Main(c)].pc \notin Early \cup {"fetch", "lock", "relock", "meta"}

\* Who claims or applies a release knows which.
Knows(x) == th[x].pc \in Claims \cup Apply \cup {"unlock"} => th[x].pend # NoUpdate

Flow ==
  /\ \A c \in Command : ThreadsOf(c) /\ Marked(c)
  /\ LockIsHeld
  /\ \A x \in Thread : Knows(x)

-----------------------------------------------------------------------------
(* A command that runs alone *)

Undisturbed(c) == c = hist.last /\ run[c].alone /\ run[c].at \in {"running", "done"}

Synced == bin.lrc.v # 0 /\ bin.git.v # 0 /\ Size[bin.lrc.v] = Size[bin.git.v]

\* Healed, or on the way to it.
Heals(c) ==
  LET t == th[Main(c)] IN
  /\ t.pc = "heal"    => bin[Other(t.dst)].v # 0
  /\ t.pc = "healed"  => t.file.v = bin[Other(t.dst)].v /\ t.file.v # 0
  /\ t.pc = "applied" => t.file.v # 0
  /\ t.pc = "sync"    => bin.lrc.v # 0
  /\ t.pc = "synced"  => t.file.v = bin.lrc.v /\ t.file.v # 0
  /\ t.pc \notin {"heal", "healed", "sync", "synced"} => Synced

AloneHeals ==
  \A c \in Command :
    Undisturbed(c) => Running \subseteq {c} /\ (~run[c].erred => Heals(c))

HealInv == UpdateTypeOK /\ Flow /\ AloneHeals

-----------------------------------------------------------------------------
(* Commands that run one after the other *)

OneAtATime == \A c, d \in Running : c = d

\* git-lrc lags behind lrc, by a release and by its time.
Lags ==
  /\ 0 < bin.lrc.v /\ bin.lrc.v <= release
  /\ bin.git.v <= bin.lrc.v /\ bin.git.t <= now
  /\ 0 < bin.git.v /\ bin.git.v < bin.lrc.v => bin.git.t < bin.lrc.t

\* The record is of a build that is at least as new as lrc, by a command that has staged.
Recorded ==
  pending # NoUpdate =>
    /\ bin.lrc.v <= pending.v /\ pending.v <= release
    /\ staged[pending.of].v \in {0, pending.v}
    /\ run[pending.of].at # "no"
    /\ th[Main(pending.of)].pc \notin Early \cup Staging
    /\ th[Check(pending.of)].pc \notin Staging

\* What a thread has in its hands.
Carries(x) ==
  /\ th[x].file.t <= now
  /\ th[x].pc \in Claims =>
       /\ th[x].pend # NoUpdate /\ th[x].pend.of = x[1] /\ th[x].pend.v <= release
       /\ bin.lrc.v <= th[x].pend.v /\ pending.v <= th[x].pend.v
  /\ th[x].pc = "save" => staged[x[1]].v = th[x].pend.v
MainCarries(c) ==
  LET t == th[Main(c)] IN
  /\ t.pc \in {"heal", "healed"} => t.dst = "git"
  /\ t.pc = "healed" => t.file.v = bin.lrc.v
  /\ t.pc \in Apply \cup {"unlock"} => t.pend = pending /\ pending # NoUpdate
  /\ t.pc = "applied" => t.file.v = pending.v /\ bin.git.t < t.file.t
  /\ t.pc \in Installed => bin.lrc.v = pending.v
  /\ t.pc = "synced" => t.file.v = bin.lrc.v

InTurn ==
  /\ OneAtATime /\ Lags /\ Recorded
  /\ \A x \in Thread : Carries(x)
  /\ \A c \in Command : MainCarries(c)

TurnInv == UpdateTypeOK /\ Flow /\ (~hist.met => InTurn)
-----------------------------------------------------------------------------

LEMMA Threads ==
  /\ \A c \in Command : /\ Main(c) \in Thread /\ Main(c)[1] = c /\ Main(c)[2] = "main"
                         /\ Check(c) \in Thread /\ Check(c)[1] = c /\ Check(c)[2] = "check"
  /\ \A x \in Thread : x[1] \in Command /\ (x = Main(x[1]) \/ x = Check(x[1]))
BY DEF Thread, Main, Check

LEMMA Twins == \A c \in Command : Main(c) # Check(c)
BY DEF Main, Check

LEMMA PCs ==
  PC = {"heal", "healed", "run", "lock", "relock", "meta", "stage", "save", "fetch", "sync", "synced",
        "hooks", "clear", "check", "apply", "applied", "off", "exit", "unlock", "ameta", "load"}
BY DEF PC, Early, Claims, Staging, Installed, Apply

LEMMA Blanks == Off \in ThreadState /\ Absent \in File /\ "lrc" \in Side /\ NoUpdate \in Pend
BY PCs, UpdateAssumption DEF Off, ThreadState, File, Absent, Side, Pend

LEMMA Fields ==
  ASSUME UpdateTypeOK
  PROVE  /\ \A x \in Thread : /\ th[x].pc \in PC /\ th[x].file \in File
                              /\ th[x].dst \in Side /\ th[x].pend \in Pend
         /\ \A name \in Side : bin[name] \in File /\ Other(name) \in Side
         /\ \A c \in Command : staged[c] \in File /\ run[c] \in RunState
         /\ \A file \in File : file.v \in 0..MaxVersion /\ file.t \in Nat
         /\ \A pend \in Pend : /\ pend = NoUpdate \/ (pend.v \in 1..MaxVersion /\ pend.of \in Command)
                              /\ pend.v \in 0..MaxVersion
<1>1. \A x \in Thread : /\ th[x].pc \in PC /\ th[x].file \in File
                         /\ th[x].dst \in Side /\ th[x].pend \in Pend
  BY DEF UpdateTypeOK, ThreadState
<1>2. \A name \in Side : bin[name] \in File /\ Other(name) \in Side
  BY DEF UpdateTypeOK, Side, Other
<1>3. \A c \in Command : staged[c] \in File /\ run[c] \in RunState
  BY DEF UpdateTypeOK
<1>4. \A file \in File : file.v \in 0..MaxVersion /\ file.t \in Nat
  BY DEF File
<1>5. ASSUME NEW pend \in Pend
      PROVE  /\ pend = NoUpdate \/ (pend.v \in 1..MaxVersion /\ pend.of \in Command)
             /\ pend.v \in 0..MaxVersion
  BY UpdateAssumption DEF Pend, NoUpdate
<1> QED BY <1>1, <1>2, <1>3, <1>4, <1>5

LEMMA GoTyped ==
  ASSUME UpdateTypeOK, NEW x \in Thread, NEW pc \in PC, Go(x, pc)
  PROVE  th' \in [Thread -> ThreadState]
BY DEF UpdateTypeOK, Go, ThreadState

LEMMA DropTyped ==
  ASSUME UpdateTypeOK, NEW x \in Thread, NEW pc \in PC, Drop(x, pc)
  PROVE  th' \in [Thread -> ThreadState]
BY Blanks DEF UpdateTypeOK, Drop, ThreadState

LEMMA CopyTyped ==
  ASSUME UpdateTypeOK, NEW x \in Thread, NEW from \in File, Copied(x, from)
  PROVE  th' \in [Thread -> ThreadState] /\ now' \in Nat
<1>1. [from EXCEPT !.t = now + 1] \in File /\ now' \in Nat
  BY DEF UpdateTypeOK, Copied, File
<1>2. (IF th[x].pc = "heal" THEN "healed" ELSE IF th[x].pc = "apply" THEN "applied" ELSE "synced") \in PC
  BY PCs
<1>3. PICK pc \in PC, file \in File : th' = [th EXCEPT ![x].pc = pc, ![x].file = file]
  BY <1>1, <1>2 DEF Copied
<1> QED BY <1>1, <1>3 DEF UpdateTypeOK, ThreadState

LEMMA FinishTyped ==
  ASSUME UpdateTypeOK, NEW x \in Thread, NEW erred \in BOOLEAN, Finish(x, erred)
  PROVE  /\ th' \in [Thread -> ThreadState] /\ run' \in [Command -> RunState]
         /\ lock' \in Thread \cup {Unlocked}
<1>1. x[1] \in Command
  BY Threads
<1>2. th' \in [Thread -> ThreadState]
  BY Blanks DEF UpdateTypeOK, Finish
<1>3. run' \in [Command -> RunState]
  BY <1>1 DEF UpdateTypeOK, Finish, RunState
<1> QED BY <1>2, <1>3 DEF UpdateTypeOK, Finish

LEMMA PendTyped ==
  ASSUME UpdateTypeOK, NEW x \in Thread, NEW pc \in PC, NEW p \in Pend,
         th' = [th EXCEPT ![x].pc = pc, ![x].pend = p]
  PROVE  th' \in [Thread -> ThreadState]
BY DEF UpdateTypeOK, ThreadState

LEMMA TypeStep ==
  ASSUME UpdateTypeOK, Flow, [UpdateNext]_updateVars
  PROVE  UpdateTypeOK'
<1>1. CASE Release
  BY <1>1, UpdateAssumption DEF Release, UpdateTypeOK
<1>2. ASSUME NEW c \in Command, Start(c) PROVE UpdateTypeOK'
  <2>1. PICK name \in {"lrc", "git"}, close \in BOOLEAN :
          /\ run' = [d \in Command |->
                       IF d = c THEN [run[c] EXCEPT !.at = "running", !.own = bin[name].v, !.alone = Running = {}]
                       ELSE [run[d] EXCEPT !.alone = @ /\ run[d].at # "running"]]
          /\ th' = [th EXCEPT ![Main(c)].pc = IF Stale(close) = None THEN "run" ELSE "heal",
                              ![Main(c)].dst = IF Stale(close) = None THEN "lrc" ELSE Stale(close)]
    BY <1>2 DEF Start
  <2>2. bin[name].v \in 0..MaxVersion
    BY Fields DEF Side
  <2>3. \A d \in Command : run'[d] \in RunState
    <3>1. [run[c] EXCEPT !.at = "running", !.own = bin[name].v, !.alone = Running = {}] \in RunState
      <4>1. run[c] \in RunState /\ (Running = {}) \in BOOLEAN
        BY DEF UpdateTypeOK
      <4>2. \A al \in BOOLEAN :
              [run[c] EXCEPT !.at = "running", !.own = bin[name].v, !.alone = al] \in RunState
        BY <2>2, <4>1 DEF RunState
      <4> QED BY <4>1, <4>2
    <3>2. ASSUME NEW d \in Command PROVE [run[d] EXCEPT !.alone = @ /\ run[d].at # "running"] \in RunState
      BY DEF UpdateTypeOK, RunState
    <3> QED BY <2>1, <3>1, <3>2
  <2>4. run' \in [Command -> RunState]
    <3> HIDE DEF RunState
    <3> QED BY <2>1, <2>3
  <2>5. Stale(close) \in Side \cup {None}
    BY DEF Stale, Side
  <2>6. PICK pc \in PC, dst \in Side : th' = [th EXCEPT ![Main(c)].pc = pc, ![Main(c)].dst = dst]
    BY <2>1, <2>5, PCs DEF Side
  <2>7. th' \in [Thread -> ThreadState]
    BY <2>6 DEF UpdateTypeOK, ThreadState
  <2>8. hist' \in [met : BOOLEAN, last : Command \cup {None}]
    BY <1>2 DEF Start, UpdateTypeOK
  <2> QED BY <1>2, <2>4, <2>7, <2>8 DEF Start, UpdateTypeOK
<1>3. ASSUME NEW c \in Command, HealCopy(c) \/ SyncCopy(c) PROVE UpdateTypeOK'
  <2>1. PICK from \in File : Copied(Main(c), from)
    BY <1>3, Fields, Threads DEF HealCopy, SyncCopy, Side
  <2> QED BY <1>3, <2>1, Threads, CopyTyped DEF HealCopy, SyncCopy, UpdateTypeOK
<1>4. ASSUME NEW c \in Command, HealRename(c) PROVE UpdateTypeOK'
  <2>1. bin' \in [Side -> File]
    BY <1>4, Fields, Threads DEF HealRename, UpdateTypeOK
  <2> QED BY <1>4, <2>1, Threads, PCs, DropTyped DEF HealRename, UpdateTypeOK
<1>5. ASSUME NEW c \in Command, ApplyRename(c) PROVE UpdateTypeOK'
  <2>1. bin' \in [Side -> File]
    BY <1>5, Fields, Threads DEF ApplyRename, UpdateTypeOK, Side
  <2> QED BY <1>5, <2>1, Threads, PCs, DropTyped DEF ApplyRename, UpdateTypeOK
<1>6. ASSUME NEW c \in Command, SyncRename(c) PROVE UpdateTypeOK'
  <2>1. bin' \in [Side -> File]
    BY <1>6, Fields, Threads DEF SyncRename, UpdateTypeOK, Side
  <2>2. th' \in [Thread -> ThreadState] /\ run' \in [Command -> RunState] /\ lock' \in Thread \cup {Unlocked}
    BY <1>6, Threads, PCs, DropTyped, FinishTyped DEF SyncRename, UpdateTypeOK
  <2> QED BY <1>6, <2>1, <2>2 DEF SyncRename, UpdateTypeOK
<1>7. ASSUME NEW c \in Command, Work(c) PROVE UpdateTypeOK'
  <2>1. CASE th' = [th EXCEPT ![Main(c)].pc = "exit", ![<<c, "check">>].pc = "fetch"] /\ UNCHANGED <<run, lock>>
    <3>1. Main(c) \in Thread /\ Check(c) \in Thread /\ "exit" \in PC /\ "fetch" \in PC
      BY Threads, PCs
    <3>2. PICK one : one = [th EXCEPT ![Main(c)].pc = "exit"]
      OBVIOUS
    <3>3. one \in [Thread -> ThreadState]
      BY <3>1, <3>2 DEF UpdateTypeOK, ThreadState
    <3>4. th' = [one EXCEPT ![Check(c)].pc = "fetch"]
      BY <2>1, <3>2 DEF Check
    <3>5. th' \in [Thread -> ThreadState]
      BY <3>1, <3>3, <3>4 DEF ThreadState
    <3> QED BY <1>7, <2>1, <3>5 DEF Work, UpdateTypeOK
  <2>2. CASE Go(Main(c), "fetch") /\ UNCHANGED <<run, lock>>
    <3>1. th' \in [Thread -> ThreadState]
      BY <2>2, Threads, PCs, GoTyped
    <3> QED BY <1>7, <2>2, <3>1 DEF Work, UpdateTypeOK
  <2>3. CASE Finish(Main(c), FALSE)
    <3>1. th' \in [Thread -> ThreadState] /\ run' \in [Command -> RunState] /\ lock' \in Thread \cup {Unlocked}
      BY <2>3, Threads, FinishTyped
    <3> QED BY <1>7, <3>1 DEF Work, UpdateTypeOK
  <2> QED BY <1>7, <2>1, <2>2, <2>3 DEF Work
<1>8. ASSUME NEW c \in Command, ApplyLock(c) \/ CheckStaged(c) \/ Clear(c) PROVE UpdateTypeOK'
  <2>1. Main(c) \in Thread /\ {"ameta", "apply"} \subseteq PC /\ NoUpdate \in Pend
    BY Threads, PCs, Blanks
  <2>2. CASE \E pc \in {"ameta", "apply"} : Go(Main(c), pc) /\ UNCHANGED run /\ lock' \in {lock, Main(c)}
    <3>1. th' \in [Thread -> ThreadState] /\ lock' \in Thread \cup {Unlocked}
      BY <2>1, <2>2, GoTyped DEF UpdateTypeOK
    <3> QED BY <1>8, <2>1, <2>2, <3>1 DEF ApplyLock, CheckStaged, Clear, UpdateTypeOK
  <2>3. CASE \E erred \in BOOLEAN : Finish(Main(c), erred)
    <3>1. th' \in [Thread -> ThreadState] /\ run' \in [Command -> RunState] /\ lock' \in Thread \cup {Unlocked}
      BY <2>1, <2>3, FinishTyped
    <3> QED BY <1>8, <2>1, <3>1 DEF ApplyLock, CheckStaged, Clear, UpdateTypeOK
  <2> QED BY <1>8, <2>2, <2>3 DEF ApplyLock, CheckStaged, Clear
<1>9. ASSUME NEW c \in Command, Load(c) PROVE UpdateTypeOK'
  <2> Main(c) \in Thread /\ "check" \in PC /\ pending \in Pend
    BY Threads, PCs DEF UpdateTypeOK
  <2>1. th' = [th EXCEPT ![Main(c)].pc = "check", ![Main(c)].pend = pending] => th' \in [Thread -> ThreadState]
    BY PendTyped
  <2>2. CASE Finish(Main(c), FALSE)
    <3>1. th' \in [Thread -> ThreadState] /\ run' \in [Command -> RunState] /\ lock' \in Thread \cup {Unlocked}
      BY <2>2, FinishTyped
    <3> QED BY <1>9, <3>1 DEF Load, UpdateTypeOK
  <2>3. CASE th' = [th EXCEPT ![Main(c)].pc = "check", ![Main(c)].pend = pending] /\ UNCHANGED <<run, lock>>
    BY <1>9, <2>1, <2>3 DEF Load, UpdateTypeOK
  <2> QED BY <1>9, <2>2, <2>3 DEF Load
<1>10. ASSUME NEW c \in Command, ApplyCopy(c) PROVE UpdateTypeOK'
  <2>1. CASE Finish(Main(c), TRUE) /\ UNCHANGED now
    BY <1>10, <2>1, Threads, FinishTyped DEF ApplyCopy, UpdateTypeOK
  <2>2. CASE Copied(Main(c), staged[th[Main(c)].pend.of]) /\ UNCHANGED <<run, lock>>
    <3>1. th[Main(c)].pend.of \in Command
      BY <1>10, Fields, Threads DEF ApplyCopy, At, Flow, Knows, Apply
    <3>2. staged[th[Main(c)].pend.of] \in File
      BY <3>1 DEF UpdateTypeOK
    <3> QED BY <1>10, <2>2, <3>2, Threads, CopyTyped DEF ApplyCopy, UpdateTypeOK
  <2> QED BY <1>10, <2>1, <2>2 DEF ApplyCopy
<1>11. ASSUME NEW c \in Command, HooksInstall(c) PROVE UpdateTypeOK'
  <2>1. staged' \in [Command -> File]
    BY <1>11, Blanks DEF HooksInstall, UpdateTypeOK
  <2> QED BY <1>11, <2>1, Threads, PCs, GoTyped DEF HooksInstall, UpdateTypeOK
<1>12. ASSUME NEW c \in Command, Die(c) PROVE UpdateTypeOK'
  <2>1. th' \in [Thread -> ThreadState] /\ run' \in [Command -> RunState]
    BY <1>12, Blanks DEF Die, UpdateTypeOK, RunState
  <2> QED BY <1>12, <2>1 DEF Die, UpdateTypeOK
<1>13. ASSUME NEW x \in Thread, Fetch(x) PROVE UpdateTypeOK'
  <2>1. [v |-> release, of |-> x[1]] \in Pend
    BY Threads DEF UpdateTypeOK, Pend
  <2>2. th' = [th EXCEPT ![x].pc = "lock", ![x].pend = [v |-> release, of |-> x[1]]] => th' \in [Thread -> ThreadState]
    BY <2>1, PCs, PendTyped
  <2>3. th' \in [Thread -> ThreadState] /\ run' \in [Command -> RunState] /\ lock' \in Thread \cup {Unlocked}
    BY <1>13, <2>2, FinishTyped DEF Fetch, UpdateTypeOK
  <2> QED BY <1>13, <2>3 DEF Fetch, UpdateTypeOK
<1>14. ASSUME NEW x \in Thread, StageLock(x) PROVE UpdateTypeOK'
  <2>1. CASE lockMeta # None /\ lock # Unlocked /\ run[x[1]].kind = "force"
    <3>1. PICK shot : shot = {lockMeta} \cap Running
      OBVIOUS
    <3>2. /\ th' = [y \in Thread |-> IF y = x THEN [th[y] EXCEPT !.pc = "relock"]
                                     ELSE IF y[1] \in shot THEN Off ELSE th[y]]
          /\ run' = [d \in Command |-> IF d \in shot THEN [run[d] EXCEPT !.at = "killed"] ELSE run[d]]
          /\ lock' = IF lock[1] \in shot THEN Unlocked ELSE lock
      BY <1>14, <2>1, <3>1 DEF StageLock
    <3>3. th' \in [Thread -> ThreadState]
      BY <3>2, Blanks, PCs DEF UpdateTypeOK, ThreadState
    <3>4. run' \in [Command -> RunState]
      BY <3>2 DEF UpdateTypeOK, RunState
    <3> QED BY <1>14, <3>2, <3>3, <3>4 DEF StageLock, UpdateTypeOK
  <2>2. CASE ~(lockMeta # None /\ lock # Unlocked /\ run[x[1]].kind = "force")
    <3>1. th' \in [Thread -> ThreadState] /\ run' \in [Command -> RunState] /\ lock' \in Thread \cup {Unlocked}
      BY <1>14, <2>2, PCs, GoTyped, FinishTyped DEF StageLock, UpdateTypeOK
    <3> QED BY <1>14, <3>1 DEF StageLock, UpdateTypeOK
  <2> QED BY <2>1, <2>2
<1>15. ASSUME NEW x \in Thread, Relock(x) \/ LockMeta(x) \/ Unlock(x) PROVE UpdateTypeOK'
  <2>1. {"meta", "stage", "load", "check"} \subseteq PC /\ x[1] \in Command
    BY PCs, Threads
  <2>2. CASE \E pc \in {"meta", "stage", "load", "check"} : Go(x, pc) /\ UNCHANGED run /\ lock' \in {lock, x, Unlocked}
    <3>1. th' \in [Thread -> ThreadState] /\ lock' \in Thread \cup {Unlocked}
      BY <2>1, <2>2, GoTyped DEF UpdateTypeOK
    <3> QED BY <1>15, <2>1, <2>2, <3>1 DEF Relock, LockMeta, Unlock, UpdateTypeOK
  <2>3. CASE \E erred \in BOOLEAN : Finish(x, erred)
    <3>1. th' \in [Thread -> ThreadState] /\ run' \in [Command -> RunState] /\ lock' \in Thread \cup {Unlocked}
      BY <2>3, FinishTyped
    <3> QED BY <1>15, <2>1, <3>1 DEF Relock, LockMeta, Unlock, UpdateTypeOK
  <2> QED BY <1>15, <2>2, <2>3 DEF Relock, LockMeta, Unlock, Free
<1>16. ASSUME NEW x \in Thread, Save(x) PROVE UpdateTypeOK'
  BY <1>16, PCs, Fields, GoTyped DEF Save, UpdateTypeOK
<1>17. ASSUME NEW x \in Thread, Download(x) PROVE UpdateTypeOK'
  <2>1. th' = [th EXCEPT ![x].pc = "unlock", ![x].pend = pending] => th' \in [Thread -> ThreadState]
    BY PCs, PendTyped DEF UpdateTypeOK
  <2>2. th' \in [Thread -> ThreadState] /\ run' \in [Command -> RunState] /\ lock' \in Thread \cup {Unlocked}
    BY <1>17, <2>1, PCs, GoTyped, FinishTyped DEF Download, UpdateTypeOK
  <2>3. [v |-> th[x].pend.v, whole |-> TRUE, t |-> now] \in File
    <3>1. th[x].pend.v \in 0..MaxVersion
      BY Fields
    <3> QED BY <3>1 DEF UpdateTypeOK, File
  <2>4. staged' \in [Command -> File]
    BY <1>17, <2>3 DEF Download, UpdateTypeOK
  <2> QED BY <1>17, <2>2, <2>4 DEF Download, UpdateTypeOK
<1>18. ASSUME NEW x \in Thread, Err(x) PROVE UpdateTypeOK'
  <2>1. x[1] \in Command /\ "run" \in PC
    BY Threads, PCs
  <2>2. ASSUME run' = [run EXCEPT ![x[1]].erred = TRUE] PROVE run' \in [Command -> RunState]
    <3>1. PICK c \in Command : c = x[1]
      BY <2>1
    <3>2. run \in [Command -> RunState] /\ run' = [run EXCEPT ![c].erred = TRUE]
      BY <2>2, <3>1 DEF UpdateTypeOK
    <3> QED BY <3>2 DEF RunState
  <2>3. th' \in [Thread -> ThreadState] /\ run' \in [Command -> RunState] /\ lock' \in Thread \cup {Unlocked}
    BY <1>18, <2>1, <2>2, DropTyped, FinishTyped DEF Err, UpdateTypeOK
  <2>4. staged' \in [Command -> File]
    BY <1>18, Blanks DEF Err, UpdateTypeOK
  <2> QED BY <1>18, <2>3, <2>4 DEF Err, UpdateTypeOK
<1>19. CASE UNCHANGED updateVars
  BY <1>19 DEF updateVars, UpdateTypeOK
<1> QED
  BY <1>1, <1>2, <1>3, <1>4, <1>5, <1>6, <1>7, <1>8, <1>9, <1>10, <1>11, <1>12, <1>13, <1>14, <1>15, <1>16,
     <1>17, <1>18, <1>19
  DEF UpdateNext

-----------------------------------------------------------------------------
(* What the verbs of the actions do *)

Still(x) == \A y \in Thread \ {x} : th'[y] = th[y]

LEMMA GoDoes ==
  ASSUME UpdateTypeOK, NEW x \in Thread, NEW pc, Go(x, pc)
  PROVE  /\ Still(x) /\ th'[x].pc = pc
         /\ th'[x].file = th[x].file /\ th'[x].dst = th[x].dst /\ th'[x].pend = th[x].pend
BY DEF Go, Still, UpdateTypeOK, ThreadState

LEMMA DropDoes ==
  ASSUME UpdateTypeOK, NEW x \in Thread, NEW pc, Drop(x, pc)
  PROVE  /\ Still(x) /\ th'[x].pc = pc
         /\ th'[x].file = Absent /\ th'[x].dst = "lrc" /\ th'[x].pend = th[x].pend
BY DEF Drop, Still, UpdateTypeOK, ThreadState

LEMMA CopyDoes ==
  ASSUME UpdateTypeOK, NEW x \in Thread, NEW from \in File, Copied(x, from)
  PROVE  /\ Still(x)
         /\ th[x].pc = "heal" => th'[x].pc = "healed"
         /\ th[x].pc = "apply" => th'[x].pc = "applied"
         /\ th[x].pc \notin {"heal", "apply"} => th'[x].pc = "synced"
         /\ th'[x].file.v = from.v /\ th'[x].file.t = now + 1
         /\ th'[x].dst = th[x].dst /\ th'[x].pend = th[x].pend
BY DEF Copied, Still, UpdateTypeOK, ThreadState, File

Takes(x, pc, p) == th' = [th EXCEPT ![x].pc = pc, ![x].pend = p]

LEMMA PendDoes ==
  ASSUME UpdateTypeOK, NEW x \in Thread, NEW pc, NEW p, Takes(x, pc, p)
  PROVE  /\ Still(x) /\ th'[x].pc = pc
         /\ th'[x].file = th[x].file /\ th'[x].dst = th[x].dst /\ th'[x].pend = p
BY DEF Takes, Still, UpdateTypeOK, ThreadState

LEMMA OffIs == Off.pc = "off" /\ Off.file = Absent /\ Off.dst = "lrc" /\ Off.pend = NoUpdate
BY DEF Off

\* The thread is off, and with a main thread all of its command.
LEMMA FinishDoes ==
  ASSUME UpdateTypeOK, NEW x \in Thread, NEW erred \in BOOLEAN, Finish(x, erred)
  PROVE  /\ \A y \in Thread : th'[y] = IF y = x \/ (x[2] = "main" /\ y[1] = x[1]) THEN Off ELSE th[y]
         /\ \A c \in Command :
              /\ run'[c].kind = run[c].kind /\ run'[c].own = run[c].own /\ run'[c].alone = run[c].alone
              /\ run'[c].at = IF x = Main(c) THEN "done" ELSE run[c].at
              /\ run'[c].erred = (run[c].erred \/ (c = x[1] /\ erred))
         /\ lock' = IF lock = x \/ (x[2] = "main" /\ lock # Unlocked /\ lock[1] = x[1]) THEN Unlocked ELSE lock
<1>1. \A y \in Thread : th'[y] = IF y = x \/ (x[2] = "main" /\ y[1] = x[1]) THEN Off ELSE th[y]
  BY DEF Finish
<1>2. ASSUME NEW c \in Command
      PROVE  /\ run'[c].kind = run[c].kind /\ run'[c].own = run[c].own /\ run'[c].alone = run[c].alone
             /\ run'[c].at = IF x = Main(c) THEN "done" ELSE run[c].at
             /\ run'[c].erred = (run[c].erred \/ (c = x[1] /\ erred))
  <2>1. x[1] \in Command /\ (x = Main(c) <=> x[2] = "main" /\ x[1] = c)
    BY DEF Thread, Main
  <2>2. run \in [Command -> RunState]
    BY DEF UpdateTypeOK
  <2>3. CASE c = x[1]
    BY <2>1, <2>2, <2>3 DEF Finish, RunState
  <2>4. CASE c # x[1]
    <3>1. run'[c] = run[c] /\ x # Main(c)
      BY <2>1, <2>2, <2>4 DEF Finish
    <3>2. run[c].erred \in BOOLEAN
      BY <2>2 DEF RunState
    <3> QED BY <2>4, <3>1, <3>2
  <2> QED BY <2>3, <2>4
<1> QED BY <1>1, <1>2 DEF Finish

LEMMA DieDoes ==
  ASSUME UpdateTypeOK, NEW c \in Command, Die(c)
  PROVE  /\ c \in Running
         /\ \A y \in Thread : th'[y] = IF y[1] = c THEN Off ELSE th[y]
         /\ \A d \in Command :
              /\ run'[d].kind = run[d].kind /\ run'[d].own = run[d].own /\ run'[d].alone = run[d].alone
              /\ run'[d].at = IF c = d THEN "killed" ELSE run[d].at
              /\ run'[d].erred = run[d].erred
         /\ lock' = IF lock # Unlocked /\ lock[1] = c THEN Unlocked ELSE lock
BY DEF Die, UpdateTypeOK, RunState

LEMMA ShootDoes ==
  ASSUME UpdateTypeOK, NEW x \in Thread, StageLock(x), lock # Unlocked, run[x[1]].kind = "force",
         lockMeta # None
  PROVE  LET shot == {lockMeta} \cap Running IN
         /\ \A y \in Thread \ {x} : th'[y] = IF y[1] \in shot THEN Off ELSE th[y]
         /\ th'[x].pc = "relock"
         /\ th'[x].file = th[x].file /\ th'[x].dst = th[x].dst /\ th'[x].pend = th[x].pend
         /\ \A d \in Command :
              /\ run'[d].kind = run[d].kind /\ run'[d].own = run[d].own /\ run'[d].alone = run[d].alone
              /\ run'[d].at = IF d \in shot THEN "killed" ELSE run[d].at
              /\ run'[d].erred = run[d].erred
         /\ lock' = IF lock[1] \in shot THEN Unlocked ELSE lock
<1> DEFINE shot == {lockMeta} \cap Running
<1>1. /\ th' = [y \in Thread |-> IF y = x THEN [th[y] EXCEPT !.pc = "relock"]
                                 ELSE IF y[1] \in shot THEN Off ELSE th[y]]
      /\ run' = [d \in Command |-> IF d \in shot THEN [run[d] EXCEPT !.at = "killed"] ELSE run[d]]
      /\ lock' = IF lock[1] \in shot THEN Unlocked ELSE lock
  BY DEF StageLock
<1> HIDE DEF shot
<1>2. /\ \A y \in Thread \ {x} : th'[y] = IF y[1] \in shot THEN Off ELSE th[y]
      /\ th'[x] = [th[x] EXCEPT !.pc = "relock"]
  BY <1>1
<1>3. ASSUME NEW d \in Command
      PROVE  /\ run'[d].kind = run[d].kind /\ run'[d].own = run[d].own /\ run'[d].alone = run[d].alone
             /\ run'[d].at = IF d \in shot THEN "killed" ELSE run[d].at
             /\ run'[d].erred = run[d].erred
  BY <1>1 DEF UpdateTypeOK, RunState
<1>4. /\ th'[x].pc = "relock"
      /\ th'[x].file = th[x].file /\ th'[x].dst = th[x].dst /\ th'[x].pend = th[x].pend
  BY <1>2 DEF UpdateTypeOK, ThreadState
<1>5. lock' = IF lock[1] \in shot THEN Unlocked ELSE lock
  BY <1>1
<1> QED BY <1>2, <1>3, <1>4, <1>5 DEF shot

LEMMA StartDoes ==
  ASSUME UpdateTypeOK, NEW c \in Command, Start(c)
  PROVE  /\ run[c].at = "no"
         /\ Still(Main(c))
         /\ th'[Main(c)].file = th[Main(c)].file /\ th'[Main(c)].pend = th[Main(c)].pend
         /\ \E close \in BOOLEAN :
              IF Stale(close) = None THEN th'[Main(c)].pc = "run" /\ th'[Main(c)].dst = "lrc"
              ELSE th'[Main(c)].pc = "heal" /\ th'[Main(c)].dst = Stale(close)
         /\ bin.lrc.v # 0 \/ bin.git.v # 0
         /\ \A d \in Command : run'[d].kind = run[d].kind /\ run'[d].erred = run[d].erred
         /\ run'[c].at = "running" /\ run'[c].alone = (Running = {})
         /\ \A d \in Command \ {c} : /\ run'[d].at = run[d].at
                                     /\ run'[d].alone = (run[d].alone /\ run[d].at # "running")
<1>1. PICK name \in {"lrc", "git"}, close \in BOOLEAN :
        /\ bin[name].v # 0
        /\ run' = [d \in Command |->
                     IF d = c THEN [run[c] EXCEPT !.at = "running", !.own = bin[name].v, !.alone = Running = {}]
                     ELSE [run[d] EXCEPT !.alone = @ /\ run[d].at # "running"]]
        /\ th' = [th EXCEPT ![Main(c)].pc = IF Stale(close) = None THEN "run" ELSE "heal",
                            ![Main(c)].dst = IF Stale(close) = None THEN "lrc" ELSE Stale(close)]
  BY DEF Start
<1>2. bin.lrc.v # 0 \/ bin.git.v # 0
  BY <1>1
<1>3. /\ run'[c].kind = run[c].kind /\ run'[c].erred = run[c].erred
      /\ run'[c].at = "running" /\ run'[c].alone = (Running = {})
  <2>1. run'[c] = [run[c] EXCEPT !.at = "running", !.own = bin[name].v, !.alone = Running = {}]
    BY <1>1
  <2> QED BY <2>1 DEF UpdateTypeOK, RunState
<1>4. ASSUME NEW d \in Command \ {c}
      PROVE  /\ run'[d].kind = run[d].kind /\ run'[d].erred = run[d].erred
             /\ run'[d].at = run[d].at /\ run'[d].alone = (run[d].alone /\ run[d].at # "running")
  <2>1. run'[d] = [run[d] EXCEPT !.alone = @ /\ run[d].at # "running"]
    BY <1>1
  <2> QED BY <2>1 DEF UpdateTypeOK, RunState
<1>5. PICK pc, dst : /\ pc = IF Stale(close) = None THEN "run" ELSE "heal"
                     /\ dst = IF Stale(close) = None THEN "lrc" ELSE Stale(close)
  OBVIOUS
<1>6. th' = [th EXCEPT ![Main(c)].pc = pc, ![Main(c)].dst = dst]
  BY <1>1, <1>5
<1>7. /\ Still(Main(c)) /\ th'[Main(c)].pc = pc /\ th'[Main(c)].dst = dst
      /\ th'[Main(c)].file = th[Main(c)].file /\ th'[Main(c)].pend = th[Main(c)].pend
  BY <1>6, Threads DEF UpdateTypeOK, Still, ThreadState
<1>8. IF Stale(close) = None THEN th'[Main(c)].pc = "run" /\ th'[Main(c)].dst = "lrc"
      ELSE th'[Main(c)].pc = "heal" /\ th'[Main(c)].dst = Stale(close)
  BY <1>5, <1>7
<1> QED BY <1>2, <1>3, <1>4, <1>7, <1>8 DEF Start

LEMMA ReviewStarts ==
  ASSUME UpdateTypeOK, NEW c \in Command,
         th' = [th EXCEPT ![Main(c)].pc = "exit", ![<<c, "check">>].pc = "fetch"]
  PROVE  /\ \A y \in Thread \ {Main(c), Check(c)} : th'[y] = th[y]
         /\ th'[Main(c)].pc = "exit" /\ th'[Check(c)].pc = "fetch"
         /\ \A y \in {Main(c), Check(c)} :
              th'[y].file = th[y].file /\ th'[y].dst = th[y].dst /\ th'[y].pend = th[y].pend
<1>1. Main(c) \in Thread /\ Check(c) \in Thread /\ Main(c) # Check(c)
  BY Threads DEF Main, Check
<1>2. th' = [th EXCEPT ![Main(c)].pc = "exit", ![Check(c)].pc = "fetch"]
  BY DEF Check
<1>3. PICK one : one = [th EXCEPT ![Main(c)].pc = "exit"]
  OBVIOUS
<1>4. /\ one \in [Thread -> ThreadState]
      /\ \A y \in Thread \ {Main(c)} : one[y] = th[y]
      /\ one[Main(c)] = [th[Main(c)] EXCEPT !.pc = "exit"]
  BY <1>1, <1>3, PCs DEF UpdateTypeOK, ThreadState
<1>5. th' = [one EXCEPT ![Check(c)].pc = "fetch"]
  BY <1>2, <1>3
<1>6. /\ \A y \in Thread \ {Check(c)} : th'[y] = one[y]
      /\ th'[Check(c)] = [one[Check(c)] EXCEPT !.pc = "fetch"]
  BY <1>1, <1>4, <1>5
<1>7. th'[Main(c)] = [th[Main(c)] EXCEPT !.pc = "exit"] /\ th'[Check(c)] = [th[Check(c)] EXCEPT !.pc = "fetch"]
  BY <1>1, <1>4, <1>6
<1>8. \A y \in Thread \ {Main(c), Check(c)} : th'[y] = th[y]
  BY <1>4, <1>6
<1>9. /\ th'[Main(c)].pc = "exit" /\ th'[Main(c)].file = th[Main(c)].file
      /\ th'[Main(c)].dst = th[Main(c)].dst /\ th'[Main(c)].pend = th[Main(c)].pend
  BY <1>1, <1>7 DEF UpdateTypeOK, ThreadState
<1>10. /\ th'[Check(c)].pc = "fetch" /\ th'[Check(c)].file = th[Check(c)].file
       /\ th'[Check(c)].dst = th[Check(c)].dst /\ th'[Check(c)].pend = th[Check(c)].pend
  BY <1>1, <1>7 DEF UpdateTypeOK, ThreadState
<1> QED BY <1>8, <1>9, <1>10

-----------------------------------------------------------------------------
(* Flow *)

\* A thread that has finished, and with a main thread its command.
LEMMA FlowFinish ==
  ASSUME UpdateTypeOK, Flow, NEW x \in Thread, NEW erred \in BOOLEAN, Finish(x, erred), UNCHANGED lockMeta,
         th[x].pc # "off"
  PROVE  Flow'
<1>1. /\ \A y \in Thread : th'[y] = IF y = x \/ (x[2] = "main" /\ y[1] = x[1]) THEN Off ELSE th[y]
      /\ \A c \in Command : run'[c].kind = run[c].kind /\ run'[c].at = IF x = Main(c) THEN "done" ELSE run[c].at
      /\ lock' = IF lock = x \/ (x[2] = "main" /\ lock # Unlocked /\ lock[1] = x[1]) THEN Unlocked ELSE lock
  BY FinishDoes
<1>2. ASSUME NEW c \in Command PROVE ThreadsOf(c)' /\ Marked(c)'
  <2>1. ThreadsOf(c) /\ Marked(c)
    BY DEF Flow
  <2>2. CASE x = Main(c)
    BY <1>1, <2>1, <2>2, Threads, OffIs DEF ThreadsOf, Marked, Early, Staging, Claims, Apply, Installed
  <2>3. CASE x = Check(c)
    BY <1>1, <2>1, <2>3, Threads, OffIs DEF ThreadsOf, Marked, Early, Staging, Claims, Apply, Installed
  <2>4. CASE x # Main(c) /\ x # Check(c)
    BY <1>1, <2>1, <2>4, Threads DEF ThreadsOf, Marked
  <2> QED BY <2>2, <2>3, <2>4
<1>3. ASSUME NEW y \in Thread PROVE (NeedsLock(y) => lock = y)' /\ Knows(y)'
  <2>1. (NeedsLock(y) => lock = y) /\ Knows(y)
    BY DEF Flow, LockIsHeld
  <2>2. CASE th'[y] = Off
    BY <2>2, OffIs DEF NeedsLock, Knows, Claims, Apply, Installed
  <2>3. CASE th'[y] = th[y] /\ y # x /\ ~(x[2] = "main" /\ y[1] = x[1])
    BY <1>1, <2>1, <2>3, Threads DEF NeedsLock, Knows
  <2> QED BY <1>1, <2>2, <2>3
<1> QED BY <1>2, <1>3 DEF Flow, LockIsHeld

\* One thread of a running command moves.
LEMMA FlowMove ==
  ASSUME UpdateTypeOK, Flow, NEW x \in Thread, Still(x),
         \A c \in Command : run'[c].kind = run[c].kind /\ run'[c].at = run[c].at,
         lock' = lock \/ (lock = Unlocked /\ lock' = x) \/ (lock = x /\ lock' = Unlocked),
         lockMeta' = lockMeta \/ (lockMeta' = x[1] /\ th'[x].pc \in {"stage", "load"}),
         ThreadsOf(x[1])', NeedsLock(x)' => lock' = x, Knows(x)',
         th'[x].pc \in Early \cup {"fetch", "lock", "relock", "meta"}
           => th[x].pc \in Early \cup {"fetch", "lock", "relock", "meta"},
         run[x[1]].at # "no"
  PROVE  Flow'
<1>1. ASSUME NEW c \in Command PROVE ThreadsOf(c)' /\ Marked(c)'
  <2>1. ThreadsOf(c) /\ Marked(c)
    BY DEF Flow
  <2>2. CASE x[1] = c
    <3>1. x = Main(c) \/ x = Check(c)
      BY <2>2, Threads
    <3>2. th[Main(c)].pc \in {"fetch", "lock", "relock", "meta"} \cup Early => th[Check(c)].pc = "off"
      BY <2>1 DEF ThreadsOf, Staging, Claims
    <3>3. CASE lockMeta' = lockMeta
      BY <2>1, <2>2, <3>1, <3>3, Threads, Twins DEF Marked, Still
    <3>4. CASE lockMeta' = x[1] /\ th'[x].pc \in {"stage", "load"}
      BY <2>2, <3>1, <3>4, Threads DEF Marked, ThreadsOf, Staging, Claims, Early
    <3> QED BY <2>2, <3>3, <3>4
  <2>3. CASE x[1] # c
    <3>1. x # Main(c) /\ x # Check(c)
      BY <2>3, Threads
    <3>2. th'[Main(c)] = th[Main(c)] /\ th'[Check(c)] = th[Check(c)]
      BY <3>1, Threads DEF Still
    <3> QED BY <2>1, <2>3, <3>2 DEF ThreadsOf, Marked
  <2> QED BY <2>2, <2>3
<1>2. ASSUME NEW y \in Thread PROVE (NeedsLock(y) => lock = y)' /\ Knows(y)'
  <2>1. (NeedsLock(y) => lock = y) /\ Knows(y)
    BY DEF Flow, LockIsHeld
  <2>2. CASE y # x
    <3>1. th'[y] = th[y] /\ run'[y[1]].kind = run[y[1]].kind
      BY <2>2, Threads DEF Still
    <3>2. y # Unlocked
      BY DEF Thread, Unlocked, None
    <3>3. NeedsLock(y)' => NeedsLock(y)
      BY <3>1 DEF NeedsLock
    <3>4. Knows(y)'
      BY <2>1, <3>1 DEF Knows
    <3> QED BY <2>1, <2>2, <3>2, <3>3, <3>4
  <2> QED BY <2>2
<1> QED BY <1>1, <1>2 DEF Flow, LockIsHeld

\* What is known of a thread that is not off.
LEMMA Runs ==
  ASSUME Flow, NEW x \in Thread, th[x].pc # "off"
  PROVE  /\ run[x[1]].at = "running"
         /\ ThreadsOf(x[1]) /\ Marked(x[1]) /\ Knows(x) /\ (NeedsLock(x) => lock = x)
BY Threads DEF Flow, LockIsHeld, ThreadsOf

LEMMA FlowStep ==
  ASSUME UpdateTypeOK, Flow, [UpdateNext]_updateVars
  PROVE  Flow'
<1>1. CASE Release
  BY <1>1 DEF Release, Flow, ThreadsOf, Marked, LockIsHeld, NeedsLock, Knows
<1>2. ASSUME NEW c \in Command, Start(c) PROVE Flow'
  <2>1. /\ run[c].at = "no" /\ Still(Main(c)) /\ th'[Main(c)].pc \in {"run", "heal"}
        /\ \A d \in Command : run'[d].kind = run[d].kind
        /\ \A d \in Command \ {c} : run'[d].at = run[d].at
        /\ run'[c].at = "running"
    BY <1>2, StartDoes
  <2>2. UNCHANGED <<lock, lockMeta>>
    BY <1>2 DEF Start
  <2>3. ASSUME NEW d \in Command PROVE ThreadsOf(d)' /\ Marked(d)'
    <3>1. ThreadsOf(d) /\ Marked(d)
      BY DEF Flow
    <3>2. Main(c) # Check(d) /\ (d # c => Main(c) # Main(d))
      BY DEF Main, Check
    <3>3. th'[Check(d)] = th[Check(d)] /\ (d # c => th'[Main(d)] = th[Main(d)])
      BY <2>1, <3>2, Threads DEF Still
    <3>4. CASE d = c
      BY <2>1, <2>2, <3>1, <3>3, <3>4 DEF Marked, ThreadsOf, Early, Staging, Claims, Apply, Installed
    <3>5. CASE d # c
      BY <2>1, <2>2, <3>1, <3>3, <3>5 DEF Marked, ThreadsOf
    <3> QED BY <3>4, <3>5
  <2>4. ASSUME NEW y \in Thread PROVE (NeedsLock(y) => lock = y)' /\ Knows(y)'
    <3>1. (NeedsLock(y) => lock = y) /\ Knows(y)
      BY DEF Flow, LockIsHeld
    <3>2. CASE y = Main(c)
      BY <2>1, <3>2 DEF NeedsLock, Knows, Claims, Apply, Installed
    <3>3. CASE y # Main(c)
      <4>1. th'[y] = th[y] /\ run'[y[1]].kind = run[y[1]].kind
        BY <2>1, <3>3, Threads DEF Still
      <4> QED BY <2>2, <3>1, <4>1 DEF NeedsLock, Knows
    <3> QED BY <3>2, <3>3
  <2> QED BY <2>3, <2>4 DEF Flow, LockIsHeld
<1>3. ASSUME NEW c \in Command, HealCopy(c) PROVE Flow'
  <2>1. PICK x \in Thread : x = Main(c)
    BY Threads
  <2>2. x[1] = c /\ th[x].pc = "heal" /\ UNCHANGED lockMeta
    BY <1>3, <2>1, Threads DEF HealCopy, At
  <2>3. CASE Copied(x, bin[Other(th[x].dst)])
    <3>1. Still(x) /\ th'[x].pc = "healed" /\ th'[x].pend = th[x].pend
      BY <1>3, <2>1, <2>2, <2>3, Fields, CopyDoes DEF HealCopy
    <3>2. UNCHANGED run /\ UNCHANGED lock
      BY <1>3, <2>1, <2>2, <2>3 DEF HealCopy
    <3>3. ThreadsOf(c)' /\ (NeedsLock(x)' => lock' = x) /\ Knows(x)'
      BY <2>1, <2>2, <3>1, <3>2, <2>3, Runs, Threads, Twins
         DEF Still, ThreadsOf, NeedsLock, Knows, Early, Staging, Claims, Apply, Installed
    <3> QED BY <2>1, <2>2, <3>1, <3>2, <3>3, Runs, FlowMove DEF Early
  <2> QED BY <1>3, <2>1, <2>3 DEF HealCopy
<1>4. ASSUME NEW c \in Command, HealRename(c) PROVE Flow'
  <2>1. PICK x \in Thread : x = Main(c)
    BY Threads
  <2>2. x[1] = c /\ th[x].pc = "healed" /\ UNCHANGED lockMeta
    BY <1>4, <2>1, Threads DEF HealRename, At
  <2>3. CASE Drop(x, "run")
    <3>1. Still(x) /\ th'[x].pc = "run" /\ th'[x].pend = th[x].pend
      BY <1>4, <2>1, <2>2, <2>3, DropDoes DEF HealRename
    <3>2. UNCHANGED run /\ UNCHANGED lock
      BY <1>4, <2>1, <2>2, <2>3 DEF HealRename
    <3>3. ThreadsOf(c)' /\ (NeedsLock(x)' => lock' = x) /\ Knows(x)'
      BY <2>1, <2>2, <3>1, <3>2, <2>3, Runs, Threads, Twins
         DEF Still, ThreadsOf, NeedsLock, Knows, Early, Staging, Claims, Apply, Installed
    <3> QED BY <2>1, <2>2, <3>1, <3>2, <3>3, Runs, FlowMove DEF Early
  <2> QED BY <1>4, <2>1, <2>3 DEF HealRename
<1>5. ASSUME NEW c \in Command, Work(c) PROVE Flow'
  <2>1. PICK x \in Thread : x = Main(c)
    BY Threads
  <2>2. x[1] = c /\ th[x].pc = "run" /\ UNCHANGED lockMeta
    BY <1>5, <2>1, Threads DEF Work, At
  <2>3. CASE Finish(x, FALSE)
    BY <2>2, <2>3, FlowFinish
  <2>4. CASE Go(x, "fetch") /\ UNCHANGED <<run, lock>> /\ run[c].kind \notin {"other", "review"}
    <3>1. Still(x) /\ th'[x].pc = "fetch" /\ th'[x].pend = th[x].pend
      BY <2>4, GoDoes
    <3>2. run[c].kind \in {"update", "force"}
      <4>1. run[c].kind # "none"
        BY <2>1, <2>2, <2>4, Runs DEF ThreadsOf
      <4> QED BY <2>4, <4>1 DEF UpdateTypeOK, RunState
    <3>3. ThreadsOf(c)' /\ (NeedsLock(x)' => lock' = x) /\ Knows(x)'
      BY <2>1, <2>2, <2>4, <3>1, <3>2, Runs, Threads, Twins
         DEF Still, ThreadsOf, NeedsLock, Knows, Early, Staging, Claims, Apply, Installed
    <3> QED BY <2>1, <2>2, <2>4, <3>1, <3>3, Runs, FlowMove DEF Early
  <2>5. CASE /\ th' = [th EXCEPT ![x].pc = "exit", ![<<c, "check">>].pc = "fetch"]
             /\ UNCHANGED <<run, lock>> /\ run[c].kind = "review"
    <3>1. /\ \A y \in Thread \ {x, Check(c)} : th'[y] = th[y]
          /\ th'[x].pc = "exit" /\ th'[Check(c)].pc = "fetch"
      BY <2>1, <2>5, ReviewStarts
    <3>2. ASSUME NEW d \in Command PROVE ThreadsOf(d)' /\ Marked(d)'
      <4>1. ThreadsOf(d) /\ Marked(d)
        BY DEF Flow
      <4>2. CASE d = c
        BY <2>1, <2>2, <2>5, <3>1, <4>1, <4>2, Runs DEF Marked, ThreadsOf, Early, Staging, Claims, Apply, Installed
      <4>3. CASE d # c
        <5>1. th'[Main(d)] = th[Main(d)] /\ th'[Check(d)] = th[Check(d)]
          BY <2>1, <3>1, <4>3, Threads
        <5> QED BY <2>2, <2>5, <4>1, <5>1 DEF Marked, ThreadsOf
      <4> QED BY <4>2, <4>3
    <3>3. ASSUME NEW y \in Thread PROVE (NeedsLock(y) => lock = y)' /\ Knows(y)'
      <4>1. (NeedsLock(y) => lock = y) /\ Knows(y)
        BY DEF Flow, LockIsHeld
      <4>2. CASE y \in {x, Check(c)}
        BY <3>1, <4>2 DEF NeedsLock, Knows, Claims, Apply, Installed
      <4>3. CASE y \notin {x, Check(c)}
        BY <2>5, <3>1, <4>1, <4>3 DEF NeedsLock, Knows
      <4> QED BY <4>2, <4>3
    <3> QED BY <3>2, <3>3 DEF Flow, LockIsHeld
  <2> QED BY <1>5, <2>1, <2>3, <2>4, <2>5 DEF Work
<1>6. ASSUME NEW c \in Command, ApplyLock(c) PROVE Flow'
  <2>1. PICK x \in Thread : x = Main(c)
    BY Threads
  <2>2. x[1] = c /\ th[x].pc = "exit" /\ UNCHANGED lockMeta
    BY <1>6, <2>1, Threads DEF ApplyLock, At
  <2>3. CASE Finish(x, FALSE)
    BY <2>2, <2>3, FlowFinish
  <2>4. CASE lock = Unlocked /\ lock' = x /\ Go(x, "ameta") /\ UNCHANGED run
    <3>1. Still(x) /\ th'[x].pc = "ameta" /\ th'[x].pend = th[x].pend
      BY <1>6, <2>1, <2>2, <2>4, GoDoes DEF ApplyLock
    <3>2. UNCHANGED run /\ lock = Unlocked /\ lock' = x
      BY <1>6, <2>1, <2>2, <2>4 DEF ApplyLock
    <3>3. ThreadsOf(c)' /\ (NeedsLock(x)' => lock' = x) /\ Knows(x)'
      BY <2>1, <2>2, <3>1, <3>2, <2>4, Runs, Threads, Twins
         DEF Still, ThreadsOf, NeedsLock, Knows, Early, Staging, Claims, Apply, Installed
    <3> QED BY <2>1, <2>2, <3>1, <3>2, <3>3, Runs, FlowMove DEF Early
  <2> QED BY <1>6, <2>1, <2>3, <2>4 DEF ApplyLock
<1>7. ASSUME NEW c \in Command, Load(c) PROVE Flow'
  <2>1. PICK x \in Thread : x = Main(c)
    BY Threads
  <2>2. x[1] = c /\ th[x].pc = "load" /\ UNCHANGED lockMeta
    BY <1>7, <2>1, Threads DEF Load, At
  <2>3. CASE Finish(x, FALSE)
    BY <2>2, <2>3, FlowFinish
  <2>4. CASE th' = [th EXCEPT ![x].pc = "check", ![x].pend = pending] /\ pending # NoUpdate /\ UNCHANGED <<run, lock>>
    <3>0. Takes(x, "check", pending)
      BY <2>4 DEF Takes
    <3>1. Still(x) /\ th'[x].pc = "check" /\ th'[x].pend # NoUpdate
      BY <2>4, <3>0, PendDoes
    <3>2. UNCHANGED run /\ UNCHANGED lock
      BY <1>7, <2>1, <2>2, <2>4 DEF Load
    <3>3. ThreadsOf(c)' /\ (NeedsLock(x)' => lock' = x) /\ Knows(x)'
      BY <2>1, <2>2, <3>1, <3>2, Runs, Threads, Twins
         DEF Still, ThreadsOf, NeedsLock, Knows, Early, Staging, Claims, Apply, Installed
    <3> QED BY <2>1, <2>2, <3>1, <3>2, <3>3, Runs, FlowMove DEF Early
  <2> QED BY <1>7, <2>1, <2>3, <2>4 DEF Load
<1>8. ASSUME NEW c \in Command, CheckStaged(c) PROVE Flow'
  <2>1. PICK x \in Thread : x = Main(c)
    BY Threads
  <2>2. x[1] = c /\ th[x].pc = "check" /\ UNCHANGED lockMeta
    BY <1>8, <2>1, Threads DEF CheckStaged, At
  <2>3. CASE Finish(x, TRUE)
    BY <2>2, <2>3, FlowFinish
  <2>4. CASE Go(x, "apply") /\ UNCHANGED <<run, lock>>
    <3>1. Still(x) /\ th'[x].pc = "apply" /\ th'[x].pend = th[x].pend
      BY <1>8, <2>1, <2>2, <2>4, GoDoes DEF CheckStaged
    <3>2. UNCHANGED run /\ UNCHANGED lock
      BY <1>8, <2>1, <2>2, <2>4 DEF CheckStaged
    <3>3. ThreadsOf(c)' /\ (NeedsLock(x)' => lock' = x) /\ Knows(x)'
      BY <2>1, <2>2, <3>1, <3>2, <2>4, Runs, Threads, Twins
         DEF Still, ThreadsOf, NeedsLock, Knows, Early, Staging, Claims, Apply, Installed
    <3> QED BY <2>1, <2>2, <3>1, <3>2, <3>3, Runs, FlowMove DEF Early
  <2> QED BY <1>8, <2>1, <2>3, <2>4 DEF CheckStaged
<1>9. ASSUME NEW c \in Command, ApplyCopy(c) PROVE Flow'
  <2>1. PICK x \in Thread : x = Main(c)
    BY Threads
  <2>2. x[1] = c /\ th[x].pc = "apply" /\ UNCHANGED lockMeta
    BY <1>9, <2>1, Threads DEF ApplyCopy, At
  <2>3. CASE Finish(x, TRUE)
    BY <2>2, <2>3, FlowFinish
  <2>4. CASE Copied(x, staged[th[x].pend.of]) /\ UNCHANGED <<run, lock>>
    <3>1. th[x].pend.of \in Command
      BY <2>2, Fields, Runs DEF Knows, Apply
    <3>2. Still(x) /\ th'[x].pc = "applied" /\ th'[x].pend = th[x].pend
      BY <2>2, <2>4, <3>1, Fields, CopyDoes
    <3>3. ThreadsOf(c)' /\ (NeedsLock(x)' => lock' = x) /\ Knows(x)'
      BY <2>1, <2>2, <2>4, <3>2, Runs, Threads, Twins
         DEF Still, ThreadsOf, NeedsLock, Knows, Early, Staging, Claims, Apply, Installed
    <3> QED BY <2>1, <2>2, <2>4, <3>2, <3>3, Runs, FlowMove DEF Early
  <2> QED BY <1>9, <2>1, <2>3, <2>4 DEF ApplyCopy
<1>10. ASSUME NEW c \in Command, ApplyRename(c) PROVE Flow'
  <2>1. PICK x \in Thread : x = Main(c)
    BY Threads
  <2>2. x[1] = c /\ th[x].pc = "applied" /\ UNCHANGED lockMeta
    BY <1>10, <2>1, Threads DEF ApplyRename, At
  <2>3. CASE Drop(x, "sync")
    <3>1. Still(x) /\ th'[x].pc = "sync" /\ th'[x].pend = th[x].pend
      BY <1>10, <2>1, <2>2, <2>3, DropDoes DEF ApplyRename
    <3>2. UNCHANGED run /\ UNCHANGED lock
      BY <1>10, <2>1, <2>2, <2>3 DEF ApplyRename
    <3>3. ThreadsOf(c)' /\ (NeedsLock(x)' => lock' = x) /\ Knows(x)'
      BY <2>1, <2>2, <3>1, <3>2, <2>3, Runs, Threads, Twins
         DEF Still, ThreadsOf, NeedsLock, Knows, Early, Staging, Claims, Apply, Installed
    <3> QED BY <2>1, <2>2, <3>1, <3>2, <3>3, Runs, FlowMove DEF Early
  <2> QED BY <1>10, <2>1, <2>3 DEF ApplyRename
<1>11. ASSUME NEW c \in Command, SyncCopy(c) PROVE Flow'
  <2>1. PICK x \in Thread : x = Main(c)
    BY Threads
  <2>2. x[1] = c /\ th[x].pc = "sync" /\ UNCHANGED lockMeta
    BY <1>11, <2>1, Threads DEF SyncCopy, At
  <2>3. CASE Copied(x, bin.lrc)
    <3>1. Still(x) /\ th'[x].pc = "synced" /\ th'[x].pend = th[x].pend
      BY <1>11, <2>1, <2>2, <2>3, Fields, CopyDoes DEF SyncCopy, Side
    <3>2. UNCHANGED run /\ UNCHANGED lock
      BY <1>11, <2>1, <2>2, <2>3 DEF SyncCopy
    <3>3. ThreadsOf(c)' /\ (NeedsLock(x)' => lock' = x) /\ Knows(x)'
      BY <2>1, <2>2, <3>1, <3>2, <2>3, Runs, Threads, Twins
         DEF Still, ThreadsOf, NeedsLock, Knows, Early, Staging, Claims, Apply, Installed
    <3> QED BY <2>1, <2>2, <3>1, <3>2, <3>3, Runs, FlowMove DEF Early
  <2> QED BY <1>11, <2>1, <2>3 DEF SyncCopy
<1>12. ASSUME NEW c \in Command, SyncRename(c) PROVE Flow'
  <2>1. PICK x \in Thread : x = Main(c)
    BY Threads
  <2>2. x[1] = c /\ th[x].pc = "synced" /\ UNCHANGED lockMeta
    BY <1>12, <2>1, Threads DEF SyncRename, At
  <2>3. CASE Finish(x, TRUE)
    BY <2>2, <2>3, FlowFinish
  <2>4. CASE Drop(x, "hooks") /\ UNCHANGED <<run, lock>>
    <3>1. Still(x) /\ th'[x].pc = "hooks" /\ th'[x].pend = th[x].pend
      BY <1>12, <2>1, <2>2, <2>4, DropDoes DEF SyncRename
    <3>2. UNCHANGED run /\ UNCHANGED lock
      BY <1>12, <2>1, <2>2, <2>4 DEF SyncRename
    <3>3. ThreadsOf(c)' /\ (NeedsLock(x)' => lock' = x) /\ Knows(x)'
      BY <2>1, <2>2, <3>1, <3>2, <2>4, Runs, Threads, Twins
         DEF Still, ThreadsOf, NeedsLock, Knows, Early, Staging, Claims, Apply, Installed
    <3> QED BY <2>1, <2>2, <3>1, <3>2, <3>3, Runs, FlowMove DEF Early
  <2> QED BY <1>12, <2>1, <2>3, <2>4 DEF SyncRename
<1>13. ASSUME NEW c \in Command, HooksInstall(c) PROVE Flow'
  <2>1. PICK x \in Thread : x = Main(c)
    BY Threads
  <2>2. x[1] = c /\ th[x].pc = "hooks" /\ UNCHANGED lockMeta
    BY <1>13, <2>1, Threads DEF HooksInstall, At
  <2>3. CASE Go(x, "clear")
    <3>1. Still(x) /\ th'[x].pc = "clear" /\ th'[x].pend = th[x].pend
      BY <1>13, <2>1, <2>2, <2>3, GoDoes DEF HooksInstall
    <3>2. UNCHANGED run /\ UNCHANGED lock
      BY <1>13, <2>1, <2>2, <2>3 DEF HooksInstall
    <3>3. ThreadsOf(c)' /\ (NeedsLock(x)' => lock' = x) /\ Knows(x)'
      BY <2>1, <2>2, <3>1, <3>2, <2>3, Runs, Threads, Twins
         DEF Still, ThreadsOf, NeedsLock, Knows, Early, Staging, Claims, Apply, Installed
    <3> QED BY <2>1, <2>2, <3>1, <3>2, <3>3, Runs, FlowMove DEF Early
  <2> QED BY <1>13, <2>1, <2>3 DEF HooksInstall
<1>14. ASSUME NEW c \in Command, Clear(c) PROVE Flow'
  <2>1. PICK x \in Thread : x = Main(c)
    BY Threads
  <2>2. x[1] = c /\ th[x].pc = "clear" /\ UNCHANGED lockMeta
    BY <1>14, <2>1, Threads DEF Clear, At
  <2>3. CASE Finish(x, FALSE)
    BY <2>2, <2>3, FlowFinish
  <2> QED BY <1>14, <2>1, <2>3 DEF Clear
<1>15. ASSUME NEW c \in Command, Die(c) PROVE Flow'
  <2>1. /\ c \in Running
        /\ \A y \in Thread : th'[y] = IF y[1] = c THEN Off ELSE th[y]
        /\ \A d \in Command : run'[d].kind = run[d].kind /\ run'[d].at = IF c = d THEN "killed" ELSE run[d].at
        /\ lock' = IF lock # Unlocked /\ lock[1] = c THEN Unlocked ELSE lock
    BY <1>15, DieDoes
  <2>2. UNCHANGED lockMeta
    BY <1>15 DEF Die
  <2>3. ASSUME NEW d \in Command PROVE ThreadsOf(d)' /\ Marked(d)'
    <3>1. ThreadsOf(d) /\ Marked(d)
      BY DEF Flow
    <3>2. CASE d = c
      <4>1. th'[Main(d)] = Off /\ th'[Check(d)] = Off /\ run'[d].at = "killed" /\ run'[d].kind = run[d].kind
        BY <2>1, <3>2, Threads
      <4>2. run[d].kind # "none"
        BY <2>1, <3>1, <3>2 DEF ThreadsOf, Running
      <4> QED BY <2>2, <3>2, <4>1, <4>2, OffIs DEF Marked, ThreadsOf, Early, Staging, Claims, Apply, Installed
    <3>3. CASE d # c
      <4>1. th'[Main(d)] = th[Main(d)] /\ th'[Check(d)] = th[Check(d)]
        BY <2>1, <3>3, Threads
      <4> QED BY <2>1, <2>2, <3>1, <3>3, <4>1 DEF Marked, ThreadsOf
    <3> QED BY <3>2, <3>3
  <2>4. ASSUME NEW y \in Thread PROVE (NeedsLock(y) => lock = y)' /\ Knows(y)'
    BY <2>1, OffIs, Threads DEF Flow, LockIsHeld, NeedsLock, Knows, Claims, Apply, Installed
  <2> QED BY <2>3, <2>4 DEF Flow, LockIsHeld
<1>16. ASSUME NEW x \in Thread, Fetch(x) PROVE Flow'
  <2>1. PICK c \in Command : c = x[1]
    BY Threads
  <2>2. x[1] = c /\ th[x].pc = "fetch" /\ UNCHANGED lockMeta
    BY <1>16, <2>1, Threads DEF Fetch, At
  <2>3. CASE Finish(x, FALSE)
    BY <2>2, <2>3, FlowFinish
  <2>4. CASE th' = [th EXCEPT ![x].pc = "lock", ![x].pend = [v |-> release, of |-> x[1]]] /\ UNCHANGED <<run, lock>>
    <3>0. Takes(x, "lock", [v |-> release, of |-> x[1]])
      BY <2>4 DEF Takes
    <3>1. Still(x) /\ th'[x].pc = "lock" /\ th'[x].pend = [v |-> release, of |-> x[1]]
      BY <3>0, PendDoes
    <3>2. UNCHANGED run /\ UNCHANGED lock
      BY <1>16, <2>1, <2>2, <2>4 DEF Fetch
    <3>3. th'[x].pend # NoUpdate
      BY <3>1 DEF UpdateTypeOK, NoUpdate
    <3>4. ThreadsOf(c)' /\ (NeedsLock(x)' => lock' = x) /\ Knows(x)'
      BY <2>1, <2>2, <3>1, <3>2, <3>3, Runs, Threads, Twins
         DEF Still, ThreadsOf, NeedsLock, Knows, Early, Staging, Claims, Apply, Installed
    <3> QED BY <2>1, <2>2, <3>1, <3>2, <3>4, Runs, FlowMove DEF Early
  <2> QED BY <1>16, <2>1, <2>3, <2>4 DEF Fetch
<1>17. ASSUME NEW x \in Thread, StageLock(x) PROVE Flow'
  <2>1. PICK c \in Command : c = x[1]
    BY Threads
  <2>2. x[1] = c /\ th[x].pc = "lock" /\ UNCHANGED lockMeta
    BY <1>17, <2>1, Threads DEF StageLock, At
  <2>3. CASE \E erred \in BOOLEAN : Finish(x, erred)
    BY <2>2, <2>3, FlowFinish
  <2>4. CASE lock = Unlocked /\ lock' = x /\ Go(x, "meta") /\ UNCHANGED run
    <3>1. Still(x) /\ th'[x].pc = "meta" /\ th'[x].pend = th[x].pend
      BY <2>4, GoDoes
    <3>2. ThreadsOf(c)' /\ (NeedsLock(x)' => lock' = x) /\ Knows(x)'
      BY <2>1, <2>2, <2>4, <3>1, Runs, Threads, Twins
         DEF Still, ThreadsOf, NeedsLock, Knows, Early, Staging, Claims, Apply, Installed
    <3> QED BY <2>1, <2>2, <2>4, <3>1, <3>2, Runs, FlowMove DEF Early
  <2>5. CASE lock # Unlocked /\ run[c].kind = "force" /\ lockMeta # None
    <3> DEFINE shot == {lockMeta} \cap Running
    <3>1. /\ \A y \in Thread \ {x} : th'[y] = IF y[1] \in shot THEN Off ELSE th[y]
          /\ th'[x].pc = "relock" /\ th'[x].pend = th[x].pend
          /\ \A d \in Command : run'[d].kind = run[d].kind /\ run'[d].at = IF d \in shot THEN "killed" ELSE run[d].at
          /\ lock' = IF lock[1] \in shot THEN Unlocked ELSE lock
      BY <1>17, <2>1, <2>5, ShootDoes
    <3>2. x = Main(c) /\ c \notin shot
      BY <2>1, <2>2, <2>5, Runs, Threads DEF ThreadsOf, Marked
    <3> HIDE DEF shot
    <3>3. ASSUME NEW d \in Command PROVE ThreadsOf(d)' /\ Marked(d)'
      <4>1. ThreadsOf(d) /\ Marked(d)
        BY DEF Flow
      <4>2. CASE d = c
        <5>1. th'[Check(c)] = th[Check(c)]
          BY <2>1, <3>1, <3>2, Threads, Twins
        <5> QED BY <2>1, <2>2, <3>1, <3>2, <4>1, <4>2, <5>1
           DEF Marked, ThreadsOf, Early, Staging, Claims, Apply, Installed
      <4>3. CASE d \in shot
        <5>1. th'[Main(d)] = Off /\ th'[Check(d)] = Off
          BY <3>1, <3>2, <4>3, Threads
        <5>2. run'[d].kind = run[d].kind /\ run'[d].at = "killed" /\ run[d].kind # "none"
          <6>1. run[d].at = "running"
            BY <4>3 DEF shot, Running
          <6> QED BY <3>1, <4>1, <4>3, <6>1 DEF ThreadsOf
        <5> QED BY <2>2, <4>3, <5>1, <5>2, OffIs DEF Marked, ThreadsOf, Early, Staging, Claims, Apply, Installed
      <4>4. CASE d # c /\ d \notin shot
        <5>1. th'[Main(d)] = th[Main(d)] /\ th'[Check(d)] = th[Check(d)]
          BY <3>1, <3>2, <4>4, Threads
        <5> QED BY <2>2, <3>1, <4>1, <4>4, <5>1 DEF Marked, ThreadsOf
      <4> QED BY <4>2, <4>3, <4>4
    <3>4. ASSUME NEW y \in Thread PROVE (NeedsLock(y) => lock = y)' /\ Knows(y)'
      <4>1. (NeedsLock(y) => lock = y) /\ Knows(y)
        BY DEF Flow, LockIsHeld
      <4>2. CASE y = x
        BY <2>1, <2>2, <3>1, <4>1, <4>2 DEF NeedsLock, Knows, Claims, Apply, Installed
      <4>3. CASE y # x /\ y[1] \in shot
        BY <3>1, <4>3, OffIs DEF NeedsLock, Knows, Claims, Apply, Installed
      <4>4. CASE y # x /\ y[1] \notin shot
        <5>1. th'[y] = th[y] /\ run'[y[1]].kind = run[y[1]].kind
          BY <3>1, <4>4, Threads
        <5> QED BY <3>1, <4>1, <4>4, <5>1 DEF NeedsLock, Knows
      <4> QED BY <4>2, <4>3, <4>4
    <3> QED BY <3>3, <3>4 DEF Flow, LockIsHeld
  <2> QED BY <1>17, <2>1, <2>3, <2>4, <2>5 DEF StageLock
<1>18. ASSUME NEW x \in Thread, Relock(x) PROVE Flow'
  <2>1. PICK c \in Command : c = x[1]
    BY Threads
  <2>2. x[1] = c /\ th[x].pc = "relock" /\ UNCHANGED lockMeta
    BY <1>18, <2>1, Threads DEF Relock, At
  <2>3. CASE Finish(x, TRUE)
    BY <2>2, <2>3, FlowFinish
  <2>4. CASE lock = Unlocked /\ lock' = x /\ Go(x, "meta") /\ UNCHANGED run
    <3>1. Still(x) /\ th'[x].pc = "meta" /\ th'[x].pend = th[x].pend
      BY <1>18, <2>1, <2>2, <2>4, GoDoes DEF Relock
    <3>2. UNCHANGED run /\ lock = Unlocked /\ lock' = x
      BY <1>18, <2>1, <2>2, <2>4 DEF Relock
    <3>3. ThreadsOf(c)' /\ (NeedsLock(x)' => lock' = x) /\ Knows(x)'
      BY <2>1, <2>2, <3>1, <3>2, <2>4, Runs, Threads, Twins
         DEF Still, ThreadsOf, NeedsLock, Knows, Early, Staging, Claims, Apply, Installed
    <3> QED BY <2>1, <2>2, <3>1, <3>2, <3>3, Runs, FlowMove DEF Early
  <2> QED BY <1>18, <2>1, <2>3, <2>4 DEF Relock
<1>19. ASSUME NEW x \in Thread, LockMeta(x) PROVE Flow'
  <2>1. PICK c \in Command : c = x[1]
    BY Threads
  <2>2. /\ lockMeta' = c /\ UNCHANGED <<run, lock>>
        /\ \/ th[x].pc = "meta" /\ Go(x, "stage")
           \/ th[x].pc = "ameta" /\ Go(x, "load")
    BY <1>19, <2>1 DEF LockMeta, At
  <2>3. /\ Still(x) /\ th'[x].pend = th[x].pend
        /\ th'[x].pc = IF th[x].pc = "meta" THEN "stage" ELSE "load"
    BY <2>2, GoDoes
  <2>4. ThreadsOf(c)' /\ (NeedsLock(x)' => lock' = x) /\ Knows(x)'
    BY <2>1, <2>2, <2>3, Runs, Threads, Twins
       DEF Still, ThreadsOf, NeedsLock, Knows, Early, Staging, Claims, Apply, Installed
  <2> QED BY <2>1, <2>2, <2>3, <2>4, Runs, FlowMove DEF Early
<1>20. ASSUME NEW x \in Thread, Download(x) PROVE Flow'
  <2>1. PICK c \in Command : c = x[1]
    BY Threads
  <2>2. x[1] = c /\ th[x].pc = "stage" /\ UNCHANGED lockMeta
    BY <1>20, <2>1, Threads DEF Download, At
  <2>3. CASE Finish(x, TRUE)
    BY <2>2, <2>3, FlowFinish
  <2>4. CASE th' = [th EXCEPT ![x].pc = "unlock", ![x].pend = pending] /\ Usable(pending) /\ UNCHANGED <<run, lock>>
    <3>0. Takes(x, "unlock", pending)
      BY <2>4 DEF Takes
    <3>1. Still(x) /\ th'[x].pc = "unlock" /\ th'[x].pend # NoUpdate
      BY <2>4, <3>0, PendDoes DEF Usable
    <3>2. UNCHANGED run /\ UNCHANGED lock
      BY <1>20, <2>1, <2>2, <2>4 DEF Download
    <3>3. ThreadsOf(c)' /\ (NeedsLock(x)' => lock' = x) /\ Knows(x)'
      BY <2>1, <2>2, <3>1, <3>2, Runs, Threads, Twins
         DEF Still, ThreadsOf, NeedsLock, Knows, Early, Staging, Claims, Apply, Installed
    <3> QED BY <2>1, <2>2, <3>1, <3>2, <3>3, Runs, FlowMove DEF Early
  <2>5. CASE Go(x, "save") /\ UNCHANGED <<run, lock>>
    <3>1. Still(x) /\ th'[x].pc = "save" /\ th'[x].pend = th[x].pend
      BY <1>20, <2>1, <2>2, <2>5, GoDoes DEF Download
    <3>2. UNCHANGED run /\ UNCHANGED lock
      BY <1>20, <2>1, <2>2, <2>5 DEF Download
    <3>3. ThreadsOf(c)' /\ (NeedsLock(x)' => lock' = x) /\ Knows(x)'
      BY <2>1, <2>2, <3>1, <3>2, <2>5, Runs, Threads, Twins
         DEF Still, ThreadsOf, NeedsLock, Knows, Early, Staging, Claims, Apply, Installed
    <3> QED BY <2>1, <2>2, <3>1, <3>2, <3>3, Runs, FlowMove DEF Early
  <2> QED BY <1>20, <2>1, <2>3, <2>4, <2>5 DEF Download
<1>21. ASSUME NEW x \in Thread, Save(x) PROVE Flow'
  <2>1. PICK c \in Command : c = x[1]
    BY Threads
  <2>2. x[1] = c /\ th[x].pc = "save" /\ UNCHANGED lockMeta
    BY <1>21, <2>1, Threads DEF Save, At
  <2>3. CASE Go(x, "unlock")
    <3>1. Still(x) /\ th'[x].pc = "unlock" /\ th'[x].pend = th[x].pend
      BY <1>21, <2>1, <2>2, <2>3, GoDoes DEF Save
    <3>2. UNCHANGED run /\ UNCHANGED lock
      BY <1>21, <2>1, <2>2, <2>3 DEF Save
    <3>3. ThreadsOf(c)' /\ (NeedsLock(x)' => lock' = x) /\ Knows(x)'
      BY <2>1, <2>2, <3>1, <3>2, <2>3, Runs, Threads, Twins
         DEF Still, ThreadsOf, NeedsLock, Knows, Early, Staging, Claims, Apply, Installed
    <3> QED BY <2>1, <2>2, <3>1, <3>2, <3>3, Runs, FlowMove DEF Early
  <2> QED BY <1>21, <2>1, <2>3 DEF Save
<1>22. ASSUME NEW x \in Thread, Unlock(x) PROVE Flow'
  <2>1. PICK c \in Command : c = x[1]
    BY Threads
  <2>2. x[1] = c /\ th[x].pc = "unlock" /\ UNCHANGED lockMeta
    BY <1>22, <2>1, Threads DEF Unlock, At
  <2>3. CASE Finish(x, FALSE)
    BY <2>2, <2>3, FlowFinish
  <2>4. CASE x[2] = "main" /\ Go(x, "check") /\ Free(x) /\ UNCHANGED run
    <3>1. Still(x) /\ th'[x].pc = "check" /\ th'[x].pend = th[x].pend
      BY <1>22, <2>1, <2>2, <2>4, GoDoes DEF Unlock
    <3>2. UNCHANGED run /\ lock = x /\ lock' = Unlocked
      BY <2>2, <2>4, Runs DEF Free, NeedsLock
    <3>3. ThreadsOf(c)' /\ (NeedsLock(x)' => lock' = x) /\ Knows(x)'
      BY <2>1, <2>2, <3>1, <3>2, <2>4, Runs, Threads, Twins
         DEF Still, ThreadsOf, NeedsLock, Knows, Early, Staging, Claims, Apply, Installed
    <3> QED BY <2>1, <2>2, <3>1, <3>2, <3>3, Runs, FlowMove DEF Early
  <2> QED BY <1>22, <2>1, <2>3, <2>4 DEF Unlock
<1>23. ASSUME NEW x \in Thread, Err(x) PROVE Flow'
  <2>1. PICK c \in Command : c = x[1]
    BY Threads
  <2>2. UNCHANGED lockMeta /\ th[x].pc # "off"
    BY <1>23 DEF Err, Fallible
  <2>3. CASE Finish(x, TRUE)
    BY <2>2, <2>3, FlowFinish
  <2>4. CASE /\ th[x].pc \in {"heal", "healed"} /\ Drop(x, "run") /\ UNCHANGED lock
             /\ run' = [run EXCEPT ![x[1]].erred = TRUE]
    <3>1. Still(x) /\ th'[x].pc = "run" /\ th'[x].pend = th[x].pend
      BY <2>4, DropDoes
    <3>2. \A d \in Command : run'[d].kind = run[d].kind /\ run'[d].at = run[d].at
      BY <2>1, <2>4 DEF UpdateTypeOK, RunState
    <3>3. ThreadsOf(c)' /\ (NeedsLock(x)' => lock' = x) /\ Knows(x)'
      BY <2>1, <2>2, <2>4, <3>1, <3>2, Runs, Threads, Twins
         DEF Still, ThreadsOf, NeedsLock, Knows, Early, Staging, Claims, Apply, Installed
    <3> QED BY <2>1, <2>2, <2>4, <3>1, <3>2, <3>3, Runs, Threads, FlowMove DEF Early, Still, ThreadsOf
  <2> QED BY <1>23, <2>3, <2>4 DEF Err
<1>24. CASE UNCHANGED updateVars
  BY <1>24 DEF updateVars, Flow, ThreadsOf, Marked, LockIsHeld, NeedsLock, Knows
<1> QED
  BY <1>1, <1>2, <1>3, <1>4, <1>5, <1>6, <1>7, <1>8, <1>9, <1>10, <1>11, <1>12, <1>13, <1>14, <1>15, <1>16,
     <1>17, <1>18, <1>19, <1>20, <1>21, <1>22, <1>23, <1>24
  DEF UpdateNext

LEMMA FlowStart == UpdateInit => UpdateTypeOK /\ Flow
<1> SUFFICES ASSUME UpdateInit PROVE UpdateTypeOK /\ Flow
  OBVIOUS
<1>1. /\ th = [x \in Thread |-> Off] /\ lock = Unlocked /\ lockMeta = None
      /\ pending = NoUpdate /\ now = 1 /\ faults = 0
      /\ staged = [c \in Command |-> Absent]
      /\ hist = [met |-> FALSE, last |-> None]
      /\ release \in 1..MaxVersion
  BY DEF UpdateInit
<1>2. PICK kind \in Kinds :
        run = [c \in Command |-> [at |-> IF kind[c] = "none" THEN "absent" ELSE "no",
                                  kind |-> kind[c], own |-> 0, alone |-> TRUE, erred |-> FALSE]]
  BY DEF UpdateInit
<1>3. kind \in [Command -> {"other", "review", "update", "force", "none"}]
  BY UpdateAssumption
<1>4. run \in [Command -> RunState]
  <2>1. ASSUME NEW c \in Command
        PROVE  [at |-> IF kind[c] = "none" THEN "absent" ELSE "no",
                kind |-> kind[c], own |-> 0, alone |-> TRUE, erred |-> FALSE] \in RunState
    BY <1>3, UpdateAssumption DEF RunState
  <2> QED BY <1>2, <2>1
<1>5. bin \in [Side -> File]
  <2>1. [v |-> 1, whole |-> TRUE, t |-> 1] \in File
    BY UpdateAssumption DEF File
  <2> QED BY <2>1, Blanks DEF UpdateInit, Side
<1>6. UpdateTypeOK
  BY <1>1, <1>4, <1>5, Blanks DEF UpdateTypeOK
<1>7. ASSUME NEW c \in Command PROVE ThreadsOf(c) /\ Marked(c)
  <2>1. th[Main(c)] = Off /\ th[Check(c)] = Off
    BY <1>1, Threads
  <2>2. run[c].kind = "none" => run[c].at = "absent"
    BY <1>2
  <2>3. lockMeta = c => run[c].at # "no"
    BY <1>1, UpdateAssumption DEF None
  <2> QED BY <2>1, <2>2, <2>3, OffIs DEF ThreadsOf, Marked, Early, Staging, Claims, Apply, Installed
<1>8. ASSUME NEW x \in Thread PROVE ~NeedsLock(x) /\ Knows(x)
  <2>1. th[x] = Off
    BY <1>1
  <2> QED BY <2>1, OffIs DEF NeedsLock, Knows, Claims, Apply, Installed
<1> QED BY <1>6, <1>7, <1>8 DEF Flow, LockIsHeld

-----------------------------------------------------------------------------
(* Healing *)

\* No command starts, ends by itself twice, or comes back.
RunsOn ==
  \A d \in Command :
    /\ run'[d].alone = run[d].alone
    /\ run[d].erred => run'[d].erred
    /\ run'[d].at = "running" => run[d].at = "running"
    /\ run'[d].at = "done" => run[d].at \in {"running", "done"}

LEMMA HealMove ==
  ASSUME UpdateTypeOK, Flow, AloneHeals, NEW x \in Thread, th[x].pc # "off", RunsOn, UNCHANGED hist,
         Heals(x[1]) /\ ~run'[x[1]].erred => Heals(x[1])'
  PROVE  AloneHeals'
<1> SUFFICES ASSUME NEW c \in Command, Undisturbed(c)'
             PROVE  (Running \subseteq {c})' /\ (~run[c].erred => Heals(c))'
  BY DEF AloneHeals
<1>1. Undisturbed(c)
  BY DEF Undisturbed, RunsOn
<1>2. Running \subseteq {c} /\ (~run[c].erred => Heals(c))
  BY <1>1 DEF AloneHeals
<1>3. Running' \subseteq Running
  BY DEF Running, RunsOn
<1>4. x[1] = c
  BY <1>2, Runs, Threads DEF Running
<1> QED BY <1>2, <1>3, <1>4 DEF RunsOn

LEMMA FinishRuns ==
  ASSUME UpdateTypeOK, Flow, NEW x \in Thread, NEW erred \in BOOLEAN, Finish(x, erred), th[x].pc # "off"
  PROVE  RunsOn /\ (erred => run'[x[1]].erred)
<1>1. \A c \in Command :
        /\ run'[c].alone = run[c].alone
        /\ run'[c].at = IF x = Main(c) THEN "done" ELSE run[c].at
        /\ run'[c].erred = (run[c].erred \/ (c = x[1] /\ erred))
  BY FinishDoes
<1>2. \A c \in Command : x = Main(c) => run[c].at = "running"
  BY Runs, Threads
<1> QED BY <1>1, <1>2, Threads DEF RunsOn

\* A thread that is not at work on the binaries.
LEMMA HealQuiet ==
  ASSUME UpdateTypeOK, Flow, AloneHeals, NEW x \in Thread, RunsOn, UNCHANGED <<bin, hist>>,
         th[x].pc \notin {"heal", "healed", "sync", "synced"}, th[x].pc # "off",
         th'[x].pc \notin {"heal", "healed", "sync", "synced"}, th'[x].pc = "applied" => th'[x].file.v # 0,
         Still(x) \/ (x[2] = "check" => th'[Main(x[1])] = th[Main(x[1])])
  PROVE  AloneHeals'
<1> PICK c \in Command : c = x[1]
  BY Threads
<1>1. CASE x = Main(c)
  <2>1. Heals(c) => Heals(c)'
    BY <1>1 DEF Heals, Synced
  <2> QED BY <2>1, HealMove
<1>2. CASE x = Check(c)
  <2>1. th'[Main(c)] = th[Main(c)]
    BY <1>2, Threads, Twins DEF Still
  <2>2. Heals(c) => Heals(c)'
    BY <2>1 DEF Heals, Synced
  <2> QED BY <2>2, HealMove
<1> QED BY <1>1, <1>2, Threads

LEMMA HealFinish ==
  ASSUME UpdateTypeOK, Flow, AloneHeals, NEW x \in Thread, NEW erred \in BOOLEAN, Finish(x, erred),
         UNCHANGED hist, th[x].pc # "off",
         erred \/ (th[x].pc \notin {"heal", "healed", "sync", "synced"} /\ UNCHANGED bin)
  PROVE  AloneHeals'
<1>1. RunsOn /\ (erred => run'[x[1]].erred)
  BY FinishRuns
<1>2. CASE erred
  BY <1>1, <1>2, HealMove
<1>3. CASE ~erred
  <2>1. th'[x] = Off
    BY FinishDoes
  <2>2. x[2] = "check" => th'[Main(x[1])] = th[Main(x[1])]
    BY FinishDoes, Threads, Twins
  <2> QED BY <1>1, <1>3, <2>1, <2>2, OffIs, HealQuiet
<1> QED BY <1>2, <1>3

LEMMA HealStep ==
  ASSUME UpdateTypeOK, Flow, AloneHeals, [UpdateNext]_updateVars
  PROVE  AloneHeals'
<1>1. CASE Release
  BY <1>1 DEF Release, AloneHeals, Undisturbed, Running, Heals, Synced
<1>2. ASSUME NEW c \in Command, Start(c) PROVE AloneHeals'
  <2>1. /\ th'[Main(c)].pc \in {"run", "heal"}
        /\ \E close \in BOOLEAN :
             IF Stale(close) = None THEN th'[Main(c)].pc = "run"
             ELSE th'[Main(c)].pc = "heal" /\ th'[Main(c)].dst = Stale(close)
        /\ bin.lrc.v # 0 \/ bin.git.v # 0
        /\ run'[c].at = "running" /\ run'[c].alone = (Running = {})
        /\ \A d \in Command \ {c} : run'[d].at = run[d].at
    BY <1>2, StartDoes
  <2>2. hist'.last = c /\ UNCHANGED bin
    BY <1>2 DEF Start, UpdateTypeOK
  <2> SUFFICES ASSUME NEW d \in Command, Undisturbed(d)'
               PROVE  (Running \subseteq {d})' /\ Heals(d)'
    BY DEF AloneHeals
  <2>3. d = c /\ Running = {}
    BY <2>1, <2>2 DEF Undisturbed
  <2>4. (Running \subseteq {c})'
    BY <2>1, <2>3 DEF Running
  <2>5. Heals(c)'
    BY <2>1, <2>2 DEF Heals, Synced, Stale, Other, None
  <2> QED BY <2>3, <2>4, <2>5
<1>3. ASSUME NEW c \in Command, HealCopy(c) PROVE AloneHeals'
  <2>1. PICK x \in Thread : x = Main(c)
    BY Threads
  <2>2. x[1] = c /\ th[x].pc = "heal" /\ UNCHANGED hist
    BY <1>3, <2>1, Threads DEF HealCopy, At
  <2>3. bin[Other(th[x].dst)] \in File
    BY <2>1, Fields
  <2>4. /\ Still(x) /\ th'[x].pc = "healed" /\ th'[x].dst = th[x].dst
        /\ th'[x].file.v = bin[Other(th[x].dst)].v
    BY <1>3, <2>1, <2>2, <2>3, CopyDoes DEF HealCopy
  <2>5. UNCHANGED <<bin, run>> /\ RunsOn
    BY <1>3 DEF HealCopy, RunsOn
  <2>6. Heals(c) => Heals(c)'
    BY <2>1, <2>2, <2>4, <2>5 DEF Heals
  <2> QED BY <2>2, <2>5, <2>6, HealMove
<1>4. ASSUME NEW c \in Command, HealRename(c) PROVE AloneHeals'
  <2>1. PICK x \in Thread : x = Main(c)
    BY Threads
  <2>2. x[1] = c /\ th[x].pc = "healed" /\ UNCHANGED hist
    BY <1>4, <2>1, Threads DEF HealRename, At
  <2>3. th[x].dst \in Side
    BY <2>1, Fields
  <2>4. th'[x].pc = "run" /\ bin' = [bin EXCEPT ![th[x].dst] = th[x].file]
    BY <1>4, <2>1, DropDoes DEF HealRename
  <2>5. RunsOn
    BY <1>4 DEF HealRename, RunsOn
  <2>6. ASSUME Heals(c) PROVE Heals(c)'
    <3>1. th[x].file.v = bin[Other(th[x].dst)].v /\ th[x].file.v # 0
      BY <2>1, <2>2, <2>6 DEF Heals
    <3>2. bin'[th[x].dst].v # 0 /\ bin'[th[x].dst].v = bin'[Other(th[x].dst)].v
      BY <2>3, <2>4, <3>1 DEF UpdateTypeOK, Side, Other
    <3>3. Synced'
      BY <2>3, <3>2 DEF Synced, Side, Other
    <3> QED BY <2>1, <2>4, <3>3 DEF Heals
  <2> QED BY <2>2, <2>5, <2>6, HealMove
<1>5. ASSUME NEW c \in Command, Work(c) PROVE AloneHeals'
  <2>1. PICK x \in Thread : x = Main(c)
    BY Threads
  <2>2. x[1] = c /\ th[x].pc = "run" /\ UNCHANGED <<bin, hist>>
    BY <1>5, <2>1, Threads DEF Work, At
  <2>3. CASE Finish(x, FALSE)
    BY <2>2, <2>3, HealFinish
  <2>4. CASE Go(x, "fetch") /\ UNCHANGED run
    <3>1. Still(x) /\ th'[x].pc = "fetch" /\ RunsOn
      BY <2>4, GoDoes DEF RunsOn
    <3> QED BY <2>2, <3>1, HealQuiet
  <2>5. CASE th' = [th EXCEPT ![x].pc = "exit", ![<<c, "check">>].pc = "fetch"] /\ UNCHANGED run
    <3>1. th'[x].pc = "exit" /\ RunsOn
      BY <2>1, <2>5, ReviewStarts DEF RunsOn
    <3>2. x[2] # "check"
      BY <2>1 DEF Main
    <3> QED BY <2>2, <3>1, <3>2, HealQuiet
  <2> QED BY <1>5, <2>1, <2>3, <2>4, <2>5 DEF Work
<1>6. ASSUME NEW c \in Command, ApplyLock(c) PROVE AloneHeals'
  <2>1. PICK x \in Thread : x = Main(c)
    BY Threads
  <2>2. x[1] = c /\ th[x].pc = "exit" /\ UNCHANGED <<bin, hist>>
    BY <1>6, <2>1, Threads DEF ApplyLock, At
  <2>3. CASE Finish(x, FALSE)
    BY <2>2, <2>3, HealFinish
  <2>4. CASE Go(x, "ameta") /\ UNCHANGED run
    <3>1. Still(x) /\ th'[x].pc = "ameta" /\ RunsOn
      BY <2>4, GoDoes DEF RunsOn
    <3> QED BY <2>2, <3>1, HealQuiet
  <2> QED BY <1>6, <2>1, <2>3, <2>4 DEF ApplyLock
<1>7. ASSUME NEW c \in Command, Load(c) PROVE AloneHeals'
  <2>1. PICK x \in Thread : x = Main(c)
    BY Threads
  <2>2. x[1] = c /\ th[x].pc = "load" /\ UNCHANGED <<bin, hist>>
    BY <1>7, <2>1, Threads DEF Load, At
  <2>3. CASE Finish(x, FALSE)
    BY <2>2, <2>3, HealFinish
  <2>4. CASE Takes(x, "check", pending) /\ UNCHANGED run
    <3>1. Still(x) /\ th'[x].pc = "check" /\ RunsOn
      BY <2>4, PendDoes DEF RunsOn
    <3> QED BY <2>2, <3>1, HealQuiet
  <2> QED BY <1>7, <2>1, <2>3, <2>4 DEF Load, Takes
<1>8. ASSUME NEW c \in Command, CheckStaged(c) PROVE AloneHeals'
  <2>1. PICK x \in Thread : x = Main(c)
    BY Threads
  <2>2. x[1] = c /\ th[x].pc = "check" /\ UNCHANGED <<bin, hist>>
    BY <1>8, <2>1, Threads DEF CheckStaged, At
  <2>3. CASE Finish(x, TRUE)
    BY <2>2, <2>3, HealFinish
  <2>4. CASE Go(x, "apply") /\ UNCHANGED run
    <3>1. Still(x) /\ th'[x].pc = "apply" /\ RunsOn
      BY <2>4, GoDoes DEF RunsOn
    <3> QED BY <2>2, <3>1, HealQuiet
  <2> QED BY <1>8, <2>1, <2>3, <2>4 DEF CheckStaged
<1>9. ASSUME NEW c \in Command, ApplyCopy(c) PROVE AloneHeals'
  <2>1. PICK x \in Thread : x = Main(c)
    BY Threads
  <2>2. x[1] = c /\ th[x].pc = "apply" /\ UNCHANGED <<bin, hist>>
    BY <1>9, <2>1, Threads DEF ApplyCopy, At
  <2>3. CASE Finish(x, TRUE)
    BY <2>2, <2>3, HealFinish
  <2>4. CASE staged[th[x].pend.of].v # 0 /\ Copied(x, staged[th[x].pend.of]) /\ UNCHANGED run
    <3>1. th[x].pend.of \in Command
      BY <2>2, Fields, Runs DEF Knows, Apply
    <3>2. Still(x) /\ th'[x].pc = "applied" /\ th'[x].file.v # 0
      BY <2>2, <2>4, <3>1, Fields, CopyDoes
    <3>3. RunsOn
      BY <2>4 DEF RunsOn
    <3> QED BY <2>2, <3>2, <3>3, HealQuiet
  <2> QED BY <1>9, <2>1, <2>3, <2>4 DEF ApplyCopy
<1>10. ASSUME NEW c \in Command, ApplyRename(c) PROVE AloneHeals'
  <2>1. PICK x \in Thread : x = Main(c)
    BY Threads
  <2>2. x[1] = c /\ th[x].pc = "applied" /\ UNCHANGED hist
    BY <1>10, <2>1, Threads DEF ApplyRename, At
  <2>3. th'[x].pc = "sync" /\ bin' = [bin EXCEPT !.lrc = th[x].file]
    BY <1>10, <2>1, DropDoes DEF ApplyRename
  <2>4. RunsOn
    BY <1>10 DEF ApplyRename, RunsOn
  <2>5. bin'.lrc = th[x].file
    BY <2>3 DEF UpdateTypeOK, Side
  <2>6. Heals(c) => Heals(c)'
    BY <2>1, <2>2, <2>3, <2>5 DEF Heals
  <2> QED BY <2>2, <2>4, <2>6, HealMove
<1>11. ASSUME NEW c \in Command, SyncCopy(c) PROVE AloneHeals'
  <2>1. PICK x \in Thread : x = Main(c)
    BY Threads
  <2>2. x[1] = c /\ th[x].pc = "sync" /\ UNCHANGED hist
    BY <1>11, <2>1, Threads DEF SyncCopy, At
  <2>3. bin.lrc \in File
    BY Fields DEF Side
  <2>4. th'[x].pc = "synced" /\ th'[x].file.v = bin.lrc.v
    BY <1>11, <2>1, <2>2, <2>3, CopyDoes DEF SyncCopy
  <2>5. UNCHANGED <<bin, run>> /\ RunsOn
    BY <1>11 DEF SyncCopy, RunsOn
  <2>6. Heals(c) => Heals(c)'
    BY <2>1, <2>2, <2>4, <2>5 DEF Heals
  <2> QED BY <2>2, <2>5, <2>6, HealMove
<1>12. ASSUME NEW c \in Command, SyncRename(c) PROVE AloneHeals'
  <2>1. PICK x \in Thread : x = Main(c)
    BY Threads
  <2>2. x[1] = c /\ th[x].pc = "synced" /\ UNCHANGED hist
    BY <1>12, <2>1, Threads DEF SyncRename, At
  <2>3. CASE Finish(x, TRUE)
    BY <2>2, <2>3, HealFinish
  <2>4. CASE Drop(x, "hooks") /\ UNCHANGED run
    <3>1. th'[x].pc = "hooks" /\ RunsOn
      BY <2>4, DropDoes DEF RunsOn
    <3>2. bin' = [bin EXCEPT !.git = th[x].file]
      BY <1>12, <2>1 DEF SyncRename
    <3>3. bin'.git = th[x].file /\ bin'.lrc = bin.lrc
      BY <3>2 DEF UpdateTypeOK, Side
    <3>4. Heals(c) => Heals(c)'
      BY <2>1, <2>2, <3>1, <3>3 DEF Heals, Synced
    <3> QED BY <2>2, <3>1, <3>4, HealMove
  <2> QED BY <1>12, <2>1, <2>3, <2>4 DEF SyncRename
<1>13. ASSUME NEW c \in Command, HooksInstall(c) PROVE AloneHeals'
  <2>1. PICK x \in Thread : x = Main(c)
    BY Threads
  <2>2. x[1] = c /\ th[x].pc = "hooks" /\ UNCHANGED <<bin, hist>>
    BY <1>13, <2>1, Threads DEF HooksInstall, At
  <2>3. CASE Go(x, "clear") /\ UNCHANGED run
    <3>1. Still(x) /\ th'[x].pc = "clear" /\ RunsOn
      BY <2>3, GoDoes DEF RunsOn
    <3> QED BY <2>2, <3>1, HealQuiet
  <2> QED BY <1>13, <2>1, <2>3 DEF HooksInstall
<1>14. ASSUME NEW c \in Command, Clear(c) PROVE AloneHeals'
  <2>1. PICK x \in Thread : x = Main(c)
    BY Threads
  <2>2. x[1] = c /\ th[x].pc = "clear" /\ UNCHANGED <<bin, hist>>
    BY <1>14, <2>1, Threads DEF Clear, At
  <2>3. CASE Finish(x, FALSE)
    BY <2>2, <2>3, HealFinish
  <2> QED BY <1>14, <2>1, <2>3 DEF Clear
<1>15. ASSUME NEW c \in Command, Die(c) PROVE AloneHeals'
  <2>1. /\ c \in Running
        /\ \A d \in Command : /\ run'[d].alone = run[d].alone
                              /\ run'[d].at = IF c = d THEN "killed" ELSE run[d].at
    BY <1>15, DieDoes
  <2>2. UNCHANGED hist
    BY <1>15 DEF Die
  <2> SUFFICES ASSUME NEW d \in Command, Undisturbed(d)' PROVE FALSE
    BY DEF AloneHeals
  <2>3. c # d /\ Undisturbed(d)
    BY <2>1, <2>2 DEF Undisturbed
  <2> QED BY <2>1, <2>3 DEF AloneHeals
<1>16. ASSUME NEW x \in Thread, Fetch(x) PROVE AloneHeals'
  <2>1. th[x].pc = "fetch" /\ UNCHANGED <<bin, hist>>
    BY <1>16 DEF Fetch, At
  <2>2. CASE Finish(x, FALSE)
    BY <2>1, <2>2, HealFinish
  <2>3. CASE Takes(x, "lock", [v |-> release, of |-> x[1]]) /\ UNCHANGED run
    <3>1. Still(x) /\ th'[x].pc = "lock" /\ RunsOn
      BY <2>3, PendDoes DEF RunsOn
    <3> QED BY <2>1, <3>1, HealQuiet
  <2> QED BY <1>16, <2>2, <2>3 DEF Fetch, Takes
<1>17. ASSUME NEW x \in Thread, StageLock(x) PROVE AloneHeals'
  <2>1. th[x].pc = "lock" /\ UNCHANGED <<bin, hist>>
    BY <1>17 DEF StageLock, At
  <2>2. CASE \E erred \in BOOLEAN : Finish(x, erred)
    BY <2>1, <2>2, HealFinish
  <2>3. CASE Go(x, "meta") /\ UNCHANGED run
    <3>1. Still(x) /\ th'[x].pc = "meta" /\ RunsOn
      BY <2>3, GoDoes DEF RunsOn
    <3> QED BY <2>1, <3>1, HealQuiet
  <2>4. CASE lock # Unlocked /\ run[x[1]].kind = "force" /\ lockMeta # None
    <3>1. /\ th'[x].pc = "relock"
          /\ \A d \in Command :
               /\ run'[d].alone = run[d].alone /\ run'[d].erred = run[d].erred
               /\ run'[d].at = IF d \in {lockMeta} \cap Running THEN "killed" ELSE run[d].at
      BY <1>17, <2>4, ShootDoes
    <3>2. RunsOn
      BY <3>1 DEF RunsOn
    <3>3. x[2] # "check"
      BY <2>1, <2>4, Runs, Threads DEF ThreadsOf
    <3> QED BY <2>1, <3>1, <3>2, <3>3, HealQuiet
  <2> QED BY <1>17, <2>2, <2>3, <2>4 DEF StageLock
<1>18. ASSUME NEW x \in Thread, Relock(x) PROVE AloneHeals'
  <2>1. th[x].pc = "relock" /\ UNCHANGED <<bin, hist>>
    BY <1>18 DEF Relock, At
  <2>2. CASE Finish(x, TRUE)
    BY <2>1, <2>2, HealFinish
  <2>3. CASE Go(x, "meta") /\ UNCHANGED run
    <3>1. Still(x) /\ th'[x].pc = "meta" /\ RunsOn
      BY <2>3, GoDoes DEF RunsOn
    <3> QED BY <2>1, <3>1, HealQuiet
  <2> QED BY <1>18, <2>2, <2>3 DEF Relock
<1>19. ASSUME NEW x \in Thread, LockMeta(x) PROVE AloneHeals'
  <2>1. th[x].pc \in {"meta", "ameta"} /\ UNCHANGED <<bin, hist, run>>
    BY <1>19 DEF LockMeta, At
  <2>2. Still(x) /\ th'[x].pc \in {"stage", "load"}
    BY <1>19, GoDoes DEF LockMeta
  <2>3. RunsOn
    BY <2>1 DEF RunsOn
  <2> QED BY <2>1, <2>2, <2>3, HealQuiet
<1>20. ASSUME NEW x \in Thread, Download(x) PROVE AloneHeals'
  <2>1. th[x].pc = "stage" /\ UNCHANGED <<bin, hist>>
    BY <1>20 DEF Download, At
  <2>2. CASE Finish(x, TRUE)
    BY <2>1, <2>2, HealFinish
  <2>3. CASE (Takes(x, "unlock", pending) \/ Go(x, "save")) /\ UNCHANGED run
    <3>1. Still(x) /\ th'[x].pc \in {"unlock", "save"} /\ RunsOn
      BY <2>3, GoDoes, PendDoes DEF RunsOn
    <3> QED BY <2>1, <3>1, HealQuiet
  <2> QED BY <1>20, <2>2, <2>3 DEF Download, Takes
<1>21. ASSUME NEW x \in Thread, Save(x) PROVE AloneHeals'
  <2>1. th[x].pc = "save" /\ UNCHANGED <<bin, hist>>
    BY <1>21 DEF Save, At
  <2>2. CASE Go(x, "unlock") /\ UNCHANGED run
    <3>1. Still(x) /\ th'[x].pc = "unlock" /\ RunsOn
      BY <2>2, GoDoes DEF RunsOn
    <3> QED BY <2>1, <3>1, HealQuiet
  <2> QED BY <1>21, <2>2 DEF Save
<1>22. ASSUME NEW x \in Thread, Unlock(x) PROVE AloneHeals'
  <2>1. th[x].pc = "unlock" /\ UNCHANGED <<bin, hist>>
    BY <1>22 DEF Unlock, At
  <2>2. CASE Finish(x, FALSE)
    BY <2>1, <2>2, HealFinish
  <2>3. CASE Go(x, "check") /\ UNCHANGED run
    <3>1. Still(x) /\ th'[x].pc = "check" /\ RunsOn
      BY <2>3, GoDoes DEF RunsOn
    <3> QED BY <2>1, <3>1, HealQuiet
  <2> QED BY <1>22, <2>2, <2>3 DEF Unlock
<1>23. ASSUME NEW x \in Thread, Err(x) PROVE AloneHeals'
  <2>1. th[x].pc # "off" /\ UNCHANGED hist
    BY <1>23 DEF Err, Fallible
  <2>2. CASE Finish(x, TRUE)
    BY <2>1, <2>2, HealFinish
  <2>3. CASE run' = [run EXCEPT ![x[1]].erred = TRUE]
    <3>1. RunsOn /\ run'[x[1]].erred
      BY <2>3, Threads DEF RunsOn, UpdateTypeOK, RunState
    <3> QED BY <2>1, <3>1, HealMove
  <2> QED BY <1>23, <2>2, <2>3 DEF Err
<1>24. CASE UNCHANGED updateVars
  BY <1>24 DEF updateVars, AloneHeals, Undisturbed, Running, Heals, Synced
<1> QED
  BY <1>1, <1>2, <1>3, <1>4, <1>5, <1>6, <1>7, <1>8, <1>9, <1>10, <1>11, <1>12, <1>13, <1>14, <1>15, <1>16,
     <1>17, <1>18, <1>19, <1>20, <1>21, <1>22, <1>23, <1>24
  DEF UpdateNext

LEMMA HealStart == UpdateInit => AloneHeals
BY UpdateAssumption DEF UpdateInit, AloneHeals, Undisturbed, None

\* After a command that ran alone and met no error, lrc and git-lrc are the same size, whatever
\* the killed and failed commands before it left behind (ensureBinariesSynced).
THEOREM HealsOnTheNextCommand == UpdateSpec => []NextCommandHeals
<1>1. HealInv => NextCommandHeals
  <2> SUFFICES ASSUME HealInv, NEW c \in Command, c = hist.last, run[c].at = "done", run[c].alone, ~run[c].erred
               PROVE  Synced
    BY DEF NextCommandHeals, Synced
  <2>1. Heals(c)
    BY DEF HealInv, AloneHeals, Undisturbed
  <2>2. th[Main(c)].pc = "off"
    BY DEF HealInv, Flow, ThreadsOf
  <2> QED BY <2>1, <2>2 DEF Heals
<1>2. UpdateInit => HealInv
  BY FlowStart, HealStart DEF HealInv
<1>3. HealInv /\ [UpdateNext]_updateVars => HealInv'
  BY TypeStep, FlowStep, HealStep DEF HealInv
<1> QED BY <1>1, <1>2, <1>3, PTL DEF UpdateSpec

-----------------------------------------------------------------------------
(* In turn *)

LEMMA Nothing == NoUpdate.v = 0 /\ Absent.v = 0 /\ Absent.t = 0
BY DEF NoUpdate, Absent

\* While one command runs at a time, only its threads are on.
LEMMA Solo ==
  ASSUME Flow, OneAtATime, NEW x \in Thread, th[x].pc # "off", NEW y \in Thread, y[1] # x[1]
  PROVE  th[y].pc = "off"
BY Runs, Threads DEF OneAtATime, Running

\* Commands end but do not start.
Ends ==
  \A d \in Command : /\ run'[d].at = "running" => run[d].at = "running"
                     /\ run'[d].at = "no" => run[d].at = "no"

LEMMA FinishEnds ==
  ASSUME UpdateTypeOK, NEW x \in Thread, NEW erred \in BOOLEAN, Finish(x, erred)
  PROVE  /\ Ends /\ th'[x] = Off
         /\ \A y \in Thread \ {x} : th'[y] = th[y] \/ th'[y] = Off
BY FinishDoes DEF Ends

\* A step of one thread, whatever it writes.
LEMMA TurnMove ==
  ASSUME UpdateTypeOK, UpdateTypeOK', Flow, InTurn, NEW x \in Thread, th[x].pc # "off", Ends,
         \A y \in Thread \ {x} : th'[y] = th[y] \/ th'[y] = Off,
         now <= now', Lags', Recorded', Carries(x)', x = Main(x[1]) => MainCarries(x[1])',
         \A y \in Thread \ {x} :
           y[1] = x[1] /\ th'[y] = th[y] => Carries(y)' /\ (y = Main(x[1]) => MainCarries(x[1])')
  PROVE  InTurn'
<1>1. OneAtATime'
  BY DEF InTurn, OneAtATime, Running, Ends
<1>2. Off.file.t = 0 /\ now' \in Nat /\ now \in Nat
  BY OffIs, Nothing DEF UpdateTypeOK
<1>3. ASSUME NEW y \in Thread, th'[y] = Off PROVE Carries(y)'
  BY <1>2, <1>3, OffIs DEF Carries, Claims
<1>4. ASSUME NEW d \in Command, th'[Main(d)].pc = "off" PROVE MainCarries(d)'
  BY <1>4 DEF MainCarries, Apply, Installed
<1>5. ASSUME NEW y \in Thread PROVE Carries(y)'
  <2>1. CASE y[1] # x[1] /\ th'[y] = th[y]
    <3>1. th'[y].pc = "off" /\ th[y].file.t <= now
      BY <2>1, Solo DEF InTurn, Carries
    <3>2. th[y].file.t <= now'
      <4>1. th[y].file.t \in Nat
        BY Fields
      <4> QED BY <1>2, <3>1, <4>1
    <3> QED BY <2>1, <3>1, <3>2 DEF Carries, Claims
  <2> QED BY <1>3, <2>1
<1>6. ASSUME NEW d \in Command PROVE MainCarries(d)'
  <2>1. CASE d # x[1]
    <3>1. th[Main(d)].pc = "off"
      BY <2>1, Solo, Threads DEF InTurn
    <3>2. th'[Main(d)].pc = "off"
      BY <2>1, <3>1, Threads, OffIs
    <3> QED BY <1>4, <3>2
  <2>2. CASE d = x[1]
    BY <1>4, <2>2, Threads, OffIs
  <2> QED BY <2>1, <2>2
<1> QED BY <1>1, <1>5, <1>6 DEF InTurn

\* A step that leaves the files and the record alone.
LEMMA TurnQuiet ==
  ASSUME UpdateTypeOK, UpdateTypeOK', Flow, InTurn, NEW x \in Thread, th[x].pc # "off", Ends,
         \A y \in Thread \ {x} : th'[y] = th[y] \/ th'[y] = Off,
         UNCHANGED <<release, bin, staged, pending, now>>,
         Carries(x)', x = Main(x[1]) => MainCarries(x[1])',
         th'[x].pc \in Early \cup Staging => th[x].pc \in Early \cup Staging
  PROVE  InTurn'
<1>1. Lags' /\ now <= now'
  BY DEF InTurn, Lags, UpdateTypeOK
<1>2. Recorded'
  <2> SUFFICES ASSUME pending # NoUpdate
               PROVE  /\ run'[pending.of].at # "no"
                      /\ th'[Main(pending.of)].pc \notin Early \cup Staging
                      /\ th'[Check(pending.of)].pc \notin Staging
    BY DEF InTurn, Recorded
  <2> PICK p \in Command : p = pending.of
    BY Fields DEF UpdateTypeOK
  <2>1. /\ run[p].at # "no"
        /\ th[Main(p)].pc \notin Early \cup Staging
        /\ th[Check(p)].pc \notin Staging
    BY DEF InTurn, Recorded
  <2>2. th[Check(p)].pc \notin Early
    BY DEF Flow, ThreadsOf, Early, Staging, Claims
  <2>3. Off.pc \notin Early \cup Staging
    BY OffIs DEF Early, Staging, Claims
  <2> QED BY <2>1, <2>2, <2>3, Threads DEF Ends
<1>3. ASSUME NEW y \in Thread, th'[y] = th[y]
      PROVE  Carries(y)' /\ (y = Main(y[1]) => MainCarries(y[1])')
  BY <1>3, Threads DEF InTurn, Carries, MainCarries
<1> QED BY <1>1, <1>2, <1>3, TurnMove

LEMMA TurnFinish ==
  ASSUME UpdateTypeOK, UpdateTypeOK', Flow, InTurn, NEW x \in Thread, th[x].pc # "off",
         NEW erred \in BOOLEAN, Finish(x, erred), UNCHANGED <<release, bin, staged, pending, now>>
  PROVE  InTurn'
<1>1. /\ Ends /\ th'[x] = Off
      /\ \A y \in Thread \ {x} : th'[y] = th[y] \/ th'[y] = Off
  BY FinishEnds
<1>2. Carries(x)' /\ (x = Main(x[1]) => MainCarries(x[1])')
  BY <1>1, OffIs, Nothing DEF Carries, MainCarries, Claims, Apply, Installed, UpdateTypeOK
<1>3. th'[x].pc \notin Early \cup Staging
  BY <1>1, OffIs DEF Early, Staging, Claims
<1> QED BY <1>1, <1>2, <1>3, TurnQuiet

\* While a thread stages, the other thread of its command does nothing with the files.
LEMMA AloneAtStaging ==
  ASSUME UpdateTypeOK, Flow, NEW x \in Thread, th[x].pc \in {"stage", "save"}, NEW y \in Thread \ {x}, y[1] = x[1]
  PROVE  th[y].pc \notin Early \cup Claims \cup Apply \cup {"unlock", "fetch"}
<1> PICK c \in Command : c = x[1]
  BY Threads
<1>1. ThreadsOf(c) /\ lock = x /\ (NeedsLock(y) => lock = y)
  BY Runs DEF NeedsLock, Flow, LockIsHeld
<1>2. ~NeedsLock(y)
  BY <1>1
<1>3. CASE x = Main(c) /\ y = Check(c)
  BY <1>1, <1>3 DEF ThreadsOf, Early, Staging, Claims, Apply, Installed
<1>4. CASE x = Check(c) /\ y = Main(c)
  BY <1>1, <1>2, <1>4, Threads DEF ThreadsOf, NeedsLock, Early, Staging, Claims, Apply, Installed
<1> QED BY <1>3, <1>4, Threads

\* The record after a step that neither changes it nor the staged file it names.
LEMMA RecordStays ==
  ASSUME UpdateTypeOK, Flow, InTurn, NEW x \in Thread, Ends, UNCHANGED <<release, pending>>,
         \A y \in Thread \ {x} : th'[y] = th[y] \/ th'[y] = Off,
         th'[x].pc \in Early \cup Staging => th[x].pc \in Early \cup Staging,
         pending # NoUpdate => staged'[pending.of] = staged[pending.of] /\ bin'.lrc.v <= pending.v
  PROVE  Recorded'
<1> SUFFICES ASSUME pending # NoUpdate
             PROVE  /\ run'[pending.of].at # "no"
                    /\ th'[Main(pending.of)].pc \notin Early \cup Staging
                    /\ th'[Check(pending.of)].pc \notin Staging
  BY DEF InTurn, Recorded
<1> PICK p \in Command : p = pending.of
  BY Fields DEF UpdateTypeOK
<1>1. /\ run[p].at # "no"
      /\ th[Main(p)].pc \notin Early \cup Staging
      /\ th[Check(p)].pc \notin Staging
  BY DEF InTurn, Recorded
<1>2. th[Check(p)].pc \notin Early
  BY DEF Flow, ThreadsOf, Early, Staging, Claims
<1>3. Off.pc \notin Early \cup Staging
  BY OffIs DEF Early, Staging, Claims
<1> QED BY <1>1, <1>2, <1>3, Threads DEF Ends

\* A copy into the hands of a thread takes time.
LEMMA TurnCopy ==
  ASSUME UpdateTypeOK, UpdateTypeOK', Flow, InTurn, NEW x \in Thread, th[x].pc # "off", Still(x),
         UNCHANGED <<release, bin, staged, pending, run>>, now' = now + 1,
         Carries(x)', x = Main(x[1]) => MainCarries(x[1])',
         th'[x].pc \in Early \cup Staging => th[x].pc \in Early \cup Staging
  PROVE  InTurn'
<1>1. bin.git.t \in Nat /\ now \in Nat
  BY Fields DEF Side, UpdateTypeOK
<1>2. Lags' /\ now <= now' /\ Ends
  BY <1>1 DEF InTurn, Lags, Ends
<1>3. Recorded'
  BY <1>2, RecordStays DEF Still, InTurn, Recorded
<1>4. ASSUME NEW y \in Thread, th'[y] = th[y] PROVE Carries(y)' /\ (y = Main(y[1]) => MainCarries(y[1])')
  <2>1. Carries(y) /\ th[y].file.t \in Nat
    BY Fields DEF InTurn
  <2>2. Carries(y)'
    BY <1>1, <1>4, <2>1 DEF Carries
  <2> QED BY <1>4, <2>2, Threads DEF InTurn, MainCarries
<1> QED BY <1>2, <1>3, <1>4, TurnMove DEF Still

\* git-lrc becomes a copy of lrc.
LEMMA TurnSecond ==
  ASSUME UpdateTypeOK, UpdateTypeOK', Flow, InTurn, NEW x \in Thread, th[x].pc # "off", x = Main(x[1]), Ends,
         \A y \in Thread \ {x} : th'[y] = th[y] \/ th'[y] = Off,
         UNCHANGED <<release, staged, pending, now>>,
         bin' = [bin EXCEPT !.git = th[x].file], th[x].file.v = bin.lrc.v, th[x].file.t <= now,
         Carries(x)', MainCarries(x[1])',
         th'[x].pc \in Early \cup Staging => th[x].pc \in Early \cup Staging
  PROVE  InTurn'
<1>1. bin'.git = th[x].file /\ bin'.lrc = bin.lrc /\ bin.lrc.v \in Nat /\ now \in Nat
  BY Fields DEF UpdateTypeOK, Side
<1>2. Lags' /\ now <= now'
  BY <1>1 DEF InTurn, Lags
<1>3. Recorded'
  BY <1>1, RecordStays DEF InTurn, Recorded
<1>4. ASSUME NEW y \in Thread \ {x}, y[1] = x[1], th'[y] = th[y]
      PROVE  Carries(y)' /\ (y = Main(x[1]) => MainCarries(x[1])')
  <2>1. Carries(y)
    BY DEF InTurn
  <2> QED BY <1>1, <1>4, <2>1 DEF Carries
<1> QED BY <1>2, <1>3, <1>4, TurnMove

\* The record is cleared by a main thread that ends its command.
LEMMA TurnForget ==
  ASSUME UpdateTypeOK, UpdateTypeOK', Flow, InTurn, NEW x \in Thread, th[x].pc # "off", x = Main(x[1]),
         NEW erred \in BOOLEAN, Finish(x, erred), pending' = NoUpdate, UNCHANGED <<release, bin, staged, now>>
  PROVE  InTurn'
<1>1. /\ Ends /\ th'[x] = Off
      /\ \A y \in Thread \ {x} : th'[y] = th[y] \/ th'[y] = Off
  BY FinishEnds
<1>2. Carries(x)' /\ MainCarries(x[1])'
  BY <1>1, OffIs, Nothing DEF UpdateTypeOK, Carries, MainCarries, Early, Staging, Claims, Apply, Installed
<1>3. Lags' /\ Recorded' /\ now <= now'
  BY DEF InTurn, Lags, Recorded, UpdateTypeOK
<1>4. \A y \in Thread : y[1] = x[1] => th'[y] = Off
  BY FinishDoes, Threads DEF Main
<1>5. ASSUME NEW y \in Thread, th'[y] = Off PROVE Carries(y)'
  BY <1>5, OffIs, Nothing DEF UpdateTypeOK, Carries, Claims
<1> QED BY <1>1, <1>2, <1>3, <1>4, <1>5, TurnMove

\* A command writes, or removes, the file it stages.
LEMMA TurnStages ==
  ASSUME UpdateTypeOK, UpdateTypeOK', Flow, InTurn, NEW x \in Thread, th[x].pc \in Staging, Ends,
         \A y \in Thread \ {x} : th'[y] = th[y] \/ th'[y] = Off,
         UNCHANGED <<release, bin, pending, now>>,
         \A d \in Command \ {x[1]} : staged'[d] = staged[d],
         Carries(x)', x = Main(x[1]) => MainCarries(x[1])',
         th[x].pc \in {"stage", "save"}
  PROVE  InTurn'
<1>1. Lags' /\ now <= now'
  BY DEF InTurn, Lags, UpdateTypeOK
<1>2. pending # NoUpdate => pending.of \in Command /\ pending.of # x[1]
  BY Fields, Threads DEF UpdateTypeOK, InTurn, Recorded
<1>3. Recorded'
  BY <1>2, RecordStays DEF InTurn, Recorded
<1>4. ASSUME NEW y \in Thread \ {x}, y[1] = x[1], th'[y] = th[y]
      PROVE  Carries(y)' /\ (y = Main(x[1]) => MainCarries(x[1])')
  <2>1. th[y].pc # "save" /\ Carries(y)
    BY <1>4, AloneAtStaging DEF InTurn, Claims
  <2>2. Carries(y)'
    BY <1>4, <2>1 DEF Carries
  <2> QED BY <1>4, <2>2, Threads DEF InTurn, MainCarries
<1> QED BY <1>1, <1>3, <1>4, TurnMove DEF Staging, Claims

LEMMA TurnStep ==
  ASSUME UpdateTypeOK, Flow, InTurn, [UpdateNext]_updateVars, ~hist'.met
  PROVE  InTurn'
<1>0. UpdateTypeOK'
  BY TypeStep
<1> USE <1>0
<1>1. CASE Release
  <2>1. /\ release \in Nat /\ release' = release + 1
        /\ UNCHANGED <<bin, staged, pending, now, run, th>>
    BY <1>1 DEF Release, UpdateTypeOK
  <2>2. bin.lrc.v \in Nat /\ pending.v \in Nat
    BY Fields DEF Side, UpdateTypeOK
  <2>3. OneAtATime' /\ Lags' /\ Recorded'
    BY <2>1, <2>2 DEF InTurn, OneAtATime, Running, Lags, Recorded
  <2>4. ASSUME NEW x \in Thread PROVE Carries(x)'
    <3>1. Carries(x) /\ th[x].pend.v \in 0..MaxVersion
      BY Fields DEF InTurn
    <3> QED BY <2>1, <3>1, UpdateAssumption DEF Carries
  <2>5. ASSUME NEW c \in Command PROVE MainCarries(c)'
    BY <2>1 DEF InTurn, MainCarries
  <2> QED BY <2>3, <2>4, <2>5 DEF InTurn
<1>2. ASSUME NEW c \in Command, Start(c) PROVE InTurn'
  <2>1. /\ run[c].at = "no" /\ Still(Main(c)) /\ th'[Main(c)].file = th[Main(c)].file
        /\ \E close \in BOOLEAN :
              IF Stale(close) = None THEN th'[Main(c)].pc = "run" /\ th'[Main(c)].dst = "lrc"
              ELSE th'[Main(c)].pc = "heal" /\ th'[Main(c)].dst = Stale(close)
        /\ run'[c].at = "running" /\ \A d \in Command \ {c} : run'[d].at = run[d].at
    BY <1>2, StartDoes
  <2>2. UNCHANGED <<release, bin, staged, pending, now>> /\ Running = {}
    BY <1>2 DEF Start, UpdateTypeOK
  <2>3. \A y \in Thread : th[y].pc = "off"
    BY <2>2, Threads DEF Flow, ThreadsOf, Running
  <2>4. th'[Main(c)].pc = "run" \/ (th'[Main(c)].pc = "heal" /\ th'[Main(c)].dst = "git")
    <3>1. \A close \in BOOLEAN : Stale(close) # "lrc"
      <4>1. bin.lrc.v \in Nat /\ bin.git.v \in Nat /\ bin.lrc.t \in Nat /\ bin.git.t \in Nat
        BY Fields DEF Side
      <4> QED BY <4>1 DEF InTurn, Lags, Stale, None
    <3>2. \A close \in BOOLEAN : Stale(close) \in {None, "lrc", "git"}
      BY DEF Stale
    <3> QED BY <2>1, <3>1, <3>2
  <2>5. OneAtATime'
    BY <2>1, <2>2 DEF OneAtATime, Running
  <2>6. Lags'
    BY <2>2 DEF InTurn, Lags
  <2>7. Recorded'
    <3> SUFFICES ASSUME pending # NoUpdate
                 PROVE  /\ run'[pending.of].at # "no"
                        /\ th'[Main(pending.of)].pc \notin Early \cup Staging
                        /\ th'[Check(pending.of)].pc \notin Staging
      BY <2>2 DEF InTurn, Recorded
    <3> PICK p \in Command : p = pending.of
      BY Fields DEF UpdateTypeOK
    <3>1. run[p].at # "no"
      BY DEF InTurn, Recorded
    <3>2. p # c /\ Main(p) # Main(c) /\ Check(p) # Main(c)
      BY <2>1, <3>1 DEF Main, Check
    <3> QED BY <2>1, <2>3, <3>1, <3>2, Threads DEF Still, Early, Staging, Claims
  <2>8. ASSUME NEW y \in Thread PROVE Carries(y)'
    <3>1. Carries(y)
      BY DEF InTurn
    <3>2. CASE y = Main(c)
      BY <2>1, <2>2, <2>4, <3>1, <3>2 DEF Carries, Claims
    <3>3. CASE y # Main(c)
      BY <2>1, <2>2, <3>1, <3>3 DEF Still, Carries
    <3> QED BY <3>2, <3>3
  <2>9. ASSUME NEW d \in Command PROVE MainCarries(d)'
    <3>1. CASE d = c
      BY <2>4, <3>1 DEF MainCarries, Apply, Installed
    <3>2. CASE d # c
      <4>1. th'[Main(d)].pc = "off"
        BY <2>1, <2>3, <3>2, Threads DEF Still
      <4> QED BY <4>1 DEF MainCarries, Apply, Installed
    <3> QED BY <3>1, <3>2
  <2> QED BY <2>5, <2>6, <2>7, <2>8, <2>9 DEF InTurn
<1>3. ASSUME NEW c \in Command, HealCopy(c) PROVE InTurn'
  <2>1. PICK x \in Thread : x = Main(c)
    BY Threads
  <2>2. x[1] = c /\ th[x].pc = "heal" /\ UNCHANGED <<release, bin, staged, pending, run>>
    BY <1>3, <2>1, Threads DEF HealCopy, At
  <2>3. Carries(x) /\ MainCarries(c)
    BY DEF InTurn
  <2>4. th[x].dst = "git" /\ bin.lrc \in File
    BY <2>1, <2>2, <2>3, Fields DEF MainCarries, Side
  <2>5. /\ Still(x) /\ th'[x].pc = "healed" /\ th'[x].dst = "git"
        /\ th'[x].file.v = bin.lrc.v /\ th'[x].file.t = now + 1 /\ now' = now + 1
    BY <1>3, <2>1, <2>2, <2>4, CopyDoes DEF HealCopy, Copied, Other
  <2>6. Carries(x)' /\ MainCarries(c)'
    BY <2>1, <2>2, <2>5 DEF UpdateTypeOK, Carries, MainCarries, Early, Staging, Claims, Apply, Installed
  <2> QED BY <2>1, <2>2, <2>5, <2>6, TurnCopy DEF Early, Staging, Claims
<1>4. ASSUME NEW c \in Command, HealRename(c) PROVE InTurn'
  <2>1. PICK x \in Thread : x = Main(c)
    BY Threads
  <2>2. x[1] = c /\ th[x].pc = "healed" /\ UNCHANGED <<release, staged, pending, run, now>>
    BY <1>4, <2>1, Threads DEF HealRename, At
  <2>3. Carries(x) /\ MainCarries(c)
    BY DEF InTurn
  <2>4. th[x].dst = "git" /\ th[x].file.v = bin.lrc.v /\ th[x].file.t <= now
    BY <2>1, <2>2, <2>3 DEF Carries, MainCarries
  <2>5. /\ Still(x) /\ th'[x].pc = "run" /\ th'[x].file = Absent
        /\ bin' = [bin EXCEPT !.git = th[x].file]
    BY <1>4, <2>1, <2>4, DropDoes DEF HealRename
  <2>6. Carries(x)' /\ MainCarries(c)'
    BY <2>1, <2>5, Nothing DEF UpdateTypeOK, Carries, MainCarries, Early, Staging, Claims, Apply, Installed
  <2> QED BY <2>1, <2>2, <2>4, <2>5, <2>6, TurnSecond DEF Ends, Still, Early, Staging, Claims
<1>5. ASSUME NEW c \in Command, Work(c) PROVE InTurn'
  <2>1. PICK x \in Thread : x = Main(c)
    BY Threads
  <2>2. x[1] = c /\ th[x].pc = "run" /\ UNCHANGED <<release, bin, staged, pending, now>>
    BY <1>5, <2>1, Threads DEF Work, At
  <2>3. Carries(x) /\ MainCarries(c)
    BY DEF InTurn
  <2>4. CASE Finish(x, FALSE)
    BY <2>2, <2>4, TurnFinish
  <2>5. CASE Go(x, "fetch") /\ UNCHANGED run
    <3>1. Still(x) /\ th'[x].pc = "fetch" /\ th'[x].file = th[x].file /\ th'[x].pend = th[x].pend
      BY <2>5, GoDoes
    <3>2. Carries(x)' /\ (x = Main(c) => MainCarries(c)')
      BY <2>1, <2>2, <2>3, <2>5, <3>1 DEF Carries, MainCarries, Early, Staging, Claims, Apply, Installed
    <3> QED BY <2>1, <2>2, <2>5, <3>1, <3>2, TurnQuiet DEF Still, Ends, Early, Staging, Claims
  <2>6. CASE th' = [th EXCEPT ![x].pc = "exit", ![<<c, "check">>].pc = "fetch"] /\ UNCHANGED run
    <3>1. /\ \A y \in Thread \ {x, Check(c)} : th'[y] = th[y]
          /\ th'[x].pc = "exit" /\ th'[Check(c)].pc = "fetch"
          /\ th'[x].file = th[x].file /\ th'[Check(c)].file = th[Check(c)].file
      BY <2>1, <2>6, ReviewStarts
    <3>2. ASSUME pending # NoUpdate PROVE Recorded'
      <4> PICK p \in Command : p = pending.of
        BY <3>2, Fields DEF UpdateTypeOK
      <4>1. /\ th[Main(p)].pc \notin Early \cup Staging
            /\ th[Check(p)].pc \notin Staging
        BY <3>2 DEF InTurn, Recorded
      <4>2. p # c
        BY <2>1, <2>2, <4>1 DEF Early
      <4>3. th'[Main(p)] = th[Main(p)] /\ th'[Check(p)] = th[Check(p)]
        BY <2>1, <3>1, <4>2, Threads
      <4> QED BY <2>2, <2>6, <4>1, <4>3 DEF InTurn, Recorded
    <3>3. Recorded'
      BY <2>2, <3>2 DEF Recorded
    <3>4. ASSUME NEW y \in Thread PROVE Carries(y)'
      <4>1. Carries(y)
        BY DEF InTurn
      <4>2. CASE y \in {x, Check(c)}
        BY <2>2, <3>1, <4>1, <4>2 DEF Carries, Claims
      <4>3. CASE y \notin {x, Check(c)}
        BY <2>2, <3>1, <4>1, <4>3 DEF Carries
      <4> QED BY <4>2, <4>3
    <3>5. ASSUME NEW d \in Command PROVE MainCarries(d)'
      <4>1. MainCarries(d)
        BY DEF InTurn
      <4>2. CASE d = c
        BY <2>1, <3>1, <4>2 DEF MainCarries, Apply, Installed
      <4>3. CASE d # c
        <5>1. th'[Main(d)] = th[Main(d)]
          BY <2>1, <3>1, <4>3, Threads
        <5> QED BY <2>2, <4>1, <5>1 DEF MainCarries
      <4> QED BY <4>2, <4>3
    <3> QED BY <2>2, <2>6, <3>3, <3>4, <3>5 DEF InTurn, OneAtATime, Running, Lags
  <2> QED BY <1>5, <2>1, <2>3, <2>4, <2>5, <2>6 DEF Work
<1>6. ASSUME NEW c \in Command, ApplyLock(c) PROVE InTurn'
  <2>1. PICK x \in Thread : x = Main(c)
    BY Threads
  <2>2. x[1] = c /\ th[x].pc = "exit" /\ UNCHANGED <<release, bin, staged, pending, now>>
    BY <1>6, <2>1, Threads DEF ApplyLock, At
  <2>3. Carries(x) /\ MainCarries(c)
    BY DEF InTurn
  <2>4. CASE Finish(x, FALSE)
    BY <2>2, <2>4, TurnFinish
  <2>5. CASE Go(x, "ameta") /\ UNCHANGED run
    <3>1. Still(x) /\ th'[x].pc = "ameta" /\ th'[x].file = th[x].file /\ th'[x].pend = th[x].pend
      BY <2>5, GoDoes
    <3>2. Carries(x)' /\ (x = Main(c) => MainCarries(c)')
      BY <2>1, <2>2, <2>3, <2>5, <3>1 DEF Carries, MainCarries, Early, Staging, Claims, Apply, Installed
    <3> QED BY <2>1, <2>2, <2>5, <3>1, <3>2, TurnQuiet DEF Still, Ends, Early, Staging, Claims
  <2> QED BY <1>6, <2>1, <2>4, <2>5 DEF ApplyLock
<1>7. ASSUME NEW c \in Command, Load(c) PROVE InTurn'
  <2>1. PICK x \in Thread : x = Main(c)
    BY Threads
  <2>2. x[1] = c /\ th[x].pc = "load" /\ UNCHANGED <<release, bin, staged, pending, now>>
    BY <1>7, <2>1, Threads DEF Load, At
  <2>3. Carries(x) /\ MainCarries(c)
    BY DEF InTurn
  <2>4. CASE Finish(x, FALSE)
    BY <2>2, <2>4, TurnFinish
  <2>5. CASE Takes(x, "check", pending) /\ pending # NoUpdate /\ UNCHANGED run
    <3>1. Still(x) /\ th'[x].pc = "check" /\ th'[x].file = th[x].file /\ th'[x].pend = pending
      BY <2>5, PendDoes
    <3>2. Carries(x)' /\ (x = Main(c) => MainCarries(c)')
      BY <2>1, <2>2, <2>3, <2>5, <3>1 DEF Carries, MainCarries, Early, Staging, Claims, Apply, Installed
    <3> QED BY <2>1, <2>2, <2>5, <3>1, <3>2, TurnQuiet DEF Still, Ends, Early, Staging, Claims
  <2> QED BY <1>7, <2>1, <2>4, <2>5 DEF Load, Takes
<1>8. ASSUME NEW c \in Command, CheckStaged(c) PROVE InTurn'
  <2>1. PICK x \in Thread : x = Main(c)
    BY Threads
  <2>2. x[1] = c /\ th[x].pc = "check" /\ UNCHANGED <<release, bin, staged, now>>
    BY <1>8, <2>1, Threads DEF CheckStaged, At
  <2>3. Carries(x) /\ MainCarries(c)
    BY DEF InTurn
  <2>4. CASE Go(x, "apply") /\ UNCHANGED <<pending, run>>
    <3>1. Still(x) /\ th'[x].pc = "apply" /\ th'[x].file = th[x].file /\ th'[x].pend = th[x].pend
      BY <2>4, GoDoes
    <3>2. Carries(x)' /\ (x = Main(c) => MainCarries(c)')
      BY <2>1, <2>2, <2>3, <2>4, <3>1 DEF Carries, MainCarries, Early, Staging, Claims, Apply, Installed
    <3> QED BY <2>1, <2>2, <2>4, <3>1, <3>2, TurnQuiet DEF Still, Ends, Early, Staging, Claims
  <2>5. CASE pending' = NoUpdate /\ Finish(x, TRUE)
    BY <2>1, <2>2, <2>5, TurnForget
  <2> QED BY <1>8, <2>1, <2>4, <2>5 DEF CheckStaged
<1>9. ASSUME NEW c \in Command, ApplyCopy(c) PROVE InTurn'
  <2>1. PICK x \in Thread : x = Main(c)
    BY Threads
  <2>2. x[1] = c /\ th[x].pc = "apply" /\ UNCHANGED <<release, bin, staged, pending>>
    BY <1>9, <2>1, Threads DEF ApplyCopy, At
  <2>3. Carries(x) /\ MainCarries(c)
    BY DEF InTurn
  <2>4. CASE Finish(x, TRUE) /\ UNCHANGED now
    BY <2>2, <2>4, TurnFinish
  <2>5. CASE staged[th[x].pend.of].v # 0 /\ Copied(x, staged[th[x].pend.of]) /\ UNCHANGED run
    <3>1. th[x].pend = pending /\ pending # NoUpdate
      BY <2>1, <2>2, <2>3 DEF MainCarries, Apply
    <3>2. staged[pending.of] \in File /\ staged[pending.of].v = pending.v
      BY <2>5, <3>1, Fields DEF UpdateTypeOK, InTurn, Recorded
    <3>3. /\ Still(x) /\ th'[x].pc = "applied" /\ th'[x].pend = pending
          /\ th'[x].file.v = pending.v /\ th'[x].file.t = now + 1 /\ now' = now + 1
      BY <2>2, <2>5, <3>1, <3>2, CopyDoes DEF Copied
    <3>4. bin.git.t <= now /\ bin.git.t \in Nat
      BY Fields DEF InTurn, Lags, Side
    <3>5. Carries(x)' /\ MainCarries(c)'
      BY <2>1, <2>2, <3>1, <3>3, <3>4
         DEF UpdateTypeOK, Carries, MainCarries, Early, Staging, Claims, Apply, Installed
    <3> QED BY <2>1, <2>2, <2>5, <3>3, <3>5, TurnCopy DEF Early, Staging, Claims
  <2> QED BY <1>9, <2>1, <2>4, <2>5 DEF ApplyCopy
<1>10. ASSUME NEW c \in Command, ApplyRename(c) PROVE InTurn'
  <2>1. PICK x \in Thread : x = Main(c)
    BY Threads
  <2>2. x[1] = c /\ th[x].pc = "applied" /\ UNCHANGED <<release, staged, pending, run, now>>
    BY <1>10, <2>1, Threads DEF ApplyRename, At
  <2>3. Carries(x) /\ MainCarries(c)
    BY DEF InTurn
  <2>4. /\ th[x].pend = pending /\ pending # NoUpdate
        /\ th[x].file.v = pending.v /\ bin.git.t < th[x].file.t /\ th[x].file.t <= now
    BY <2>1, <2>2, <2>3 DEF MainCarries, Carries, Apply
  <2>5. /\ Still(x) /\ th'[x].pc = "sync" /\ th'[x].file = Absent /\ th'[x].pend = pending
        /\ bin' = [bin EXCEPT !.lrc = th[x].file]
    BY <1>10, <2>1, <2>4, DropDoes DEF ApplyRename
  <2>6. bin'.lrc = th[x].file /\ bin'.git = bin.git
    BY <2>5 DEF UpdateTypeOK, Side
  <2>7. bin.lrc.v <= pending.v /\ pending.v <= release /\ pending.v \in 1..MaxVersion
    BY <2>4, Fields DEF UpdateTypeOK, InTurn, Recorded
  <2>8. bin.lrc.v \in Nat /\ bin.git.v \in Nat /\ bin.git.t \in Nat /\ th[x].file.t \in Nat
    BY Fields DEF Side
  <2>9. Carries(x)' /\ MainCarries(c)'
    BY <2>1, <2>2, <2>4, <2>5, <2>6, Nothing
       DEF UpdateTypeOK, Carries, MainCarries, Early, Staging, Claims, Apply, Installed
  <2>10. Lags'
    <3>1. 0 < bin.lrc.v /\ bin.git.v <= bin.lrc.v /\ bin.git.t <= now
      BY DEF InTurn, Lags
    <3>2. 0 < pending.v /\ bin.git.v <= pending.v
      BY <2>7, <2>8, <3>1, UpdateAssumption
    <3>3. bin'.lrc.v = pending.v /\ bin'.lrc.t = th[x].file.t
      BY <2>4, <2>6
    <3> QED BY <2>2, <2>4, <2>6, <2>7, <3>1, <3>2, <3>3 DEF Lags
  <2>11. Recorded'
    <3> PICK p \in Command : p = pending.of
      BY <2>4, Fields DEF UpdateTypeOK
    <3>1. Main(p) = x \/ th'[Main(p)] = th[Main(p)]
      BY <2>5, Threads DEF Still
    <3>2. th'[Check(p)] = th[Check(p)]
      BY <2>1, <2>5, Threads, Twins DEF Still, Main, Check
    <3> QED BY <2>1, <2>2, <2>4, <2>5, <2>6, <2>7, <3>1, <3>2 DEF InTurn, Recorded, Early, Staging, Claims
  <2>12. ASSUME NEW y \in Thread, y # x, y[1] = c, th'[y] = th[y] PROVE Carries(y)' /\ y # Main(c)
    <3>1. Carries(y) /\ th[y].pend.v \in 0..MaxVersion
      BY Fields DEF InTurn
    <3> QED BY <2>1, <2>2, <2>4, <2>6, <2>7, <2>12, <3>1, UpdateAssumption DEF Carries
  <2>13. Ends /\ now <= now'
    BY <2>2 DEF Ends, UpdateTypeOK
  <2> QED BY <2>1, <2>2, <2>5, <2>9, <2>10, <2>11, <2>12, <2>13, TurnMove DEF Still
<1>11. ASSUME NEW c \in Command, SyncCopy(c) PROVE InTurn'
  <2>1. PICK x \in Thread : x = Main(c)
    BY Threads
  <2>2. x[1] = c /\ th[x].pc = "sync" /\ UNCHANGED <<release, bin, staged, pending, run>>
    BY <1>11, <2>1, Threads DEF SyncCopy, At
  <2>3. Carries(x) /\ MainCarries(c)
    BY DEF InTurn
  <2>4. bin.lrc \in File
    BY Fields DEF Side
  <2>5. /\ Still(x) /\ th'[x].pc = "synced" /\ th'[x].pend = th[x].pend
        /\ th'[x].file.v = bin.lrc.v /\ th'[x].file.t = now + 1 /\ now' = now + 1
    BY <1>11, <2>1, <2>2, <2>4, CopyDoes DEF SyncCopy, Copied
  <2>6. Carries(x)' /\ MainCarries(c)'
    BY <2>1, <2>2, <2>3, <2>5 DEF UpdateTypeOK, Carries, MainCarries, Early, Staging, Claims, Apply, Installed
  <2> QED BY <2>1, <2>2, <2>5, <2>6, TurnCopy DEF Early, Staging, Claims
<1>12. ASSUME NEW c \in Command, SyncRename(c) PROVE InTurn'
  <2>1. PICK x \in Thread : x = Main(c)
    BY Threads
  <2>2. x[1] = c /\ th[x].pc = "synced" /\ UNCHANGED <<release, staged, pending, now>>
    BY <1>12, <2>1, Threads DEF SyncRename, At
  <2>3. Carries(x) /\ MainCarries(c)
    BY DEF InTurn
  <2>4. th[x].file.v = bin.lrc.v /\ th[x].file.t <= now /\ bin' = [bin EXCEPT !.git = th[x].file]
    BY <1>12, <2>1, <2>2, <2>3 DEF SyncRename, Carries, MainCarries
  <2>5. CASE Drop(x, "hooks") /\ UNCHANGED run
    <3>1. /\ Still(x) /\ th'[x].pc = "hooks" /\ th'[x].file = Absent /\ th'[x].pend = th[x].pend
      BY <2>5, DropDoes
    <3>2. bin'.lrc = bin.lrc
      BY <2>4 DEF UpdateTypeOK, Side
    <3>3. Carries(x)' /\ MainCarries(c)'
      BY <2>1, <2>2, <2>3, <3>1, <3>2, Nothing
         DEF UpdateTypeOK, Carries, MainCarries, Early, Staging, Claims, Apply, Installed
    <3> QED BY <2>1, <2>2, <2>4, <2>5, <3>1, <3>3, TurnSecond DEF Ends, Still, Early, Staging, Claims
  <2>6. CASE Finish(x, TRUE)
    <3>1. /\ Ends /\ th'[x] = Off
          /\ \A y \in Thread \ {x} : th'[y] = th[y] \/ th'[y] = Off
      BY <2>6, FinishEnds
    <3>2. Carries(x)' /\ MainCarries(c)'
      BY <2>1, <3>1, OffIs, Nothing
         DEF UpdateTypeOK, Carries, MainCarries, Early, Staging, Claims, Apply, Installed
    <3> QED BY <2>1, <2>2, <2>4, <3>1, <3>2, OffIs, TurnSecond DEF Early, Staging, Claims
  <2> QED BY <1>12, <2>1, <2>5, <2>6 DEF SyncRename
<1>13. ASSUME NEW c \in Command, HooksInstall(c) PROVE InTurn'
  <2>1. PICK x \in Thread : x = Main(c)
    BY Threads
  <2>2. x[1] = c /\ th[x].pc = "hooks" /\ UNCHANGED <<release, bin, pending, run, now>>
    BY <1>13, <2>1, Threads DEF HooksInstall, At
  <2>3. Carries(x) /\ MainCarries(c)
    BY DEF InTurn
  <2>4. th[x].pend = pending /\ pending # NoUpdate /\ staged' = [staged EXCEPT ![pending.of] = Absent]
    BY <1>13, <2>1, <2>2, <2>3 DEF HooksInstall, MainCarries, Apply, Installed
  <2>5. Still(x) /\ th'[x].pc = "clear" /\ th'[x].file = th[x].file /\ th'[x].pend = th[x].pend
    BY <1>13, <2>1, GoDoes DEF HooksInstall
  <2>6. Carries(x)' /\ MainCarries(c)'
    BY <2>1, <2>2, <2>3, <2>5 DEF Carries, MainCarries, Early, Staging, Claims, Apply, Installed
  <2> PICK p \in Command : p = pending.of
    BY <2>4, Fields DEF UpdateTypeOK
  <2>7. \A d \in Command : staged'[d] = IF d = p THEN Absent ELSE staged[d]
    BY <2>4 DEF UpdateTypeOK
  <2>8. /\ th[Main(p)].pc \notin Early \cup Staging
        /\ th[Check(p)].pc \notin Staging
    BY <2>4 DEF InTurn, Recorded
  <2>9. Lags' /\ Ends /\ now <= now'
    BY <2>2 DEF InTurn, Lags, Ends, UpdateTypeOK
  <2>10. Recorded'
    <3>1. Main(p) = x \/ th'[Main(p)] = th[Main(p)]
      BY <2>5, Threads DEF Still
    <3>2. th'[Check(p)] = th[Check(p)]
      BY <2>1, <2>5, Threads, Twins DEF Still, Main, Check
    <3> QED BY <2>2, <2>4, <2>5, <2>7, <2>8, <3>1, <3>2, Nothing DEF InTurn, Recorded, Early, Staging, Claims
  <2>11. ASSUME NEW y \in Thread, y # x, y[1] = c, th'[y] = th[y] PROVE Carries(y)' /\ y # Main(c)
    <3>1. Carries(y) /\ (y = Main(y[1]) \/ y = Check(y[1])) /\ y[1] \in Command
      BY Threads DEF InTurn
    <3>2. th[y].pc = "save" => y[1] # p
      BY <2>8, <3>1 DEF Staging, Claims
    <3> QED BY <2>1, <2>2, <2>7, <2>11, <3>1, <3>2 DEF Carries
  <2> QED BY <2>1, <2>2, <2>5, <2>6, <2>9, <2>10, <2>11, TurnMove DEF Still
<1>14. ASSUME NEW c \in Command, Clear(c) PROVE InTurn'
  <2>1. PICK x \in Thread : x = Main(c)
    BY Threads
  <2>2. x[1] = c /\ th[x].pc = "clear" /\ UNCHANGED <<release, bin, staged, now>>
    BY <1>14, <2>1, Threads DEF Clear, At
  <2>3. Carries(x) /\ MainCarries(c)
    BY DEF InTurn
  <2> QED BY <1>14, <2>1, <2>2, TurnForget DEF Clear
<1>15. ASSUME NEW c \in Command, Die(c) PROVE InTurn'
  <2>1. /\ c \in Running
        /\ \A y \in Thread : th'[y] = IF y[1] = c THEN Off ELSE th[y]
        /\ \A d \in Command : run'[d].at = IF c = d THEN "killed" ELSE run[d].at
    BY <1>15, DieDoes
  <2>2. UNCHANGED <<release, bin, staged, pending, now>>
    BY <1>15 DEF Die
  <2>3. ASSUME NEW d \in Command
        PROVE  /\ th'[Main(d)] \in {Off, th[Main(d)]} /\ th'[Check(d)] \in {Off, th[Check(d)]}
               /\ run'[d].at = "running" => run[d].at = "running"
               /\ run'[d].at = "no" => run[d].at = "no"
    BY <2>1, Threads DEF Running
  <2>4. ASSUME pending # NoUpdate PROVE Recorded'
    <3> PICK p \in Command : p = pending.of
      BY <2>4, Fields DEF UpdateTypeOK
    <3> QED BY <2>2, <2>3, <2>4, OffIs DEF InTurn, Recorded, Early, Staging, Claims
  <2>5. Recorded'
    BY <2>2, <2>4 DEF Recorded
  <2>6. ASSUME NEW y \in Thread PROVE Carries(y)'
    BY <2>1, <2>2, OffIs, Nothing DEF InTurn, Carries, Claims, UpdateTypeOK
  <2>7. ASSUME NEW d \in Command PROVE MainCarries(d)'
    <3>1. MainCarries(d)
      BY DEF InTurn
    <3> QED BY <2>2, <2>3, <3>1, OffIs DEF MainCarries, Apply, Installed
  <2> QED BY <2>2, <2>3, <2>5, <2>6, <2>7 DEF InTurn, OneAtATime, Running, Lags
<1>16. ASSUME NEW x \in Thread, Fetch(x) PROVE InTurn'
  <2>1. PICK c \in Command : x[1] = c /\ (x = Main(c) \/ x = Check(c))
    BY Threads
  <2>2. th[x].pc = "fetch" /\ UNCHANGED <<release, bin, staged, pending, now>>
    BY <1>16 DEF Fetch, At
  <2>3. Carries(x) /\ MainCarries(c)
    BY DEF InTurn
  <2>4. CASE Finish(x, FALSE)
    BY <2>2, <2>4, TurnFinish
  <2>5. CASE Takes(x, "lock", [v |-> release, of |-> x[1]]) /\ UNCHANGED run
    <3>1. Still(x) /\ th'[x].pc = "lock" /\ th'[x].file = th[x].file /\ th'[x].pend = [v |-> release, of |-> x[1]]
      BY <2>5, PendDoes
    <3>2. th'[x].pend # NoUpdate /\ th'[x].pend.v = release /\ th'[x].pend.of = x[1]
      BY <3>1 DEF UpdateTypeOK, NoUpdate
    <3>3. bin.lrc.v <= release /\ pending.v <= release
      BY Nothing DEF InTurn, Lags, Recorded, UpdateTypeOK
    <3>4. Carries(x)' /\ (x = Main(c) => MainCarries(c)')
      BY <2>1, <2>2, <2>3, <3>1, <3>2, <3>3
         DEF UpdateTypeOK, Carries, MainCarries, Early, Staging, Claims, Apply, Installed
    <3> QED BY <2>1, <2>2, <2>5, <3>1, <3>4, TurnQuiet DEF Still, Ends, Early, Staging, Claims
  <2> QED BY <1>16, <2>1, <2>4, <2>5 DEF Fetch, Takes
<1>17. ASSUME NEW x \in Thread, StageLock(x) PROVE InTurn'
  <2>1. PICK c \in Command : x[1] = c /\ (x = Main(c) \/ x = Check(c))
    BY Threads
  <2>2. th[x].pc = "lock" /\ UNCHANGED <<release, bin, staged, pending, now>>
    BY <1>17 DEF StageLock, At
  <2>3. Carries(x) /\ MainCarries(c)
    BY DEF InTurn
  <2>4. CASE \E erred \in BOOLEAN : Finish(x, erred)
    BY <2>2, <2>4, TurnFinish
  <2>5. CASE Go(x, "meta") /\ UNCHANGED run
    <3>1. Still(x) /\ th'[x].pc = "meta" /\ th'[x].file = th[x].file /\ th'[x].pend = th[x].pend
      BY <2>5, GoDoes
    <3>2. Carries(x)' /\ (x = Main(c) => MainCarries(c)')
      BY <2>1, <2>2, <2>3, <2>5, <3>1 DEF Carries, MainCarries, Early, Staging, Claims, Apply, Installed
    <3> QED BY <2>1, <2>2, <2>5, <3>1, <3>2, TurnQuiet DEF Still, Ends, Early, Staging, Claims
  <2>6. CASE lock # Unlocked /\ run[x[1]].kind = "force" /\ lockMeta # None
    <3>1. /\ \A y \in Thread \ {x} : th'[y] \in {th[y], Off}
          /\ th'[x].pc = "relock" /\ th'[x].file = th[x].file /\ th'[x].pend = th[x].pend
          /\ \A d \in Command : run'[d].at = run[d].at \/ (run[d].at = "running" /\ run'[d].at = "killed")
      BY <1>17, <2>6, ShootDoes DEF Running
    <3>2. Carries(x)' /\ (x = Main(c) => MainCarries(c)')
      BY <2>1, <2>2, <2>3, <3>1 DEF Carries, MainCarries, Early, Staging, Claims, Apply, Installed
    <3>3. Ends
      BY <3>1 DEF Ends
    <3> QED BY <2>1, <2>2, <3>1, <3>2, <3>3, TurnQuiet DEF Early, Staging, Claims
  <2> QED BY <1>17, <2>1, <2>4, <2>5, <2>6 DEF StageLock
<1>18. ASSUME NEW x \in Thread, Relock(x) PROVE InTurn'
  <2>1. PICK c \in Command : x[1] = c /\ (x = Main(c) \/ x = Check(c))
    BY Threads
  <2>2. th[x].pc = "relock" /\ UNCHANGED <<release, bin, staged, pending, now>>
    BY <1>18 DEF Relock, At
  <2>3. Carries(x) /\ MainCarries(c)
    BY DEF InTurn
  <2>4. CASE Finish(x, TRUE)
    BY <2>2, <2>4, TurnFinish
  <2>5. CASE Go(x, "meta") /\ UNCHANGED run
    <3>1. Still(x) /\ th'[x].pc = "meta" /\ th'[x].file = th[x].file /\ th'[x].pend = th[x].pend
      BY <2>5, GoDoes
    <3>2. Carries(x)' /\ (x = Main(c) => MainCarries(c)')
      BY <2>1, <2>2, <2>3, <2>5, <3>1 DEF Carries, MainCarries, Early, Staging, Claims, Apply, Installed
    <3> QED BY <2>1, <2>2, <2>5, <3>1, <3>2, TurnQuiet DEF Still, Ends, Early, Staging, Claims
  <2> QED BY <1>18, <2>1, <2>4, <2>5 DEF Relock
<1>19. ASSUME NEW x \in Thread, LockMeta(x) PROVE InTurn'
  <2>1. PICK c \in Command : x[1] = c /\ (x = Main(c) \/ x = Check(c))
    BY Threads
  <2>2. th[x].pc \in {"meta", "ameta"} /\ UNCHANGED <<release, bin, staged, pending, now, run>>
    BY <1>19 DEF LockMeta, At
  <2>3. Carries(x) /\ MainCarries(c)
    BY DEF InTurn
  <2>4. /\ Still(x) /\ th'[x].pc = IF th[x].pc = "meta" THEN "stage" ELSE "load"
        /\ th'[x].file = th[x].file /\ th'[x].pend = th[x].pend
    BY <1>19, GoDoes DEF LockMeta, At
  <2>5. Carries(x)' /\ (x = Main(c) => MainCarries(c)')
    BY <2>1, <2>2, <2>3, <2>4 DEF Carries, MainCarries, Early, Staging, Claims, Apply, Installed
  <2> QED BY <2>1, <2>2, <2>4, <2>5, TurnQuiet DEF Still, Ends, Early, Staging, Claims
<1>20. ASSUME NEW x \in Thread, Download(x) PROVE InTurn'
  <2>1. PICK c \in Command : x[1] = c /\ (x = Main(c) \/ x = Check(c))
    BY Threads
  <2>2. th[x].pc = "stage" /\ UNCHANGED <<release, bin, pending, now>>
    BY <1>20 DEF Download, At
  <2>3. Carries(x) /\ MainCarries(c)
    BY DEF InTurn
  <2>4. CASE Takes(x, "unlock", pending) /\ Usable(pending) /\ UNCHANGED <<staged, run>>
    <3>1. Still(x) /\ th'[x].pc = "unlock" /\ th'[x].file = th[x].file /\ th'[x].pend = pending
      BY <2>4, PendDoes
    <3>2. Carries(x)' /\ (x = Main(c) => MainCarries(c)')
      BY <2>1, <2>2, <2>3, <2>4, <3>1 DEF Usable, Carries, MainCarries, Early, Staging, Claims, Apply, Installed
    <3> QED BY <2>1, <2>2, <2>4, <3>1, <3>2, TurnQuiet DEF Still, Ends, Early, Staging, Claims
  <2>5. CASE /\ Go(x, "save") /\ UNCHANGED run
             /\ staged' = [staged EXCEPT ![x[1]] = [v |-> th[x].pend.v, whole |-> TRUE, t |-> now]]
    <3>1. Still(x) /\ th'[x].pc = "save" /\ th'[x].file = th[x].file /\ th'[x].pend = th[x].pend
      BY <2>5, GoDoes
    <3>2. \A d \in Command : staged'[d] = IF d = c THEN [v |-> th[x].pend.v, whole |-> TRUE, t |-> now] ELSE staged[d]
      BY <2>1, <2>5 DEF UpdateTypeOK
    <3>3. Carries(x)' /\ (x = Main(c) => MainCarries(c)')
      BY <2>1, <2>2, <2>3, <3>1, <3>2 DEF Carries, MainCarries, Early, Staging, Claims, Apply, Installed
    <3> QED BY <2>1, <2>2, <2>5, <3>1, <3>2, <3>3, TurnStages DEF Still, Ends, Staging, Claims
  <2>6. CASE Finish(x, TRUE) /\ UNCHANGED staged
    BY <2>2, <2>6, TurnFinish
  <2> QED BY <1>20, <2>1, <2>4, <2>5, <2>6 DEF Download, Takes
<1>21. ASSUME NEW x \in Thread, Save(x) PROVE InTurn'
  <2>1. PICK c \in Command : x[1] = c /\ (x = Main(c) \/ x = Check(c))
    BY Threads
  <2>2. th[x].pc = "save" /\ UNCHANGED <<release, bin, staged, now, run>>
    BY <1>21 DEF Save, At
  <2>3. Carries(x) /\ MainCarries(c)
    BY DEF InTurn
  <2>4. /\ Still(x) /\ th'[x].pc = "unlock" /\ th'[x].file = th[x].file /\ th'[x].pend = th[x].pend
        /\ pending' = th[x].pend
    BY <1>21, GoDoes DEF Save
  <2>5. /\ th[x].pend # NoUpdate /\ th[x].pend.of = c /\ th[x].pend.v <= release
        /\ bin.lrc.v <= th[x].pend.v /\ staged[c].v = th[x].pend.v
    BY <2>1, <2>2, <2>3 DEF Carries, Claims
  <2>6. Carries(x)' /\ (x = Main(c) => MainCarries(c)')
    BY <2>1, <2>2, <2>3, <2>4, <2>5 DEF Carries, MainCarries, Early, Staging, Claims, Apply, Installed
  <2>7. Lags' /\ Ends /\ now <= now'
    BY <2>2 DEF InTurn, Lags, Ends, UpdateTypeOK
  <2>8. \A y \in Thread \ {x} : y[1] = c => th[y].pc \notin Early \cup Claims \cup Apply \cup {"unlock", "fetch"}
    BY <2>1, <2>2, AloneAtStaging
  <2>9. Recorded'
    <3>1. run[c].at = "running" /\ run' = run
      BY <2>1, <2>2, Runs
    <3>2. th'[Main(c)].pc \notin Early \cup Staging /\ th'[Check(c)].pc \notin Staging
      BY <2>1, <2>4, <2>8, Threads, Twins DEF Still, Early, Staging, Claims
    <3> QED BY <2>2, <2>4, <2>5, <3>1, <3>2 DEF Recorded
  <2>10. ASSUME NEW y \in Thread, y # x, y[1] = c, th'[y] = th[y] PROVE Carries(y)' /\ (y = Main(c) => MainCarries(c)')
    <3>1. Carries(y)
      BY DEF InTurn
    <3> QED BY <2>2, <2>8, <2>10, <3>1 DEF Carries, MainCarries, Early, Staging, Claims, Apply, Installed
  <2> QED BY <2>1, <2>2, <2>4, <2>6, <2>7, <2>9, <2>10, TurnMove DEF Still
<1>22. ASSUME NEW x \in Thread, Unlock(x) PROVE InTurn'
  <2>1. PICK c \in Command : x[1] = c /\ (x = Main(c) \/ x = Check(c))
    BY Threads
  <2>2. th[x].pc = "unlock" /\ UNCHANGED <<release, bin, staged, pending, now>>
    BY <1>22 DEF Unlock, At
  <2>3. Carries(x) /\ MainCarries(c)
    BY DEF InTurn
  <2>4. CASE x[2] = "main" /\ Go(x, "check") /\ UNCHANGED run
    <3>1. Still(x) /\ th'[x].pc = "check" /\ th'[x].file = th[x].file /\ th'[x].pend = th[x].pend
      BY <2>4, GoDoes
    <3>2. Carries(x)' /\ (x = Main(c) => MainCarries(c)')
      BY <2>1, <2>2, <2>3, <2>4, <3>1 DEF Carries, MainCarries, Early, Staging, Claims, Apply, Installed
    <3> QED BY <2>1, <2>2, <2>4, <3>1, <3>2, TurnQuiet DEF Still, Ends, Early, Staging, Claims
  <2>5. CASE Finish(x, FALSE)
    BY <2>2, <2>5, TurnFinish
  <2> QED BY <1>22, <2>1, <2>4, <2>5 DEF Unlock
<1>23. ASSUME NEW x \in Thread, Err(x) PROVE InTurn'
  <2>1. PICK c \in Command : x[1] = c /\ (x = Main(c) \/ x = Check(c))
    BY Threads
  <2>2. th[x].pc # "off" /\ UNCHANGED <<release, bin, pending, now>>
    BY <1>23 DEF Err, Fallible
  <2>3. CASE th[x].pc \in {"heal", "healed"}
    <3>1. Drop(x, "run") /\ run' = [run EXCEPT ![c].erred = TRUE] /\ UNCHANGED staged
      BY <1>23, <2>1, <2>3 DEF Err, At
    <3>2. Still(x) /\ th'[x].pc = "run" /\ th'[x].file = Absent /\ th'[x].pend = th[x].pend
      BY <3>1, DropDoes
    <3>3. Carries(x)' /\ (x = Main(c) => MainCarries(c)')
      BY <2>1, <3>2, Nothing DEF UpdateTypeOK, Carries, MainCarries, Early, Staging, Claims, Apply, Installed
    <3>4. Ends
      BY <3>1 DEF Ends, UpdateTypeOK, RunState
    <3> QED BY <2>1, <2>2, <2>3, <3>1, <3>2, <3>3, <3>4, TurnQuiet DEF Still, Early
  <2>4. CASE th[x].pc \notin {"heal", "healed", "save"}
    <3>1. Finish(x, TRUE) /\ UNCHANGED staged
      BY <1>23, <2>4 DEF Err, At
    <3> QED BY <2>2, <3>1, TurnFinish
  <2>5. CASE th[x].pc = "save"
    <3>1. Finish(x, TRUE) /\ staged' = [staged EXCEPT ![c] = Absent]
      BY <1>23, <2>1, <2>5 DEF Err, At
    <3>2. /\ Ends /\ th'[x] = Off
          /\ \A y \in Thread \ {x} : th'[y] = th[y] \/ th'[y] = Off
      BY <3>1, FinishEnds
    <3>3. Carries(x)' /\ (x = Main(c) => MainCarries(c)')
      BY <2>1, <3>2, OffIs, Nothing
         DEF UpdateTypeOK, Carries, MainCarries, Early, Staging, Claims, Apply, Installed
    <3>4. \A d \in Command \ {c} : staged'[d] = staged[d]
      BY <3>1
    <3> QED BY <2>1, <2>2, <2>5, <3>2, <3>3, <3>4, OffIs, TurnStages DEF Staging, Claims, Early
  <2> QED BY <2>3, <2>4, <2>5
<1>24. CASE UNCHANGED updateVars
  BY <1>24 DEF updateVars, InTurn, OneAtATime, Running, Lags, Recorded, Carries, MainCarries
<1> QED
  BY <1>1, <1>2, <1>3, <1>4, <1>5, <1>6, <1>7, <1>8, <1>9, <1>10, <1>11, <1>12, <1>13, <1>14, <1>15, <1>16,
     <1>17, <1>18, <1>19, <1>20, <1>21, <1>22, <1>23, <1>24
  DEF UpdateNext

LEMMA TurnStart == UpdateInit => InTurn
<1> SUFFICES ASSUME UpdateInit PROVE InTurn
  OBVIOUS
<1>1. /\ th = [x \in Thread |-> Off] /\ pending = NoUpdate /\ now = 1 /\ release \in 1..MaxVersion
      /\ bin \in [{"lrc", "git"} -> {Absent, [v |-> 1, whole |-> TRUE, t |-> 1]}] /\ bin.lrc # Absent
  BY DEF UpdateInit
<1>2. Running = {}
  BY DEF UpdateInit, Running
<1>3. Lags
  BY <1>1, Nothing, UpdateAssumption DEF Lags
<1>4. ASSUME NEW x \in Thread PROVE Carries(x)
  BY <1>1, OffIs, Nothing DEF Carries, Claims
<1>5. ASSUME NEW c \in Command PROVE MainCarries(c)
  BY <1>1, OffIs, Threads DEF MainCarries, Apply, Installed
<1> QED BY <1>1, <1>2, <1>3, <1>4, <1>5 DEF InTurn, OneAtATime, Recorded

\* The two binaries and the record after a step of a command that has been alone so far.
LEMMA NothingLost ==
  ASSUME TurnInv, [UpdateNext]_updateVars, ~hist.met
  PROVE  /\ bin'.lrc.v >= bin.lrc.v
         /\ \/ pending = NoUpdate \/ pending' # NoUpdate \/ ~Usable(pending)
            \/ bin.lrc.v = pending.v
<1> USE DEF TurnInv
<1>0. InTurn /\ bin.lrc.v \in Nat
  BY Fields DEF Side
<1>1. CASE UNCHANGED <<bin, pending>>
  BY <1>0, <1>1
<1>2. ASSUME NEW c \in Command, HealRename(c) PROVE bin'.lrc = bin.lrc /\ UNCHANGED pending
  <2>1. MainCarries(c) /\ th[Main(c)].pc = "healed"
    BY <1>0, <1>2 DEF InTurn, HealRename, At
  <2> QED BY <1>2, <2>1 DEF MainCarries, HealRename, UpdateTypeOK, Side
<1>3. ASSUME NEW c \in Command, ApplyRename(c) PROVE bin'.lrc.v >= bin.lrc.v /\ UNCHANGED pending
  <2>1. th[Main(c)].file.v = pending.v /\ pending # NoUpdate
    BY <1>0, <1>3 DEF InTurn, MainCarries, ApplyRename, At, Apply
  <2>2. bin.lrc.v <= pending.v /\ pending.v \in Nat
    BY <1>0, <2>1, Fields DEF InTurn, Recorded, UpdateTypeOK
  <2>3. bin'.lrc = th[Main(c)].file
    BY <1>3 DEF ApplyRename, UpdateTypeOK, Side
  <2> QED BY <1>0, <1>3, <2>1, <2>2, <2>3 DEF ApplyRename
<1>4. ASSUME NEW c \in Command, SyncRename(c) PROVE bin'.lrc = bin.lrc /\ UNCHANGED pending
  BY <1>4 DEF SyncRename, UpdateTypeOK, Side
<1>5. ASSUME NEW c \in Command, CheckStaged(c) PROVE UNCHANGED bin /\ (UNCHANGED pending \/ ~Usable(pending))
  <2>1. th[Main(c)].pend = pending
    BY <1>0, <1>5 DEF InTurn, MainCarries, CheckStaged, At, Apply
  <2> QED BY <1>5, <2>1 DEF CheckStaged
<1>6. ASSUME NEW c \in Command, Clear(c) PROVE UNCHANGED bin /\ bin.lrc.v = pending.v
  BY <1>0, <1>6 DEF InTurn, MainCarries, Clear, At, Installed
<1>7. ASSUME NEW x \in Thread, Save(x) PROVE UNCHANGED bin /\ pending' # NoUpdate
  BY <1>0, <1>7 DEF InTurn, Carries, Save, At, Claims
<1>8. \/ UNCHANGED <<bin, pending>>
      \/ \E c \in Command : \/ HealRename(c) \/ ApplyRename(c) \/ SyncRename(c) \/ CheckStaged(c) \/ Clear(c)
      \/ \E x \in Thread : Save(x)
  BY DEF UpdateNext, updateVars, Release, Start, HealCopy, Work, ApplyLock, Load, ApplyCopy, SyncCopy,
         HooksInstall, Die, Fetch, StageLock, Relock, LockMeta, Download, Unlock, Err
<1> QED BY <1>0, <1>1, <1>2, <1>3, <1>4, <1>5, <1>6, <1>7, <1>8

\* While commands run one after the other, killed or not, lrc is never replaced by an older
\* build, and a staged build is not forgotten before it is installed, unless its file is gone
\* (stageUpdateVersion, applyPendingUpdateIfAny, applyPendingUpdateState).
THEOREM UpdatesInTurn == UpdateSpec => InTurnNothingIsLost
<1>1. UpdateInit => TurnInv
  BY FlowStart, TurnStart DEF TurnInv
<1>2. TurnInv /\ [UpdateNext]_updateVars => TurnInv'
  <2> SUFFICES ASSUME TurnInv, [UpdateNext]_updateVars PROVE TurnInv'
    OBVIOUS
  <2>1. hist.met => hist'.met
    BY DEF TurnInv, UpdateTypeOK, UpdateNext, updateVars, Release, Start, HealCopy, HealRename, Work, ApplyLock,
           Load, CheckStaged, ApplyCopy, ApplyRename, SyncCopy, SyncRename, HooksInstall, Clear, Die, Fetch,
           StageLock, Relock, LockMeta, Download, Save, Unlock, Err
  <2> QED BY <2>1, TypeStep, FlowStep, TurnStep DEF TurnInv
<1>3. TurnInv /\ [UpdateNext]_updateVars
        => [hist.met \/ /\ bin'.lrc.v >= bin.lrc.v
                        /\ (pending = NoUpdate \/ pending' # NoUpdate \/ ~Usable(pending)
                              \/ bin.lrc.v = pending.v)]_updateVars
  BY NothingLost
<1> QED BY <1>1, <1>2, <1>3, PTL DEF UpdateSpec, InTurnNothingIsLost

-----------------------------------------------------------------------------
(* HookInstall.                                                            *)

-----------------------------------------------------------------------------
(* Positions                                                               *)

LessThan == {ss \in Nat \X Nat : ss[1] < ss[2]}

LEMMA Least ==
  ASSUME NEW T \in SUBSET Nat, T # {}
  PROVE  \E m \in T : \A k \in T : m <= k
<1>1. IsWellFoundedOn(LessThan, Nat)
  BY NatLessThanWellFounded DEF OpToRel, LessThan
<1>2. PICK m \in T : \A k \in T : ~(<<k, m>> \in LessThan)
  BY <1>1, WFMin
<1>3. \A k \in T : ~(k < m)
  BY <1>2 DEF LessThan
<1> QED BY <1>3

\* The n-th member of a finite set of numbers.
LEMMA Nth ==
  ASSUME NEW top \in Nat, NEW S \in SUBSET (1..top), NEW n \in 1..Cardinality(S)
  PROVE  \E i \in S : Cardinality({j \in S : j < i}) = n - 1
<1> DEFINE Under(k) == {j \in S : j < k}
<1>0. \A j \in S : j \in Nat /\ 1 <= j /\ j <= top
  OBVIOUS
<1>1. IsFiniteSet(S) /\ Cardinality(S) \in Nat
  <2>1. IsFiniteSet(1..top)
    BY FS_Interval
  <2> QED BY <2>1, FS_Subset, FS_CardinalityType
<1>2. ASSUME NEW k \in Nat PROVE IsFiniteSet(Under(k)) /\ Cardinality(Under(k)) \in Nat
  <2>1. Under(k) \subseteq S
    OBVIOUS
  <2> QED BY <1>1, <2>1, FS_Subset, FS_CardinalityType
<1> DEFINE Enough == {k \in Nat : Cardinality(Under(k)) >= n}
<1>3. top + 1 \in Enough
  <2>1. \A j \in S : j < top + 1
    BY <1>0
  <2>2. Under(top + 1) = S
    BY <2>1
  <2>3. top + 1 \in Nat /\ Cardinality(S) >= n
    BY <1>1
  <2> HIDE DEF Under
  <2> QED BY <2>2, <2>3
<1>4. PICK k \in Enough : \A l \in Enough : k <= l
  <2> HIDE DEF Enough
  <2>1. Enough \in SUBSET Nat
    BY DEF Enough
  <2> QED BY <1>3, <2>1, Least
<1>5. k # 0
  <2>1. Under(0) = {}
    <3>1. \A j \in S : ~(j < 0)
      BY <1>0
    <3> QED BY <3>1
  <2>2. Cardinality(Under(0)) = 0
    BY <2>1, FS_EmptySet
  <2> QED BY <1>4, <2>2
<1>6. PICK i \in Nat : k = i + 1
  BY <1>4, <1>5
<1>7. Cardinality(Under(i)) < n
  <2>1. i \notin Enough
    BY <1>4, <1>6
  <2> QED BY <1>2, <2>1
<1>8. i \in S
  <2>1. SUFFICES ASSUME i \notin S PROVE FALSE
    OBVIOUS
  <2>2. \A j \in S : j < i + 1 <=> j < i
    BY <1>0, <1>6, <2>1
  <2>3. Under(i + 1) = Under(i)
    BY <2>2
  <2> HIDE DEF Under
  <2> QED BY <1>4, <1>6, <1>7, <2>3, <1>2
<1>9. Cardinality(Under(i + 1)) = Cardinality(Under(i)) + 1
  <2>0. \A j \in S : j < i + 1 <=> (j < i \/ j = i)
    BY <1>0, <1>6
  <2>1. Under(i + 1) = Under(i) \cup {i}
    BY <1>8, <2>0
  <2>2. i \notin Under(i)
    BY <1>6
  <2> HIDE DEF Under
  <2> QED BY <1>2, <1>6, <2>1, <2>2, FS_AddElement
<1>10. Cardinality(Under(i)) = n - 1
  BY <1>2, <1>4, <1>6, <1>7, <1>9
<1> QED BY <1>8, <1>10

\* They are enumerated in order.
LEMMA Enumerates ==
  ASSUME NEW top \in Nat, NEW S \in SUBSET (1..top), NEW nth \in [1..Cardinality(S) -> S],
         \A n \in 1..Cardinality(S) : Cardinality({j \in S : j < nth[n]}) = n - 1
  PROVE  /\ \A m, n \in 1..Cardinality(S) : m < n => nth[m] < nth[n]
         /\ \A i \in S : \E n \in 1..Cardinality(S) : nth[n] = i
<1> DEFINE Under(k) == {j \in S : j < k}
<1>0. \A j \in S : j \in Nat /\ 1 <= j /\ j <= top
  OBVIOUS
<1>1. IsFiniteSet(S) /\ Cardinality(S) \in Nat
  <2>1. IsFiniteSet(1..top)
    BY FS_Interval
  <2> QED BY <2>1, FS_Subset, FS_CardinalityType
<1>2. ASSUME NEW k \in Nat PROVE IsFiniteSet(Under(k)) /\ Cardinality(Under(k)) \in Nat
  <2>1. Under(k) \subseteq S
    OBVIOUS
  <2> QED BY <1>1, <2>1, FS_Subset, FS_CardinalityType
<1>3. ASSUME NEW i \in S, NEW T \in SUBSET S, Under(i) \subseteq T, i \in T
      PROVE  IsFiniteSet(T) /\ Cardinality(Under(i)) < Cardinality(T)
  <2>1. i \notin Under(i)
    BY <1>0
  <2>2. Under(i) \cup {i} \subseteq T
    BY <1>3
  <2>3. IsFiniteSet(T) /\ Cardinality(T) \in Nat
    BY <1>1, FS_Subset, FS_CardinalityType
  <2>4. IsFiniteSet(Under(i)) /\ Cardinality(Under(i)) \in Nat
    BY <1>0, <1>2
  <2> HIDE DEF Under
  <2>5. Cardinality(Under(i) \cup {i}) = Cardinality(Under(i)) + 1
    BY <2>1, <2>4, FS_AddElement
  <2>6. Cardinality(Under(i) \cup {i}) <= Cardinality(T)
    BY <2>2, <2>3, FS_Subset
  <2>7. Cardinality(Under(i)) + 1 <= Cardinality(T)
    BY <2>5, <2>6
  <2> QED BY <2>3, <2>4, <2>7
<1>4. ASSUME NEW i \in S, NEW j \in S, i < j PROVE Cardinality(Under(i)) < Cardinality(Under(j))
  <2>1. Under(j) \in SUBSET S /\ i \in Under(j)
    BY <1>4
  <2>2. Under(i) \subseteq Under(j)
    <3>1. \A k \in S : k < i => k < j
      BY <1>0, <1>4
    <3> QED BY <3>1
  <2> HIDE DEF Under
  <2> QED BY <1>3, <2>1, <2>2
<1>5. ASSUME NEW n \in 1..Cardinality(S)
      PROVE  nth[n] \in S /\ Cardinality(Under(nth[n])) = n - 1
  OBVIOUS
<1> HIDE DEF Under
<1>6. ASSUME NEW m \in 1..Cardinality(S), NEW n \in 1..Cardinality(S), m < n
      PROVE  nth[m] < nth[n]
  <2>1. /\ nth[m] \in S /\ Cardinality(Under(nth[m])) = m - 1
        /\ nth[n] \in S /\ Cardinality(Under(nth[n])) = n - 1
    BY <1>5
  <2>2. nth[m] # nth[n]
    <3>1. m - 1 # n - 1
      BY <1>1, <1>6
    <3> QED BY <2>1, <3>1
  <2>3. ~(nth[n] < nth[m])
    <3>1. nth[n] < nth[m] => n - 1 < m - 1
      BY <1>4, <2>1
    <3> QED BY <1>1, <1>6, <3>1
  <2>4. nth[m] \in Nat /\ nth[n] \in Nat
    BY <1>0, <2>1
  <2> QED BY <2>2, <2>3, <2>4
<1>7. ASSUME NEW i \in S PROVE \E n \in 1..Cardinality(S) : nth[n] = i
  <2>1. Cardinality(Under(i)) < Cardinality(S)
    <3>1. Under(i) \subseteq S
      BY DEF Under
    <3> QED BY <1>3, <3>1
  <2>2. PICK n \in 1..Cardinality(S) : Cardinality(Under(i)) = n - 1
    <3>1. Cardinality(Under(i)) \in Nat
      BY <1>0, <1>2
    <3>2. Cardinality(Under(i)) + 1 \in 1..Cardinality(S)
      BY <1>1, <2>1, <3>1
    <3> QED BY <3>1, <3>2
  <2>3. nth[n] \in S /\ Cardinality(Under(nth[n])) = Cardinality(Under(i))
    BY <1>5, <2>2
  <2>4. ~(nth[n] < i) /\ ~(i < nth[n])
    <3>1. Cardinality(Under(i)) \in Nat
      BY <1>0, <1>2
    <3>2. nth[n] < i => Cardinality(Under(nth[n])) < Cardinality(Under(i))
      BY <1>4, <2>3
    <3>3. i < nth[n] => Cardinality(Under(i)) < Cardinality(Under(nth[n]))
      BY <1>4, <2>3
    <3> QED BY <2>3, <3>1, <3>2, <3>3
  <2>5. nth[n] \in Nat /\ i \in Nat
    BY <1>0, <2>3
  <2> QED BY <2>2, <2>4, <2>5
<1> QED BY <1>6, <1>7

\* Two sets are of one size if one is mapped onto the other and no two members to the same.
LEMMA SameSize ==
  ASSUME NEW S, IsFiniteSet(S), NEW T, NEW f \in [S -> T],
         \A a, b \in S : f[a] = f[b] => a = b, \A t \in T : \E s \in S : f[s] = t
  PROVE  IsFiniteSet(T) /\ Cardinality(T) = Cardinality(S)
<1>1. f \in Bijection(S, T)
  BY Fun_IsBij
<1>2. ExistsBijection(S, T)
  BY <1>1 DEF ExistsBijection
<1> QED BY <1>2, FS_Bijection

-----------------------------------------------------------------------------
(* Hook scripts                                                            *)

Text == Seq({"sh", "user", "begin", "body", "end"})

\* Every section is closed.
Closed(lines) ==
  \A i \in 1..Len(lines) : lines[i] = "begin" => \E e \in i..Len(lines) : lines[e] = "end"

LEMMA FirstIs ==
  ASSUME NEW lines \in Text, NEW x, NEW k \in 1..Len(lines), \E i \in k..Len(lines) : lines[i] = x
  PROVE  /\ First(lines, x, k) \in k..Len(lines) /\ lines[First(lines, x, k)] = x
         /\ \A j \in k..(First(lines, x, k) - 1) : lines[j] # x
<1> Len(lines) \in Nat
  BY LenProperties DEF Text
<1> DEFINE Places == {i \in k..Len(lines) : lines[i] = x}
<1>1. PICK i \in Places : \A j \in Places : i <= j
  <2>1. Places \in SUBSET Nat /\ Places # {}
    OBVIOUS
  <2> HIDE DEF Places
  <2> QED BY <2>1, Least
<1>2. \E m \in k..Len(lines) : lines[m] = x /\ \A j \in k..(m - 1) : lines[j] # x
  BY <1>1
<1> QED BY <1>2 DEF First

LEMMA ClosedConcat ==
  ASSUME NEW a \in Text, NEW b \in Text
  PROVE  a \o b \in Text /\ (Closed(a) /\ Closed(b) => Closed(a \o b))
<1>1. /\ a \o b \in Text /\ Len(a \o b) = Len(a) + Len(b)
      /\ Len(a) \in Nat /\ Len(b) \in Nat
      /\ \A i \in 1..(Len(a) + Len(b)) : (a \o b)[i] = IF i <= Len(a) THEN a[i] ELSE b[i - Len(a)]
  BY ConcatProperties, LenProperties DEF Text
<1> SUFFICES ASSUME Closed(a), Closed(b),
                    NEW i \in 1..(Len(a) + Len(b)), (a \o b)[i] = "begin"
             PROVE  \E e \in i..(Len(a) + Len(b)) : (a \o b)[e] = "end"
  BY <1>1 DEF Closed
<1>2. CASE i <= Len(a)
  <2>1. PICK e \in i..Len(a) : a[e] = "end"
    BY <1>1, <1>2 DEF Closed
  <2> QED BY <1>1, <1>2, <2>1
<1>3. CASE i > Len(a)
  <2>1. i - Len(a) \in 1..Len(b) /\ b[i - Len(a)] = "begin"
    BY <1>1, <1>3
  <2>2. PICK e \in (i - Len(a))..Len(b) : b[e] = "end"
    BY <2>1 DEF Closed
  <2>3. e + Len(a) \in i..(Len(a) + Len(b)) /\ (a \o b)[e + Len(a)] = "end"
    BY <1>1, <1>3, <2>2
  <2> QED BY <2>3
<1> QED BY <1>1, <1>2, <1>3

LEMMA ClosedFrom ==
  ASSUME NEW lines \in Text, NEW k \in 1..(Len(lines) + 1)
  PROVE  /\ SubSeq(lines, k, Len(lines)) \in Text
         /\ Closed(lines) => Closed(SubSeq(lines, k, Len(lines)))
<1> DEFINE rest == SubSeq(lines, k, Len(lines))
<1>1. Len(lines) \in Nat
  BY LenProperties DEF Text
<1>2. /\ rest \in Text /\ Len(rest) = Len(lines) - k + 1
      /\ \A i \in 1..(Len(lines) - k + 1) : rest[i] = lines[k + i - 1]
  BY <1>1, SubSeqProperties DEF Text
<1> HIDE DEF rest
<1>3. ASSUME Closed(lines), NEW i \in 1..Len(rest), rest[i] = "begin"
      PROVE  \E e \in i..Len(rest) : rest[e] = "end"
  <2>1. k + i - 1 \in 1..Len(lines) /\ lines[k + i - 1] = "begin"
    BY <1>1, <1>2, <1>3
  <2>2. PICK e \in (k + i - 1)..Len(lines) : lines[e] = "end"
    BY <1>3, <2>1 DEF Closed
  <2>3. e - k + 1 \in i..Len(rest) /\ rest[e - k + 1] = "end"
    BY <1>1, <1>2, <2>2
  <2> QED BY <2>3
<1> QED BY <1>2, <1>3 DEF rest, Closed

LEMMA ClosedUpTo ==
  ASSUME NEW lines \in Text, NEW s \in 1..Len(lines), \A j \in 1..(s - 1) : lines[j] # "begin"
  PROVE  SubSeq(lines, 1, s - 1) \in Text /\ Closed(SubSeq(lines, 1, s - 1))
<1> DEFINE front == SubSeq(lines, 1, s - 1)
<1>1. Len(lines) \in Nat
  BY LenProperties DEF Text
<1>2. /\ front \in Text /\ Len(front) = s - 1
      /\ \A i \in 1..(s - 1) : front[i] = lines[i]
  BY <1>1, SubSeqProperties DEF Text
<1> QED BY <1>2 DEF Closed

LEMMA SectionClosed ==
  /\ Section \in Text /\ Closed(Section)
  /\ <<"sh">> \in Text /\ Closed(<<"sh">>)
  /\ <<>> \in Text /\ Closed(<<>>)
BY DEF Section, Text, Closed

LEMMA NoneIsClosed ==
  ASSUME NEW lines \in Text, ~Holds(lines, "begin")
  PROVE  Closed(lines)
BY LenProperties DEF Text, Holds, Closed

LEMMA ReplaceKeepsClosed ==
  ASSUME NEW lines \in Text
  PROVE  /\ ReplaceManagedSection(lines) \in Text
         /\ Closed(lines) => Closed(ReplaceManagedSection(lines))
<1> Len(lines) \in Nat
  BY LenProperties DEF Text
<1> DEFINE s == First(lines, "begin", 1)
           e == IF s = 0 THEN 0 ELSE First(lines, "end", s)
<1>1. CASE e = 0
  BY <1>1 DEF ReplaceManagedSection
<1>2. CASE e # 0
  <2>1. \E i \in 1..Len(lines) : lines[i] = "begin"
    BY <1>2 DEF First
  <2>2. s \in 1..Len(lines) /\ \A j \in 1..(s - 1) : lines[j] # "begin"
    BY <2>1, FirstIs
  <2>3. \E i \in s..Len(lines) : lines[i] = "end"
    BY <1>2, <2>2 DEF First
  <2>4. e \in s..Len(lines)
    BY <2>2, <2>3, FirstIs
  <2> HIDE DEF e, s
  <2> DEFINE front == SubSeq(lines, 1, s - 1)
             back == SubSeq(lines, e + 1, Len(lines))
  <2>5. front \in Text /\ Closed(front)
    BY <2>2, ClosedUpTo
  <2>6. back \in Text /\ (Closed(lines) => Closed(back))
    BY <2>2, <2>4, ClosedFrom
  <2>7. ReplaceManagedSection(lines) = front \o Section \o back
    BY <1>2 DEF ReplaceManagedSection, From, s, e
  <2> HIDE DEF front, back
  <2>8. front \o Section \in Text /\ Closed(front \o Section)
    BY <2>5, SectionClosed, ClosedConcat
  <2> QED BY <2>6, <2>7, <2>8, ClosedConcat
<1> QED BY <1>1, <1>2

\* An install closes what it opens.
LEMMA InstallKeepsClosed ==
  ASSUME NEW lines \in Text
  PROVE  InstallHook(lines) \in Text /\ (Closed(lines) => Closed(InstallHook(lines)))
<1> Len(lines) \in Nat
  BY LenProperties DEF Text
<1>1. <<"sh">> \o Section \in Text /\ Closed(<<"sh">> \o Section)
  BY SectionClosed, ClosedConcat
<1>2. CASE lines = <<>>
  <2>1. ~Holds(lines, "begin")
    BY <1>2 DEF Holds
  <2>2. InstallHook(lines) = <<"sh">> \o Section
    BY <1>2, <2>1 DEF InstallHook
  <2> QED BY <1>1, <2>2
<1>3. CASE lines # <<>> /\ Holds(lines, "begin")
  BY <1>3, ReplaceKeepsClosed DEF InstallHook
<1>4. CASE lines # <<>> /\ ~Holds(lines, "begin")
  <2>1. Tail(lines) \in Text /\ (Closed(lines) => Closed(Tail(lines)))
    <3>1. Tail(lines) = SubSeq(lines, 2, Len(lines)) /\ Len(lines) # 0
      BY <1>4, TailIsSubSeq, EmptySeq, LenProperties DEF Text
    <3>2. 2 \in 1..(Len(lines) + 1)
      BY <3>1
    <3> QED BY <3>1, <3>2, ClosedFrom
  <2>2. InstallHook(lines) = IF Head(lines) = "sh" THEN <<"sh">> \o Section \o Tail(lines)
                                                  ELSE <<"sh">> \o Section \o lines
    BY <1>4 DEF InstallHook
  <2> QED BY <1>1, <2>1, <2>2, ClosedConcat
<1> QED BY <1>2, <1>3, <1>4

\* A removal keeps the lines that stand in no section, in their order.
LEMMA Removed ==
  ASSUME NEW lines \in Text
  PROVE  \E n \in Nat : \E nth \in [1..n -> {i \in 1..Len(lines) : ~InSection(lines, i)}] :
           /\ RemoveManagedSection(lines) = [k \in 1..n |-> lines[nth[k]]]
           /\ \A k, l \in 1..n : k < l => nth[k] < nth[l]
           /\ \A i \in 1..Len(lines) : ~InSection(lines, i) => \E k \in 1..n : nth[k] = i
<1>0. Len(lines) \in Nat /\ DOMAIN lines = 1..Len(lines)
  BY LenProperties DEF Text
<1> DEFINE kept == {i \in DOMAIN lines : ~InSection(lines, i)}
           nth == [n \in 1..Cardinality(kept) |-> CHOOSE i \in kept : Cardinality({j \in kept : j < i}) = n - 1]
<1>1. RemoveManagedSection(lines) = [n \in 1..Cardinality(kept) |-> lines[nth[n]]]
  BY DEF RemoveManagedSection
<1>2. kept \in SUBSET (1..Len(lines)) /\ kept = {i \in 1..Len(lines) : ~InSection(lines, i)}
  BY <1>0
<1> HIDE DEF kept
<1>3. Cardinality(kept) \in Nat
  <2>1. IsFiniteSet(1..Len(lines))
    BY <1>0, FS_Interval
  <2> QED BY <1>2, <2>1, FS_Subset, FS_CardinalityType
<1>4. ASSUME NEW n \in 1..Cardinality(kept)
      PROVE  nth[n] \in kept /\ Cardinality({j \in kept : j < nth[n]}) = n - 1
  <2>1. \E i \in kept : Cardinality({j \in kept : j < i}) = n - 1
    BY <1>0, <1>2, Nth
  <2> QED BY <2>1
<1>5. nth \in [1..Cardinality(kept) -> kept]
  BY <1>4
<1> HIDE DEF nth
<1>6. /\ \A k, l \in 1..Cardinality(kept) : k < l => nth[k] < nth[l]
      /\ \A i \in kept : \E k \in 1..Cardinality(kept) : nth[k] = i
  <2>1. \A n \in 1..Cardinality(kept) : Cardinality({j \in kept : j < nth[n]}) = n - 1
    BY <1>4
  <2> QED BY <1>0, <1>2, <1>5, <2>1, Enumerates
<1>7. /\ nth \in [1..Cardinality(kept) -> {i \in 1..Len(lines) : ~InSection(lines, i)}]
      /\ RemoveManagedSection(lines) = [k \in 1..Cardinality(kept) |-> lines[nth[k]]]
      /\ \A k, l \in 1..Cardinality(kept) : k < l => nth[k] < nth[l]
      /\ \A i \in 1..Len(lines) : ~InSection(lines, i) => \E k \in 1..Cardinality(kept) : nth[k] = i
  <2>1. nth \in [1..Cardinality(kept) -> {i \in 1..Len(lines) : ~InSection(lines, i)}]
    BY <1>2, <1>5
  <2>2. RemoveManagedSection(lines) = [k \in 1..Cardinality(kept) |-> lines[nth[k]]]
    BY <1>1
  <2>3. \A i \in 1..Len(lines) : ~InSection(lines, i) => i \in kept
    BY <1>2
  <2> QED BY <1>6, <2>1, <2>2, <2>3
<1> /\ Cardinality(kept) \in Nat
    /\ nth \in [1..Cardinality(kept) -> {i \in 1..Len(lines) : ~InSection(lines, i)}]
  BY <1>3, <1>7
<1> WITNESS Cardinality(kept) \in Nat
<1> WITNESS nth \in [1..Cardinality(kept) -> {i \in 1..Len(lines) : ~InSection(lines, i)}]
<1> QED BY <1>7

\* What an uninstall leaves has no section, when every section was closed.
LEMMA UninstallRemoves ==
  ASSUME NEW lines \in Text
  PROVE  /\ UninstallHook(lines) \in Text
         /\ Closed(lines) => ~Holds(UninstallHook(lines), "begin")
<1>0. Len(lines) \in Nat /\ DOMAIN lines = 1..Len(lines)
  BY LenProperties DEF Text
<1> DEFINE rest == RemoveManagedSection(lines)
<1>1. PICK n \in Nat :
        \E nth \in [1..n -> {i \in 1..Len(lines) : ~InSection(lines, i)}] :
          rest = [k \in 1..n |-> lines[nth[k]]]
  BY Removed
<1>5. PICK nth \in [1..n -> {i \in 1..Len(lines) : ~InSection(lines, i)}] :
        rest = [k \in 1..n |-> lines[nth[k]]]
  BY <1>1
<1>2. Closed(lines) => \A i \in 1..Len(lines) : ~InSection(lines, i) => lines[i] # "begin"
  <2> SUFFICES ASSUME Closed(lines), NEW i \in 1..Len(lines), lines[i] = "begin"
               PROVE  InSection(lines, i)
    OBVIOUS
  <2>1. \E e \in i..Len(lines) : lines[e] = "end"
    BY <1>0 DEF Closed
  <2> QED BY <1>0, <2>1 DEF InSection
<1> HIDE DEF rest
<1>3. \A k \in 1..n : /\ lines[nth[k]] \in {"sh", "user", "begin", "body", "end"}
                      /\ Closed(lines) => lines[nth[k]] # "begin"
  <2>1. \A i \in 1..Len(lines) : lines[i] \in {"sh", "user", "begin", "body", "end"}
    BY ElementOfSeq DEF Text
  <2> SUFFICES ASSUME NEW k \in 1..n
               PROVE  /\ lines[nth[k]] \in {"sh", "user", "begin", "body", "end"}
                      /\ Closed(lines) => lines[nth[k]] # "begin"
    OBVIOUS
  <2>2. nth[k] \in 1..Len(lines) /\ ~InSection(lines, nth[k])
    OBVIOUS
  <2> QED BY <1>2, <2>1, <2>2
<1>4. rest \in Text /\ (Closed(lines) => ~Holds(rest, "begin"))
  BY <1>3, <1>5 DEF Text, Holds
<1> QED BY <1>4, SectionClosed DEF UninstallHook, Holds, rest

-----------------------------------------------------------------------------
(* The lines of the user.                                                  *)

Users(lines) == {i \in DOMAIN lines : lines[i] = "user"}

LEMMA UsersFinite ==
  ASSUME NEW lines \in Text
  PROVE  /\ Len(lines) \in Nat /\ DOMAIN lines = 1..Len(lines)
         /\ Users(lines) \in SUBSET (1..Len(lines))
         /\ IsFiniteSet(Users(lines)) /\ Cardinality(Users(lines)) \in Nat
         /\ UserLines(lines) = Cardinality(Users(lines))
<1>1. Len(lines) \in Nat /\ DOMAIN lines = 1..Len(lines)
  BY LenProperties DEF Text
<1>2. Users(lines) \in SUBSET (1..Len(lines))
  BY <1>1 DEF Users
<1>3. IsFiniteSet(1..Len(lines))
  BY <1>1, FS_Interval
<1> QED BY <1>1, <1>2, <1>3, FS_Subset, FS_CardinalityType DEF UserLines, Users

LEMMA CountNone ==
  ASSUME NEW lines \in Text, ~Holds(lines, "user")
  PROVE  UserLines(lines) = 0
<1>1. Users(lines) = {}
  BY DEF Users, Holds
<1> QED BY <1>1, UsersFinite, FS_EmptySet

LEMMA Concat ==
  ASSUME NEW a \in Text, NEW b \in Text
  PROVE  /\ a \o b \in Text /\ Len(a \o b) = Len(a) + Len(b)
         /\ \A i \in 1..(Len(a) + Len(b)) : (a \o b)[i] = IF i <= Len(a) THEN a[i] ELSE b[i - Len(a)]
BY ConcatProperties, LenProperties DEF Text

LEMMA CountConcat ==
  ASSUME NEW a \in Text, NEW b \in Text
  PROVE  UserLines(a \o b) = UserLines(a) + UserLines(b)
<1>1. /\ a \o b \in Text /\ Len(a \o b) = Len(a) + Len(b)
      /\ \A i \in 1..(Len(a) + Len(b)) : (a \o b)[i] = IF i <= Len(a) THEN a[i] ELSE b[i - Len(a)]
  BY Concat
<1>2. /\ Len(a) \in Nat /\ DOMAIN a = 1..Len(a) /\ Len(b) \in Nat /\ DOMAIN b = 1..Len(b)
      /\ DOMAIN (a \o b) = 1..(Len(a) + Len(b))
  BY <1>1, UsersFinite
<1> DEFINE right == {i \in 1..(Len(a) + Len(b)) : i > Len(a) /\ b[i - Len(a)] = "user"}
           f == [i \in Users(b) |-> i + Len(a)]
<1>3. Users(a \o b) = Users(a) \cup right
  <2>1. ASSUME NEW i \in Users(a \o b) PROVE i \in Users(a) \cup right
    BY <1>1, <1>2 DEF Users
  <2>2. ASSUME NEW i \in Users(a) PROVE i \in Users(a \o b)
    BY <1>1, <1>2 DEF Users
  <2>3. ASSUME NEW i \in right PROVE i \in Users(a \o b)
    BY <1>1, <1>2 DEF Users
  <2> QED BY <2>1, <2>2, <2>3
<1>4. Users(a) \cap right = {}
  BY <1>2 DEF Users
<1>5. f \in [Users(b) -> right]
  BY <1>2 DEF Users
<1>6. \A i, j \in Users(b) : f[i] = f[j] => i = j
  BY <1>2 DEF Users
<1>7. \A t \in right : \E i \in Users(b) : f[i] = t
  <2> SUFFICES ASSUME NEW t \in right PROVE \E i \in Users(b) : f[i] = t
    OBVIOUS
  <2>1. t - Len(a) \in Users(b)
    BY <1>2 DEF Users
  <2> QED BY <1>2, <2>1
<1> HIDE DEF f, right
<1>8. IsFiniteSet(right) /\ Cardinality(right) = Cardinality(Users(b))
  BY <1>5, <1>6, <1>7, UsersFinite, SameSize
<1>9. Cardinality(Users(a) \cup right) = Cardinality(Users(a)) + Cardinality(right)
  <2>1. Cardinality(Users(a) \cup right) =
          Cardinality(Users(a)) + Cardinality(right) - Cardinality(Users(a) \cap right)
    BY <1>8, UsersFinite, FS_Union
  <2>2. Cardinality(Users(a) \cap right) = 0
    BY <1>4, FS_EmptySet
  <2> QED BY <1>8, <2>1, <2>2, UsersFinite
<1> QED BY <1>1, <1>3, <1>8, <1>9, UsersFinite

LEMMA CountSplit ==
  ASSUME NEW lines \in Text, NEW k \in 0..Len(lines)
  PROVE  /\ SubSeq(lines, 1, k) \in Text /\ SubSeq(lines, k + 1, Len(lines)) \in Text
         /\ UserLines(lines) = UserLines(SubSeq(lines, 1, k)) + UserLines(SubSeq(lines, k + 1, Len(lines)))
<1>1. Len(lines) \in Nat
  BY LenProperties DEF Text
<1>2. \A i \in 1..Len(lines) : lines[i] \in {"sh", "user", "begin", "body", "end"}
  BY ElementOfSeq DEF Text
<1>3. SubSeq(lines, 1, k) \in Text
  BY <1>1, <1>2, SubSeqProperties DEF Text
<1>4. SubSeq(lines, k + 1, Len(lines)) \in Text
  BY <1>1, <1>2, SubSeqProperties DEF Text
<1>5. SubSeq(lines, 1, k) \o SubSeq(lines, k + 1, Len(lines)) = lines
  <2>1. SubSeq(lines, 1, k) \o SubSeq(lines, k + 1, Len(lines)) = SubSeq(lines, 1, Len(lines))
    <3>1. 1 \in 1..(Len(lines) + 1) /\ k \in (1 - 1)..Len(lines) /\ Len(lines) \in k..Len(lines)
      BY <1>1
    <3> QED BY <3>1, ConcatAdjacentSubSeq DEF Text
  <2>2. SubSeq(lines, 1, Len(lines)) = lines
    BY SubSeqFull DEF Text
  <2> QED BY <2>1, <2>2
<1> QED BY <1>3, <1>4, <1>5, CountConcat

\* What follows a line has no more sections than it had.
LEMMA OwnAfter ==
  ASSUME NEW lines \in Text, OwnLines(lines), NEW k \in 1..(Len(lines) + 1)
  PROVE  OwnLines(SubSeq(lines, k, Len(lines)))
<1> DEFINE rest == SubSeq(lines, k, Len(lines))
<1>1. Len(lines) \in Nat /\ DOMAIN lines = 1..Len(lines)
  BY LenProperties DEF Text
<1>2. /\ rest \in Text /\ Len(rest) = Len(lines) - k + 1
      /\ \A i \in 1..(Len(lines) - k + 1) : rest[i] = lines[k + i - 1]
  BY <1>1, SubSeqProperties DEF Text
<1>3. DOMAIN rest = 1..Len(rest)
  BY <1>2, LenProperties DEF Text
<1> HIDE DEF rest
<1> SUFFICES ASSUME NEW i \in 1..Len(rest), rest[i] = "user", InSection(rest, i) PROVE FALSE
  BY <1>3 DEF OwnLines, rest
<1>4. PICK b \in 1..i : rest[b] = "begin" /\ \A j \in b..(i - 1) : rest[j] # "end"
  BY DEF InSection
<1>5. PICK e \in i..Len(rest) : rest[e] = "end"
  BY DEF InSection
<1>6. k + i - 1 \in 1..Len(lines) /\ lines[k + i - 1] = "user"
  BY <1>1, <1>2
<1>7. InSection(lines, k + i - 1)
  <2>1. k + b - 1 \in 1..(k + i - 1) /\ lines[k + b - 1] = "begin"
    BY <1>1, <1>2, <1>4
  <2>2. ASSUME NEW j \in (k + b - 1)..(k + i - 1 - 1) PROVE lines[j] # "end"
    <3>1. j - k + 1 \in b..(i - 1) /\ j - k + 1 \in 1..(Len(lines) - k + 1) /\ k + (j - k + 1) - 1 = j
      BY <1>1, <1>2, <1>4
    <3> QED BY <1>2, <1>4, <3>1
  <2>3. k + e - 1 \in (k + i - 1)..Len(lines) /\ lines[k + e - 1] = "end"
    BY <1>1, <1>2, <1>5
  <2> QED BY <2>1, <2>2, <2>3 DEF InSection
<1> QED BY <1>1, <1>6, <1>7 DEF OwnLines

\* A section between lines without a begin and lines of the user's own.
LEMMA AroundSection ==
  ASSUME NEW front \in Text, NEW back \in Text, ~Holds(front, "begin"), OwnLines(back)
  PROVE  /\ OwnLines(front \o Section \o back)
         /\ UserLines(front \o Section \o back) = UserLines(front) + UserLines(back)
<1> DEFINE lines == front \o Section \o back
<1>1. Section \in Text /\ ~Holds(Section, "user") /\ Len(Section) = 3 /\ Section[3] = "end"
      /\ Section[1] = "begin" /\ Section[2] = "body"
  BY SectionClosed DEF Section, Holds
<1>2. UserLines(Section) = 0
  BY <1>1, CountNone
<1>3. front \o Section \in Text
  BY <1>1, ClosedConcat
<1>4. UserLines(lines) = UserLines(front) + UserLines(back)
  <2>1. UserLines(front \o Section) = UserLines(front) + 0
    BY <1>1, <1>2, CountConcat
  <2>2. UserLines(lines) = UserLines(front \o Section) + UserLines(back)
    BY <1>3, CountConcat
  <2>3. UserLines(front) \in Nat
    BY UsersFinite
  <2> QED BY <2>1, <2>2, <2>3
<1>5. OwnLines(lines)
  <2> DEFINE n == Len(front)
             m == Len(back)
  <2>1. /\ n \in Nat /\ m \in Nat /\ DOMAIN front = 1..n /\ DOMAIN back = 1..m
    BY UsersFinite
  <2>2. /\ Len(front \o Section) = n + 3
        /\ \A i \in 1..(n + 3) : (front \o Section)[i] = IF i <= n THEN front[i] ELSE Section[i - n]
    BY <1>1, Concat
  <2>3. /\ lines \in Text /\ Len(lines) = n + 3 + m
        /\ \A i \in 1..(n + 3 + m) : lines[i] = IF i <= n + 3 THEN (front \o Section)[i] ELSE back[i - (n + 3)]
    <3> DEFINE begun == front \o Section
    <3>1. begun \in Text /\ Len(begun) = n + 3
      BY <1>3, <2>2
    <3> HIDE DEF begun
    <3>2. /\ begun \o back \in Text /\ Len(begun \o back) = Len(begun) + m
          /\ \A i \in 1..(Len(begun) + m) :
               (begun \o back)[i] = IF i <= Len(begun) THEN begun[i] ELSE back[i - Len(begun)]
      BY <3>1, Concat
    <3> QED BY <3>1, <3>2 DEF begun
  <2>4. DOMAIN lines = 1..(n + 3 + m)
    BY <2>3, UsersFinite
  <2> HIDE DEF lines
  <2>5. /\ \A i \in 1..n : lines[i] = front[i]
        /\ \A i \in 1..m : lines[n + 3 + i] = back[i]
        /\ lines[n + 1] = "begin" /\ lines[n + 2] = "body" /\ lines[n + 3] = "end"
    <3>1. \A i \in 1..n : i <= n + 3 /\ i \in 1..(n + 3) /\ i \in 1..(n + 3 + m)
      BY <2>1
    <3>2. \A i \in 1..m : n + 3 + i \in 1..(n + 3 + m) /\ ~(n + 3 + i <= n + 3)
                             /\ n + 3 + i - (n + 3) = i
      BY <2>1
    <3>3. \A k \in 1..3 : n + k \in 1..(n + 3 + m) /\ n + k <= n + 3 /\ n + k \in 1..(n + 3)
                             /\ ~(n + k <= n) /\ n + k - n = k
      BY <2>1
    <3>4. Section[1] = "begin" /\ Section[2] = "body" /\ Section[3] = "end"
      BY DEF Section
    <3>5. \A i \in 1..n : lines[i] = front[i]
      BY <2>2, <2>3, <3>1
    <3>6. \A i \in 1..m : lines[n + 3 + i] = back[i]
      BY <2>3, <3>2
    <3>7. \A k \in 1..3 : lines[n + k] = Section[k]
      BY <2>2, <2>3, <3>3
    <3> QED BY <3>4, <3>5, <3>6, <3>7
  <2> HIDE DEF n, m
  <2> SUFFICES ASSUME NEW i \in 1..(n + 3 + m), lines[i] = "user", InSection(lines, i) PROVE FALSE
    BY <2>4 DEF OwnLines
  <2>6. PICK b \in 1..i : lines[b] = "begin" /\ \A j \in b..(i - 1) : lines[j] # "end"
    BY DEF InSection
  <2>7. PICK e \in i..(n + 3 + m) : lines[e] = "end"
    BY <2>3 DEF InSection
  <2>8. b > n
    <3>1. \A j \in 1..n : lines[j] # "begin"
      BY <2>1, <2>5 DEF Holds
    <3> QED BY <2>1, <2>6, <3>1
  <2>9. i > n + 3
    <3>1. i # n + 1 /\ i # n + 2 /\ i # n + 3
      BY <2>5
    <3> QED BY <2>1, <2>6, <2>8, <3>1
  <2>10. b > n + 3
    <3>1. ~(n + 3 \in b..(i - 1))
      BY <2>5, <2>6
    <3> QED BY <2>1, <2>6, <2>9, <3>1
  <2>11. i - (n + 3) \in 1..m /\ back[i - (n + 3)] = "user"
    <3>1. i - (n + 3) \in 1..m /\ n + 3 + (i - (n + 3)) = i
      BY <2>1, <2>9
    <3> QED BY <2>5, <3>1
  <2>12. InSection(back, i - (n + 3))
    <3>1. b - (n + 3) \in 1..(i - (n + 3)) /\ back[b - (n + 3)] = "begin"
      <4>1. b - (n + 3) \in 1..(i - (n + 3)) /\ b - (n + 3) \in 1..m /\ n + 3 + (b - (n + 3)) = b
        BY <2>1, <2>6, <2>10
      <4> QED BY <2>5, <2>6, <4>1
    <3>2. ASSUME NEW j \in (b - (n + 3))..(i - (n + 3) - 1) PROVE back[j] # "end"
      <4>1. n + 3 + j \in b..(i - 1) /\ j \in 1..m
        BY <2>1, <2>6, <2>10
      <4> QED BY <2>5, <2>6, <4>1
    <3>3. e - (n + 3) \in (i - (n + 3))..m /\ back[e - (n + 3)] = "end"
      <4>1. e - (n + 3) \in (i - (n + 3))..m /\ e - (n + 3) \in 1..m /\ n + 3 + (e - (n + 3)) = e
        BY <2>1, <2>7, <2>9
      <4> QED BY <2>5, <2>7, <4>1
    <3>4. Len(back) = m
      BY DEF m
    <3> QED BY <3>1, <3>2, <3>3, <3>4 DEF InSection
  <2> QED BY <2>1, <2>11, <2>12 DEF OwnLines
<1> QED BY <1>4, <1>5

LEMMA UpTo == \A a, b \in Int : a <= b => a = b \/ a < b
OBVIOUS

\* An install keeps the user's lines, and puts none into a section.
LEMMA ReplaceKeepsLines ==
  ASSUME NEW lines \in Text, OwnLines(lines)
  PROVE  /\ OwnLines(ReplaceManagedSection(lines))
         /\ UserLines(ReplaceManagedSection(lines)) = UserLines(lines)
<1> Len(lines) \in Nat /\ DOMAIN lines = 1..Len(lines)
  BY UsersFinite
<1> DEFINE s == First(lines, "begin", 1)
           e == IF s = 0 THEN 0 ELSE First(lines, "end", s)
<1>1. CASE e = 0
  BY <1>1 DEF ReplaceManagedSection
<1>2. CASE e # 0
  <2>1. \E i \in 1..Len(lines) : lines[i] = "begin"
    BY <1>2 DEF First
  <2>2. s \in 1..Len(lines) /\ lines[s] = "begin" /\ \A j \in 1..(s - 1) : lines[j] # "begin"
    BY <2>1, FirstIs
  <2>3. \E i \in s..Len(lines) : lines[i] = "end"
    BY <1>2, <2>2 DEF First
  <2>4. e \in s..Len(lines) /\ lines[e] = "end" /\ \A j \in s..(e - 1) : lines[j] # "end"
    BY <2>2, <2>3, FirstIs
  <2> HIDE DEF e, s
  <2> DEFINE front == SubSeq(lines, 1, s - 1)
             tail == SubSeq(lines, s, Len(lines))
             middle == SubSeq(tail, 1, e - s + 1)
             back == SubSeq(lines, e + 1, Len(lines))
  <2>5. ReplaceManagedSection(lines) = front \o Section \o back
    BY <1>2 DEF ReplaceManagedSection, From, s, e
  <2>6. \A i \in 1..Len(lines) : lines[i] \in {"sh", "user", "begin", "body", "end"}
    BY ElementOfSeq DEF Text
  <2>7. /\ tail \in Text /\ Len(tail) = Len(lines) - s + 1
        /\ \A i \in 1..(Len(lines) - s + 1) : tail[i] = lines[s + i - 1]
    BY <2>2, <2>6, SubSeqProperties DEF Text
  <2>8. front \in Text /\ UserLines(lines) = UserLines(front) + UserLines(tail) /\ UserLines(front) \in Nat
    <3>1. s - 1 \in 0..Len(lines) /\ (s - 1) + 1 = s
      BY <2>2
    <3> QED BY <3>1, CountSplit, UsersFinite
  <2>9. SubSeq(tail, e - s + 2, Len(tail)) = back
    <3>1. e = Len(lines) \/ e < Len(lines)
      <4>1. e \in Int /\ Len(lines) \in Int /\ e <= Len(lines)
        BY <2>2, <2>4
      <4> QED BY <4>1, UpTo
    <3>2. CASE e = Len(lines)
      <4>1. back = <<>>
        BY <3>2, SubSeqEmpty
      <4>2. SubSeq(tail, e - s + 2, Len(tail)) = <<>>
        <5>1. Len(tail) < e - s + 2 /\ Len(tail) \in Int /\ e - s + 2 \in Int
          BY <2>2, <2>4, <2>7, <3>2
        <5> QED BY <5>1, SubSeqEmpty
      <4> QED BY <4>1, <4>2
    <3>3. CASE e < Len(lines)
      <4>1. /\ s \in 1..Len(lines) /\ Len(lines) \in 1..Len(lines)
            /\ e - s + 2 \in 1..(Len(lines) - s + 1) /\ Len(tail) \in 1..(Len(lines) - s + 1)
            /\ s + (e - s + 2) - 1 = e + 1 /\ s + Len(tail) - 1 = Len(lines)
        BY <2>2, <2>4, <2>7, <3>3
      <4>2. SubSeq(SubSeq(lines, s, Len(lines)), e - s + 2, Len(tail)) =
              SubSeq(lines, s + (e - s + 2) - 1, s + Len(tail) - 1)
        <5> DEFINE k == e - s + 2
                   l == Len(tail)
        <5>1. k \in 1..(Len(lines) - s + 1) /\ l \in 1..(Len(lines) - s + 1)
          BY <4>1
        <5> HIDE DEF k, l
        <5>2. SubSeq(SubSeq(lines, s, Len(lines)), k, l) = SubSeq(lines, s + k - 1, s + l - 1)
          BY <4>1, <5>1, SubSeqOfSubSeq DEF Text
        <5> QED BY <5>2 DEF k, l
      <4> QED BY <4>1, <4>2
    <3> QED BY <3>1, <3>2, <3>3
  <2>10. middle \in Text /\ UserLines(tail) = UserLines(middle) + UserLines(back)
    <3>1. e - s + 1 \in 0..Len(tail) /\ (e - s + 1) + 1 = e - s + 2
      BY <2>2, <2>4, <2>7
    <3> HIDE DEF back, tail
    <3> QED BY <2>7, <2>9, <3>1, CountSplit
  <2>11. UserLines(middle) = 0
    <3>1. \A i \in s..e : lines[i] # "user"
      <4> SUFFICES ASSUME NEW i \in s..e PROVE InSection(lines, i)
        BY <2>2, <2>4 DEF OwnLines
      <4>1. s \in 1..i /\ e \in i..Len(lines) /\ \A j \in s..(i - 1) : lines[j] # "end"
        BY <2>2, <2>4
      <4> QED BY <2>2, <2>4, <4>1 DEF InSection
    <3>2. /\ Len(middle) = e - s + 1
          /\ \A i \in 1..(e - s + 1) : middle[i] = tail[i]
      <4>1. /\ 1 \in Int /\ e - s + 1 \in Int /\ e - s + 1 >= 1 /\ e - s + 1 <= Len(tail)
        BY <2>2, <2>4, <2>7
      <4>2. \A i \in 1..(e - s + 1) : tail[i] \in {"sh", "user", "begin", "body", "end"}
        BY <2>2, <2>4, <2>6, <2>7
      <4> HIDE DEF tail
      <4>3. /\ Len(SubSeq(tail, 1, e - s + 1)) = IF 1 <= e - s + 1 THEN (e - s + 1) - 1 + 1 ELSE 0
            /\ \A i \in 1..((e - s + 1) - 1 + 1) : SubSeq(tail, 1, e - s + 1)[i] = tail[1 + i - 1]
        BY <4>1, <4>2, SubSeqProperties
      <4>4. (e - s + 1) - 1 + 1 = e - s + 1 /\ \A i \in 1..(e - s + 1) : 1 + i - 1 = i
        BY <4>1
      <4> QED BY <4>1, <4>3, <4>4
    <3>3. \A i \in 1..(e - s + 1) : middle[i] # "user"
      <4> SUFFICES ASSUME NEW i \in 1..(e - s + 1) PROVE middle[i] # "user"
        OBVIOUS
      <4>1. s + i - 1 \in s..e /\ i \in 1..(Len(lines) - s + 1)
        BY <2>2, <2>4
      <4>2. middle[i] = lines[s + i - 1]
        BY <2>7, <3>2, <4>1
      <4> QED BY <3>1, <4>1, <4>2
    <3>4. DOMAIN middle = 1..(e - s + 1)
      <4> HIDE DEF middle
      <4> QED BY <2>10, <3>2, UsersFinite
    <3> HIDE DEF middle
    <3>5. ~Holds(middle, "user")
      BY <3>3, <3>4 DEF Holds
    <3> QED BY <2>10, <3>5, CountNone
  <2>12. ~Holds(front, "begin")
    <3>1. /\ Len(front) = s - 1
          /\ \A i \in 1..(s - 1) : front[i] = lines[i]
      BY <2>2, <2>6, SubSeqProperties DEF Text
    <3>2. DOMAIN front = 1..(s - 1)
      <4> HIDE DEF front
      <4> QED BY <2>8, <3>1, UsersFinite
    <3> QED BY <2>2, <3>1, <3>2 DEF Holds
  <2>13. back \in Text /\ OwnLines(back) /\ UserLines(back) \in Nat
    <3>1. e + 1 \in 1..(Len(lines) + 1)
      BY <2>2, <2>4
    <3>2. back \in Text
      BY <3>1, ClosedFrom
    <3> QED BY <3>1, <3>2, OwnAfter, UsersFinite
  <2> HIDE DEF front, back, middle, tail
  <2>14. /\ OwnLines(front \o Section \o back)
         /\ UserLines(front \o Section \o back) = UserLines(front) + UserLines(back)
    BY <2>8, <2>12, <2>13, AroundSection
  <2>15. UserLines(lines) = UserLines(front) + UserLines(back)
    BY <2>8, <2>10, <2>11, <2>13
  <2> QED BY <2>5, <2>14, <2>15
<1> QED BY <1>1, <1>2

LEMMA InstallKeepsLines ==
  ASSUME NEW lines \in Text, OwnLines(lines)
  PROVE  OwnLines(InstallHook(lines)) /\ UserLines(InstallHook(lines)) = UserLines(lines)
<1>0. Len(lines) \in Nat /\ DOMAIN lines = 1..Len(lines) /\ UserLines(lines) \in Nat
  BY UsersFinite
<1>1. <<"sh">> \in Text /\ ~Holds(<<"sh">>, "begin") /\ ~Holds(<<"sh">>, "user")
  BY SectionClosed DEF Holds
<1>2. UserLines(<<"sh">>) = 0
  BY <1>1, CountNone
<1>3. ASSUME NEW back \in Text, OwnLines(back)
      PROVE  /\ OwnLines(<<"sh">> \o Section \o back)
             /\ UserLines(<<"sh">> \o Section \o back) = UserLines(back)
  <2>1. UserLines(back) \in Nat
    BY UsersFinite
  <2>2. /\ OwnLines(<<"sh">> \o Section \o back)
        /\ UserLines(<<"sh">> \o Section \o back) = UserLines(<<"sh">>) + UserLines(back)
    BY <1>1, <1>3, AroundSection
  <2> QED BY <1>2, <2>1, <2>2
<1>4. CASE lines = <<>>
  <2>1. ~Holds(lines, "begin")
    BY <1>4 DEF Holds
  <2>2. InstallHook(lines) = <<"sh">> \o Section
    BY <1>4, <2>1 DEF InstallHook
  <2>3. <<"sh">> \o Section \in Text
    BY <1>1, SectionClosed, Concat
  <2>4. <<"sh">> \o Section \o <<>> = <<"sh">> \o Section
    BY <2>3, ConcatEmptySeq DEF Text
  <2> QED BY <1>3, <1>4, <2>2, <2>4
<1>5. CASE lines # <<>> /\ Holds(lines, "begin")
  BY <1>5, ReplaceKeepsLines DEF InstallHook
<1>6. CASE lines # <<>> /\ ~Holds(lines, "begin")
  <2>1. InstallHook(lines) = IF Head(lines) = "sh" THEN <<"sh">> \o Section \o Tail(lines)
                                                  ELSE <<"sh">> \o Section \o lines
    BY <1>6 DEF InstallHook
  <2>2. CASE Head(lines) = "sh"
    <3>1. Tail(lines) = SubSeq(lines, 2, Len(lines)) /\ Len(lines) # 0
      BY <1>6, TailIsSubSeq, EmptySeq, LenProperties DEF Text
    <3>2. 2 \in 1..(Len(lines) + 1) /\ 1 \in 0..Len(lines) /\ 1 + 1 = 2
      BY <1>0, <3>1
    <3>3. Tail(lines) \in Text /\ OwnLines(Tail(lines)) /\ UserLines(Tail(lines)) \in Nat
      BY <3>1, <3>2, ClosedFrom, OwnAfter, UsersFinite
    <3>4. /\ SubSeq(lines, 1, 1) \in Text
          /\ UserLines(lines) = UserLines(SubSeq(lines, 1, 1)) + UserLines(Tail(lines))
      <4>1. /\ SubSeq(lines, 1, 1) \in Text
            /\ UserLines(lines) = UserLines(SubSeq(lines, 1, 1)) + UserLines(SubSeq(lines, 1 + 1, Len(lines)))
        BY <3>2, CountSplit
      <4> QED BY <3>1, <3>2, <4>1
    <3>5. ~Holds(SubSeq(lines, 1, 1), "user")
      <4>1. lines[1] = "sh"
        BY <2>2
      <4>2. lines[1] \in {"sh"}
        BY <4>1
      <4>3. Len(SubSeq(lines, 1, 1)) = 1 /\ SubSeq(lines, 1, 1)[1] = lines[1]
        <5>1. \A i \in 1..1 : lines[i] \in {"sh"}
          BY <4>2
        <5> QED BY <5>1, SubSeqProperties
      <4>4. DOMAIN SubSeq(lines, 1, 1) = 1..1
        BY <3>4, <4>3, UsersFinite
      <4> QED BY <4>1, <4>3, <4>4 DEF Holds
    <3>6. UserLines(SubSeq(lines, 1, 1)) = 0
      BY <3>4, <3>5, CountNone
    <3>7. UserLines(lines) = UserLines(Tail(lines))
      BY <3>3, <3>4, <3>6
    <3> QED BY <1>3, <2>1, <2>2, <3>3, <3>7
  <2>3. CASE Head(lines) # "sh"
    BY <1>3, <2>1, <2>3
  <2> QED BY <2>2, <2>3
<1> QED BY <1>4, <1>5, <1>6

\* An uninstall keeps the user's lines.
LEMMA UninstallKeepsLines ==
  ASSUME NEW lines \in Text, OwnLines(lines)
  PROVE  OwnLines(UninstallHook(lines)) /\ UserLines(UninstallHook(lines)) = UserLines(lines)
<1>0. Len(lines) \in Nat /\ DOMAIN lines = 1..Len(lines)
  BY UsersFinite
<1> DEFINE rest == RemoveManagedSection(lines)
           outside == {i \in 1..Len(lines) : ~InSection(lines, i)}
<1>1. PICK n \in Nat :
        \E nth \in [1..n -> outside] :
          /\ rest = [k \in 1..n |-> lines[nth[k]]]
          /\ \A k, l \in 1..n : k < l => nth[k] < nth[l]
          /\ \A i \in 1..Len(lines) : ~InSection(lines, i) => \E k \in 1..n : nth[k] = i
  BY Removed
<1>2. PICK nth \in [1..n -> outside] :
          /\ rest = [k \in 1..n |-> lines[nth[k]]]
          /\ \A k, l \in 1..n : k < l => nth[k] < nth[l]
          /\ \A i \in 1..Len(lines) : ~InSection(lines, i) => \E k \in 1..n : nth[k] = i
  BY <1>1
<1>3. \A i \in 1..Len(lines) : lines[i] \in {"sh", "user", "begin", "body", "end"}
  BY ElementOfSeq DEF Text
<1>4. \A k \in 1..n : nth[k] \in 1..Len(lines) /\ ~InSection(lines, nth[k])
  <2> SUFFICES ASSUME NEW k \in 1..n PROVE nth[k] \in outside
    OBVIOUS
  <2> HIDE DEF outside
  <2> QED OBVIOUS
<1> HIDE DEF rest, outside
<1>5. rest \in Text /\ DOMAIN rest = 1..n /\ \A k \in 1..n : rest[k] = lines[nth[k]]
  <2>1. \A k \in 1..n : lines[nth[k]] \in {"sh", "user", "begin", "body", "end"}
    BY <1>3, <1>4
  <2>2. rest \in Text
    BY <1>2, <2>1 DEF Text
  <2> QED BY <1>2, <2>2
<1>6. Len(rest) = n
  BY <1>5, LenProperties DEF Text
<1>7. \A i \in 1..n : ~InSection(rest, i)
  <2> SUFFICES ASSUME NEW i \in 1..n, NEW b \in 1..i, rest[b] = "begin",
                      NEW e \in i..n, rest[e] = "end"
               PROVE  FALSE
    BY <1>6 DEF InSection
  <2>1. b \in 1..n /\ e \in 1..n /\ b <= e
    OBVIOUS
  <2>2. nth[b] <= nth[e]
    <3>1. nth[b] \in Nat /\ nth[e] \in Nat
      BY <1>0, <1>4, <2>1
    <3>2. b < e => nth[b] < nth[e]
      BY <1>2, <2>1
    <3>3. b < e \/ b = e
      BY <2>1
    <3> QED BY <3>1, <3>2, <3>3
  <2>3. lines[nth[b]] = "begin" /\ lines[nth[e]] = "end"
    BY <1>5, <2>1
  <2>4. nth[b] \in 1..Len(lines) /\ nth[e] \in 1..Len(lines)
    BY <1>4, <2>1
  <2>5. InSection(lines, nth[b])
    <3>1. nth[b] \in 1..nth[b] /\ \A j \in nth[b]..(nth[b] - 1) : lines[j] # "end"
      BY <1>0, <2>4
    <3>2. nth[e] \in nth[b]..Len(lines)
      BY <1>0, <2>2, <2>4
    <3> QED BY <2>3, <3>1, <3>2 DEF InSection
  <2> QED BY <1>4, <2>1, <2>5
<1>8. UserLines(rest) = UserLines(lines)
  <2> DEFINE f == [k \in Users(rest) |-> nth[k]]
  <2>1. \A k \in Users(rest) : k \in 1..n /\ nth[k] \in Users(lines)
    BY <1>0, <1>4, <1>5 DEF Users
  <2>2. f \in [Users(rest) -> Users(lines)]
    BY <2>1
  <2>3. ASSUME NEW k \in Users(rest), NEW l \in Users(rest), f[k] = f[l] PROVE k = l
    <3>1. nth[k] = nth[l] /\ k \in 1..n /\ l \in 1..n
      BY <2>1, <2>3
    <3>2. nth[k] \in Nat /\ nth[l] \in Nat
      BY <1>0, <1>4, <3>1
    <3>3. ~(k < l) /\ ~(l < k)
      BY <1>2, <3>1, <3>2
    <3> QED BY <3>1, <3>3
  <2>4. ASSUME NEW i \in Users(lines) PROVE \E k \in Users(rest) : f[k] = i
    <3>1. i \in 1..Len(lines) /\ lines[i] = "user" /\ ~InSection(lines, i)
      BY <1>0, <2>4 DEF Users, OwnLines
    <3>2. PICK k \in 1..n : nth[k] = i
      BY <1>2, <3>1
    <3>3. k \in Users(rest)
      BY <1>5, <3>1, <3>2 DEF Users
    <3> QED BY <3>2, <3>3
  <2> HIDE DEF f
  <2>5. IsFiniteSet(Users(rest)) /\ UserLines(rest) = Cardinality(Users(rest))
        /\ UserLines(lines) = Cardinality(Users(lines))
    BY <1>5, UsersFinite
  <2>6. Cardinality(Users(lines)) = Cardinality(Users(rest))
    BY <2>2, <2>3, <2>4, <2>5, SameSize
  <2> QED BY <2>5, <2>6
<1>9. OwnLines(rest)
  BY <1>5, <1>7 DEF OwnLines
<1>10. CASE rest \in {<<>>, <<"sh">>}
  <2>1. <<>> \in Text /\ ~Holds(<<>>, "user")
    BY SectionClosed DEF Holds
  <2>2. UserLines(<<>>) = 0 /\ OwnLines(<<>>)
    BY <2>1, CountNone DEF OwnLines
  <2>3. ~Holds(rest, "user")
    BY <1>10 DEF Holds
  <2>4. UserLines(rest) = 0
    BY <1>5, <2>3, CountNone
  <2> QED BY <1>8, <1>10, <2>2, <2>4 DEF UninstallHook, rest
<1>11. CASE rest \notin {<<>>, <<"sh">>}
  BY <1>8, <1>9, <1>11 DEF UninstallHook, rest
<1> QED BY <1>10, <1>11

-----------------------------------------------------------------------------
(* The invariant.                                                          *)

Script  == {lines \in Text : Closed(lines)}
Scope   == {"global", "local"}
Editor  == {"", "empty"} \cup Place \cup {m.editor : m \in Homes}
PathOf  == {"", "lrc", "own"}
Meta    == [is : BOOLEAN, prev : PathOf, set : BOOLEAN]
Matcher == {"managed", "git", "claude", "all"} \cup UNION {m.claude : m \in Homes}

InstallPc == {"path", "scripts", "backup", "wrapper", "editor", "hooks", "cscripts", "settings", "legacy"}
OtherPc   == {"unset", "unscript", "umeta", "ueditor", "uwrap", "uhooks", "upath",
              "shell", "config", "binaries", "read", "clear", "mark"}
IdlePc    == {"wait", "done", "killed"}

Misses  == SUBSET (Hook \cup {"editor", "claude"})
Planned == UNION {{plan[o] : o \in Op} : plan \in Plans}
OpState ==
  [plan : Planned, pc : InstallPc \cup OtherPc \cup IdlePc,
   place : Place, prev : PathOf, set : BOOLEAN, meta : Meta,
   todo : SUBSET Hook, read : SUBSET Matcher, alone : BOOLEAN, missed : Misses]

HookTypeOK ==
  /\ mine \in Homes
  /\ hooksPath \in PathOf
  /\ editor \in [Scope -> Editor]
  /\ script \in SUBSET Place /\ wrapper \in SUBSET Place
  /\ backup \in [Place -> Editor]
  /\ hook \in [Place -> [Hook -> Text]]
  /\ meta \in [Place -> Meta]
  /\ claude \in SUBSET Matcher /\ claudeScript \in BOOLEAN /\ legacy \in BOOLEAN
  /\ marker \in SUBSET Matcher
  /\ op \in [Op -> OpState]
  /\ trace.clash \in BOOLEAN

\* Only installs install, and a command has missed nothing before it begins.
Sorts == \A o \in Op : /\ op[o].pc \in InstallPc => Kind(o) = "install"
                       /\ op[o].pc \in OtherPc   => Kind(o) # "install"
                       /\ op[o].pc # "wait"      => op[o].plan # NoOp
                       /\ op[o].pc = "wait"      => op[o].missed = {}

\* A repository's core.editor never names the wrapper of a global place, nor the reverse, and
\* no wrapper is backed up.
Editors ==
  /\ editor["global"] \notin {"repo", "empty"} /\ editor["local"] \notin {"lrc", "own", "empty"}
  /\ \A p \in Place : backup[p] \notin Place

\* The user's script having no section, every section is lrc's and has its end.
Sections == ~Holds(mine.lines, "begin") => \A p \in Place, h \in Hook : Closed(hook[p][h])

\* As long as nothing but installs has overlapped: who is at work, what it has done, and that
\* nothing dangles.
Overlap == \A a, b \in Busy : a = b \/ (Kind(a) = "install" /\ Kind(b) = "install")
Ready(o) ==
  /\ op[o].pc \in {"backup", "wrapper", "editor", "hooks"} => op[o].place \in script
  /\ op[o].pc = "editor"   => op[o].place \in wrapper
  /\ op[o].pc = "settings" => claudeScript
  /\ op[o].pc = "unscript" => "managed" \notin claude
  /\ op[o].pc \in {"uwrap", "uhooks"} => EditorMissed \/ \A s \in Scope : editor[s] # op[o].place
  /\ op[o].pc \in {"wait", "unset", "unscript", "umeta", "ueditor", "uwrap"} => op[o].todo = Hook
  /\ op[o].pc = "uhooks" /\ ~Holds(mine.lines, "begin")
       => \A h \in Hook \ (op[o].todo \cup op[o].missed) : ~Holds(hook[op[o].place][h], "begin")
NamedEditor ==
  /\ \A s \in Scope : editor[s] \in Place => editor[s] \in wrapper
  /\ \A p \in Place : backup[p] # "empty"
NamedHooks ==
  ~Holds(mine.lines, "begin")
    => \A p \in Place, h \in Hook : Holds(hook[p][h], "begin") => p \in script \/ HookMissed(p, h)
Named == (EditorMissed \/ NamedEditor) /\ NamedHooks /\ ("managed" \in claude => claudeScript)

HookInv ==
  /\ HookTypeOK /\ Sorts /\ Editors /\ Sections
  /\ ~trace.clash => Overlap /\ (\A o \in Op : Ready(o)) /\ Named

\* The place of a global command; a command that uninstalls everything.
GlobalPlace == IF hooksPath \in {"", "lrc"} THEN "lrc" ELSE "own"
Whole(o) == Kind(o) \in {"uninstall", "remove"} /\ op[o].plan.surface = "all" /\ ~Local(o)

-----------------------------------------------------------------------------
(* Moves of a command.                                                     *)

Pc == InstallPc \cup OtherPc \cup IdlePc

\* o goes to pc; nobody else does; what has been missed stays missed.
Moves(o, pc) ==
  /\ op' \in [Op -> OpState]
  /\ \A q \in Op : q # o => op'[q] = op[q]
  /\ op'[o].pc = pc /\ op'[o].plan = op[o].plan /\ op'[o].place = op[o].place
  /\ op[o].missed \subseteq op'[o].missed

LEMMA GoOnMoves ==
  ASSUME op \in [Op -> OpState], NEW o \in Op, NEW pc \in Pc, GoOn(o, pc)
  PROVE  Moves(o, pc) /\ op'[o].todo = op[o].todo /\ op'[o].missed = op[o].missed
<1>1. op[o] \in OpState
  OBVIOUS
<1>2. op' = [op EXCEPT ![o] = [op[o] EXCEPT !.pc = pc]]
  BY DEF GoOn
<1>3. [op[o] EXCEPT !.pc = pc] \in OpState
  BY <1>1 DEF OpState, Pc
<1>4. op'[o] = [op[o] EXCEPT !.pc = pc]
  BY <1>2
<1>5. op' \in [Op -> OpState] /\ \A q \in Op : q # o => op'[q] = op[q]
  BY <1>2, <1>3
<1> QED BY <1>1, <1>4, <1>5 DEF Moves, OpState

LEMMA SetReadMoves ==
  ASSUME op \in [Op -> OpState], NEW o \in Op, NEW pc \in Pc, NEW v \in SUBSET Matcher,
         Set(o, pc, "read", v)
  PROVE  /\ Moves(o, pc) /\ op'[o].todo = op[o].todo /\ op'[o].missed = op[o].missed
         /\ op'[o].read = v
<1>1. op[o] \in OpState
  OBVIOUS
<1>2. op' = [op EXCEPT ![o] = [op[o] EXCEPT !.pc = pc, !.read = v]]
  BY DEF Set
<1>3. [op[o] EXCEPT !.pc = pc, !.read = v] \in OpState
  BY <1>1 DEF OpState, Pc
<1>4. op'[o] = [op[o] EXCEPT !.pc = pc, !.read = v]
  BY <1>2
<1>5. op' \in [Op -> OpState] /\ \A q \in Op : q # o => op'[q] = op[q]
  BY <1>2, <1>3
<1> QED BY <1>1, <1>4, <1>5 DEF Moves, OpState

LEMMA SetMetaMoves ==
  ASSUME op \in [Op -> OpState], NEW o \in Op, NEW pc \in Pc, NEW v \in Meta,
         Set(o, pc, "meta", v)
  PROVE  Moves(o, pc) /\ op'[o].todo = op[o].todo /\ op'[o].missed = op[o].missed
<1>1. op[o] \in OpState
  OBVIOUS
<1>2. op' = [op EXCEPT ![o] = [op[o] EXCEPT !.pc = pc, !.meta = v]]
  BY DEF Set
<1>3. [op[o] EXCEPT !.pc = pc, !.meta = v] \in OpState
  BY <1>1 DEF OpState, Pc
<1>4. op'[o] = [op[o] EXCEPT !.pc = pc, !.meta = v]
  BY <1>2
<1>5. op' \in [Op -> OpState] /\ \A q \in Op : q # o => op'[q] = op[q]
  BY <1>2, <1>3
<1> QED BY <1>1, <1>4, <1>5 DEF Moves, OpState

LEMMA TodoMoves ==
  ASSUME op \in [Op -> OpState], NEW o \in Op, NEW h \in Hook,
         op' = [op EXCEPT ![o].todo = @ \ {h}]
  PROVE  Moves(o, op[o].pc) /\ op'[o].todo = op[o].todo \ {h} /\ op'[o].missed = op[o].missed
<1>1. op[o] \in OpState
  OBVIOUS
<1>2. op' = [op EXCEPT ![o] = [op[o] EXCEPT !.todo = op[o].todo \ {h}]]
  OBVIOUS
<1>3. [op[o] EXCEPT !.todo = op[o].todo \ {h}] \in OpState
  BY <1>1 DEF OpState
<1>4. op'[o] = [op[o] EXCEPT !.todo = op[o].todo \ {h}]
  BY <1>2
<1>5. op' \in [Op -> OpState] /\ \A q \in Op : q # o => op'[q] = op[q]
  BY <1>2, <1>3
<1> QED BY <1>1, <1>4, <1>5 DEF Moves, OpState

LEMMA MissMoves ==
  ASSUME op \in [Op -> OpState], NEW o \in Op, NEW pc \in Pc, NEW what \in Misses, Miss(o, pc, what)
  PROVE  Moves(o, pc) /\ op'[o].todo = op[o].todo /\ op'[o].missed = op[o].missed \cup what
<1>1. op[o] \in OpState
  OBVIOUS
<1>2. op' = [op EXCEPT ![o] = [op[o] EXCEPT !.pc = pc, !.missed = op[o].missed \cup what]]
  BY <1>1 DEF Miss, OpState
<1>3. [op[o] EXCEPT !.pc = pc, !.missed = op[o].missed \cup what] \in OpState
  BY <1>1 DEF OpState, Pc, Misses
<1>4. op'[o] = [op[o] EXCEPT !.pc = pc, !.missed = op[o].missed \cup what]
  BY <1>2
<1>5. op' \in [Op -> OpState] /\ \A q \in Op : q # o => op'[q] = op[q]
  BY <1>2, <1>3
<1> QED BY <1>1, <1>4, <1>5 DEF Moves, OpState

LEMMA MissHookMoves ==
  ASSUME op \in [Op -> OpState], NEW o \in Op, NEW pc \in Pc, NEW h \in Hook, MissHook(o, pc, h)
  PROVE  Moves(o, pc) /\ op'[o].todo = op[o].todo \ {h} /\ op'[o].missed = op[o].missed \cup {h}
<1>1. op[o] \in OpState
  OBVIOUS
<1> DEFINE new == [op[o] EXCEPT !.pc = pc, !.todo = op[o].todo \ {h}, !.missed = op[o].missed \cup {h}]
<1>2. op' = [op EXCEPT ![o] = new]
  BY <1>1 DEF MissHook, OpState
<1>3. /\ new \in OpState /\ new.pc = pc /\ new.plan = op[o].plan /\ new.place = op[o].place
      /\ new.todo = op[o].todo \ {h} /\ new.missed = op[o].missed \cup {h}
  BY <1>1 DEF OpState, Pc, Misses
<1> HIDE DEF new
<1>4. op'[o] = new
  BY <1>2
<1>5. op' \in [Op -> OpState] /\ \A q \in Op : q # o => op'[q] = op[q]
  BY <1>2, <1>3
<1> QED BY <1>3, <1>4, <1>5 DEF Moves

LEMMA EitherMoves ==
  ASSUME op \in [Op -> OpState], NEW o \in Op, NEW pc \in Pc, GoOn(o, pc) \/ Miss(o, pc, {})
  PROVE  Moves(o, pc) /\ op'[o].todo = op[o].todo /\ op'[o].missed = op[o].missed
<1>1. CASE GoOn(o, pc)
  BY <1>1, GoOnMoves
<1>2. CASE Miss(o, pc, {})
  <2>1. {} \in Misses
    BY DEF Misses
  <2>2. Moves(o, pc) /\ op'[o].todo = op[o].todo /\ op'[o].missed = op[o].missed \cup {}
    BY <1>2, <2>1, MissMoves
  <2> QED BY <2>2
<1> QED BY <1>1, <1>2

\* What has been missed stays missed.
LEMMA MissedStays ==
  ASSUME NEW o \in Op, NEW pc, Moves(o, pc)
  PROVE  /\ EditorMissed => EditorMissed'
         /\ \A p, h : HookMissed(p, h) => HookMissed(p, h)'
<1>1. \A q \in Op : op'[q].place = op[q].place /\ op[q].missed \subseteq op'[q].missed
  BY DEF Moves
<1> QED BY <1>1 DEF EditorMissed, HookMissed

\* What an install never takes away.
Grows == /\ script \subseteq script' /\ wrapper \subseteq wrapper'
         /\ claudeScript => claudeScript'

\* A move that takes nothing away and leaves the rest alone leaves no name without its file.
LEMMA NamedRest ==
  ASSUME Named, NEW o \in Op, NEW pc, Moves(o, pc), script \subseteq script', wrapper \subseteq wrapper',
         UNCHANGED <<mine, editor, backup, hook>>
  PROVE  (EditorMissed \/ NamedEditor)' /\ NamedHooks'
<1>1. (EditorMissed \/ NamedEditor)'
  BY MissedStays DEF Named, NamedEditor
<1>2. NamedHooks'
  <2> SUFFICES ASSUME ~Holds(mine.lines, "begin"), NEW p \in Place, NEW h \in Hook,
                      Holds(hook[p][h], "begin")
               PROVE  p \in script' \/ HookMissed(p, h)'
    BY DEF NamedHooks
  <2>1. p \in script \/ HookMissed(p, h)
    BY DEF Named, NamedHooks
  <2> QED BY <2>1, MissedStays
<1> QED BY <1>1, <1>2

LEMMA NamedStays ==
  ASSUME Named, NEW o \in Op, NEW pc, Moves(o, pc), Grows,
         UNCHANGED <<mine, editor, backup, hook, claude>>
  PROVE  Named'
BY NamedRest DEF Named, Grows

\* The invariant is kept by a move of a command at work, if its own part is.
LEMMA MoveKeeps ==
  ASSUME HookInv, NEW o \in Busy, NEW pc \in Pc, Moves(o, pc),
         op[o].pc \in InstallPc => pc \in InstallPc \cup IdlePc /\ Grows,
         op[o].pc \in OtherPc => pc \in OtherPc \cup IdlePc,
         pc # "wait", trace' = trace, HookTypeOK', Editors', Sections',
         ~trace.clash => Ready(o)' /\ Named'
  PROVE  HookInv'
<1> o \in Op /\ op[o].pc \in Pc /\ op[o].pc \notin IdlePc
  BY DEF HookInv, HookTypeOK, Busy, OpState, Pc, IdlePc
<1>1. Sorts'
  <2>1. \A q \in Op : op'[q].plan = op[q].plan /\ (q # o => op'[q].pc = op[q].pc)
    BY DEF Moves
  <2>2. op'[o].pc = pc
    BY DEF Moves
  <2>3. op[o].pc \in InstallPc \/ op[o].pc \in OtherPc
    BY DEF Pc
  <2>4. \A q \in Op : q # o => op'[q].missed = op[q].missed
    BY DEF Moves
  <2> QED BY <2>1, <2>2, <2>3, <2>4 DEF HookInv, Sorts, Kind, InstallPc, OtherPc, IdlePc
<1>2. Busy' \subseteq Busy /\ \A q \in Op : Kind(q)' = Kind(q)
  BY DEF Moves, Busy, IdlePc, Kind
<1>3. ASSUME ~trace.clash PROVE Overlap' /\ \A q \in Op : Ready(q)'
  <2>1. Overlap'
    BY <1>2, <1>3 DEF HookInv, Overlap, Busy
  <2>2. ASSUME NEW q \in Op, q # o PROVE Ready(q)'
    <3>1. op'[q] = op[q] /\ Ready(q)
      BY <1>3, <2>2 DEF Moves, HookInv
    <3>2. CASE op[q].pc \in IdlePc
      BY <3>1, <3>2 DEF Ready, IdlePc
    <3>3. CASE op[q].pc \notin IdlePc
      <4>1. q \in Busy
        BY <3>3 DEF Busy, IdlePc
      <4>2. Kind(o) = "install" /\ Kind(q) = "install"
        BY <1>3, <2>2, <4>1 DEF HookInv, Overlap
      <4>3. op[q].pc \in InstallPc /\ op[o].pc \in InstallPc
        BY <3>3, <4>2 DEF HookInv, HookTypeOK, Sorts, Pc, OpState
      <4>4. Grows
        BY <4>3
      <4> QED BY <3>1, <4>3, <4>4 DEF Ready, Grows, InstallPc
    <3> QED BY <3>2, <3>3
  <2>3. Ready(o)'
    BY <1>3
  <2> QED BY <2>1, <2>2, <2>3
<1> QED BY <1>1, <1>3 DEF HookInv

LEMMA PlanFields ==
  ASSUME HookInv, NEW o \in Op, op[o].plan # NoOp
  PROVE  op[o].plan.local \in BOOLEAN /\ op[o].plan.surface \in {"git", "claude", "all"}
<1>1. PICK plan \in Plans, q \in Op : op[o].plan = plan[q]
  <2>1. op[o].plan \in Planned
    BY DEF HookInv, HookTypeOK, OpState
  <2> QED BY <2>1 DEF Planned
<1> QED BY <1>1, HookAssumption DEF NoOp

-----------------------------------------------------------------------------
(* The steps of a command.                                                 *)

LEMMA InstallPathKeeps ==
  ASSUME HookInv, NEW o \in Op, InstallPath(o)
  PROVE  HookInv'
<1> op[o].pc = "path" /\ o \in Busy /\ op[o] \in OpState /\ trace' = trace /\ mine' = mine
  BY DEF InstallPath, OpAt, Busy, HookInv, HookTypeOK
<1>1. Moves(o, "scripts") /\ op'[o].todo = op[o].todo
  BY GoOnMoves DEF InstallPath, HookInv, HookTypeOK, Pc, InstallPc, OtherPc, IdlePc
<1>2. HookTypeOK'
  BY <1>1 DEF InstallPath, Moves, HookInv, HookTypeOK, PathOf
<1>3. Editors'
  BY DEF InstallPath, HookInv, Editors
<1>4. Sections'
  BY DEF InstallPath, HookInv, Sections
<1>5. ~trace.clash => Named'
  BY <1>1, NamedStays DEF InstallPath, HookInv, Grows
<1>6. ~trace.clash => Ready(o)'
  BY <1>1 DEF InstallPath, Moves, HookInv, Ready
<1>7. Grows
  BY DEF InstallPath, Grows
<1> QED BY <1>1, <1>2, <1>3, <1>4, <1>5, <1>6, <1>7, MoveKeeps DEF Pc, InstallPc, OtherPc, IdlePc

LEMMA InstallScriptsKeeps ==
  ASSUME HookInv, NEW o \in Op, InstallScripts(o)
  PROVE  HookInv'
<1> op[o].pc = "scripts" /\ o \in Busy /\ op[o] \in OpState /\ trace' = trace /\ mine' = mine
  BY DEF InstallScripts, OpAt, Busy, HookInv, HookTypeOK
<1>1. Moves(o, "backup") /\ op'[o].todo = op[o].todo
  BY GoOnMoves DEF InstallScripts, HookInv, HookTypeOK, Pc, InstallPc, OtherPc, IdlePc
<1>2. HookTypeOK'
  BY <1>1 DEF InstallScripts, Moves, HookInv, HookTypeOK, OpState
<1>3. Editors'
  BY DEF InstallScripts, HookInv, Editors
<1>4. Sections'
  BY DEF InstallScripts, HookInv, Sections
<1>5. ~trace.clash => Named'
  BY <1>1, NamedStays DEF InstallScripts, HookInv, Grows
<1>6. ~trace.clash => Ready(o)'
  BY <1>1 DEF InstallScripts, Moves, HookInv, Ready
<1>7. Grows
  BY DEF InstallScripts, Grows
<1> QED BY <1>1, <1>2, <1>3, <1>4, <1>5, <1>6, <1>7, MoveKeeps DEF Pc, InstallPc, OtherPc, IdlePc

LEMMA InstallBackupDoes ==
  ASSUME HookInv, NEW o \in Op, InstallBackup(o)
  PROVE  /\ Moves(o, "wrapper") /\ op'[o].todo = op[o].todo
         /\ backup' \in [Place -> Editor]
         /\ \/ EditorMissed'
            \/ backup' = IF ShouldPersistEditorBackup(CoreEditor(op[o].place))
                         THEN [backup EXCEPT ![op[o].place] = CoreEditor(op[o].place)] ELSE backup
         /\ \A q \in Place : backup'[q] = backup[q] \/ backup'[q] \notin Place
<1> DEFINE p == op[o].place
           saved == [backup EXCEPT ![p] = CoreEditor(p)]
           lost  == [backup EXCEPT ![p] = "empty"]
<1>0. p \in Place /\ CoreEditor(p) \in Editor /\ backup \in [Place -> Editor] /\ "empty" \in Editor
  BY DEF CoreEditor, HookInv, HookTypeOK, Scope, OpState, Editor
<1>1. /\ saved \in [Place -> Editor] /\ lost \in [Place -> Editor]
      /\ \A q \in Place : saved[q] = IF q = p THEN CoreEditor(p) ELSE backup[q]
      /\ \A q \in Place : lost[q] = IF q = p THEN "empty" ELSE backup[q]
  BY <1>0
<1>2. \/ /\ GoOn(o, "wrapper")
         /\ backup' = IF ShouldPersistEditorBackup(CoreEditor(p)) THEN saved ELSE backup
      \/ Miss(o, "wrapper", {"editor"}) /\ backup' \in {backup, lost}
  BY DEF InstallBackup
<1> HIDE DEF p, saved, lost
<1>3. CASE /\ GoOn(o, "wrapper")
           /\ backup' = IF ShouldPersistEditorBackup(CoreEditor(p)) THEN saved ELSE backup
  <2>1. Moves(o, "wrapper") /\ op'[o].todo = op[o].todo
    BY <1>3, GoOnMoves DEF HookInv, HookTypeOK, Pc, InstallPc
  <2>2. backup' \in [Place -> Editor]
    BY <1>0, <1>1, <1>3
  <2>3. \A q \in Place : backup'[q] = backup[q] \/ backup'[q] \notin Place
    BY <1>1, <1>3 DEF ShouldPersistEditorBackup
  <2> QED BY <1>3, <2>1, <2>2, <2>3 DEF p, saved
<1>4. CASE Miss(o, "wrapper", {"editor"}) /\ backup' \in {backup, lost}
  <2>1. Moves(o, "wrapper") /\ op'[o].todo = op[o].todo /\ "editor" \in op'[o].missed
    BY <1>4, MissMoves DEF HookInv, HookTypeOK, Pc, InstallPc, Misses
  <2>2. EditorMissed'
    BY <2>1 DEF EditorMissed
  <2>3. \A q \in Place : backup'[q] = backup[q] \/ backup'[q] \notin Place
    BY <1>1, <1>4 DEF Place
  <2> QED BY <1>0, <1>1, <1>4, <2>1, <2>2, <2>3
<1> QED BY <1>2, <1>3, <1>4

LEMMA InstallBackupKeeps ==
  ASSUME HookInv, NEW o \in Op, InstallBackup(o)
  PROVE  HookInv'
<1> op[o].pc = "backup" /\ o \in Busy /\ op[o] \in OpState /\ trace' = trace /\ mine' = mine
  BY DEF InstallBackup, OpAt, Busy, HookInv, HookTypeOK
<1>1. /\ Moves(o, "wrapper") /\ op'[o].todo = op[o].todo
      /\ backup' \in [Place -> Editor]
      /\ \A q \in Place : backup'[q] = backup[q] \/ backup'[q] \notin Place
  BY InstallBackupDoes
<1>2. HookTypeOK'
  BY <1>1 DEF InstallBackup, Moves, HookInv, HookTypeOK
<1>3. Editors'
  BY <1>1 DEF InstallBackup, HookInv, Editors
<1>4. Sections'
  BY DEF InstallBackup, HookInv, Sections
<1>5. ASSUME ~trace.clash PROVE Named'
  <2>0. Named
    BY <1>5 DEF HookInv
  <2>1. EditorMissed' \/ NamedEditor'
    <3>1. EditorMissed => EditorMissed'
      BY <1>1, MissedStays
    <3>2. op[o].place \in Place /\ backup \in [Place -> Editor] /\ CoreEditor(op[o].place) # "empty"
      BY DEF CoreEditor, HookInv, HookTypeOK, Editors, OpState
    <3>3. EditorMissed' \/ \A q \in Place : backup'[q] \in {backup[q], CoreEditor(op[o].place)}
      BY <3>2, InstallBackupDoes
    <3> QED BY <2>0, <3>1, <3>2, <3>3 DEF InstallBackup, Named, NamedEditor
  <2>2. NamedHooks'
    <3> SUFFICES ASSUME ~Holds(mine.lines, "begin"), NEW q \in Place, NEW h \in Hook,
                        Holds(hook[q][h], "begin")
                 PROVE  q \in script' \/ HookMissed(q, h)'
      BY DEF NamedHooks, InstallBackup
    <3>1. q \in script \/ HookMissed(q, h)
      BY <2>0 DEF Named, NamedHooks
    <3> QED BY <1>1, <3>1, MissedStays DEF InstallBackup
  <2> QED BY <2>0, <2>1, <2>2 DEF InstallBackup, Named
<1>6. ~trace.clash => Ready(o)'
  BY <1>1 DEF InstallBackup, Moves, HookInv, Ready
<1>7. Grows
  BY DEF InstallBackup, Grows
<1> QED BY <1>1, <1>2, <1>3, <1>4, <1>5, <1>6, <1>7, MoveKeeps DEF Pc, InstallPc, OtherPc, IdlePc

LEMMA InstallWrapperKeeps ==
  ASSUME HookInv, NEW o \in Op, InstallWrapper(o)
  PROVE  HookInv'
<1> op[o].pc = "wrapper" /\ o \in Busy /\ op[o] \in OpState /\ trace' = trace /\ mine' = mine
  BY DEF InstallWrapper, OpAt, Busy, HookInv, HookTypeOK
<1>1. Moves(o, "editor") /\ op'[o].todo = op[o].todo
  BY GoOnMoves DEF InstallWrapper, HookInv, HookTypeOK, Pc, InstallPc, OtherPc, IdlePc
<1>2. HookTypeOK'
  BY <1>1 DEF InstallWrapper, Moves, HookInv, HookTypeOK, OpState
<1>3. Editors'
  BY DEF InstallWrapper, HookInv, Editors
<1>4. Sections'
  BY DEF InstallWrapper, HookInv, Sections
<1>5. ~trace.clash => Named'
  BY <1>1, NamedStays DEF InstallWrapper, HookInv, Grows
<1>6. ~trace.clash => Ready(o)'
  BY <1>1 DEF InstallWrapper, Moves, HookInv, Ready
<1>7. Grows
  BY DEF InstallWrapper, Grows
<1> QED BY <1>1, <1>2, <1>3, <1>4, <1>5, <1>6, <1>7, MoveKeeps DEF Pc, InstallPc, OtherPc, IdlePc

LEMMA InstallEditorKeeps ==
  ASSUME HookInv, NEW o \in Op, InstallEditor(o)
  PROVE  HookInv'
<1> op[o].pc = "editor" /\ o \in Busy /\ op[o] \in OpState /\ trace' = trace /\ mine' = mine
  BY DEF InstallEditor, OpAt, Busy, HookInv, HookTypeOK
<1>1. Moves(o, "hooks") /\ op'[o].todo = op[o].todo
  BY GoOnMoves DEF InstallEditor, HookInv, HookTypeOK, Pc, InstallPc, OtherPc, IdlePc
<1>2. HookTypeOK'
  <2>1. ScopeOf(op[o].place) \in Scope /\ op[o].place \in Editor
    BY DEF ScopeOf, Scope, Editor, OpState
  <2> QED BY <1>1, <2>1 DEF InstallEditor, Moves, HookInv, HookTypeOK
<1>3. Editors'
  BY DEF InstallEditor, HookInv, HookTypeOK, Editors, ScopeOf, Scope, Place, OpState
<1>4. Sections'
  BY DEF InstallEditor, HookInv, Sections
<1>5. ASSUME ~trace.clash PROVE Named'
  <2>0. Named /\ op[o].place \in wrapper
    BY <1>5 DEF HookInv, Ready
  <2>1. EditorMissed' \/ NamedEditor'
    <3>1. EditorMissed => EditorMissed'
      BY <1>1, MissedStays
    <3>2. \A s \in Scope : editor'[s] \in {editor[s], op[o].place}
      BY DEF InstallEditor, HookInv, HookTypeOK
    <3> QED BY <2>0, <3>1, <3>2 DEF InstallEditor, Named, NamedEditor
  <2>2. NamedHooks'
    BY <1>1, <2>0, MissedStays DEF InstallEditor, Named, NamedHooks
  <2> QED BY <2>0, <2>1, <2>2 DEF InstallEditor, Named
<1>6. ~trace.clash => Ready(o)'
  BY <1>1 DEF InstallEditor, Moves, HookInv, Ready
<1>7. Grows
  BY DEF InstallEditor, Grows
<1> QED BY <1>1, <1>2, <1>3, <1>4, <1>5, <1>6, <1>7, MoveKeeps DEF Pc, InstallPc, OtherPc, IdlePc

LEMMA ClaudeScriptsKeeps ==
  ASSUME HookInv, NEW o \in Op, ClaudeScripts(o)
  PROVE  HookInv'
<1> op[o].pc = "cscripts" /\ o \in Busy /\ op[o] \in OpState /\ trace' = trace /\ mine' = mine
  BY DEF ClaudeScripts, OpAt, Busy, HookInv, HookTypeOK
<1>1. Moves(o, "settings") /\ op'[o].todo = op[o].todo
  BY SetReadMoves DEF ClaudeScripts, HookInv, HookTypeOK, Pc, InstallPc, OtherPc, IdlePc
<1>2. HookTypeOK'
  BY <1>1 DEF ClaudeScripts, Moves, HookInv, HookTypeOK
<1>3. Editors'
  BY DEF ClaudeScripts, HookInv, Editors
<1>4. Sections'
  BY DEF ClaudeScripts, HookInv, Sections
<1>5. ~trace.clash => Named'
  BY <1>1, NamedStays DEF ClaudeScripts, HookInv, Grows
<1>6. ~trace.clash => Ready(o)'
  BY <1>1 DEF ClaudeScripts, Moves, HookInv, Ready
<1>7. Grows
  BY DEF ClaudeScripts, Grows
<1> QED BY <1>1, <1>2, <1>3, <1>4, <1>5, <1>6, <1>7, MoveKeeps DEF Pc, InstallPc, OtherPc, IdlePc

LEMMA ClaudeSettingsKeeps ==
  ASSUME HookInv, NEW o \in Op, ClaudeSettings(o)
  PROVE  HookInv'
<1> op[o].pc = "settings" /\ o \in Busy /\ op[o] \in OpState /\ trace' = trace /\ mine' = mine
  BY DEF ClaudeSettings, OpAt, Busy, HookInv, HookTypeOK
<1>1. Moves(o, "legacy") /\ op'[o].todo = op[o].todo
  BY SetReadMoves DEF ClaudeSettings, HookInv, HookTypeOK, Pc, InstallPc, OtherPc, IdlePc
<1>2. HookTypeOK'
  <2>1. claude' \in SUBSET Matcher
    BY DEF ClaudeSettings, EnsureManagedClaudeHook, Matcher, OpState
  <2> QED BY <1>1, <2>1 DEF ClaudeSettings, Moves, HookInv, HookTypeOK
<1>3. Editors'
  BY DEF ClaudeSettings, HookInv, Editors
<1>4. Sections'
  BY DEF ClaudeSettings, HookInv, Sections
<1>5. ~trace.clash => Named'
  BY <1>1, NamedRest DEF ClaudeSettings, HookInv, Named, Ready
<1>6. ~trace.clash => Ready(o)'
  BY <1>1 DEF ClaudeSettings, Moves, HookInv, Ready
<1>7. Grows
  BY DEF ClaudeSettings, Grows
<1> QED BY <1>1, <1>2, <1>3, <1>4, <1>5, <1>6, <1>7, MoveKeeps DEF Pc, InstallPc, OtherPc, IdlePc

LEMMA RemoveLegacyKeeps ==
  ASSUME HookInv, NEW o \in Op, RemoveLegacy(o)
  PROVE  HookInv'
<1> op[o].pc = "legacy" /\ o \in Busy /\ op[o] \in OpState /\ trace' = trace /\ mine' = mine
  BY DEF RemoveLegacy, OpAt, Busy, HookInv, HookTypeOK
<1>1. Moves(o, "done") /\ op'[o].todo = op[o].todo
  BY GoOnMoves DEF RemoveLegacy, HookInv, HookTypeOK, Pc, InstallPc, OtherPc, IdlePc
<1>2. HookTypeOK'
  BY <1>1 DEF RemoveLegacy, Moves, HookInv, HookTypeOK
<1>3. Editors'
  BY DEF RemoveLegacy, HookInv, Editors
<1>4. Sections'
  BY DEF RemoveLegacy, HookInv, Sections
<1>5. ~trace.clash => Named'
  BY <1>1, NamedStays DEF RemoveLegacy, HookInv, Grows
<1>6. ~trace.clash => Ready(o)'
  BY <1>1 DEF Moves, Ready
<1>7. Grows
  BY DEF RemoveLegacy, Grows
<1> QED BY <1>1, <1>2, <1>3, <1>4, <1>5, <1>6, <1>7, MoveKeeps DEF Pc, InstallPc, OtherPc, IdlePc

LEMMA UninstallClaudeKeeps ==
  ASSUME HookInv, NEW o \in Op, UninstallClaude(o)
  PROVE  HookInv'
<1> op[o].pc = "unset" /\ o \in Busy /\ op[o] \in OpState /\ trace' = trace /\ mine' = mine
  BY DEF UninstallClaude, OpAt, Busy, HookInv, HookTypeOK
<1>1. Moves(o, "unscript") /\ op'[o].todo = op[o].todo
  BY GoOnMoves DEF UninstallClaude, HookInv, HookTypeOK, Pc, InstallPc, OtherPc, IdlePc
<1>2. HookTypeOK'
  BY <1>1 DEF UninstallClaude, Moves, HookInv, HookTypeOK, RemoveManagedClaudeHook
<1>3. Editors'
  BY DEF UninstallClaude, HookInv, Editors
<1>4. Sections'
  BY DEF UninstallClaude, HookInv, Sections
<1>5. ~trace.clash => Named'
  BY <1>1, NamedRest DEF UninstallClaude, RemoveManagedClaudeHook, HookInv, Named
<1>6. ~trace.clash => Ready(o)'
  BY <1>1 DEF UninstallClaude, RemoveManagedClaudeHook, Moves, HookInv, Ready
<1> QED BY <1>1, <1>2, <1>3, <1>4, <1>5, <1>6, MoveKeeps DEF Pc, InstallPc, OtherPc, IdlePc

LEMMA UninstallClaudeScriptsKeeps ==
  ASSUME HookInv, NEW o \in Op, UninstallClaudeScripts(o)
  PROVE  HookInv'
<1> op[o].pc = "unscript" /\ o \in Busy /\ op[o] \in OpState /\ trace' = trace /\ mine' = mine
  BY DEF UninstallClaudeScripts, OpAt, Busy, HookInv, HookTypeOK
<1>0. PICK pc \in {"umeta", "shell", "done"} : GoOn(o, pc)
  BY DEF UninstallClaudeScripts
<1>1. Moves(o, pc) /\ op'[o].todo = op[o].todo
  BY <1>0, GoOnMoves DEF HookInv, HookTypeOK, Pc, InstallPc, OtherPc, IdlePc
<1>2. HookTypeOK'
  BY <1>1 DEF UninstallClaudeScripts, Moves, HookInv, HookTypeOK
<1>3. Editors'
  BY DEF UninstallClaudeScripts, HookInv, Editors
<1>4. Sections'
  BY DEF UninstallClaudeScripts, HookInv, Sections
<1>5. ~trace.clash => Named'
  BY <1>1, NamedRest DEF UninstallClaudeScripts, HookInv, Named, Ready
<1>6. ~trace.clash => Ready(o)'
  BY <1>1 DEF UninstallClaudeScripts, Moves, HookInv, Ready
<1> QED BY <1>1, <1>2, <1>3, <1>4, <1>5, <1>6, MoveKeeps DEF Pc, InstallPc, OtherPc, IdlePc

LEMMA UninstallClaudeFailsKeeps ==
  ASSUME HookInv, NEW o \in Op, UninstallClaudeFails(o)
  PROVE  HookInv'
<1> /\ op[o].pc \in {"unset", "unscript"} /\ o \in Busy /\ op[o] \in OpState
    /\ trace' = trace /\ mine' = mine
  BY DEF UninstallClaudeFails, Busy, HookInv, HookTypeOK
<1>1. Moves(o, "shell") /\ op'[o].todo = op[o].todo
  BY MissMoves DEF UninstallClaudeFails, HookInv, HookTypeOK, Pc, OtherPc, Misses
<1>2. HookTypeOK'
  <2>1. claudeScript' \in BOOLEAN
    BY DEF UninstallClaudeFails, HookInv, HookTypeOK
  <2> QED BY <1>1, <2>1 DEF UninstallClaudeFails, Moves, HookInv, HookTypeOK
<1>3. Editors'
  BY DEF UninstallClaudeFails, HookInv, Editors
<1>4. Sections'
  BY DEF UninstallClaudeFails, HookInv, Sections
<1>5. ASSUME ~trace.clash PROVE Named'
  <2>1. Named /\ Ready(o)
    BY <1>5 DEF HookInv
  <2>2. (EditorMissed \/ NamedEditor)' /\ NamedHooks'
    BY <1>1, <2>1, NamedRest DEF UninstallClaudeFails
  <2>3. claudeScript' = claudeScript \/ op[o].pc = "unscript"
    BY DEF UninstallClaudeFails, OpAt, HookInv, HookTypeOK
  <2> QED BY <2>1, <2>2, <2>3 DEF UninstallClaudeFails, Named, Ready
<1>6. ~trace.clash => Ready(o)'
  BY <1>1 DEF Moves, Ready
<1> QED BY <1>1, <1>2, <1>3, <1>4, <1>5, <1>6, MoveKeeps DEF Pc, InstallPc, OtherPc, IdlePc

LEMMA UninstallReadsKeeps ==
  ASSUME HookInv, NEW o \in Op, UninstallReads(o)
  PROVE  HookInv'
<1> op[o].pc = "umeta" /\ o \in Busy /\ op[o] \in OpState /\ trace' = trace /\ mine' = mine
  BY DEF UninstallReads, OpAt, Busy, HookInv, HookTypeOK
<1>1. Moves(o, "ueditor") /\ op'[o].todo = op[o].todo
  <2>1. (IF Local(o) THEN NoMeta ELSE meta[op[o].place]) \in Meta
    BY DEF HookInv, HookTypeOK, OpState, NoMeta, Meta, PathOf
  <2> QED BY <2>1, SetMetaMoves DEF UninstallReads, HookInv, HookTypeOK, Pc, InstallPc, OtherPc, IdlePc
<1>2. HookTypeOK'
  BY <1>1 DEF UninstallReads, Moves, HookInv, HookTypeOK
<1>3. Editors'
  BY DEF UninstallReads, HookInv, Editors
<1>4. Sections'
  BY DEF UninstallReads, HookInv, Sections
<1>5. ~trace.clash => Named'
  BY <1>1, NamedStays DEF UninstallReads, HookInv, Grows
<1>6. ~trace.clash => Ready(o)'
  BY <1>1 DEF UninstallReads, Moves, HookInv, Ready
<1> QED BY <1>1, <1>2, <1>3, <1>4, <1>5, <1>6, MoveKeeps DEF Pc, InstallPc, OtherPc, IdlePc

LEMMA UninstallEditorDoes ==
  ASSUME HookInv, NEW o \in Op, UninstallEditor(o)
  PROVE  /\ Moves(o, "uwrap") /\ op'[o].todo = op[o].todo
         /\ \/ editor' = [editor EXCEPT ![ScopeOf(op[o].place)] = Restored(op[o].place)]
            \/ EditorMissed' /\ editor' = editor
<1>1. CASE GoOn(o, "uwrap") /\ editor' = [editor EXCEPT ![ScopeOf(op[o].place)] = Restored(op[o].place)]
  BY <1>1, GoOnMoves DEF HookInv, HookTypeOK, Pc, OtherPc
<1>2. CASE Miss(o, "uwrap", {"editor"}) /\ editor' = editor
  <2>1. op \in [Op -> OpState] /\ "uwrap" \in Pc /\ {"editor"} \in Misses
    BY DEF HookInv, HookTypeOK, Pc, OtherPc, Misses
  <2>2. /\ Moves(o, "uwrap") /\ op'[o].todo = op[o].todo
        /\ op'[o].missed = op[o].missed \cup {"editor"}
    BY <1>2, <2>1, MissMoves
  <2>3. "editor" \in op'[o].missed
    BY <2>2
  <2> QED BY <1>2, <2>2, <2>3 DEF EditorMissed
<1> QED BY <1>1, <1>2 DEF UninstallEditor

\* What is put back is not the name of a wrapper, unless the backup has nothing in it.
LEMMA RestoredIs ==
  ASSUME HookInv, NEW p \in Place
  PROVE  /\ Restored(p) \in Editor /\ Restored(p) # "empty" /\ ScopeOf(p) \in Scope
         /\ Restored(p) = editor[ScopeOf(p)] \/ Restored(p) \notin Place
         /\ backup[p] # "empty" => Restored(p) # p
<1>1. /\ ScopeOf(p) \in Scope /\ editor[ScopeOf(p)] \in Editor /\ backup[p] \in Editor
      /\ editor[ScopeOf(p)] # "empty" /\ backup[p] \notin Place
  BY DEF ScopeOf, Scope, HookInv, HookTypeOK, Editors
<1>2. editor[ScopeOf(p)] = p => CoreEditor(p) = p
  BY DEF CoreEditor, ScopeOf, HookInv, Editors, Place
<1> QED BY <1>1, <1>2 DEF Restored, Editor, Place

LEMMA UninstallEditorKeeps ==
  ASSUME HookInv, NEW o \in Op, UninstallEditor(o)
  PROVE  HookInv'
<1> op[o].pc = "ueditor" /\ o \in Busy /\ op[o] \in OpState /\ trace' = trace /\ mine' = mine
  BY DEF UninstallEditor, OpAt, Busy, HookInv, HookTypeOK
<1> DEFINE p == op[o].place
<1>0. p \in Place /\ editor \in [Scope -> Editor]
  BY DEF OpState, HookInv, HookTypeOK
<1>1. Moves(o, "uwrap") /\ op'[o].todo = op[o].todo
  BY UninstallEditorDoes
<1>8. editor' = editor \/ editor' = [editor EXCEPT ![ScopeOf(p)] = Restored(p)]
  BY UninstallEditorDoes
<1>9. editor' \in [Scope -> Editor] /\ \A s \in Scope : editor'[s] \in {editor[s]} \cup (Editor \ Place)
  BY <1>0, <1>8, RestoredIs
<1>2. HookTypeOK'
  BY <1>1, <1>9 DEF UninstallEditor, Moves, HookInv, HookTypeOK
<1>3. Editors'
  <2>1. \A s \in Scope : editor'[s] # "empty"
    BY <1>0, <1>8, RestoredIs DEF HookInv, Editors, Scope
  <2> QED BY <1>9, <2>1 DEF UninstallEditor, HookInv, Editors, Scope, Place
<1>4. Sections'
  BY DEF UninstallEditor, HookInv, Sections
<1>5. ASSUME ~trace.clash PROVE Named'
  <2>0. Named
    BY <1>5 DEF HookInv
  <2>1. EditorMissed' \/ NamedEditor'
    <3>1. EditorMissed => EditorMissed'
      BY <1>1, MissedStays
    <3> QED BY <1>9, <2>0, <3>1 DEF UninstallEditor, Named, NamedEditor
  <2>2. NamedHooks'
    BY <1>1, <2>0, MissedStays DEF UninstallEditor, Named, NamedHooks
  <2> QED BY <2>0, <2>1, <2>2 DEF UninstallEditor, Named
<1>6. ASSUME ~trace.clash PROVE Ready(o)'
  <2>1. EditorMissed' \/ \A s \in Scope : editor'[s] # p
    <3>1. EditorMissed => EditorMissed'
      BY <1>1, MissedStays
    <3>2. CASE EditorMissed
      BY <3>1, <3>2
    <3>3. CASE ~EditorMissed /\ editor' = [editor EXCEPT ![ScopeOf(p)] = Restored(p)]
      <4>1. backup[p] # "empty"
        BY <1>0, <1>6, <3>3 DEF HookInv, Named, NamedEditor
      <4>2. Restored(p) # p /\ ScopeOf(p) \in Scope
        BY <1>0, <4>1, RestoredIs
      <4>3. \A s \in Scope : s # ScopeOf(p) => editor[s] # p
        BY <1>0 DEF HookInv, Editors, ScopeOf, Scope, Place
      <4> QED BY <1>0, <3>3, <4>2, <4>3
    <3> QED BY <3>2, <3>3, UninstallEditorDoes
  <2> QED BY <1>1, <1>6, <2>1 DEF Moves, HookInv, Ready
<1> HIDE DEF p
<1> QED BY <1>1, <1>2, <1>3, <1>4, <1>5, <1>6, MoveKeeps DEF Pc, InstallPc, OtherPc, IdlePc

LEMMA UninstallWrapperDoes ==
  ASSUME HookInv, NEW o \in Op, UninstallWrapper(o)
  PROVE  \E pc \in {"uhooks", "killed"} :
           /\ Moves(o, pc) /\ op'[o].todo = op[o].todo
           /\ wrapper' \in {wrapper, wrapper \ {op[o].place}}
           /\ backup' \in {backup, [backup EXCEPT ![op[o].place] = ""]}
<1>1. PICK pc \in {"uhooks", "killed"} : GoOn(o, pc) \/ Miss(o, pc, {})
  BY DEF UninstallWrapper
<1>2. Moves(o, pc) /\ op'[o].todo = op[o].todo
  BY <1>1, EitherMoves DEF HookInv, HookTypeOK, Pc, OtherPc, IdlePc
<1> QED BY <1>2 DEF UninstallWrapper

LEMMA UninstallWrapperKeeps ==
  ASSUME HookInv, NEW o \in Op, UninstallWrapper(o)
  PROVE  HookInv'
<1> op[o].pc = "uwrap" /\ o \in Busy /\ op[o] \in OpState /\ trace' = trace /\ mine' = mine
  BY DEF UninstallWrapper, OpAt, Busy, HookInv, HookTypeOK
<1>1. PICK pc \in {"uhooks", "killed"} :
           /\ Moves(o, pc) /\ op'[o].todo = op[o].todo
           /\ wrapper' \in {wrapper, wrapper \ {op[o].place}}
           /\ backup' \in {backup, [backup EXCEPT ![op[o].place] = ""]}
  BY UninstallWrapperDoes
<1>8. backup' \in [Place -> Editor] /\ \A q \in Place : backup'[q] \in {backup[q], ""}
  <2>1. "" \in Editor
    BY DEF Editor
  <2> QED BY <1>1, <2>1 DEF HookInv, HookTypeOK
<1>2. HookTypeOK'
  BY <1>1, <1>8 DEF UninstallWrapper, Moves, HookInv, HookTypeOK
<1>3. Editors'
  BY <1>8 DEF UninstallWrapper, HookInv, Editors, Place
<1>4. Sections'
  BY DEF UninstallWrapper, HookInv, Sections
<1>5. ASSUME ~trace.clash PROVE Named' /\ Ready(o)'
  <2>0. Named /\ Ready(o) /\ (EditorMissed => EditorMissed')
    BY <1>1, <1>5, MissedStays DEF HookInv
  <2>1. EditorMissed' \/ NamedEditor'
    BY <1>1, <1>8, <2>0 DEF UninstallWrapper, Named, NamedEditor, Ready
  <2>2. NamedHooks'
    BY <1>1, <2>0, MissedStays DEF UninstallWrapper, Named, NamedHooks
  <2>3. Ready(o)'
    BY <1>1, <2>0 DEF UninstallWrapper, Moves, Ready
  <2> QED BY <2>0, <2>1, <2>2, <2>3 DEF UninstallWrapper, Named
<1> QED BY <1>1, <1>2, <1>3, <1>4, <1>5, MoveKeeps DEF Pc, InstallPc, OtherPc, IdlePc

LEMMA UninstallPathKeeps ==
  ASSUME HookInv, NEW o \in Op, UninstallPath(o)
  PROVE  HookInv'
<1> op[o].pc = "upath" /\ o \in Busy /\ op[o] \in OpState /\ trace' = trace /\ mine' = mine
  BY DEF UninstallPath, OpAt, Busy, HookInv, HookTypeOK
<1>0. PICK pc \in {"shell", "done"} : GoOn(o, pc) \/ Miss(o, pc, {})
  BY DEF UninstallPath
<1>1. Moves(o, pc) /\ op'[o].todo = op[o].todo
  BY <1>0, EitherMoves DEF HookInv, HookTypeOK, Pc, InstallPc, OtherPc, IdlePc
<1>2. HookTypeOK'
  BY <1>1 DEF UninstallPath, Moves, HookInv, HookTypeOK, PathOf, OpState, Meta
<1>3. Editors'
  BY DEF UninstallPath, HookInv, Editors
<1>4. Sections'
  BY DEF UninstallPath, HookInv, Sections
<1>5. ~trace.clash => Named'
  BY <1>1, NamedStays DEF UninstallPath, HookInv, Grows
<1>6. ~trace.clash => Ready(o)'
  BY <1>1 DEF UninstallPath, Moves, HookInv, Ready
<1> QED BY <1>1, <1>2, <1>3, <1>4, <1>5, <1>6, MoveKeeps DEF Pc, InstallPc, OtherPc, IdlePc

LEMMA ToggleReadKeeps ==
  ASSUME HookInv, NEW o \in Op, ToggleRead(o)
  PROVE  HookInv'
<1> op[o].pc = "read" /\ o \in Busy /\ op[o] \in OpState /\ trace' = trace /\ mine' = mine
  BY DEF ToggleRead, OpAt, Busy, HookInv, HookTypeOK
<1>0. PICK v \in SUBSET Matcher : Set(o, "clear", "read", v)
  <2>1. ReadMarkers \subseteq Matcher
    BY DEF ReadMarkers, Matcher, HookInv, HookTypeOK
  <2>2. Surfaces(o) \subseteq Matcher
    BY PlanFields DEF Surfaces, Matcher, HookInv, Sorts
  <2> QED BY <2>1, <2>2 DEF ToggleRead
<1>1. Moves(o, "clear") /\ op'[o].todo = op[o].todo
  BY <1>0, SetReadMoves DEF HookInv, HookTypeOK, Pc, InstallPc, OtherPc, IdlePc
<1>2. HookTypeOK'
  BY <1>1 DEF ToggleRead, Moves, HookInv, HookTypeOK
<1>3. Editors'
  BY DEF ToggleRead, HookInv, Editors
<1>4. Sections'
  BY DEF ToggleRead, HookInv, Sections
<1>5. ~trace.clash => Named'
  BY <1>1, NamedStays DEF ToggleRead, HookInv, Grows
<1>6. ~trace.clash => Ready(o)'
  BY <1>1 DEF ToggleRead, Moves, HookInv, Ready
<1> QED BY <1>1, <1>2, <1>3, <1>4, <1>5, <1>6, MoveKeeps DEF Pc, InstallPc, OtherPc, IdlePc

LEMMA ToggleClearKeeps ==
  ASSUME HookInv, NEW o \in Op, ToggleClear(o)
  PROVE  HookInv'
<1> op[o].pc = "clear" /\ o \in Busy /\ op[o] \in OpState /\ trace' = trace /\ mine' = mine
  BY DEF ToggleClear, OpAt, Busy, HookInv, HookTypeOK
<1>1. Moves(o, "mark") /\ op'[o].todo = op[o].todo
  BY GoOnMoves DEF ToggleClear, HookInv, HookTypeOK, Pc, InstallPc, OtherPc, IdlePc
<1>2. HookTypeOK'
  BY <1>1 DEF ToggleClear, Moves, HookInv, HookTypeOK
<1>3. Editors'
  BY DEF ToggleClear, HookInv, Editors
<1>4. Sections'
  BY DEF ToggleClear, HookInv, Sections
<1>5. ~trace.clash => Named'
  BY <1>1, NamedStays DEF ToggleClear, HookInv, Grows
<1>6. ~trace.clash => Ready(o)'
  BY <1>1 DEF ToggleClear, Moves, HookInv, Ready
<1> QED BY <1>1, <1>2, <1>3, <1>4, <1>5, <1>6, MoveKeeps DEF Pc, InstallPc, OtherPc, IdlePc

LEMMA ToggleMarkKeeps ==
  ASSUME HookInv, NEW o \in Op, ToggleMark(o)
  PROVE  HookInv'
<1> op[o].pc = "mark" /\ o \in Busy /\ op[o] \in OpState /\ trace' = trace /\ mine' = mine
  BY DEF ToggleMark, OpAt, Busy, HookInv, HookTypeOK
<1>1. Moves(o, "done") /\ op'[o].todo = op[o].todo
  BY GoOnMoves DEF ToggleMark, HookInv, HookTypeOK, Pc, InstallPc, OtherPc, IdlePc
<1>2. HookTypeOK'
  <2>1. MarkerFor(op[o].read) \subseteq Matcher
    BY DEF MarkerFor, Matcher, OpState
  <2> QED BY <1>1, <2>1 DEF ToggleMark, Moves, HookInv, HookTypeOK
<1>3. Editors'
  BY DEF ToggleMark, HookInv, Editors
<1>4. Sections'
  BY DEF ToggleMark, HookInv, Sections
<1>5. ~trace.clash => Named'
  BY <1>1, NamedStays DEF ToggleMark, HookInv, Grows
<1>6. ~trace.clash => Ready(o)'
  BY <1>1 DEF ToggleMark, Moves, HookInv, Ready
<1> QED BY <1>1, <1>2, <1>3, <1>4, <1>5, <1>6, MoveKeeps DEF Pc, InstallPc, OtherPc, IdlePc

LEMMA InstallHooksDoes ==
  ASSUME HookInv, NEW o \in Op, InstallHooks(o)
  PROVE  \E h \in op[o].todo, pc \in {"hooks", "killed"}, lines \in Text :
           /\ h \in Hook /\ Moves(o, pc)
           /\ lines = InstallHook(hook[op[o].place][h]) \/ (lines = <<>> /\ h \in op'[o].missed)
           /\ hook' = [hook EXCEPT ![op[o].place][h] = lines]
<1>0. op[o] \in OpState /\ op[o].pc = "hooks" /\ op \in [Op -> OpState]
  BY DEF InstallHooks, OpAt, HookInv, HookTypeOK
<1>1. PICK h \in op[o].todo :
        \/ /\ hook' = [hook EXCEPT ![op[o].place][h] = InstallHook(@)]
           /\ op' = [op EXCEPT ![o].todo = @ \ {h}]
        \/ hook' = [hook EXCEPT ![op[o].place][h] = <<>>] /\ MissHook(o, "killed", h)
  BY DEF InstallHooks
<1>2. h \in Hook /\ op[o].place \in Place /\ hook[op[o].place][h] \in Text
  BY <1>0 DEF OpState, HookInv, HookTypeOK
<1>3. CASE /\ hook' = [hook EXCEPT ![op[o].place][h] = InstallHook(@)]
           /\ op' = [op EXCEPT ![o].todo = @ \ {h}]
  <2>1. Moves(o, "hooks")
    BY <1>0, <1>2, <1>3, TodoMoves
  <2>2. InstallHook(hook[op[o].place][h]) \in Text
    BY <1>2, InstallKeepsClosed
  <2>3. hook' = [hook EXCEPT ![op[o].place][h] = InstallHook(hook[op[o].place][h])]
    BY <1>2, <1>3 DEF HookInv, HookTypeOK
  <2> QED BY <1>2, <2>1, <2>2, <2>3
<1>4. CASE hook' = [hook EXCEPT ![op[o].place][h] = <<>>] /\ MissHook(o, "killed", h)
  <2>1. Moves(o, "killed") /\ h \in op'[o].missed
    BY <1>0, <1>2, <1>4, MissHookMoves DEF Pc, IdlePc
  <2>2. <<>> \in Text
    BY SectionClosed
  <2> QED BY <1>2, <1>4, <2>1, <2>2
<1> QED BY <1>1, <1>3, <1>4

LEMMA InstallHooksKeeps ==
  ASSUME HookInv, NEW o \in Op, InstallHooks(o)
  PROVE  HookInv'
<1> op[o].pc = "hooks" /\ o \in Busy /\ op[o] \in OpState /\ trace' = trace /\ mine' = mine
  BY DEF InstallHooks, OpAt, Busy, HookInv, HookTypeOK
<1> DEFINE p == op[o].place
<1>0. p \in Place /\ hook \in [Place -> [Hook -> Text]]
  BY DEF OpState, HookInv, HookTypeOK
<1>1. Editors' /\ Grows
  BY DEF InstallHooks, HookInv, Editors, Grows
<1>2. PICK h \in op[o].todo, pc \in {"hooks", "killed"}, lines \in Text :
        /\ h \in Hook /\ Moves(o, pc)
        /\ lines = InstallHook(hook[p][h]) \/ (lines = <<>> /\ h \in op'[o].missed)
        /\ hook' = [hook EXCEPT ![p][h] = lines]
  BY InstallHooksDoes
<1>3. \A q \in Place, g \in Hook : hook'[q][g] = IF q = p /\ g = h THEN lines ELSE hook[q][g]
  BY <1>0, <1>2
<1>4. Closed(hook[p][h]) => Closed(lines)
  BY <1>0, <1>2, InstallKeepsClosed, NoneIsClosed, SectionClosed DEF Holds
<1>5. HookTypeOK'
  <2>1. hook' \in [Place -> [Hook -> Text]]
    BY <1>0, <1>2
  <2> QED BY <1>2, <2>1 DEF InstallHooks, Moves, HookInv, HookTypeOK
<1>6. Sections'
  BY <1>0, <1>2, <1>3, <1>4 DEF HookInv, Sections
<1>7. ASSUME ~trace.clash PROVE Named' /\ Ready(o)'
  <2>1. p \in script /\ Named /\ (EditorMissed => EditorMissed')
    BY <1>2, <1>7, MissedStays DEF HookInv, Ready
  <2>2. NamedHooks'
    BY <1>2, <1>3, <2>1, MissedStays DEF InstallHooks, Named, NamedHooks
  <2>3. Named'
    BY <2>1, <2>2 DEF InstallHooks, Named, NamedEditor
  <2>4. Ready(o)'
    BY <1>2, <2>1 DEF InstallHooks, Moves, Ready
  <2> QED BY <2>3, <2>4
<1> HIDE DEF p
<1> QED BY <1>1, <1>2, <1>5, <1>6, <1>7, MoveKeeps DEF Pc, InstallPc, OtherPc, IdlePc

LEMMA InstallMetaKeeps ==
  ASSUME HookInv, NEW o \in Op, InstallMeta(o)
  PROVE  HookInv'
<1> op[o].pc = "hooks" /\ o \in Busy /\ op[o] \in OpState /\ trace' = trace /\ mine' = mine
  BY DEF InstallMeta, OpAt, Busy, HookInv, HookTypeOK
<1>0. PICK pc \in {"cscripts", "done", "legacy"} : GoOn(o, pc)
  BY DEF InstallMeta
<1>1. Moves(o, pc) /\ op'[o].todo = op[o].todo
  BY <1>0, GoOnMoves DEF HookInv, HookTypeOK, Pc, InstallPc, OtherPc, IdlePc
<1>2. HookTypeOK'
  <2>1. [is |-> TRUE, prev |-> op[o].prev, set |-> op[o].set] \in Meta
    BY DEF OpState, Meta
  <2>2. meta' \in [Place -> Meta]
    BY <2>1 DEF InstallMeta, HookInv, HookTypeOK
  <2> QED BY <1>1, <2>2 DEF InstallMeta, Moves, HookInv, HookTypeOK
<1>3. Editors' /\ Sections' /\ Grows
  BY DEF InstallMeta, HookInv, Editors, Sections, Grows
<1>4. ~trace.clash => Named'
  BY <1>1, <1>3, NamedStays DEF InstallMeta, HookInv
<1>5. ~trace.clash => Ready(o)'
  BY <1>1 DEF InstallMeta, Moves, HookInv, Ready
<1> QED BY <1>1, <1>2, <1>3, <1>4, <1>5, MoveKeeps DEF Pc, InstallPc, OtherPc, IdlePc

LEMMA UninstallHooksDoes ==
  ASSUME HookInv, NEW o \in Op, UninstallHooks(o)
  PROVE  \E h \in op[o].todo, lines \in Text :
           /\ h \in Hook /\ Moves(o, "uhooks") /\ op'[o].todo = op[o].todo \ {h}
           /\ \/ lines = UninstallHook(hook[op[o].place][h])
              \/ lines \in {hook[op[o].place][h], <<>>} /\ h \in op'[o].missed
           /\ hook' = [hook EXCEPT ![op[o].place][h] = lines]
<1>0. op[o] \in OpState /\ op[o].pc = "uhooks" /\ op \in [Op -> OpState] /\ hook \in [Place -> [Hook -> Text]]
  BY DEF UninstallHooks, OpAt, HookInv, HookTypeOK
<1>1. PICK h \in op[o].todo :
        \/ /\ hook' = [hook EXCEPT ![op[o].place][h] = UninstallHook(@)]
           /\ op' = [op EXCEPT ![o].todo = @ \ {h}]
        \/ /\ hook' \in {hook, [hook EXCEPT ![op[o].place][h] = <<>>]}
           /\ MissHook(o, "uhooks", h)
  BY DEF UninstallHooks
<1>2. h \in Hook /\ op[o].place \in Place /\ hook[op[o].place][h] \in Text
  BY <1>0 DEF OpState
<1>3. CASE /\ hook' = [hook EXCEPT ![op[o].place][h] = UninstallHook(@)]
           /\ op' = [op EXCEPT ![o].todo = @ \ {h}]
  <2>1. Moves(o, "uhooks") /\ op'[o].todo = op[o].todo \ {h}
    BY <1>0, <1>2, <1>3, TodoMoves
  <2>2. UninstallHook(hook[op[o].place][h]) \in Text
    BY <1>2, UninstallRemoves
  <2>3. hook' = [hook EXCEPT ![op[o].place][h] = UninstallHook(hook[op[o].place][h])]
    BY <1>0, <1>2, <1>3
  <2> QED BY <1>2, <2>1, <2>2, <2>3
<1>4. CASE /\ hook' \in {hook, [hook EXCEPT ![op[o].place][h] = <<>>]}
           /\ MissHook(o, "uhooks", h)
  <2>1. Moves(o, "uhooks") /\ op'[o].todo = op[o].todo \ {h} /\ h \in op'[o].missed
    BY <1>0, <1>2, <1>4, MissHookMoves DEF Pc, OtherPc
  <2>2. <<>> \in Text
    BY SectionClosed
  <2>3. hook = [hook EXCEPT ![op[o].place][h] = hook[op[o].place][h]]
    BY <1>0, <1>2
  <2>4. PICK lines \in {hook[op[o].place][h], <<>>} : hook' = [hook EXCEPT ![op[o].place][h] = lines]
    BY <1>4, <2>3
  <2> QED BY <1>2, <2>1, <2>2, <2>4
<1> QED BY <1>1, <1>3, <1>4

LEMMA UninstallHooksKeeps ==
  ASSUME HookInv, NEW o \in Op, UninstallHooks(o)
  PROVE  HookInv'
<1> op[o].pc = "uhooks" /\ o \in Busy /\ op[o] \in OpState /\ trace' = trace /\ mine' = mine
  BY DEF UninstallHooks, OpAt, Busy, HookInv, HookTypeOK
<1> DEFINE p == op[o].place
<1>0. p \in Place /\ hook \in [Place -> [Hook -> Text]]
  BY DEF OpState, HookInv, HookTypeOK
<1>1. Editors'
  BY DEF UninstallHooks, HookInv, Editors
<1>2. PICK h \in op[o].todo, lines \in Text :
        /\ h \in Hook /\ Moves(o, "uhooks") /\ op'[o].todo = op[o].todo \ {h}
        /\ lines = UninstallHook(hook[p][h]) \/ (lines \in {hook[p][h], <<>>} /\ h \in op'[o].missed)
        /\ hook' = [hook EXCEPT ![p][h] = lines]
  BY UninstallHooksDoes
<1>3. \A q \in Place, g \in Hook : hook'[q][g] = IF q = p /\ g = h THEN lines ELSE hook[q][g]
  BY <1>0, <1>2
<1>4. /\ Closed(hook[p][h]) => Closed(lines)
      /\ Closed(hook[p][h]) => ~Holds(lines, "begin") \/ h \in op'[o].missed
  <2>1. Closed(hook[p][h]) => ~Holds(UninstallHook(hook[p][h]), "begin")
    BY <1>0, <1>2, UninstallRemoves
  <2>2. Closed(<<>>)
    BY NoneIsClosed, SectionClosed DEF Holds
  <2> QED BY <1>2, <2>1, <2>2, NoneIsClosed
<1>5. HookTypeOK'
  <2>1. hook' \in [Place -> [Hook -> Text]]
    BY <1>0, <1>2
  <2> QED BY <1>2, <2>1 DEF UninstallHooks, Moves, HookInv, HookTypeOK
<1>6. Sections'
  BY <1>0, <1>2, <1>3, <1>4 DEF HookInv, Sections
<1>7. ASSUME ~trace.clash PROVE Named' /\ Ready(o)'
  <2>1. Named /\ Ready(o) /\ (EditorMissed => EditorMissed') /\ op'[o].place = p
    BY <1>2, <1>7, MissedStays DEF HookInv, Moves
  <2>2. ~Holds(mine.lines, "begin") => ~Holds(lines, "begin") \/ h \in op'[o].missed
    BY <1>0, <1>2, <1>4 DEF HookInv, Sections
  <2>3. NamedHooks'
    <3> SUFFICES ASSUME ~Holds(mine.lines, "begin"), NEW q \in Place, NEW g \in Hook,
                        Holds(hook'[q][g], "begin")
                 PROVE  q \in script \/ HookMissed(q, g)'
      BY DEF NamedHooks, UninstallHooks
    <3>1. CASE q = p /\ g = h
      <4>1. h \in op'[o].missed
        BY <1>3, <2>2, <3>1
      <4> QED BY <2>1, <3>1, <4>1 DEF HookMissed
    <3>2. CASE ~(q = p /\ g = h)
      <4>1. q \in script \/ HookMissed(q, g)
        BY <1>3, <2>1, <3>2 DEF Named, NamedHooks
      <4> QED BY <1>2, <4>1, MissedStays
    <3> QED BY <3>1, <3>2
  <2>4. Named'
    BY <2>1, <2>3 DEF UninstallHooks, Named, NamedEditor
  <2>5. Ready(o)'
    <3>1. op[o].missed \subseteq op'[o].missed /\ op'[o].pc = "uhooks"
      BY <1>2 DEF Moves
    <3>2. ~Holds(mine.lines, "begin") =>
            \A g \in Hook \ (op'[o].todo \cup op'[o].missed) : ~Holds(hook'[p][g], "begin")
      BY <1>0, <1>2, <1>3, <2>1, <2>2, <3>1 DEF Ready
    <3> QED BY <2>1, <3>1, <3>2 DEF UninstallHooks, Ready
  <2> QED BY <2>4, <2>5
<1> HIDE DEF p
<1> QED BY <1>1, <1>2, <1>5, <1>6, <1>7, MoveKeeps DEF Pc, InstallPc, OtherPc, IdlePc

LEMMA UninstallDirDoes ==
  ASSUME HookInv, NEW o \in Op, UninstallDir(o)
  PROVE  \E pc \in {"upath", "done", "killed"} :
           /\ Moves(o, pc) /\ op'[o].todo = op[o].todo /\ (pc = "upath" => ~Local(o))
           /\ script' \in {script, script \ {op[o].place}}
           /\ wrapper' \in {wrapper, wrapper \ {op[o].place}}
           /\ backup' \in {backup, [backup EXCEPT ![op[o].place] = ""]}
           /\ meta' \in {meta, [meta EXCEPT ![op[o].place] = NoMeta]}
<1>1. PICK pc \in {"upath", "done", "killed"} :
        (GoOn(o, pc) \/ Miss(o, pc, {})) /\ (pc = "upath" => ~Local(o))
  BY DEF UninstallDir
<1>2. Moves(o, pc) /\ op'[o].todo = op[o].todo
  BY <1>1, EitherMoves DEF HookInv, HookTypeOK, Pc, OtherPc, IdlePc
<1>3. /\ script' \in {script, script \ {op[o].place}}
      /\ wrapper' \in {wrapper, wrapper \ {op[o].place}}
      /\ backup' \in {backup, [backup EXCEPT ![op[o].place] = ""]}
      /\ meta' \in {meta, [meta EXCEPT ![op[o].place] = NoMeta]}
  BY DEF UninstallDir
<1> QED BY <1>1, <1>2, <1>3

LEMMA UninstallDirKeeps ==
  ASSUME HookInv, NEW o \in Op, UninstallDir(o)
  PROVE  HookInv'
<1> /\ op[o].pc = "uhooks" /\ op[o].todo = {} /\ o \in Busy /\ op[o] \in OpState
    /\ trace' = trace /\ mine' = mine
  BY DEF UninstallDir, OpAt, Busy, HookInv, HookTypeOK
<1> DEFINE p == op[o].place
<1>0. p \in Place
  BY DEF OpState
<1>1. PICK pc \in {"upath", "done", "killed"} :
        /\ Moves(o, pc) /\ op'[o].todo = op[o].todo
        /\ script' \in {script, script \ {p}} /\ wrapper' \in {wrapper, wrapper \ {p}}
        /\ backup' \in {backup, [backup EXCEPT ![p] = ""]}
        /\ meta' \in {meta, [meta EXCEPT ![p] = NoMeta]}
  BY UninstallDirDoes
<1>8. backup' \in [Place -> Editor] /\ \A q \in Place : backup'[q] \in {backup[q], ""}
  <2>1. "" \in Editor
    BY DEF Editor
  <2>2. backup \in [Place -> Editor]
    BY DEF HookInv, HookTypeOK
  <2>3. [backup EXCEPT ![p] = ""] \in [Place -> Editor]
        /\ \A q \in Place : [backup EXCEPT ![p] = ""][q] \in {backup[q], ""}
    BY <2>1, <2>2
  <2> QED BY <1>1, <2>2, <2>3
<1>2. HookTypeOK'
  <2>1. NoMeta \in Meta
    BY DEF NoMeta, Meta, PathOf
  <2>2. meta' \in [Place -> Meta] /\ script' \in SUBSET Place /\ wrapper' \in SUBSET Place
    <3>1. meta \in [Place -> Meta] /\ script \in SUBSET Place /\ wrapper \in SUBSET Place
      BY DEF HookInv, HookTypeOK
    <3> HIDE DEF Meta
    <3>2. [meta EXCEPT ![p] = NoMeta] \in [Place -> Meta]
      BY <2>1, <3>1
    <3>3. script \ {p} \in SUBSET Place /\ wrapper \ {p} \in SUBSET Place
      BY <3>1
    <3> QED BY <1>1, <3>1, <3>2, <3>3
  <2> QED BY <1>1, <1>8, <2>2 DEF UninstallDir, Moves, HookInv, HookTypeOK
<1>3. Editors'
  BY <1>8 DEF UninstallDir, HookInv, Editors, Place
<1>4. Sections'
  BY DEF UninstallDir, HookInv, Sections
<1>5. ASSUME ~trace.clash PROVE Named' /\ Ready(o)'
  <2>0. Named /\ Ready(o) /\ (EditorMissed => EditorMissed') /\ op'[o].place = p
    BY <1>1, <1>5, MissedStays DEF HookInv, Moves
  <2>1. EditorMissed' \/ NamedEditor'
    BY <1>1, <1>8, <2>0 DEF UninstallDir, Named, NamedEditor, Ready
  <2>2. NamedHooks'
    <3> SUFFICES ASSUME ~Holds(mine.lines, "begin"), NEW q \in Place, NEW g \in Hook,
                        Holds(hook[q][g], "begin")
                 PROVE  q \in script' \/ HookMissed(q, g)'
      BY DEF NamedHooks, UninstallDir
    <3>1. CASE q = p
      <4>1. g \in op[o].missed
        BY <2>0, <3>1 DEF Ready
      <4> QED BY <1>1, <2>0, <3>1, <4>1 DEF Moves, HookMissed
    <3>2. CASE q # p
      <4>1. q \in script \/ HookMissed(q, g)
        BY <2>0 DEF Named, NamedHooks
      <4> QED BY <1>1, <3>2, <4>1, MissedStays
    <3> QED BY <3>1, <3>2
  <2>3. Ready(o)'
    BY <1>1 DEF Moves, Ready
  <2> QED BY <2>0, <2>1, <2>2, <2>3 DEF UninstallDir, Named
<1> HIDE DEF p
<1> QED BY <1>1, <1>2, <1>3, <1>4, <1>5, MoveKeeps DEF Pc, InstallPc, OtherPc, IdlePc

LEMMA RemoveKeeps ==
  ASSUME HookInv, NEW o \in Op, Remove(o)
  PROVE  HookInv'
<1> /\ op[o].pc \in {"shell", "config", "binaries"} /\ o \in Busy /\ op[o] \in OpState
    /\ trace' = trace /\ mine' = mine
  BY DEF Remove, Busy, HookInv, HookTypeOK
<1>0. PICK pc \in {"config", "binaries", "done"} : GoOn(o, pc) \/ Miss(o, pc, {})
  BY DEF Remove, OpAt
<1>1. Moves(o, pc) /\ op'[o].todo = op[o].todo
  BY <1>0, EitherMoves DEF HookInv, HookTypeOK, Pc, InstallPc, OtherPc, IdlePc
<1>2. HookTypeOK'
  BY <1>1 DEF Remove, Moves, HookInv, HookTypeOK
<1>3. Editors' /\ Sections' /\ Grows
  BY DEF Remove, HookInv, Editors, Sections, Grows
<1>4. ~trace.clash => Named' /\ Ready(o)'
  <2>1. ~trace.clash => Named'
    BY <1>1, <1>3, NamedStays DEF Remove, HookInv
  <2>2. Ready(o)'
    BY <1>1 DEF Moves, Ready
  <2> QED BY <2>1, <2>2
<1> QED BY <1>1, <1>2, <1>3, <1>4, MoveKeeps DEF Pc, InstallPc, OtherPc, IdlePc

LEMMA KillKeeps ==
  ASSUME HookInv, NEW o \in Op, Kill(o)
  PROVE  HookInv'
<1> op[o] \in OpState /\ o \in Busy /\ trace' = trace /\ mine' = mine
  BY DEF Kill, HookInv, HookTypeOK
<1>1. Moves(o, "killed") /\ op'[o].todo = op[o].todo
  BY EitherMoves DEF Kill, HookInv, HookTypeOK, Pc, InstallPc, OtherPc, IdlePc
<1>2. HookTypeOK'
  BY <1>1 DEF Kill, Moves, HookInv, HookTypeOK
<1>3. Editors' /\ Sections' /\ Grows
  BY DEF Kill, HookInv, Editors, Sections, Grows
<1>4. ~trace.clash => Named' /\ Ready(o)'
  <2>1. ~trace.clash => Named'
    BY <1>1, <1>3, NamedStays DEF Kill, HookInv
  <2>2. Ready(o)'
    BY <1>1 DEF Moves, Ready
  <2> QED BY <2>1, <2>2
<1> QED BY <1>1, <1>2, <1>3, <1>4, MoveKeeps DEF Pc, InstallPc, OtherPc, IdlePc

LEMMA BeginDoes ==
  ASSUME HookInv, NEW o \in Op, Begin(o)
  PROVE  /\ op' \in [Op -> OpState]
         /\ op[o].pc = "wait" /\ op[o].plan # NoOp /\ op[o] \in OpState
         /\ op'[o].pc \in {"path", "cscripts", "unset", "umeta", "read"}
         /\ (op'[o].pc \in {"path", "cscripts"}) <=> (Kind(o) = "install")
         /\ op'[o].pc = "read" => Kind(o) \notin {"uninstall", "remove"}
         /\ Whole(o) => op'[o].pc = "unset"
         /\ op'[o].plan = op[o].plan /\ op'[o].todo = op[o].todo /\ op'[o].missed = op[o].missed
         /\ op'[o].place = IF Local(o) THEN "repo" ELSE GlobalPlace
         /\ op'[o].set => hooksPath = ""
         /\ \A q \in Op : q # o =>
              /\ op'[q].pc = op[q].pc /\ op'[q].plan = op[q].plan /\ op'[q].todo = op[q].todo
              /\ op'[q].place = op[q].place /\ op'[q].read = op[q].read /\ op'[q].set = op[q].set
              /\ op'[q].missed = op[q].missed
<1>0. op[o].pc = "wait" /\ op[o].plan # NoOp /\ op[o] \in OpState
  BY DEF Begin, OpAt, HookInv, HookTypeOK
<1> DEFINE place == IF Local(o) THEN "repo" ELSE IF hooksPath = "" THEN "lrc" ELSE hooksPath
           pc == CASE Kind(o) = "install" -> IF Git(o) THEN "path" ELSE "cscripts"
                   [] Kind(o) \in {"uninstall", "remove"} -> IF Claude(o) THEN "unset" ELSE "umeta"
                   [] OTHER -> "read"
<1>1. place \in Place /\ place = IF Local(o) THEN "repo" ELSE GlobalPlace
  BY DEF Place, HookInv, HookTypeOK, PathOf, GlobalPlace
<1>2. /\ pc \in {"path", "cscripts", "unset", "umeta", "read"}
      /\ (pc \in {"path", "cscripts"}) <=> (Kind(o) = "install")
      /\ pc = "read" => Kind(o) \notin {"uninstall", "remove"}
  BY Zenon
<1>3. Whole(o) => pc = "unset"
  <2>1. Whole(o) => Claude(o) /\ Kind(o) \in {"uninstall", "remove"} /\ Kind(o) # "install"
    BY DEF Whole, Claude
  <2> QED BY <2>1
<1>4. op' = [q \in Op |->
               IF q = o THEN [op[o] EXCEPT !.pc = pc, !.place = place, !.prev = hooksPath,
                                           !.set = ~Local(o) /\ hooksPath = "",
                                           !.alone = Busy = {}]
               ELSE [op[q] EXCEPT !.alone = @ /\ op[q].pc \in {"wait", "done", "killed"}]]
  BY Zenon DEF Begin
<1> HIDE DEF place, pc
<1>5. PICK b \in BOOLEAN, a \in BOOLEAN :
        /\ b => hooksPath = ""
        /\ op'[o] = [op[o] EXCEPT !.pc = pc, !.place = place, !.prev = hooksPath, !.set = b, !.alone = a]
  BY <1>4
<1>6. /\ op'[o] \in OpState /\ op'[o].pc = pc /\ op'[o].place = place /\ op'[o].set = b
      /\ op'[o].plan = op[o].plan /\ op'[o].todo = op[o].todo /\ op'[o].missed = op[o].missed
  <2>1. hooksPath \in PathOf /\ pc \in InstallPc \cup OtherPc
    BY <1>2 DEF HookInv, HookTypeOK, InstallPc, OtherPc
  <2> QED BY <1>0, <1>1, <1>5, <2>1 DEF OpState
<1>7. ASSUME NEW q \in Op, q # o
      PROVE  /\ op'[q] \in OpState /\ op'[q].pc = op[q].pc /\ op'[q].plan = op[q].plan
             /\ op'[q].todo = op[q].todo /\ op'[q].place = op[q].place
             /\ op'[q].read = op[q].read /\ op'[q].set = op[q].set
             /\ op'[q].missed = op[q].missed
  <2>1. op[q] \in OpState
    BY DEF HookInv, HookTypeOK
  <2>2. PICK c \in BOOLEAN : op'[q] = [op[q] EXCEPT !.alone = c]
    BY <1>4, <1>7
  <2> QED BY <2>1, <2>2 DEF OpState
<1>8. op' \in [Op -> OpState]
  <2>1. \A q \in Op : op'[q] \in OpState
    BY <1>6, <1>7
  <2>2. op' = [q \in Op |-> op'[q]]
    BY <1>4
  <2> QED BY <2>1, <2>2
<1> QED BY <1>0, <1>1, <1>2, <1>3, <1>5, <1>6, <1>7, <1>8

LEMMA BeginMisses ==
  ASSUME HookInv, NEW o \in Op, Begin(o)
  PROVE  /\ EditorMissed => EditorMissed'
         /\ \A p, h : HookMissed(p, h) => HookMissed(p, h)'
<1>1. op[o].missed = {}
  BY BeginDoes DEF HookInv, Sorts
<1>2. \A q \in Op : q # o => op'[q].missed = op[q].missed /\ op'[q].place = op[q].place
  BY BeginDoes
<1> QED BY <1>1, <1>2 DEF EditorMissed, HookMissed

\* A command that begins while another is at work leaves a clash, unless both are installs.
LEMMA BeginKeeps ==
  ASSUME HookInv, NEW o \in Op, Begin(o)
  PROVE  HookInv'
<1> mine' = mine
  BY DEF Begin
<1> DEFINE pc == op'[o].pc
<1>1. (pc \in {"path", "cscripts"}) <=> (Kind(o) = "install")
  BY BeginDoes
<1>3. /\ op[o].plan # NoOp /\ pc \in {"path", "cscripts", "unset", "umeta", "read"}
      /\ op'[o].plan = op[o].plan /\ op'[o].todo = op[o].todo
  BY BeginDoes
<1>4. ASSUME NEW q \in Op, q # o
      PROVE  /\ op'[q].pc = op[q].pc /\ op'[q].plan = op[q].plan
             /\ op'[q].todo = op[q].todo /\ op'[q].place = op[q].place /\ op'[q].missed = op[q].missed
  BY <1>4, BeginDoes
<1>5. op' \in [Op -> OpState]
  BY BeginDoes
<1>6. HookTypeOK'
  <2>1. trace'.clash \in BOOLEAN
    <3>1. PICK b \in BOOLEAN : trace' = [last |-> o, clash |-> b]
      BY DEF Begin
    <3> QED BY <3>1
  <2> QED BY <1>5, <2>1 DEF Begin, HookInv, HookTypeOK
<1>7. Sorts'
  <2>1. ASSUME NEW q \in Op, q # o
        PROVE  /\ op'[q].pc \in InstallPc => op'[q].plan.kind = "install"
               /\ op'[q].pc \in OtherPc   => op'[q].plan.kind # "install"
               /\ op'[q].pc # "wait"      => op'[q].plan # NoOp
               /\ op'[q].pc = "wait"      => op'[q].missed = {}
    BY <1>4, <2>1 DEF HookInv, Sorts, Kind
  <2>2. /\ pc \in InstallPc => op[o].plan.kind = "install"
        /\ pc \in OtherPc   => op[o].plan.kind # "install"
    BY <1>1, <1>3 DEF Kind, InstallPc, OtherPc
  <2> QED BY <1>3, <2>1, <2>2 DEF Sorts, Kind
<1>8. Editors' /\ Sections'
  BY DEF Begin, HookInv, Editors, Sections
<1>9. ASSUME ~trace'.clash PROVE Overlap' /\ (\A q \in Op : Ready(q)') /\ Named'
  <2>1. ~trace.clash /\ (Busy = {} \/ \A q \in Busy \cup {o} : Kind(q) = "install")
    BY <1>9 DEF Begin
  <2>2. Busy' \subseteq Busy \cup {o} /\ \A q \in Op : Kind(q)' = Kind(q)
    BY <1>3, <1>4 DEF Busy, Kind
  <2>3. Overlap'
    BY <2>1, <2>2 DEF Overlap, Busy
  <2>4. \A q \in Op : Ready(q)'
    <3>1. ASSUME NEW q \in Op, q # o PROVE Ready(q)'
      <4>1. Ready(q)
        BY <2>1 DEF HookInv
      <4>2. UNCHANGED <<mine, editor, script, wrapper, hook, claude, claudeScript>>
        BY DEF Begin
      <4>3. /\ op'[q].pc = op[q].pc /\ op'[q].todo = op[q].todo /\ op'[q].place = op[q].place
            /\ op'[q].missed = op[q].missed
        BY <1>4, <3>1
      <4>4. EditorMissed => EditorMissed'
        BY BeginMisses
      <4> QED BY <4>1, <4>2, <4>3, <4>4 DEF Ready
    <3>2. Ready(o)'
      <4>1. op[o].pc = "wait" /\ Ready(o)
        BY <2>1, BeginDoes DEF HookInv
      <4> QED BY <1>3, <4>1 DEF Ready
    <3> QED BY <3>1, <3>2
  <2>5. Named'
    <3>1. Named /\ UNCHANGED <<mine, editor, script, wrapper, backup, hook, claude, claudeScript>>
      BY <2>1 DEF Begin, HookInv
    <3>2. (EditorMissed \/ NamedEditor)' /\ ("managed" \in claude => claudeScript)'
      BY <3>1, BeginMisses DEF Named, NamedEditor
    <3>3. NamedHooks'
      <4> SUFFICES ASSUME ~Holds(mine.lines, "begin"), NEW p \in Place, NEW h \in Hook,
                          Holds(hook[p][h], "begin")
                   PROVE  p \in script \/ HookMissed(p, h)'
        BY <3>1 DEF NamedHooks
      <4>1. p \in script \/ HookMissed(p, h)
        BY <3>1 DEF Named, NamedHooks
      <4> QED BY <4>1, BeginMisses
    <3> QED BY <3>2, <3>3 DEF Named
  <2> QED BY <2>3, <2>4, <2>5
<1> QED BY <1>6, <1>7, <1>8, <1>9 DEF HookInv

LEMMA HookInvStart == HooksInit => HookInv
<1> SUFFICES ASSUME HooksInit PROVE HookInv
  OBVIOUS
<1>1. PICK m \in Homes :
        /\ mine = m /\ hooksPath = m.path
        /\ editor = [s \in {"global", "local"} |-> IF s = "global" THEN m.editor ELSE ""]
        /\ hook = [p \in Place |-> [h \in Hook |-> IF p = "own" THEN m.lines ELSE <<>>]]
        /\ claude = m.claude /\ legacy = m.legacy
  BY DEF HooksInit
<1>2. PICK plan \in Plans : op = [o \in Op |-> Wait(plan[o])]
  BY DEF HooksInit
<1>3. /\ m.path \in {"", "own"} /\ m.editor \notin Place \cup {"empty"} /\ m.lines \in Text
      /\ "managed" \notin m.claude /\ m.claude \subseteq Matcher /\ m.legacy \in BOOLEAN
  BY HookAssumption DEF Place, Text, Matcher
<1>4. op \in [Op -> OpState] /\ \A o \in Op : op[o].pc = "wait" /\ op[o].todo = Hook /\ op[o].missed = {}
  <2>1. ASSUME NEW o \in Op PROVE Wait(plan[o]) \in OpState
    <3>1. plan[o] \in Planned
      BY <1>2 DEF Planned
    <3> QED BY <3>1 DEF Wait, OpState, NoMeta, Meta, PathOf, Place, IdlePc, Misses
  <2> QED BY <1>2, <2>1 DEF Wait
<1>5. HookTypeOK
  <2>1. /\ script = {} /\ wrapper = {} /\ backup = [p \in Place |-> ""] /\ claudeScript = FALSE
        /\ meta = [p \in Place |-> NoMeta] /\ marker = {}
        /\ trace = [last |-> "none", clash |-> FALSE]
    BY DEF HooksInit
  <2>2. editor \in [Scope -> Editor]
    BY <1>1 DEF Scope, Editor
  <2>3. hook \in [Place -> [Hook -> Text]]
    BY <1>1, <1>3, SectionClosed
  <2>4. NoMeta \in Meta /\ "" \in Editor
    BY DEF NoMeta, Meta, PathOf, Editor
  <2> QED BY <1>1, <1>3, <1>4, <2>1, <2>2, <2>3, <2>4 DEF HookTypeOK, PathOf
<1>6. Sorts /\ Busy = {}
  BY <1>4 DEF Sorts, Busy, InstallPc, OtherPc
<1>7. Editors
  <2>1. \A p \in Place : backup[p] = ""
    BY DEF HooksInit
  <2>2. editor["global"] = m.editor /\ editor["local"] = ""
    BY <1>1
  <2> QED BY <1>3, <2>1, <2>2 DEF Editors, Place
<1>8. \A p \in Place, h \in Hook : hook[p][h] = m.lines \/ hook[p][h] = <<>>
  BY <1>1
<1>9. Sections
  BY <1>1, <1>3, <1>8, NoneIsClosed, SectionClosed DEF Sections
<1>10. Named
  <2>1. \A s \in Scope : editor[s] \notin Place
    BY <1>1, <1>3 DEF Scope, Place
  <2>2. ~Holds(<<>>, "begin")
    BY DEF Holds
  <2>3. \A p \in Place : backup[p] # "empty"
    BY DEF HooksInit
  <2> QED BY <1>1, <1>3, <1>8, <2>1, <2>2, <2>3 DEF Named, NamedEditor, NamedHooks
<1>11. Overlap /\ \A o \in Op : Ready(o)
  BY <1>4, <1>6 DEF Overlap, Ready
<1> QED BY <1>5, <1>6, <1>7, <1>9, <1>10, <1>11 DEF HookInv

LEMMA HookInvStep == HookInv /\ [HooksNext]_hookVars => HookInv'
<1> SUFFICES ASSUME HookInv, [HooksNext]_hookVars PROVE HookInv'
  OBVIOUS
<1>1. CASE UNCHANGED hookVars
  BY <1>1 DEF hookVars, HookInv, HookTypeOK, Sorts, Kind, Editors, Sections, Overlap, Busy, Ready, Named,
              NamedEditor, NamedHooks, EditorMissed, HookMissed
<1>2. CASE HooksNext
  BY <1>2, BeginKeeps, InstallPathKeeps, InstallScriptsKeeps, InstallBackupKeeps, InstallWrapperKeeps,
     InstallEditorKeeps, InstallHooksKeeps, InstallMetaKeeps, RemoveLegacyKeeps, UninstallClaudeFailsKeeps,
     ClaudeScriptsKeeps, ClaudeSettingsKeeps, UninstallClaudeKeeps,
     UninstallClaudeScriptsKeeps, UninstallReadsKeeps, UninstallEditorKeeps, UninstallWrapperKeeps,
     UninstallHooksKeeps, UninstallDirKeeps, UninstallPathKeeps, RemoveKeeps, ToggleReadKeeps, ToggleClearKeeps,
     ToggleMarkKeeps, KillKeeps DEF HooksNext
<1> QED BY <1>1, <1>2

-----------------------------------------------------------------------------
(* The theorems.                                                           *)

\* The types, for any commands, hooks, setups of the user, and any kills and failing calls.
THEOREM HookTypes == HooksSpec => []HookTypeOK
<1>1. HookInv => HookTypeOK
  BY DEF HookInv
<1> QED BY <1>1, HookInvStart, HookInvStep, PTL DEF HooksSpec

\* Whatever is installed, uninstalled, enabled, disabled, killed or fails in whatever order, as long
\* as nothing but installs overlaps: core.editor names a wrapper that is there, unless a call that
\* saves the user's editor or puts it back has failed; a hook script with a section finds the
\* managed scripts, unless that script could not be written; Claude's settings name a validator
\* that is there.
THEOREM NothingEverDangles == HooksSpec => []NothingDangles
<1>1. HookInv => NothingDangles
  <2> SUFFICES ASSUME HookInv, ~trace.clash PROVE NothingDangles
    BY DEF NothingDangles
  <2>1. DOMAIN editor = Scope /\ Named
    BY DEF HookInv, HookTypeOK
  <2> QED BY <2>1 DEF NothingDangles, Named, NamedEditor, NamedHooks
<1> QED BY <1>1, HookInvStart, HookInvStep, PTL DEF HooksSpec

-----------------------------------------------------------------------------
(* What an uninstall needs to put everything back.                         *)

\* Where a global uninstall is, once it has freed the hooks, the editor, Claude's settings.
AfterHooks  == {"upath", "shell", "config", "binaries", "done"}
AfterEditor == {"uwrap", "uhooks"} \cup AfterHooks
AfterClaude == {"unscript", "umeta", "ueditor"} \cup AfterEditor

Ways == \A o \in Op :
  /\ op[o].pc \in {"read", "clear", "mark"} => Kind(o) \notin {"uninstall", "remove"}
  /\ op[o].pc = "upath" => ~Local(o)

\* The user's lines stay, outside of every section, unless a script could not be written.
LineKept(lines) == OwnLines(lines) /\ UserLines(lines) = UserLines(mine.lines)
LinesKept ==
  OwnLines(mine.lines) => \A h \in Hook : HookMissed("own", h) \/ LineKept(hook["own"][h])

\* The user's editor is in use, or saved where the wrapper in use is.
KeptEditor ==
  /\ \A p \in {"lrc", "own"} : backup[p] \in {"", mine.editor}
  /\ editor["global"] \in {mine.editor, GlobalPlace}
  /\ editor["global"] = GlobalPlace => backup[GlobalPlace] = mine.editor
Kept == (EditorMissed \/ KeptEditor) /\ claude \ {"managed"} = mine.claude

Steps(o) ==
  /\ op[o].pc \in (InstallPc \cup OtherPc) \ {"shell", "config", "binaries"}
       => op[o].place = IF Local(o) THEN "repo" ELSE GlobalPlace
  /\ op[o].pc = "path" /\ op[o].set => hooksPath # "own"
  /\ op[o].pc \in {"wrapper", "editor"} /\ ~Local(o) => EditorMissed \/ backup[op[o].place] = mine.editor
  /\ op[o].pc = "settings" => op[o].read \ {"managed"} = mine.claude
  /\ op[o].pc \in {"uwrap", "uhooks", "upath"} /\ ~Local(o) => EditorMissed \/ editor["global"] = mine.editor

\* What a global uninstall has restored by now, unless it failed in Claude's part.
Restores(o) ==
  \/ "claude" \in op[o].missed
  \/ /\ op[o].pc \in AfterClaude => claude = mine.claude
     /\ op[o].pc \in AfterEditor => EditorMissed \/ editor["global"] = mine.editor
     /\ op[o].pc \in AfterHooks /\ ~Holds(mine.lines, "begin")
          => \A h \in Hook \ op[o].missed : ~Holds(hook[op[o].place][h], "begin")
Last(o) ==
  trace.last = o /\ Kind(o) # "install" => /\ Busy \subseteq {o}
                                           /\ Whole(o) => Restores(o)

RestoreInv ==
  /\ HookInv /\ Ways /\ LinesKept
  /\ ~trace.clash => Kept /\ \A o \in Op : Steps(o) /\ Last(o)

LEMMA Mine ==
  ASSUME HookInv
  PROVE  /\ mine.editor \notin Place \cup {"empty"} /\ "managed" \notin mine.claude
         /\ mine.path \in {"", "own"} /\ mine.lines \in Text
BY HookAssumption DEF HookInv, HookTypeOK, Place, Text

\* What an install leaves of what other installs rely on.
Quiet ==
  /\ GlobalPlace' = GlobalPlace /\ (hooksPath # "own" => hooksPath' # "own")
  /\ EditorMissed' \/ \A p \in {"lrc", "own"} : backup[p] = mine.editor => backup'[p] = mine.editor

LEMMA KeptStays ==
  ASSUME NEW o \in Op, NEW pc, Moves(o, pc), UNCHANGED <<mine, hooksPath, editor, backup, claude>>
  PROVE  Kept => Kept'
BY MissedStays DEF Kept, KeptEditor, GlobalPlace

LEMMA LinesStay ==
  ASSUME NEW o \in Op, NEW pc, Moves(o, pc), UNCHANGED <<mine, hook>>
  PROVE  LinesKept => LinesKept'
<1> SUFFICES ASSUME LinesKept, OwnLines(mine.lines), NEW h \in Hook
             PROVE  HookMissed("own", h)' \/ LineKept(hook["own"][h])'
  BY DEF LinesKept
<1>1. HookMissed("own", h) \/ LineKept(hook["own"][h])
  BY DEF LinesKept
<1> QED BY <1>1, MissedStays DEF LineKept

LEMMA RestoreMoveKeeps ==
  ASSUME RestoreInv, HookInv', NEW o \in Busy, NEW pc \in Pc, Moves(o, pc),
         ~trace.clash /\ op[o].pc \in InstallPc => Quiet,
         pc \in {"read", "clear", "mark"} => op[o].pc \in {"read", "clear", "mark"},
         pc = "upath" => ~Local(o),
         pc # "wait", trace' = trace, mine' = mine, LinesKept',
         ~trace.clash => /\ Kept' /\ Steps(o)'
                         /\ Kind(o) # "install" /\ trace.last = o /\ Whole(o) => Restores(o)'
  PROVE  RestoreInv'
<1> o \in Op
  BY DEF Busy
<1>1. Busy' \subseteq Busy /\ \A q \in Op : Kind(q)' = Kind(q) /\ Whole(q)' = Whole(q) /\ Local(q)' = Local(q)
  <2>1. \A q \in Op : op'[q].plan = op[q].plan /\ (q # o => op'[q].pc = op[q].pc)
    BY DEF Moves
  <2> QED BY <2>1 DEF Busy, Kind, Whole, Local
<1>9. EditorMissed => EditorMissed'
  BY MissedStays
<1>2. Ways'
  <2>1. ASSUME NEW q \in Op, op'[q].pc \in {"read", "clear", "mark"}
        PROVE  Kind(q) \notin {"uninstall", "remove"}
    <3>1. op[q].pc \in {"read", "clear", "mark"}
      BY <2>1 DEF Moves
    <3> QED BY <3>1 DEF RestoreInv, Ways
  <2>2. ASSUME NEW q \in Op, op'[q].pc = "upath" PROVE ~Local(q)
    BY <2>2 DEF Moves, RestoreInv, Ways
  <2> QED BY <1>1, <2>1, <2>2 DEF Ways
<1>3. ASSUME ~trace.clash, NEW q \in Op, q # o PROVE Steps(q)' /\ Last(q)'
  <2>1. op'[q] = op[q] /\ Steps(q) /\ Last(q) /\ Overlap
    BY <1>3 DEF Moves, RestoreInv, HookInv
  <2>2. Last(q)'
    <3>1. ~(trace.last = q /\ Kind(q) # "install")
      BY <1>3, <2>1 DEF Last
    <3> QED BY <1>1, <3>1 DEF Last
  <2>3. CASE op[q].pc \in IdlePc
    <3>1. Steps(q)'
      BY <2>1, <2>3 DEF Steps, IdlePc, InstallPc, OtherPc
    <3> QED BY <2>2, <3>1
  <2>4. CASE op[q].pc \notin IdlePc
    <3>1. q \in Busy
      BY <2>4 DEF Busy, IdlePc
    <3>2. Kind(o) = "install" /\ Kind(q) = "install"
      BY <1>3, <2>1, <3>1 DEF Overlap
    <3>3. op[q].pc \in InstallPc /\ op[o].pc \in InstallPc
      BY <2>4, <3>1, <3>2 DEF RestoreInv, HookInv, HookTypeOK, Sorts, OpState, Busy, IdlePc
    <3>4. Quiet
      BY <1>3, <3>3
    <3>5. /\ op[q].place = IF Local(q) THEN "repo" ELSE GlobalPlace
          /\ GlobalPlace \in {"lrc", "own"}
      BY <2>1, <3>3 DEF Steps, GlobalPlace, InstallPc
    <3>6. Steps(q)'
      <4>1. op'[q].place = IF Local(q)' THEN "repo" ELSE GlobalPlace'
        BY <1>1, <2>1, <3>4, <3>5 DEF Quiet
      <4>2. op'[q].pc = "path" /\ op'[q].set => hooksPath' # "own"
        BY <2>1, <3>4 DEF Quiet, Steps
      <4>3. /\ op'[q].pc \in {"wrapper", "editor"} /\ ~Local(q)'
              => EditorMissed' \/ backup'[op'[q].place] = mine'.editor
        BY <1>1, <1>9, <2>1, <3>4, <3>5 DEF Quiet, Steps
      <4>4. op'[q].pc = "settings" => op'[q].read \ {"managed"} = mine'.claude
        BY <2>1 DEF Steps
      <4>5. op'[q].pc \notin {"uwrap", "uhooks", "upath"}
        BY <2>1, <3>3 DEF InstallPc
      <4> QED BY <4>1, <4>2, <4>3, <4>4, <4>5 DEF Steps
    <3> QED BY <2>2, <3>6
  <2> QED BY <2>3, <2>4
<1>4. ASSUME ~trace.clash PROVE Last(o)'
  <2> SUFFICES ASSUME trace.last = o, Kind(o) # "install"
               PROVE  Busy' \subseteq {o} /\ (Whole(o) => Restores(o)')
    BY <1>1 DEF Last
  <2>1. Busy \subseteq {o}
    BY <1>4 DEF RestoreInv, Last
  <2> QED BY <1>1, <1>4, <2>1
<1> QED BY <1>2, <1>3, <1>4 DEF RestoreInv

LEMMA InstallPathRestores ==
  ASSUME RestoreInv, NEW o \in Op, InstallPath(o)
  PROVE  RestoreInv'
<1> /\ op[o].pc = "path" /\ o \in Busy /\ op[o] \in OpState /\ trace' = trace /\ mine' = mine
    /\ HookInv /\ op \in [Op -> OpState]
  BY DEF InstallPath, OpAt, Busy, RestoreInv, HookInv, HookTypeOK
<1>0. HookInv'
  BY InstallPathKeeps
<1>1. Moves(o, "scripts") /\ op'[o].todo = op[o].todo
  BY GoOnMoves DEF InstallPath, Pc, InstallPc, OtherPc, IdlePc
<1>2. LinesKept'
  BY <1>1, LinesStay DEF InstallPath, RestoreInv
<1>3. ~trace.clash => Kept'
  <2>1. ~trace.clash => GlobalPlace' = GlobalPlace
    BY DEF InstallPath, RestoreInv, Steps, GlobalPlace, HookInv, HookTypeOK, PathOf
  <2> QED BY <1>1, <2>1, MissedStays DEF InstallPath, RestoreInv, Kept, KeptEditor
<1>4. ~trace.clash => Steps(o)'
  <2>1. ~trace.clash => GlobalPlace' = GlobalPlace
    BY DEF InstallPath, RestoreInv, Steps, GlobalPlace, HookInv, HookTypeOK, PathOf
  <2> QED BY <1>1, <2>1 DEF Moves, RestoreInv, Steps, Local, InstallPc, OtherPc
<1>5. Kind(o) = "install"
  BY DEF HookInv, Sorts, InstallPc
<1>6. ~trace.clash => Quiet
  BY DEF InstallPath, RestoreInv, Steps, Quiet, GlobalPlace, HookInv, HookTypeOK, PathOf
<1> QED BY <1>0, <1>1, <1>2, <1>3, <1>4, <1>5, <1>6, RestoreMoveKeeps DEF Pc, InstallPc, OtherPc, IdlePc

LEMMA InstallScriptsRestores ==
  ASSUME RestoreInv, NEW o \in Op, InstallScripts(o)
  PROVE  RestoreInv'
<1> /\ op[o].pc = "scripts" /\ o \in Busy /\ op[o] \in OpState /\ trace' = trace /\ mine' = mine
    /\ HookInv /\ op \in [Op -> OpState]
  BY DEF InstallScripts, OpAt, Busy, RestoreInv, HookInv, HookTypeOK
<1>0. HookInv'
  BY InstallScriptsKeeps
<1>1. Moves(o, "backup") /\ op'[o].todo = op[o].todo
  BY GoOnMoves DEF InstallScripts, Pc, InstallPc, OtherPc, IdlePc
<1>2. LinesKept'
  BY <1>1, LinesStay DEF InstallScripts, RestoreInv
<1>3. ~trace.clash => Kept'
  BY <1>1, KeptStays DEF InstallScripts, RestoreInv
<1>4. ~trace.clash => Steps(o)'
  BY <1>1 DEF InstallScripts, Moves, RestoreInv, Steps, GlobalPlace, Local, InstallPc, OtherPc
<1>5. Kind(o) = "install"
  BY DEF HookInv, Sorts, InstallPc
<1>6. ~trace.clash => Quiet
  BY DEF InstallScripts, Quiet, GlobalPlace
<1> QED BY <1>0, <1>1, <1>2, <1>3, <1>4, <1>5, <1>6, RestoreMoveKeeps DEF Pc, InstallPc, OtherPc, IdlePc

LEMMA InstallBackupRestores ==
  ASSUME RestoreInv, NEW o \in Op, InstallBackup(o)
  PROVE  RestoreInv'
<1> /\ op[o].pc = "backup" /\ o \in Busy /\ op[o] \in OpState /\ trace' = trace /\ mine' = mine
    /\ HookInv /\ op \in [Op -> OpState]
  BY DEF InstallBackup, OpAt, Busy, RestoreInv, HookInv, HookTypeOK
<1> DEFINE p == op[o].place
<1>0. HookInv'
  BY InstallBackupKeeps
<1>1. /\ Moves(o, "wrapper") /\ op'[o].todo = op[o].todo
      /\ \/ EditorMissed'
         \/ backup' = IF ShouldPersistEditorBackup(CoreEditor(p))
                      THEN [backup EXCEPT ![p] = CoreEditor(p)] ELSE backup
  BY InstallBackupDoes
<1>7. /\ backup \in [Place -> Editor] /\ p \in Place
      /\ p \in {"lrc", "own"} => CoreEditor(p) = editor["global"]
  BY DEF HookInv, HookTypeOK, OpState, CoreEditor
<1>8. EditorMissed => EditorMissed'
  BY <1>1, MissedStays
<1>9. GlobalPlace \in {"lrc", "own"} /\ GlobalPlace' = GlobalPlace /\ UNCHANGED <<hooksPath, editor, claude>>
  BY DEF InstallBackup, GlobalPlace
<1>10. ASSUME ~trace.clash, ~EditorMissed'
       PROVE  /\ KeptEditor /\ mine.editor \notin Place
              /\ \A q \in {"lrc", "own"} : backup'[q] \in {backup[q], mine.editor}
              /\ \A q \in {"lrc", "own"} : backup[q] = mine.editor => backup'[q] = mine.editor
              /\ ~Local(o) => backup'[p] = mine.editor
  <2>1. KeptEditor /\ Steps(o) /\ mine.editor \notin Place
    BY <1>8, <1>10, Mine DEF RestoreInv, Kept
  <2>2. backup' = IF ShouldPersistEditorBackup(CoreEditor(p))
                  THEN [backup EXCEPT ![p] = CoreEditor(p)] ELSE backup
    BY <1>1, <1>10
  <2> HIDE DEF p
  <2>3. \A q \in {"lrc", "own"} : backup'[q] \in {backup[q], mine.editor}
    BY <1>7, <1>9, <2>1, <2>2 DEF ShouldPersistEditorBackup, KeptEditor, Place
  <2>4. \A q \in {"lrc", "own"} : backup[q] = mine.editor => backup'[q] = mine.editor
    BY <2>3
  <2>5. ~Local(o) => p = GlobalPlace
    BY <2>1 DEF p, Steps, InstallPc
  <2>6. ~Local(o) => backup'[p] = mine.editor
    BY <1>7, <1>9, <2>1, <2>2, <2>5 DEF ShouldPersistEditorBackup, KeptEditor, Place
  <2> QED BY <2>1, <2>3, <2>4, <2>6
<1>2. LinesKept'
  BY <1>1, LinesStay DEF InstallBackup, RestoreInv
<1>3. ASSUME ~trace.clash PROVE Kept'
  <2>1. CASE EditorMissed'
    BY <1>3, <1>9, <2>1 DEF RestoreInv, Kept
  <2>2. CASE ~EditorMissed'
    BY <1>3, <1>9, <1>10, <2>2 DEF RestoreInv, Kept, KeptEditor
  <2> QED BY <2>1, <2>2
<1>4. ASSUME ~trace.clash PROVE Steps(o)'
  <2>1. Local(o)' = Local(o) /\ op'[o].place = IF Local(o) THEN "repo" ELSE GlobalPlace
    BY <1>1, <1>4 DEF Moves, RestoreInv, Steps, Local, InstallPc
  <2> HIDE DEF p
  <2>2. ~Local(o) => EditorMissed' \/ backup'[p] = mine.editor
    BY <1>4, <1>10
  <2>3. op'[o].pc = "wrapper" /\ op'[o].place = p
    BY <1>1 DEF Moves, p
  <2> QED BY <1>9, <2>1, <2>2, <2>3 DEF Steps
<1>5. Kind(o) = "install"
  BY DEF HookInv, Sorts, InstallPc
<1>6. ~trace.clash => Quiet
  BY <1>9, <1>10 DEF Quiet
<1> HIDE DEF p
<1> QED BY <1>0, <1>1, <1>2, <1>3, <1>4, <1>5, <1>6, RestoreMoveKeeps DEF Pc, InstallPc, OtherPc, IdlePc

LEMMA InstallWrapperRestores ==
  ASSUME RestoreInv, NEW o \in Op, InstallWrapper(o)
  PROVE  RestoreInv'
<1> /\ op[o].pc = "wrapper" /\ o \in Busy /\ op[o] \in OpState /\ trace' = trace /\ mine' = mine
    /\ HookInv /\ op \in [Op -> OpState]
  BY DEF InstallWrapper, OpAt, Busy, RestoreInv, HookInv, HookTypeOK
<1>0. HookInv'
  BY InstallWrapperKeeps
<1>1. Moves(o, "editor") /\ op'[o].todo = op[o].todo
  BY GoOnMoves DEF InstallWrapper, Pc, InstallPc, OtherPc, IdlePc
<1>2. LinesKept'
  BY <1>1, LinesStay DEF InstallWrapper, RestoreInv
<1>3. ~trace.clash => Kept'
  BY <1>1, KeptStays DEF InstallWrapper, RestoreInv
<1>4. ~trace.clash => Steps(o)'
  <2>1. EditorMissed => EditorMissed'
    BY <1>1, MissedStays
  <2> QED BY <1>1, <2>1 DEF InstallWrapper, Moves, RestoreInv, Steps, GlobalPlace, Local, InstallPc, OtherPc
<1>5. Kind(o) = "install"
  BY DEF HookInv, Sorts, InstallPc
<1>6. ~trace.clash => Quiet
  BY DEF InstallWrapper, Quiet, GlobalPlace
<1> QED BY <1>0, <1>1, <1>2, <1>3, <1>4, <1>5, <1>6, RestoreMoveKeeps DEF Pc, InstallPc, OtherPc, IdlePc

LEMMA InstallEditorRestores ==
  ASSUME RestoreInv, NEW o \in Op, InstallEditor(o)
  PROVE  RestoreInv'
<1> /\ op[o].pc = "editor" /\ o \in Busy /\ op[o] \in OpState /\ trace' = trace /\ mine' = mine
    /\ HookInv /\ op \in [Op -> OpState]
  BY DEF InstallEditor, OpAt, Busy, RestoreInv, HookInv, HookTypeOK
<1>0. HookInv'
  BY InstallEditorKeeps
<1>1. Moves(o, "hooks") /\ op'[o].todo = op[o].todo
  BY GoOnMoves DEF InstallEditor, Pc, InstallPc, OtherPc, IdlePc
<1>2. LinesKept'
  BY <1>1, LinesStay DEF InstallEditor, RestoreInv
<1>3. ASSUME ~trace.clash PROVE Kept'
  <2>0. EditorMissed => EditorMissed'
    BY <1>1, MissedStays
  <2>1. Kept /\ Steps(o) /\ editor \in [Scope -> Editor]
    BY <1>3 DEF RestoreInv, HookInv, HookTypeOK
  <2>2. GlobalPlace' = GlobalPlace /\ GlobalPlace \in {"lrc", "own"} /\ backup' = backup /\ claude' = claude
    BY DEF InstallEditor, GlobalPlace
  <2>3. CASE EditorMissed
    BY <2>0, <2>1, <2>2, <2>3 DEF Kept
  <2>4. CASE ~EditorMissed /\ Local(o)
    <3>1. op[o].place = "repo"
      BY <2>1, <2>4 DEF Steps, InstallPc
    <3>2. editor'["global"] = editor["global"]
      BY <2>1, <3>1 DEF InstallEditor, ScopeOf, Scope
    <3> QED BY <2>1, <2>2, <2>4, <3>2 DEF Kept, KeptEditor
  <2>5. CASE ~EditorMissed /\ ~Local(o)
    <3>1. op[o].place = GlobalPlace /\ backup[GlobalPlace] = mine.editor
      BY <2>1, <2>5 DEF Steps, InstallPc
    <3>2. editor'["global"] = GlobalPlace
      BY <2>1, <2>2, <3>1 DEF InstallEditor, ScopeOf, Scope
    <3> QED BY <2>1, <2>2, <2>5, <3>1, <3>2 DEF Kept, KeptEditor
  <2> QED BY <2>3, <2>4, <2>5
<1>4. ~trace.clash => Steps(o)'
  BY <1>1 DEF InstallEditor, Moves, RestoreInv, Steps, GlobalPlace, Local, InstallPc, OtherPc
<1>5. Kind(o) = "install"
  BY DEF HookInv, Sorts, InstallPc
<1>6. ~trace.clash => Quiet
  BY DEF InstallEditor, Quiet, GlobalPlace
<1> QED BY <1>0, <1>1, <1>2, <1>3, <1>4, <1>5, <1>6, RestoreMoveKeeps DEF Pc, InstallPc, OtherPc, IdlePc

LEMMA ClaudeScriptsRestores ==
  ASSUME RestoreInv, NEW o \in Op, ClaudeScripts(o)
  PROVE  RestoreInv'
<1> /\ op[o].pc = "cscripts" /\ o \in Busy /\ op[o] \in OpState /\ trace' = trace /\ mine' = mine
    /\ HookInv /\ op \in [Op -> OpState]
  BY DEF ClaudeScripts, OpAt, Busy, RestoreInv, HookInv, HookTypeOK
<1>0. HookInv'
  BY ClaudeScriptsKeeps
<1>1. Moves(o, "settings") /\ op'[o].todo = op[o].todo /\ op'[o].read = claude
  BY SetReadMoves DEF ClaudeScripts, HookInv, HookTypeOK, Pc, InstallPc, OtherPc, IdlePc
<1>2. LinesKept'
  BY <1>1, LinesStay DEF ClaudeScripts, RestoreInv
<1>3. ~trace.clash => Kept'
  BY <1>1, KeptStays DEF ClaudeScripts, RestoreInv
<1>4. ~trace.clash => Steps(o)'
  BY <1>1 DEF ClaudeScripts, Moves, RestoreInv, Kept, Steps, GlobalPlace, Local, InstallPc, OtherPc
<1>5. Kind(o) = "install"
  BY DEF HookInv, Sorts, InstallPc
<1>6. ~trace.clash => Quiet
  BY DEF ClaudeScripts, Quiet, GlobalPlace
<1> QED BY <1>0, <1>1, <1>2, <1>3, <1>4, <1>5, <1>6, RestoreMoveKeeps DEF Pc, InstallPc, OtherPc, IdlePc

LEMMA ClaudeSettingsRestores ==
  ASSUME RestoreInv, NEW o \in Op, ClaudeSettings(o)
  PROVE  RestoreInv'
<1> /\ op[o].pc = "settings" /\ o \in Busy /\ op[o] \in OpState /\ trace' = trace /\ mine' = mine
    /\ HookInv /\ op \in [Op -> OpState]
  BY DEF ClaudeSettings, OpAt, Busy, RestoreInv, HookInv, HookTypeOK
<1>0. HookInv'
  BY ClaudeSettingsKeeps
<1>1. Moves(o, "legacy") /\ op'[o].todo = op[o].todo
  BY SetReadMoves DEF ClaudeSettings, HookInv, HookTypeOK, Pc, InstallPc, OtherPc, IdlePc
<1>2. LinesKept'
  BY <1>1, LinesStay DEF ClaudeSettings, RestoreInv
<1>3. ~trace.clash => Kept'
  <2>1. ~trace.clash => claude' \ {"managed"} = mine.claude
    <3>1. ~trace.clash => op[o].read \ {"managed"} = mine.claude
      BY DEF RestoreInv, Steps
    <3> QED BY <3>1 DEF ClaudeSettings, EnsureManagedClaudeHook
  <2> QED BY <1>1, <2>1, MissedStays DEF ClaudeSettings, RestoreInv, Kept, KeptEditor, GlobalPlace
<1>4. ~trace.clash => Steps(o)'
  BY <1>1 DEF ClaudeSettings, Moves, RestoreInv, Steps, GlobalPlace, Local, InstallPc, OtherPc
<1>5. Kind(o) = "install"
  BY DEF HookInv, Sorts, InstallPc
<1>6. ~trace.clash => Quiet
  BY DEF ClaudeSettings, Quiet, GlobalPlace
<1> QED BY <1>0, <1>1, <1>2, <1>3, <1>4, <1>5, <1>6, RestoreMoveKeeps DEF Pc, InstallPc, OtherPc, IdlePc

LEMMA RemoveLegacyRestores ==
  ASSUME RestoreInv, NEW o \in Op, RemoveLegacy(o)
  PROVE  RestoreInv'
<1> /\ op[o].pc = "legacy" /\ o \in Busy /\ op[o] \in OpState /\ trace' = trace /\ mine' = mine
    /\ HookInv /\ op \in [Op -> OpState]
  BY DEF RemoveLegacy, OpAt, Busy, RestoreInv, HookInv, HookTypeOK
<1>0. HookInv'
  BY RemoveLegacyKeeps
<1>1. Moves(o, "done") /\ op'[o].todo = op[o].todo
  BY GoOnMoves DEF RemoveLegacy, Pc, InstallPc, OtherPc, IdlePc
<1>2. LinesKept'
  BY <1>1, LinesStay DEF RemoveLegacy, RestoreInv
<1>3. ~trace.clash => Kept'
  BY <1>1, KeptStays DEF RemoveLegacy, RestoreInv
<1>4. ~trace.clash => Steps(o)'
  BY <1>1 DEF Moves, Steps, InstallPc, OtherPc
<1>5. Kind(o) = "install"
  BY DEF HookInv, Sorts, InstallPc
<1>6. ~trace.clash => Quiet
  BY DEF RemoveLegacy, Quiet, GlobalPlace
<1> QED BY <1>0, <1>1, <1>2, <1>3, <1>4, <1>5, <1>6, RestoreMoveKeeps DEF Pc, InstallPc, OtherPc, IdlePc

LEMMA UninstallClaudeRestores ==
  ASSUME RestoreInv, NEW o \in Op, UninstallClaude(o)
  PROVE  RestoreInv'
<1> /\ op[o].pc = "unset" /\ o \in Busy /\ op[o] \in OpState /\ trace' = trace /\ mine' = mine
    /\ HookInv /\ op \in [Op -> OpState]
  BY DEF UninstallClaude, OpAt, Busy, RestoreInv, HookInv, HookTypeOK
<1>0. HookInv'
  BY UninstallClaudeKeeps
<1>1. Moves(o, "unscript") /\ op'[o].todo = op[o].todo
  BY GoOnMoves DEF UninstallClaude, Pc, InstallPc, OtherPc, IdlePc
<1>2. LinesKept'
  BY <1>1, LinesStay DEF UninstallClaude, RestoreInv
<1>3. ~trace.clash => Kept'
  <2>1. ~trace.clash => claude' \ {"managed"} = mine.claude
    BY DEF UninstallClaude, RemoveManagedClaudeHook, RestoreInv, Kept
  <2> QED BY <1>1, <2>1, MissedStays DEF UninstallClaude, RestoreInv, Kept, KeptEditor, GlobalPlace
<1>4. ~trace.clash => Steps(o)'
  BY <1>1 DEF UninstallClaude, Moves, RestoreInv, Steps, GlobalPlace, Local, InstallPc, OtherPc
<1>5. ~trace.clash /\ Kind(o) # "install" /\ trace.last = o /\ Whole(o) => Restores(o)'
  BY <1>1 DEF UninstallClaude, RemoveManagedClaudeHook, Moves, RestoreInv, Kept, Restores, AfterEditor, AfterHooks
<1> QED BY <1>0, <1>1, <1>2, <1>3, <1>4, <1>5, RestoreMoveKeeps DEF Pc, InstallPc, OtherPc, IdlePc

LEMMA UninstallClaudeScriptsRestores ==
  ASSUME RestoreInv, NEW o \in Op, UninstallClaudeScripts(o)
  PROVE  RestoreInv'
<1> /\ op[o].pc = "unscript" /\ o \in Busy /\ op[o] \in OpState /\ trace' = trace /\ mine' = mine
    /\ HookInv /\ op \in [Op -> OpState]
  BY DEF UninstallClaudeScripts, OpAt, Busy, RestoreInv, HookInv, HookTypeOK
<1>0. HookInv'
  BY UninstallClaudeScriptsKeeps
<1>7. PICK pc \in {"umeta", "shell", "done"} : GoOn(o, pc) /\ (Whole(o) => pc = "umeta")
  BY DEF UninstallClaudeScripts, Whole, Git
<1>1. Moves(o, pc) /\ op'[o].todo = op[o].todo /\ op'[o].missed = op[o].missed
  BY <1>7, GoOnMoves DEF Pc, InstallPc, OtherPc, IdlePc
<1>2. LinesKept'
  BY <1>1, LinesStay DEF UninstallClaudeScripts, RestoreInv
<1>3. ~trace.clash => Kept'
  BY <1>1, KeptStays DEF UninstallClaudeScripts, RestoreInv
<1>4. ~trace.clash => Steps(o)'
  BY <1>1 DEF UninstallClaudeScripts, Moves, RestoreInv, Steps, GlobalPlace, Local, InstallPc, OtherPc
<1>5. ~trace.clash /\ Kind(o) # "install" /\ trace.last = o /\ Whole(o) => Restores(o)'
  BY <1>1, <1>7 DEF UninstallClaudeScripts, Moves, RestoreInv, Last, Restores, AfterClaude, AfterEditor, AfterHooks
<1> QED BY <1>0, <1>1, <1>2, <1>3, <1>4, <1>5, RestoreMoveKeeps DEF Pc, InstallPc, OtherPc, IdlePc

LEMMA UninstallClaudeFailsRestores ==
  ASSUME RestoreInv, NEW o \in Op, UninstallClaudeFails(o)
  PROVE  RestoreInv'
<1> /\ op[o].pc \in {"unset", "unscript"} /\ o \in Busy /\ op[o] \in OpState /\ trace' = trace
    /\ mine' = mine /\ HookInv /\ op \in [Op -> OpState]
  BY DEF UninstallClaudeFails, Busy, RestoreInv, HookInv, HookTypeOK
<1>0. HookInv'
  BY UninstallClaudeFailsKeeps
<1>1. Moves(o, "shell") /\ op'[o].missed = op[o].missed \cup {"claude"}
  <2>1. "shell" \in Pc /\ {"claude"} \in Misses /\ Miss(o, "shell", {"claude"})
    BY DEF UninstallClaudeFails, Pc, OtherPc, Misses
  <2> QED BY <2>1, MissMoves
<1>2. LinesKept'
  BY <1>1, LinesStay DEF UninstallClaudeFails, RestoreInv
<1>3. ~trace.clash => Kept'
  BY <1>1, KeptStays DEF UninstallClaudeFails, RestoreInv
<1>4. Steps(o)'
  BY <1>1 DEF Moves, Steps, InstallPc, OtherPc
<1>5. Restores(o)'
  BY <1>1 DEF Restores
<1> QED BY <1>0, <1>1, <1>2, <1>3, <1>4, <1>5, RestoreMoveKeeps DEF Pc, InstallPc, OtherPc, IdlePc

LEMMA UninstallReadsRestores ==
  ASSUME RestoreInv, NEW o \in Op, UninstallReads(o)
  PROVE  RestoreInv'
<1> /\ op[o].pc = "umeta" /\ o \in Busy /\ op[o] \in OpState /\ trace' = trace /\ mine' = mine
    /\ HookInv /\ op \in [Op -> OpState]
  BY DEF UninstallReads, OpAt, Busy, RestoreInv, HookInv, HookTypeOK
<1>0. HookInv'
  BY UninstallReadsKeeps
<1>1. Moves(o, "ueditor") /\ op'[o].todo = op[o].todo /\ op'[o].missed = op[o].missed
  <2>1. (IF Local(o) THEN NoMeta ELSE meta[op[o].place]) \in Meta
    BY DEF HookInv, HookTypeOK, OpState, NoMeta, Meta, PathOf
  <2> QED BY <2>1, SetMetaMoves DEF UninstallReads, Pc, InstallPc, OtherPc, IdlePc
<1>2. LinesKept'
  BY <1>1, LinesStay DEF UninstallReads, RestoreInv
<1>3. ~trace.clash => Kept'
  BY <1>1, KeptStays DEF UninstallReads, RestoreInv
<1>4. ~trace.clash => Steps(o)'
  BY <1>1 DEF UninstallReads, Moves, RestoreInv, Steps, GlobalPlace, Local, InstallPc, OtherPc
<1>5. ~trace.clash /\ Kind(o) # "install" /\ trace.last = o /\ Whole(o) => Restores(o)'
  BY <1>1 DEF UninstallReads, Moves, RestoreInv, Last, Restores, AfterClaude, AfterEditor, AfterHooks
<1> QED BY <1>0, <1>1, <1>2, <1>3, <1>4, <1>5, RestoreMoveKeeps DEF Pc, InstallPc, OtherPc, IdlePc

LEMMA UninstallEditorRestores ==
  ASSUME RestoreInv, NEW o \in Op, UninstallEditor(o)
  PROVE  RestoreInv'
<1> /\ op[o].pc = "ueditor" /\ o \in Busy /\ op[o] \in OpState /\ trace' = trace /\ mine' = mine
    /\ HookInv /\ op \in [Op -> OpState]
  BY DEF UninstallEditor, OpAt, Busy, RestoreInv, HookInv, HookTypeOK
<1>0. HookInv'
  BY UninstallEditorKeeps
<1>1. /\ Moves(o, "uwrap") /\ op'[o].todo = op[o].todo
      /\ \/ editor' = [editor EXCEPT ![ScopeOf(op[o].place)] = Restored(op[o].place)]
         \/ EditorMissed' /\ editor' = editor
  BY UninstallEditorDoes
<1>8. EditorMissed => EditorMissed'
  BY <1>1, MissedStays
<1>9. GlobalPlace \in {"lrc", "own"} /\ GlobalPlace' = GlobalPlace /\ UNCHANGED <<hooksPath, backup, claude, hook>>
  BY DEF UninstallEditor, GlobalPlace
<1>7. ASSUME ~trace.clash, ~EditorMissed'
      PROVE  /\ KeptEditor
             /\ Local(o)  => editor'["global"] = editor["global"]
             /\ ~Local(o) => editor'["global"] = mine.editor
  <2>0. editor' = [editor EXCEPT ![ScopeOf(op[o].place)] = Restored(op[o].place)]
    BY <1>1, <1>7
  <2>1. KeptEditor /\ Steps(o) /\ editor \in [Scope -> Editor]
    BY <1>7, <1>8 DEF RestoreInv, Kept, HookInv, HookTypeOK
  <2>2. op[o].place = IF Local(o) THEN "repo" ELSE GlobalPlace
    BY <2>1 DEF Steps, OtherPc
  <2>3. CASE Local(o)
    BY <2>0, <2>1, <2>2, <2>3 DEF ScopeOf, Scope
  <2>4. CASE ~Local(o)
    <3>1. op[o].place = GlobalPlace
      BY <2>2, <2>4
    <3>2. editor'["global"] = Restored(GlobalPlace)
      BY <1>9, <2>0, <2>1, <3>1 DEF ScopeOf, Scope
    <3>3. CoreEditor(GlobalPlace) = editor["global"] /\ ScopeOf(GlobalPlace) = "global"
      BY <1>9 DEF CoreEditor, ScopeOf
    <3>4. mine.editor # "empty" /\ GlobalPlace # ""
      BY <1>9, Mine
    <3>5. Restored(GlobalPlace) = mine.editor
      BY <1>9, <2>1, <3>3, <3>4 DEF Restored, KeptEditor
    <3> QED BY <2>1, <2>4, <3>2, <3>5
  <2> QED BY <2>3, <2>4
<1>2. LinesKept'
  BY <1>1, LinesStay DEF UninstallEditor, RestoreInv
<1>3. ASSUME ~trace.clash PROVE Kept'
  <2>1. mine.editor \notin Place
    BY Mine
  <2>2. CASE EditorMissed'
    BY <1>3, <1>9, <2>2 DEF RestoreInv, Kept
  <2>3. CASE ~EditorMissed'
    <3>1. KeptEditor'
      BY <1>3, <1>7, <1>9, <2>1, <2>3 DEF KeptEditor, Place
    <3> QED BY <1>3, <1>9, <3>1 DEF RestoreInv, Kept
  <2> QED BY <2>2, <2>3
<1>4. ASSUME ~trace.clash PROVE Steps(o)'
  <2>1. /\ Local(o)' = Local(o) /\ op'[o].place = IF Local(o) THEN "repo" ELSE GlobalPlace
        /\ op'[o].pc = "uwrap"
    BY <1>1, <1>4 DEF Moves, RestoreInv, Steps, Local, OtherPc
  <2>2. ~Local(o) => EditorMissed' \/ editor'["global"] = mine.editor
    BY <1>4, <1>7
  <2> QED BY <1>9, <2>1, <2>2 DEF Steps
<1>5. ASSUME ~trace.clash, Kind(o) # "install", trace.last = o, Whole(o) PROVE Restores(o)'
  <2>1. Restores(o) /\ ~Local(o)
    BY <1>5 DEF RestoreInv, Last, Whole
  <2>2. EditorMissed' \/ editor'["global"] = mine.editor
    BY <1>5, <1>7, <2>1
  <2>3. op'[o].pc = "uwrap" /\ op[o].missed \subseteq op'[o].missed
    BY <1>1 DEF Moves
  <2> QED BY <1>9, <2>1, <2>2, <2>3 DEF Restores, AfterClaude, AfterEditor, AfterHooks
<1> QED BY <1>0, <1>1, <1>2, <1>3, <1>4, <1>5, RestoreMoveKeeps DEF Pc, InstallPc, OtherPc, IdlePc

LEMMA UninstallWrapperRestores ==
  ASSUME RestoreInv, NEW o \in Op, UninstallWrapper(o)
  PROVE  RestoreInv'
<1> /\ op[o].pc = "uwrap" /\ o \in Busy /\ op[o] \in OpState /\ trace' = trace /\ mine' = mine
    /\ HookInv /\ op \in [Op -> OpState]
  BY DEF UninstallWrapper, OpAt, Busy, RestoreInv, HookInv, HookTypeOK
<1>0. HookInv'
  BY UninstallWrapperKeeps
<1>1. PICK pc \in {"uhooks", "killed"} :
        /\ Moves(o, pc) /\ op'[o].todo = op[o].todo
        /\ backup' \in {backup, [backup EXCEPT ![op[o].place] = ""]}
  BY UninstallWrapperDoes
<1>8. EditorMissed => EditorMissed'
  BY <1>1, MissedStays
<1>9. GlobalPlace \in {"lrc", "own"} /\ GlobalPlace' = GlobalPlace /\ UNCHANGED <<hooksPath, editor, claude, hook>>
  BY DEF UninstallWrapper, GlobalPlace
<1>2. LinesKept'
  BY <1>1, <1>9, LinesStay DEF RestoreInv
<1>3. ASSUME ~trace.clash PROVE Kept'
  <2>1. Kept /\ Steps(o) /\ backup \in [Place -> Editor] /\ mine.editor \notin Place
    BY <1>3, Mine DEF RestoreInv, HookInv, HookTypeOK
  <2>2. CASE EditorMissed
    BY <1>8, <1>9, <2>1, <2>2 DEF Kept
  <2>3. CASE ~EditorMissed
    <3>1. op[o].place \in Place
      BY DEF OpState
    <3>2. \A p \in Place : backup'[p] \in {backup[p], ""} /\ (p # op[o].place => backup'[p] = backup[p])
      BY <1>1, <2>1, <3>1
    <3>3. op[o].place = GlobalPlace => editor["global"] # GlobalPlace
      BY <1>9, <2>1, <2>3 DEF Steps, Place, OtherPc
    <3>4. KeptEditor
      BY <2>1, <2>3 DEF Kept
    <3>5. KeptEditor'
      BY <1>9, <2>1, <3>2, <3>3, <3>4 DEF KeptEditor, Place
    <3> QED BY <1>9, <2>1, <3>5 DEF Kept
  <2> QED BY <2>2, <2>3
<1>4. ASSUME ~trace.clash PROVE Steps(o)'
  <2>1. /\ Local(o)' = Local(o) /\ op'[o].place = IF Local(o) THEN "repo" ELSE GlobalPlace
        /\ op'[o].pc \in {"uhooks", "killed"}
    BY <1>1, <1>4 DEF Moves, RestoreInv, Steps, Local, OtherPc
  <2>2. ~Local(o) => EditorMissed' \/ editor'["global"] = mine.editor
    BY <1>4, <1>8, <1>9 DEF RestoreInv, Steps
  <2> QED BY <1>9, <2>1, <2>2 DEF Steps
<1>5. ASSUME ~trace.clash, Kind(o) # "install", trace.last = o, Whole(o) PROVE Restores(o)'
  <2>1. Restores(o)
    BY <1>5 DEF RestoreInv, Last
  <2>2. op'[o].pc \in {"uhooks", "killed"} /\ op[o].missed \subseteq op'[o].missed
    BY <1>1 DEF Moves
  <2> QED BY <1>8, <1>9, <2>1, <2>2 DEF Restores, AfterClaude, AfterEditor, AfterHooks
<1> QED BY <1>0, <1>1, <1>2, <1>3, <1>4, <1>5, RestoreMoveKeeps DEF Pc, InstallPc, OtherPc, IdlePc

LEMMA UninstallPathRestores ==
  ASSUME RestoreInv, NEW o \in Op, UninstallPath(o)
  PROVE  RestoreInv'
<1> /\ op[o].pc = "upath" /\ o \in Busy /\ op[o] \in OpState /\ trace' = trace /\ mine' = mine
    /\ HookInv /\ op \in [Op -> OpState]
  BY DEF UninstallPath, OpAt, Busy, RestoreInv, HookInv, HookTypeOK
<1>0. HookInv'
  BY UninstallPathKeeps
<1>7. PICK pc \in {"shell", "done"} : GoOn(o, pc) \/ Miss(o, pc, {})
  BY DEF UninstallPath
<1>1. Moves(o, pc) /\ op'[o].todo = op[o].todo /\ op'[o].missed = op[o].missed
  BY <1>7, EitherMoves DEF Pc, InstallPc, OtherPc, IdlePc
<1>8. ~Local(o)
  BY DEF RestoreInv, Ways
<1>2. LinesKept'
  BY <1>1, LinesStay DEF UninstallPath, RestoreInv
<1>9. EditorMissed => EditorMissed'
  BY <1>1, MissedStays
<1>3. ASSUME ~trace.clash PROVE Kept'
  <2>1. EditorMissed \/ editor["global"] = mine.editor
    BY <1>3, <1>8 DEF RestoreInv, Steps
  <2>2. GlobalPlace' \in Place /\ mine.editor \notin Place
    BY Mine DEF GlobalPlace, Place
  <2>3. UNCHANGED <<backup, editor, claude, mine>>
    BY DEF UninstallPath
  <2> QED BY <1>3, <1>9, <2>1, <2>2, <2>3 DEF RestoreInv, Kept, KeptEditor
<1>4. ~trace.clash => Steps(o)'
  BY <1>1 DEF Moves, Steps, InstallPc, OtherPc
<1>5. ~trace.clash /\ Kind(o) # "install" /\ trace.last = o /\ Whole(o) => Restores(o)'
  BY <1>1, <1>9 DEF UninstallPath, Moves, RestoreInv, Last, Restores, AfterClaude, AfterEditor, AfterHooks
<1> QED BY <1>0, <1>1, <1>2, <1>3, <1>4, <1>5, RestoreMoveKeeps DEF Pc, InstallPc, OtherPc, IdlePc

LEMMA ToggleReadRestores ==
  ASSUME RestoreInv, NEW o \in Op, ToggleRead(o)
  PROVE  RestoreInv'
<1> /\ op[o].pc = "read" /\ o \in Busy /\ op[o] \in OpState /\ trace' = trace /\ mine' = mine
    /\ HookInv /\ op \in [Op -> OpState]
  BY DEF ToggleRead, OpAt, Busy, RestoreInv, HookInv, HookTypeOK
<1>0. HookInv'
  BY ToggleReadKeeps
<1>7. PICK v \in SUBSET Matcher : Set(o, "clear", "read", v)
  <2>1. ReadMarkers \subseteq Matcher
    BY DEF ReadMarkers, Matcher, HookInv, HookTypeOK
  <2>2. Surfaces(o) \subseteq Matcher
    BY PlanFields DEF Surfaces, Matcher, HookInv, Sorts
  <2> QED BY <2>1, <2>2 DEF ToggleRead
<1>1. Moves(o, "clear") /\ op'[o].todo = op[o].todo
  BY <1>7, SetReadMoves DEF Pc, InstallPc, OtherPc, IdlePc
<1>2. LinesKept'
  BY <1>1, LinesStay DEF ToggleRead, RestoreInv
<1>3. ~trace.clash => Kept'
  BY <1>1, KeptStays DEF ToggleRead, RestoreInv
<1>4. ~trace.clash => Steps(o)'
  BY <1>1 DEF ToggleRead, Moves, RestoreInv, Steps, GlobalPlace, Local, InstallPc, OtherPc
<1>5. ~trace.clash /\ Kind(o) # "install" /\ trace.last = o /\ Whole(o) => Restores(o)'
  BY DEF RestoreInv, Ways, Whole
<1> QED BY <1>0, <1>1, <1>2, <1>3, <1>4, <1>5, RestoreMoveKeeps DEF Pc, InstallPc, OtherPc, IdlePc

LEMMA ToggleClearRestores ==
  ASSUME RestoreInv, NEW o \in Op, ToggleClear(o)
  PROVE  RestoreInv'
<1> /\ op[o].pc = "clear" /\ o \in Busy /\ op[o] \in OpState /\ trace' = trace /\ mine' = mine
    /\ HookInv /\ op \in [Op -> OpState]
  BY DEF ToggleClear, OpAt, Busy, RestoreInv, HookInv, HookTypeOK
<1>0. HookInv'
  BY ToggleClearKeeps
<1>1. Moves(o, "mark") /\ op'[o].todo = op[o].todo
  BY GoOnMoves DEF ToggleClear, Pc, InstallPc, OtherPc, IdlePc
<1>2. LinesKept'
  BY <1>1, LinesStay DEF ToggleClear, RestoreInv
<1>3. ~trace.clash => Kept'
  BY <1>1, KeptStays DEF ToggleClear, RestoreInv
<1>4. ~trace.clash => Steps(o)'
  BY <1>1 DEF ToggleClear, Moves, RestoreInv, Steps, GlobalPlace, Local, InstallPc, OtherPc
<1>5. ~trace.clash /\ Kind(o) # "install" /\ trace.last = o /\ Whole(o) => Restores(o)'
  BY DEF RestoreInv, Ways, Whole
<1> QED BY <1>0, <1>1, <1>2, <1>3, <1>4, <1>5, RestoreMoveKeeps DEF Pc, InstallPc, OtherPc, IdlePc

LEMMA ToggleMarkRestores ==
  ASSUME RestoreInv, NEW o \in Op, ToggleMark(o)
  PROVE  RestoreInv'
<1> /\ op[o].pc = "mark" /\ o \in Busy /\ op[o] \in OpState /\ trace' = trace /\ mine' = mine
    /\ HookInv /\ op \in [Op -> OpState]
  BY DEF ToggleMark, OpAt, Busy, RestoreInv, HookInv, HookTypeOK
<1>0. HookInv'
  BY ToggleMarkKeeps
<1>1. Moves(o, "done") /\ op'[o].todo = op[o].todo
  BY GoOnMoves DEF ToggleMark, Pc, InstallPc, OtherPc, IdlePc
<1>2. LinesKept'
  BY <1>1, LinesStay DEF ToggleMark, RestoreInv
<1>3. ~trace.clash => Kept'
  BY <1>1, KeptStays DEF ToggleMark, RestoreInv
<1>4. ~trace.clash => Steps(o)'
  BY <1>1 DEF ToggleMark, Moves, RestoreInv, Steps, GlobalPlace, Local, InstallPc, OtherPc
<1>5. ~trace.clash /\ Kind(o) # "install" /\ trace.last = o /\ Whole(o) => Restores(o)'
  BY DEF RestoreInv, Ways, Whole
<1> QED BY <1>0, <1>1, <1>2, <1>3, <1>4, <1>5, RestoreMoveKeeps DEF Pc, InstallPc, OtherPc, IdlePc

LEMMA InstallHooksRestores ==
  ASSUME RestoreInv, NEW o \in Op, InstallHooks(o)
  PROVE  RestoreInv'
<1> /\ op[o].pc = "hooks" /\ o \in Busy /\ op[o] \in OpState /\ trace' = trace /\ mine' = mine
    /\ HookInv /\ op \in [Op -> OpState]
  BY DEF InstallHooks, OpAt, Busy, RestoreInv, HookInv, HookTypeOK
<1>0. HookInv'
  BY InstallHooksKeeps
<1>1. PICK h \in op[o].todo, pc \in {"hooks", "killed"}, lines \in Text :
        /\ h \in Hook /\ Moves(o, pc)
        /\ lines = InstallHook(hook[op[o].place][h]) \/ (lines = <<>> /\ h \in op'[o].missed)
        /\ hook' = [hook EXCEPT ![op[o].place][h] = lines]
  BY InstallHooksDoes
<1>2. LinesKept'
  <2> SUFFICES ASSUME OwnLines(mine.lines), NEW g \in Hook
               PROVE  HookMissed("own", g)' \/ LineKept(hook["own"][g])'
    BY DEF LinesKept
  <2>1. HookMissed("own", g) => HookMissed("own", g)'
    BY <1>1, MissedStays
  <2>2. /\ HookMissed("own", g) \/ LineKept(hook["own"][g])
        /\ hook["own"][g] \in Text /\ hook \in [Place -> [Hook -> Text]] /\ op[o].place \in Place
    BY DEF RestoreInv, LinesKept, HookInv, HookTypeOK, Place, OpState
  <2>3. \/ hook'["own"][g] \in {hook["own"][g], InstallHook(hook["own"][g])}
        \/ op[o].place = "own" /\ g \in op'[o].missed
    BY <1>1, <2>2 DEF Place
  <2>4. op[o].place = "own" /\ g \in op'[o].missed => HookMissed("own", g)'
    BY <1>1 DEF Moves, HookMissed
  <2>5. LineKept(hook["own"][g]) => LineKept(InstallHook(hook["own"][g]))
    BY <2>2, InstallKeepsLines DEF LineKept
  <2> QED BY <2>1, <2>2, <2>3, <2>4, <2>5 DEF LineKept
<1>3. ~trace.clash => Kept'
  BY <1>1, KeptStays DEF InstallHooks, RestoreInv
<1>4. ~trace.clash => Steps(o)'
  BY <1>1 DEF InstallHooks, Moves, RestoreInv, Steps, GlobalPlace, Local, InstallPc, OtherPc
<1>5. Kind(o) = "install" /\ Quiet
  BY DEF InstallHooks, HookInv, Sorts, InstallPc, Quiet, GlobalPlace
<1> QED BY <1>0, <1>1, <1>2, <1>3, <1>4, <1>5, RestoreMoveKeeps DEF Pc, InstallPc, OtherPc, IdlePc

LEMMA InstallMetaRestores ==
  ASSUME RestoreInv, NEW o \in Op, InstallMeta(o)
  PROVE  RestoreInv'
<1> /\ op[o].pc = "hooks" /\ o \in Busy /\ op[o] \in OpState /\ trace' = trace /\ mine' = mine
    /\ HookInv /\ op \in [Op -> OpState]
  BY DEF InstallMeta, OpAt, Busy, RestoreInv, HookInv, HookTypeOK
<1>0. HookInv'
  BY InstallMetaKeeps
<1>7. PICK pc \in {"cscripts", "done", "legacy"} : GoOn(o, pc)
  BY DEF InstallMeta
<1>1. Moves(o, pc)
  BY <1>7, GoOnMoves DEF Pc, InstallPc, OtherPc, IdlePc
<1>2. LinesKept'
  BY <1>1, LinesStay DEF InstallMeta, RestoreInv
<1>3. ~trace.clash => Kept'
  BY <1>1, KeptStays DEF InstallMeta, RestoreInv
<1>4. ~trace.clash => Steps(o)'
  BY <1>1 DEF InstallMeta, Moves, RestoreInv, Steps, GlobalPlace, Local, InstallPc, OtherPc
<1>5. Kind(o) = "install" /\ Quiet
  BY DEF InstallMeta, HookInv, Sorts, InstallPc, Quiet, GlobalPlace
<1> QED BY <1>0, <1>1, <1>2, <1>3, <1>4, <1>5, RestoreMoveKeeps DEF Pc, InstallPc, OtherPc, IdlePc

LEMMA UninstallHooksRestores ==
  ASSUME RestoreInv, NEW o \in Op, UninstallHooks(o)
  PROVE  RestoreInv'
<1> /\ op[o].pc = "uhooks" /\ o \in Busy /\ op[o] \in OpState /\ trace' = trace /\ mine' = mine
    /\ HookInv /\ op \in [Op -> OpState]
  BY DEF UninstallHooks, OpAt, Busy, RestoreInv, HookInv, HookTypeOK
<1>0. HookInv'
  BY UninstallHooksKeeps
<1>1. PICK h \in op[o].todo, lines \in Text :
        /\ h \in Hook /\ Moves(o, "uhooks") /\ op'[o].todo = op[o].todo \ {h}
        /\ \/ lines = UninstallHook(hook[op[o].place][h])
           \/ lines \in {hook[op[o].place][h], <<>>} /\ h \in op'[o].missed
        /\ hook' = [hook EXCEPT ![op[o].place][h] = lines]
  BY UninstallHooksDoes
<1>8. EditorMissed => EditorMissed'
  BY <1>1, MissedStays
<1>2. LinesKept'
  <2> SUFFICES ASSUME OwnLines(mine.lines), NEW g \in Hook
               PROVE  HookMissed("own", g)' \/ LineKept(hook["own"][g])'
    BY DEF LinesKept
  <2>1. HookMissed("own", g) => HookMissed("own", g)'
    BY <1>1, MissedStays
  <2>2. /\ HookMissed("own", g) \/ LineKept(hook["own"][g])
        /\ hook["own"][g] \in Text /\ hook \in [Place -> [Hook -> Text]] /\ op[o].place \in Place
    BY DEF RestoreInv, LinesKept, HookInv, HookTypeOK, Place, OpState
  <2>3. \/ hook'["own"][g] \in {hook["own"][g], UninstallHook(hook["own"][g])}
        \/ op[o].place = "own" /\ g \in op'[o].missed
    BY <1>1, <2>2 DEF Place
  <2>4. op[o].place = "own" /\ g \in op'[o].missed => HookMissed("own", g)'
    BY <1>1 DEF Moves, HookMissed
  <2>5. LineKept(hook["own"][g]) => LineKept(UninstallHook(hook["own"][g]))
    BY <2>2, UninstallKeepsLines DEF LineKept
  <2> QED BY <2>1, <2>2, <2>3, <2>4, <2>5 DEF LineKept
<1>3. ~trace.clash => Kept'
  BY <1>1, KeptStays DEF UninstallHooks, RestoreInv
<1>4. ~trace.clash => Steps(o)'
  BY <1>1, <1>8 DEF UninstallHooks, Moves, RestoreInv, Steps, GlobalPlace, Local, InstallPc, OtherPc
<1>5. ASSUME ~trace.clash, Kind(o) # "install", trace.last = o, Whole(o) PROVE Restores(o)'
  <2>1. Restores(o)
    BY <1>5 DEF RestoreInv, Last
  <2>2. op'[o].pc = "uhooks" /\ op[o].missed \subseteq op'[o].missed
    BY <1>1 DEF Moves
  <2> QED BY <1>8, <2>1, <2>2 DEF UninstallHooks, Restores, AfterClaude, AfterEditor, AfterHooks
<1> QED BY <1>0, <1>1, <1>2, <1>3, <1>4, <1>5, RestoreMoveKeeps DEF Pc, InstallPc, OtherPc, IdlePc

LEMMA UninstallDirRestores ==
  ASSUME RestoreInv, NEW o \in Op, UninstallDir(o)
  PROVE  RestoreInv'
<1> /\ op[o].pc = "uhooks" /\ o \in Busy /\ op[o] \in OpState /\ trace' = trace /\ mine' = mine
    /\ HookInv /\ op \in [Op -> OpState]
  BY DEF UninstallDir, OpAt, Busy, RestoreInv, HookInv, HookTypeOK
<1>0. HookInv'
  BY UninstallDirKeeps
<1>1. PICK pc \in {"upath", "done", "killed"} :
        /\ Moves(o, pc) /\ (pc = "upath" => ~Local(o))
        /\ backup' \in {backup, [backup EXCEPT ![op[o].place] = ""]}
  BY UninstallDirDoes
<1>8. EditorMissed => EditorMissed'
  BY <1>1, MissedStays
<1>9. GlobalPlace \in {"lrc", "own"} /\ GlobalPlace' = GlobalPlace /\ UNCHANGED <<hooksPath, editor, claude, hook>>
  BY DEF UninstallDir, GlobalPlace
<1>2. LinesKept'
  BY <1>1, <1>9, LinesStay DEF RestoreInv
<1>3. ASSUME ~trace.clash PROVE Kept'
  <2>1. Kept /\ Steps(o) /\ backup \in [Place -> Editor] /\ mine.editor \notin Place
    BY <1>3, Mine DEF RestoreInv, HookInv, HookTypeOK
  <2>2. CASE EditorMissed
    BY <1>8, <1>9, <2>1, <2>2 DEF Kept
  <2>3. CASE ~EditorMissed
    <3>1. op[o].place \in Place
      BY DEF OpState
    <3>2. \A p \in Place : backup'[p] \in {backup[p], ""} /\ (p # op[o].place => backup'[p] = backup[p])
      BY <1>1, <2>1, <3>1
    <3>3. op[o].place = GlobalPlace => editor["global"] # GlobalPlace
      BY <1>9, <2>1, <2>3 DEF Steps, Place, OtherPc
    <3>4. KeptEditor
      BY <2>1, <2>3 DEF Kept
    <3>5. KeptEditor'
      BY <1>9, <2>1, <3>2, <3>3, <3>4 DEF KeptEditor, Place
    <3> QED BY <1>9, <2>1, <3>5 DEF Kept
  <2> QED BY <2>2, <2>3
<1>4. ASSUME ~trace.clash PROVE Steps(o)'
  <2>1. /\ Local(o)' = Local(o) /\ op'[o].place = IF Local(o) THEN "repo" ELSE GlobalPlace
        /\ op'[o].pc \in {"upath", "done", "killed"}
    BY <1>1, <1>4 DEF Moves, RestoreInv, Steps, Local, OtherPc
  <2>2. ~Local(o) => EditorMissed' \/ editor'["global"] = mine.editor
    BY <1>4, <1>8, <1>9 DEF RestoreInv, Steps
  <2> QED BY <1>9, <2>1, <2>2 DEF Steps
<1>5. ASSUME ~trace.clash, Kind(o) # "install", trace.last = o, Whole(o) PROVE Restores(o)'
  <2>1. Restores(o) /\ Ready(o) /\ op[o].todo = {}
    BY <1>5 DEF RestoreInv, HookInv, Last, UninstallDir
  <2>2. /\ op'[o].pc \in {"upath", "done", "killed"} /\ op[o].missed \subseteq op'[o].missed
        /\ op'[o].place = op[o].place
    BY <1>1 DEF Moves
  <2>3. ~Holds(mine.lines, "begin")
          => \A h \in Hook \ op'[o].missed : ~Holds(hook'[op'[o].place][h], "begin")
    BY <1>9, <2>1, <2>2 DEF Ready
  <2> QED BY <1>8, <1>9, <2>1, <2>2, <2>3 DEF Restores, AfterClaude, AfterEditor, AfterHooks
<1> QED BY <1>0, <1>1, <1>2, <1>3, <1>4, <1>5, RestoreMoveKeeps DEF Pc, InstallPc, OtherPc, IdlePc

LEMMA RemoveRestores ==
  ASSUME RestoreInv, NEW o \in Op, Remove(o)
  PROVE  RestoreInv'
<1> /\ op[o].pc \in {"shell", "config", "binaries"} /\ o \in Busy /\ op[o] \in OpState
    /\ trace' = trace /\ mine' = mine /\ HookInv /\ op \in [Op -> OpState]
  BY DEF Remove, Busy, RestoreInv, HookInv, HookTypeOK
<1>0. HookInv'
  BY RemoveKeeps
<1>7. PICK pc \in {"config", "binaries", "done"} : GoOn(o, pc) \/ Miss(o, pc, {})
  BY DEF Remove, OpAt
<1>1. Moves(o, pc) /\ op'[o].missed = op[o].missed
  BY <1>7, EitherMoves DEF Pc, InstallPc, OtherPc, IdlePc
<1>8. EditorMissed => EditorMissed'
  BY <1>1, MissedStays
<1>2. LinesKept'
  BY <1>1, LinesStay DEF Remove, RestoreInv
<1>3. ~trace.clash => Kept'
  BY <1>1, KeptStays DEF Remove, RestoreInv
<1>4. ~trace.clash => Steps(o)'
  BY <1>1 DEF Moves, Steps, InstallPc, OtherPc
<1>5. ~trace.clash /\ Kind(o) # "install" /\ trace.last = o /\ Whole(o) => Restores(o)'
  BY <1>1, <1>8 DEF Remove, Moves, RestoreInv, Last, Restores, AfterClaude, AfterEditor, AfterHooks
<1> QED BY <1>0, <1>1, <1>2, <1>3, <1>4, <1>5, RestoreMoveKeeps DEF Pc, InstallPc, OtherPc, IdlePc

LEMMA KillRestores ==
  ASSUME RestoreInv, NEW o \in Op, Kill(o)
  PROVE  RestoreInv'
<1> /\ o \in Busy /\ op[o] \in OpState
    /\ trace' = trace /\ mine' = mine /\ HookInv /\ op \in [Op -> OpState]
  BY DEF Kill, RestoreInv, HookInv, HookTypeOK
<1>0. HookInv'
  BY KillKeeps
<1>1. Moves(o, "killed")
  BY EitherMoves DEF Kill, Pc, InstallPc, OtherPc, IdlePc
<1>2. LinesKept' /\ (~trace.clash => Kept')
  BY <1>1, LinesStay, KeptStays DEF Kill, RestoreInv
<1>3. Steps(o)' /\ Restores(o)' /\ Quiet
  BY <1>1 DEF Kill, Moves, Steps, Restores, Quiet, GlobalPlace, InstallPc, OtherPc, AfterClaude,
              AfterEditor, AfterHooks
<1> QED BY <1>0, <1>1, <1>2, <1>3, RestoreMoveKeeps DEF Pc, InstallPc, OtherPc, IdlePc

LEMMA BeginRestores ==
  ASSUME RestoreInv, NEW o \in Op, Begin(o)
  PROVE  RestoreInv'
<1> HookInv /\ mine' = mine /\ trace'.last = o
  BY DEF RestoreInv, Begin
<1>0. HookInv'
  BY BeginKeeps
<1>1. /\ op[o].pc = "wait" /\ op'[o].pc \in {"path", "cscripts", "unset", "umeta", "read"}
      /\ op'[o].pc = "read" => Kind(o) \notin {"uninstall", "remove"}
      /\ Whole(o) => op'[o].pc = "unset"
      /\ op'[o].plan = op[o].plan
      /\ op'[o].place = IF Local(o) THEN "repo" ELSE GlobalPlace
      /\ op'[o].set => hooksPath = ""
  BY BeginDoes
<1>2. ASSUME NEW q \in Op, q # o
      PROVE  /\ op'[q].pc = op[q].pc /\ op'[q].plan = op[q].plan
             /\ op'[q].place = op[q].place /\ op'[q].read = op[q].read /\ op'[q].set = op[q].set
  BY <1>2, BeginDoes
<1>3. UNCHANGED <<hooksPath, editor, backup, hook, claude>> /\ GlobalPlace' = GlobalPlace
  BY DEF Begin, GlobalPlace
<1>7. /\ EditorMissed => EditorMissed'
      /\ \A p, h : HookMissed(p, h) => HookMissed(p, h)'
  BY BeginMisses
<1>4. Ways'
  <2>1. ASSUME NEW q \in Op, q # o
        PROVE  /\ op'[q].pc \in {"read", "clear", "mark"} => Kind(q)' \notin {"uninstall", "remove"}
               /\ op'[q].pc = "upath" => ~Local(q)'
    BY <1>2, <2>1 DEF RestoreInv, Ways, Kind, Local
  <2>2. /\ op'[o].pc \in {"read", "clear", "mark"} => Kind(o)' \notin {"uninstall", "remove"}
        /\ op'[o].pc # "upath"
    BY <1>1 DEF Kind
  <2> QED BY <2>1, <2>2 DEF Ways
<1>5. LinesKept'
  <2> SUFFICES ASSUME OwnLines(mine.lines), NEW h \in Hook
               PROVE  HookMissed("own", h)' \/ LineKept(hook["own"][h])'
    BY DEF LinesKept
  <2>1. HookMissed("own", h) \/ LineKept(hook["own"][h])
    BY DEF RestoreInv, LinesKept
  <2> QED BY <1>3, <1>7, <2>1 DEF LineKept
<1>6. ASSUME ~trace'.clash PROVE Kept' /\ \A q \in Op : Steps(q)' /\ Last(q)'
  <2>1. ~trace.clash /\ (Busy = {} \/ Kind(o) = "install")
    BY <1>6 DEF Begin
  <2>2. Kept'
    BY <1>3, <1>7, <2>1 DEF RestoreInv, Kept, KeptEditor
  <2>3. ASSUME NEW q \in Op, q # o PROVE Steps(q)' /\ Last(q)'
    <3>1. Steps(q)
      BY <2>1 DEF RestoreInv
    <3>2. Local(q)' = Local(q)
      BY <1>2, <2>3 DEF Local
    <3>3. Steps(q)'
      BY <1>2, <1>3, <1>7, <2>3, <3>1, <3>2 DEF Steps
    <3> QED BY <2>3, <3>3 DEF Last
  <2>4. Steps(o)'
    <3>1. Local(o)' = Local(o)
      BY <1>1 DEF Local
    <3> QED BY <1>1, <1>3, <3>1 DEF Steps
  <2>5. Last(o)'
    <3>1. Kind(o)' = Kind(o) /\ Whole(o)' = Whole(o)
      BY <1>1 DEF Kind, Whole, Local
    <3>2. Kind(o) # "install" => Busy' \subseteq {o}
      <4>1. Busy' \subseteq Busy \cup {o}
        BY <1>2 DEF Busy
      <4> QED BY <2>1, <4>1
    <3>3. Whole(o) => Restores(o)'
      BY <1>1 DEF Restores, AfterClaude, AfterEditor, AfterHooks
    <3> QED BY <3>1, <3>2, <3>3 DEF Last
  <2> QED BY <2>2, <2>3, <2>4, <2>5
<1> QED BY <1>0, <1>4, <1>5, <1>6 DEF RestoreInv

LEMMA RestoreInvStart == HooksInit => RestoreInv
<1> SUFFICES ASSUME HooksInit PROVE RestoreInv
  OBVIOUS
<1>0. HookInv
  BY HookInvStart
<1>1. PICK m \in Homes :
        /\ mine = m /\ hooksPath = m.path
        /\ editor = [s \in {"global", "local"} |-> IF s = "global" THEN m.editor ELSE ""]
        /\ hook = [p \in Place |-> [h \in Hook |-> IF p = "own" THEN m.lines ELSE <<>>]]
        /\ claude = m.claude
  BY DEF HooksInit
<1>2. PICK plan \in Plans : op = [o \in Op |-> Wait(plan[o])]
  BY DEF HooksInit
<1>3. \A o \in Op : op[o].pc = "wait"
  BY <1>2 DEF Wait
<1>4. Busy = {}
  BY <1>3 DEF Busy
<1>5. /\ mine.editor \notin Place /\ "managed" \notin mine.claude
  BY <1>0, Mine
<1>6. \A p \in Place : backup[p] = ""
  BY DEF HooksInit
<1>7. Kept
  <2>1. editor["global"] = mine.editor
    BY <1>1
  <2>2. GlobalPlace \in Place
    BY DEF GlobalPlace, Place
  <2>3. claude \ {"managed"} = mine.claude
    BY <1>1, <1>5
  <2> QED BY <1>5, <1>6, <2>1, <2>2, <2>3 DEF Kept, KeptEditor, Place
<1>8. LinesKept
  BY <1>1 DEF LinesKept, LineKept, Place
<1>9. Ways
  BY <1>3 DEF Ways
<1>10. \A o \in Op : Steps(o) /\ Last(o)
  BY <1>3, <1>4 DEF Steps, Last, Restores, InstallPc, OtherPc, AfterClaude, AfterEditor, AfterHooks
<1> QED BY <1>0, <1>7, <1>8, <1>9, <1>10 DEF RestoreInv

LEMMA RestoreInvStep == RestoreInv /\ [HooksNext]_hookVars => RestoreInv'
<1> SUFFICES ASSUME RestoreInv, [HooksNext]_hookVars PROVE RestoreInv'
  OBVIOUS
<1>1. CASE UNCHANGED hookVars
  <2>1. HookInv'
    BY HookInvStep DEF RestoreInv
  <2> QED BY <1>1, <2>1 DEF hookVars, RestoreInv, Ways, LinesKept, LineKept, Kept, KeptEditor, Steps, Last,
                            Restores, Busy, GlobalPlace, Kind, Local, Whole, EditorMissed, HookMissed
<1>2. CASE HooksNext
  BY <1>2, BeginRestores, InstallPathRestores, InstallScriptsRestores, InstallBackupRestores,
     InstallWrapperRestores, InstallEditorRestores, InstallHooksRestores, InstallMetaRestores,
     RemoveLegacyRestores, UninstallClaudeFailsRestores, UninstallDirRestores, ClaudeScriptsRestores,
     ClaudeSettingsRestores, UninstallClaudeRestores, UninstallClaudeScriptsRestores, UninstallReadsRestores,
     UninstallEditorRestores, UninstallWrapperRestores, UninstallHooksRestores, UninstallPathRestores,
     RemoveRestores, ToggleReadRestores, ToggleClearRestores, ToggleMarkRestores, KillRestores
     DEF HooksNext
<1> QED BY <1>1, <1>2

\* However many installs ran, overlapped, failed or were killed before it, a global uninstall that
\* runs alone to its end leaves core.editor, Claude's settings and the user's lines of every hook
\* script as they were, and no section of lrc's; the errors that lrc drops are the exceptions.
THEOREM UninstallPutsBack == HooksSpec => []UninstallRestores
<1>1. RestoreInv => UninstallRestores
  <2> SUFFICES ASSUME RestoreInv, NEW o \in Op, LastAlone(o),
                      op[o].plan.kind \in {"uninstall", "remove"}, op[o].plan.surface = "all",
                      ~Local(o), ~trace.clash, "claude" \notin op[o].missed
               PROVE  /\ EditorMissed \/ editor["global"] = mine.editor
                      /\ claude = mine.claude
                      /\ \A h \in Hook :
                           /\ OwnLines(mine.lines) /\ ~HookMissed("own", h)
                                => UserLines(hook["own"][h]) = UserLines(mine.lines)
                           /\ ~Holds(mine.lines, "begin") /\ h \notin op[o].missed
                                => ~Holds(hook[op[o].place][h], "begin")
    BY DEF UninstallRestores
  <2>1. Restores(o)
    BY DEF RestoreInv, LastAlone, Last, Whole, Kind
  <2>2. op[o].pc = "done"
    BY DEF LastAlone, OpAt
  <2>3. OwnLines(mine.lines)
          => \A h \in Hook : HookMissed("own", h) \/ UserLines(hook["own"][h]) = UserLines(mine.lines)
    BY DEF RestoreInv, LinesKept, LineKept
  <2> QED BY <2>1, <2>2, <2>3 DEF Restores, AfterClaude, AfterEditor, AfterHooks
<1> QED BY <1>1, RestoreInvStart, RestoreInvStep, PTL DEF HooksSpec

=============================================================================
