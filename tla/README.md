# git-lrc: a verification development

git-lrc reviews a change before it is committed. This directory holds TLA+ modules of what it
decides, keeps and computes, the TLC configurations that check them and TLAPS proofs about them.
Paths are relative to the repository's root (`src/` in PROJECT.json). PROJECT.json lists, for every
definition, the lines it stands for; together they are a third of the implementation.

## 1. The system: its parts and how they interact

A `git commit` runs the hooks lrc installed. `prepare-commit-msg` runs `lrc review --staged
--precommit`, which collects and filters the staged diff, submits it, scores it against a graph of
the code, serves a page, opens a terminal prompt, polls the backend and ends with an exit code that
says what was decided. `commit-msg` adds a trailer that says what was done with the tree;
`post-commit` clears what was for this commit only, queues the commit for the backend and pushes if
asked. Beside the reviews, commands update the binaries, install and remove hooks, drive a setup for
Claude Code and renew the credentials. The parts talk through files: attestations per tree, a state
file, a message override, a push request, two SQLite databases, four locks, git's configuration,
`~/.lrc.toml` and the installed binaries.

| Part | State | Operations | What makes it correct |
|---|---|---|---|
| Decision rules (`internal/decisionflow`, `appcore/decisionruntime`) | phase, first decision, behind a mutex | SetPhase, TryDecide, ValidateRequest | one decision per runtime; each code only in its phase |
| Interactive review (`appcore/review_runtime.go`, `interactive_decision.go`) | two runtimes, two channels, the draft, the poll, the attestation | HTTP handlers, two prompts, two signal handlers, poll goroutine, main's selects, executeDecision | main carries out an accepted decision, in phase, with the draft frozen; a tree let through is attested; accepted decisions end the session |
| The other ways through the command (same function) | poll, timer, attestation, session, page | blocking, agent, plain and history reviews, `--skip`, `--vouch` | whatever the way, the attestation says what happened; a blocking commit was reviewed |
| Review state and upload (`appcore/review_state.go`, `blastradius_bridge.go`) | the page's state behind a mutex | updates by poll, scorer, uploader, timeouts | a page that sees scores knows of their upload; the upload ends |
| Draft hub (`appcore/draft_sync.go`) | text, version, frozen, watchers | Update, Freeze, Subscribe, Unsubscribe, broadcast | no lost update; watchers end on the last version |
| Hooks and attestations (`hooks/*.sh`, `appcore/attestation_flow.go`) | files in `.git` | four hooks, quick skip and vouch, remove, Claude's hook | the trailer tells; nothing of one commit leaks into a later one; a commit always ends |
| Commit-sync queue (`internal/syncqueue`, `appcore/sync_flow.go`) | one table, a flock | enqueue, opportunistic trigger, detached worker, forget | ask once, settle once, retry on schedule, in the end settle |
| Coverage (`attestation/`, `internal/reviewdb`) | review sessions of a branch | record, compare trees, count rounds, clean up | a changed line is not covered, an untouched one is |
| Blast radius (`blastradius/`, `appcore/blastradius_bridge.go`, `lrcrules/`) | none: a pipeline from a diff and a graph to scores | collect, exclude, score, submit, show | callers at their distance, renames seen, each score at its hunk, failures never add risk |
| Self update (`internal/selfupdate`) | binaries, staged files, pending record, flock | heal, fetch, stage, apply, sync | the pair agrees after the next command; no downgrade; a staged build is not lost |
| Hook installation (`appcore/hooks_management.go`, `hooks/`, `claude_hooks_management.go`, `uninstall.go`) | git's configuration, hook scripts, editor wrapper, Claude's settings, a record | install, uninstall, enable, disable, `lrc uninstall` | the user gets back what was the user's; nothing names a file that is gone |
| Claude's setup (`appcore/claude_setup.go`) | status file, key file, flock | start, worker, submit-key | one worker; a submitted key is read |
| Credentials (`appcore/auth_recovery.go`, `appui/`, `setup/`, `config/`) | `~/.lrc.toml`, the UI's session | recovery in a review, ensure, setup, the UI's handlers | a renewal never signs the user out; what is stored belongs together |

What is hard here: two runtimes arbitrate one session; decisions, edits and the end of the poll
race; each hook trusts files an earlier, perhaps killed, command left behind; several commands run
in one worktree; flush workers are detached processes with a snapshot of a table others change;
updates, installs and renewals are sequences of writes that end anywhere; diffs are parsed by three
parsers that must agree; queries fail one by one. PROJECT.json lists these as hazards, each at its
line, with the properties aimed at it.

## 2. Modules

| Module | What it is |
|---|---|
| `SyncQueue`, `MCSyncQueue` | the queue, its workers, the lock, the clock and the backend |
| `CommitSync` | what the queue promises, without ids, clock, lock and processes; `SyncQueue` implements it |
| `Decisions` | decision rules and runtime as operators; used by `ReviewSession` and `ReviewCommand` |
| `ReviewSession`, `MCReviewSession` | one interactive session, from the served page to its exit code |
| `DraftHub` | the message several clients edit: versions, watchers' channels, tabs, prompt, editor |
| `ReviewCommand`, `MCReviewCommand` | the command's other ways, with poll, page, scores, upload; composes `DraftHub` and `Decisions` |
| `CommitHooks`, `MCCommitHooks`, `MCCommitRules` | the commands of one worktree and the files between the hooks; what a document says of them |
| `Coverage`, `MCCoverage` | reviews, their sessions and the user's git commands between them |
| `BlastRadius` | the scores of a diff's hunks, a pure function of graph and diff |
| `Analysis`, `MCAnalysis` | the pipeline around it, and the join with the page |
| `SelfUpdate`, `HookInstall`, `ClaudeSetup`, `AuthConfig` | four parts of the machine |
| `Machine`, `MCMachine` | their composition |
| `SyncQueueProofs`, `ReviewSessionProofs`, `CommitHooksProofs`, `CoverageProofs`, `ReviewCommandProofs`, `AnalysisProofs`, `InstallProofs`, `SetupProofs` | theorems; the last two are about `SelfUpdate` and `HookInstall`, `ClaudeSetup` and `AuthConfig` |

### SyncQueue

`rows` is the table, `nextId` the AUTOINCREMENT counter, `lock` the flock, `now` the wall clock in
ticks. A process is a main thread (`pc`) and the trigger goroutine that `main.go` starts in every
invocation (`trig`); they die together. `todo` is the result of the one SELECT a pass starts with
and `cur`, `reply` its current iteration. `accepted` and `denied` are the backend. The actions
follow `RunSyncEnqueue` (`Insert`, `InsertNothing`, `EnqueueSpawn..`), `TriggerOpportunisticSyncFlush`
(`TriggerCount`, `TriggerSpawn`, `TriggerFails`), `tryFlush` and `flushSyncQueueDB` (`TryLock`,
`ReadDue`, `Post`, `Record`, `RecordLost`, `PassDone`, `Unlock`) and `RunSyncForget`; `Crash` ends a
process anywhere. `RecordLost` is the dropped error of MarkSynced and RecordFailure. RecordFailure
reads attempts and creation time and then updates; only the lock holder does so, hence one step.
Faults (crashes, lost writes, an unreachable backend) happen until `HealthyFrom`.

`CommitSync` is the abstract specification: a commit is asked for, offered, attached, settled or
forgotten. `SyncQueue` implements it under the mapping `Abstract` (run `sync_safety`).

### Decisions and ReviewSession

Every source of a decision (a browser request, a prompt, a signal) is a goroutine `th[t]` that goes
through TryDecide, Freeze and a channel send, in three steps, against the runtime it is wired to
(`Target`). `main` is where the main goroutine is between its selects, `poll` what the backend
answered, `box` the two channels, `held` what main received and `executed` what it carried out.
`attested`, `ledger`, `msgFile` and `pushFlag` are what the session leaves for the hooks. `setup`
says how the session starts: in a hook or not, with or without a submitted review, with an older
push request on disk or not. `Outcome`'s attestation is the code's: it is written whatever the poll
returned. RecordAndComputeCoverage always returns a nil error, so a session that could not be
stored is silent; `failed` remembers it for the properties only.

Left out: the non-progressive prompt (dead when the page is served), ErrPollCancelled (nobody
cancels the interactive poll), failures to store the message or the push request (warnings), the
handoff's findings, wording. `msgFile` stands for the live message file in a hook and the override
file otherwise.

### ReviewCommand and DraftHub

`setup.way` is the way `runReviewWithOptions` takes: `skip`, `vouch`, `blocking`, `agent`, `plain`,
`history`, or `interactive` for its page and draft only. `main` goes through `AttestNow`, `Prepare`
(an attestation that is there already, --force), `Collect` (no diff, nothing left of it), `Submit`
(too large, refused, taken), `Serve`, `Begin`, and then its way's wait and result. `PollStep` is the
poll with the recovery of its credentials, `Score` and `Upload` the background goroutines, `View` a
browser that asks for the page's state, `Request` a decision posted by a tab, which writes the draft
before it is accepted, `Decide` the same three steps as in ReviewSession.

`DraftHub`'s operations are critical sections, but `Subscribe` is two steps, since the first snapshot
is sent after the lock is released: a broadcast may come before it. A text is the set of the edits
in it, so that a lost one is seen. A tab publishes what it captured 160 ms earlier with the version it
shows now; its answers travel beside the events. A stream that ends unsubscribes, and the tab
subscribes again. The editor holds a snapshot for as long as it is open.

### CommitHooks

`pc[p]` is what a command is doing, `cmd[p]` how it was started and what it knows: git's tree and
base, the review's decision, its trailer. A command is a `git commit` (with or without a terminal,
LRC_SKIP_REVIEW=1 or disabled hooks), a `lrc review` that commits by itself, or Claude Code's
`git commit`, which its hook turns into a blocking review followed by the real one. Each hook is one
step, except where it waits for the lock or the review. git is external: it runs `pre-commit`, takes
the tree from the index, runs `prepare-commit-msg`, the editor and `commit-msg`, and moves HEAD only
if HEAD is what it was; that is how several commands at a time may still make one history. `User`
actions stage, skip, vouch and remove attestations at any moment. A lock older than 300 s is
`"stale"`; a hook that has waited 300 s goes on without a review; the EXIT trap removes the lock
whoever holds it, as in the script. The `Decide*` actions summarise ReviewSession; that what they
assume of a decision (the push request and the attestation are the decision's own, a commit comes
after the review) is what `PushAsDecided`, `LetThroughIsAttested` and `CommitAfterReview` say there.

History variables, read by properties and by no guard: `looked` (trees whose diff a review was
given), `used` (trees not attested again since post-commit), `touched` (the index or an attestation
changed under a command), `overlap` (two commands ran at the same time), and `reused`, `syncable`,
`queued` of a command.

### Coverage

A file is the sequence of its lines, and every line ever written has a number of its own, so that
"the same line" means something across trees. `Entries` is what a review shows of a diff. lrc
reads a file's path from the header of the diff and cuts it at its first space, or finds none when git
quotes it; `Word` says what it reads of each file, while git's own diffs between trees keep the whole
names. `Marked` compares the two as the code does. `ChangedLines` are the lines git puts into a hunk with its context, `DiffTreeFileHunks` is the diff between
the trees of two reviews, `MarkOverlappingLines` and `ComputePriorCoverage` the code's arithmetic on
them. `sessions` is the table review_sessions, rows by their id. `StartReview`, `FinishReview` and `AbandonReview` are a review, `AllExcluded` one whose files
are all ignored, `Decide` a skip or a vouch; `Commit` runs the cleanup of post-commit. Between them
the user writes, deletes, resets, switches branches and changes `.lrc/ignore` (external). `InSubdirectory`
says where lrc is run: the path of `git diff <tree> <tree> -- <path>` is taken from there. A call that
fails leaves what the code leaves: no coverage, or no session.

### BlastRadius and Analysis

`BlastRadius` is a function: hunks, a graph of the code (`code`: symbols, calls, methods, interfaces,
tests, routes, usage, ...) and the kinds of queries that fail (`x`) give scores. It follows the code's
order: `Touched` symbols of a hunk, `detectDeclRename`, `FanIn` (every chain of calls up to
`MaxDepth`, each caller at its best depth, with the chain of names between), callers that still use
the old name (`PreRename`), `CallScore`, `InterfaceScore`, `TypeScore`, the signals (entry points,
hotspots, tests, duplicates, writes, coupling, cleanliness of the change), and `ScoreHunks`, which
normalises the three sums and combines them. Points are hundredths. `Root` is rounded down; a logarithm
is an entry of `Logs`, a table that does not fall (`Log1p`). The index itself is external: it answers,
or a query fails.

`Analysis` is the way of a diff: `Collect`, `Exclude` (`.lrc/ignore`), `Score` in the background,
`Submit` with the bundle's extras, `Show` (a second parser, and the join by file, first line and
count). `Score` and `Show` come in either order. `IsDiff` is what git prints: a hunk's count is that of
its lines that are not removed, and the hunks of a file are in its order. `IsGraph` is what an index
holds: one symbol of a name, callers that are symbols, finite tables, counts that are naturals.

### Machine and its parts

The four parts share no state, so one of them moves in each behaviour and the others rest; one run
then checks what commands leave on the machine.

- `SelfUpdate`: each command heals the pair `lrc`/`git-lrc`, then works; a review also starts a
  goroutine that checks for a release. A thread goes step by step through locking, its metadata,
  downloading, saving the record, copying, renaming, hook installation, clearing. A file has a
  version, a flag whether it is whole and the time of its last byte, which a rename keeps. `Err`
  fails a step, `Die` kills a command anywhere.
- `HookInstall`: a command's writes one by one, in the code's order, with what it read before. A
  script is the sequence of its lines (`sh`, `user`, `begin`, `body`, `end`); `mine` is what the user
  had. `Kill` ends a command between two writes. A call that changes something may fail: `Kill` is also
  the error that ends a command, `Miss` and `MissHook` the errors the code drops or warns of, after
  which it goes on; `missed` remembers what such a command has not done. `legacy` is the
  `.claude/settings.local.json` an install deletes in its repository.
- `ClaudeSetup`: `start` probes the lock and spawns, the worker takes the lock, drops what an earlier
  session left, runs the setup and waits for a key file; `submit-key` writes it if the status asks
  for it.
- `AuthConfig`: the file is its lines, edited as the code edits them (first line with the key,
  managed section stripped and appended). Servers mint sessions and keys; a refresh token serves once.
  Clients are reviews, `ensure`, `setup` and the UI's handlers, each a sequence of calls and whole-file
  writes that may fail; access tokens expire at any moment.

## 3. Runs

Bounds are constants of the modules, named where they are declared; nothing is cut by a state
constraint.

| Run | Instance | Shows |
|---|---|---|
| `sync_safety` | 2 processes, 2 commits, 2 ids, 2 ticks, age limit 0, every fault | no stale snapshot, no wrong or double settlement; implements `CommitSync`. Two processes are enough for a pass to meet a second pass, a forget and an enqueue; two ids for one to be reused |
| `sync_live` | 1 commit, backoff 1, 2, healthy from tick 3 of 4, when the longest retry is due | two failures are retried on schedule; after the outage the item settles. Longer schedules are the theorem's business |
| `review_safety` | 1 browser request beside both prompts and both signals, 2 messages, every write may fail, in and outside of a hook | what main carries out was accepted, in phase, frozen, attested; one winner per runtime; the push is the decision's own |
| `review_live` | the same without failing writes, in a hook | an accepted decision ends the session |
| `hooks_safety` | 3 commands one after the other, 2 trees, all ways to start, all meddling, kills | nothing leaks from a commit into a later one. Three commits are what committing, reverting and committing again takes |
| `hooks_overlap` | 2 commands at once that review in a terminal, kills, failing writes | a command always ends, also when another holds the lock or was killed holding it |
| `hooks_attested` | 1 command at a time, 2 in all | **violated**: what README.md says of the trailers |
| `command` | each way once with what can go wrong in it; a tab that edits or follows a blocking review's draft; a tab, the prompt and an editor on an interactive one; channels of 2 | attestations as done, blocking commits reviewed, prompt in step with the draft, editor overwrites nobody, upload announced and ended. Channels of 2 fill, so that snapshots are dropped |
| `machine` | up to 3 commands of each part in the combinations of `MCKinds`, `MCPlans`, `MCAuthPlans`, one kill, failing call or death per behaviour (`MaxFaults`, `MaxMishaps`, `MaxDeaths`, `MaxFailures`), two expiries | eight properties of what is left behind. Three commands are one that leaves a mess, one that meets it and one that repairs it |
| `coverage` | 2 files, of 3 lines and empty, the second with a space in its name, 2 branches, 2 edits, 2 stored sessions, 1 new commit, 1 failing call, context 1 | changed lines are not covered, untouched ones are, rounds are counted, also while the other file's path is cut. A context of 1 has lines in a hunk that nobody wrote, as 3 has |
| `coverage_below` | the same in a subdirectory | **violated**: every line counts as covered |
| `analysis` | 16 graphs × 3 diffs × sources × states of `.lrc/` × outages (each query alone and some together), depth 3, the code's | callers, renames and scores are the right ones, and end at the right hunk |

`CHECK_DEADLOCK FALSE` where the system stops: a session that is done, a session nobody decides, a
worktree whose commands have all run, a bounded number of processes with nothing to spawn, an
analysis that has been shown.

Premises in properties, and what they exclude:

- `~touched`: somebody stages, or attests, while a command runs. Then the trailer can be wrong;
  `hooks_attested` shows how.
- `~overlap`: two commands at once share the state file, the override and the push request, without
  a lock; the code makes no claim. `TrailerTells` holds "ran" even then (proved).
- `PushedAsDecided` speaks of commits that were decided in this command's review. A commit of an
  already attested tree, or one that bypasses the review, finds whatever push request is left.
- `QueuedBeforeForgotten` without failing writes: enqueue is best-effort by design.
- `NextCommandHeals` and `UninstallRestores` speak of a command that ran alone to its end; what came
  before it is arbitrary. The errors the code drops are exceptions by name (`EditorMissed`, `HookMissed`,
  `missed`): each excuses what its call was to save or restore and nothing else, so that a failing call
  elsewhere, or a kill anywhere, excuses nothing. A call that fails is taken to leave its file as it was,
  the editor's backup and a hook script excepted, which may be left empty; reads are taken to succeed.
- `UninstallRestores` does not speak of `core.hooksPath`, which an uninstall does not always put back
  (section 5). `InTurnNothingIsLost` excludes commands at the same time, `trace.clash`
  uninstalls that overlap installs: the code has no lock there.
- `SessionKept` and `CredentialsAgree` exclude overlaps and writes that failed: the file is rewritten
  whole without a lock. `OneRefreshPerExpiry` has no such premise.
- `UntouchedIsCovered` without failing calls; `IterationsCountRounds` for a coverage that was computed
  (`sure`), on a branch none of whose sessions was lost and whose last cleanup worked, whatever failed
  elsewhere or earlier; the first three properties of coverage for files whose path lrc reads whole
  (`Own`): a file it does not is covered as a whole by any review. `CoveredWasShown` while
  HEAD, the ignore rules and, during a review, the index stand still (section 5 says what happens
  otherwise).

### Fairness

- `SyncQueue`: processes that exist are scheduled (weak fairness of Flush, Enqueue, Exit). Time
  passes; Tick waits for an unrecorded failure at `HealthyFrom`, hence strong. That lrc is run again
  is an assumption about the user (strong fairness of Start), and that the trigger goroutine does not
  lose every race against the end of its process one about typical commands (strong fairness of
  TriggerCount, TriggerSpawn). Both are what the opportunistic design relies on.
- `ReviewSession`: goroutines run, timers fire, the poll has a timeout. Nothing obliges the user to
  decide.
- `ReviewCommand`: the scoring and the upload run, and their calls have timeouts. Nothing else.
- `CommitHooks`: each command that can step does. A review ends because it has a timeout and because
  the user decides in the end; the waiting loop ends by its own counter.
- The others state none: what they say is about what a step leaves behind.

## 4. Proofs

All for any number of processes, keys, ids, requests, messages, files, lines and branches, and any
schedule. Assumptions are the modules' ASSUMEs: distinct names for goroutines, no key, no process; a
non-empty schedule of naturals; typed constants.

`SyncQueueProofs`: `TypeCorrect`, `SyncedIsTrue`, `SnapshotIsFresh`, `FailuresHaveReasons`,
`RetriesKeepSchedule`, `SettledStaysSettled`. `SnapshotStaysDue` is not inductive: that a pass's
snapshot is not overtaken needs that only the lock holder has one, that an id is below `nextId`
once it was read, and that a row above it is absent. The invariants say exactly this; the others
follow, with the row-local facts (a pending row's retry time) proved from the step alone.
`QueueImplements` is the refinement: every behaviour of the queue is one of `CommitSync` under
`Abstract`. `RowInserted`, `RowChanged` and `RowForgotten` say what a change of one row does to the
set of the keys with a status; since a key has one row, each step of the queue is then the abstract
step of one commit (`OfferStep`, and the cases of `QueueRefines`) or none (`StutterStep`). That an
attached commit has been accepted is `SyncedIsTrue`.

`ReviewSessionProofs`, in layers, each with the earlier ones as lemmas:

1. `SessionTypes`; and that no step of anybody thaws the draft or changes a frozen one (`FrozenStays`).
2. `SessionFlight`: a decision in flight is its runtime's, a full channel holds it and its Once has
   fired. From it `SessionOneWinner`.
3. `SessionFreezes`: a decision that has been sent was frozen first. With 1, `SessionTakenDraft`, an
   action property: once main holds a decision, no step changes the draft or opens it to edits again.
4. `SessionPhases`: a runtime is complete only when the poll has ended; a commit or handoff is only
   chosen in a complete runtime. From it CommitAfterReview.
5. `SessionResults`: by where main is, what it has attested and written. From it `SessionAttests`
   (LetThroughIsAttested and VouchIsRecorded) and `SessionPush` (PushAsDecided).

`CommitHooksProofs`, for any number of commands, started in any of the ways, and of trees. The
first part says once which step changes what: `Alone` (a command's step is no other's),
`FileChanges`, `OwnChanges`, `AttestChanges`, `StateChanges`, `MessageChanges`. On it stand:

1. `HooksTypes`. TypeOK is not inductive: that HEAD is a tree needs that a command past
   `WriteTree` holds one (`Held`).
2. `HooksSolo`: unless two commands have overlapped, one runs at most, and one that does not run
   knows nothing. From it `HooksPushedAsDecided` and `HooksQueued`.
3. `HooksTree`: what a command commits is what is staged, is not HEAD's tree while HEAD is where the
   command found it, and is HEAD's afterwards. From it `HooksAttestOnce` and, with Solo,
   `HooksMessageKept`.
4. `HooksLooked`: a review under way and an attestation "reviewed" are of a tree that was looked at.
5. `HooksTrailerTells`: when commit-msg reads "ran" in the state file, the tree is attested or was
   looked at, even if another command wrote the word. The command that wrote it had the same tree
   staged; a third one that clears HEAD's attestation cannot clear this tree's, by 3.

`CoverageProofs`: `ChangedNeverCovered`, under `~InSubdirectory`, which `coverage_below` shows to be
needed. The heart are `OutsideIsOld` and `MarkedIsOld`: a line of the newer tree in no hunk between
the two is a line of the older one, whatever the context, so what `MarkOverlappingLines` keeps was in
the tree of that session. A file whose path is read whole is found under its own name on both sides
(`Own`), and no other file's entry is taken for it. The property is nearly inductive; what it lacks is that trees are trees
(`TreesAreTrees`) and that a review shows files of the repository (`EntriesAreFiles`).

`RoundsAreCounted` is about the same module: unless a session was lost or a cleanup failed there since
it was last cleaned up (`unsure`), the table has as many rows of a branch as it had rounds since its
last commit (`RowsAreCounted`, in which a new id is shown to be new), and what an attestation counted
is this and one more, for the branch checked out.

`CoveredLinesWereShown` and `UntouchedLinesAreCovered` are about what a hunk of a diff is, on two
invariants:

1. `OneHistory`: any two trees the system knows (HEADs, index, sessions, a review under way) are
   `Related`: no file has a line twice, and what two of its versions have in common stands in the same
   order in both. Every edit writes new lines or deletes some, and git only moves trees about.
2. `StoredAsShown`: what a review shows and stores is the diff of its HEAD and its tree, less what the
   ignore rules of its time leave out.

The common lines of related files can be counted from either side (`SameCount`), so a gap between two
of them in one file has its counterpart in the other (`Gaps`). Hence `OutsideIsSame` and
`SameIsOutside`: a line is in no hunk exactly if its neighbourhood, as far as the context reaches,
stands the same in the other file. Sameness composes (`SameGoesOn`): where HEAD has not moved, a line in
no hunk since a review that did not show it is in no hunk since HEAD either, so no review is asked
about it. Assumed of `FirstTree` is that its lines are numbered up to `FirstLine` and none is there
twice: lines are named by when they were written.

`ReviewCommandProofs`, for any tabs, edits, ways to start and channel capacity. `HubSteps` says once
what a step of the command does to the draft hub: most leave it alone, a decision freezes it, a
message sent along with one overwrites it, and the rest are the hub's and its clients' own. The
invariant `HubInv` is about the prompt:

1. `SnapsAreFaithful`: a snapshot in its channel, on its way there or in its editor is older than the
   draft, or is the draft. The first snapshot may arrive behind newer ones, so the channel is not
   ordered by version and its order proves nothing.
2. `ViewIsFaithful`: so is what it shows, unless the draft is frozen: then it may be typed in in vain.
3. `NothingIsLost`: the draft's version is shown or on its way, unless something was dropped. A full
   channel is what `missed` records, and `ChannelsHold` says that a channel is full or has room.

`CommandShowsDraft` is 3 and 2 with nothing on its way. `CommandEditorKeeps` is 1: an update that is
taken expects the draft's version, so its editor was given the draft as it is.

The same module has `CommandInv`, about the command's ways:

1. `WhereMainIs`: what main has behind it where it is: before it waits nothing is written and the
   poll is idle, only the agent's way attests after the poll, and so on.
2. `CommitsAreAccepted`: a commit that was chosen, sent or received was accepted after the poll of a
   blocking review. With 1, `CommandCommitsReviewed`.
3. `WrittenOnce`: an attestation is written over the one that was found, or the one --force deleted.
   With 1, `CommandAttestsAsDone`: it says what happened, whatever the way.
4. `UploadFirst`: the upload is announced before there is a page. `CommandShowsUpload`.

`InstallProofs`, of two components. First `SelfUpdate`, for any number of commands and releases, any sizes
and any kills. `Flow` says what the two threads of a command may be doing (`ThreadsOf`), who holds the
update lock (`LockIsHeld`), whose name its file may bear (`Marked`) and what a thread knows of the release
it handles (`Knows`). On it stand two arguments. `AloneHeals`: a command that runs alone and met no error
has, from its healing on, two binaries of one size (`Heals`); its end is `HealsOnTheNextCommand`. `InTurn`:
while no two commands overlap, one runs at most (`OneAtATime`), git-lrc lags behind lrc by a release and by
its time, so that healing copies the newer one (`Lags`), and what is recorded or in a thread's hands is at
least as new as lrc (`Recorded`, `Carries`, `MainCarries`). From it `UpdatesInTurn`: no downgrade, and no
staged build forgotten.

Then `HookInstall`. Its first part is about scripts as texts: a managed section has its end
(`Closed`), removing it takes no line of the user that stands outside, and inserting one adds none. "The
same user lines" is counted with `Nth` and `Enumerates`, which number the positions of a set;
`SameSize` carries a count from one text to the other. `HookTypes` is types; two invariants follow:

1. `NothingEverDangles`: `Sorts` (which commands are at which writes), `Editors` (a repository's editor
   is no global wrapper, a backup no wrapper), `Sections`, and, as long as nothing but installs has
   overlapped, `Overlap`, what each command has done before its next write (`Ready`) and that what is
   named is there (`NamedEditor`, `NamedHooks`), but for what somebody has `missed`.
2. `UninstallPutsBack`: a global uninstall that ran alone to its end gives the user's lines, editor and
   Claude settings back. `LinesKept` and `Kept` say that every write of every command keeps what is the
   user's or saves it where the wrapper in use finds it (`KeptEditor`, unless the editor was missed;
   `LineKept`, hook by hook, unless that hook was); `Steps` what a command knows of this; `Ways`,
   `Restores` and `Last` what the last command has restored by each of its writes. What was missed stays
   so, hence the exceptions are of the whole history and not of the last step. That the lines come
   back has the premise `OwnLines`: a line the user wrote between lrc's markers goes with them.

`SetupProofs`, of two components. `ClaudeKeyWaits`: KeyWaits is not inductive. A worker that starts
resets the key file, and that this takes nothing away needs that a key is wanted only while some worker
waits (`WantedIsAwaited`), which then holds the lock the new one has taken. `AuthInv` is about the
credentials, for any clients and any writes that fail:

1. `AuthTyped`, and agreement (`FileAgrees`, `JobAgrees`): an access and a refresh token held together,
   in the file or in a client's hands, are of one session, and stand once in the file.
2. `ClientOK`: what a client holds at each of its steps, and that the UI's mutex (`Locks`) has one
   holder.
3. `Counted`: the sessions that were renewed are among those that expired, and each one's refresh token
   is taken. It gives `OneRefreshEach`: no more renewals than expiries, even when clients overlap.
4. `Keeps`: as long as nothing overlapped and no write failed, one client is at work at most, and the
   refresh token in the file is accepted or a client is about to write one that is. It gives `SessionStays`.

Assumed of `Files`: a file to start from names the access and the refresh token at most once, and both
are of the first session or none.

`AgreeInv`, beside it, is about whose credentials the file names, as long as nothing overlapped and no
write failed. It gives `CredentialsStay`:

1. `LaidOut`: the file has no managed section, an empty one, or one with connectors behind the keys it
   needs. `Agrees`: what it names was given out by its server, the key for its organization; with a
   session, none of the needed keys is missing.
2. `Fits`: a UI that is up has the file's server. `Stands`: what a client loaded is still what the file
   says, or it holds a whole login. `WillStand`: the file its next write leaves agrees as well. The one
   client at work comes from `Keeps`.
3. The lemmas on `Updated` and `Edited` say what a write changes: the first line with a key, that line
   and no other; a missing key, a line at the end, which no load reads once a table stands above it. That
   is why the layout is part of the invariant.

It has two premises, both of which hold of the constants in `MCMachine`. `FilesAreWhole`: a file to
start from is laid out like that. `PlansAreMeant`: a setup is told a server, as its flag defaults to the
cloud's, and a switch names an organization, as `handleSetOrgContext` (`appui/org_context.go:104`) takes
only one of the session. Without the first the property fails: where a file names a session and no
`api_url` above the first table, a setup of another server puts `api_url` below that table, and the next
load sends the new session to the cloud.

`AnalysisProofs`, for any code, diff, `.lrc/` and outages. `AnalysisInv` is short: the report, once ready, is
`ScoreHunks` of the diff as it is now, the page is that diff joined with the report, and filtering leaves
a diff git may give. It is needed because nothing else ties the report, made in the background, to the
page. The work is in what the operators compute:

1. Recursion. `RecExists`, `FoldExists` and `TotalIs` give the functions behind a LET, a fold and
   `SumFunction` by a smallest counterexample; a part of the terms, each smaller, sums to less (`SumOfPart`).
2. `EveryHunkHasItsScore`: `Places` numbers a finite order, `FilterEmbeds` and `Layout` say where each hunk
   is after filtering and parsing, and `ParsedInOrder` that two hunks of one file never begin at one line.
   So a key has one hunk (`KeyFinds`).
3. `RenamesAreSeen`: `NewLine` is the first line and the kept ones before (`DeclarationFound`), and the first
   hunk that touches a declared symbol is the one with the declaration (`FirstTouches`).
4. `CallersStandAtTheirDistance`: `Ways` are all chains of calls up to a length (`FanInIs`), and the layers of a
   breadth-first walk are the ends of the shortest ones (`LayersAre`).
5. `FailureHidesRisk`: roots grow (`RootsGrow`), logarithms do (`LogIs`), sums over less are less; then every
   part of `CallScore` and `TypeScore` and the sum of a hunk (`HunkIsWorth`).
6. `RiskIsRanked`: shares of the highest keep the order and the scale (`NormIs`, `CombinedIs`), and the sort
   is a bijection of places (`SortIs`).

Assumed of the constants: every diff `IsDiff` (`DiffsAssumption`), every code `IsGraph` (`CodesAssumption`), `Logs`
does not fall (`LogsAssumption`). The first is git's format, and without it `HunkHasItsScore` fails: two
hunks of one range would share a key. The second is what the index's tables hold by their keys. TLC
evaluates all three on the constants of `MCAnalysis`.

Each invariant was model-checked before it was proved. The types of ReviewSession and CommitHooks,
`FailedForAReason`, `SettledIsFinal`, `TakenDraftStays`, `VouchIsRecorded` and `DecidedMessageKept`
are proved and need no run.

Induction is used where it is over numbers and ends in a least counterexample (`Least`, from
`WFMin` and the well-foundedness of `<`): the library's induction theorems take an operator, which no
prover here instantiates, but a non-empty set of naturals has a least element.

Only model-checked: liveness (`sync_live`, `review_live`, `hooks_overlap`, `command`), which this prover does not reach.
Every invariant and action property of a passing run is a theorem.

## 5. Disagreements found

Each is a run that TLC must find violated, and a finding in PROJECT.json that quotes the sentence.

- `hooks_attested`: what is staged during a review is attested as reviewed.
- `coverage_below`: run below the root of the repository, changed lines count as covered.

Seen on the way, plain in the code and without a run of their own.

Reviews and hooks:

- Workers turned away at the flush lock have by then spawned the next one, so one command can start a
  chain of them (`sync_flow.go:116` against `:25-27`).
- Two runtimes arbitrate one session: a later decision may be carried out instead of the first
  (`review_runtime.go:517`, `:1110`; `internal/simulator/README.md:87`).
- A failed review is attested as reviewed (`review_runtime.go:1328`; `README.md:374`).
- A state file that outlived its commit gives "ran" to one that bypassed the review
  (`hooks/commit-msg.sh:79`). It also does when `lrc attestation-trailer` fails, where the attestation
  says "skipped" or "vouched" (`:71-76`): prepare-commit-msg writes "ran" for any attested tree.
- TryDecide accepts skip and vouch in the complete phase (`internal/simulator/README.md:85` does not
  allow them); Skip goes on with the commit (`README.md:219` says it aborts it); without a terminal
  the hooks exit 1 on a missing attestation (`docs/LRC_README.md:81` says they never block).
- A push request whose session was abandoned stays; a review outside of a hook does not clear an
  older override; a handoff inside a hook pushes with an old request. post-commit deletes the
  sessions of every tree of the branch. A session that could not be stored is never synced, silently.
- A terminal's decision later than the 300 ms of grace is lost; the timer of a blocking review may
  win against a decision the browser was told is taken; a tab's text and version are captured 160 ms
  apart, so that it may overwrite a newer draft.
- The skip after a diff that is too large, and `--vouch` with `--commit` or `--range`, attest the tree
  that is staged, whatever was asked for (`review_runtime.go:437-443` against the comment at `:142`).

Coverage and scores:

- A file with a space in its name, or one whose name git quotes, is covered as a whole, what was never
  shown and what was changed since included, as soon as the branch has a review: its path is cut at the
  space, or "" (`review_runtime.go:2537-2545`), git never lists that among the files that changed, and
  what is not listed is marked (`coverage_compute.go:71-73`). No fault and no subdirectory is needed; a
  second file with the cut name is taken for the first.
- After `reset --soft`, or when the ignore rules change between two reviews, lines nobody was shown
  may count as covered, as may those of unchanged files of other diff sources. What is staged during a
  review is recorded with the hunks of before. A skip or a vouch takes the unfiltered diff. Trees that
  git has pruned are skipped. An emptied file counts as a line 0. `MarkOverlappingLines` ignores its
  `priorHunks`; ParseHunkRangesFromDiff takes content that looks like a hunk header for one.
- A header git quotes (`"a/..."`) is not seen by `diffparse.Parse` (`diffparse.go:44`), and its hunks go to
  the file before; `IsDiff` has none. `diffparse.Parse` takes the content lines `--- a/x` and `+++ b/x` for headers. The hygiene "dead code
  removal" is out of reach with git's default context, and with `-U0` looks at the surviving neighbour.
  `diffLines` skips content like `++i;`, so that a hunk may pass for comments only. `\ No newline`
  advances the line of detectDeclRename. Indentation counts as formatting, in Python too.
- A caller found by the old and the new name may be there twice. Paths with a space, and emptied
  files, never get their score on the page, and a path cut at its space may get another's. A failing query
  lowers the raw blast of hunks, but the page shows shares of the highest one, and when that one loses
  more the others' shares rise. When the query for routes fails, the label that merges several handlers is lost and the reach grows; when
  the one for tests fails, the priority grows.

The machine:

- Errors that are dropped can lose the user's editor. An install goes on when the editor's backup could
  not be written (`hooks_management.go:743-744`, `:770-771`), and an uninstall removes wrapper and backup
  though `git config core.editor` failed (`:794-823`); then core.editor names a wrapper that is gone. A
  hook that could not be cleaned is only warned of (`:310-311`) before the scripts it calls are removed
  (`:317`); a write that fails half way may leave the hook empty, the user's lines with it.
- An install deletes the repository's `.claude/settings.local.json`, whoever wrote it
  (`hooks_management.go:239-245`); no uninstall brings it back.
- When `lrc hooks uninstall` fails in Claude's part, git's hooks stay; `lrc uninstall` warns, goes on and
  removes the binaries those hooks call.
- A second install records the path the first one set as the user's, so that an uninstall leaves
  `core.hooksPath` behind (`hooks_management.go:130-150`, `:325-345`); without a record it unsets the
  user's own. It restores the saved editor over one chosen since.
- `UpsertQuotedConfigValue` takes the first line with the key: when the top-level one is missing it
  hits a connector's `api_key` (`ai_connectors.go:10`), and where there are no spaces around `=` it
  adds a second key and the file no longer parses (`setup_preflight.go:230`).
- A refresh whose answer is lost after the server took the token leaves a file with a token that is spent
  (`auth_recovery.go:161-272`). Two reviews that recover at once both use the refresh token; `persistConnectors` writes back what it
  read, which may undo a rotation. The setup's worker always fails when a configuration exists, since
  it passes neither `--keep-api-url` nor `--replace-api-url`; a second `start` overwrites the status.
- `--force` kills the process whose number the lock file holds, which may by now be another; healing
  may meet an update that is being applied.

## 6. Not modelled, and the plan

Left out within modelled components: the push lrc makes after its own commit; lrc missing from PATH,
a failing `lrc attestation-trailer` and the no-op editor; `--force` in a terminal on a tree that .lrc/ignore
leaves nothing of, when the new attestation then cannot be written; agent mode's attestation inside a
hook; the answer of a refresh that is lost after the server took the token; the moment between a probe of
the setup's lock and its release; reads that fail while hooks are installed or removed; drawing of prompts and reports; the
proxies of the UI; `--path` installs, pruning of backups and status reports; the Windows helper;
which lines of shell files an uninstall takes; Claude's validator, which keeps no state; the sizes of
the index's answers (`MaxRows`), its protocol, and a search that fails for some names only.

Components left out (reasons in PROJECT.json): the usage chip, the graph engine's download, the
terminal's and the browser's drawing, review queries, the simulator (a model itself: its rules are
compared with the code above), wrappers around files, SQLite, HTTP and git, argument parsing.

Next:

1. `CommitHooks` with the Decide actions replaced by `ReviewSession` itself, as a refinement.
