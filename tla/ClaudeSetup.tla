----------------------------- MODULE ClaudeSetup -----------------------------
(***************************************************************************)
(* `lrc internal claude setup start | worker | submit-key`:                *)
(* appcore/claude_setup.go.                                                *)
(*                                                                         *)
(* Claude runs `lrc setup` behind a worker that nobody sees: `start`       *)
(* spawns it, it reports in a status file, and when the setup prompts for  *)
(* the Gemini key it waits for a key file that `submit-key` writes.  The   *)
(* session directory outlives its workers, and a file lock keeps two       *)
(* workers from running at once.  The log is left out.                     *)
(***************************************************************************)
EXTENDS Naturals

CONSTANTS
  Starter,        \* the `start` commands; each spawns at most one worker, named like it
  Submitter,      \* the `submit-key` commands
  MaxDeaths       \* bound: workers that are killed

ASSUME ClaudeAssumption == MaxDeaths \in Nat /\ "free" \notin Starter

VARIABLES
  status,         \* the status file
  keyFile,        \* the key file: whose key it holds, or "none"
  worker,         \* the worker of each start
  setupLock,      \* the worker that holds the lock, or "free"
  starter,        \* what each start has come to
  submitter,      \* what each submission has come to
  deaths,         \* how many workers have been killed
  wanted          \* history: the key that is waiting to be read by a worker that waits

claudeVars == <<status, keyFile, worker, setupLock, starter, submitter, deaths, wanted>>

ClaudeInit ==
  /\ status \in {"idle", "completed", "failed"}   \* an earlier session may have left one
  /\ keyFile = "none" /\ setupLock = "free" /\ deaths = 0 /\ wanted = "none"
  /\ worker = [s \in Starter |-> "no"]
  /\ starter = [s \in Starter |-> "wait"]
  /\ submitter = [k \in Submitter |-> "wait"]

Moves(w, from, to) == worker[w] = from /\ worker' = [worker EXCEPT ![w] = to]
Reports(s)         == status' = s

-----------------------------------------------------------------------------
(* start.                                                                  *)

\* The lock is tried, and given back for the worker to take.
StartProbes(s) ==
  /\ starter[s] = "wait"
  /\ starter' = [starter EXCEPT ![s] = IF setupLock = "free" THEN "write" ELSE "reported"]
  /\ UNCHANGED <<status, keyFile, worker, setupLock, submitter, deaths, wanted>>
StartWrites(s) ==
  /\ starter[s] = "write" /\ Reports("starting")
  /\ starter' = [starter EXCEPT ![s] = "spawn"]
  /\ UNCHANGED <<keyFile, worker, setupLock, submitter, deaths, wanted>>
StartSpawns(s) ==
  /\ starter[s] = "spawn"
  /\ \/ Moves(s, "no", "new") /\ starter' = [starter EXCEPT ![s] = "poll"]
     \/ starter' = [starter EXCEPT ![s] = "reported"] /\ UNCHANGED worker
  /\ UNCHANGED <<status, keyFile, setupLock, submitter, deaths, wanted>>
\* It polls the status for three seconds, then prints whatever is there.
StartPolls(s) ==
  /\ starter[s] = "poll"
  /\ starter' = [starter EXCEPT ![s] = IF status = "failed" THEN "failed" ELSE "reported"]
  /\ UNCHANGED <<status, keyFile, worker, setupLock, submitter, deaths, wanted>>

-----------------------------------------------------------------------------
(* worker.                                                                 *)

\* A second worker ends without a word.  The first one drops what an earlier session left.
\* Mutant: the session files are reset before the lock is tried.
ResetFirst(w) ==
  /\ Moves(w, "new", IF setupLock = "free" THEN "launch" ELSE "ended")
  /\ setupLock' = IF setupLock = "free" THEN w ELSE setupLock
  /\ keyFile' = "none"
  /\ UNCHANGED <<status, starter, submitter, deaths, wanted>>
WorkerLocks(w) ==
  /\ Moves(w, "new", IF setupLock = "free" THEN "reset" ELSE "ended")
  /\ setupLock' = IF setupLock = "free" THEN w ELSE setupLock
  /\ UNCHANGED <<status, keyFile, starter, submitter, deaths, wanted>>
WorkerResets(w) ==
  /\ Moves(w, "reset", "launch")
  /\ keyFile' = "none"
  /\ UNCHANGED <<status, setupLock, starter, submitter, deaths, wanted>>
\* The lock goes with the worker.
WorkerLaunches(w) ==
  /\ \/ Moves(w, "launch", "setup") /\ Reports("running") /\ UNCHANGED setupLock
     \/ Moves(w, "launch", "ended") /\ Reports("failed") /\ setupLock' = "free"
     \/ Moves(w, "launch", "ended") /\ setupLock' = "free" /\ UNCHANGED status \* pipes, log
  /\ UNCHANGED <<keyFile, starter, submitter, deaths, wanted>>
\* The setup asks for the key.
WorkerPrompted(w) ==
  /\ Moves(w, "setup", "await") /\ Reports("awaiting_key")
  /\ wanted' = keyFile
  /\ UNCHANGED <<keyFile, setupLock, starter, submitter, deaths>>
\* The key is passed on once; its file stays.  A second prompt of the same setup gets no answer.
WorkerSends(w) ==
  /\ Moves(w, "await", "sent") /\ keyFile # "none" /\ Reports("key_sent")
  /\ wanted' = "none"
  /\ UNCHANGED <<keyFile, setupLock, starter, submitter, deaths>>
\* The setup has ended: prompted or not, answered or not.
WorkerEnds(w) ==
  /\ worker[w] \in {"setup", "await", "sent"}
  /\ worker' = [worker EXCEPT ![w] = "ended"]
  /\ \E result \in {"completed", "failed"} : Reports(result)
  /\ setupLock' = "free" /\ wanted' = "none"
  /\ UNCHANGED <<keyFile, starter, submitter, deaths>>
WorkerDies(w) ==
  /\ deaths < MaxDeaths /\ deaths' = deaths + 1
  /\ worker[w] \notin {"no", "ended"}
  /\ worker' = [worker EXCEPT ![w] = "ended"]
  /\ setupLock' = IF setupLock = w THEN "free" ELSE setupLock
  /\ wanted' = IF setupLock = w THEN "none" ELSE wanted
  /\ UNCHANGED <<status, keyFile, starter, submitter>>

-----------------------------------------------------------------------------
(* submit-key.                                                             *)

\* The key is written for whoever reads it, worker or no worker.
Submit(k) ==
  /\ submitter[k] = "wait"
  /\ keyFile' = k
  /\ submitter' = [submitter EXCEPT ![k] = "poll"]
  /\ wanted' = IF \E w \in Starter : worker[w] = "await" THEN k ELSE wanted
  /\ UNCHANGED <<status, worker, setupLock, starter, deaths>>
\* A status that says the setup has ended is its answer; after 30 s it gives up.
SubmitPolls(k) ==
  /\ submitter[k] = "poll"
  /\ submitter' = [submitter EXCEPT ![k] = IF status \in {"completed", "failed"} THEN status
                                           ELSE "timeout"]
  /\ UNCHANGED <<status, keyFile, worker, setupLock, starter, deaths, wanted>>

ClaudeNext ==
  \/ \E s \in Starter :
       \/ StartProbes(s) \/ StartWrites(s) \/ StartSpawns(s) \/ StartPolls(s)
       \/ WorkerLocks(s) \/ WorkerResets(s) \/ WorkerLaunches(s) \/ WorkerPrompted(s)
       \/ WorkerSends(s) \/ WorkerEnds(s) \/ WorkerDies(s)
  \/ \E k \in Submitter : Submit(k) \/ SubmitPolls(k)

ClaudeSpec == ClaudeInit /\ [][ClaudeNext]_claudeVars

-----------------------------------------------------------------------------
(* Properties.                                                             *)

\* One worker has the setup in its hands, and a key that was submitted while it waits for one
\* is there for it to read: no other start, worker or death takes it away.
KeyWaits ==
  /\ wanted # "none" => keyFile = wanted
  /\ \A w \in Starter : worker[w] \in {"reset", "launch", "setup", "await", "sent"} => setupLock = w
=============================================================================
