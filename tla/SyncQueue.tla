------------------------------ MODULE SyncQueue ------------------------------
(***************************************************************************)
(* The offline commit-sync queue: ~/.lrc/sync-queue.db, the lrc processes  *)
(* that fill it (post-commit hook), drain it (flush workers) and edit it   *)
(* (lrc sync forget), and the LiveReview endpoint the items are POSTed to. *)
(*                                                                         *)
(* A process is a main thread (pc) and the opportunistic trigger goroutine *)
(* (trig) that main.go starts on EVERY invocation; both die together.      *)
(***************************************************************************)
EXTENDS Integers, Sequences

CONSTANTS
  Key,            \* (review_id, commit_sha) pairs the hook may enqueue
  NoKey,          \* key of an empty row slot
  Proc,           \* slots for lrc processes alive at the same time (a bound)
  UserProc,       \* the slots a hook's or a user's command may take; children take any
  NoProc,         \* nobody holds the flush lock
  Schedule,       \* backoffSchedule, in clock ticks
  MaxPendingAge,  \* age after which a transient failure gives up, in ticks
  HealthyFrom,    \* no crash, lost write or unreachable backend from this tick on
  MaxId,          \* bound: ids AUTOINCREMENT may hand out
  MaxNow          \* bound: the last tick of the clock

ASSUME KeyAssumption      == NoKey \notin Key
ASSUME ProcAssumption     == NoProc \notin Proc /\ UserProc \subseteq Proc
ASSUME ScheduleAssumption == Schedule \in Seq(Nat) /\ Schedule # <<>>
ASSUME BoundAssumption    == /\ MaxPendingAge \in Nat
                             /\ HealthyFrom \in Nat
                             /\ MaxId \in Nat
                             /\ MaxNow \in Nat

VARIABLES
  rows,      \* the sync_queue table, by id
  nextId,    \* the AUTOINCREMENT counter: ids are never reused
  now,       \* the wall clock
  lock,      \* who holds ~/.lrc/sync-flush.lock
  pc,        \* main thread of each process
  trig,      \* trigger goroutine of each process
  todo,      \* rest of the items a flush pass read with Due
  cur,       \* the item of the loop's current iteration
  reply,     \* class of the answer to cur's POST
  accepted,  \* keys the backend has attached
  denied     \* keys the backend has ever answered with 401, 403 or 404

vars == <<rows, nextId, now, lock, pc, trig, todo, cur, reply, accepted, denied>>

Id == 1..MaxId
Item == [id : Id, key : Key]          \* what a pass keeps of a row it has read
NoItem == [id |-> 0, key |-> NoKey]

LiveRow == [key : Key, status : {"pending", "synced", "failed"},
            attempts : Nat, next : Nat, last : Nat, created : Nat]

\* A NULL timestamp is 0: the clock starts at 1, so a NULL next_attempt_at is due.
NoRow == [key |-> NoKey, status |-> "absent", attempts |-> 0,
          next |-> 0, last |-> 0, created |-> 0]

TypeOK ==
  /\ rows \in [Id -> LiveRow \cup {NoRow}]
  /\ nextId \in 1..(MaxId + 1)
  /\ now \in Nat \ {0}
  /\ lock \in Proc \cup {NoProc}
  /\ pc \in [Proc -> {"off", "insert", "spawn", "lock", "due", "post", "record",
                      "unlock", "run", "exit"}]
  /\ trig \in [Proc -> {"off", "count", "spawn"}]
  /\ todo \in [Proc -> SUBSET Item]
  /\ cur \in [Proc -> Item \cup {NoItem}]
  /\ reply \in [Proc -> {"none", "ok", "denied", "error"}]
  /\ accepted \subseteq Key
  /\ denied \subseteq Key

Init ==
  /\ rows = [i \in Id |-> NoRow]
  /\ nextId = 1
  /\ now = 1
  /\ lock = NoProc
  /\ pc = [p \in Proc |-> "off"]
  /\ trig = [p \in Proc |-> "off"]
  /\ todo = [p \in Proc |-> {}]
  /\ cur = [p \in Proc |-> NoItem]
  /\ reply = [p \in Proc |-> "none"]
  /\ accepted = {}
  /\ denied = {}

-----------------------------------------------------------------------------
(* The queue's statements and the retry policy *)

NextBackoff(attempts) ==
  Schedule[IF attempts >= Len(Schedule) THEN Len(Schedule) ELSE attempts + 1]

NewRow(key) == [NoRow EXCEPT !.key = key, !.status = "pending", !.created = now]

Synced(r) == [r EXCEPT !.status = "synced", !.last = now]

Attempted(r) == [r EXCEPT !.attempts = @ + 1, !.last = now]

\* Mutant: a status no reader of the table knows.
GivenUpAsExpired(r) == [Attempted(r) EXCEPT !.status = "expired", !.next = 0]

GivenUp(r) == [Attempted(r) EXCEPT !.status = "failed", !.next = 0]

\* Mutant: the backoff of the attempt after this one.
RetryScheduledLate(r) == [Attempted(r) EXCEPT !.next = now + NextBackoff(r.attempts + 1)]

RetryScheduled(r) == [Attempted(r) EXCEPT !.next = now + NextBackoff(r.attempts)]

AfterFailure(r, permanent) ==
  IF permanent \/ now - r.created > MaxPendingAge THEN GivenUp(r) ELSE RetryScheduled(r)

DueIds == {i \in Id : rows[i].status = "pending" /\ rows[i].next <= now}

Faulty == now < HealthyFrom

\* Proc bounds the processes alive at once: with no slot left, a spawn fails.
NoSlot == \A p \in Proc : pc[p] # "off"

-----------------------------------------------------------------------------
(* Processes *)

\* A process appears with its main thread at `at' and its trigger not yet run.
Begin(p, at) ==
  /\ pc[p] = "off"
  /\ pc' = [pc EXCEPT ![p] = at]
  /\ trig' = [trig EXCEPT ![p] = "count"]

\* The hook's `lrc internal sync enqueue', a user's `lrc sync flush', any other command.
Start(p) ==
  /\ p \in UserProc
  /\ \E at \in {"insert", "lock", "run"} : Begin(p, at)
  /\ UNCHANGED <<rows, nextId, now, lock, todo, cur, reply, accepted, denied>>

\* Mutant: a lock file instead of a flock, left behind by whoever dies with it.
GoneLeavingLock(p) ==
  /\ pc' = [pc EXCEPT ![p] = "off"]
  /\ trig' = [trig EXCEPT ![p] = "off"]
  /\ todo' = [todo EXCEPT ![p] = {}]
  /\ cur' = [cur EXCEPT ![p] = NoItem]
  /\ reply' = [reply EXCEPT ![p] = "none"]
  /\ UNCHANGED <<rows, nextId, now, lock, accepted, denied>>

\* The main thread returns or the process is killed; the OS drops its flock.
Gone(p) ==
  /\ pc' = [pc EXCEPT ![p] = "off"]
  /\ trig' = [trig EXCEPT ![p] = "off"]
  /\ lock' = IF lock = p THEN NoProc ELSE lock
  /\ todo' = [todo EXCEPT ![p] = {}]
  /\ cur' = [cur EXCEPT ![p] = NoItem]
  /\ reply' = [reply EXCEPT ![p] = "none"]
  /\ UNCHANGED <<rows, nextId, now, accepted, denied>>

Exit(p) == pc[p] = "exit" /\ Gone(p)

Crash(p) == Faulty /\ pc[p] \notin {"off", "exit"} /\ Gone(p)

-----------------------------------------------------------------------------
(* RunSyncEnqueue *)

\* Mutant: an INTEGER PRIMARY KEY without AUTOINCREMENT, which reuses a freed id.
InsertReusingIds(p, key) ==
  /\ pc[p] = "insert"
  /\ \A i \in Id : rows[i].key # key
  /\ \E i \in Id : /\ rows[i] = NoRow
                    /\ \A j \in Id : rows[j] = NoRow => i <= j
                    /\ rows' = [rows EXCEPT ![i] = NewRow(key)]
  /\ pc' = [pc EXCEPT ![p] = "spawn"]
  /\ UNCHANGED <<nextId, now, lock, trig, todo, cur, reply, accepted, denied>>

\* INSERT .. ON CONFLICT(review_id, commit_sha) DO NOTHING
Insert(p, key) ==
  /\ pc[p] = "insert"
  /\ pc' = [pc EXCEPT ![p] = "spawn"]
  /\ IF \E i \in Id : rows[i].key = key
     THEN UNCHANGED <<rows, nextId>>
     ELSE /\ nextId \in Id
          /\ rows' = [rows EXCEPT ![nextId] = NewRow(key)]
          /\ nextId' = nextId + 1
  /\ UNCHANGED <<now, lock, trig, todo, cur, reply, accepted, denied>>

\* No review session for this tree, or the database cannot be written: give up silently.
InsertNothing(p) ==
  /\ pc[p] = "insert"
  /\ pc' = [pc EXCEPT ![p] = "exit"]
  /\ UNCHANGED <<rows, nextId, now, lock, trig, todo, cur, reply, accepted, denied>>

\* spawnDetachedFlushWorker, from the hook; the child is a process like any other.
EnqueueSpawn(p) ==
  /\ pc[p] = "spawn"
  /\ \E q \in Proc \ {p} :
       /\ pc[q] = "off"
       /\ pc' = [pc EXCEPT ![p] = "exit", ![q] = "lock"]
       /\ trig' = [trig EXCEPT ![q] = "count"]
  /\ UNCHANGED <<rows, nextId, now, lock, todo, cur, reply, accepted, denied>>

\* The child does not start (no executable, fork fails): the item stays queued.
EnqueueSpawnFails(p) ==
  /\ pc[p] = "spawn"
  /\ Faulty \/ NoSlot
  /\ pc' = [pc EXCEPT ![p] = "exit"]
  /\ UNCHANGED <<rows, nextId, now, lock, trig, todo, cur, reply, accepted, denied>>

-----------------------------------------------------------------------------
(* TriggerOpportunisticSyncFlush: a goroutine of every process *)

TriggerCount(p) ==
  /\ trig[p] = "count"
  /\ trig' = [trig EXCEPT ![p] = IF DueIds = {} THEN "off" ELSE "spawn"]
  /\ UNCHANGED <<rows, nextId, now, lock, pc, todo, cur, reply, accepted, denied>>

TriggerSpawn(p) ==
  /\ trig[p] = "spawn"
  /\ \E q \in Proc \ {p} :
       /\ pc[q] = "off"
       /\ pc' = [pc EXCEPT ![q] = "lock"]
       /\ trig' = [trig EXCEPT ![p] = "off", ![q] = "count"]
  /\ UNCHANGED <<rows, nextId, now, lock, todo, cur, reply, accepted, denied>>

\* The COUNT query or the spawn fails; nobody retries within this process.
TriggerFails(p) ==
  /\ trig[p] # "off"
  /\ Faulty \/ (trig[p] = "spawn" /\ NoSlot)
  /\ trig' = [trig EXCEPT ![p] = "off"]
  /\ UNCHANGED <<rows, nextId, now, lock, pc, todo, cur, reply, accepted, denied>>

-----------------------------------------------------------------------------
(* tryFlush and flushSyncQueueDB *)

\* Mutant: the pass runs whether or not TryLock got the lock.
TryLockAnyway(p) ==
  /\ pc[p] = "lock"
  /\ lock' = p
  /\ pc' = [pc EXCEPT ![p] = "due"]
  /\ UNCHANGED <<rows, nextId, now, trig, todo, cur, reply, accepted, denied>>

TryLock(p) ==
  /\ pc[p] = "lock"
  /\ IF lock = NoProc
     THEN lock' = p /\ pc' = [pc EXCEPT ![p] = "due"]
     ELSE pc' = [pc EXCEPT ![p] = "exit"] /\ UNCHANGED lock
  /\ UNCHANGED <<rows, nextId, now, trig, todo, cur, reply, accepted, denied>>

\* One SELECT at the start of the pass; its rows are worked through later.
ReadDue(p) ==
  /\ pc[p] = "due"
  /\ todo' = [todo EXCEPT ![p] = {[id |-> i, key |-> rows[i].key] : i \in DueIds}]
  /\ pc' = [pc EXCEPT ![p] = "post"]
  /\ UNCHANGED <<rows, nextId, now, lock, trig, cur, reply, accepted, denied>>

\* The SELECT fails: the pass returns its error and the deferred Unlock runs.
ReadDueFails(p) ==
  /\ pc[p] = "due"
  /\ Faulty
  /\ pc' = [pc EXCEPT ![p] = "unlock"]
  /\ UNCHANGED <<rows, nextId, now, lock, trig, todo, cur, reply, accepted, denied>>

\* The pass takes items oldest first. "error" is an unreachable backend, a
\* timeout or a 5xx; the request behind it may have been attached or not.
Post(p) ==
  /\ pc[p] = "post"
  /\ \E it \in todo[p], answer \in {"ok", "denied", "error"} :
       /\ \A other \in todo[p] : it.id <= other.id
       /\ answer = "error" => Faulty
       /\ todo' = [todo EXCEPT ![p] = @ \ {it}]
       /\ cur' = [cur EXCEPT ![p] = it]
       /\ reply' = [reply EXCEPT ![p] = answer]
       /\ accepted' \in CASE answer = "ok" -> {accepted \cup {it.key}}
                          [] answer = "denied" -> {accepted}
                          [] answer = "error" -> {accepted, accepted \cup {it.key}}
       /\ denied' = IF answer = "denied" THEN denied \cup {it.key} ELSE denied
  /\ pc' = [pc EXCEPT ![p] = "record"]
  /\ UNCHANGED <<rows, nextId, now, lock, trig>>

\* MarkSynced or RecordFailure; an UPDATE of a forgotten row touches nothing.
Record(p) ==
  LET i == cur[p].id
      r == rows[i]
  IN  /\ pc[p] = "record"
      /\ rows' = IF r.status = "absent" THEN rows
                 ELSE [rows EXCEPT ![i] = IF reply[p] = "ok" THEN Synced(r)
                                          ELSE AfterFailure(r, reply[p] = "denied")]
      /\ pc' = [pc EXCEPT ![p] = "post"]
      /\ cur' = [cur EXCEPT ![p] = NoItem]
      /\ reply' = [reply EXCEPT ![p] = "none"]
      /\ UNCHANGED <<nextId, now, lock, trig, todo, accepted, denied>>

\* The error of MarkSynced and RecordFailure is dropped: the outcome is not stored.
RecordLost(p) ==
  /\ pc[p] = "record"
  /\ Faulty
  /\ pc' = [pc EXCEPT ![p] = "post"]
  /\ cur' = [cur EXCEPT ![p] = NoItem]
  /\ reply' = [reply EXCEPT ![p] = "none"]
  /\ UNCHANGED <<rows, nextId, now, lock, trig, todo, accepted, denied>>

PassDone(p) ==
  /\ pc[p] = "post"
  /\ todo[p] = {}
  /\ pc' = [pc EXCEPT ![p] = "unlock"]
  /\ UNCHANGED <<rows, nextId, now, lock, trig, todo, cur, reply, accepted, denied>>

Unlock(p) ==
  /\ pc[p] = "unlock"
  /\ lock' = NoProc
  /\ pc' = [pc EXCEPT ![p] = "exit"]
  /\ UNCHANGED <<rows, nextId, now, trig, todo, cur, reply, accepted, denied>>

-----------------------------------------------------------------------------
(* Other commands and the clock *)

\* RunSyncForget deletes whatever row has the id, whatever a pass is doing.
Forget(p) ==
  /\ pc[p] = "run"
  /\ \E i \in Id : rows' = [rows EXCEPT ![i] = NoRow]
  /\ pc' = [pc EXCEPT ![p] = "exit"]
  /\ UNCHANGED <<nextId, now, lock, trig, todo, cur, reply, accepted, denied>>

\* A command that does not touch the queue; it ends when it likes.
OtherCommand(p) ==
  /\ pc[p] = "run"
  /\ pc' = [pc EXCEPT ![p] = "exit"]
  /\ UNCHANGED <<rows, nextId, now, lock, trig, todo, cur, reply, accepted, denied>>

\* The last failed request is recorded before the healthy time starts, so that
\* its backoff ends by MaxNow when MaxNow allows for the longest one.
Tick ==
  /\ now < MaxNow
  /\ now + 1 = HealthyFrom => \A p \in Proc : reply[p] # "error"
  /\ now' = now + 1
  /\ UNCHANGED <<rows, nextId, lock, pc, trig, todo, cur, reply, accepted, denied>>

-----------------------------------------------------------------------------

\* The flush pass of p: what the OS keeps scheduling once the process runs.
Flush(p) ==
  \/ TryLock(p) \/ ReadDue(p) \/ ReadDueFails(p) \/ Post(p)
  \/ Record(p) \/ RecordLost(p) \/ PassDone(p) \/ Unlock(p)

Enqueue(p) ==
  \/ \E key \in Key : Insert(p, key)
  \/ InsertNothing(p) \/ EnqueueSpawn(p) \/ EnqueueSpawnFails(p)

Trigger(p) == TriggerCount(p) \/ TriggerSpawn(p) \/ TriggerFails(p)

Next ==
  \/ Tick
  \/ \E p \in Proc : \/ Start(p) \/ Exit(p) \/ Crash(p)
                     \/ Enqueue(p) \/ Trigger(p) \/ Flush(p)
                     \/ Forget(p) \/ OtherCommand(p)

Spec == Init /\ [][Next]_vars

(***************************************************************************)
(* Fairness.  The OS schedules every process that exists (WF on its steps) *)
(* and time passes (SF, for Tick waits for an unrecorded failure).  Nobody *)
(* promises that lrc is ever run again, so that is an assumption about the *)
(* user (SF on Start, over a command of its choice); and since the trigger *)
(* goroutine races the end of its process, SF on Trigger says that not     *)
(* every invocation loses the race (a review lives for seconds).           *)
(***************************************************************************)
Fairness ==
  /\ SF_vars(Tick)
  /\ \A p \in Proc : /\ WF_vars(Flush(p)) /\ WF_vars(Enqueue(p)) /\ WF_vars(Exit(p))
                     /\ WF_vars(OtherCommand(p))
                     /\ SF_vars(TriggerCount(p)) /\ SF_vars(TriggerSpawn(p)) /\ SF_vars(Start(p))

FairSpec == Spec /\ Fairness

-----------------------------------------------------------------------------
(* Refinement of CommitSync *)

WithStatus(st) == {rows[i].key : i \in {j \in Id : rows[j].status = st}}

Held == UNION {{it.key : it \in todo[p] \cup ({cur[p]} \ {NoItem})} : p \in Proc}

Abstract == INSTANCE CommitSync WITH
  pending <- WithStatus("pending"), synced <- WithStatus("synced"),
  failed <- WithStatus("failed"), offered <- Held, attached <- accepted

-----------------------------------------------------------------------------
(* Properties *)

\* Seen from outside, the processes, crashes and retries are CommitSync: every step
\* is one of its steps, so nothing is settled twice, nothing is attached that was
\* never asked for, and a forgotten key is never resurrected by a pass in flight.
ImplementsCommitSync == Abstract!Spec

\* A row says "synced" only if the backend has attached that review to that
\* commit: no reply is recorded on another item's row (MarkSynced by id).
SyncedWasAccepted ==
  \A i \in Id : rows[i].status = "synced" => rows[i].key \in accepted

\* Whatever a pass still holds of its Due snapshot is, in the table, gone
\* (forgotten) or still the same pending, due item.  The lock and AUTOINCREMENT
\* together keep the snapshot from going stale under the pass, so that a synced
\* or given-up item is never POSTed again and no backoff is cut short.
SnapshotStaysDue ==
  \A p \in Proc : \A it \in todo[p] \cup ({cur[p]} \ {NoItem}) :
    \/ rows[it.id] = NoRow
    \/ /\ rows[it.id].key = it.key
       /\ rows[it.id].status = "pending"
       /\ rows[it.id].next <= now

\* An item is given up only because the backend refused it, or because it kept
\* failing for longer than MaxPendingAge (RecordFailure's giveUp).
FailedForAReason ==
  \A i \in Id : rows[i].status = "failed" =>
    \/ rows[i].key \in denied
    \/ rows[i].last - rows[i].created > MaxPendingAge

\* A pending item that has failed n times waits exactly the n-th backoff after
\* its last attempt, however the passes that tried it interleaved or crashed.
RetryFollowsSchedule ==
  \A i \in Id : rows[i].status = "pending" =>
    rows[i].next = IF rows[i].attempts = 0 THEN 0
                   ELSE rows[i].last + NextBackoff(rows[i].attempts - 1)

\* One (review_id, commit_sha) is one row, whichever hooks enqueue concurrently.
OneRowPerKey ==
  \A i, j \in Id : rows[i].key = rows[j].key /\ rows[i].key # NoKey => i = j

\* A settled row ("never retried again") changes in no way but by being forgotten,
\* and an id once forgotten stays unused.
SettledIsFinal ==
  [][\A i \in Id :
       /\ rows[i].status \in {"synced", "failed"} => rows'[i] \in {rows[i], NoRow}
       /\ rows[i] = NoRow /\ i < nextId => rows'[i] = NoRow]_vars

\* Offline-first: an item whose backend has come back is eventually synced, given
\* up or forgotten, though workers crash and lose the race for the lock, as long as
\* somebody keeps running lrc (TriggerOpportunisticSyncFlush's promise).
EveryItemSettles ==
  \A i \in Id : (rows[i].status = "pending") ~> (rows[i].status # "pending")

=============================================================================
