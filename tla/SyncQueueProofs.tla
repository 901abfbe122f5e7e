--------------------------- MODULE SyncQueueProofs ---------------------------
(***************************************************************************)
(* Machine-checked proofs about SyncQueue for every number of processes,   *)
(* keys and ids and every backoff schedule.                                *)
(***************************************************************************)
EXTENDS SyncQueue, TLAPS

\* A backoff is a natural number of ticks, whatever the attempt count.
LEMMA NextBackoffType == ASSUME NEW n \in Nat PROVE NextBackoff(n) \in Nat
<1>1. Len(Schedule) \in Nat /\ Len(Schedule) >= 1 /\ Schedule \in [1..Len(Schedule) -> Nat]
  BY ScheduleAssumption
<1>2. CASE n >= Len(Schedule)
  BY <1>1, <1>2 DEF NextBackoff
<1>3. CASE ~(n >= Len(Schedule))
  <2>1. n + 1 \in 1..Len(Schedule)
    BY <1>1, <1>3
  <2>2. QED BY <1>1, <1>3, <2>1 DEF NextBackoff
<1>4. QED BY <1>2, <1>3

\* What RecordFailure and MarkSynced write, field by field.
LEMMA RowUpdates ==
  ASSUME NEW r \in LiveRow, NEW permanent \in BOOLEAN, now \in Nat
  PROVE  /\ Synced(r) \in LiveRow
         /\ Synced(r).key = r.key /\ Synced(r).status = "synced"
         /\ AfterFailure(r, permanent) \in LiveRow
         /\ AfterFailure(r, permanent).key = r.key
         /\ AfterFailure(r, permanent).last = now
         /\ AfterFailure(r, permanent).created = r.created
         /\ AfterFailure(r, permanent).attempts = r.attempts + 1
         /\ \/ /\ AfterFailure(r, permanent).status = "failed"
               /\ permanent \/ now - r.created > MaxPendingAge
            \/ /\ AfterFailure(r, permanent).status = r.status
               /\ AfterFailure(r, permanent).next = now + NextBackoff(r.attempts)
<1>1. NextBackoff(r.attempts) \in Nat
  BY NextBackoffType DEF LiveRow
<1>2. /\ Synced(r) \in LiveRow
      /\ Synced(r).key = r.key /\ Synced(r).status = "synced"
  BY DEF Synced, LiveRow
<1>3. /\ Attempted(r) \in LiveRow
      /\ Attempted(r).key = r.key /\ Attempted(r).last = now
      /\ Attempted(r).created = r.created /\ Attempted(r).status = r.status
      /\ Attempted(r).attempts = r.attempts + 1
  <2>1. r.attempts + 1 \in Nat
    BY DEF LiveRow
  <2>2. ASSUME NEW n \in Nat
        PROVE  LET u == [r EXCEPT !.attempts = n, !.last = now]
               IN  /\ u \in LiveRow
                   /\ u.key = r.key /\ u.last = now /\ u.created = r.created
                   /\ u.status = r.status /\ u.attempts = n
    BY DEF LiveRow
  <2>3. QED BY <2>1, <2>2, Zenon DEF Attempted
<1>4. /\ GivenUp(r) \in LiveRow
      /\ GivenUp(r).key = r.key /\ GivenUp(r).last = now
      /\ GivenUp(r).created = r.created /\ GivenUp(r).status = "failed"
      /\ GivenUp(r).attempts = r.attempts + 1
  BY <1>3 DEF GivenUp, LiveRow
<1>5. /\ RetryScheduled(r) \in LiveRow
      /\ RetryScheduled(r).key = r.key /\ RetryScheduled(r).last = now
      /\ RetryScheduled(r).created = r.created /\ RetryScheduled(r).status = r.status
      /\ RetryScheduled(r).attempts = r.attempts + 1
      /\ RetryScheduled(r).next = now + NextBackoff(r.attempts)
  BY <1>1, <1>3 DEF RetryScheduled, LiveRow
<1>6. QED BY <1>2, <1>4, <1>5 DEF AfterFailure

\* The row INSERT writes.
LEMMA NewRows ==
  ASSUME NEW key \in Key, now \in Nat
  PROVE  /\ NewRow(key) \in LiveRow
         /\ NewRow(key).key = key /\ NewRow(key).status = "pending"
         /\ NewRow(key).attempts = 0 /\ NewRow(key).next = 0
BY DEF NewRow, NoRow, LiveRow

\* Type correctness of the queue, its processes and the backend.
THEOREM TypeCorrect == Spec => []TypeOK
<1>1. Init => TypeOK
  BY BoundAssumption DEF Init, TypeOK, Id
<1>2. TypeOK /\ [Next]_vars => TypeOK'
  <2> SUFFICES ASSUME TypeOK, [Next]_vars PROVE TypeOK'
    OBVIOUS
  <2>1. CASE Tick
    BY <2>1 DEF Tick, TypeOK
  <2>2. ASSUME NEW p \in Proc, Start(p) PROVE TypeOK'
    BY <2>2 DEF Start, Begin, TypeOK
  <2>3. ASSUME NEW p \in Proc, Gone(p) PROVE TypeOK'
    BY <2>3 DEF Gone, TypeOK
  <2>4. ASSUME NEW p \in Proc, Enqueue(p) PROVE TypeOK'
    <3>1. ASSUME NEW key \in Key, Insert(p, key) PROVE TypeOK'
      <4>1. NewRow(key) \in LiveRow
        BY NewRows DEF TypeOK
      <4>2. rows' \in [Id -> LiveRow \cup {NoRow}] /\ nextId' \in 1..(MaxId + 1)
        BY <3>1, <4>1, BoundAssumption DEF Insert, TypeOK, Id
      <4>3. QED BY <3>1, <4>2 DEF Insert, TypeOK
    <3>2. CASE InsertNothing(p)
      BY <3>2 DEF InsertNothing, TypeOK
    <3>3. CASE EnqueueSpawn(p)
      BY <3>3 DEF EnqueueSpawn, TypeOK
    <3>4. CASE EnqueueSpawnFails(p)
      BY <3>4 DEF EnqueueSpawnFails, TypeOK
    <3>5. QED BY <2>4, <3>1, <3>2, <3>3, <3>4 DEF Enqueue
  <2>5. ASSUME NEW p \in Proc, Trigger(p) PROVE TypeOK'
    BY <2>5 DEF Trigger, TriggerCount, TriggerSpawn, TriggerFails, TypeOK
  <2>6. ASSUME NEW p \in Proc, Flush(p) PROVE TypeOK'
    <3>1. CASE TryLock(p) \/ ReadDueFails(p) \/ PassDone(p) \/ Unlock(p)
      BY <3>1 DEF TryLock, ReadDueFails, PassDone, Unlock, TypeOK
    <3>2. CASE ReadDue(p)
      <4>1. \A i \in DueIds : i \in Id /\ rows[i].key \in Key
        BY DEF DueIds, TypeOK, LiveRow, NoRow
      <4>2. \A i \in DueIds : [id |-> i, key |-> rows[i].key] \in Item
        BY <4>1 DEF Item
      <4>3. QED BY <3>2, <4>2 DEF ReadDue, TypeOK
    <3>3. CASE Post(p)
      BY <3>3 DEF Post, TypeOK, Item
    <3>4. CASE Record(p)
      <4>1. rows' \in [Id -> LiveRow \cup {NoRow}]
        <5>1. rows[cur[p].id].status # "absent" /\ cur[p].id \in Id =>
                /\ Synced(rows[cur[p].id]) \in LiveRow
                /\ AfterFailure(rows[cur[p].id], reply[p] = "denied") \in LiveRow
          <6>1. now \in Nat /\ (reply[p] = "denied") \in BOOLEAN
            BY DEF TypeOK
          <6>2. \A i \in Id : rows[i].status # "absent" => rows[i] \in LiveRow
            BY DEF TypeOK, NoRow
          <6>3. QED BY <6>1, <6>2, RowUpdates, Zenon
        <5>2. QED BY <3>4, <5>1 DEF Record, TypeOK
      <4>2. QED BY <3>4, <4>1 DEF Record, TypeOK
    <3>5. CASE RecordLost(p)
      BY <3>5 DEF RecordLost, TypeOK
    <3>6. QED BY <2>6, <3>1, <3>2, <3>3, <3>4, <3>5 DEF Flush
  <2>7. ASSUME NEW p \in Proc, Forget(p) \/ OtherCommand(p) PROVE TypeOK'
    BY <2>7 DEF Forget, OtherCommand, TypeOK
  <2>8. CASE UNCHANGED vars
    BY <2>8 DEF vars, TypeOK
  <2>9. QED
    BY <2>1, <2>2, <2>3, <2>4, <2>5, <2>6, <2>7, <2>8 DEF Next, Exit, Crash
<1>3. QED BY <1>1, <1>2, PTL DEF Spec

-----------------------------------------------------------------------------
(* The inductive invariant behind the safety properties *)

Holding(p) == todo[p] \cup ({cur[p]} \ {NoItem})

\* Only the holder of the lock is inside a pass.
PassHoldsLock ==
  \A p \in Proc : pc[p] \in {"due", "post", "record", "unlock"} => lock = p

\* Only a pass holds items, and it records the item it has just posted.
ItemsInPass ==
  \A p \in Proc : /\ todo[p] # {} => pc[p] \in {"post", "record"}
                  /\ cur[p] # NoItem <=> pc[p] = "record"
                  /\ pc[p] # "record" => reply[p] = "none"

\* A pass holds every id once, and only ids that were handed out.
HeldIds ==
  \A p \in Proc : /\ \A a, b \in Holding(p) : a.id = b.id => a = b
                  /\ cur[p] \notin todo[p]
                  /\ \A it \in Holding(p) : it.id < nextId

\* AUTOINCREMENT: no row has an id that was not handed out.
FreshIds == \A i \in Id : i >= nextId => rows[i] = NoRow

\* The reply about to be recorded is about the current item.
ReplyIsAboutCur ==
  \A p \in Proc : /\ reply[p] = "ok" => cur[p].key \in accepted
                  /\ reply[p] = "denied" => cur[p].key \in denied

PassInv == PassHoldsLock /\ ItemsInPass /\ HeldIds /\ FreshIds /\ SnapshotStaysDue

RowInv ==
  ReplyIsAboutCur /\ SyncedWasAccepted /\ FailedForAReason /\ RetryFollowsSchedule /\ OneRowPerKey

IInv == TypeOK /\ PassInv /\ RowInv

\* The empty slot is no item (ids start at 1).
LEMMA NoItemNotItem == NoItem \notin Item
BY DEF NoItem, Item, Id

\* A step of threads outside the flush pass leaves the pass invariant alone.
LEMMA OutsidePass ==
  ASSUME PassInv, UNCHANGED <<rows, nextId, now, lock, todo, cur, reply>>,
         \A q \in Proc : pc'[q] # pc[q] =>
           /\ pc[q] \notin {"due", "post", "record", "unlock"}
           /\ pc'[q] \notin {"due", "post", "record", "unlock"}
  PROVE  PassInv'
<1>1. PassHoldsLock' /\ ItemsInPass'
  BY DEF PassInv, PassHoldsLock, ItemsInPass
<1>2. HeldIds' /\ FreshIds' /\ SnapshotStaysDue'
  BY DEF PassInv, HeldIds, Holding, FreshIds, SnapshotStaysDue
<1>3. QED BY <1>1, <1>2 DEF PassInv

\* Every step keeps the pass invariant: the lock holder's snapshot stays due.
LEMMA PassStep == ASSUME TypeOK, PassInv, [Next]_vars PROVE PassInv'
<1> USE DEF PassInv
<1>1. CASE Tick
  <2>1. PassHoldsLock' /\ ItemsInPass' /\ HeldIds' /\ FreshIds'
    BY <1>1 DEF Tick, PassHoldsLock, ItemsInPass, HeldIds, Holding, FreshIds
  <2>2. SnapshotStaysDue'
    BY <1>1, NoItemNotItem DEF Tick, SnapshotStaysDue, TypeOK, NoRow, LiveRow, Item
  <2>3. QED BY <2>1, <2>2
<1>2. ASSUME NEW p \in Proc,
             Start(p) \/ InsertNothing(p) \/ EnqueueSpawn(p) \/ EnqueueSpawnFails(p)
               \/ Trigger(p) \/ OtherCommand(p)
      PROVE  PassInv'
  <2>1. /\ UNCHANGED <<rows, nextId, now, lock, todo, cur, reply>>
        /\ \A q \in Proc : pc'[q] # pc[q] =>
             /\ pc[q] \notin {"due", "post", "record", "unlock"}
             /\ pc'[q] \notin {"due", "post", "record", "unlock"}
    BY <1>2 DEF Start, Begin, InsertNothing, EnqueueSpawn, EnqueueSpawnFails, Trigger,
                TriggerCount, TriggerSpawn, TriggerFails, OtherCommand, TypeOK
  <2>2. QED BY <2>1, OutsidePass
<1>3. ASSUME NEW p \in Proc, Gone(p) PROVE PassInv'
  <2>1. PassHoldsLock' /\ ItemsInPass' /\ FreshIds'
    BY <1>3 DEF Gone, PassHoldsLock, ItemsInPass, FreshIds, TypeOK
  <2>2. \A q \in Proc : Holding(q)' \subseteq Holding(q) /\ cur'[q] \notin todo'[q]
    BY <1>3 DEF Gone, Holding, HeldIds, TypeOK
  <2>3. HeldIds' /\ SnapshotStaysDue'
    BY <1>3, <2>2 DEF Gone, HeldIds, SnapshotStaysDue, Holding
  <2>4. QED BY <2>1, <2>3
<1>4. ASSUME NEW p \in Proc, NEW key \in Key, Insert(p, key) PROVE PassInv'
  <2>1. PassHoldsLock' /\ ItemsInPass'
    BY <1>4 DEF Insert, PassHoldsLock, ItemsInPass, TypeOK
  <2>2. HeldIds' /\ FreshIds'
    BY <1>4, BoundAssumption, NoItemNotItem DEF Insert, HeldIds, Holding, FreshIds, TypeOK, Id, Item
  <2>3. \A q \in Proc : \A it \in Holding(q) : it.id # nextId /\ rows'[it.id] = rows[it.id]
    <3>1. \A q \in Proc : \A it \in Holding(q) : it.id \in Id /\ it.id < nextId
      BY DEF HeldIds, Holding, TypeOK, Item
    <3>2. \A i \in Id : i < nextId => rows'[i] = rows[i]
      BY <1>4, BoundAssumption DEF Insert, TypeOK, Id
    <3>3. QED BY <3>1, <3>2 DEF TypeOK, Id
  <2>4. SnapshotStaysDue'
    BY <1>4, <2>3 DEF Insert, SnapshotStaysDue, Holding
  <2>5. QED BY <2>1, <2>2, <2>4
<1>5. ASSUME NEW p \in Proc, TryLock(p) \/ ReadDueFails(p) \/ PassDone(p) \/ Unlock(p)
      PROVE  PassInv'
  <2>1. PassHoldsLock' /\ ItemsInPass'
    BY <1>5, ProcAssumption
    DEF TryLock, ReadDueFails, PassDone, Unlock, PassHoldsLock, ItemsInPass, TypeOK
  <2>2. HeldIds' /\ FreshIds' /\ SnapshotStaysDue'
    BY <1>5 DEF TryLock, ReadDueFails, PassDone, Unlock, HeldIds, Holding, FreshIds, SnapshotStaysDue
  <2>3. QED BY <2>1, <2>2
<1>6. ASSUME NEW p \in Proc, ReadDue(p) PROVE PassInv'
  <2>1. PassHoldsLock' /\ ItemsInPass' /\ FreshIds'
    BY <1>6 DEF ReadDue, PassHoldsLock, ItemsInPass, FreshIds, TypeOK
  <2>2. cur[p] = NoItem
    BY <1>6 DEF ReadDue, ItemsInPass
  <2>3. \A it \in todo'[p] : \E i \in DueIds : it = [id |-> i, key |-> rows[i].key]
    BY <1>6 DEF ReadDue, TypeOK
  <2>4. \A it \in todo'[p] : /\ it.id \in DueIds /\ it = [id |-> it.id, key |-> rows[it.id].key]
                            /\ it.id \in Id /\ it.id # 0
    BY <2>3 DEF DueIds, Id
  <2>5. \A q \in Proc : q # p => todo'[q] = todo[q]
    BY <1>6 DEF ReadDue, TypeOK
  <2>6. HeldIds'
    <3>1. \A it \in todo'[p] : it.id < nextId /\ it # NoItem
      BY <2>4 DEF DueIds, FreshIds, NoRow, NoItem, Id, TypeOK
    <3>2. \A a, b \in todo'[p] : a.id = b.id => a = b
      BY <2>4
    <3>3. QED BY <1>6, <2>2, <2>5, <3>1, <3>2 DEF ReadDue, HeldIds, Holding
  <2>7. SnapshotStaysDue'
    <3>1. \A it \in todo'[p] : /\ rows[it.id].key = it.key /\ rows[it.id].status = "pending"
                              /\ rows[it.id].next <= now
      BY <2>4 DEF DueIds
    <3>2. QED BY <1>6, <2>2, <2>5, <3>1 DEF ReadDue, SnapshotStaysDue
  <2>8. QED BY <2>1, <2>6, <2>7
<1>7. ASSUME NEW p \in Proc, Post(p) PROVE PassInv'
  <2>1. PICK it \in todo[p] : cur' = [cur EXCEPT ![p] = it] /\ todo' = [todo EXCEPT ![p] = @ \ {it}]
    BY <1>7 DEF Post
  <2>2. it \in Item /\ it # NoItem
    BY NoItemNotItem DEF TypeOK
  <2>3. PassHoldsLock' /\ ItemsInPass' /\ FreshIds'
    BY <1>7, <2>1, <2>2 DEF Post, PassHoldsLock, ItemsInPass, FreshIds, TypeOK
  <2>4. \A q \in Proc : Holding(q)' \subseteq Holding(q) /\ cur'[q] \notin todo'[q]
    BY <1>7, <2>1, <2>2 DEF Post, Holding, HeldIds, TypeOK
  <2>5. HeldIds' /\ SnapshotStaysDue'
    BY <1>7, <2>4 DEF Post, HeldIds, SnapshotStaysDue, Holding
  <2>6. QED BY <2>3, <2>5
<1>8. ASSUME NEW p \in Proc, Record(p) PROVE PassInv'
  <2>1. PassHoldsLock' /\ ItemsInPass'
    BY <1>8 DEF Record, PassHoldsLock, ItemsInPass, TypeOK
  <2>2. cur[p] \in Item /\ cur[p] \in Holding(p)
    BY <1>8 DEF Record, ItemsInPass, TypeOK, Holding
  <2>3. \A i \in Id : i # cur[p].id => rows'[i] = rows[i]
    BY <1>8 DEF Record, TypeOK
  <2>4. rows[cur[p].id].status = "absent" => rows' = rows
    BY <1>8 DEF Record
  <2>5. FreshIds'
    BY <1>8, <2>2, <2>3 DEF Record, FreshIds, HeldIds, TypeOK, Id
  <2>6. \A q \in Proc : Holding(q)' \subseteq Holding(q) /\ cur'[q] \notin todo'[q]
    BY <1>8, NoItemNotItem DEF Record, Holding, HeldIds, TypeOK
  <2>7. HeldIds'
    BY <1>8, <2>6 DEF Record, HeldIds
  <2>8. \A q \in Proc : \A it \in Holding(q)' : it.id # cur[p].id
    <3>1. CASE \A q \in Proc : q # p => Holding(q) = {}
      BY <1>8, <2>2, <2>6, <3>1, NoItemNotItem DEF Record, Holding, HeldIds, TypeOK
    <3>2. \A q \in Proc : q # p => Holding(q) = {}
      BY <1>8 DEF Record, Holding, ItemsInPass, PassHoldsLock
    <3>3. QED BY <3>1, <3>2
  <2>9. SnapshotStaysDue'
    <3>1. \A q \in Proc : \A it \in Holding(q)' : it \in Item /\ rows'[it.id] = rows[it.id]
      BY <2>3, <2>6, <2>8 DEF Holding, TypeOK, Item
    <3>2. QED BY <1>8, <2>6, <3>1 DEF Record, SnapshotStaysDue, Holding
  <2>10. QED BY <2>1, <2>5, <2>7, <2>9
<1>9. ASSUME NEW p \in Proc, RecordLost(p) PROVE PassInv'
  <2>1. PassHoldsLock' /\ ItemsInPass' /\ FreshIds'
    BY <1>9 DEF RecordLost, PassHoldsLock, ItemsInPass, FreshIds, TypeOK
  <2>2. \A q \in Proc : Holding(q)' \subseteq Holding(q) /\ cur'[q] \notin todo'[q]
    BY <1>9, NoItemNotItem DEF RecordLost, Holding, HeldIds, TypeOK
  <2>3. HeldIds' /\ SnapshotStaysDue'
    BY <1>9, <2>2 DEF RecordLost, HeldIds, SnapshotStaysDue, Holding
  <2>4. QED BY <2>1, <2>3
<1>10. ASSUME NEW p \in Proc, Forget(p) PROVE PassInv'
  <2>1. PICK i \in Id : rows' = [rows EXCEPT ![i] = NoRow]
    BY <1>10 DEF Forget
  <2>2. PassHoldsLock' /\ ItemsInPass' /\ HeldIds' /\ FreshIds'
    BY <1>10, <2>1 DEF Forget, PassHoldsLock, ItemsInPass, HeldIds, Holding, FreshIds, TypeOK
  <2>3. SnapshotStaysDue'
    BY <1>10, <2>1, NoItemNotItem DEF Forget, SnapshotStaysDue, TypeOK, Item
  <2>4. QED BY <2>2, <2>3
<1>11. CASE UNCHANGED vars
  BY <1>11 DEF vars, PassHoldsLock, ItemsInPass, HeldIds, Holding, FreshIds, SnapshotStaysDue
<1>12. QED
  BY <1>1, <1>2, <1>3, <1>4, <1>5, <1>6, <1>7, <1>8, <1>9, <1>10, <1>11
  DEF Next, Exit, Crash, Enqueue, Flush

-----------------------------------------------------------------------------

\* A step that writes no row and settles no reply leaves the row invariant alone.
LEMMA RowsUntouched ==
  ASSUME RowInv, UNCHANGED <<rows, cur, reply>>,
         accepted \subseteq accepted', denied \subseteq denied'
  PROVE  RowInv'
BY DEF RowInv, ReplyIsAboutCur, SyncedWasAccepted, FailedForAReason, RetryFollowsSchedule, OneRowPerKey

\* Forgetting the current item and its reply is harmless to it as well.
LEMMA ReplyDropped ==
  ASSUME RowInv, TypeOK, NEW p \in Proc, UNCHANGED <<rows, accepted, denied>>,
         cur' = [cur EXCEPT ![p] = NoItem], reply' = [reply EXCEPT ![p] = "none"]
  PROVE  RowInv'
BY DEF RowInv, TypeOK, ReplyIsAboutCur, SyncedWasAccepted, FailedForAReason,
       RetryFollowsSchedule, OneRowPerKey

\* Every step keeps the row invariant: what a row says is backed by what happened.
LEMMA RowStep == ASSUME TypeOK, PassInv, RowInv, [Next]_vars PROVE RowInv'
<1>1. CASE Tick
  BY <1>1, RowsUntouched DEF Tick
<1>2. ASSUME NEW p \in Proc,
             Start(p) \/ InsertNothing(p) \/ EnqueueSpawn(p) \/ EnqueueSpawnFails(p)
               \/ Trigger(p) \/ OtherCommand(p) \/ TryLock(p) \/ ReadDue(p)
               \/ ReadDueFails(p) \/ PassDone(p) \/ Unlock(p)
      PROVE  RowInv'
  <2>1. UNCHANGED <<rows, cur, reply, accepted, denied>>
    BY <1>2 DEF Start, InsertNothing, EnqueueSpawn, EnqueueSpawnFails, Trigger,
                TriggerCount, TriggerSpawn, TriggerFails, OtherCommand,
                TryLock, ReadDue, ReadDueFails, PassDone, Unlock
  <2>2. QED BY <2>1, RowsUntouched
<1>3. ASSUME NEW p \in Proc, Gone(p) \/ RecordLost(p) PROVE RowInv'
  BY <1>3, ReplyDropped DEF Gone, RecordLost
<1>4. ASSUME NEW p \in Proc, NEW key \in Key, Insert(p, key) PROVE RowInv'
  <2>1. CASE \E i \in Id : rows[i].key = key
    BY <1>4, <2>1, RowsUntouched DEF Insert
  <2>2. CASE ~ \E i \in Id : rows[i].key = key
    <3>1. nextId \in Id /\ rows' = [rows EXCEPT ![nextId] = NewRow(key)]
      BY <1>4, <2>2 DEF Insert
    <3>2. /\ NewRow(key).key = key /\ NewRow(key).status = "pending"
          /\ NewRow(key).attempts = 0 /\ NewRow(key).next = 0
      BY NewRows DEF TypeOK
    <3>3. SyncedWasAccepted' /\ FailedForAReason' /\ RetryFollowsSchedule'
      BY <1>4, <3>1, <3>2
      DEF Insert, RowInv, TypeOK, SyncedWasAccepted, FailedForAReason, RetryFollowsSchedule, NextBackoff
    <3>4. OneRowPerKey'
      BY <2>2, <3>1, <3>2 DEF RowInv, OneRowPerKey, TypeOK
    <3>5. ReplyIsAboutCur'
      BY <1>4 DEF Insert, RowInv, ReplyIsAboutCur
    <3>6. QED BY <3>3, <3>4, <3>5 DEF RowInv
  <2>3. QED BY <2>1, <2>2
<1>5. ASSUME NEW p \in Proc, Post(p) PROVE RowInv'
  <2>1. PICK it \in todo[p], answer \in {"ok", "denied", "error"} :
          /\ cur' = [cur EXCEPT ![p] = it]
          /\ reply' = [reply EXCEPT ![p] = answer]
          /\ accepted' \in CASE answer = "ok" -> {accepted \cup {it.key}}
                             [] answer = "denied" -> {accepted}
                             [] answer = "error" -> {accepted, accepted \cup {it.key}}
          /\ denied' = IF answer = "denied" THEN denied \cup {it.key} ELSE denied
    BY <1>5 DEF Post
  <2>2. accepted \subseteq accepted' /\ denied \subseteq denied'
    BY <2>1
  <2>3. ReplyIsAboutCur'
    BY <2>1, <2>2 DEF RowInv, ReplyIsAboutCur, TypeOK
  <2>4. SyncedWasAccepted' /\ FailedForAReason' /\ RetryFollowsSchedule' /\ OneRowPerKey'
    BY <1>5, <2>2
    DEF Post, RowInv, SyncedWasAccepted, FailedForAReason, RetryFollowsSchedule, OneRowPerKey
  <2>5. QED BY <2>3, <2>4 DEF RowInv
<1>6. ASSUME NEW p \in Proc, Record(p) PROVE RowInv'
  <2> DEFINE i == cur[p].id
             r == rows[i]
  <2>1. CASE r.status = "absent"
    BY <1>6, <2>1, ReplyDropped DEF Record
  <2>2. CASE r.status # "absent"
    <3>1. cur[p] \in Item /\ cur[p] # NoItem /\ i \in Id
      BY <1>6 DEF Record, PassInv, ItemsInPass, TypeOK, Item
    <3>2. r \in LiveRow /\ r.status = "pending" /\ r.key = cur[p].key
      BY <2>2, <3>1 DEF PassInv, SnapshotStaysDue, NoRow, TypeOK
    <3>3. now \in Nat /\ (reply[p] = "denied") \in BOOLEAN
      BY DEF TypeOK
    <3>4. PICK s \in LiveRow :
            /\ rows' = [rows EXCEPT ![i] = s]
            /\ s.key = r.key
            /\ \/ s.status = "synced" /\ reply[p] = "ok"
               \/ /\ s.last = now /\ s.created = r.created /\ s.attempts = r.attempts + 1
                  /\ \/ /\ s.status = "failed"
                        /\ reply[p] = "denied" \/ now - r.created > MaxPendingAge
                     \/ /\ s.status = "pending"
                        /\ s.next = now + NextBackoff(r.attempts)
      <4>1. CASE reply[p] = "ok"
        <5>1. rows' = [rows EXCEPT ![i] = Synced(r)]
          BY <1>6, <2>2, <4>1 DEF Record
        <5>2. QED BY <3>2, <3>3, <4>1, <5>1, RowUpdates
      <4>2. CASE reply[p] # "ok"
        <5> DEFINE d == reply[p] = "denied"
                   s == AfterFailure(r, d)
        <5>1. rows' = [rows EXCEPT ![i] = s]
          BY <1>6, <2>2, <4>2 DEF Record
        <5>2. /\ s \in LiveRow /\ s.key = r.key
              /\ s.last = now /\ s.created = r.created /\ s.attempts = r.attempts + 1
              /\ \/ s.status = "failed" /\ (d \/ now - r.created > MaxPendingAge)
                 \/ s.status = r.status /\ s.next = now + NextBackoff(r.attempts)
          BY <3>2, <3>3, RowUpdates, Zenon
        <5> HIDE DEF s
        <5>3. QED BY <3>2, <5>1, <5>2
      <4>3. QED BY <4>1, <4>2
    <3>5. SyncedWasAccepted' /\ OneRowPerKey'
      BY <1>6, <3>1, <3>2, <3>4
      DEF Record, RowInv, ReplyIsAboutCur, SyncedWasAccepted, OneRowPerKey, TypeOK
    <3>6. FailedForAReason'
      BY <1>6, <3>1, <3>2, <3>4
      DEF Record, RowInv, ReplyIsAboutCur, FailedForAReason, TypeOK
    <3>7. RetryFollowsSchedule'
      <4>1. s.status = "pending" =>
              /\ s.attempts # 0 /\ s.attempts - 1 = r.attempts
              /\ s.last = now /\ s.next = now + NextBackoff(r.attempts)
        BY <3>2, <3>4 DEF LiveRow
      <4>2. QED
        BY <3>1, <3>4, <4>1 DEF RowInv, RetryFollowsSchedule, TypeOK
    <3>8. ReplyIsAboutCur'
      BY <1>6 DEF Record, RowInv, ReplyIsAboutCur, TypeOK
    <3>9. QED BY <3>5, <3>6, <3>7, <3>8 DEF RowInv
  <2>3. QED BY <2>1, <2>2
<1>7. ASSUME NEW p \in Proc, Forget(p) PROVE RowInv'
  <2>1. PICK i \in Id : rows' = [rows EXCEPT ![i] = NoRow]
    BY <1>7 DEF Forget
  <2>2. SyncedWasAccepted' /\ FailedForAReason' /\ RetryFollowsSchedule' /\ OneRowPerKey'
    BY <1>7, <2>1
    DEF Forget, RowInv, TypeOK, NoRow, SyncedWasAccepted, FailedForAReason, RetryFollowsSchedule,
        OneRowPerKey, NextBackoff
  <2>3. QED BY <1>7, <2>2 DEF Forget, RowInv, ReplyIsAboutCur
<1>8. CASE UNCHANGED vars
  BY <1>8, RowsUntouched DEF vars
<1>9. QED
  BY <1>1, <1>2, <1>3, <1>4, <1>5, <1>6, <1>7, <1>8
  DEF Next, Exit, Crash, Enqueue, Flush

-----------------------------------------------------------------------------
(* The theorems *)

\* The inductive invariant holds in every reachable state of the queue.
LEMMA InvariantHolds == Spec => []IInv
<1>1. Init => PassInv /\ RowInv
  BY DEF Init, PassInv, PassHoldsLock, ItemsInPass, HeldIds, Holding, FreshIds, SnapshotStaysDue,
         RowInv, ReplyIsAboutCur, SyncedWasAccepted, FailedForAReason, RetryFollowsSchedule,
         OneRowPerKey, NoRow
<1>2. TypeOK /\ PassInv /\ RowInv /\ [Next]_vars => PassInv' /\ RowInv'
  BY PassStep, RowStep
<1>3. QED BY <1>1, <1>2, TypeCorrect, PTL DEF Spec, IInv

\* A row is "synced" only when the backend attached its review to its commit
\* (flushSyncQueueDB records every reply on the row it is about).
THEOREM SyncedIsTrue == Spec => []SyncedWasAccepted
<1>1. IInv => SyncedWasAccepted BY DEF IInv, RowInv
<1>2. QED BY <1>1, InvariantHolds, PTL

\* The Due snapshot of a pass never goes stale except by Forget: thanks to the
\* flock no other worker settles or reschedules an item the pass still holds.
THEOREM SnapshotIsFresh == Spec => []SnapshotStaysDue
<1>1. IInv => SnapshotStaysDue BY DEF IInv, PassInv
<1>2. QED BY <1>1, InvariantHolds, PTL

\* Giving up has a reason: a refusal or more than MaxPendingAge of failures.
THEOREM FailuresHaveReasons == Spec => []FailedForAReason
<1>1. IInv => FailedForAReason BY DEF IInv, RowInv
<1>2. QED BY <1>1, InvariantHolds, PTL

\* Retries keep exactly to the backoff schedule.
THEOREM RetriesKeepSchedule == Spec => []RetryFollowsSchedule
<1>1. IInv => RetryFollowsSchedule BY DEF IInv, RowInv
<1>2. QED BY <1>1, InvariantHolds, PTL

\* A settled row never changes again except by being forgotten, and a forgotten
\* id is never used again.
THEOREM SettledStaysSettled == Spec => SettledIsFinal
<1> DEFINE Final(i) == /\ rows[i].status \in {"synced", "failed"} => rows'[i] \in {rows[i], NoRow}
                       /\ rows[i] = NoRow /\ i < nextId => rows'[i] = NoRow
<1>1. ASSUME IInv, [Next]_vars, NEW i \in Id PROVE Final(i)
  <2>1. CASE rows' = rows
    BY <2>1
  <2>2. ASSUME NEW p \in Proc, NEW key \in Key, Insert(p, key) PROVE Final(i)
    <3>1. i # nextId => rows'[i] = rows[i]
      BY <1>1, <2>2 DEF Insert, IInv, TypeOK
    <3>2. i = nextId => rows[i] = NoRow /\ ~(i < nextId)
      BY <1>1, BoundAssumption DEF IInv, PassInv, FreshIds, TypeOK, Id
    <3>3. NoRow.status \notin {"synced", "failed"}
      BY DEF NoRow
    <3>4. QED BY <3>1, <3>2, <3>3
  <2>3. ASSUME NEW p \in Proc, Forget(p) PROVE Final(i)
    BY <1>1, <2>3 DEF Forget, IInv, TypeOK
  <2>4. ASSUME NEW p \in Proc, Record(p) PROVE Final(i)
    <3>1. cur[p] \in Item /\ cur[p] # NoItem
      BY <1>1, <2>4 DEF Record, IInv, PassInv, ItemsInPass, TypeOK
    <3>2. \/ rows[cur[p].id] = NoRow
          \/ rows[cur[p].id].status = "pending"
      BY <1>1, <3>1 DEF IInv, PassInv, SnapshotStaysDue
    <3>3. rows[cur[p].id] = NoRow => rows' = rows
      BY <2>4 DEF Record, NoRow
    <3>4. i # cur[p].id => rows'[i] = rows[i]
      BY <1>1, <2>4 DEF Record, IInv, TypeOK
    <3>5. rows[i].status = "pending" => rows[i] # NoRow
      BY DEF NoRow
    <3>6. QED BY <3>2, <3>3, <3>4, <3>5
  <2>5. ASSUME NEW p \in Proc,
               Start(p) \/ Gone(p) \/ InsertNothing(p) \/ EnqueueSpawn(p) \/ EnqueueSpawnFails(p)
                 \/ Trigger(p) \/ OtherCommand(p) \/ TryLock(p) \/ ReadDue(p) \/ ReadDueFails(p)
                 \/ Post(p) \/ RecordLost(p) \/ PassDone(p) \/ Unlock(p)
        PROVE  rows' = rows
    BY <2>5
    DEF Start, Gone, InsertNothing, EnqueueSpawn, EnqueueSpawnFails, Trigger, TriggerCount,
        TriggerSpawn, TriggerFails, OtherCommand, TryLock, ReadDue, ReadDueFails, Post,
        RecordLost, PassDone, Unlock
  <2>6. Tick \/ UNCHANGED vars => rows' = rows
    BY DEF Tick, vars
  <2> HIDE DEF Final
  <2>7. ASSUME NEW p \in Proc, Enqueue(p) \/ Flush(p) PROVE Final(i)
    BY <2>1, <2>2, <2>4, <2>5, <2>7 DEF Enqueue, Flush
  <2>8. ASSUME NEW p \in Proc,
               Start(p) \/ Exit(p) \/ Crash(p) \/ Trigger(p) \/ Forget(p) \/ OtherCommand(p)
        PROVE  Final(i)
    BY <2>1, <2>3, <2>5, <2>8 DEF Exit, Crash
  <2>9. QED
    BY <1>1, <2>1, <2>6, <2>7, <2>8 DEF Next
<1>2. IInv /\ [Next]_vars =>
        [\A i \in Id :
           /\ rows[i].status \in {"synced", "failed"} => rows'[i] \in {rows[i], NoRow}
           /\ rows[i] = NoRow /\ i < nextId => rows'[i] = NoRow]_vars
  BY <1>1
<1>3. QED BY <1>2, InvariantHolds, PTL DEF Spec, SettledIsFinal
-----------------------------------------------------------------------------
(* The queue implements CommitSync *)

Statuses == {"pending", "synced", "failed"}

\* A new row adds its key to the pending ones.
LEMMA RowInserted ==
  ASSUME TypeOK, NEW i \in Id, rows[i] = NoRow, NEW r \in LiveRow, r.status = "pending",
         rows' = [rows EXCEPT ![i] = r]
  PROVE  /\ WithStatus("pending")' = WithStatus("pending") \cup {r.key}
         /\ WithStatus("synced")' = WithStatus("synced")
         /\ WithStatus("failed")' = WithStatus("failed")
<1>1. rows'[i] = r /\ \A j \in Id \ {i} : rows'[j] = rows[j]
  BY DEF TypeOK
<1>2. rows[i].status = "absent"
  BY DEF NoRow
<1>3. \A st \in Statuses : \A k : k \in WithStatus(st)' <=> k \in WithStatus(st) \/ (st = "pending" /\ k = r.key)
  BY <1>1, <1>2 DEF WithStatus, Statuses
<1> QED BY <1>3 DEF Statuses

\* A row that changes takes its key from one status to another: no other row has it.
LEMMA RowChanged ==
  ASSUME TypeOK, OneRowPerKey, NEW i \in Id, rows[i].status # "absent",
         NEW r \in LiveRow, r.key = rows[i].key, rows' = [rows EXCEPT ![i] = r]
  PROVE  \A st \in Statuses :
           WithStatus(st)' = IF r.status = st THEN WithStatus(st) \cup {r.key} ELSE WithStatus(st) \ {r.key}
<1>1. rows'[i] = r /\ \A j \in Id \ {i} : rows'[j] = rows[j]
  BY DEF TypeOK
<1>2. \A j \in Id \ {i} : rows[j].key # r.key
  BY KeyAssumption DEF OneRowPerKey, LiveRow
<1>3. \A st \in Statuses : \A k :
        k \in WithStatus(st)' <=> (k = r.key /\ r.status = st) \/ (k # r.key /\ k \in WithStatus(st))
  BY <1>1, <1>2 DEF WithStatus
<1> QED BY <1>3

\* A row that is forgotten takes its key with it.
LEMMA RowForgotten ==
  ASSUME TypeOK, OneRowPerKey, NEW i \in Id, rows[i].status # "absent", rows' = [rows EXCEPT ![i] = NoRow]
  PROVE  \A st \in Statuses : WithStatus(st)' = WithStatus(st) \ {rows[i].key}
<1>1. rows'[i].status = "absent" /\ \A j \in Id \ {i} : rows'[j] = rows[j]
  BY DEF TypeOK, NoRow
<1>2. rows[i].key \in Key
  BY DEF TypeOK, LiveRow, NoRow
<1>3. \A j \in Id \ {i} : rows[j].key # rows[i].key
  BY <1>2, KeyAssumption DEF OneRowPerKey
<1>4. \A st \in Statuses : \A k : k \in WithStatus(st)' <=> k # rows[i].key /\ k \in WithStatus(st)
  BY <1>1, <1>3 DEF WithStatus, Statuses
<1> QED BY <1>4

\* What one process drops of what it holds, other processes may still hold.
LEMMA HeldDrops ==
  ASSUME TypeOK, NEW p \in Proc, NEW T, NEW c,
         todo' = [todo EXCEPT ![p] = T], cur' = [cur EXCEPT ![p] = c],
         T \cup ({c} \ {NoItem}) \subseteq Holding(p)
  PROVE  /\ Held' \subseteq Held
         /\ \A it : Holding(p) \subseteq T \cup ({c} \ {NoItem}) \cup {it} => Held \ {it.key} \subseteq Held'
<1>1. /\ Holding(p)' = T \cup ({c} \ {NoItem})
      /\ \A q \in Proc \ {p} : Holding(q)' = Holding(q)
  BY DEF TypeOK, Holding
<1>2. Held = UNION {{it.key : it \in Holding(q)} : q \in Proc}
  BY DEF Held, Holding
<1>3. Held' = UNION {{it.key : it \in Holding(q)'} : q \in Proc}
  BY DEF Held, Holding
<1> QED BY <1>1, <1>2, <1>3

\* Taking items and letting them go is an Offer.
LEMMA OfferStep ==
  ASSUME UNCHANGED <<rows, accepted>>, Held' \subseteq Held \cup WithStatus("pending")
  PROVE  Abstract!Next
BY DEF Abstract!Next, Abstract!Offer, WithStatus

\* A step that leaves rows, items and the backend alone is none of CommitSync's.
LEMMA StutterStep ==
  ASSUME UNCHANGED <<rows, todo, cur, accepted>>
  PROVE  UNCHANGED Abstract!vars
BY DEF Abstract!vars, WithStatus, Held

\* Every step of the queue is a step of CommitSync or none.
LEMMA QueueRefines ==
  ASSUME IInv, [Next]_vars
  PROVE  [Abstract!Next]_(Abstract!vars)
<1> USE DEF IInv
<1>1. ASSUME NEW p \in Proc,
             Start(p) \/ InsertNothing(p) \/ EnqueueSpawn(p) \/ EnqueueSpawnFails(p) \/ Trigger(p)
               \/ TryLock(p) \/ ReadDueFails(p) \/ PassDone(p) \/ Unlock(p) \/ OtherCommand(p)
      PROVE  UNCHANGED Abstract!vars
  <2>1. UNCHANGED <<rows, todo, cur, accepted>>
    BY <1>1 DEF Start, InsertNothing, EnqueueSpawn, EnqueueSpawnFails, Trigger, TriggerCount,
                TriggerSpawn, TriggerFails, TryLock, ReadDueFails, PassDone, Unlock, OtherCommand
  <2> QED BY <2>1, StutterStep
<1>2. CASE Tick \/ UNCHANGED vars
  <2>1. UNCHANGED <<rows, todo, cur, accepted>>
    BY <1>2 DEF Tick, vars
  <2> QED BY <2>1, StutterStep
<1>3. ASSUME NEW p \in Proc, Gone(p) \/ RecordLost(p) PROVE Abstract!Next
  <2>1. Held' \subseteq Held
    <3>1. CASE Gone(p)
      BY <3>1, HeldDrops DEF Gone
    <3>2. CASE RecordLost(p)
      <4>1. todo' = [todo EXCEPT ![p] = todo[p]] /\ cur' = [cur EXCEPT ![p] = NoItem]
        BY <3>2 DEF RecordLost, TypeOK
      <4> QED BY <4>1, HeldDrops DEF Holding
    <3> QED BY <1>3, <3>1, <3>2
  <2> QED BY <1>3, <2>1, OfferStep DEF Gone, RecordLost
<1>4. ASSUME NEW p \in Proc, NEW key \in Key, Insert(p, key) PROVE [Abstract!Next]_(Abstract!vars)
  <2>1. CASE \E i \in Id : rows[i].key = key
    BY <1>4, <2>1, StutterStep DEF Insert
  <2>2. CASE ~\E i \in Id : rows[i].key = key
    <3>1. /\ nextId \in Id /\ rows' = [rows EXCEPT ![nextId] = NewRow(key)]
          /\ UNCHANGED <<todo, cur, accepted>>
      BY <1>4, <2>2 DEF Insert
    <3>2. rows[nextId] = NoRow
      BY <3>1, BoundAssumption DEF PassInv, FreshIds, TypeOK, Id
    <3>3. NewRow(key) \in LiveRow /\ NewRow(key).status = "pending" /\ NewRow(key).key = key
      BY NewRows DEF TypeOK
    <3>4. /\ WithStatus("pending")' = WithStatus("pending") \cup {key}
          /\ WithStatus("synced")' = WithStatus("synced")
          /\ WithStatus("failed")' = WithStatus("failed")
      BY <3>1, <3>2, <3>3, RowInserted
    <3>5. key \notin WithStatus("pending") \cup WithStatus("synced") \cup WithStatus("failed")
      BY <2>2 DEF WithStatus
    <3>6. Held' = Held
      BY <3>1 DEF Held
    <3>7. Abstract!Ask(key)
      BY <3>1, <3>4, <3>5, <3>6 DEF Abstract!Ask
    <3> QED BY <3>7 DEF Abstract!Next
  <2> QED BY <2>1, <2>2
<1>5. ASSUME NEW p \in Proc, ReadDue(p) PROVE Abstract!Next
  <2>1. \A q \in Proc \ {p} : todo'[q] = todo[q]
    BY <1>5 DEF ReadDue, TypeOK
  <2>2. \A it \in todo'[p] : it.key \in WithStatus("pending")
    BY <1>5 DEF ReadDue, DueIds, WithStatus, TypeOK
  <2>3. cur' = cur
    BY <1>5 DEF ReadDue
  <2>4. Held' \subseteq Held \cup WithStatus("pending")
    BY <2>1, <2>2, <2>3 DEF Held
  <2> QED BY <1>5, <2>4, OfferStep DEF ReadDue
<1>6. ASSUME NEW p \in Proc, Post(p) PROVE [Abstract!Next]_(Abstract!vars)
  <2>1. PICK it \in todo[p] : /\ todo' = [todo EXCEPT ![p] = @ \ {it}]
                              /\ cur' = [cur EXCEPT ![p] = it]
                              /\ accepted' \in {accepted, accepted \cup {it.key}}
                              /\ rows' = rows
    BY <1>6 DEF Post
  <2>2. it \in Item /\ it # NoItem /\ it.key \in Key /\ cur[p] = NoItem
    BY <1>6, NoItemNotItem DEF Post, PassInv, ItemsInPass, TypeOK, Item
  <2>3. (todo[p] \ {it}) \cup ({it} \ {NoItem}) = Holding(p)
    BY <2>2 DEF Holding
  <2>4. Held' = Held
    <3>1. /\ Holding(p)' = Holding(p)
          /\ \A q \in Proc \ {p} : Holding(q)' = Holding(q)
      BY <2>1, <2>3 DEF TypeOK, Holding
    <3>2. Held = UNION {{h.key : h \in Holding(q)} : q \in Proc}
      BY DEF Held, Holding
    <3>3. Held' = UNION {{h.key : h \in Holding(q)'} : q \in Proc}
      BY DEF Held, Holding
    <3> QED BY <3>1, <3>2, <3>3
  <2>5. it.key \in Held
    BY <2>3 DEF Held
  <2>6. WithStatus("pending")' = WithStatus("pending") /\ WithStatus("synced")' = WithStatus("synced")
        /\ WithStatus("failed")' = WithStatus("failed")
    BY <2>1 DEF WithStatus
  <2>7. CASE accepted' = accepted
    BY <2>4, <2>6, <2>7 DEF Abstract!vars
  <2>8. CASE accepted' = accepted \cup {it.key}
    <3>1. Abstract!Attach(it.key)
      BY <2>4, <2>5, <2>6, <2>8 DEF Abstract!Attach
    <3> QED BY <2>2, <3>1 DEF Abstract!Next
  <2> QED BY <2>1, <2>7, <2>8
<1>7. ASSUME NEW p \in Proc, Record(p) PROVE Abstract!Next
  <2> DEFINE i == cur[p].id
             r == rows[i]
             new == IF reply[p] = "ok" THEN Synced(r) ELSE AfterFailure(r, reply[p] = "denied")
  <2>1. /\ cur[p] \in Item /\ cur[p] # NoItem /\ i \in Id /\ cur[p] \in Holding(p)
        /\ cur[p] \notin todo[p]
    BY <1>7 DEF Record, PassInv, ItemsInPass, HeldIds, TypeOK, Item, Holding
  <2>2. todo' = [todo EXCEPT ![p] = todo[p]] /\ cur' = [cur EXCEPT ![p] = NoItem] /\ accepted' = accepted
    BY <1>7 DEF Record, TypeOK
  <2>3. /\ Held' \subseteq Held
        /\ Held \ {cur[p].key} \subseteq Held'
    <3>1. todo[p] \cup ({NoItem} \ {NoItem}) \subseteq Holding(p)
      BY DEF Holding
    <3>2. Holding(p) \subseteq todo[p] \cup ({NoItem} \ {NoItem}) \cup {cur[p]}
      BY DEF Holding
    <3> QED BY <2>2, <3>1, <3>2, HeldDrops
  <2>4. CASE r = NoRow
    <3>1. rows' = rows
      BY <1>7, <2>4 DEF Record, NoRow
    <3> QED BY <2>2, <2>3, <3>1, OfferStep
  <2>5. CASE r # NoRow
    <3>1. r.key = cur[p].key /\ r.status = "pending" /\ r \in LiveRow
      BY <2>1, <2>5 DEF PassInv, SnapshotStaysDue, Holding, TypeOK
    <3>2. rows' = [rows EXCEPT ![i] = new]
      BY <1>7, <3>1 DEF Record
    <3>3. /\ new \in LiveRow /\ new.key = cur[p].key
          /\ new.status = "synced" => reply[p] = "ok"
      BY <3>1, RowUpdates DEF TypeOK
    <3>4. \A st \in Statuses :
            WithStatus(st)' = IF new.status = st THEN WithStatus(st) \cup {cur[p].key}
                              ELSE WithStatus(st) \ {cur[p].key}
      <4> HIDE DEF i, new, r
      <4>1. rows[i].status # "absent" /\ new.key = rows[i].key
        BY <3>1, <3>3 DEF r
      <4> QED BY <2>1, <3>2, <3>3, <4>1, RowChanged DEF RowInv
    <3>5. \A j \in Id : rows[j].key = cur[p].key => j = i
      BY <2>1, <3>1, KeyAssumption DEF RowInv, OneRowPerKey, Item
    <3>6. /\ cur[p].key \in WithStatus("pending") /\ cur[p].key \notin WithStatus("synced")
          /\ cur[p].key \notin WithStatus("failed")
      BY <2>1, <3>1, <3>5 DEF WithStatus
    <3>7. cur[p].key \in Held /\ cur[p].key \in Key
      BY <2>1 DEF Held, Holding, Item
    <3>8. Held' \in {Held, Held \ {cur[p].key}}
      BY <2>3, <3>7
    <3> HIDE DEF i, new, r
    <3>9. CASE new.status = "pending"
      <4>1. /\ WithStatus("pending")' = WithStatus("pending") /\ WithStatus("synced")' = WithStatus("synced")
            /\ WithStatus("failed")' = WithStatus("failed")
        BY <3>4, <3>6, <3>9 DEF Statuses
      <4> QED BY <2>2, <2>3, <4>1 DEF Abstract!Next, Abstract!Offer
    <3>10. CASE new.status = "synced"
      <4>1. cur[p].key \in accepted
        BY <3>3, <3>10 DEF RowInv, ReplyIsAboutCur
      <4>2. /\ WithStatus("pending")' = WithStatus("pending") \ {cur[p].key}
            /\ WithStatus("synced")' = WithStatus("synced") \cup {cur[p].key}
            /\ WithStatus("failed")' = WithStatus("failed")
        BY <3>4, <3>6, <3>10 DEF Statuses
      <4>3. Abstract!Settle(cur[p].key)
        BY <2>2, <3>6, <3>7, <3>8, <4>1, <4>2 DEF Abstract!Settle
      <4> QED BY <3>7, <4>3 DEF Abstract!Next
    <3>11. CASE new.status = "failed"
      <4>1. /\ WithStatus("pending")' = WithStatus("pending") \ {cur[p].key}
            /\ WithStatus("synced")' = WithStatus("synced")
            /\ WithStatus("failed")' = WithStatus("failed") \cup {cur[p].key}
        BY <3>4, <3>6, <3>11 DEF Statuses
      <4>2. Abstract!Settle(cur[p].key)
        BY <2>2, <3>6, <3>7, <3>8, <4>1 DEF Abstract!Settle
      <4> QED BY <3>7, <4>2 DEF Abstract!Next
    <3> QED BY <3>3, <3>9, <3>10, <3>11 DEF LiveRow
  <2> QED BY <2>4, <2>5
<1>8. ASSUME NEW p \in Proc, Forget(p) PROVE [Abstract!Next]_(Abstract!vars)
  <2>1. PICK i \in Id : rows' = [rows EXCEPT ![i] = NoRow]
    BY <1>8 DEF Forget
  <2>2. UNCHANGED <<todo, cur, accepted>>
    BY <1>8 DEF Forget
  <2>3. CASE rows[i].status = "absent"
    <3>1. rows[i] = NoRow
      BY <2>3 DEF TypeOK, LiveRow
    <3>2. rows' = rows
      BY <2>1, <3>1 DEF TypeOK
    <3> QED BY <2>2, <3>2, StutterStep
  <2>4. CASE rows[i].status # "absent"
    <3>1. rows[i].key \in Key
      BY <2>4 DEF TypeOK, LiveRow, NoRow
    <3>2. \A st \in Statuses : WithStatus(st)' = WithStatus(st) \ {rows[i].key}
      BY <2>1, <2>4, RowForgotten DEF RowInv
    <3>3. Held' = Held
      BY <2>2 DEF Held
    <3>4. Abstract!Forget(rows[i].key)
      BY <2>2, <3>2, <3>3 DEF Abstract!Forget, Statuses
    <3> QED BY <3>1, <3>4 DEF Abstract!Next
  <2> QED BY <2>3, <2>4
<1>9. ASSUME NEW p \in Proc, Enqueue(p) \/ Flush(p) PROVE [Abstract!Next]_(Abstract!vars)
  BY <1>1, <1>3, <1>4, <1>5, <1>6, <1>7, <1>9 DEF Enqueue, Flush
<1>10. ASSUME NEW p \in Proc,
              Start(p) \/ Exit(p) \/ Crash(p) \/ Trigger(p) \/ Forget(p) \/ OtherCommand(p)
       PROVE  [Abstract!Next]_(Abstract!vars)
  BY <1>1, <1>3, <1>8, <1>10 DEF Exit, Crash
<1> QED BY <1>2, <1>9, <1>10 DEF Next

\* The queue, with its processes, crashes, retries and lost writes, is CommitSync to whoever
\* looks at it from outside (internal/syncqueue, appcore/sync_flow.go).
THEOREM QueueImplements == Spec => ImplementsCommitSync
<1>1. Init => Abstract!Init
  BY DEF Init, Abstract!Init, WithStatus, Held, NoRow
<1>2. IInv /\ [Next]_vars => [Abstract!Next]_(Abstract!vars)
  BY QueueRefines
<1>3. QED BY <1>1, <1>2, InvariantHolds, PTL DEF Spec, ImplementsCommitSync, Abstract!Spec
=============================================================================
