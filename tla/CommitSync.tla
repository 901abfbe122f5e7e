----------------------------- MODULE CommitSync -----------------------------
(***************************************************************************)
(* What the offline queue promises, without ids, clock, locks or processes: *)
(* a commit's review is asked for once, offered to the backend while it is  *)
(* asked for, and settled at most once - as synced only when the backend    *)
(* has attached it.  SyncQueue implements this specification.               *)
(***************************************************************************)
CONSTANT Key     \* (review_id, commit_sha) pairs

VARIABLES
  pending,   \* asked for, outcome unknown
  synced,    \* known to be attached
  failed,    \* given up
  offered,   \* held by the worker that is talking to the backend
  attached   \* attached by the backend

vars == <<pending, synced, failed, offered, attached>>

Init ==
  /\ pending = {} /\ synced = {} /\ failed = {}
  /\ offered = {} /\ attached = {}

Ask(k) ==
  /\ k \notin pending \cup synced \cup failed
  /\ pending' = pending \cup {k}
  /\ UNCHANGED <<synced, failed, offered, attached>>

\* A worker takes a batch of the pending keys, or lets some or all of its batch go.
Offer ==
  /\ offered' \in SUBSET (offered \cup pending)
  /\ UNCHANGED <<pending, synced, failed, attached>>

\* The backend attaches a key it is being offered, even one forgotten meanwhile.
Attach(k) ==
  /\ k \in offered
  /\ attached' = attached \cup {k}
  /\ UNCHANGED <<pending, synced, failed, offered>>

Settle(k) ==
  /\ k \in offered \cap pending
  /\ pending' = pending \ {k}
  /\ offered' \in {offered, offered \ {k}}
  /\ \/ k \in attached /\ synced' = synced \cup {k} /\ UNCHANGED failed
     \/ failed' = failed \cup {k} /\ UNCHANGED synced
  /\ UNCHANGED attached

Forget(k) ==
  /\ pending' = pending \ {k}
  /\ synced' = synced \ {k}
  /\ failed' = failed \ {k}
  /\ UNCHANGED <<offered, attached>>

Next == Offer \/ \E k \in Key : Ask(k) \/ Attach(k) \/ Settle(k) \/ Forget(k)

Spec == Init /\ [][Next]_vars

=============================================================================
