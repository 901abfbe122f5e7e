----------------------------- MODULE MCSyncQueue -----------------------------
(* Small instances of SyncQueue for TLC. *)
EXTENDS SyncQueue, TLC

CONSTANTS k1, k2, p1, p2, p3

MCSchedule == <<1, 2>>

MCSymmetry == Permutations(Proc) \cup Permutations(Key)
=============================================================================
