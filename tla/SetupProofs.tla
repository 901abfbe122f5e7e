----------------------------- MODULE SetupProofs -----------------------------
(***************************************************************************)
(* Proofs about ClaudeSetup, for any number of starts, submissions and     *)
(* deaths; and about AuthConfig, for any number of commands and handlers   *)
(* and any file that names each credential once.                           *)
(***************************************************************************)
EXTENDS ClaudeSetup, AuthConfig, FiniteSetTheorems, SequenceTheorems, WellFoundedInduction, TLAPS

-----------------------------------------------------------------------------
(* ClaudeSetup.                                                            *)

Working == {"reset", "launch", "setup", "await", "sent"}

WorkersAreWorkers == DOMAIN worker = Starter

\* A key is wanted only as long as a worker waits for it.
WantedIsAwaited == wanted # "none" => \E w \in Starter : worker[w] = "await"

ClaudeInv == WorkersAreWorkers /\ KeyWaits /\ WantedIsAwaited

\* What a worker does is its own: the others stand where they stood.
LEMMA OneMoves ==
  ASSUME WorkersAreWorkers, NEW w \in Starter, NEW to,
         worker' = [worker EXCEPT ![w] = to]
  PROVE  /\ WorkersAreWorkers' /\ worker'[w] = to
         /\ \A v \in Starter \ {w} : worker'[v] = worker[v]
BY DEF WorkersAreWorkers

\* The lock tells who is at work: no two workers are, and none while it is free.
LEMMA LockTells ==
  ASSUME KeyWaits, NEW v \in Starter, worker[v] \in Working
  PROVE  setupLock = v /\ setupLock # "free"
BY ClaudeAssumption DEF KeyWaits, Working

\* While a worker has the setup in its hands, a submitted key waits for it and nobody
\* takes it away (claude_setup.go: the lock is taken before the session is reset).
THEOREM ClaudeKeyWaits == ClaudeSpec => []KeyWaits
<1>1. ClaudeInit => ClaudeInv
  BY DEF ClaudeInit, ClaudeInv, WorkersAreWorkers, KeyWaits, WantedIsAwaited
<1>2. ClaudeInv /\ [ClaudeNext]_claudeVars => ClaudeInv'
  <2> SUFFICES ASSUME ClaudeInv, [ClaudeNext]_claudeVars PROVE ClaudeInv'
    OBVIOUS
  <2> USE DEF ClaudeInv
  <2>1. CASE UNCHANGED claudeVars
    BY <2>1 DEF claudeVars, WorkersAreWorkers, KeyWaits, WantedIsAwaited
  <2>2. ASSUME NEW s \in Starter,
               StartProbes(s) \/ StartWrites(s) \/ StartPolls(s)
                 \/ (StartSpawns(s) /\ UNCHANGED worker)
        PROVE  ClaudeInv'
    BY <2>2 DEF StartProbes, StartWrites, StartSpawns, StartPolls, WorkersAreWorkers, KeyWaits,
                WantedIsAwaited
  <2>3. ASSUME NEW s \in Starter, StartSpawns(s), Moves(s, "no", "new") PROVE ClaudeInv'
    <3>1. WorkersAreWorkers' /\ worker'[s] = "new" /\ \A v \in Starter \ {s} : worker'[v] = worker[v]
      BY <2>3, OneMoves DEF Moves
    <3>2. QED BY <2>3, <3>1 DEF StartSpawns, Moves, KeyWaits, WantedIsAwaited
  <2>4. ASSUME NEW w \in Starter, WorkerLocks(w) PROVE ClaudeInv'
    <3>1. PICK to : to = (IF setupLock = "free" THEN "reset" ELSE "ended") /\ Moves(w, "new", to)
      BY <2>4 DEF WorkerLocks
    <3>2. WorkersAreWorkers' /\ worker'[w] = to /\ \A v \in Starter \ {w} : worker'[v] = worker[v]
      BY <3>1, OneMoves DEF Moves
    <3>3. WantedIsAwaited'
      BY <2>4, <3>1, <3>2 DEF WorkerLocks, Moves, WantedIsAwaited
    <3>4. ASSUME NEW v \in Starter, worker'[v] \in Working PROVE setupLock' = v
      BY <2>4, <3>1, <3>2, <3>4, LockTells DEF WorkerLocks, Working
    <3>5. QED BY <2>4, <3>2, <3>3, <3>4 DEF WorkerLocks, KeyWaits, Working
  <2>5. ASSUME NEW w \in Starter, WorkerResets(w) PROVE ClaudeInv'
    <3>1. WorkersAreWorkers' /\ worker'[w] = "launch" /\ \A v \in Starter \ {w} : worker'[v] = worker[v]
      BY <2>5, OneMoves DEF WorkerResets, Moves
    <3>2. setupLock = w
      BY <2>5, LockTells DEF WorkerResets, Moves, Working
    <3>3. wanted = "none"
      BY <2>5, <3>2, LockTells DEF WorkerResets, Moves, WantedIsAwaited, Working
    <3>4. QED BY <2>5, <3>1, <3>2, <3>3 DEF WorkerResets, KeyWaits, WantedIsAwaited
  <2>6. ASSUME NEW w \in Starter, WorkerLaunches(w) PROVE ClaudeInv'
    <3>1. PICK to \in {"setup", "ended"} :
            /\ Moves(w, "launch", to)
            /\ setupLock' = IF to = "setup" THEN setupLock ELSE "free"
      BY <2>6 DEF WorkerLaunches
    <3>2. WorkersAreWorkers' /\ worker'[w] = to /\ \A v \in Starter \ {w} : worker'[v] = worker[v]
      BY <3>1, OneMoves DEF Moves
    <3>3. \A v \in Starter : worker[v] \in Working => v = w
      BY <3>1, LockTells DEF Moves, Working
    <3>4. wanted = "none"
      BY <3>1, <3>3 DEF Moves, WantedIsAwaited, Working
    <3>5. QED BY <2>6, <3>1, <3>2, <3>3, <3>4 DEF WorkerLaunches, Moves, KeyWaits, WantedIsAwaited, Working
  <2>7. ASSUME NEW w \in Starter, WorkerPrompted(w) PROVE ClaudeInv'
    <3>1. WorkersAreWorkers' /\ worker'[w] = "await" /\ \A v \in Starter \ {w} : worker'[v] = worker[v]
      BY <2>7, OneMoves DEF WorkerPrompted, Moves
    <3>2. QED BY <2>7, <3>1 DEF WorkerPrompted, Moves, KeyWaits, WantedIsAwaited
  <2>8. ASSUME NEW w \in Starter, WorkerSends(w) PROVE ClaudeInv'
    <3>1. WorkersAreWorkers' /\ worker'[w] = "sent" /\ \A v \in Starter \ {w} : worker'[v] = worker[v]
      BY <2>8, OneMoves DEF WorkerSends, Moves
    <3>2. QED BY <2>8, <3>1 DEF WorkerSends, Moves, KeyWaits, WantedIsAwaited
  <2>9. ASSUME NEW w \in Starter, WorkerEnds(w) PROVE ClaudeInv'
    <3>1. WorkersAreWorkers' /\ worker'[w] = "ended" /\ \A v \in Starter \ {w} : worker'[v] = worker[v]
      BY <2>9, OneMoves DEF WorkerEnds
    <3>2. \A v \in Starter : worker[v] \in Working => v = w
      BY <2>9, LockTells DEF WorkerEnds, Working
    <3>3. QED BY <2>9, <3>1, <3>2 DEF WorkerEnds, KeyWaits, WantedIsAwaited, Working
  <2>10. ASSUME NEW w \in Starter, WorkerDies(w) PROVE ClaudeInv'
    <3>1. WorkersAreWorkers' /\ worker'[w] = "ended" /\ \A v \in Starter \ {w} : worker'[v] = worker[v]
      BY <2>10, OneMoves DEF WorkerDies
    <3>2. CASE setupLock = w
      <4>1. \A v \in Starter : worker[v] \in Working => v = w
        BY <3>2, LockTells
      <4>2. QED BY <2>10, <3>1, <3>2, <4>1 DEF WorkerDies, KeyWaits, WantedIsAwaited, Working
    <3>3. CASE setupLock # w
      <4>1. worker[w] \notin Working
        BY <3>3, LockTells
      <4>2. QED BY <2>10, <3>1, <3>3, <4>1 DEF WorkerDies, KeyWaits, WantedIsAwaited, Working
    <3>4. QED BY <3>2, <3>3
  <2>11. ASSUME NEW k \in Submitter, Submit(k) \/ SubmitPolls(k) PROVE ClaudeInv'
    BY <2>11 DEF Submit, SubmitPolls, WorkersAreWorkers, KeyWaits, WantedIsAwaited
  <2>12. QED
    <3>1. ASSUME NEW s \in Starter, StartSpawns(s) PROVE ClaudeInv'
      BY <2>2, <2>3, <3>1 DEF StartSpawns
    <3>2. QED
      BY <2>1, <2>2, <2>4, <2>5, <2>6, <2>7, <2>8, <2>9, <2>10, <2>11, <3>1 DEF ClaudeNext
<1>3. ClaudeInv => KeyWaits
  BY DEF ClaudeInv
<1>4. QED BY <1>1, <1>2, <1>3, PTL DEF ClaudeSpec

-----------------------------------------------------------------------------
(* AuthConfig: the lines of the file.                                      *)

LineSet == [k : LineKeys, v : Nat]
UpSet == (LineKeys \cup {"connectors"}) \X Nat
Tokens == {"jwt", "refresh_token"}

\* A key stands on one line at most; its lines hold values of V.
Once(lines, key) == \A i, j \in DOMAIN lines : lines[i].k = key /\ lines[j].k = key => i = j
Only(lines, key, V) == \A i \in DOMAIN lines : lines[i].k = key => lines[i].v \in V
Mentions(ups, key) == \E i \in DOMAIN ups : ups[i][1] = key
Puts(ups, key, V) == \A i \in DOMAIN ups : ups[i][1] = key => ups[i][2] \in V

LessThan == {ss \in Nat \X Nat : ss[1] < ss[2]}

LEMMA Least ==
  ASSUME NEW T \in SUBSET Nat, T # {}
  PROVE  \E m \in T : \A k \in T : m <= k
<1>1. IsWellFoundedOn(LessThan, Nat)
  BY NatLessThanWellFounded DEF OpToRel, LessThan
<1>2. PICK m \in T : \A k \in T : ~(<<k, m>> \in LessThan)
  BY <1>1, WFMin
<1>3. \A k \in T : ~(k < m)
  BY <1>2 DEF LessThan
<1> QED BY <1>3

\* The first line with a key.
FirstLineOf(lines, key) ==
  CHOOSE i \in DOMAIN lines : lines[i].k = key /\ \A j \in 1..(i - 1) : ~(lines[j].k = key)

LEMMA FirstLineIs ==
  ASSUME NEW lines \in Seq(LineSet), NEW key, \E i \in DOMAIN lines : lines[i].k = key
  PROVE  /\ FirstLineOf(lines, key) \in DOMAIN lines
         /\ lines[FirstLineOf(lines, key)].k = key
<1> DEFINE T == {i \in DOMAIN lines : lines[i].k = key}
<1>1. T \in SUBSET Nat /\ T # {}
  OBVIOUS
<1>2. PICK m \in T : \A k \in T : m <= k
  BY <1>1, Least
<1>3. m \in DOMAIN lines /\ lines[m].k = key
  BY <1>2
<1>4. \A j \in 1..(m - 1) : ~(lines[j].k = key)
  BY <1>2
<1>5. \E i \in DOMAIN lines : lines[i].k = key /\ \A j \in 1..(i - 1) : ~(lines[j].k = key)
  BY <1>3, <1>4
<1> QED BY <1>5 DEF FirstLineOf

\* A part of the file is a file, and keeps what holds of its lines.
LEMMA PartKeeps ==
  ASSUME NEW lines \in Seq(LineSet), NEW m \in 1..(Len(lines) + 1), NEW n \in 0..Len(lines)
  PROVE  /\ SubSeq(lines, m, n) \in Seq(LineSet)
         /\ \A i \in DOMAIN SubSeq(lines, m, n) :
              i + m - 1 \in DOMAIN lines /\ SubSeq(lines, m, n)[i] = lines[i + m - 1]
OBVIOUS

\* What stands in one of two parts of a file with different lines of it.
LEMMA JoinKeeps ==
  ASSUME NEW lines \in Seq(LineSet), NEW s \in Seq(LineSet), NEW t \in Seq(LineSet),
         NEW d \in Nat, Len(s) <= d,
         \A i \in DOMAIN s : i \in DOMAIN lines /\ s[i] = lines[i],
         \A i \in DOMAIN t : i + d \in DOMAIN lines /\ t[i] = lines[i + d]
  PROVE  /\ s \o t \in Seq(LineSet)
         /\ \A key : Once(lines, key) => Once(s \o t, key)
         /\ \A key, V : Only(lines, key, V) => Only(s \o t, key, V)
<1> DEFINE st == s \o t
           Of(i) == IF i <= Len(s) THEN i ELSE i - Len(s) + d
<1>1. st \in Seq(LineSet) /\ Len(st) = Len(s) + Len(t)
  OBVIOUS
<1>2. ASSUME NEW i \in DOMAIN st
      PROVE  Of(i) \in DOMAIN lines /\ st[i] = lines[Of(i)]
  <2>1. CASE i <= Len(s)
    <3>1. i \in DOMAIN s
      BY <1>1, <2>1
    <3> QED BY <2>1, <3>1
  <2>2. CASE ~(i <= Len(s))
    <3>1. i - Len(s) \in DOMAIN t
      BY <1>1, <2>2
    <3>2. st[i] = t[i - Len(s)]
      BY <1>1, <2>2
    <3> QED BY <2>2, <3>1, <3>2
  <2> QED BY <2>1, <2>2
<1>3. \A i, j \in DOMAIN st : Of(i) = Of(j) => i = j
  BY <1>1
<1>4. \A key : Once(lines, key) => Once(st, key)
  <2> HIDE DEF st, Of
  <2> QED BY <1>2, <1>3 DEF Once
<1>5. \A key, V : Only(lines, key, V) => Only(st, key, V)
  <2> HIDE DEF st, Of
  <2> QED BY <1>2 DEF Only
<1> QED BY <1>1, <1>4, <1>5

LEMMA UpsertKeeps ==
  ASSUME NEW lines \in Seq(LineSet), NEW name \in LineKeys, NEW val \in Nat
  PROVE  /\ UpsertQuotedConfigValue(lines, name, val) \in Seq(LineSet)
         /\ \A key : Once(lines, key) => Once(UpsertQuotedConfigValue(lines, name, val), key)
         /\ \A key, V : key # name /\ Only(lines, key, V)
                          => Only(UpsertQuotedConfigValue(lines, name, val), key, V)
         /\ \A V : Once(lines, name) /\ val \in V
                     => Only(UpsertQuotedConfigValue(lines, name, val), name, V)
<1> DEFINE up == UpsertQuotedConfigValue(lines, name, val)
<1>1. CASE \E i \in DOMAIN lines : lines[i].k = name
  <2> DEFINE p == FirstLineOf(lines, name)
  <2>1. up = [lines EXCEPT ![p].v = val]
    BY <1>1 DEF UpsertQuotedConfigValue, FirstAt, FirstLineOf
  <2>2. p \in DOMAIN lines /\ lines[p].k = name
    BY <1>1, FirstLineIs
  <2> HIDE DEF p, up
  <2>3. lines[p] \in LineSet
    BY <2>2
  <2>4. [lines[p] EXCEPT !.v = val] \in LineSet /\ [lines[p] EXCEPT !.v = val].k = name
          /\ [lines[p] EXCEPT !.v = val].v = val
    BY <2>2, <2>3 DEF LineSet
  <2>5. up \in Seq(LineSet) /\ DOMAIN up = DOMAIN lines
    BY <2>1, <2>2, <2>4
  <2>6. \A i \in DOMAIN lines : i # p => up[i] = lines[i]
    BY <2>1
  <2>7. up[p].k = name /\ up[p].v = val
    BY <2>1, <2>2, <2>4
  <2>8. \A key : Once(lines, key) => Once(up, key)
    BY <2>2, <2>5, <2>6, <2>7 DEF Once
  <2>9. \A key, V : key # name /\ Only(lines, key, V) => Only(up, key, V)
    BY <2>2, <2>5, <2>6, <2>7 DEF Only
  <2>10. \A V : Once(lines, name) /\ val \in V => Only(up, name, V)
    BY <2>2, <2>5, <2>6, <2>7 DEF Once, Only
  <2> QED BY <2>5, <2>8, <2>9, <2>10 DEF up
<1>2. CASE ~\E i \in DOMAIN lines : lines[i].k = name
  <2>1. up = Append(lines, [k |-> name, v |-> val])
    BY <1>2 DEF UpsertQuotedConfigValue, Line
  <2> HIDE DEF up
  <2>2. [k |-> name, v |-> val] \in LineSet
    BY DEF LineSet
  <2>3. up \in Seq(LineSet) /\ DOMAIN up = DOMAIN lines \cup {Len(lines) + 1}
    BY <2>1, <2>2
  <2>4. \A i \in DOMAIN lines : up[i] = lines[i]
    BY <2>1, <2>2
  <2>5. up[Len(lines) + 1] = [k |-> name, v |-> val]
    BY <2>1, <2>2
  <2>6. \A key : Once(lines, key) => Once(up, key)
    BY <1>2, <2>3, <2>4, <2>5 DEF Once
  <2>7. \A key, V : key # name /\ Only(lines, key, V) => Only(up, key, V)
    BY <1>2, <2>3, <2>4, <2>5 DEF Only
  <2>8. \A V : Once(lines, name) /\ val \in V => Only(up, name, V)
    BY <1>2, <2>3, <2>4, <2>5 DEF Only
  <2> QED BY <2>3, <2>6, <2>7, <2>8 DEF up
<1> QED BY <1>1, <1>2

LEMMA StripKeeps ==
  ASSUME NEW lines \in Seq(LineSet)
  PROVE  /\ StripManagedAIConnectorsSection(lines) \in Seq(LineSet)
         /\ \A key : Once(lines, key) => Once(StripManagedAIConnectorsSection(lines), key)
         /\ \A key, V : Only(lines, key, V) => Only(StripManagedAIConnectorsSection(lines), key, V)
<1> DEFINE rest(b) == SubSeq(lines, b, Len(lines))
           b0 == FirstLineOf(lines, "begin")
           e0 == FirstLineOf(rest(b0), "end")
           out == StripManagedAIConnectorsSection(lines)
<1>1. CASE ~\E i \in DOMAIN lines : lines[i].k = "begin"
  <2>1. out = lines
    BY <1>1 DEF StripManagedAIConnectorsSection
  <2> QED BY <2>1
<1>2. CASE \E i \in DOMAIN lines : lines[i].k = "begin"
  <2>1. out = SubSeq(lines, 1, b0 - 1)
                \o (IF \E i \in DOMAIN rest(b0) : rest(b0)[i].k = "end"
                    THEN SubSeq(rest(b0), e0 + 1, Len(rest(b0))) ELSE <<>>)
    BY <1>2 DEF StripManagedAIConnectorsSection, FirstAt, FirstLineOf
  <2>2. b0 \in DOMAIN lines
    BY <1>2, FirstLineIs
  <2> HIDE DEF b0, out
  <2>3. b0 \in 1..Len(lines) /\ Len(lines) \in Nat /\ b0 \in Nat
    BY <2>2
  <2> DEFINE s == SubSeq(lines, 1, b0 - 1)
             r == rest(b0)
  <2>4. s \in Seq(LineSet) /\ Len(s) = b0 - 1 /\ \A i \in DOMAIN s : i \in DOMAIN lines /\ s[i] = lines[i]
    BY <2>3
  <2>5. r \in Seq(LineSet) /\ Len(r) = Len(lines) - b0 + 1 /\ \A i \in 1..Len(r) : r[i] = lines[i + b0 - 1]
    BY <2>3
  <2> HIDE DEF s, r
  <2>6. CASE \E i \in DOMAIN r : r[i].k = "end"
    <3> DEFINE e == FirstLineOf(r, "end")
               t == SubSeq(r, e + 1, Len(r))
               d == e + b0 - 1
    <3>1. e \in DOMAIN r
      BY <2>5, <2>6, FirstLineIs
    <3>2. e \in 1..Len(r) /\ Len(r) \in Nat
      BY <2>5, <3>1
    <3>3. out = s \o t
      BY <2>1, <2>6 DEF s, r
    <3> HIDE DEF e
    <3>4. t \in Seq(LineSet) /\ Len(t) = Len(r) - e /\ \A i \in 1..Len(t) : t[i] = r[i + e]
      BY <2>5, <3>2
    <3>5. d \in Nat /\ Len(s) <= d
      BY <2>3, <2>4, <3>2
    <3> HIDE DEF t
    <3>6. ASSUME NEW i \in DOMAIN t PROVE i + d \in DOMAIN lines /\ t[i] = lines[i + d]
      <4>1. i \in 1..Len(t) /\ i + e \in 1..Len(r)
        BY <3>2, <3>4
      <4>2. t[i] = lines[(i + e) + b0 - 1]
        BY <2>5, <3>4, <4>1
      <4>3. (i + e) + b0 - 1 = i + d /\ i + d \in 1..Len(lines)
        <5>1. i \in Int /\ e \in Int /\ b0 \in Int /\ Len(r) \in Int /\ Len(lines) \in Int
          BY <2>3, <3>2, <4>1
        <5>2. 1 <= i /\ 1 <= e /\ i + e <= Len(r) /\ 1 <= b0 /\ b0 <= Len(lines)
                /\ Len(r) = Len(lines) - b0 + 1
          BY <2>3, <2>5, <3>2, <4>1
        <5> HIDE DEF r
        <5> QED BY <5>1, <5>2
      <4> QED BY <4>2, <4>3
    <3> HIDE DEF d
    <3>7. /\ s \in Seq(LineSet) /\ t \in Seq(LineSet) /\ d \in Nat /\ Len(s) <= d
          /\ \A i \in DOMAIN s : i \in DOMAIN lines /\ s[i] = lines[i]
          /\ \A i \in DOMAIN t : i + d \in DOMAIN lines /\ t[i] = lines[i + d]
      BY <2>4, <3>4, <3>5, <3>6
    <3>8. /\ s \o t \in Seq(LineSet)
          /\ \A key : Once(lines, key) => Once(s \o t, key)
          /\ \A key, V : Only(lines, key, V) => Only(s \o t, key, V)
      BY <3>7, JoinKeeps
    <3> QED BY <3>3, <3>8 DEF out
  <2>7. CASE ~\E i \in DOMAIN r : r[i].k = "end"
    <3>1. out = s \o <<>>
      BY <2>1, <2>7 DEF s, r
    <3>2. Len(s) \in Nat /\ <<>> \in Seq(LineSet) /\ DOMAIN <<>> = {} /\ Len(s) <= Len(s)
      BY <2>4
    <3> DEFINE t == <<>>
    <3>3. t \in Seq(LineSet) /\ \A i \in DOMAIN t : i + Len(s) \in DOMAIN lines /\ t[i] = lines[i + Len(s)]
      BY <3>2
    <3> HIDE DEF t
    <3>4. /\ s \o t \in Seq(LineSet)
          /\ \A key : Once(lines, key) => Once(s \o t, key)
          /\ \A key, V : Only(lines, key, V) => Only(s \o t, key, V)
      BY <2>4, <3>2, <3>3, JoinKeeps
    <3> QED BY <3>1, <3>4 DEF t, out
  <2> QED BY <2>6, <2>7
<1> QED BY <1>1, <1>2

\* No line has the key.
Lacks(lines, key) == \A i \in DOMAIN lines : lines[i].k # key

LEMMA LacksBoth ==
  ASSUME NEW s \in Seq(LineSet), NEW t \in Seq(LineSet), NEW key, Lacks(s, key), Lacks(t, key)
  PROVE  s \o t \in Seq(LineSet) /\ Lacks(s \o t, key)
<1> DEFINE st == s \o t
<1>1. st \in Seq(LineSet) /\ Len(st) = Len(s) + Len(t)
  OBVIOUS
<1>2. ASSUME NEW i \in DOMAIN st PROVE st[i].k # key
  <2>1. CASE i <= Len(s)
    <3>1. i \in DOMAIN s /\ st[i] = s[i]
      BY <1>1, <2>1
    <3> QED BY <3>1 DEF Lacks
  <2>2. CASE ~(i <= Len(s))
    <3>1. i - Len(s) \in DOMAIN t /\ st[i] = t[i - Len(s)]
      BY <1>1, <2>2
    <3> QED BY <3>1 DEF Lacks
  <2> QED BY <2>1, <2>2
<1> HIDE DEF st
<1> QED BY <1>1, <1>2 DEF Lacks, st

LEMMA SectionIs ==
  ASSUME NEW b \in BOOLEAN, NEW key \in Tokens
  PROVE  /\ RenderManagedAIConnectorsSection(b) \in Seq(LineSet)
         /\ Lacks(RenderManagedAIConnectorsSection(b), key)
<1> DEFINE B == Line("begin", 0)
           E == Line("end", 0)
           H == Line("table", 0)
           K == Line("api_key", ConnectorKey)
<1>1. \A l \in LineKeys, n \in Nat : Line(l, n) \in LineSet /\ Line(l, n).k = l
  BY DEF Line, LineSet
<1>2. 0 \in Nat /\ ConnectorKey \in Nat
  BY DEF ConnectorKey
<1>3. "begin" \in LineKeys /\ "end" \in LineKeys /\ "table" \in LineKeys /\ "api_key" \in LineKeys
  BY DEF LineKeys
<1>4. /\ B \in LineSet /\ E \in LineSet /\ H \in LineSet /\ K \in LineSet
      /\ B.k = "begin" /\ E.k = "end" /\ H.k = "table" /\ K.k = "api_key"
  BY <1>1, <1>2, <1>3
<1>5. B.k # key /\ E.k # key /\ H.k # key /\ K.k # key
  <2> HIDE DEF B, E, H, K
  <2> QED BY <1>4 DEF Tokens
<1>6. RenderManagedAIConnectorsSection(b) = <<B>> \o (IF b THEN <<H, K>> ELSE <<>>) \o <<E>>
  BY DEF RenderManagedAIConnectorsSection
<1> HIDE DEF B, E, H, K
<1>7. ASSUME NEW l \in LineSet, l.k # key PROVE <<l>> \in Seq(LineSet) /\ Lacks(<<l>>, key)
  <2> DEFINE s == <<l>>
  <2>1. s \in Seq(LineSet) /\ Len(s) = 1 /\ s[1] = l
    OBVIOUS
  <2> HIDE DEF s
  <2>2. \A i \in DOMAIN s : s[i] = l
    BY <2>1
  <2> QED BY <1>7, <2>1, <2>2 DEF Lacks, s
<1>8. /\ <<B>> \in Seq(LineSet) /\ Lacks(<<B>>, key)
      /\ <<E>> \in Seq(LineSet) /\ Lacks(<<E>>, key)
  BY <1>4, <1>5, <1>7
<1> DEFINE m == IF b THEN <<H, K>> ELSE <<>>
<1>9. m \in Seq(LineSet) /\ Lacks(m, key)
  <2>1. <<H, K>> \in Seq(LineSet) /\ Lacks(<<H, K>>, key)
    <3> DEFINE s == <<H, K>>
    <3>1. s \in Seq(LineSet) /\ Len(s) = 2 /\ s[1] = H /\ s[2] = K
      BY <1>4
    <3> HIDE DEF s
    <3>2. \A i \in DOMAIN s : s[i] = H \/ s[i] = K
      BY <3>1
    <3> QED BY <1>5, <3>1, <3>2 DEF Lacks, s
  <2>2. <<>> \in Seq(LineSet) /\ Lacks(<<>>, key)
    BY DEF Lacks
  <2> QED BY <2>1, <2>2
<1> HIDE DEF m
<1>10. <<B>> \o m \in Seq(LineSet) /\ Lacks(<<B>> \o m, key)
  BY <1>8, <1>9, LacksBoth
<1>11. (<<B>> \o m) \o <<E>> \in Seq(LineSet) /\ Lacks((<<B>> \o m) \o <<E>>, key)
  BY <1>8, <1>10, LacksBoth
<1> QED BY <1>6, <1>11 DEF m

LEMMA AppendedKeeps ==
  ASSUME NEW s \in Seq(LineSet), NEW t \in Seq(LineSet), NEW key, Lacks(t, key)
  PROVE  /\ s \o t \in Seq(LineSet)
         /\ Once(s, key) => Once(s \o t, key)
         /\ \A V : Only(s, key, V) => Only(s \o t, key, V)
<1> DEFINE st == s \o t
<1>1. st \in Seq(LineSet) /\ Len(st) = Len(s) + Len(t)
  OBVIOUS
<1>2. ASSUME NEW i \in DOMAIN st, st[i].k = key
      PROVE  i \in DOMAIN s /\ st[i] = s[i]
  <2>1. CASE i <= Len(s)
    BY <1>1, <2>1
  <2>2. CASE ~(i <= Len(s))
    <3>1. i - Len(s) \in DOMAIN t
      BY <1>1, <2>2
    <3>2. st[i] = t[i - Len(s)]
      BY <1>1, <2>2
    <3> QED BY <1>2, <3>1, <3>2 DEF Lacks
  <2> QED BY <2>1, <2>2
<1> HIDE DEF st
<1>3. Once(s, key) => Once(st, key)
  BY <1>2 DEF Once
<1>4. \A V : Only(s, key, V) => Only(st, key, V)
  BY <1>2 DEF Only
<1> QED BY <1>1, <1>3, <1>4 DEF st

\* One update keeps a token on one line, with the value it puts there or the one there was.
LEMMA UpdatedKeeps ==
  ASSUME NEW lines \in Seq(LineSet), NEW u \in UpSet, NEW key \in Tokens, Once(lines, key)
  PROVE  /\ Updated(lines, u) \in Seq(LineSet)
         /\ Once(Updated(lines, u), key)
         /\ \A V : u[1] # key /\ Only(lines, key, V) => Only(Updated(lines, u), key, V)
         /\ \A V : u[1] = key /\ u[2] \in V => Only(Updated(lines, u), key, V)
<1>0. (u[1] = "connectors" \/ u[1] \in LineKeys) /\ u[2] \in Nat
  BY DEF UpSet
<1>1. CASE u[1] = "connectors"
  <2> DEFINE s == StripManagedAIConnectorsSection(lines)
             b == (u[2] = 1)
             t == RenderManagedAIConnectorsSection(b)
  <2>1. Updated(lines, u) = s \o t
    BY <1>1 DEF Updated
  <2>2. s \in Seq(LineSet) /\ Once(s, key) /\ \A V : Only(lines, key, V) => Only(s, key, V)
    BY StripKeeps
  <2>3. t \in Seq(LineSet) /\ Lacks(t, key)
    <3>1. b \in BOOLEAN
      OBVIOUS
    <3> HIDE DEF b
    <3> QED BY <3>1, SectionIs
  <2>4. u[1] # key
    BY <1>1 DEF Tokens
  <2> HIDE DEF s, t
  <2>5. /\ s \o t \in Seq(LineSet) /\ Once(s \o t, key)
        /\ \A V : Only(s, key, V) => Only(s \o t, key, V)
    BY <2>2, <2>3, AppendedKeeps
  <2> QED BY <2>1, <2>2, <2>4, <2>5
<1>2. CASE u[1] # "connectors"
  <2>1. Updated(lines, u) = UpsertQuotedConfigValue(lines, u[1], u[2])
    BY <1>2 DEF Updated
  <2>2. /\ UpsertQuotedConfigValue(lines, u[1], u[2]) \in Seq(LineSet)
        /\ \A k : Once(lines, k) => Once(UpsertQuotedConfigValue(lines, u[1], u[2]), k)
        /\ \A k, V : k # u[1] /\ Only(lines, k, V) => Only(UpsertQuotedConfigValue(lines, u[1], u[2]), k, V)
        /\ \A V : Once(lines, u[1]) /\ u[2] \in V
                    => Only(UpsertQuotedConfigValue(lines, u[1], u[2]), u[1], V)
    BY <1>0, <1>2, UpsertKeeps
  <2> QED BY <2>1, <2>2
<1> QED BY <1>1, <1>2

\* What a write makes of the file, update by update.
Steps(lines, ups, top, g) ==
  g = [n \in 0..top |-> IF n = 0 THEN lines ELSE Updated(g[n - 1], ups[n])]

LEMMA StepsExist ==
  ASSUME NEW lines, NEW ups, NEW top \in Nat
  PROVE  \E g : Steps(lines, ups, top, g)
<1> DEFINE T == {m \in Nat : ~\E g : Steps(lines, ups, m, g)}
<1> SUFFICES ASSUME T # {} PROVE FALSE
  OBVIOUS
<1>1. T \in SUBSET Nat
  OBVIOUS
<1>2. PICK m \in T : \A k \in T : m <= k
  BY <1>1, Least
<1>3. m # 0
  <2> DEFINE g == [n \in 0..0 |-> lines]
  <2>1. g = [n \in 0..0 |-> IF n = 0 THEN lines ELSE Updated(g[n - 1], ups[n])]
    OBVIOUS
  <2>2. Steps(lines, ups, 0, g)
    BY <2>1 DEF Steps
  <2> HIDE DEF g
  <2> QED BY <2>2
<1>4. m \in Nat /\ m - 1 \in Nat /\ m - 1 \notin T
  BY <1>2, <1>3
<1>5. PICK g : Steps(lines, ups, m - 1, g)
  BY <1>4
<1> DEFINE h == [n \in 0..m |-> IF n = m THEN Updated(g[m - 1], ups[m]) ELSE g[n]]
<1>6. \A n \in 0..(m - 1) : g[n] = IF n = 0 THEN lines ELSE Updated(g[n - 1], ups[n])
  BY <1>5 DEF Steps
<1>7. \A n \in 0..m : h[n] = IF n = 0 THEN lines ELSE Updated(h[n - 1], ups[n])
  <2> SUFFICES ASSUME NEW n \in 0..m PROVE h[n] = IF n = 0 THEN lines ELSE Updated(h[n - 1], ups[n])
    OBVIOUS
  <2>1. CASE n = m
    <3>1. h[n] = Updated(g[m - 1], ups[m])
      BY <2>1
    <3>2. h[m - 1] = g[m - 1]
      BY <1>3, <1>4
    <3> HIDE DEF h
    <3> QED BY <1>3, <2>1, <3>1, <3>2
  <2>2. CASE n # m
    <3>1. n \in 0..(m - 1) /\ (n # 0 => n - 1 \in 0..m /\ n - 1 # m)
      BY <1>4, <2>2
    <3>2. h[n] = g[n] /\ (n # 0 => h[n - 1] = g[n - 1])
      BY <2>2, <3>1
    <3> HIDE DEF h
    <3> QED BY <1>6, <3>1, <3>2
  <2> QED BY <2>1, <2>2
<1>8. Steps(lines, ups, m, h)
  <2>1. h = [n \in 0..m |-> h[n]]
    OBVIOUS
  <2> HIDE DEF h
  <2>2. [n \in 0..m |-> h[n]] = [n \in 0..m |-> IF n = 0 THEN lines ELSE Updated(h[n - 1], ups[n])]
    BY <1>7
  <2> QED BY <2>1, <2>2 DEF Steps
<1> HIDE DEF h
<1> QED BY <1>2, <1>8

LEMMA EditedIs ==
  ASSUME NEW lines, NEW ups, NEW S, ups \in Seq(S)
  PROVE  \E g : /\ g[0] = lines /\ Edited(lines, ups) = g[Len(ups)]
                /\ \A n \in 1..Len(ups) : g[n] = Updated(g[n - 1], ups[n])
<1> DEFINE g == CHOOSE f : Steps(lines, ups, Len(ups), f)
<1>1. Len(ups) \in Nat
  OBVIOUS
<1>2. \E f : Steps(lines, ups, Len(ups), f)
  BY <1>1, StepsExist
<1>3. Steps(lines, ups, Len(ups), g)
  BY <1>2
<1>4. Edited(lines, ups) = g[Len(ups)]
  BY DEF Edited, Steps
<1> HIDE DEF g
<1>5. \A n \in 0..Len(ups) : g[n] = IF n = 0 THEN lines ELSE Updated(g[n - 1], ups[n])
  BY <1>3 DEF Steps
<1>6. g[0] = lines /\ \A n \in 1..Len(ups) : g[n] = Updated(g[n - 1], ups[n])
  BY <1>1, <1>5
<1> QED BY <1>4, <1>6

\* A write keeps a token on one line: with a value it puts there when it names the token, and
\* with the one there was when it does not.
LEMMA EditedKeeps ==
  ASSUME NEW lines \in Seq(LineSet), NEW ups \in Seq(UpSet), NEW key \in Tokens, Once(lines, key), NEW V,
         Puts(ups, key, V), Mentions(ups, key) \/ Only(lines, key, V)
  PROVE  /\ Edited(lines, ups) \in Seq(LineSet)
         /\ Once(Edited(lines, ups), key)
         /\ Only(Edited(lines, ups), key, V)
<1>1. PICK g : /\ g[0] = lines /\ Edited(lines, ups) = g[Len(ups)]
               /\ \A n \in 1..Len(ups) : g[n] = Updated(g[n - 1], ups[n])
  BY EditedIs
<1> DEFINE Named(n) == \E i \in 1..n : ups[i][1] = key
           Good(n) == /\ g[n] \in Seq(LineSet) /\ Once(g[n], key)
                      /\ Only(lines, key, V) \/ Named(n) => Only(g[n], key, V)
           T == {n \in 0..Len(ups) : ~Good(n)}
<1>2. T = {}
  <2> SUFFICES ASSUME T # {} PROVE FALSE
    OBVIOUS
  <2>1. T \in SUBSET Nat
    OBVIOUS
  <2> HIDE DEF Good
  <2>2. PICK m \in T : \A k \in T : m <= k
    BY <2>1, Least
  <2>3. m # 0
    BY <1>1, <2>2 DEF Good
  <2>4. m \in 1..Len(ups) /\ m - 1 \in 0..Len(ups) /\ Good(m - 1)
    BY <2>2, <2>3
  <2>5. ups[m] \in UpSet
    BY <2>4
  <2>6. g[m] = Updated(g[m - 1], ups[m])
    BY <1>1, <2>4
  <2>7. /\ g[m] \in Seq(LineSet) /\ Once(g[m], key)
        /\ ups[m][1] # key /\ Only(g[m - 1], key, V) => Only(g[m], key, V)
        /\ ups[m][1] = key /\ ups[m][2] \in V => Only(g[m], key, V)
    BY <2>4, <2>5, <2>6, UpdatedKeeps DEF Good
  <2>8. Named(m) => Named(m - 1) \/ ups[m][1] = key
    BY <2>4
  <2>9. ups[m][1] = key => ups[m][2] \in V
    BY <2>4 DEF Puts
  <2>10. Good(m)
    <3> HIDE DEF Named
    <3> QED BY <2>4, <2>7, <2>8, <2>9 DEF Good
  <2> QED BY <2>2, <2>10
<1>3. Good(Len(ups))
  <2> HIDE DEF Good
  <2> QED BY <1>2
<1>4. Mentions(ups, key) => Named(Len(ups))
  BY DEF Mentions
<1> QED BY <1>1, <1>3, <1>4

\* What a load finds is on a line of the file.
LEMMA TopIs ==
  ASSUME NEW lines \in Seq(LineSet)
  PROVE  /\ Top(lines) \in Seq(LineSet)
         /\ \A i \in DOMAIN Top(lines) : i \in DOMAIN lines /\ Top(lines)[i] = lines[i]
<1> DEFINE h == FirstLineOf(lines, "table")
<1>1. CASE ~\E i \in DOMAIN lines : lines[i].k = "table"
  BY <1>1 DEF Top
<1>2. CASE \E i \in DOMAIN lines : lines[i].k = "table"
  <2>1. Top(lines) = SubSeq(lines, 1, h - 1)
    BY <1>2 DEF Top, FirstAt, FirstLineOf
  <2>2. h \in DOMAIN lines
    BY <1>2, FirstLineIs
  <2> HIDE DEF h
  <2> QED BY <2>1, <2>2
<1> QED BY <1>1, <1>2

LEMMA ValueIs ==
  ASSUME NEW lines \in Seq(LineSet), NEW key
  PROVE  /\ Value(lines, key) \in Nat
         /\ \A V : Only(lines, key, V) => Value(lines, key) \in V \cup {0}
<1> DEFINE t == Top(lines)
           p == FirstLineOf(t, key)
<1>1. t \in Seq(LineSet) /\ \A i \in DOMAIN t : i \in DOMAIN lines /\ t[i] = lines[i]
  BY TopIs
<1>2. CASE ~\E i \in DOMAIN t : t[i].k = key
  <2>1. Value(lines, key) = 0
    BY <1>2 DEF Value
  <2> QED BY <2>1
<1>3. CASE \E i \in DOMAIN t : t[i].k = key
  <2>1. Value(lines, key) = t[p].v
    BY <1>3 DEF Value, FirstAt, FirstLineOf
  <2> HIDE DEF t
  <2>2. p \in DOMAIN t /\ t[p].k = key
    BY <1>1, <1>3, FirstLineIs
  <2> HIDE DEF p
  <2>3. p \in DOMAIN lines /\ t[p] = lines[p] /\ t[p] \in LineSet
    BY <1>1, <2>2
  <2>4. t[p].v \in Nat
    BY <2>3 DEF LineSet
  <2>5. \A V : Only(lines, key, V) => t[p].v \in V
    BY <2>2, <2>3 DEF Only
  <2> QED BY <2>1, <2>4, <2>5
<1> QED BY <1>2, <1>3
-----------------------------------------------------------------------------
(* What every state satisfies.                                             *)

Resting == {"wait", "done", "failed"}
Writing == {"save", "replace"}
\* Where a handler stands that uses the session of the UI.
Using == {"ask", "again", "expired", "urefresh", "leave", "switch"}
Plain == {"submit", "retry", "create", "create2", "refresh", "prefresh", "probe", "probe2", "pkey",
          "ready", "notready", "login", "gemini", "connector", "orgkey", "done", "failed"}
Pcs == Plain \cup Using \cup Writing \cup {"wait", "adopt"}

PlanSet == [kind : AuthKinds \cup {"none"}, url : Nat, org : Nat]
JobSet == [ups : Seq(UpSet), next : Pcs, else : Pcs]
ClientSet == [plan : PlanSet, pc : Pcs, url : Nat, jwt : Nat, refresh : Nat, org : Nat, key : Nat,
              buf : Seq(LineSet), job : JobSet, tries : Nat]
UISet == [up : BOOLEAN, url : Nat, jwt : Nat, refresh : Nat, org : Nat]
PastSet == [met : BOOLEAN, lost : BOOLEAN, keyless : BOOLEAN, expired : Nat, refreshed : Nat]
Issued == 1..Len(minted)

AuthTyped ==
  /\ file \in Seq(LineSet)
  /\ minted \in Seq([url : Nat, org : Nat])
  /\ live \in SUBSET Issued /\ fresh \in SUBSET Issued
  /\ ui \in UISet
  /\ mutex \in Client \cup {"free"}
  /\ cl \in [Client -> ClientSet]
  /\ past \in PastSet

\* An access token and a refresh token that are held together are of one session.
Agree(j, r) == j <= Len(minted) /\ r <= Len(minted) /\ (j = 0 \/ r = 0 \/ j = r)
FileAgrees(lines) ==
  /\ \A key \in Tokens : Once(lines, key)
  /\ \E n \in 0..Len(minted) : \A key \in Tokens : Only(lines, key, {0, n})
JobAgrees(ups) ==
  /\ Mentions(ups, "jwt") <=> Mentions(ups, "refresh_token")
  /\ \E n \in 0..Len(minted) : \A key \in Tokens : Puts(ups, key, {0, n})

\* A handler that renews the session holds the mutex until it has saved it.
Locks(c) == Is(c, "urefresh") \/ Is(c, "leave") \/ (cl[c].pc \in Writing /\ cl[c].job.next = "leave")
Uses(c) == cl[c].pc \in Using \/ (cl[c].pc \in Writing /\ cl[c].job.next = "leave")
JobOK(c) ==
  /\ JobAgrees(cl[c].job.ups)
  /\ cl[c].job.next \in {"retry", "create2", "probe2", "ready", "done", "leave", "adopt"}
  /\ cl[c].job.else \in {"failed", "notready", "done", "leave"}
  /\ cl[c].job.next = "leave" <=> cl[c].job.else = "leave"
  /\ cl[c].job.next = "adopt" => cl[c].jwt # 0
ClientOK(c) ==
  /\ Agree(cl[c].jwt, cl[c].refresh)
  /\ FileAgrees(cl[c].buf)
  /\ cl[c].pc \in Writing => JobOK(c)
  /\ Uses(c) \/ Is(c, "wait") => cl[c].refresh = 0
  /\ Uses(c) => ui.up /\ ui.jwt # 0 /\ cl[c].jwt # 0
  /\ Is(c, "expired") => cl[c].jwt \notin live
  /\ Is(c, "urefresh") => ui.jwt \notin live
  /\ Locks(c) => mutex = c
  /\ Is(c, "adopt") => cl[c].jwt # 0

\* Sessions whose access token has expired, and those of them the UI has renewed: a session is
\* renewed once, because its refresh token is taken then.
Counted ==
  \E D \in SUBSET Issued, S \in SUBSET Issued :
    /\ S \subseteq D
    /\ Cardinality(D) <= past.expired /\ past.refreshed <= Cardinality(S)
    /\ D \cap live = {} /\ fresh \subseteq live \cup D /\ S \cap fresh = {}

\* As long as nothing has overlapped and no write was lost, one client is at work at a time, and
\* the refresh token in the file is taken by the server, or a newer one is about to be written.
Renews(c) == cl[c].pc \in Writing /\ Mentions(cl[c].job.ups, "refresh_token")
ClientKeeps(c) ==
  /\ cl[c].pc \in Writing => Puts(cl[c].job.ups, "refresh_token", {0} \cup fresh)
  /\ Is(c, "replace") => cl[c].buf = file
  /\ cl[c].pc \in {"gemini", "connector"} /\ cl[c].tries < 10 => cl[c].refresh \in fresh
Clean == ~past.met /\ ~past.lost
FileKept == Only(file, "refresh_token", {0} \cup fresh)
Keeps ==
  Clean =>
    /\ \A c, d \in Client : cl[c].pc \notin Resting /\ cl[d].pc \notin Resting => c = d
    /\ \A c \in Client : ClientKeeps(c)
    /\ FileKept \/ \E c \in Client : Renews(c)

AuthInv ==
  /\ AuthTyped
  /\ FileAgrees(file) /\ Agree(ui.jwt, ui.refresh)
  /\ \A c \in Client : ClientOK(c)
  /\ Counted
  /\ Keeps

LEMMA NoFree ==
  ASSUME NEW c \in Client
  PROVE  c # "free"
BY AuthAssumption

\* Numbers already given out stay in range as more are.
Later == /\ minted' \in Seq([url : Nat, org : Nat])
         /\ Len(minted) <= Len(minted')

LEMMA LaterKeeps ==
  ASSUME AuthTyped, Later
  PROVE  /\ Len(minted) \in Nat /\ Len(minted') \in Nat
         /\ \A j, r \in Nat : Agree(j, r) => Agree(j, r)'
         /\ \A lines : FileAgrees(lines) => FileAgrees(lines)'
         /\ \A ups : JobAgrees(ups) => JobAgrees(ups)'
<1>1. Len(minted) \in Nat /\ Len(minted') \in Nat /\ Len(minted) <= Len(minted')
  BY DEF AuthTyped, Later
<1>2. \A n \in 0..Len(minted) : n \in 0..Len(minted')
  BY <1>1
<1>3. \A j, r \in Nat : Agree(j, r) => Agree(j, r)'
  BY <1>1 DEF Agree
<1>4. \A lines : FileAgrees(lines) => FileAgrees(lines)'
  BY <1>2 DEF FileAgrees
<1>5. \A ups : JobAgrees(ups) => JobAgrees(ups)'
  BY <1>2 DEF JobAgrees
<1> QED BY <1>1, <1>3, <1>4, <1>5

\* What other clients see of a step.
Spared(d) ==
  /\ cl'[d] = cl[d]
  /\ Uses(d) => ui'.up /\ ui'.jwt # 0
  /\ Locks(d) => mutex' = d /\ (Is(d, "urefresh") => ui'.jwt = ui.jwt)

LEMMA OtherKeeps ==
  ASSUME AuthTyped, Later, NEW d \in Client, ClientOK(d), Spared(d),
         live' \subseteq live \cup {New}, Agree(ui.jwt, ui.refresh)
  PROVE  ClientOK(d)'
<1>1. /\ cl[d] \in ClientSet /\ cl'[d] = cl[d] /\ cl[d].jwt \in Nat /\ cl[d].refresh \in Nat
      /\ ui.jwt \in Nat
  BY DEF AuthTyped, Spared, ClientSet, UISet
<1>2. /\ Agree(cl[d].jwt, cl[d].refresh)' /\ FileAgrees(cl[d].buf)'
      /\ JobAgrees(cl[d].job.ups) => JobAgrees(cl[d].job.ups)'
  <2>1. \A j, r \in Nat : Agree(j, r) => Agree(j, r)'
    BY LaterKeeps
  <2>2. \A lines : FileAgrees(lines) => FileAgrees(lines)'
    BY LaterKeeps
  <2>3. \A ups : JobAgrees(ups) => JobAgrees(ups)'
    BY LaterKeeps
  <2>4. Agree(cl[d].jwt, cl[d].refresh) /\ FileAgrees(cl[d].buf)
    BY DEF ClientOK
  <2>5. Agree(cl[d].jwt, cl[d].refresh)'
    BY <1>1, <2>1, <2>4 DEF Agree
  <2>6. FileAgrees(cl[d].buf)'
    BY <1>1, <2>2, <2>4 DEF FileAgrees
  <2>7. JobAgrees(cl[d].job.ups) => JobAgrees(cl[d].job.ups)'
    BY <1>1, <2>3 DEF JobAgrees
  <2> QED BY <2>5, <2>6, <2>7
<1>3. New \notin {cl[d].jwt, ui.jwt}
  <2>1. cl[d].jwt <= Len(minted) /\ ui.jwt <= Len(minted) /\ Len(minted) \in Nat
    BY LaterKeeps DEF ClientOK, Agree
  <2> QED BY <1>1, <2>1 DEF New
<1>4. /\ Uses(d)' = Uses(d) /\ Locks(d)' = Locks(d)
      /\ \A pc : Is(d, pc)' = Is(d, pc)
  BY <1>1 DEF Uses, Locks, Is
<1>5. cl[d].pc \in Writing => JobOK(d)'
  BY <1>1, <1>2 DEF ClientOK, JobOK
<1>6. Is(d, "expired") => cl[d].jwt \notin live'
  BY <1>3 DEF ClientOK
<1>7. Is(d, "urefresh") => ui'.jwt \notin live'
  BY <1>3 DEF ClientOK, Spared, Locks
<1>8. Uses(d) => ui'.up /\ ui'.jwt # 0 /\ cl[d].jwt # 0
  BY DEF ClientOK, Spared
<1>9. Locks(d) => mutex' = d
  BY DEF Spared
<1>10. Uses(d) \/ Is(d, "wait") => cl[d].refresh = 0
  BY DEF ClientOK
<1>11. Is(d, "adopt") => cl[d].jwt # 0
  BY DEF ClientOK
<1> QED BY <1>1, <1>2, <1>4, <1>5, <1>6, <1>7, <1>8, <1>9, <1>10, <1>11 DEF ClientOK

\* The server forgets no session and revives none.
Grows ==
  /\ Later
  /\ live' \in SUBSET Issued' /\ fresh' \in SUBSET Issued'
  /\ live \subseteq live' /\ live' \subseteq live \cup {New}
  /\ fresh' \subseteq fresh \cup {New} /\ (New \in fresh' => New \in live')

LEMMA CountKeeps ==
  ASSUME AuthTyped, Counted, Grows, past'.expired = past.expired, past'.refreshed = past.refreshed
  PROVE  Counted'
<1>1. PICK D \in SUBSET Issued, S \in SUBSET Issued :
        /\ S \subseteq D
        /\ Cardinality(D) <= past.expired /\ past.refreshed <= Cardinality(S)
        /\ D \cap live = {} /\ fresh \subseteq live \cup D /\ S \cap fresh = {}
  BY DEF Counted
<1>2. Len(minted) \in Nat /\ Len(minted') \in Nat /\ Len(minted) <= Len(minted')
  BY DEF AuthTyped, Grows, Later
<1>3. D \in SUBSET Issued' /\ S \in SUBSET Issued' /\ New \notin D
  <2>1. \A n \in Issued : n \in Issued' /\ n # New
    BY <1>2 DEF Issued, New
  <2> QED BY <1>1, <2>1
<1>4. D \cap live' = {} /\ fresh' \subseteq live' \cup D /\ S \cap fresh' = {}
  BY <1>1, <1>3 DEF Grows
<1>5. Cardinality(D) <= past'.expired /\ past'.refreshed <= Cardinality(S)
  BY <1>1
<1> QED BY <1>1, <1>3, <1>4, <1>5 DEF Counted

\* One client moves; what it moves to is shown case by case.
Moved(c) == cl' \in [Client -> ClientSet] /\ \A d \in Client \ {c} : cl'[d] = cl[d]

LEMMA MoveKeeps ==
  ASSUME AuthInv, NEW c \in Client, Moved(c), Grows,
         cl[c].pc \notin Writing, UNCHANGED file,
         ui' \in UISet, Agree(ui.jwt, ui.refresh)', mutex' \in Client \cup {"free"},
         \A d \in Client \ {c} : Spared(d),
         past' \in PastSet, past'.lost = past.lost, past.met => past'.met,
         cl[c].pc \notin Resting \/ (\A d \in Client : cl[d].pc \in Resting) \/ past'.met,
         Counted',
         ClientOK(c)', Clean' => ClientKeeps(c)', fresh \subseteq fresh' \/ Renews(c)'
  PROVE  AuthInv'
<1>1. AuthTyped'
  BY DEF AuthInv, AuthTyped, Moved, Grows, Later
<1>2. FileAgrees(file)'
  <2>1. \A lines : FileAgrees(lines) => FileAgrees(lines)'
    BY LaterKeeps DEF AuthInv, Grows
  <2>2. FileAgrees(file)
    BY DEF AuthInv
  <2> QED BY <2>1, <2>2 DEF FileAgrees
<1>3. ASSUME NEW d \in Client PROVE ClientOK(d)'
  <2>1. CASE d = c
    BY <2>1
  <2>2. CASE d # c
    <3>1. Spared(d)
      BY <2>2
    <3>2. AuthTyped /\ ClientOK(d) /\ Agree(ui.jwt, ui.refresh)
      BY DEF AuthInv
    <3>3. Later /\ live' \subseteq live \cup {New}
      BY DEF Grows
    <3> QED BY <3>1, <3>2, <3>3, OtherKeeps
  <2> QED BY <2>1, <2>2
<1>4. Keeps'
  <2> SUFFICES ASSUME Clean'
               PROVE  /\ \A d, e \in Client : cl'[d].pc \notin Resting /\ cl'[e].pc \notin Resting => d = e
                      /\ \A d \in Client : ClientKeeps(d)'
                      /\ FileKept' \/ \E d \in Client : Renews(d)'
    BY DEF Keeps
  <2>1. /\ \A d, e \in Client : cl[d].pc \notin Resting /\ cl[e].pc \notin Resting => d = e
        /\ \A d \in Client : ClientKeeps(d)
        /\ FileKept \/ \E d \in Client : Renews(d)
    BY DEF AuthInv, Keeps, Clean
  <2>2. \A d \in Client \ {c} : cl[d].pc \in Resting /\ cl'[d] = cl[d]
    BY <2>1 DEF Moved, Clean
  <2>3. \A d, e \in Client : cl'[d].pc \notin Resting /\ cl'[e].pc \notin Resting => d = e
    BY <2>2
  <2>4. \A d \in Client : ClientKeeps(d)'
    <3> SUFFICES ASSUME NEW d \in Client, d # c PROVE ClientKeeps(d)'
      OBVIOUS
    <3>1. cl'[d].pc \in Resting
      BY <2>2
    <3>2. cl'[d].pc \notin Writing /\ cl'[d].pc \notin {"replace", "gemini", "connector"}
      BY <3>1 DEF Resting, Writing
    <3> QED BY <3>2 DEF ClientKeeps, Is
  <2>5. FileKept
    <3>1. \A d \in Client : cl[d].pc \notin Writing
      BY <2>2 DEF Resting, Writing
    <3> QED BY <2>1, <3>1 DEF Renews
  <2>6. fresh \subseteq fresh' => FileKept'
    BY <2>5 DEF FileKept, Only
  <2> QED BY <2>3, <2>4, <2>6
<1> QED BY <1>1, <1>2, <1>3, <1>4 DEF AuthInv

\* A step of a client that leaves the file, the UI and the mutex alone.
Calm(c) ==
  /\ UNCHANGED <<file, ui, mutex>>
  /\ past' \in PastSet /\ past'.lost = past.lost /\ (past.met => past'.met)
  /\ past'.expired = past.expired /\ past'.refreshed = past.refreshed
  /\ cl[c].pc \notin Resting \/ (\A d \in Client : cl[d].pc \in Resting) \/ past'.met
  /\ cl[c].pc \notin Writing

LEMMA CalmKeeps ==
  ASSUME AuthInv, NEW c \in Client, Moved(c), Calm(c), Grows,
         ClientOK(c)', Clean' => ClientKeeps(c)', fresh \subseteq fresh' \/ Renews(c)'
  PROVE  AuthInv'
<1>1. ui' \in UISet /\ mutex' \in Client \cup {"free"}
  BY DEF AuthInv, AuthTyped, Calm
<1>2. Agree(ui.jwt, ui.refresh)'
  <2>1. \A j, r \in Nat : Agree(j, r) => Agree(j, r)'
    BY LaterKeeps DEF AuthInv, Grows
  <2>2. Agree(ui.jwt, ui.refresh) /\ ui.jwt \in Nat /\ ui.refresh \in Nat
    BY DEF AuthInv, AuthTyped, UISet
  <2> QED BY <2>1, <2>2 DEF Agree, Calm
<1>3. ASSUME NEW d \in Client \ {c} PROVE Spared(d)
  <2>1. ClientOK(d)
    BY DEF AuthInv
  <2> QED BY <2>1 DEF Moved, Calm, ClientOK, Spared
<1>4. Counted'
  BY CountKeeps DEF AuthInv, Calm
<1> QED BY <1>1, <1>2, <1>3, <1>4, MoveKeeps DEF Calm

\* It moves to where nothing is asked of it but that its tokens agree.
LEMMA PlainKeeps ==
  ASSUME AuthInv, NEW c \in Client, Moved(c), Calm(c), Grows, fresh \subseteq fresh',
         cl'[c].pc \in Plain, cl'[c].buf = cl[c].buf, Agree(cl[c].jwt, cl[c].refresh)',
         Clean' /\ cl'[c].pc \in {"gemini", "connector"} /\ cl'[c].tries < 10 => cl'[c].refresh \in fresh'
  PROVE  AuthInv'
<1>1. /\ cl'[c].pc \notin Writing /\ cl'[c].pc \notin Using
      /\ \A pc \in {"wait", "replace", "expired", "urefresh", "leave", "adopt"} : cl'[c].pc # pc
  BY DEF Plain, Writing, Using
<1>2. FileAgrees(cl[c].buf)'
  <2>1. \A lines : FileAgrees(lines) => FileAgrees(lines)'
    BY LaterKeeps DEF AuthInv, Grows
  <2>2. FileAgrees(cl[c].buf)
    BY DEF AuthInv, ClientOK
  <2> QED BY <2>1, <2>2 DEF FileAgrees
<1>3. ClientOK(c)'
  BY <1>1, <1>2 DEF ClientOK, Uses, Locks, Is
<1>4. Clean' => ClientKeeps(c)'
  BY <1>1 DEF ClientKeeps, Is
<1> QED BY <1>3, <1>4, CalmKeeps

\* It has something to save.
LEMMA SavesKeeps ==
  ASSUME AuthInv, NEW c \in Client, Moved(c), Calm(c), Grows,
         cl'[c].pc = "save", cl'[c].buf = cl[c].buf, Agree(cl[c].jwt, cl[c].refresh)',
         JobOK(c)', cl'[c].job.next # "leave",
         Clean' => Puts(cl'[c].job.ups, "refresh_token", {0} \cup fresh'),
         fresh \subseteq fresh' \/ Mentions(cl'[c].job.ups, "refresh_token")
  PROVE  AuthInv'
<1>1. /\ cl'[c].pc \in Writing /\ cl'[c].pc \notin Using
      /\ \A pc \in {"wait", "replace", "expired", "urefresh", "leave", "adopt", "gemini", "connector"} :
           cl'[c].pc # pc
  BY DEF Writing, Using
<1>2. FileAgrees(cl[c].buf)'
  <2>1. \A lines : FileAgrees(lines) => FileAgrees(lines)'
    BY LaterKeeps DEF AuthInv, Grows
  <2>2. FileAgrees(cl[c].buf)
    BY DEF AuthInv, ClientOK
  <2> QED BY <2>1, <2>2 DEF FileAgrees
<1>3. ClientOK(c)'
  BY <1>1, <1>2 DEF ClientOK, Uses, Locks, Is
<1>4. Clean' => ClientKeeps(c)'
  BY <1>1 DEF ClientKeeps, Is
<1>5. fresh \subseteq fresh' \/ Renews(c)'
  BY <1>1 DEF Renews
<1> QED BY <1>3, <1>4, <1>5, CalmKeeps

\* It goes on, and nothing else about it changes.
Same(c) ==
  /\ cl'[c].plan = cl[c].plan /\ cl'[c].url = cl[c].url /\ cl'[c].jwt = cl[c].jwt
  /\ cl'[c].refresh = cl[c].refresh /\ cl'[c].org = cl[c].org /\ cl'[c].key = cl[c].key
  /\ cl'[c].buf = cl[c].buf /\ cl'[c].job = cl[c].job /\ cl'[c].tries = cl[c].tries

LEMMA ToMoves ==
  ASSUME AuthTyped, NEW c \in Client, NEW pc \in Pcs, To(c, pc)
  PROVE  Moved(c) /\ Same(c) /\ cl'[c].pc = pc
<1>1. cl[c] \in ClientSet
  BY DEF AuthTyped
<1>2. [cl[c] EXCEPT !.pc = pc] \in ClientSet
  BY <1>1 DEF ClientSet
<1>3. cl' = [cl EXCEPT ![c] = [cl[c] EXCEPT !.pc = pc]]
  BY DEF To
<1>4. Moved(c) /\ cl'[c] = [cl[c] EXCEPT !.pc = pc]
  BY <1>2, <1>3 DEF AuthTyped, Moved
<1> QED BY <1>1, <1>4 DEF Same, ClientSet

\* The server stands still.
LEMMA ServerRests ==
  ASSUME AuthTyped, UNCHANGED <<minted, live, fresh>>
  PROVE  Grows
<1>1. Len(minted) \in Nat
  BY DEF AuthTyped
<1>2. New \notin fresh
  BY <1>1 DEF AuthTyped, New, Issued
<1> QED BY <1>1, <1>2 DEF AuthTyped, Grows, Later, Issued

\* It gives out one more key, or a session.
LEMMA KeyMinted ==
  ASSUME AuthTyped, NEW url \in Nat, NEW org \in Nat, Mint(<<[url |-> url, org |-> org]>>),
         UNCHANGED <<live, fresh>>
  PROVE  Grows /\ New \in Nat \ {0} /\ Len(minted') = New
<1> DEFINE m == [url |-> url, org |-> org]
<1>1. m \in [url : Nat, org : Nat]
  OBVIOUS
<1> HIDE DEF m
<1>2. minted' = minted \o <<m>>
  BY DEF Mint, m
<1>3. minted \in Seq([url : Nat, org : Nat]) /\ Len(minted) \in Nat
  BY DEF AuthTyped
<1>4. minted' \in Seq([url : Nat, org : Nat]) /\ Len(minted') = Len(minted) + 1
  BY <1>1, <1>2, <1>3
<1>5. New = Len(minted) + 1 /\ New \notin fresh /\ New \notin live
  BY <1>3 DEF New, AuthTyped, Issued
<1>6. live \subseteq Issued' /\ fresh \subseteq Issued'
  BY <1>3, <1>4 DEF AuthTyped, Issued
<1> QED BY <1>3, <1>4, <1>5, <1>6 DEF Grows, Later

\* A client that rests is not at work.
LEMMA CalmStep ==
  ASSUME AuthTyped, NEW c \in Client, cl[c].pc \notin Resting, cl[c].pc \notin Writing,
         UNCHANGED <<file, ui, mutex, past>>
  PROVE  Calm(c)
BY DEF AuthTyped, Calm

LEMMA CalmStart ==
  ASSUME AuthTyped, NEW c \in Client, Is(c, "wait"), Began(c), UNCHANGED <<file, ui, mutex>>
  PROVE  Calm(c)
<1>1. past \in PastSet
  BY DEF AuthTyped
<1> DEFINE m == past.met \/ Active # {} \/ (ui.up /\ KindOf(c) \notin Handlers)
<1>2. past' = [past EXCEPT !.met = m] /\ m \in BOOLEAN
  <2>1. past.met \in BOOLEAN /\ ui.up \in BOOLEAN
    BY DEF AuthTyped, PastSet, UISet
  <2> QED BY <2>1 DEF Began
<1>3. past.met => m
  OBVIOUS
<1>4. ~m => \A d \in Client : cl[d].pc \in Resting
  BY DEF Active, Resting
<1> HIDE DEF m
<1>5. /\ past' \in PastSet /\ past'.lost = past.lost /\ past'.met = m
      /\ past'.expired = past.expired /\ past'.refreshed = past.refreshed
  BY <1>1, <1>2 DEF PastSet
<1>6. cl[c].pc \notin Writing
  BY DEF Is, Writing
<1> QED BY <1>3, <1>4, <1>5, <1>6 DEF Calm

LEMMA AgreeLater ==
  ASSUME AuthInv, Later, NEW c \in Client,
         cl'[c].jwt = cl[c].jwt, cl'[c].refresh = cl[c].refresh
  PROVE  Agree(cl[c].jwt, cl[c].refresh)'
<1>1. \A j, r \in Nat : Agree(j, r) => Agree(j, r)'
  BY LaterKeeps DEF AuthInv
<1>2. Agree(cl[c].jwt, cl[c].refresh) /\ cl[c].jwt \in Nat /\ cl[c].refresh \in Nat
  BY DEF AuthInv, AuthTyped, ClientOK, ClientSet
<1> QED BY <1>1, <1>2 DEF Agree

\* What a client loads from the file agrees.
LEMMA LoadAgrees ==
  ASSUME AuthInv
  PROVE  /\ Agree(Value(file, "jwt"), Value(file, "refresh_token"))
         /\ \A key : Value(file, key) \in Nat
         /\ APIURL(file) \in Nat
<1>1. file \in Seq(LineSet) /\ FileAgrees(file) /\ Len(minted) \in Nat
  BY DEF AuthInv, AuthTyped
<1>2. PICK n \in 0..Len(minted) : \A key \in Tokens : Only(file, key, {0, n})
  BY <1>1 DEF FileAgrees
<1>3. \A key : Value(file, key) \in Nat /\ \A V : Only(file, key, V) => Value(file, key) \in V \cup {0}
  BY <1>1, ValueIs
<1>4. Value(file, "jwt") \in {0, n} /\ Value(file, "refresh_token") \in {0, n}
  BY <1>2, <1>3 DEF Tokens
<1>5. Agree(Value(file, "jwt"), Value(file, "refresh_token"))
  BY <1>1, <1>4 DEF Agree
<1> QED BY <1>3, <1>5 DEF APIURL, Cloud

LEMMA StaysClean ==
  ASSUME AuthInv, NEW c \in Client, past.lost => past'.lost, past.met => past'.met, Clean'
  PROVE  ClientKeeps(c)
BY DEF AuthInv, Keeps, Clean

\* It goes on to pc.
LEMMA GoesOn ==
  ASSUME AuthInv, NEW c \in Client, NEW pc \in Plain, To(c, pc), Calm(c), Grows, fresh \subseteq fresh',
         pc \in {"gemini", "connector"} => cl[c].pc \in {"gemini", "connector"}
  PROVE  AuthInv'
<1>1. AuthTyped /\ pc \in Pcs /\ Later
  BY DEF AuthInv, Pcs, Grows
<1>2. Moved(c) /\ Same(c) /\ cl'[c].pc = pc
  BY <1>1, ToMoves
<1>3. Agree(cl[c].jwt, cl[c].refresh)'
  BY <1>1, <1>2, AgreeLater DEF Same
<1>4. Clean' /\ pc \in {"gemini", "connector"} /\ cl'[c].tries < 10 => cl'[c].refresh \in fresh'
  BY <1>2, StaysClean DEF ClientKeeps, Same, Calm
<1> QED BY <1>2, <1>3, <1>4, PlainKeeps DEF Same

\* It goes on to pc without the server.
LEMMA GoesOnAlone ==
  ASSUME AuthInv, NEW c \in Client, NEW pc \in Plain, To(c, pc),
         cl[c].pc \notin Resting, cl[c].pc \notin Writing,
         UNCHANGED <<file, ui, mutex, past, minted, live, fresh>>,
         pc \in {"gemini", "connector"} => cl[c].pc \in {"gemini", "connector"}
  PROVE  AuthInv'
<1>1. AuthTyped
  BY DEF AuthInv
<1>2. Calm(c) /\ Grows
  BY <1>1, CalmStep, ServerRests
<1> QED BY <1>2, GoesOn

-----------------------------------------------------------------------------
(* The steps of the commands.                                              *)

LEMMA BeginReviewKeeps ==
  ASSUME AuthInv, NEW c \in Client, BeginReview(c)
  PROVE  AuthInv'
<1> DEFINE pc == IF Parses(file) /\ Value(file, "api_key") # 0 THEN "submit" ELSE "failed"
           r == [cl[c] EXCEPT !.pc = pc, !.url = APIURL(file), !.jwt = Value(file, "jwt"),
                              !.refresh = Value(file, "refresh_token"), !.org = Value(file, "org_id"),
                              !.key = Value(file, "api_key")]
<1>1. AuthTyped /\ cl[c] \in ClientSet
  BY DEF AuthInv, AuthTyped
<1>2. pc \in Plain /\ pc \in Pcs /\ pc \notin {"gemini", "connector"}
  BY DEF Plain, Pcs
<1>3. /\ Agree(Value(file, "jwt"), Value(file, "refresh_token"))
      /\ \A key : Value(file, key) \in Nat
      /\ APIURL(file) \in Nat
  BY LoadAgrees
<1> HIDE DEF pc
<1>4. /\ r \in ClientSet /\ r.pc = pc /\ r.jwt = Value(file, "jwt")
      /\ r.refresh = Value(file, "refresh_token") /\ r.buf = cl[c].buf
  BY <1>1, <1>2, <1>3 DEF ClientSet
<1>5. cl' = [cl EXCEPT ![c] = r]
  BY DEF BeginReview, pc
<1> HIDE DEF r
<1>6. Moved(c) /\ cl'[c] = r
  BY <1>1, <1>4, <1>5 DEF AuthTyped, Moved
<1>7. Calm(c) /\ Grows /\ UNCHANGED fresh
  <2>1. UNCHANGED <<file, ui, mutex, minted, live, fresh>> /\ Is(c, "wait") /\ Began(c)
    BY DEF BeginReview, server
  <2> QED BY <1>1, <2>1, CalmStart, ServerRests
<1>8. Agree(cl[c].jwt, cl[c].refresh)'
  <2>1. minted' = minted
    BY DEF BeginReview, server
  <2> QED BY <1>3, <1>4, <1>6, <2>1 DEF Agree
<1> QED BY <1>2, <1>4, <1>6, <1>7, <1>8, PlainKeeps

LEMMA SubmitReviewKeeps ==
  ASSUME AuthInv, NEW c \in Client, SubmitReview(c)
  PROVE  AuthInv'
<1>1. PICK pc \in {"done", "create", "failed"} : To(c, pc)
  BY DEF SubmitReview
<1>2. /\ cl[c].pc \notin Resting /\ cl[c].pc \notin Writing
      /\ UNCHANGED <<file, ui, mutex, past, minted, live, fresh>>
  BY DEF SubmitReview, Resting, Writing, server
<1>3. pc \in Plain /\ pc \notin {"gemini", "connector"}
  BY DEF Plain
<1> QED BY <1>1, <1>2, <1>3, GoesOnAlone

LEMMA ProbeSessionKeeps ==
  ASSUME AuthInv, NEW c \in Client, ProbeSession(c)
  PROVE  AuthInv'
<1>1. PICK pc \in {"pkey", "ready", "prefresh", "notready"} : To(c, pc)
  BY DEF ProbeSession
<1>2. /\ cl[c].pc \notin Resting /\ cl[c].pc \notin Writing
      /\ UNCHANGED <<file, ui, mutex, past, minted, live, fresh>>
  BY DEF ProbeSession, Resting, Writing, server
<1>3. pc \in Plain /\ pc \notin {"gemini", "connector"}
  BY DEF Plain
<1> QED BY <1>1, <1>2, <1>3, GoesOnAlone

LEMMA EnsureEndsKeeps ==
  ASSUME AuthInv, NEW c \in Client, EnsureEnds(c)
  PROVE  AuthInv'
<1>1. PICK pc \in {"done", "failed"} : To(c, pc)
  BY DEF EnsureEnds
<1>2. /\ cl[c].pc \notin Resting /\ cl[c].pc \notin Writing
      /\ UNCHANGED <<file, ui, mutex, past, minted, live, fresh>>
  BY DEF EnsureEnds, Resting, Writing, server
<1>3. pc \in Plain /\ pc \notin {"gemini", "connector"}
  BY DEF Plain
<1> QED BY <1>1, <1>2, <1>3, GoesOnAlone

LEMMA BeginPreflightKeeps ==
  ASSUME AuthInv, NEW c \in Client, BeginPreflight(c)
  PROVE  AuthInv'
<1>0. AuthTyped /\ cl[c] \in ClientSet
  BY DEF AuthInv, AuthTyped
<1>1. Calm(c) /\ Grows /\ UNCHANGED <<minted, fresh>>
  <2>1. UNCHANGED <<file, ui, mutex, minted, live, fresh>> /\ Is(c, "wait") /\ Began(c)
    BY DEF BeginPreflight, server
  <2> QED BY <1>0, <2>1, CalmStart, ServerRests
<1>2. CASE To(c, "failed")
  <2>1. "failed" \in Plain /\ "failed" \notin {"gemini", "connector"}
    BY DEF Plain
  <2> QED BY <1>1, <1>2, <2>1, GoesOn
<1>3. ASSUME NEW url \in IF KindOf(c) = "ensure" THEN {cl[c].plan.url} ELSE SetupURLs(c),
             NEW pc \in {"probe", "notready"},
             cl' = [cl EXCEPT ![c].pc = pc,
                              ![c].url = url, ![c].jwt = Value(file, "jwt"),
                              ![c].refresh = Value(file, "refresh_token"),
                              ![c].org = Value(file, "org_id"), ![c].key = Value(file, "api_key")]
      PROVE  AuthInv'
  <2> DEFINE r == [cl[c] EXCEPT !.pc = pc, !.url = url, !.jwt = Value(file, "jwt"),
                                !.refresh = Value(file, "refresh_token"), !.org = Value(file, "org_id"),
                                !.key = Value(file, "api_key")]
  <2>1. pc \in Plain /\ pc \in Pcs /\ pc \notin {"gemini", "connector"}
    BY DEF Plain, Pcs
  <2>2. /\ Agree(Value(file, "jwt"), Value(file, "refresh_token"))
        /\ \A key : Value(file, key) \in Nat
        /\ APIURL(file) \in Nat
    BY LoadAgrees
  <2>3. url \in Nat
    <3>1. cl[c].plan.kind \in {"ensure", "setup"} /\ cl[c].plan \in PlanSet
      BY <1>0 DEF BeginPreflight, KindOf, ClientSet
    <3>2. cl[c].plan.url \in Nat
      BY <3>1 DEF PlanSet
    <3> QED BY <1>3, <2>2, <3>2 DEF SetupURLs
  <2>4. /\ r \in ClientSet /\ r.pc = pc /\ r.jwt = Value(file, "jwt")
        /\ r.refresh = Value(file, "refresh_token") /\ r.buf = cl[c].buf
    BY <1>0, <2>1, <2>2, <2>3 DEF ClientSet
  <2>5. cl' = [cl EXCEPT ![c] = r]
    BY <1>3
  <2> HIDE DEF r
  <2>6. Moved(c) /\ cl'[c] = r
    BY <1>0, <2>4, <2>5 DEF AuthTyped, Moved
  <2>7. Agree(cl[c].jwt, cl[c].refresh)'
    BY <1>1, <2>2, <2>4, <2>6 DEF Agree
  <2> QED BY <1>1, <2>1, <2>4, <2>6, <2>7, PlainKeeps
<1> QED BY <1>2, <1>3 DEF BeginPreflight

LEMMA SetupChoosesKeeps ==
  ASSUME AuthInv, NEW c \in Client, SetupChooses(c)
  PROVE  AuthInv'
<1>0. AuthTyped /\ cl[c] \in ClientSet
  BY DEF AuthInv, AuthTyped
<1>1. PICK pc \in {"login", "done", "gemini"}, n \in {0, 10} :
        /\ cl' = [cl EXCEPT ![c].pc = pc, ![c].tries = n]
        /\ pc = "gemini" => n = 10
  BY DEF SetupChooses
<1> DEFINE r == [cl[c] EXCEPT !.pc = pc, !.tries = n]
<1>2. pc \in Plain /\ pc \in Pcs /\ n \in Nat
  BY DEF Plain, Pcs
<1>3. /\ r \in ClientSet /\ r.pc = pc /\ r.jwt = cl[c].jwt /\ r.tries = n
      /\ r.refresh = cl[c].refresh /\ r.buf = cl[c].buf
  <2>1. r \in ClientSet
    BY <1>0, <1>2 DEF ClientSet
  <2>2. /\ r.pc = pc /\ r.jwt = cl[c].jwt /\ r.tries = n
        /\ r.refresh = cl[c].refresh /\ r.buf = cl[c].buf
    BY <1>0 DEF ClientSet
  <2> QED BY <2>1, <2>2
<1>4. cl' = [cl EXCEPT ![c] = r]
  BY <1>1
<1> HIDE DEF r
<1>5. Moved(c) /\ cl'[c] = r
  BY <1>0, <1>3, <1>4 DEF AuthTyped, Moved
<1>6. Calm(c) /\ Grows /\ Later /\ UNCHANGED fresh
  <2>1. /\ UNCHANGED <<file, ui, mutex, past, minted, live, fresh>>
        /\ cl[c].pc \notin Resting /\ cl[c].pc \notin Writing
    BY DEF SetupChooses, server, Resting, Writing
  <2> QED BY <1>0, <2>1, CalmStep, ServerRests DEF Grows
<1>7. Agree(cl[c].jwt, cl[c].refresh)'
  BY <1>3, <1>5, <1>6, AgreeLater
<1>8. ~(pc \in {"gemini", "connector"} /\ n < 10)
  BY <1>1
<1> QED BY <1>2, <1>3, <1>5, <1>6, <1>7, <1>8, PlainKeeps

LEMMA GeminiKeeps ==
  ASSUME AuthInv, NEW c \in Client, Gemini(c)
  PROVE  AuthInv'
<1>0. AuthTyped /\ cl[c] \in ClientSet
  BY DEF AuthInv, AuthTyped
<1>1. /\ UNCHANGED <<file, ui, mutex, past, minted, live, fresh>>
      /\ cl[c].pc = "gemini" /\ cl[c].pc \notin Resting /\ cl[c].pc \notin Writing
  BY DEF Gemini, server, Is, Resting, Writing
<1>2. ASSUME NEW pc \in {"connector", "failed"}, To(c, pc) PROVE AuthInv'
  <2>1. pc \in Plain
    BY DEF Plain
  <2> QED BY <1>1, <1>2, <2>1, GoesOnAlone
<1>3. ASSUME NEW pc \in {"failed", "gemini"}, NEW n, n = cl[c].tries + 1,
             cl' = [cl EXCEPT ![c].tries = n, ![c].pc = pc]
      PROVE  AuthInv'
  <2> DEFINE r == [cl[c] EXCEPT !.tries = n, !.pc = pc]
  <2>1. pc \in Plain /\ pc \in Pcs /\ n \in Nat
    BY <1>0, <1>3 DEF Plain, Pcs, ClientSet
  <2>2. /\ r \in ClientSet /\ r.pc = pc /\ r.jwt = cl[c].jwt /\ r.tries = n
        /\ r.refresh = cl[c].refresh /\ r.buf = cl[c].buf
    <3>1. r \in ClientSet
      BY <1>0, <2>1 DEF ClientSet
    <3>2. /\ r.pc = pc /\ r.jwt = cl[c].jwt /\ r.tries = n
          /\ r.refresh = cl[c].refresh /\ r.buf = cl[c].buf
      BY <1>0 DEF ClientSet
    <3> QED BY <3>1, <3>2
  <2>3. cl' = [cl EXCEPT ![c] = r]
    BY <1>3
  <2> HIDE DEF r
  <2>4. Moved(c) /\ cl'[c] = r
    BY <1>0, <2>2, <2>3 DEF AuthTyped, Moved
  <2>5. Calm(c) /\ Grows /\ Later
    BY <1>0, <1>1, CalmStep, ServerRests DEF Grows
  <2>6. Agree(cl[c].jwt, cl[c].refresh)'
    BY <2>2, <2>4, <2>5, AgreeLater
  <2>7. Clean' /\ n < 10 => r.refresh \in fresh'
    <3>1. n < 10 => cl[c].tries < 10
      BY <1>0, <1>3 DEF ClientSet
    <3>2. Clean' => ClientKeeps(c)
      BY <1>1, StaysClean
    <3> QED BY <1>1, <2>2, <3>1, <3>2 DEF ClientKeeps
  <2> QED BY <1>1, <2>1, <2>2, <2>4, <2>5, <2>6, <2>7, PlainKeeps
<1>4. QED
  BY <1>2, <1>3 DEF Gemini

\* Updates without a token, and updates of both tokens.
LEMMA NoTokenPut ==
  ASSUME AuthTyped, NEW ups, \A i \in DOMAIN ups : ups[i][1] \notin Tokens
  PROVE  JobAgrees(ups) /\ \A V : Puts(ups, "refresh_token", V)
<1>1. 0 \in 0..Len(minted)
  BY DEF AuthTyped
<1>2. \A key \in Tokens : ~Mentions(ups, key) /\ \A V : Puts(ups, key, V)
  BY DEF Mentions, Puts
<1>3. "jwt" \in Tokens /\ "refresh_token" \in Tokens
  BY DEF Tokens
<1> QED BY <1>1, <1>2, <1>3 DEF JobAgrees

LEMMA OneUpdate ==
  ASSUME NEW key \in LineKeys \cup {"connectors"}, NEW n \in Nat
  PROVE  /\ <<<<key, n>>>> \in Seq(UpSet)
         /\ \A i \in DOMAIN <<<<key, n>>>> : <<<<key, n>>>>[i] = <<key, n>>
<1> DEFINE u == <<key, n>>
           s == <<u>>
<1>1. u \in UpSet
  BY DEF UpSet
<1> HIDE DEF u
<1>2. s \in Seq(UpSet) /\ Len(s) = 1 /\ s[1] = u
  BY <1>1
<1> HIDE DEF s
<1>3. \A i \in DOMAIN s : s[i] = u
  BY <1>2
<1> QED BY <1>2, <1>3 DEF s, u

LEMMA JoinUpdates ==
  ASSUME NEW s \in Seq(UpSet), NEW t \in Seq(UpSet), NEW P,
         \A i \in DOMAIN s : s[i] \in P, \A i \in DOMAIN t : t[i] \in P
  PROVE  /\ s \o t \in Seq(UpSet) /\ \A i \in DOMAIN (s \o t) : (s \o t)[i] \in P
         /\ \A key : Mentions(s \o t, key) <=> Mentions(s, key) \/ Mentions(t, key)
<1> DEFINE st == s \o t
<1>1. st \in Seq(UpSet) /\ Len(st) = Len(s) + Len(t) /\ Len(s) \in Nat /\ Len(t) \in Nat
  OBVIOUS
<1>2. \A i \in 1..Len(s) : st[i] = s[i] /\ i \in DOMAIN st
  BY <1>1
<1>3. \A i \in 1..Len(t) : st[i + Len(s)] = t[i] /\ i + Len(s) \in DOMAIN st
  BY <1>1
<1>4. \A i \in DOMAIN st : i \in 1..Len(s) \/ (i - Len(s) \in 1..Len(t) /\ (i - Len(s)) + Len(s) = i)
  BY <1>1
<1>5. DOMAIN s = 1..Len(s) /\ DOMAIN t = 1..Len(t)
  OBVIOUS
<1> HIDE DEF st
<1>6. \A i \in DOMAIN st : st[i] \in P
  <2> SUFFICES ASSUME NEW i \in DOMAIN st PROVE st[i] \in P
    OBVIOUS
  <2>1. CASE i \in 1..Len(s)
    BY <1>2, <1>5, <2>1
  <2>2. CASE i - Len(s) \in 1..Len(t) /\ (i - Len(s)) + Len(s) = i
    <3>1. st[i] = t[i - Len(s)]
      BY <1>3, <2>2
    <3> QED BY <1>5, <2>2, <3>1
  <2> QED BY <1>4, <2>1, <2>2
<1>7. ASSUME NEW key PROVE Mentions(st, key) <=> Mentions(s, key) \/ Mentions(t, key)
  <2>1. ASSUME Mentions(s, key) PROVE Mentions(st, key)
    BY <1>2, <1>5, <2>1 DEF Mentions
  <2>2. ASSUME Mentions(t, key) PROVE Mentions(st, key)
    <3>1. PICK i \in 1..Len(t) : t[i][1] = key
      BY <1>5, <2>2 DEF Mentions
    <3>2. st[i + Len(s)][1] = key /\ i + Len(s) \in DOMAIN st
      BY <1>3, <3>1
    <3> QED BY <3>2 DEF Mentions
  <2>3. ASSUME Mentions(st, key) PROVE Mentions(s, key) \/ Mentions(t, key)
    <3>1. PICK i \in DOMAIN st : st[i][1] = key
      BY <2>3 DEF Mentions
    <3>2. CASE i \in 1..Len(s)
      BY <1>2, <1>5, <3>1, <3>2 DEF Mentions
    <3>3. CASE i - Len(s) \in 1..Len(t) /\ (i - Len(s)) + Len(s) = i
      <4>1. t[i - Len(s)][1] = key
        BY <1>3, <3>1, <3>3
      <4> QED BY <1>5, <3>3, <4>1 DEF Mentions
    <3> QED BY <1>4, <3>2, <3>3
  <2> QED BY <2>1, <2>2, <2>3
<1> QED BY <1>1, <1>6, <1>7 DEF st

LEMMA TwoUpdates ==
  ASSUME NEW k1 \in LineKeys, NEW k2 \in LineKeys, NEW n1 \in Nat, NEW n2 \in Nat
  PROVE  /\ <<<<k1, n1>>, <<k2, n2>>>> \in Seq(UpSet)
         /\ \A i \in DOMAIN <<<<k1, n1>>, <<k2, n2>>>> :
              <<<<k1, n1>>, <<k2, n2>>>>[i] \in {<<k1, n1>>, <<k2, n2>>}
         /\ Mentions(<<<<k1, n1>>, <<k2, n2>>>>, k1) /\ Mentions(<<<<k1, n1>>, <<k2, n2>>>>, k2)
<1> DEFINE u == <<k1, n1>>
           v == <<k2, n2>>
           s == <<u, v>>
<1>1. u \in UpSet /\ v \in UpSet /\ u[1] = k1 /\ v[1] = k2
  BY DEF UpSet
<1> HIDE DEF u, v
<1>2. s \in Seq(UpSet) /\ Len(s) = 2 /\ s[1] = u /\ s[2] = v
  BY <1>1
<1> HIDE DEF s
<1>3. \A i \in DOMAIN s : s[i] \in {u, v}
  BY <1>2
<1>4. 1 \in DOMAIN s /\ 2 \in DOMAIN s
  BY <1>2
<1>5. Mentions(s, k1) /\ Mentions(s, k2)
  BY <1>1, <1>2, <1>4 DEF Mentions
<1> QED BY <1>2, <1>3, <1>5 DEF s, u, v

\* A client that has a key of its own now goes to save it.
LEMMA SavesKey ==
  ASSUME AuthInv, NEW c \in Client, NEW ups \in Seq(UpSet), \A i \in DOMAIN ups : ups[i][1] \notin Tokens,
         NEW next \in {"retry", "ready", "done"}, NEW else \in {"failed", "notready", "done"}, NEW key \in Nat,
         cl' = [cl EXCEPT ![c] = [Saving(c, ups, next, else) EXCEPT !.key = key]],
         Calm(c), Grows, fresh \subseteq fresh'
  PROVE  AuthInv'
<1> DEFINE job == [ups |-> ups, next |-> next, else |-> else]
           r == [[cl[c] EXCEPT !.pc = "save", !.job = job] EXCEPT !.key = key]
<1>1. AuthTyped /\ cl[c] \in ClientSet /\ Later
  BY DEF AuthInv, AuthTyped, Grows
<1>2. "save" \in Pcs /\ next \in Pcs /\ else \in Pcs
  BY DEF Pcs, Plain, Writing
<1>3. job \in JobSet /\ job.ups = ups /\ job.next = next /\ job.else = else
  BY <1>2 DEF JobSet
<1>4. cl' = [cl EXCEPT ![c] = r]
  BY DEF Saving
<1> HIDE DEF job
<1>5. r \in ClientSet
  BY <1>1, <1>2, <1>3 DEF ClientSet
<1>6. /\ r.pc = "save" /\ r.job = job /\ r.jwt = cl[c].jwt /\ r.refresh = cl[c].refresh
      /\ r.buf = cl[c].buf
  BY <1>1 DEF ClientSet
<1> HIDE DEF r
<1>7. Moved(c) /\ cl'[c] = r
  BY <1>1, <1>4, <1>5 DEF AuthTyped, Moved
<1>8. Agree(cl[c].jwt, cl[c].refresh)'
  BY <1>1, <1>6, <1>7, AgreeLater
<1>9. JobAgrees(ups) /\ \A V : Puts(ups, "refresh_token", V)
  BY <1>1, NoTokenPut
<1>10. \A x : JobAgrees(x) => JobAgrees(x)'
  BY <1>1, LaterKeeps
<1>11. JobAgrees(cl[c].job.ups)'
  BY <1>3, <1>6, <1>7, <1>9, <1>10 DEF JobAgrees
<1>12. JobOK(c)'
  BY <1>3, <1>6, <1>7, <1>11 DEF JobOK
<1>13. Puts(cl'[c].job.ups, "refresh_token", {0} \cup fresh')
  BY <1>3, <1>6, <1>7, <1>9
<1>14. cl'[c].job.next # "leave"
  BY <1>3, <1>6, <1>7
<1> QED BY <1>6, <1>7, <1>8, <1>12, <1>13, <1>14, SavesKeeps

LEMMA CreateKeyKeeps ==
  ASSUME AuthInv, NEW c \in Client, CreateKey(c)
  PROVE  AuthInv'
<1>0. AuthTyped /\ cl[c] \in ClientSet
  BY DEF AuthInv, AuthTyped
<1>1. /\ Calm(c) /\ UNCHANGED <<file, ui, mutex, past, live, fresh>>
      /\ cl[c].pc \notin Resting /\ cl[c].pc \notin Writing
  <2>1. /\ UNCHANGED <<file, ui, mutex, past, live, fresh>>
        /\ cl[c].pc \notin Resting /\ cl[c].pc \notin Writing
    BY DEF CreateKey, Resting, Writing
  <2> QED BY <1>0, <2>1, CalmStep
<1>2. ASSUME NEW pc \in {"refresh", "failed"}, To(c, pc), UNCHANGED minted PROVE AuthInv'
  <2>1. pc \in Plain /\ pc \notin {"gemini", "connector"}
    BY DEF Plain
  <2> QED BY <1>1, <1>2, <2>1, GoesOnAlone
<1>3. CASE /\ Mint(<<[url |-> cl[c].url, org |-> cl[c].org]>>)
           /\ cl' = [cl EXCEPT ![c] = [Saving(c, <<<<"api_key", New>>>>, "retry", "failed") EXCEPT !.key = New]]
  <2>1. cl[c].url \in Nat /\ cl[c].org \in Nat
    BY <1>0 DEF ClientSet
  <2>2. Grows /\ New \in Nat
    BY <1>0, <1>1, <1>3, <2>1, KeyMinted
  <2> DEFINE ups == <<<<"api_key", New>>>>
  <2>3. ups \in Seq(UpSet) /\ \A i \in DOMAIN ups : ups[i] = <<"api_key", New>>
    <3>1. "api_key" \in LineKeys \cup {"connectors"}
      BY DEF LineKeys
    <3> QED BY <2>2, <3>1, OneUpdate
  <2>4. cl' = [cl EXCEPT ![c] = [Saving(c, ups, "retry", "failed") EXCEPT !.key = New]]
    BY <1>3
  <2> HIDE DEF ups
  <2>5. \A i \in DOMAIN ups : ups[i][1] \notin Tokens
    BY <2>3 DEF Tokens
  <2> QED BY <1>1, <2>2, <2>3, <2>4, <2>5, SavesKey
<1> QED BY <1>2, <1>3 DEF CreateKey

LEMMA RecoverKeyKeeps ==
  ASSUME AuthInv, NEW c \in Client, RecoverKey(c)
  PROVE  AuthInv'
<1>0. AuthTyped /\ cl[c] \in ClientSet
  BY DEF AuthInv, AuthTyped
<1>1. /\ Calm(c) /\ UNCHANGED <<file, ui, mutex, past, live, fresh>>
      /\ cl[c].pc \notin Resting /\ cl[c].pc \notin Writing
  <2>1. /\ UNCHANGED <<file, ui, mutex, past, live, fresh>>
        /\ cl[c].pc \notin Resting /\ cl[c].pc \notin Writing
    BY DEF RecoverKey, Is, Resting, Writing
  <2> QED BY <1>0, <2>1, CalmStep
<1>2. ASSUME To(c, "notready"), UNCHANGED minted PROVE AuthInv'
  <2>1. "notready" \in Plain /\ "notready" \notin {"gemini", "connector"}
    BY DEF Plain
  <2> QED BY <1>1, <1>2, <2>1, GoesOnAlone
<1>3. CASE /\ Mint(<<[url |-> cl[c].url, org |-> cl[c].org]>>)
           /\ cl' = [cl EXCEPT ![c] = [Saving(c, <<<<"org_id", cl[c].org>>, <<"api_key", New>>>>,
                                              "ready", "notready") EXCEPT !.key = New]]
  <2>1. cl[c].url \in Nat /\ cl[c].org \in Nat
    BY <1>0 DEF ClientSet
  <2>2. Grows /\ New \in Nat
    BY <1>0, <1>1, <1>3, <2>1, KeyMinted
  <2> DEFINE ups == <<<<"org_id", cl[c].org>>, <<"api_key", New>>>>
  <2>3. /\ ups \in Seq(UpSet)
        /\ \A i \in DOMAIN ups : ups[i] \in {<<"org_id", cl[c].org>>, <<"api_key", New>>}
    <3>1. "api_key" \in LineKeys /\ "org_id" \in LineKeys
      BY DEF LineKeys
    <3> QED BY <2>1, <2>2, <3>1, TwoUpdates
  <2>4. cl' = [cl EXCEPT ![c] = [Saving(c, ups, "ready", "notready") EXCEPT !.key = New]]
    BY <1>3
  <2> HIDE DEF ups
  <2>5. \A i \in DOMAIN ups : ups[i][1] \notin Tokens
    <3> SUFFICES ASSUME NEW i \in DOMAIN ups PROVE ups[i][1] \notin Tokens
      OBVIOUS
    <3>1. ups[i] = <<"org_id", cl[c].org>> \/ ups[i] = <<"api_key", New>>
      BY <2>3
    <3>2. ups[i][1] = "org_id" \/ ups[i][1] = "api_key"
      BY <3>1
    <3> QED BY <3>2 DEF Tokens
  <2> QED BY <1>1, <2>2, <2>3, <2>4, <2>5, SavesKey
<1> QED BY <1>2, <1>3 DEF RecoverKey

LEMMA SwitchKeyKeeps ==
  ASSUME AuthInv, NEW c \in Client, SwitchKey(c)
  PROVE  AuthInv'
<1>0. AuthTyped /\ cl[c] \in ClientSet
  BY DEF AuthInv, AuthTyped
<1>1. cl[c].url \in Nat /\ cl[c].org \in Nat /\ cl[c].key \in Nat /\ New \in Nat
  BY <1>0 DEF ClientSet, AuthTyped, New
<1>2. Calm(c)
  <2>1. UNCHANGED <<file, ui, mutex>> /\ cl[c].pc \notin Resting /\ cl[c].pc \notin Writing
    BY DEF SwitchKey, Is, Resting, Writing
  <2>2. /\ past' \in PastSet /\ past'.lost = past.lost /\ past'.met = past.met
        /\ past'.expired = past.expired /\ past'.refreshed = past.refreshed
    <3>1. past \in PastSet
      BY <1>0 DEF AuthTyped
    <3>2. past' = past \/ past' = [past EXCEPT !.keyless = TRUE]
      BY DEF SwitchKey
    <3> QED BY <3>1, <3>2 DEF PastSet
  <2> QED BY <2>1, <2>2 DEF Calm
<1>3. Grows /\ UNCHANGED fresh
  <2>1. UNCHANGED <<live, fresh>>
    BY DEF SwitchKey
  <2>2. CASE Mint(<<[url |-> cl[c].url, org |-> cl[c].org]>>)
    BY <1>0, <1>1, <2>1, <2>2, KeyMinted
  <2>3. CASE UNCHANGED minted
    BY <1>0, <2>1, <2>3, ServerRests
  <2> QED BY <2>2, <2>3 DEF SwitchKey
<1>4. \A key \in Nat : /\ OrgUpdates(c, key) \in Seq(UpSet)
                       /\ \A i \in DOMAIN OrgUpdates(c, key) : OrgUpdates(c, key)[i][1] \notin Tokens
  <2> SUFFICES ASSUME NEW key \in Nat
               PROVE  /\ OrgUpdates(c, key) \in Seq(UpSet)
                      /\ \A i \in DOMAIN OrgUpdates(c, key) : OrgUpdates(c, key)[i][1] \notin Tokens
    OBVIOUS
  <2> DEFINE P == {u \in UpSet : u[1] \notin Tokens}
  <2>1. ASSUME NEW k \in {"org_id", "api_key"}, NEW n \in Nat
        PROVE  /\ NonEmpty(<<k, n>>) \in Seq(UpSet)
               /\ \A i \in DOMAIN NonEmpty(<<k, n>>) : NonEmpty(<<k, n>>)[i] \in P
    <3>1. k \in LineKeys \cup {"connectors"} /\ k \notin Tokens
      BY DEF LineKeys, Tokens
    <3>2. /\ <<<<k, n>>>> \in Seq(UpSet)
          /\ \A i \in DOMAIN <<<<k, n>>>> : <<<<k, n>>>>[i] = <<k, n>>
      BY <3>1, OneUpdate
    <3>3. <<k, n>> \in P
      BY <3>1 DEF UpSet
    <3>4. <<>> \in Seq(UpSet) /\ DOMAIN <<>> = {}
      OBVIOUS
    <3>5. NonEmpty(<<k, n>>) = <<<<k, n>>>> \/ NonEmpty(<<k, n>>) = <<>>
      BY DEF NonEmpty
    <3> QED BY <3>2, <3>3, <3>4, <3>5
  <2> DEFINE s == NonEmpty(<<"org_id", cl[c].org>>)
             t == NonEmpty(<<"api_key", key>>)
  <2>2. /\ s \in Seq(UpSet) /\ \A i \in DOMAIN s : s[i] \in P
        /\ t \in Seq(UpSet) /\ \A i \in DOMAIN t : t[i] \in P
    BY <1>1, <2>1
  <2>3. OrgUpdates(c, key) = s \o t
    BY DEF OrgUpdates
  <2> HIDE DEF s, t, P
  <2>4. s \o t \in Seq(UpSet) /\ \A i \in DOMAIN (s \o t) : (s \o t)[i] \in P
    BY <2>2, JoinUpdates
  <2> QED BY <2>3, <2>4 DEF P
<1>5. CASE cl' = [cl EXCEPT ![c] = [Saving(c, OrgUpdates(c, New), "done", "failed") EXCEPT !.key = New]]
  BY <1>1, <1>2, <1>3, <1>4, <1>5, SavesKey
<1>6. CASE cl' = [cl EXCEPT ![c] = Saving(c, OrgUpdates(c, 0), "done", "failed")]
  <2> DEFINE ups == OrgUpdates(c, 0)
  <2>1. Saving(c, ups, "done", "failed") = [Saving(c, ups, "done", "failed") EXCEPT !.key = cl[c].key]
    <3> HIDE DEF ups
    <3> QED BY <1>0 DEF Saving, ClientSet
  <2>2. ups \in Seq(UpSet) /\ \A i \in DOMAIN ups : ups[i][1] \notin Tokens
    BY <1>4
  <2>3. cl' = [cl EXCEPT ![c] = [Saving(c, ups, "done", "failed") EXCEPT !.key = cl[c].key]]
    BY <1>6, <2>1
  <2> HIDE DEF ups
  <2> QED BY <1>1, <1>2, <1>3, <2>2, <2>3, SavesKey
<1> QED BY <1>5, <1>6 DEF SwitchKey

LEMMA SessionMinted ==
  ASSUME AuthTyped, NEW more \in Seq([url : Nat, org : Nat]), Len(more) >= 1, Mint(more),
         live' = live \cup {New}, fresh' \subseteq fresh \cup {New}
  PROVE  /\ Grows /\ New \in Nat \ {0} /\ New <= Len(minted')
         /\ Len(minted') = Len(minted) + Len(more)
<1>1. minted \in Seq([url : Nat, org : Nat]) /\ Len(minted) \in Nat /\ minted' = minted \o more
  BY DEF AuthTyped, Mint
<1>2. /\ minted' \in Seq([url : Nat, org : Nat]) /\ Len(minted') = Len(minted) + Len(more)
      /\ Len(more) \in Nat
  BY <1>1
<1>3. New = Len(minted) + 1 /\ New \in Issued'
  BY <1>1, <1>2 DEF New, Issued
<1>4. live \subseteq Issued' /\ fresh \subseteq Issued'
  BY <1>1, <1>2 DEF AuthTyped, Issued
<1>5. New \in Nat \ {0} /\ New <= Len(minted') /\ Len(minted) <= Len(minted')
  BY <1>1, <1>2, <1>3
<1>6. live' \in SUBSET Issued' /\ fresh' \in SUBSET Issued'
  BY <1>3, <1>4
<1> QED BY <1>2, <1>5, <1>6 DEF Grows, Later

\* Both tokens of a session that is new are to be saved.
LEMMA SavesSession ==
  ASSUME AuthInv, NEW c \in Client, Moved(c), Calm(c), Grows, New \in Nat, New <= Len(minted'), New \in fresh',
         cl'[c].pc = "save", cl'[c].buf = cl[c].buf, cl'[c].jwt = New, cl'[c].refresh = New, New # 0,
         cl'[c].job.next \in {"create2", "probe2", "adopt"}, cl'[c].job.else \in {"failed", "notready"},
         \A key \in Tokens : Mentions(cl'[c].job.ups, key) /\ Puts(cl'[c].job.ups, key, {New})
  PROVE  AuthInv'
<1>1. Len(minted') \in Nat
  BY LaterKeeps DEF AuthInv, Grows
<1>2. Agree(cl[c].jwt, cl[c].refresh)'
  BY <1>1 DEF Agree
<1>3. "jwt" \in Tokens /\ "refresh_token" \in Tokens
  BY DEF Tokens
<1>4. JobAgrees(cl[c].job.ups)'
  <2>1. New \in 0..Len(minted')
    BY <1>1
  <2>2. \A key \in Tokens : Puts(cl'[c].job.ups, key, {0, New})
    BY DEF Puts
  <2> QED BY <1>3, <2>1, <2>2 DEF JobAgrees
<1>5. JobOK(c)'
  BY <1>4 DEF JobOK
<1>6. Puts(cl'[c].job.ups, "refresh_token", {0} \cup fresh')
  BY <1>3 DEF Puts
<1> QED BY <1>2, <1>3, <1>5, <1>6, SavesKeeps

LEMMA TokenUpdates ==
  ASSUME NEW n \in Nat
  PROVE  LET ups == <<<<"jwt", n>>, <<"refresh_token", n>>>> IN
         ups \in Seq(UpSet) /\ \A key \in Tokens : Mentions(ups, key) /\ Puts(ups, key, {n})
<1> DEFINE ups == <<<<"jwt", n>>, <<"refresh_token", n>>>>
<1>1. "jwt" \in LineKeys /\ "refresh_token" \in LineKeys
  BY DEF LineKeys
<1>2. /\ ups \in Seq(UpSet)
      /\ \A i \in DOMAIN ups : ups[i] \in {<<"jwt", n>>, <<"refresh_token", n>>}
      /\ Mentions(ups, "jwt") /\ Mentions(ups, "refresh_token")
  BY <1>1, TwoUpdates
<1> HIDE DEF ups
<1>3. \A i \in DOMAIN ups : ups[i][2] = n
  BY <1>2
<1>4. \A key \in Tokens : Mentions(ups, key) /\ Puts(ups, key, {n})
  BY <1>2, <1>3 DEF Tokens, Puts
<1> QED BY <1>2, <1>4 DEF ups

LEMMA RefreshSessionKeeps ==
  ASSUME AuthInv, NEW c \in Client, RefreshSession(c)
  PROVE  AuthInv'
<1>0. AuthTyped /\ cl[c] \in ClientSet
  BY DEF AuthInv, AuthTyped
<1>1. /\ Calm(c) /\ UNCHANGED <<file, ui, mutex, past>>
      /\ cl[c].pc \notin Resting /\ cl[c].pc \notin Writing
  <2>1. /\ UNCHANGED <<file, ui, mutex, past>>
        /\ cl[c].pc \notin Resting /\ cl[c].pc \notin Writing
    BY DEF RefreshSession, Resting, Writing
  <2> QED BY <1>0, <2>1, CalmStep
<1>2. ASSUME NEW pc \in {"failed", "notready"}, To(c, pc), UNCHANGED <<minted, live, fresh>> PROVE AuthInv'
  <2>1. pc \in Plain /\ pc \notin {"gemini", "connector"}
    BY DEF Plain
  <2> QED BY <1>1, <1>2, <2>1, GoesOnAlone
<1>3. ASSUME NEW next \in {"create2", "probe2"}, NEW else \in {"failed", "notready"},
             Mint(<<Session(cl[c].url)>>),
             live' = live \cup {New}, fresh' = (fresh \ {cl[c].refresh}) \cup {New},
             cl' = [cl EXCEPT ![c] = [SavedTokens(c, next, else) EXCEPT !.jwt = New, !.refresh = New]]
      PROVE  AuthInv'
  <2>1. Grows /\ New \in Nat \ {0} /\ New <= Len(minted') /\ New \in fresh'
    <3> DEFINE more == <<Session(cl[c].url)>>
    <3>1. Session(cl[c].url) \in [url : Nat, org : Nat]
      BY <1>0 DEF Session, ClientSet
    <3>2. more \in Seq([url : Nat, org : Nat]) /\ Len(more) >= 1
      BY <3>1
    <3> HIDE DEF more
    <3>3. Mint(more) /\ fresh' \subseteq fresh \cup {New} /\ New \in fresh'
      BY <1>3 DEF more
    <3> QED BY <1>0, <1>3, <3>2, <3>3, SessionMinted
  <2> DEFINE ups == <<<<"jwt", New>>, <<"refresh_token", New>>>>
             job == [ups |-> ups, next |-> next, else |-> else]
             r == [cl[c] EXCEPT !.pc = "save", !.job = job, !.jwt = New, !.refresh = New]
  <2>2. ups \in Seq(UpSet) /\ \A key \in Tokens : Mentions(ups, key) /\ Puts(ups, key, {New})
    BY <2>1, TokenUpdates
  <2>3. cl' = [cl EXCEPT ![c] = r]
    BY <1>3 DEF SavedTokens, Saving
  <2> HIDE DEF ups
  <2>4. "save" \in Pcs /\ next \in Pcs /\ else \in Pcs
    BY DEF Pcs, Plain, Writing
  <2>5. job \in JobSet /\ job.ups = ups /\ job.next = next /\ job.else = else
    BY <2>2, <2>4 DEF JobSet
  <2> HIDE DEF job
  <2>6. r \in ClientSet
    BY <1>0, <2>1, <2>4, <2>5 DEF ClientSet
  <2>7. r.pc = "save" /\ r.job = job /\ r.jwt = New /\ r.refresh = New /\ r.buf = cl[c].buf
    BY <1>0 DEF ClientSet
  <2> HIDE DEF r
  <2>8. Moved(c) /\ cl'[c] = r
    BY <1>0, <2>3, <2>6 DEF AuthTyped, Moved
  <2> QED BY <1>1, <2>1, <2>2, <2>5, <2>7, <2>8, SavesSession
<1> QED BY <1>2, <1>3 DEF RefreshSession

LEMMA ReauthUpdatesAre ==
  ASSUME AuthTyped, NEW c \in Client
  PROVE  LET ups == ReauthUpdates(c, file) IN
         ups \in Seq(UpSet) /\ \A key \in Tokens : Mentions(ups, key) /\ Puts(ups, key, {New})
<1>1. cl[c].url \in Nat /\ New \in Nat /\ New + 1 \in Nat
  BY DEF AuthTyped, ClientSet, New
<1>2. /\ "api_url" \in LineKeys /\ "api_key" \in LineKeys /\ "org_id" \in LineKeys
      /\ "api_url" \notin Tokens /\ "api_key" \notin Tokens /\ "org_id" \notin Tokens
  BY DEF LineKeys, Tokens
<1> DEFINE P == {u \in UpSet : u[1] \in Tokens => u[2] = New}
           s == IF Value(file, "api_url") = 0 THEN <<<<"api_url", cl[c].url>>>> ELSE <<>>
           a == <<<<"api_key", New + 1>>, <<"org_id", 1>>>>
           t == <<<<"jwt", New>>, <<"refresh_token", New>>>>
           w == <<<<"api_key", New + 1>>, <<"org_id", 1>>, <<"jwt", New>>, <<"refresh_token", New>>>>
<1>3. s \in Seq(UpSet) /\ \A i \in DOMAIN s : s[i] \in P
  <2>1. /\ <<<<"api_url", cl[c].url>>>> \in Seq(UpSet)
        /\ \A i \in DOMAIN <<<<"api_url", cl[c].url>>>> : <<<<"api_url", cl[c].url>>>>[i] = <<"api_url", cl[c].url>>
    BY <1>1, <1>2, OneUpdate
  <2>2. <<"api_url", cl[c].url>> \in P
    BY <1>1, <1>2 DEF UpSet
  <2>3. <<>> \in Seq(UpSet) /\ DOMAIN <<>> = {}
    OBVIOUS
  <2> HIDE DEF P
  <2> QED BY <2>1, <2>2, <2>3
<1>4. a \in Seq(UpSet) /\ \A i \in DOMAIN a : a[i] \in P
  <2>1. a \in Seq(UpSet) /\ \A i \in DOMAIN a : a[i] \in {<<"api_key", New + 1>>, <<"org_id", 1>>}
    BY <1>1, <1>2, TwoUpdates
  <2>2. <<"api_key", New + 1>> \in P /\ <<"org_id", 1>> \in P
    BY <1>1, <1>2 DEF UpSet
  <2> HIDE DEF P, a
  <2> QED BY <2>1, <2>2
<1>5. t \in Seq(UpSet) /\ \A i \in DOMAIN t : t[i] \in P
  <2>1. "jwt" \in LineKeys /\ "refresh_token" \in LineKeys
    BY DEF LineKeys
  <2>2. t \in Seq(UpSet) /\ \A i \in DOMAIN t : t[i] \in {<<"jwt", New>>, <<"refresh_token", New>>}
    BY <1>1, <2>1, TwoUpdates
  <2>3. <<"jwt", New>> \in P /\ <<"refresh_token", New>> \in P
    BY <1>1, <2>1 DEF UpSet
  <2> HIDE DEF P, t
  <2> QED BY <2>2, <2>3
<1>6. \A key \in Tokens : Mentions(t, key)
  BY <1>1, TokenUpdates
<1>7. w = a \o t
  <2> DEFINE u1 == <<"api_key", New + 1>>
             u2 == <<"org_id", 1>>
             u3 == <<"jwt", New>>
             u4 == <<"refresh_token", New>>
  <2> HIDE DEF u1, u2, u3, u4
  <2>1. <<u1, u2, u3, u4>> = <<u1, u2>> \o <<u3, u4>>
    OBVIOUS
  <2> QED BY <2>1 DEF u1, u2, u3, u4
<1>8. ReauthUpdates(c, file) = s \o w
  BY DEF ReauthUpdates
<1> HIDE DEF P, s, a, t, w
<1>9. /\ a \o t \in Seq(UpSet) /\ \A i \in DOMAIN (a \o t) : (a \o t)[i] \in P
      /\ \A key : Mentions(a \o t, key) <=> Mentions(a, key) \/ Mentions(t, key)
  BY <1>4, <1>5, JoinUpdates
<1>10. w \in Seq(UpSet) /\ (\A i \in DOMAIN w : w[i] \in P) /\ \A key \in Tokens : Mentions(w, key)
  BY <1>6, <1>7, <1>9
<1>11. /\ s \o w \in Seq(UpSet) /\ \A i \in DOMAIN (s \o w) : (s \o w)[i] \in P
       /\ \A key : Mentions(s \o w, key) <=> Mentions(s, key) \/ Mentions(w, key)
  BY <1>3, <1>10, JoinUpdates
<1>12. \A key \in Tokens : Puts(s \o w, key, {New})
  BY <1>11 DEF P, Puts
<1> QED BY <1>8, <1>10, <1>11, <1>12

LEMMA LoginKeeps ==
  ASSUME AuthInv, NEW c \in Client, Login(c)
  PROVE  AuthInv'
<1>0. AuthTyped /\ cl[c] \in ClientSet
  BY DEF AuthInv, AuthTyped
<1>1. /\ Calm(c) /\ UNCHANGED <<file, ui, mutex, past>>
      /\ cl[c].pc \notin Resting /\ cl[c].pc \notin Writing
  <2>1. /\ UNCHANGED <<file, ui, mutex, past>>
        /\ cl[c].pc \notin Resting /\ cl[c].pc \notin Writing
    BY DEF Login, Is, Resting, Writing
  <2> QED BY <1>0, <2>1, CalmStep
<1>2. "failed" \in Plain /\ "failed" \notin {"gemini", "connector"}
  BY DEF Plain
<1>3. Session(cl[c].url) \in [url : Nat, org : Nat] /\ [url |-> cl[c].url, org |-> 1] \in [url : Nat, org : Nat]
  BY <1>0 DEF Session, ClientSet
<1>4. CASE To(c, "failed") /\ UNCHANGED <<minted, live, fresh>>
  BY <1>1, <1>2, <1>4, GoesOnAlone
<1>5. CASE To(c, "failed") /\ Mint(<<Session(cl[c].url)>>) /\ live' = live \cup {New} /\ fresh' = fresh \cup {New}
  <2> DEFINE more == <<Session(cl[c].url)>>
  <2>1. more \in Seq([url : Nat, org : Nat]) /\ Len(more) >= 1
    BY <1>3
  <2> HIDE DEF more
  <2>2. Mint(more) /\ fresh' \subseteq fresh \cup {New} /\ fresh \subseteq fresh'
    BY <1>5 DEF more
  <2>3. Grows
    BY <1>0, <1>5, <2>1, <2>2, SessionMinted
  <2> QED BY <1>1, <1>2, <1>5, <2>2, <2>3, GoesOn
<1>6. CASE /\ Mint(<<Session(cl[c].url), [url |-> cl[c].url, org |-> 1]>>)
           /\ live' = live \cup {New} /\ fresh' = fresh \cup {New}
           /\ cl' = [cl EXCEPT ![c] =
                   IF KindOf(c) = "setup" THEN [Credentials(c, New, New + 1) EXCEPT !.pc = "gemini"]
                   ELSE [Credentials(c, New, New + 1) EXCEPT !.pc = "save",
                           !.job = [ups |-> ReauthUpdates(c, file), next |-> "adopt", else |-> "failed"]]]
  <2>1. Grows /\ Later /\ New \in Nat \ {0} /\ New <= Len(minted') /\ New \in fresh' /\ fresh \subseteq fresh'
    <3> DEFINE more == <<Session(cl[c].url), [url |-> cl[c].url, org |-> 1]>>
    <3>1. more \in Seq([url : Nat, org : Nat]) /\ Len(more) >= 1
      <4> DEFINE m1 == Session(cl[c].url)
                 m2 == [url |-> cl[c].url, org |-> 1]
                 M == [url : Nat, org : Nat]
      <4>1. m1 \in M /\ m2 \in M
        BY <1>3
      <4> HIDE DEF m1, m2, M
      <4>2. <<m1, m2>> \in Seq(M) /\ Len(<<m1, m2>>) >= 1
        BY <4>1
      <4> QED BY <4>2 DEF m1, m2, M
    <3>2. Mint(more) /\ fresh' \subseteq fresh \cup {New} /\ New \in fresh' /\ fresh \subseteq fresh'
      BY <1>6
    <3> HIDE DEF more
    <3> QED BY <1>0, <1>6, <3>1, <3>2, SessionMinted DEF Grows
  <2>2. CASE KindOf(c) = "setup"
    <3> DEFINE r == [cl[c] EXCEPT !.jwt = New, !.refresh = New, !.org = 1, !.key = New + 1, !.pc = "gemini"]
    <3>1. "gemini" \in Plain /\ "gemini" \in Pcs /\ New + 1 \in Nat
      BY <2>1 DEF Plain, Pcs
    <3>2. r \in ClientSet
      BY <1>0, <2>1, <3>1 DEF ClientSet
    <3>3. r.pc = "gemini" /\ r.jwt = New /\ r.refresh = New /\ r.buf = cl[c].buf
      BY <1>0 DEF ClientSet
    <3>4. cl' = [cl EXCEPT ![c] = r]
      BY <1>6, <2>2 DEF Credentials
    <3> HIDE DEF r
    <3>5. Moved(c) /\ cl'[c] = r
      BY <1>0, <3>2, <3>4 DEF AuthTyped, Moved
    <3>6. Agree(cl[c].jwt, cl[c].refresh)'
      BY <2>1, <3>3, <3>5 DEF Agree
    <3> QED BY <1>1, <2>1, <3>1, <3>3, <3>5, <3>6, PlainKeeps
  <2>3. CASE KindOf(c) # "setup"
    <3> DEFINE ups == ReauthUpdates(c, file)
               job == [ups |-> ups, next |-> "adopt", else |-> "failed"]
               r == [cl[c] EXCEPT !.jwt = New, !.refresh = New, !.org = 1, !.key = New + 1, !.pc = "save",
                                  !.job = job]
    <3>1. ups \in Seq(UpSet) /\ \A key \in Tokens : Mentions(ups, key) /\ Puts(ups, key, {New})
      BY <1>0, ReauthUpdatesAre
    <3>2. cl' = [cl EXCEPT ![c] = r]
      BY <1>6, <2>3 DEF Credentials
    <3> HIDE DEF ups
    <3>3. "save" \in Pcs /\ "adopt" \in Pcs /\ "failed" \in Pcs /\ New + 1 \in Nat
      BY <2>1 DEF Pcs, Plain, Writing
    <3>4. job \in JobSet /\ job.ups = ups /\ job.next = "adopt" /\ job.else = "failed"
      BY <3>1, <3>3 DEF JobSet
    <3> HIDE DEF job
    <3>5. r \in ClientSet
      BY <1>0, <2>1, <3>3, <3>4 DEF ClientSet
    <3>6. r.pc = "save" /\ r.job = job /\ r.jwt = New /\ r.refresh = New /\ r.buf = cl[c].buf
      BY <1>0 DEF ClientSet
    <3> HIDE DEF r
    <3>7. Moved(c) /\ cl'[c] = r
      BY <1>0, <3>2, <3>5 DEF AuthTyped, Moved
    <3> QED BY <1>1, <2>1, <3>1, <3>4, <3>6, <3>7, SavesSession
  <2> QED BY <2>2, <2>3
<1> QED BY <1>4, <1>5, <1>6 DEF Login

LEMMA WriteConfigIs ==
  ASSUME AuthTyped, NEW c \in Client
  PROVE  /\ WriteConfig(c) \in Seq(UpSet)
         /\ Mentions(WriteConfig(c), "jwt") /\ Mentions(WriteConfig(c), "refresh_token")
         /\ Puts(WriteConfig(c), "jwt", {cl[c].jwt})
         /\ Puts(WriteConfig(c), "refresh_token", {cl[c].refresh})
<1> DEFINE u1 == <<"api_key", cl[c].key>>
           u2 == <<"api_url", cl[c].url>>
           u3 == <<"org_id", cl[c].org>>
           u4 == <<"jwt", cl[c].jwt>>
           u5 == <<"refresh_token", cl[c].refresh>>
           w == <<u1, u2, u3, u4, u5>>
<1>1. /\ cl[c].key \in Nat /\ cl[c].url \in Nat /\ cl[c].org \in Nat /\ cl[c].jwt \in Nat
      /\ cl[c].refresh \in Nat
  BY DEF AuthTyped, ClientSet
<1>2. u1 \in UpSet /\ u2 \in UpSet /\ u3 \in UpSet /\ u4 \in UpSet /\ u5 \in UpSet
  <2>1. \A k \in LineKeys, n \in Nat : <<k, n>> \in UpSet
    BY DEF UpSet
  <2>2. /\ "api_key" \in LineKeys /\ "api_url" \in LineKeys /\ "org_id" \in LineKeys
        /\ "jwt" \in LineKeys /\ "refresh_token" \in LineKeys
    BY DEF LineKeys
  <2> QED BY <1>1, <2>1, <2>2
<1>3. /\ u1[1] = "api_key" /\ u2[1] = "api_url" /\ u3[1] = "org_id" /\ u4[1] = "jwt"
      /\ u5[1] = "refresh_token" /\ u4[2] = cl[c].jwt /\ u5[2] = cl[c].refresh
  OBVIOUS
<1>4. WriteConfig(c) = w
  BY DEF WriteConfig
<1> HIDE DEF u1, u2, u3, u4, u5
<1>5. w \in Seq(UpSet) /\ Len(w) = 5
  BY <1>2
<1>6. w[1] = u1 /\ w[2] = u2 /\ w[3] = u3 /\ w[4] = u4 /\ w[5] = u5
  OBVIOUS
<1> HIDE DEF w
<1>7. DOMAIN w = 1..5 /\ 4 \in DOMAIN w /\ 5 \in DOMAIN w
  BY <1>5
<1>8. Mentions(w, "jwt") /\ Mentions(w, "refresh_token")
  BY <1>3, <1>6, <1>7 DEF Mentions
<1>9. \A i \in DOMAIN w : i = 1 \/ i = 2 \/ i = 3 \/ i = 4 \/ i = 5
  BY <1>7
<1>10. Puts(w, "jwt", {cl[c].jwt})
  BY <1>3, <1>6, <1>9 DEF Puts
<1>11. Puts(w, "refresh_token", {cl[c].refresh})
  BY <1>3, <1>6, <1>9 DEF Puts
<1> QED BY <1>4, <1>5, <1>8, <1>10, <1>11

LEMMA ConnectorKeeps ==
  ASSUME AuthInv, NEW c \in Client, Connector(c)
  PROVE  AuthInv'
<1>0. AuthTyped /\ cl[c] \in ClientSet
  BY DEF AuthInv, AuthTyped
<1>1. /\ UNCHANGED <<file, ui, mutex, past, minted, live, fresh>>
      /\ cl[c].pc = "connector" /\ cl[c].pc \notin Resting /\ cl[c].pc \notin Writing
  BY DEF Connector, Is, Resting, Writing
<1>2. ASSUME NEW pc \in {"done", "failed"}, To(c, pc) PROVE AuthInv'
  <2>1. pc \in Plain
    BY DEF Plain
  <2> QED BY <1>1, <1>2, <2>1, GoesOnAlone
<1>3. CASE cl[c].tries < 10 /\ cl' = [cl EXCEPT ![c] = Saving(c, WriteConfig(c), "done", "failed")]
  <2> DEFINE ups == WriteConfig(c)
             job == [ups |-> ups, next |-> "done", else |-> "failed"]
             r == [cl[c] EXCEPT !.pc = "save", !.job = job]
  <2>1. /\ ups \in Seq(UpSet) /\ Mentions(ups, "jwt") /\ Mentions(ups, "refresh_token")
        /\ Puts(ups, "jwt", {cl[c].jwt}) /\ Puts(ups, "refresh_token", {cl[c].refresh})
    BY <1>0, WriteConfigIs
  <2>2. cl' = [cl EXCEPT ![c] = r]
    BY <1>3 DEF Saving
  <2> HIDE DEF ups
  <2>3. "save" \in Pcs /\ "done" \in Pcs /\ "failed" \in Pcs
    BY DEF Pcs, Plain, Writing
  <2>4. job \in JobSet /\ job.ups = ups /\ job.next = "done" /\ job.else = "failed"
    BY <2>1, <2>3 DEF JobSet
  <2> HIDE DEF job
  <2>5. r \in ClientSet
    BY <1>0, <2>3, <2>4 DEF ClientSet
  <2>6. r.pc = "save" /\ r.job = job /\ r.jwt = cl[c].jwt /\ r.refresh = cl[c].refresh /\ r.buf = cl[c].buf
    BY <1>0 DEF ClientSet
  <2> HIDE DEF r
  <2>7. Moved(c) /\ cl'[c] = r
    BY <1>0, <2>2, <2>5 DEF AuthTyped, Moved
  <2>8. Calm(c) /\ Grows /\ Later
    BY <1>0, <1>1, CalmStep, ServerRests DEF Grows
  <2>9. Agree(cl[c].jwt, cl[c].refresh)'
    BY <2>6, <2>7, <2>8, AgreeLater
  <2>10. JobAgrees(cl[c].job.ups)'
    <3>1. Agree(cl[c].jwt, cl[c].refresh) /\ cl[c].jwt \in Nat /\ cl[c].refresh \in Nat
            /\ Len(minted) \in Nat
      BY <1>0 DEF AuthInv, ClientOK, ClientSet, AuthTyped
    <3>2. PICK n \in 0..Len(minted) : cl[c].jwt \in {0, n} /\ cl[c].refresh \in {0, n}
      BY <3>1 DEF Agree
    <3>3. \A key \in Tokens : Puts(ups, key, {0, n})
      BY <2>1, <3>2 DEF Tokens, Puts
    <3>4. JobAgrees(ups)
      BY <2>1, <3>3 DEF JobAgrees
    <3>5. cl'[c].job.ups = ups
      BY <2>4, <2>6, <2>7
    <3>6. \A x : JobAgrees(x) => JobAgrees(x)'
      BY <1>0, <2>8, LaterKeeps
    <3> QED BY <3>4, <3>5, <3>6 DEF JobAgrees
  <2>11. JobOK(c)'
    BY <2>4, <2>6, <2>7, <2>10 DEF JobOK
  <2>12. Clean' => Puts(cl'[c].job.ups, "refresh_token", {0} \cup fresh')
    <3>1. Clean' => ClientKeeps(c)
      BY <1>1, StaysClean
    <3>2. Clean' => cl[c].refresh \in fresh'
      BY <1>1, <1>3, <3>1 DEF ClientKeeps
    <3> QED BY <2>1, <2>4, <2>6, <2>7, <3>2 DEF Puts
  <2>13. cl'[c].job.next # "leave"
    BY <2>4, <2>6, <2>7
  <2> QED BY <1>1, <2>6, <2>7, <2>8, <2>9, <2>11, <2>12, <2>13, SavesKeeps
<1>4. cl[c].tries \in Nat
  BY <1>0 DEF ClientSet
<1> QED BY <1>2, <1>3, <1>4 DEF Connector

-----------------------------------------------------------------------------
(* Reading and replacing the file.                                         *)

LEMMA StoreKeeps ==
  ASSUME AuthInv, NEW c \in Client, Moved(c), UNCHANGED <<minted, live, fresh, ui, mutex>>,
         past' \in PastSet, past'.expired = past.expired, past'.refreshed = past.refreshed,
         file' \in Seq(LineSet), FileAgrees(file)', ClientOK(c)', Keeps'
  PROVE  AuthInv'
<1>0. AuthTyped /\ Grows /\ Later
  BY ServerRests DEF AuthInv, Grows
<1>1. AuthTyped'
  BY <1>0 DEF AuthTyped, Moved, Issued
<1>2. Agree(ui.jwt, ui.refresh)'
  BY DEF AuthInv, Agree
<1>3. Counted'
  BY <1>0, CountKeeps DEF AuthInv
<1>4. ASSUME NEW d \in Client, d # c PROVE ClientOK(d)'
  <2>1. ClientOK(d) /\ Agree(ui.jwt, ui.refresh)
    BY DEF AuthInv
  <2>2. Spared(d)
    BY <1>4, <2>1 DEF Moved, ClientOK, Spared
  <2>3. live' \subseteq live \cup {New}
    OBVIOUS
  <2> QED BY <1>0, <2>1, <2>2, <2>3, OtherKeeps
<1> QED BY <1>1, <1>2, <1>3, <1>4 DEF AuthInv

LEMMA SaveReadsKeeps ==
  ASSUME AuthInv, NEW c \in Client, SaveReads(c)
  PROVE  AuthInv'
<1>0. AuthTyped /\ cl[c] \in ClientSet /\ ClientOK(c)
  BY DEF AuthInv, AuthTyped
<1> DEFINE r == [cl[c] EXCEPT !.pc = "replace", !.buf = file]
<1>1. "replace" \in Pcs /\ file \in Seq(LineSet)
  BY <1>0 DEF Pcs, Writing, AuthTyped
<1>2. r \in ClientSet
  BY <1>0, <1>1 DEF ClientSet
<1>3. /\ r.pc = "replace" /\ r.buf = file /\ r.jwt = cl[c].jwt /\ r.refresh = cl[c].refresh
      /\ r.job = cl[c].job
  BY <1>0 DEF ClientSet
<1>4. cl' = [cl EXCEPT ![c] = r]
  BY DEF SaveReads
<1> HIDE DEF r
<1>5. Moved(c) /\ cl'[c] = r
  BY <1>0, <1>2, <1>4 DEF AuthTyped, Moved
<1>6. UNCHANGED <<file, minted, live, fresh, ui, mutex, past>> /\ cl[c].pc = "save"
  BY DEF SaveReads, server, Is
<1>7. FileAgrees(file) /\ FileAgrees(file)'
  BY <1>6 DEF AuthInv, FileAgrees
<1>8. ClientOK(c)'
  <2>1. Agree(cl[c].jwt, cl[c].refresh)'
    BY <1>0, <1>3, <1>5, <1>6 DEF ClientOK, Agree
  <2>2. FileAgrees(cl[c].buf)'
    BY <1>3, <1>5, <1>6, <1>7 DEF FileAgrees
  <2>3. JobOK(c)'
    <3>1. JobOK(c)
      BY <1>0, <1>6 DEF ClientOK, Writing
    <3>2. JobAgrees(cl[c].job.ups)'
      BY <1>3, <1>5, <1>6, <3>1 DEF JobOK, JobAgrees
    <3> QED BY <1>3, <1>5, <3>1, <3>2 DEF JobOK
  <2>4. Uses(c)' = Uses(c) /\ Locks(c)' = Locks(c)
    BY <1>3, <1>5, <1>6 DEF Uses, Locks, Is, Using, Writing
  <2> QED BY <1>0, <1>3, <1>5, <1>6, <2>1, <2>2, <2>3, <2>4 DEF ClientOK, Is
<1>9. Keeps'
  <2> SUFFICES ASSUME Clean'
               PROVE  /\ \A d, e \in Client : cl'[d].pc \notin Resting /\ cl'[e].pc \notin Resting => d = e
                      /\ \A d \in Client : ClientKeeps(d)'
                      /\ FileKept' \/ \E d \in Client : Renews(d)'
    BY DEF Keeps
  <2>1. /\ \A d, e \in Client : cl[d].pc \notin Resting /\ cl[e].pc \notin Resting => d = e
        /\ \A d \in Client : ClientKeeps(d)
        /\ FileKept \/ \E d \in Client : Renews(d)
    BY <1>6 DEF AuthInv, Keeps, Clean
  <2>2. \A d, e \in Client : cl'[d].pc \notin Resting /\ cl'[e].pc \notin Resting => d = e
    BY <1>5, <1>6, <2>1 DEF Moved, Resting
  <2>3. \A d \in Client : ClientKeeps(d)'
    <3>1. \A d \in Client \ {c} : ClientKeeps(d)'
      BY <1>5, <1>6, <2>1 DEF Moved, ClientKeeps, Is
    <3>2. ClientKeeps(c)'
      BY <1>3, <1>5, <1>6, <2>1 DEF ClientKeeps, Is, Writing
    <3> QED BY <3>1, <3>2
  <2>4. FileKept => FileKept'
    BY <1>6 DEF FileKept
  <2>5. \A d \in Client : Renews(d) => Renews(d)'
    <3>1. \A d \in Client \ {c} : Renews(d) => Renews(d)'
      BY <1>5 DEF Moved, Renews
    <3>2. Renews(c) => Renews(c)'
      BY <1>3, <1>5 DEF Renews, Writing
    <3> QED BY <3>1, <3>2
  <2> QED BY <2>1, <2>2, <2>3, <2>4, <2>5
<1>10. past \in PastSet
  BY <1>0 DEF AuthTyped
<1> QED BY <1>1, <1>5, <1>6, <1>7, <1>8, <1>9, <1>10, StoreKeeps

LEMMA SaveWritesKeeps ==
  ASSUME AuthInv, NEW c \in Client, SaveWrites(c)
  PROVE  AuthInv'
<1> DEFINE job == cl[c].job
<1>0. AuthTyped /\ cl[c] \in ClientSet /\ ClientOK(c) /\ past \in PastSet
  BY DEF AuthInv, AuthTyped
<1>1. UNCHANGED <<minted, live, fresh, ui, mutex>> /\ cl[c].pc = "replace"
  BY DEF SaveWrites, server, Is
<1>2. JobOK(c) /\ JobAgrees(job.ups) /\ job.ups \in Seq(UpSet) /\ cl[c].buf \in Seq(LineSet)
        /\ job.next \in Pcs /\ job.else \in Pcs
  BY <1>0, <1>1 DEF ClientOK, JobOK, Writing, ClientSet, JobSet
<1>3. PICK pc \in {job.next, job.else} :
        /\ cl' = [cl EXCEPT ![c].pc = pc, ![c].buf = <<>>, ![c].job = NoJob]
        /\ \/ file' = Edited(cl[c].buf, job.ups) /\ UNCHANGED past /\ pc = job.next
           \/ file' = file /\ past' = [past EXCEPT !.lost = TRUE] /\ pc = job.else
  BY DEF SaveWrites
<1> DEFINE r == [cl[c] EXCEPT !.pc = pc, !.buf = <<>>, !.job = NoJob]
<1>4. NoJob \in JobSet /\ <<>> \in Seq(LineSet) /\ pc \in Pcs
  <2>1. "done" \in Pcs /\ "failed" \in Pcs
    BY DEF Pcs, Plain
  <2>2. <<>> \in Seq(UpSet) /\ <<>> \in Seq(LineSet)
    OBVIOUS
  <2> QED BY <1>2, <2>1, <2>2 DEF NoJob, JobSet
<1>5. r \in ClientSet
  BY <1>0, <1>4 DEF ClientSet
<1>6. r.pc = pc /\ r.buf = <<>> /\ r.jwt = cl[c].jwt /\ r.refresh = cl[c].refresh
  BY <1>0 DEF ClientSet
<1>7. cl' = [cl EXCEPT ![c] = r]
  BY <1>3
<1> HIDE DEF r
<1>8. Moved(c) /\ cl'[c] = r
  BY <1>0, <1>5, <1>7 DEF AuthTyped, Moved
<1>9. /\ pc \in {"retry", "create2", "probe2", "ready", "done", "adopt", "failed", "notready", "leave"}
      /\ pc = "leave" => job.next = "leave"
      /\ pc = "adopt" => cl[c].jwt # 0
  BY <1>2, <1>3 DEF JobOK
<1>10. ClientOK(c)'
  <2>1. Agree(cl[c].jwt, cl[c].refresh)'
    BY <1>0, <1>1, <1>6, <1>8 DEF ClientOK, Agree
  <2>2. FileAgrees(cl[c].buf)'
    <3>1. cl'[c].buf = <<>> /\ DOMAIN <<>> = {} /\ 0 \in 0..Len(minted')
      BY <1>0, <1>1, <1>6, <1>8 DEF AuthTyped
    <3> QED BY <3>1 DEF FileAgrees, Once, Only
  <2>3. pc \notin Writing /\ pc # "wait" /\ pc # "expired" /\ pc # "urefresh"
    BY <1>9 DEF Writing
  <2>4. (pc \in Using => pc = "leave")
    BY <1>9 DEF Using
  <2>5. pc = "leave" => Uses(c) /\ Locks(c)
    BY <1>1, <1>9 DEF Uses, Locks, Writing
  <2>6. Uses(c)' => pc = "leave"
    BY <1>6, <1>8, <2>3, <2>4 DEF Uses
  <2>7. Locks(c)' => pc = "leave"
    BY <1>6, <1>8, <2>3 DEF Locks, Is
  <2> QED BY <1>0, <1>1, <1>6, <1>8, <1>9, <2>1, <2>2, <2>3, <2>5, <2>6, <2>7 DEF ClientOK, Is
<1>11. cl[c].pc \notin Resting /\ cl[c].pc \in Writing
  BY <1>1 DEF Resting, Writing
<1>12. pc \notin Writing /\ pc \notin {"replace", "gemini", "connector"}
  BY <1>9 DEF Writing
<1>13. CASE file' = file /\ past' = [past EXCEPT !.lost = TRUE]
  <2>1. /\ past' \in PastSet /\ past'.lost /\ past'.expired = past.expired
        /\ past'.refreshed = past.refreshed
    BY <1>0, <1>13 DEF PastSet
  <2>2. Keeps'
    BY <2>1 DEF Keeps, Clean
  <2>3. file' \in Seq(LineSet) /\ FileAgrees(file)'
    BY <1>0, <1>1, <1>13 DEF AuthInv, AuthTyped, FileAgrees
  <2> QED BY <1>1, <1>8, <1>10, <2>1, <2>2, <2>3, StoreKeeps
<1>14. CASE file' = Edited(cl[c].buf, job.ups) /\ UNCHANGED past
  <2>1. PICK n \in 0..Len(minted) : \A key \in Tokens : Puts(job.ups, key, {0, n})
    BY <1>2 DEF JobAgrees
  <2>2. /\ \A key \in Tokens : Once(cl[c].buf, key)
        /\ \E m \in 0..Len(minted) : \A key \in Tokens : Only(cl[c].buf, key, {0, m})
    BY <1>0 DEF ClientOK, FileAgrees
  <2>3. PICK m \in 0..Len(minted) : \A key \in Tokens : Only(cl[c].buf, key, {0, m})
    BY <2>2
  <2>4. \E k \in 0..Len(minted) : \A key \in Tokens :
          Puts(job.ups, key, {0, k}) /\ (Mentions(job.ups, key) \/ Only(cl[c].buf, key, {0, k}))
    <3>1. CASE Mentions(job.ups, "jwt")
      <4>1. \A key \in Tokens : Mentions(job.ups, key)
        BY <1>2, <3>1 DEF JobAgrees, Tokens
      <4> QED BY <2>1, <4>1
    <3>2. CASE ~Mentions(job.ups, "jwt")
      <4>1. \A key \in Tokens : ~Mentions(job.ups, key)
        BY <1>2, <3>2 DEF JobAgrees, Tokens
      <4>2. \A key \in Tokens : Puts(job.ups, key, {0, m})
        BY <4>1 DEF Mentions, Puts
      <4> QED BY <2>3, <4>2
    <3> QED BY <3>1, <3>2
  <2>5. PICK k \in 0..Len(minted) : \A key \in Tokens :
          Puts(job.ups, key, {0, k}) /\ (Mentions(job.ups, key) \/ Only(cl[c].buf, key, {0, k}))
    BY <2>4
  <2> HIDE DEF job
  <2>6. \A key \in Tokens : /\ file' \in Seq(LineSet) /\ Once(file', key)
                            /\ Only(file', key, {0, k})
    BY <1>2, <1>14, <2>2, <2>5, EditedKeeps
  <2>7. file' \in Seq(LineSet) /\ FileAgrees(file)'
    <3>1. "jwt" \in Tokens
      BY DEF Tokens
    <3> QED BY <1>1, <2>6, <3>1 DEF FileAgrees
  <2>8. Keeps'
    <3> SUFFICES ASSUME Clean'
                 PROVE  /\ \A d, e \in Client : cl'[d].pc \notin Resting /\ cl'[e].pc \notin Resting => d = e
                        /\ \A d \in Client : ClientKeeps(d)'
                        /\ FileKept'
      BY DEF Keeps
    <3>1. /\ \A d, e \in Client : cl[d].pc \notin Resting /\ cl[e].pc \notin Resting => d = e
          /\ \A d \in Client : ClientKeeps(d)
          /\ FileKept \/ \E d \in Client : Renews(d)
      BY <1>14 DEF AuthInv, Keeps, Clean
    <3>2. \A d \in Client \ {c} : cl[d].pc \in Resting /\ cl'[d] = cl[d]
      BY <1>8, <1>11, <3>1 DEF Moved
    <3>3. \A d, e \in Client : cl'[d].pc \notin Resting /\ cl'[e].pc \notin Resting => d = e
      BY <3>2
    <3>4. \A d \in Client : ClientKeeps(d)'
      <4> SUFFICES ASSUME NEW d \in Client PROVE ClientKeeps(d)'
        OBVIOUS
      <4>1. cl'[d].pc \notin Writing /\ cl'[d].pc \notin {"replace", "gemini", "connector"}
        <5>1. CASE d = c
          BY <1>6, <1>8, <1>12, <5>1
        <5>2. CASE d # c
          BY <3>2, <5>2 DEF Resting, Writing
        <5> QED BY <5>1, <5>2
      <4> QED BY <4>1 DEF ClientKeeps, Is
    <3>5. /\ Puts(job.ups, "refresh_token", {0} \cup fresh)
          /\ cl[c].buf = file
      BY <1>1, <1>11, <3>1 DEF ClientKeeps, Is, job
    <3>6. Mentions(job.ups, "refresh_token") \/ Only(cl[c].buf, "refresh_token", {0} \cup fresh)
      <4>1. \A d \in Client : Renews(d) => d = c
        BY <3>2 DEF Renews, Resting, Writing
      <4> QED BY <3>1, <3>5, <4>1 DEF Renews, FileKept, job
    <3>7. "refresh_token" \in Tokens
      BY DEF Tokens
    <3>8. Only(file', "refresh_token", {0} \cup fresh)
      BY <1>2, <1>14, <2>2, <3>5, <3>6, <3>7, EditedKeeps
    <3> QED BY <1>1, <3>3, <3>4, <3>8 DEF FileKept
  <2> QED BY <1>0, <1>1, <1>8, <1>10, <1>14, <2>7, <2>8, StoreKeeps
<1> QED BY <1>3, <1>13, <1>14

-----------------------------------------------------------------------------
(* The steps of the handlers.                                              *)

\* A handler goes on using the session of the UI, or ends; it may leave the mutex.
LEMMA HandlerKeeps ==
  ASSUME AuthInv, NEW c \in Client, Moved(c), Uses(c), cl[c].pc \notin Writing,
         UNCHANGED <<file, ui, past, minted, live, fresh>>,
         mutex' = mutex \/ (mutex = c /\ mutex' = "free"),
         cl'[c].pc \in {"ask", "again", "expired", "switch", "done", "failed"},
         cl'[c].buf = cl[c].buf, cl'[c].refresh = cl[c].refresh, cl'[c].jwt \in {cl[c].jwt, ui.jwt},
         cl'[c].pc = "expired" => cl'[c].jwt \notin live
  PROVE  AuthInv'
<1>0. AuthTyped /\ ClientOK(c) /\ Grows /\ Agree(ui.jwt, ui.refresh) /\ Len(minted) \in Nat
  BY ServerRests DEF AuthInv, AuthTyped
<1>1. /\ cl'[c].pc \notin Writing
      /\ \A pc \in {"wait", "replace", "urefresh", "leave", "adopt", "gemini", "connector"} : cl'[c].pc # pc
      /\ ~Locks(c)'
  BY DEF Writing, Locks, Is
<1>2. /\ cl[c].refresh = 0 /\ ui.up /\ ui.jwt # 0 /\ cl[c].jwt # 0
      /\ cl[c].pc \notin Resting
  BY <1>0 DEF ClientOK, Uses, Using, Resting
<1>3. FileAgrees(cl[c].buf)'
  BY <1>0 DEF ClientOK, FileAgrees
<1>4. Agree(cl[c].jwt, cl[c].refresh)' /\ Agree(ui.jwt, ui.refresh)'
  <2>1. Agree(cl[c].jwt, cl[c].refresh)
    BY <1>0 DEF ClientOK
  <2> QED BY <1>0, <1>2, <2>1 DEF Agree
<1>5. ClientOK(c)'
  BY <1>1, <1>2, <1>3, <1>4 DEF ClientOK, Is
<1>6. ClientKeeps(c)'
  BY <1>1 DEF ClientKeeps, Is
<1>7. ASSUME NEW d \in Client \ {c} PROVE Spared(d)
  <2>1. ClientOK(d)
    BY DEF AuthInv
  <2> QED BY <2>1 DEF Moved, ClientOK, Spared
<1>8. Counted'
  BY <1>0, CountKeeps DEF AuthInv
<1>9. ui' \in UISet /\ mutex' \in Client \cup {"free"} /\ past' \in PastSet
  BY <1>0 DEF AuthTyped
<1> QED BY <1>0, <1>2, <1>4, <1>5, <1>6, <1>7, <1>8, <1>9, MoveKeeps

\* One that could not renew the session answers, or asks for the connectors.
LEMMA UnansweredKeeps ==
  ASSUME AuthInv, NEW c \in Client, Uses(c), cl[c].pc \notin Writing,
         cl' = [cl EXCEPT ![c] = Unanswered(c)],
         UNCHANGED <<file, ui, past, minted, live, fresh>>,
         mutex' = mutex \/ (mutex = c /\ mutex' = "free")
  PROVE  AuthInv'
<1>0. AuthTyped /\ cl[c] \in ClientSet
  BY DEF AuthInv, AuthTyped
<1>1. "ask" \in Pcs /\ "failed" \in Pcs
  BY DEF Pcs, Using, Plain
<1>2. /\ Unanswered(c) \in ClientSet /\ Unanswered(c).pc \in {"ask", "failed"}
      /\ Unanswered(c).buf = cl[c].buf /\ Unanswered(c).refresh = cl[c].refresh
      /\ Unanswered(c).jwt = cl[c].jwt
  BY <1>0, <1>1 DEF Unanswered, ClientSet
<1>3. Moved(c) /\ cl'[c] = Unanswered(c)
  BY <1>0, <1>2 DEF AuthTyped, Moved
<1> QED BY <1>2, <1>3, HandlerKeeps

LEMMA BeginHandlerKeeps ==
  ASSUME AuthInv, NEW c \in Client, BeginHandler(c)
  PROVE  AuthInv'
<1> DEFINE signedOut == ui.jwt = 0 \/ (KindOf(c) \in {"list", "proxy"} /\ ui.org = 0)
           pc == IF KindOf(c) = "reauth" THEN "login" ELSE IF signedOut THEN "failed" ELSE "ask"
           r == [cl[c] EXCEPT !.pc = pc, !.url = ui.url, !.jwt = ui.jwt, !.org = ui.org]
<1>0. AuthTyped /\ cl[c] \in ClientSet /\ ui \in UISet /\ ClientOK(c) /\ Agree(ui.jwt, ui.refresh)
  BY DEF AuthInv, AuthTyped
<1>1. /\ cl' = [cl EXCEPT ![c] = r]
      /\ UNCHANGED <<file, ui, mutex, minted, live, fresh>> /\ Is(c, "wait") /\ Began(c) /\ ui.up
  BY DEF BeginHandler, server
<1>2. pc \in {"login", "failed", "ask"} /\ (pc = "ask" => ui.jwt # 0)
  OBVIOUS
<1> HIDE DEF pc
<1>3. pc \in Pcs
  BY <1>2 DEF Pcs, Plain, Using
<1>4. /\ r \in ClientSet /\ r.pc = pc /\ r.jwt = ui.jwt /\ r.refresh = cl[c].refresh
      /\ r.buf = cl[c].buf
  BY <1>0, <1>3 DEF ClientSet, UISet
<1> HIDE DEF r
<1>5. Moved(c) /\ cl'[c] = r
  BY <1>0, <1>1, <1>4 DEF AuthTyped, Moved
<1>6. Calm(c) /\ Grows
  BY <1>0, <1>1, CalmStart, ServerRests
<1>7. cl[c].refresh = 0
  BY <1>0, <1>1 DEF ClientOK
<1>8. Agree(cl[c].jwt, cl[c].refresh)'
  <2>1. Len(minted) \in Nat
    BY <1>0 DEF AuthTyped
  <2> QED BY <1>0, <1>1, <1>4, <1>5, <1>7, <2>1 DEF Agree
<1>9. CASE pc # "ask"
  <2>1. pc \in Plain /\ pc \notin {"gemini", "connector"}
    BY <1>2, <1>9 DEF Plain
  <2> QED BY <1>1, <1>4, <1>5, <1>6, <1>8, <2>1, PlainKeeps
<1>10. CASE pc = "ask"
  <2>1. /\ cl'[c].pc \notin Writing /\ cl'[c].pc \notin {"gemini", "connector"}
        /\ \A x \in {"wait", "replace", "expired", "urefresh", "leave", "adopt"} : cl'[c].pc # x
        /\ ~Locks(c)'
    BY <1>4, <1>5, <1>10 DEF Writing, Locks, Is
  <2>2. FileAgrees(cl[c].buf)'
    BY <1>0, <1>1, <1>4, <1>5 DEF ClientOK, FileAgrees
  <2>3. ClientOK(c)'
    BY <1>1, <1>2, <1>4, <1>5, <1>7, <1>8, <1>10, <2>1, <2>2 DEF ClientOK, Is
  <2>4. ClientKeeps(c)'
    BY <2>1 DEF ClientKeeps, Is
  <2> QED BY <1>1, <1>5, <1>6, <2>3, <2>4, CalmKeeps
<1> QED BY <1>9, <1>10

LEMMA AskKeeps ==
  ASSUME AuthInv, NEW c \in Client, Ask(c)
  PROVE  AuthInv'
<1>0. AuthTyped /\ cl[c] \in ClientSet /\ ClientOK(c)
  BY DEF AuthInv, AuthTyped
<1>1. /\ UNCHANGED <<file, ui, mutex, past, minted, live, fresh>>
      /\ Uses(c) /\ cl[c].pc \notin Writing /\ cl[c].pc \notin Resting
  BY DEF Ask, server, Uses, Using, Writing, Resting
<1>2. ASSUME NEW pc \in {"ask", "expired", "switch", "done"}, NEW tries \in Nat,
             pc = "expired" => cl[c].jwt \notin live,
             cl' = [cl EXCEPT ![c] = [cl[c] EXCEPT !.pc = pc, !.tries = tries]]
      PROVE  AuthInv'
  <2> DEFINE r == [cl[c] EXCEPT !.pc = pc, !.tries = tries]
  <2>1. pc \in Pcs
    BY DEF Pcs, Using, Plain
  <2>2. /\ r \in ClientSet /\ r.pc = pc /\ r.jwt = cl[c].jwt /\ r.refresh = cl[c].refresh
        /\ r.buf = cl[c].buf
    BY <1>0, <2>1 DEF ClientSet
  <2>3. cl' = [cl EXCEPT ![c] = r]
    BY <1>2
  <2> HIDE DEF r
  <2>4. Moved(c) /\ cl'[c] = r
    BY <1>0, <2>2, <2>3 DEF AuthTyped, Moved
  <2> QED BY <1>1, <1>2, <2>2, <2>4, HandlerKeeps
<1>3. ASSUME NEW pc \in {"expired", "switch", "done"}, pc = "expired" => cl[c].jwt \notin live,
             cl' = [cl EXCEPT ![c] = [cl[c] EXCEPT !.pc = pc]]
      PROVE  AuthInv'
  <2>1. [cl[c] EXCEPT !.pc = pc] = [cl[c] EXCEPT !.pc = pc, !.tries = cl[c].tries] /\ cl[c].tries \in Nat
    BY <1>0 DEF ClientSet
  <2> QED BY <1>2, <1>3, <2>1
<1>4. ASSUME cl' = [cl EXCEPT ![c] = Listed(c)] PROVE AuthInv'
  <2> DEFINE n == IF cl[c].url \in ai THEN 1 ELSE 0
             ups == <<<<"connectors", n>>>>
             job == [ups |-> ups, next |-> "done", else |-> "done"]
             r == [cl[c] EXCEPT !.pc = "save", !.job = job]
  <2>1. cl' = [cl EXCEPT ![c] = r]
    BY <1>4 DEF Listed, Saving
  <2>2. ups \in Seq(UpSet) /\ \A i \in DOMAIN ups : ups[i] = <<"connectors", n>>
    <3>1. n \in Nat
      OBVIOUS
    <3> HIDE DEF n
    <3> QED BY <3>1, OneUpdate
  <2> HIDE DEF ups
  <2>3. \A i \in DOMAIN ups : ups[i][1] \notin Tokens
    BY <2>2 DEF Tokens
  <2>4. JobAgrees(ups) /\ \A V : Puts(ups, "refresh_token", V)
    BY <1>0, <2>3, NoTokenPut
  <2>5. "save" \in Pcs /\ "done" \in Pcs
    BY DEF Pcs, Plain, Writing
  <2>6. job \in JobSet /\ job.ups = ups /\ job.next = "done" /\ job.else = "done"
    BY <2>2, <2>5 DEF JobSet
  <2> HIDE DEF job
  <2>7. /\ r \in ClientSet /\ r.pc = "save" /\ r.job = job /\ r.jwt = cl[c].jwt
        /\ r.refresh = cl[c].refresh /\ r.buf = cl[c].buf
    BY <1>0, <2>5, <2>6 DEF ClientSet
  <2> HIDE DEF r
  <2>8. Moved(c) /\ cl'[c] = r
    BY <1>0, <2>1, <2>7 DEF AuthTyped, Moved
  <2>9. Calm(c) /\ Grows /\ Later
    BY <1>0, <1>1, CalmStep, ServerRests DEF Grows
  <2>10. Agree(cl[c].jwt, cl[c].refresh)'
    BY <2>7, <2>8, <2>9, AgreeLater
  <2>11. JobAgrees(cl[c].job.ups)'
    <3>1. cl'[c].job.ups = ups
      BY <2>6, <2>7, <2>8
    <3>2. \A x : JobAgrees(x) => JobAgrees(x)'
      BY <1>0, <2>9, LaterKeeps
    <3> QED BY <2>4, <3>1, <3>2 DEF JobAgrees
  <2>12. JobOK(c)' /\ cl'[c].job.next # "leave"
    BY <2>6, <2>7, <2>8, <2>11 DEF JobOK
  <2>13. Puts(cl'[c].job.ups, "refresh_token", {0} \cup fresh')
    BY <2>4, <2>6, <2>7, <2>8
  <2> QED BY <1>1, <2>7, <2>8, <2>9, <2>10, <2>12, <2>13, SavesKeeps
<1>5. ASSUME cl' = [cl EXCEPT ![c] = Answered(c)] PROVE AuthInv'
  <2>1. CASE KindOf(c) = "list"
    BY <1>4, <1>5, <2>1 DEF Answered
  <2>2. CASE KindOf(c) = "proxy"
    BY <1>3, <1>5, <2>2 DEF Answered, Proxied
  <2>3. CASE KindOf(c) = "status"
    BY <1>2, <1>5, <2>3 DEF Answered, Checked
  <2>4. CASE KindOf(c) \notin {"list", "proxy", "status"}
    BY <1>3, <1>5, <2>4 DEF Answered
  <2> QED BY <2>1, <2>2, <2>3, <2>4
<1>6. CASE cl' = [cl EXCEPT ![c] = Unanswered(c)]
  BY <1>1, <1>6, UnansweredKeeps
<1>7. CASE cl[c].jwt \notin live /\ cl' = [cl EXCEPT ![c] = [cl[c] EXCEPT !.pc = "expired"]]
  BY <1>3, <1>7
<1> QED BY <1>5, <1>6, <1>7 DEF Ask

LEMMA EnterRefreshKeeps ==
  ASSUME AuthInv, NEW c \in Client, EnterRefresh(c)
  PROVE  AuthInv'
<1>0. AuthTyped /\ cl[c] \in ClientSet /\ ClientOK(c) /\ ui \in UISet /\ Grows
  BY ServerRests DEF AuthInv, AuthTyped, EnterRefresh, server
<1>1. /\ UNCHANGED <<file, ui, past, minted, live, fresh>> /\ mutex = "free" /\ cl[c].pc = "expired"
      /\ Uses(c) /\ cl[c].pc \notin Writing /\ cl[c].pc \notin Resting
  BY DEF EnterRefresh, server, Is, Uses, Using, Writing, Resting
<1>2. CASE UNCHANGED mutex /\ cl' = [cl EXCEPT ![c].pc = "again", ![c].jwt = ui.jwt]
  <2> DEFINE r == [cl[c] EXCEPT !.pc = "again", !.jwt = ui.jwt]
  <2>1. "again" \in Pcs
    BY DEF Pcs, Using
  <2>2. /\ r \in ClientSet /\ r.pc = "again" /\ r.jwt = ui.jwt /\ r.refresh = cl[c].refresh
        /\ r.buf = cl[c].buf
    BY <1>0, <2>1 DEF ClientSet, UISet
  <2>3. cl' = [cl EXCEPT ![c] = r]
    BY <1>2
  <2> HIDE DEF r
  <2>4. Moved(c) /\ cl'[c] = r
    BY <1>0, <2>2, <2>3 DEF AuthTyped, Moved
  <2> QED BY <1>1, <1>2, <2>2, <2>4, HandlerKeeps
<1>3. CASE UNCHANGED mutex /\ cl' = [cl EXCEPT ![c] = Unanswered(c)]
  BY <1>1, <1>3, UnansweredKeeps
<1>4. CASE ~Refreshed(c) /\ mutex' = c /\ To(c, "urefresh")
  <2>1. "urefresh" \in Pcs
    BY DEF Pcs, Using
  <2>2. Moved(c) /\ Same(c) /\ cl'[c].pc = "urefresh"
    BY <1>0, <1>4, <2>1, ToMoves
  <2>3. /\ cl'[c].pc \notin Writing
        /\ \A pc \in {"wait", "replace", "expired", "leave", "adopt", "gemini", "connector"} : cl'[c].pc # pc
    BY <2>2 DEF Writing
  <2>4. ui.jwt \notin live /\ ui.up /\ ui.jwt # 0 /\ cl[c].jwt # 0 /\ cl[c].refresh = 0
    BY <1>0, <1>1, <1>4 DEF ClientOK, Is, Refreshed
  <2>5. Agree(cl[c].jwt, cl[c].refresh)' /\ Agree(ui.jwt, ui.refresh)'
    BY <1>0, <1>1, <2>2 DEF AuthInv, ClientOK, Agree, Same
  <2>6. FileAgrees(cl[c].buf)'
    BY <1>0, <1>1, <2>2 DEF ClientOK, FileAgrees, Same
  <2>7. ClientOK(c)'
    BY <1>1, <1>4, <2>2, <2>3, <2>4, <2>5, <2>6 DEF ClientOK, Is, Same
  <2>8. ClientKeeps(c)'
    BY <2>3 DEF ClientKeeps, Is
  <2>9. ASSUME NEW d \in Client \ {c} PROVE Spared(d)
    <3>1. ClientOK(d) /\ d # "free"
      BY NoFree DEF AuthInv
    <3> QED BY <1>1, <2>2, <3>1 DEF Moved, ClientOK, Spared
  <2>10. Counted'
    BY <1>0, <1>1, CountKeeps DEF AuthInv
  <2>11. ui' \in UISet /\ mutex' \in Client \cup {"free"} /\ past' \in PastSet
    BY <1>0, <1>1, <1>4 DEF AuthTyped
  <2> QED BY <1>0, <1>1, <2>2, <2>5, <2>7, <2>8, <2>9, <2>10, <2>11, MoveKeeps
<1> QED BY <1>2, <1>3, <1>4 DEF EnterRefresh

LEMMA LeaveRefreshKeeps ==
  ASSUME AuthInv, NEW c \in Client, LeaveRefresh(c)
  PROVE  AuthInv'
<1>0. AuthTyped /\ cl[c] \in ClientSet /\ ClientOK(c) /\ ui \in UISet
  BY DEF AuthInv, AuthTyped
<1>1. /\ UNCHANGED <<file, ui, past, minted, live, fresh>> /\ mutex' = "free" /\ cl[c].pc = "leave"
      /\ Uses(c) /\ cl[c].pc \notin Writing
  BY DEF LeaveRefresh, server, Is, Uses, Using, Writing
<1>2. mutex = c
  BY <1>0, <1>1 DEF ClientOK, Locks, Is
<1> DEFINE r == [cl[c] EXCEPT !.pc = "again", !.jwt = ui.jwt]
<1>3. "again" \in Pcs
  BY DEF Pcs, Using
<1>4. /\ r \in ClientSet /\ r.pc = "again" /\ r.jwt = ui.jwt /\ r.refresh = cl[c].refresh
      /\ r.buf = cl[c].buf
  BY <1>0, <1>3 DEF ClientSet, UISet
<1>5. cl' = [cl EXCEPT ![c] = r]
  BY DEF LeaveRefresh
<1> HIDE DEF r
<1>6. Moved(c) /\ cl'[c] = r
  BY <1>0, <1>4, <1>5 DEF AuthTyped, Moved
<1> QED BY <1>1, <1>2, <1>4, <1>6, HandlerKeeps

\* The UI's session becomes one that its handlers may go on with, while none of them renews it.
LEMMA SessionKeeps ==
  ASSUME AuthInv, NEW c \in Client, Moved(c), cl[c].pc \notin Resting, cl[c].pc \notin Writing,
         UNCHANGED <<file, past, minted, live, fresh, mutex>>, mutex = "free",
         ui' \in UISet, Agree(ui.jwt, ui.refresh)', ui'.up = ui.up, ui.jwt # 0 => ui'.jwt # 0,
         ClientOK(c)', ClientKeeps(c)'
  PROVE  AuthInv'
<1>0. AuthTyped /\ Grows
  BY ServerRests DEF AuthInv
<1>1. ASSUME NEW d \in Client \ {c} PROVE Spared(d)
  <2>1. ClientOK(d) /\ d # "free"
    BY NoFree DEF AuthInv
  <2> QED BY <2>1 DEF Moved, ClientOK, Spared
<1>2. Counted'
  BY <1>0, CountKeeps DEF AuthInv
<1>3. mutex' \in Client \cup {"free"} /\ past' \in PastSet
  BY <1>0 DEF AuthTyped
<1> QED BY <1>0, <1>1, <1>2, <1>3, MoveKeeps

LEMMA SwitchOrgKeeps ==
  ASSUME AuthInv, NEW c \in Client, SwitchOrg(c)
  PROVE  AuthInv'
<1> DEFINE org == cl[c].plan.org
           r == [cl[c] EXCEPT !.pc = "orgkey", !.org = org, !.jwt = ui.jwt]
<1>0. /\ AuthTyped /\ cl[c] \in ClientSet /\ ClientOK(c) /\ ui \in UISet /\ Agree(ui.jwt, ui.refresh)
      /\ Len(minted) \in Nat
  BY DEF AuthInv, AuthTyped
<1>1. /\ UNCHANGED <<file, past, minted, live, fresh, mutex>> /\ mutex = "free" /\ cl[c].pc = "switch"
      /\ ui' = [ui EXCEPT !.org = org] /\ cl' = [cl EXCEPT ![c] = r]
      /\ Uses(c) /\ cl[c].pc \notin Writing /\ cl[c].pc \notin Resting
  BY DEF SwitchOrg, server, Is, Uses, Using, Writing, Resting
<1>2. org \in Nat
  BY <1>0 DEF ClientSet, PlanSet
<1> HIDE DEF org
<1>3. "orgkey" \in Pcs
  BY DEF Pcs, Plain
<1>4. /\ r \in ClientSet /\ r.pc = "orgkey" /\ r.jwt = ui.jwt /\ r.refresh = cl[c].refresh
      /\ r.buf = cl[c].buf
  BY <1>0, <1>2, <1>3 DEF ClientSet, UISet
<1> HIDE DEF r
<1>5. Moved(c) /\ cl'[c] = r
  BY <1>0, <1>1, <1>4 DEF AuthTyped, Moved
<1>6. /\ ui' \in UISet /\ ui'.up = ui.up /\ ui'.jwt = ui.jwt /\ ui'.refresh = ui.refresh
  BY <1>0, <1>1, <1>2 DEF UISet
<1>7. cl[c].refresh = 0
  BY <1>0, <1>1 DEF ClientOK
<1>8. Agree(ui.jwt, ui.refresh)' /\ Agree(cl[c].jwt, cl[c].refresh)'
  BY <1>0, <1>1, <1>4, <1>5, <1>6, <1>7 DEF Agree
<1>9. /\ cl'[c].pc \notin Writing /\ cl'[c].pc \notin Using
      /\ \A pc \in {"wait", "replace", "expired", "urefresh", "leave", "adopt", "gemini", "connector"} :
           cl'[c].pc # pc
  BY <1>4, <1>5 DEF Writing, Using
<1>10. ~Uses(c)' /\ ~Locks(c)'
  BY <1>9 DEF Uses, Locks, Is
<1>11. FileAgrees(cl[c].buf)'
  BY <1>0, <1>1, <1>4, <1>5 DEF ClientOK, FileAgrees
<1>12. ClientOK(c)'
  BY <1>8, <1>9, <1>10, <1>11 DEF ClientOK, Is
<1>13. ClientKeeps(c)'
  BY <1>9 DEF ClientKeeps, Is
<1> QED BY <1>1, <1>5, <1>6, <1>8, <1>12, <1>13, SessionKeeps

LEMMA AdoptKeeps ==
  ASSUME AuthInv, NEW c \in Client, Adopt(c)
  PROVE  AuthInv'
<1>0. /\ AuthTyped /\ cl[c] \in ClientSet /\ ClientOK(c) /\ ui \in UISet
      /\ Len(minted) \in Nat
  BY DEF AuthInv, AuthTyped
<1>1. /\ UNCHANGED <<file, past, minted, live, fresh, mutex>> /\ mutex = "free" /\ cl[c].pc = "adopt"
      /\ To(c, "done") /\ cl[c].pc \notin Writing /\ cl[c].pc \notin Resting
  BY DEF Adopt, server, Is, Writing, Resting
<1>2. "done" \in Pcs
  BY DEF Pcs, Plain
<1>3. Moved(c) /\ Same(c) /\ cl'[c].pc = "done"
  BY <1>0, <1>1, <1>2, ToMoves
<1>4. /\ ui' \in UISet /\ ui'.up = ui.up /\ ui'.jwt = cl[c].jwt /\ ui'.refresh = cl[c].refresh
  BY <1>0 DEF Adopt, UISet, ClientSet
<1>5. cl[c].jwt # 0
  BY <1>0, <1>1 DEF ClientOK, Is
<1>6. Agree(ui.jwt, ui.refresh)' /\ Agree(cl[c].jwt, cl[c].refresh)'
  BY <1>0, <1>1, <1>3, <1>4 DEF ClientOK, Agree, Same
<1>7. /\ cl'[c].pc \notin Writing /\ cl'[c].pc \notin Using
      /\ \A pc \in {"wait", "replace", "expired", "urefresh", "leave", "adopt", "gemini", "connector"} :
           cl'[c].pc # pc
  BY <1>3 DEF Writing, Using
<1>8. ~Uses(c)' /\ ~Locks(c)'
  BY <1>7 DEF Uses, Locks, Is
<1>9. FileAgrees(cl[c].buf)'
  BY <1>0, <1>1, <1>3 DEF ClientOK, FileAgrees, Same
<1>10. ClientOK(c)'
  BY <1>6, <1>7, <1>8, <1>9 DEF ClientOK, Is
<1>11. ClientKeeps(c)'
  BY <1>7 DEF ClientKeeps, Is
<1> QED BY <1>1, <1>3, <1>4, <1>5, <1>6, <1>10, <1>11, SessionKeeps

\* The UI renews the session that has expired: its refresh token is taken once.
LEMMA RefreshCounted ==
  ASSUME AuthTyped, Counted, ui.jwt \notin live, Agree(ui.jwt, ui.refresh), ui.jwt # 0,
         ui.refresh \in fresh, live' = live \cup {New}, fresh' = (fresh \ {ui.refresh}) \cup {New},
         Len(minted') = New, past'.expired = past.expired, past'.refreshed = past.refreshed + 1
  PROVE  Counted'
<1> DEFINE R == ui.refresh
<1>1. PICK D \in SUBSET Issued, S \in SUBSET Issued :
        /\ S \subseteq D
        /\ Cardinality(D) <= past.expired /\ past.refreshed <= Cardinality(S)
        /\ D \cap live = {} /\ fresh \subseteq live \cup D /\ S \cap fresh = {}
  BY DEF Counted
<1>2. Len(minted) \in Nat /\ past.refreshed \in Nat /\ New = Len(minted) + 1 /\ fresh \subseteq Issued
  BY DEF AuthTyped, PastSet, New
<1>3. R = ui.jwt /\ R \in D /\ R \notin S
  <2>1. R # 0
    BY <1>2 DEF Issued
  <2> QED BY <1>1, <2>1 DEF Agree
<1>4. IsFiniteSet(S)
  <2>1. IsFiniteSet(1..Len(minted))
    BY <1>2, FS_Interval
  <2> QED BY <1>1, <2>1, FS_Subset DEF Issued
<1> DEFINE T == S \cup {R}
<1>5. Cardinality(T) = Cardinality(S) + 1 /\ Cardinality(S) \in Nat
  BY <1>3, <1>4, FS_AddElement, FS_CardinalityType
<1>6. Issued \subseteq Issued' /\ New \notin Issued
  BY <1>2 DEF Issued
<1>7. D \in SUBSET Issued' /\ T \in SUBSET Issued' /\ T \subseteq D
  BY <1>1, <1>3, <1>6
<1>8. Cardinality(D) <= past'.expired /\ past'.refreshed <= Cardinality(T)
  BY <1>1, <1>2, <1>5
<1>9. D \cap live' = {} /\ fresh' \subseteq live' \cup D /\ T \cap fresh' = {}
  BY <1>1, <1>3, <1>6
<1> HIDE DEF T
<1> QED BY <1>7, <1>8, <1>9 DEF Counted

LEMMA UIRefreshKeeps ==
  ASSUME AuthInv, NEW c \in Client, UIRefresh(c)
  PROVE  AuthInv'
<1>0. /\ AuthTyped /\ cl[c] \in ClientSet /\ ClientOK(c) /\ ui \in UISet
      /\ Len(minted) \in Nat /\ Agree(ui.jwt, ui.refresh) /\ past \in PastSet
  BY DEF AuthInv, AuthTyped
<1>1. /\ UNCHANGED file /\ cl[c].pc = "urefresh"
      /\ Uses(c) /\ cl[c].pc \notin Writing /\ cl[c].pc \notin Resting
  BY DEF UIRefresh, Is, Uses, Using, Writing, Resting
<1>2. mutex = c /\ ui.jwt \notin live /\ ui.up /\ ui.jwt # 0 /\ cl[c].refresh = 0
  BY <1>0, <1>1 DEF ClientOK, Locks, Is
<1>3. CASE /\ cl' = [cl EXCEPT ![c] = Unanswered(c)] /\ mutex' = "free"
           /\ UNCHANGED <<minted, live, fresh, ui, past>>
  BY <1>1, <1>2, <1>3, UnansweredKeeps
<1>4. CASE /\ ui.refresh \in fresh
           /\ Mint(<<Session(ui.url)>>)
           /\ live' = live \cup {New} /\ fresh' = (fresh \ {ui.refresh}) \cup {New}
           /\ ui' = [ui EXCEPT !.jwt = New, !.refresh = New]
           /\ cl' = [cl EXCEPT ![c] = [SavedTokens(c, "leave", "leave") EXCEPT !.jwt = New]]
           /\ past' = [past EXCEPT !.refreshed = @ + 1]
           /\ UNCHANGED mutex
  <2>1. Grows /\ New \in Nat \ {0} /\ Len(minted') = New /\ New \in fresh'
    <3> DEFINE m == Session(ui.url)
               more == <<m>>
    <3>1. m \in [url : Nat, org : Nat]
      BY <1>0 DEF Session, UISet
    <3> HIDE DEF m
    <3>2. more \in Seq([url : Nat, org : Nat]) /\ Len(more) = 1
      BY <3>1
    <3> HIDE DEF more
    <3>3. Mint(more) /\ fresh' \subseteq fresh \cup {New} /\ New \in fresh'
      BY <1>4 DEF more, m
    <3>4. Len(more) >= 1
      BY <3>2
    <3>5. Grows /\ New \in Nat \ {0} /\ Len(minted') = Len(minted) + Len(more)
      BY <1>0, <1>4, <3>2, <3>3, <3>4, SessionMinted
    <3> QED BY <3>2, <3>3, <3>5 DEF New
  <2> DEFINE ups == <<<<"jwt", New>>, <<"refresh_token", New>>>>
             job == [ups |-> ups, next |-> "leave", else |-> "leave"]
             r == [cl[c] EXCEPT !.pc = "save", !.job = job, !.jwt = New]
  <2>2. ups \in Seq(UpSet) /\ \A key \in Tokens : Mentions(ups, key) /\ Puts(ups, key, {New})
    BY <2>1, TokenUpdates
  <2>3. cl' = [cl EXCEPT ![c] = r]
    BY <1>4 DEF SavedTokens, Saving
  <2> HIDE DEF ups
  <2>4. "save" \in Pcs /\ "leave" \in Pcs
    BY DEF Pcs, Using, Writing
  <2>5. job \in JobSet /\ job.ups = ups /\ job.next = "leave" /\ job.else = "leave"
    BY <2>2, <2>4 DEF JobSet
  <2> HIDE DEF job
  <2>6. r \in ClientSet
    BY <1>0, <2>1, <2>4, <2>5 DEF ClientSet
  <2>7. r.pc = "save" /\ r.job = job /\ r.jwt = New /\ r.refresh = 0 /\ r.buf = cl[c].buf
    BY <1>0, <1>2 DEF ClientSet
  <2> HIDE DEF r
  <2>8. Moved(c) /\ cl'[c] = r
    BY <1>0, <2>3, <2>6 DEF AuthTyped, Moved
  <2>9. /\ ui' \in UISet /\ ui'.up = ui.up /\ ui'.jwt = New /\ ui'.refresh = New
    BY <1>0, <1>4, <2>1 DEF UISet
  <2>10. /\ past' \in PastSet /\ past'.lost = past.lost /\ past'.met = past.met
         /\ past'.expired = past.expired /\ past'.refreshed = past.refreshed + 1
    BY <1>0, <1>4 DEF PastSet
  <2>11. Agree(ui.jwt, ui.refresh)' /\ Agree(cl[c].jwt, cl[c].refresh)'
    BY <2>1, <2>7, <2>8, <2>9 DEF Agree
  <2>12. Counted'
    BY <1>0, <1>2, <1>4, <2>1, <2>10, RefreshCounted DEF AuthInv
  <2>13. cl'[c].job.ups = ups /\ "jwt" \in Tokens /\ "refresh_token" \in Tokens
    BY <2>5, <2>7, <2>8 DEF Tokens
  <2>14. JobAgrees(cl[c].job.ups)'
    <3>1. New \in 0..Len(minted')
      BY <2>1
    <3>2. \A key \in Tokens : Puts(ups, key, {0, New})
      BY <2>2 DEF Puts
    <3> QED BY <2>2, <2>13, <3>1, <3>2 DEF JobAgrees
  <2>15. JobOK(c)'
    BY <2>5, <2>7, <2>8, <2>14 DEF JobOK
  <2>16. FileAgrees(cl[c].buf)'
    <3>1. \A lines : FileAgrees(lines) => FileAgrees(lines)'
      BY <1>0, <2>1, LaterKeeps DEF Grows
    <3>2. FileAgrees(cl[c].buf)
      BY <1>0 DEF ClientOK
    <3> QED BY <2>7, <2>8, <3>1, <3>2 DEF FileAgrees
  <2>17. \A pc \in {"wait", "replace", "expired", "urefresh", "adopt", "gemini", "connector"} : cl'[c].pc # pc
    BY <2>7, <2>8
  <2>18. ClientOK(c)'
    BY <1>2, <1>4, <2>1, <2>7, <2>8, <2>9, <2>11, <2>15, <2>16, <2>17 DEF ClientOK, Is
  <2>19. ClientKeeps(c)'
    <3>1. Puts(ups, "refresh_token", {0} \cup fresh')
      BY <2>1, <2>2, <2>13 DEF Puts
    <3> QED BY <2>13, <2>17, <3>1 DEF ClientKeeps, Is
  <2>20. Renews(c)'
    BY <2>2, <2>7, <2>8, <2>13 DEF Renews, Writing
  <2>21. ASSUME NEW d \in Client \ {c} PROVE Spared(d)
    <3>1. ClientOK(d)
      BY DEF AuthInv
    <3> QED BY <1>2, <2>1, <2>8, <2>9, <3>1 DEF Moved, ClientOK, Spared
  <2>22. mutex' \in Client \cup {"free"}
    BY <1>0, <1>4 DEF AuthTyped
  <2> QED BY <1>1, <2>1, <2>8, <2>9, <2>10, <2>11, <2>12, <2>18, <2>19, <2>20, <2>21, <2>22, MoveKeeps
<1> QED BY <1>3, <1>4 DEF UIRefresh

-----------------------------------------------------------------------------
(* The UI starts and stops; an access token expires.                       *)

LEMMA UIKeeps ==
  ASSUME AuthInv, UNCHANGED <<file, minted, live, fresh, mutex, cl>>,
         ui' \in UISet, Agree(ui.jwt, ui.refresh)', \A d \in Client : ~Uses(d),
         past' \in PastSet, past'.expired = past.expired, past'.refreshed = past.refreshed,
         past.met => past'.met, past'.lost = past.lost
  PROVE  AuthInv'
<1>0. AuthTyped /\ Grows /\ Later
  BY ServerRests DEF AuthInv, Grows
<1>1. AuthTyped'
  BY <1>0 DEF AuthTyped, Issued
<1>2. FileAgrees(file)'
  BY DEF AuthInv, FileAgrees
<1>3. ASSUME NEW d \in Client PROVE ClientOK(d)'
  <2>1. ClientOK(d) /\ Agree(ui.jwt, ui.refresh) /\ ~Uses(d)
    BY DEF AuthInv
  <2>2. ~Locks(d)
    BY <2>1 DEF Uses, Locks, Is, Using
  <2>3. Spared(d)
    BY <2>1, <2>2 DEF Spared
  <2>4. live' \subseteq live \cup {New}
    OBVIOUS
  <2> QED BY <1>0, <2>1, <2>3, <2>4, OtherKeeps
<1>4. Counted'
  BY <1>0, CountKeeps DEF AuthInv
<1>5. Keeps'
  <2>1. Clean' => Clean
    BY DEF Clean
  <2>2. \A d \in Client : ClientKeeps(d)' = ClientKeeps(d) /\ Renews(d)' = Renews(d)
    BY DEF ClientKeeps, Renews, Is
  <2>3. FileKept' = FileKept
    BY DEF FileKept
  <2> QED BY <2>1, <2>2, <2>3 DEF AuthInv, Keeps
<1> QED BY <1>1, <1>2, <1>3, <1>4, <1>5 DEF AuthInv

LEMMA UIStartKeeps ==
  ASSUME AuthInv, UIStart
  PROVE  AuthInv'
<1>0. AuthTyped /\ Len(minted) \in Nat /\ past \in PastSet
  BY DEF AuthInv, AuthTyped
<1>1. UNCHANGED <<file, minted, live, fresh, mutex, cl>> /\ ~ui.up
  BY DEF UIStart, server
<1>2. \A d \in Client : ~Uses(d)
  BY <1>1 DEF AuthInv, ClientOK
<1>3. /\ Agree(Value(file, "jwt"), Value(file, "refresh_token"))
      /\ \A key : Value(file, key) \in Nat
      /\ APIURL(file) \in Nat
  BY LoadAgrees
<1>4. ui' \in UISet /\ Agree(ui'.jwt, ui'.refresh)
  <2>1. CASE ui' = [up |-> TRUE, url |-> APIURL(file), jwt |-> Value(file, "jwt"),
                    refresh |-> Value(file, "refresh_token"), org |-> Value(file, "org_id")]
    <3> DEFINE jwt == Value(file, "jwt")
               refresh == Value(file, "refresh_token")
               org == Value(file, "org_id")
               url == APIURL(file)
    <3>1. jwt \in Nat /\ refresh \in Nat /\ org \in Nat /\ url \in Nat /\ Agree(jwt, refresh)
      BY <1>3
    <3>2. ui' = [up |-> TRUE, url |-> url, jwt |-> jwt, refresh |-> refresh, org |-> org]
      BY <2>1
    <3> HIDE DEF jwt, refresh, org, url
    <3>3. ui' \in UISet /\ ui'.jwt = jwt /\ ui'.refresh = refresh
      BY <3>1, <3>2 DEF UISet
    <3> QED BY <3>1, <3>3
  <2>2. CASE ui' = [NoUI EXCEPT !.up = TRUE, !.url = Cloud]
    <3>1. ui' = [up |-> TRUE, url |-> 1, jwt |-> 0, refresh |-> 0, org |-> 0]
      BY <2>2 DEF NoUI, Cloud
    <3>2. ui' \in UISet /\ ui'.jwt = 0 /\ ui'.refresh = 0
      BY <3>1 DEF UISet
    <3> QED BY <1>0, <3>2 DEF Agree
  <2> QED BY <2>1, <2>2 DEF UIStart
<1>5. Agree(ui.jwt, ui.refresh)'
  BY <1>1, <1>4 DEF Agree
<1>6. /\ past' \in PastSet /\ past'.expired = past.expired /\ past'.refreshed = past.refreshed
      /\ (past.met => past'.met) /\ past'.lost = past.lost
  <2> DEFINE m == past.met \/ Active # {}
  <2>1. past' = [past EXCEPT !.met = m] /\ m \in BOOLEAN /\ (past.met => m)
    BY <1>0 DEF UIStart, PastSet
  <2> HIDE DEF m
  <2> QED BY <1>0, <2>1 DEF PastSet
<1> QED BY <1>1, <1>2, <1>4, <1>5, <1>6, UIKeeps

LEMMA UIStopKeeps ==
  ASSUME AuthInv, UIStop
  PROVE  AuthInv'
<1>0. AuthTyped /\ Len(minted) \in Nat /\ past \in PastSet
  BY DEF AuthInv, AuthTyped
<1>1. UNCHANGED <<file, minted, live, fresh, mutex, cl, past>> /\ ui' = NoUI
  BY DEF UIStop, server
<1>2. ASSUME NEW d \in Client PROVE ~Uses(d)
  <2>1. cl[d].pc \in {"wait", "done", "failed"}
    BY DEF UIStop, Active
  <2> QED BY <2>1 DEF Uses, Using, Writing
<1>3. ui' \in UISet
  BY <1>1 DEF UISet, NoUI
<1>4. Agree(ui.jwt, ui.refresh)'
  BY <1>0, <1>1 DEF Agree, NoUI
<1> QED BY <1>0, <1>1, <1>2, <1>3, <1>4, UIKeeps

LEMMA ExpireKeeps ==
  ASSUME AuthInv, Expire
  PROVE  AuthInv'
<1>0. AuthTyped /\ Len(minted) \in Nat /\ past \in PastSet /\ live \subseteq Issued
  BY DEF AuthInv, AuthTyped
<1>1. UNCHANGED <<file, minted, fresh, ui, mutex, cl>> /\ past' = [past EXCEPT !.expired = @ + 1]
  BY DEF Expire
<1>2. PICK n \in live : live' = live \ {n}
  BY DEF Expire
<1>3. /\ past' \in PastSet /\ past'.met = past.met /\ past'.lost = past.lost
      /\ past'.expired = past.expired + 1 /\ past'.refreshed = past.refreshed /\ past.expired \in Nat
  BY <1>0, <1>1 DEF PastSet
<1>4. AuthTyped'
  BY <1>0, <1>1, <1>2, <1>3 DEF AuthTyped, Issued
<1>5. FileAgrees(file)' /\ Agree(ui.jwt, ui.refresh)'
  BY <1>1 DEF AuthInv, FileAgrees, Agree
<1>6. Later
  BY <1>0, <1>1 DEF Later, AuthTyped
<1>7. ASSUME NEW d \in Client PROVE ClientOK(d)'
  <2>1. ClientOK(d) /\ Agree(ui.jwt, ui.refresh)
    BY DEF AuthInv
  <2>2. Spared(d)
    BY <1>1, <2>1 DEF ClientOK, Spared
  <2>3. live' \subseteq live \cup {New}
    BY <1>2
  <2> QED BY <1>0, <1>6, <2>1, <2>2, <2>3, OtherKeeps
<1>8. Counted'
  <2>1. PICK D \in SUBSET Issued, S \in SUBSET Issued :
          /\ S \subseteq D
          /\ Cardinality(D) <= past.expired /\ past.refreshed <= Cardinality(S)
          /\ D \cap live = {} /\ fresh \subseteq live \cup D /\ S \cap fresh = {}
    BY DEF AuthInv, Counted
  <2> DEFINE E == D \cup {n}
  <2>2. IsFiniteSet(D)
    <3>1. IsFiniteSet(1..Len(minted))
      BY <1>0, FS_Interval
    <3> QED BY <2>1, <3>1, FS_Subset DEF Issued
  <2>3. Cardinality(E) = Cardinality(D) + 1 /\ Cardinality(D) \in Nat
    BY <1>2, <2>1, <2>2, FS_AddElement, FS_CardinalityType
  <2>4. E \in SUBSET Issued' /\ S \in SUBSET Issued' /\ S \subseteq E
    BY <1>0, <1>1, <1>2, <2>1 DEF Issued
  <2>5. E \cap live' = {} /\ fresh' \subseteq live' \cup E /\ S \cap fresh' = {}
    BY <1>1, <1>2, <2>1
  <2>6. Cardinality(E) <= past'.expired /\ past'.refreshed <= Cardinality(S)
    BY <1>3, <2>1, <2>3
  <2> HIDE DEF E
  <2> QED BY <2>4, <2>5, <2>6 DEF Counted
<1>9. Keeps'
  <2>1. Clean' = Clean
    BY <1>3 DEF Clean
  <2>2. \A d \in Client : ClientKeeps(d)' = ClientKeeps(d) /\ Renews(d)' = Renews(d)
    BY <1>1 DEF ClientKeeps, Renews, Is
  <2>3. FileKept' = FileKept
    BY <1>1 DEF FileKept
  <2> QED BY <1>1, <2>1, <2>2, <2>3 DEF AuthInv, Keeps
<1> QED BY <1>4, <1>5, <1>7, <1>8, <1>9 DEF AuthInv

LEMMA AuthRests ==
  ASSUME AuthInv, UNCHANGED authVars
  PROVE  AuthInv'
<1>1. UNCHANGED <<file, minted, live, fresh, mutex, cl, ui, past>>
  BY DEF authVars
<1>2. AuthTyped' = AuthTyped
  BY <1>1 DEF AuthTyped, Issued
<1>3. FileAgrees(file)' = FileAgrees(file) /\ Agree(ui.jwt, ui.refresh)' = Agree(ui.jwt, ui.refresh)
  BY <1>1 DEF FileAgrees, Agree
<1>4. ASSUME NEW d \in Client PROVE ClientOK(d)'
  <2>1. ClientOK(d) /\ Agree(ui.jwt, ui.refresh) /\ AuthTyped
    BY DEF AuthInv
  <2>2. Spared(d)
    BY <1>1, <2>1 DEF ClientOK, Spared
  <2>3. live' \subseteq live \cup {New} /\ Later
    BY <1>1, <2>1, ServerRests DEF Grows
  <2> QED BY <2>1, <2>2, <2>3, OtherKeeps
<1>5. Counted' = Counted
  BY <1>1 DEF Counted, Issued
<1>6. Keeps'
  <2>1. Clean' = Clean
    BY <1>1 DEF Clean
  <2>2. \A d \in Client : ClientKeeps(d)' = ClientKeeps(d) /\ Renews(d)' = Renews(d)
    BY <1>1 DEF ClientKeeps, Renews, Is
  <2>3. FileKept' = FileKept
    BY <1>1 DEF FileKept
  <2> QED BY <1>1, <2>1, <2>2, <2>3 DEF AuthInv, Keeps
<1> QED BY <1>2, <1>3, <1>4, <1>5, <1>6 DEF AuthInv

-----------------------------------------------------------------------------
(* Every state reached.                                                    *)

\* The file lrc finds names session 1 at most, on a line of each token.
LEMMA AuthStarts ==
  ASSUME AuthInit
  PROVE  AuthInv
<1>1. PICK plan \in AuthPlans :
        cl = [c \in Client |-> [plan |-> plan[c], pc |-> "wait", url |-> Cloud, jwt |-> 0, refresh |-> 0,
                                org |-> 0, key |-> 0, buf |-> <<>>, job |-> NoJob, tries |-> 0]]
  BY DEF AuthInit
<1>2. /\ "wait" \in Pcs /\ "done" \in Pcs /\ "failed" \in Pcs
  BY DEF Pcs, Plain
<1>3. NoJob \in JobSet
  <2>1. <<>> \in Seq(UpSet)
    OBVIOUS
  <2> QED BY <1>2, <2>1 DEF NoJob, JobSet
<1>4. ASSUME NEW c \in Client
      PROVE  /\ cl[c] \in ClientSet /\ cl[c].pc = "wait" /\ cl[c].jwt = 0 /\ cl[c].refresh = 0
             /\ cl[c].buf = <<>>
  <2>1. plan[c] \in PlanSet
    BY AuthAssumption DEF PlanSet
  <2>2. <<>> \in Seq(LineSet) /\ Cloud \in Nat
    BY DEF Cloud
  <2> QED BY <1>1, <1>2, <1>3, <2>1, <2>2 DEF ClientSet
<1>5. DOMAIN cl = Client /\ cl = [c \in Client |-> cl[c]]
  BY <1>1
<1>6. cl \in [Client -> ClientSet]
  BY <1>4, <1>5
<1>7. minted \in Seq([url : Nat, org : Nat]) /\ Len(minted) = 2
  <2> DEFINE s == [url |-> Cloud, org |-> 0]
             k == [url |-> Cloud, org |-> 1]
  <2>1. s \in [url : Nat, org : Nat] /\ k \in [url : Nat, org : Nat]
    BY DEF Cloud
  <2>2. minted = <<s, k>>
    BY DEF AuthInit
  <2> HIDE DEF s, k
  <2> QED BY <2>1, <2>2
<1>8. Issued = 1..2 /\ Len(minted) = 2
  BY <1>7 DEF Issued
<1>9. live \in {{}, {1}} /\ fresh = {1} /\ ui = NoUI /\ mutex = "free" /\ file \in Files
  BY DEF AuthInit
<1>10. /\ past \in PastSet /\ past.expired = (IF live = {} THEN 1 ELSE 0) /\ past.refreshed = 0
  BY DEF AuthInit, PastSet
<1>11. file \in Seq(LineSet)
  BY <1>9, AuthAssumption DEF LineSet
<1>12. AuthTyped
  <2>1. ui \in UISet
    BY <1>9 DEF UISet, NoUI
  <2>2. live \in SUBSET Issued /\ fresh \in SUBSET Issued
    BY <1>8, <1>9
  <2> QED BY <1>6, <1>7, <1>9, <1>10, <1>11, <2>1, <2>2 DEF AuthTyped
<1>13. \A i, j \in DOMAIN file : file[i].k \in Tokens => file[i].v <= 1 /\ (file[j].k = file[i].k => j = i)
  BY <1>9, AuthAssumption DEF Tokens
<1>14. \A i \in DOMAIN file : file[i].v \in Nat
  <2>1. \A i \in DOMAIN file : file[i] \in LineSet
    BY <1>11
  <2> QED BY <2>1 DEF LineSet
<1>15. \A key \in Tokens : Once(file, key) /\ Only(file, key, {0, 1})
  <2> SUFFICES ASSUME NEW key \in Tokens PROVE Once(file, key) /\ Only(file, key, {0, 1})
    OBVIOUS
  <2>1. Once(file, key)
    BY <1>13 DEF Once
  <2>2. ASSUME NEW i \in DOMAIN file, file[i].k = key PROVE file[i].v \in {0, 1}
    BY <1>13, <1>14, <2>2
  <2> QED BY <2>1, <2>2 DEF Only
<1>16. FileAgrees(file) /\ Agree(ui.jwt, ui.refresh)
  <2>1. 1 \in 0..Len(minted)
    BY <1>7
  <2>2. FileAgrees(file)
    BY <1>15, <2>1 DEF FileAgrees
  <2> QED BY <1>7, <1>9, <2>2 DEF Agree, NoUI
<1>17. ASSUME NEW c \in Client PROVE ClientOK(c)
  <2>1. /\ ~Uses(c) /\ ~Locks(c) /\ cl[c].pc \notin Writing
        /\ \A pc \in {"expired", "urefresh", "adopt"} : ~Is(c, pc)
    BY <1>4 DEF Uses, Locks, Is, Using, Writing
  <2>2. Agree(cl[c].jwt, cl[c].refresh)
    BY <1>4, <1>7 DEF Agree
  <2>3. FileAgrees(cl[c].buf)
    <3>1. DOMAIN <<>> = {} /\ 0 \in 0..Len(minted)
      BY <1>7
    <3> QED BY <1>4, <3>1 DEF FileAgrees, Once, Only
  <2> QED BY <1>4, <2>1, <2>2, <2>3 DEF ClientOK
<1>18. Counted
  <2>1. CASE live = {}
    <3>1. Cardinality({1}) = 1 /\ Cardinality({}) = 0
      BY FS_Singleton, FS_EmptySet
    <3>2. {1} \in SUBSET Issued /\ {} \in SUBSET Issued
      BY <1>8
    <3> QED BY <1>9, <1>10, <2>1, <3>1, <3>2 DEF Counted
  <2>2. CASE live = {1}
    <3>1. Cardinality({}) = 0
      BY FS_EmptySet
    <3>2. {} \in SUBSET Issued
      OBVIOUS
    <3> QED BY <1>9, <1>10, <2>2, <3>1, <3>2 DEF Counted
  <2> QED BY <1>9, <2>1, <2>2
<1>19. Keeps
  <2>1. FileKept
    BY <1>9, <1>15 DEF FileKept, Tokens
  <2>2. \A c \in Client : ClientKeeps(c) /\ cl[c].pc \in Resting
    BY <1>4 DEF ClientKeeps, Is, Writing, Resting
  <2> QED BY <2>1, <2>2 DEF Keeps
<1> QED BY <1>12, <1>16, <1>17, <1>18, <1>19 DEF AuthInv

LEMMA AuthStep ==
  ASSUME AuthInv, [AuthNext]_authVars
  PROVE  AuthInv'
<1>1. CASE UNCHANGED authVars
  BY <1>1, AuthRests
<1>2. ASSUME NEW c \in Client, SaveReads(c) \/ SaveWrites(c) PROVE AuthInv'
  BY <1>2, SaveReadsKeeps, SaveWritesKeeps
<1>3. ASSUME NEW c \in Client, BeginReview(c) \/ SubmitReview(c) \/ CreateKey(c) \/ RefreshSession(c)
      PROVE  AuthInv'
  BY <1>3, BeginReviewKeeps, SubmitReviewKeeps, CreateKeyKeeps, RefreshSessionKeeps
<1>4. ASSUME NEW c \in Client,
             \/ BeginPreflight(c) \/ ProbeSession(c) \/ RecoverKey(c) \/ EnsureEnds(c) \/ SetupChooses(c)
      PROVE  AuthInv'
  BY <1>4, BeginPreflightKeeps, ProbeSessionKeeps, RecoverKeyKeeps, EnsureEndsKeeps, SetupChoosesKeeps
<1>5. ASSUME NEW c \in Client, Login(c) \/ Gemini(c) \/ Connector(c) PROVE AuthInv'
  BY <1>5, LoginKeeps, GeminiKeeps, ConnectorKeeps
<1>6. ASSUME NEW c \in Client, \/ BeginHandler(c) \/ Ask(c) \/ EnterRefresh(c) \/ UIRefresh(c)
                               \/ LeaveRefresh(c)
      PROVE  AuthInv'
  BY <1>6, BeginHandlerKeeps, AskKeeps, EnterRefreshKeeps, UIRefreshKeeps, LeaveRefreshKeeps
<1>7. ASSUME NEW c \in Client, SwitchOrg(c) \/ SwitchKey(c) \/ Adopt(c) PROVE AuthInv'
  BY <1>7, SwitchOrgKeeps, SwitchKeyKeeps, AdoptKeeps
<1>8. ASSUME UIStart \/ UIStop \/ Expire PROVE AuthInv'
  BY <1>8, UIStartKeeps, UIStopKeeps, ExpireKeeps
<1> QED BY <1>1, <1>2, <1>3, <1>4, <1>5, <1>6, <1>7, <1>8 DEF AuthNext

LEMMA RefreshesBounded ==
  ASSUME AuthInv
  PROVE  OneRefreshPerExpiry
<1>1. PICK D \in SUBSET Issued, S \in SUBSET Issued :
        S \subseteq D /\ Cardinality(D) <= past.expired /\ past.refreshed <= Cardinality(S)
  BY DEF AuthInv, Counted
<1>2. Len(minted) \in Nat /\ past.expired \in Nat /\ past.refreshed \in Nat
  BY DEF AuthInv, AuthTyped, PastSet
<1>3. IsFiniteSet(D)
  <2>1. IsFiniteSet(1..Len(minted))
    BY <1>2, FS_Interval
  <2> QED BY <1>1, <2>1, FS_Subset DEF Issued
<1>4. IsFiniteSet(S) /\ Cardinality(S) <= Cardinality(D)
  BY <1>1, <1>3, FS_Subset
<1>5. Cardinality(S) \in Nat /\ Cardinality(D) \in Nat
  BY <1>3, <1>4, FS_CardinalityType
<1> QED BY <1>1, <1>2, <1>4, <1>5 DEF OneRefreshPerExpiry

LEMMA KeptWhenQuiet ==
  ASSUME AuthInv
  PROVE  SessionKept
<1> SUFFICES ASSUME Quiet, Value(file, "refresh_token") # 0
             PROVE  Value(file, "refresh_token") \in fresh
  BY DEF SessionKept
<1>1. Clean /\ \A c \in Client : cl[c].pc \in {"wait", "done", "failed"}
  BY DEF Quiet, Clean, Active
<1>2. \A c \in Client : ~Renews(c)
  BY <1>1 DEF Renews, Writing
<1>3. Only(file, "refresh_token", {0} \cup fresh)
  BY <1>1, <1>2 DEF AuthInv, Keeps, FileKept
<1>4. file \in Seq(LineSet)
  BY DEF AuthInv, AuthTyped
<1>5. Value(file, "refresh_token") \in {0} \cup fresh \cup {0}
  BY <1>3, <1>4, ValueIs
<1> QED BY <1>5

\* The sessions the handlers of `lrc ui` have renewed under the mutex of refreshAccessToken are as
\* many as the access tokens that have expired, at most: those that wait for the mutex find the
\* session renewed.  AuthInv names the sessions that were renewed: each has expired, and its
\* refresh token is taken.
THEOREM OneRefreshEach == AuthSpec => []OneRefreshPerExpiry
<1>1. AuthInit => AuthInv
  BY AuthStarts
<1>2. AuthInv /\ [AuthNext]_authVars => AuthInv'
  BY AuthStep
<1>3. AuthInv => OneRefreshPerExpiry
  BY RefreshesBounded
<1> QED BY <1>1, <1>2, <1>3, PTL DEF AuthSpec

\* Whatever commands ran one after the other, and whichever of their calls failed, the refresh
\* token in ~/.lrc.toml is one the server takes: whoever takes one writes the next before it ends.
THEOREM SessionStays == AuthSpec => []SessionKept
<1>1. AuthInit => AuthInv
  BY AuthStarts
<1>2. AuthInv /\ [AuthNext]_authVars => AuthInv'
  BY AuthStep
<1>3. AuthInv => SessionKept
  BY KeptWhenQuiet
<1> QED BY <1>1, <1>2, <1>3, PTL DEF AuthSpec

-----------------------------------------------------------------------------
(* AuthConfig: whose credentials the file names.  AgreeInv says, of the    *)
(* file, the UI and every client on its way to a write, that what they     *)
(* hold is of one server; it needs AuthInv for the client that is alone.   *)

\* The keys that say whose credentials the file holds.
Credential == {"api_key", "api_url", "org_id", "jwt", "refresh_token"}
Needed == Credential \ {"api_key"}
Marks == {"begin", "table", "end"}

\* How lrc lays the file out: no managed section, an empty one, or, behind the keys it needs, one with
\* connectors at the end.
Bare(lines) == \A i \in DOMAIN lines : lines[i].k \notin Marks
Has(lines, key) == \E i \in DOMAIN Top(lines) : Top(lines)[i].k = key
EmptyAt(lines, b) ==
  /\ b + 1 \in DOMAIN lines /\ lines[b].k = "begin" /\ lines[b + 1].k = "end"
  /\ \A i \in DOMAIN lines \ {b, b + 1} : lines[i].k \notin Marks
ConnectorsAt(lines, b) ==
  /\ b + 3 \in DOMAIN lines
  /\ lines[b].k = "begin" /\ lines[b + 1].k = "table" /\ lines[b + 2].k = "api_key" /\ lines[Len(lines)].k = "end"
  /\ \A i \in 1..(b - 1) : lines[i].k \notin Marks
  /\ \A i \in (b + 1)..(Len(lines) - 1) : lines[i].k \in {"table", "api_key"}
  /\ \A key \in Needed : \E i \in 1..(b - 1) : lines[i].k = key
LaidOut(lines) ==
  /\ Parses(lines)
  /\ Bare(lines) \/ \E b \in DOMAIN lines : EmptyAt(lines, b) \/ ConnectorsAt(lines, b)
Full(lines) == \A key \in Needed : Has(lines, key)

\* Lines that name credentials of the server, and a key of the organization, they name; m is what
\* the servers have given out.
Held == {"jwt", "refresh_token", "api_key"}
SessionIn(lines) == Value(lines, "jwt") # 0 \/ Value(lines, "refresh_token") # 0
Agrees(lines, m, keyless) ==
  /\ LaidOut(lines)
  /\ SessionIn(lines) => Full(lines)
  /\ \A key \in Held : Value(lines, key) # 0 =>
       Value(lines, key) \in DOMAIN m /\ m[Value(lines, key)].url = APIURL(lines)
  /\ Value(lines, "api_key") # 0 /\ Value(lines, "org_id") # 0 /\ ~keyless
       => m[Value(lines, "api_key")].org = Value(lines, "org_id")

\* A UI that is up has the session of those lines.
Fits(u, lines) ==
  u.up => /\ u.url = APIURL(lines)
          /\ u.jwt # 0 \/ u.refresh # 0 => Full(lines)

\* What a client at pc holds is of those lines, or makes up a session and a key of one server.
Loaded == {"submit", "retry", "create", "create2", "refresh", "probe", "prefresh", "probe2", "pkey"}
LoggedIn(r, m) ==
  /\ r.url # 0
  /\ r.jwt = r.refresh /\ r.jwt \in DOMAIN m /\ m[r.jwt].url = r.url
  /\ r.key \in DOMAIN m /\ m[r.key] = [url |-> r.url, org |-> r.org]
Stands(r, pc, lines, u, m) ==
  /\ pc \notin Resting => (u.up <=> r.plan.kind \in Handlers)
  /\ pc \in Loaded => /\ r.url = APIURL(lines) /\ r.org = Value(lines, "org_id")
                      /\ r.jwt # 0 \/ r.refresh # 0 => Full(lines)
  /\ pc \in Using \cup {"orgkey", "adopt"} => r.url = APIURL(lines)
  /\ pc \in Using => r.plan.kind # "reauth"
  /\ pc = "switch" => r.plan.kind = "org"
  /\ pc = "orgkey" => r.org # 0
  /\ pc = "adopt" => Full(lines)
  /\ pc \in {"ready", "notready", "login"} /\ r.plan.kind = "setup" => r.url # 0
  /\ pc = "login" /\ r.plan.kind # "setup" => r.url = APIURL(lines)
  /\ pc \in {"gemini", "connector"} /\ r.tries < 10 => ~u.up /\ LoggedIn(r, m)
\* What a client is about to write agrees as well, and with where it goes on.
WillStand(r, next, w, u, m, keyless) == Agrees(w, m, keyless) /\ Fits(u, w) /\ Stands(r, next, w, u, m)
Holds(r, lines, u, m, keyless) ==
  IF r.pc \in Writing THEN WillStand(r, r.job.next, Edited(lines, r.job.ups), u, m, keyless)
  ELSE Stands(r, r.pc, lines, u, m)
\* A setup is told a server, and a switch an organization of the session.
Meant(plan) == (plan.kind = "setup" => plan.url # 0) /\ (plan.kind = "org" => plan.org # 0)
AgreeInv ==
  /\ \A c \in Client : Meant(cl[c].plan)
  /\ Clean => /\ Agrees(file, minted, past.keyless) /\ Fits(ui, file)
              /\ \A c \in Client : Holds(cl[c], file, ui, minted, past.keyless)

\* A file to start from is laid out as lrc does it, and names what the server has given out.
FilesAreWhole ==
  \A f \in Files :
    /\ LaidOut(f)
    /\ SessionIn(f) => Full(f)
    /\ Value(f, "api_url") \in {0, Cloud} /\ Value(f, "org_id") \in {0, 1} /\ Value(f, "api_key") \in {0, 2}
PlansAreMeant == \A plan \in AuthPlans : \A c \in Client : Meant(plan[c])

-----------------------------------------------------------------------------
(* What a load finds in a file that is laid out.                           *)

ShowsLine(lines, key, v) == \E i \in DOMAIN Top(lines) : Top(lines)[i].k = key /\ Top(lines)[i].v = v

LEMMA TopOf ==
  ASSUME NEW lines \in Seq(LineSet)
  PROVE  /\ Bare(lines) => Top(lines) = lines
         /\ \A b \in DOMAIN lines : EmptyAt(lines, b) => Top(lines) = lines
         /\ \A b \in DOMAIN lines : ConnectorsAt(lines, b) => Top(lines) = SubSeq(lines, 1, b)
<1>1. (\A i \in DOMAIN lines : lines[i].k # "table") => Top(lines) = lines
  BY DEF Top
<1>2. Bare(lines) => Top(lines) = lines
  BY <1>1 DEF Bare, Marks
<1>3. ASSUME NEW b \in DOMAIN lines, EmptyAt(lines, b) PROVE Top(lines) = lines
  BY <1>1, <1>3 DEF EmptyAt, Marks
<1>4. ASSUME NEW b \in DOMAIN lines, ConnectorsAt(lines, b) PROVE Top(lines) = SubSeq(lines, 1, b)
  <2> DEFINE h == FirstLineOf(lines, "table")
  <2>1. b \in Nat /\ b + 1 \in DOMAIN lines /\ lines[b + 1].k = "table" /\ lines[b].k # "table"
        /\ \A i \in 1..(b - 1) : lines[i].k # "table"
    BY <1>4 DEF ConnectorsAt, Marks
  <2>2. Top(lines) = SubSeq(lines, 1, h - 1)
    BY <2>1 DEF Top, FirstAt, FirstLineOf
  <2> HIDE DEF h
  <2>3. \A i \in DOMAIN lines : lines[i].k = "table" /\ (\A j \in 1..(i - 1) : ~(lines[j].k = "table")) => i = b + 1
    <3> SUFFICES ASSUME NEW i \in DOMAIN lines, lines[i].k = "table",
                        \A j \in 1..(i - 1) : ~(lines[j].k = "table")
                 PROVE  i = b + 1
      OBVIOUS
    <3>1. ~(i < b + 1)
      BY <2>1
    <3>2. ~(b + 1 < i)
      BY <2>1
    <3> QED BY <2>1, <3>1, <3>2
  <2>4. \A j \in 1..((b + 1) - 1) : ~(lines[j].k = "table")
    BY <2>1
  <2>5. h = b + 1
    <3>1. h = CHOOSE i \in DOMAIN lines : lines[i].k = "table" /\ \A j \in 1..(i - 1) : ~(lines[j].k = "table")
      BY DEF h, FirstLineOf
    <3>2. \E i \in DOMAIN lines : lines[i].k = "table" /\ \A j \in 1..(i - 1) : ~(lines[j].k = "table")
      BY <2>1, <2>4
    <3>3. h \in DOMAIN lines /\ lines[h].k = "table" /\ \A j \in 1..(h - 1) : ~(lines[j].k = "table")
      BY <3>1, <3>2
    <3> QED BY <2>3, <3>3
  <2> QED BY <2>1, <2>2, <2>5
<1> QED BY <1>2, <1>3, <1>4

LEMMA TopLaidOut ==
  ASSUME NEW lines \in Seq(LineSet), LaidOut(lines)
  PROVE  \/ Top(lines) = lines /\ (Bare(lines) \/ \E b \in DOMAIN lines : EmptyAt(lines, b))
         \/ \E b \in DOMAIN lines : ConnectorsAt(lines, b) /\ Top(lines) = SubSeq(lines, 1, b)
BY TopOf DEF LaidOut

LEMMA ValueShows ==
  ASSUME NEW lines \in Seq(LineSet), Parses(lines), NEW key
  PROVE  /\ \A v : ShowsLine(lines, key, v) => Value(lines, key) = v
         /\ ~Has(lines, key) => Value(lines, key) = 0
         /\ Has(lines, key) => ShowsLine(lines, key, Value(lines, key))
<1> DEFINE t == Top(lines)
           p == FirstLineOf(t, key)
<1>1. t \in Seq(LineSet)
  BY TopIs
<1>2. ~Has(lines, key) => Value(lines, key) = 0
  BY DEF Has, Value
<1>3. ASSUME Has(lines, key)
      PROVE  p \in DOMAIN t /\ t[p].k = key /\ Value(lines, key) = t[p].v
  <2>1. \E i \in DOMAIN t : t[i].k = key
    BY <1>3 DEF Has
  <2>2. Value(lines, key) = t[p].v
    BY <2>1 DEF Value, FirstAt, FirstLineOf
  <2> HIDE DEF t
  <2> QED BY <1>1, <2>1, <2>2, FirstLineIs
<1>4. \A i, j \in DOMAIN t : t[i].k = t[j].k => i = j
  BY DEF Parses
<1>5. \A v : ShowsLine(lines, key, v) => Has(lines, key)
  BY DEF ShowsLine, Has
<1>6. ASSUME NEW v, ShowsLine(lines, key, v) PROVE Value(lines, key) = v
  <2> HIDE DEF p
  <2>1. PICK i \in DOMAIN t : t[i].k = key /\ t[i].v = v
    BY <1>6 DEF ShowsLine
  <2>2. i = p
    BY <1>3, <1>4, <1>5, <1>6, <2>1
  <2> QED BY <1>3, <1>5, <1>6, <2>1, <2>2
<1>7. Has(lines, key) => ShowsLine(lines, key, Value(lines, key))
  BY <1>3 DEF ShowsLine
<1> QED BY <1>2, <1>6, <1>7

\* Two files that show the same lines with a key have the same value for it.
LEMMA SameLines ==
  ASSUME NEW s \in Seq(LineSet), NEW t \in Seq(LineSet), Parses(s), Parses(t), NEW key,
         \A v : ShowsLine(s, key, v) <=> ShowsLine(t, key, v)
  PROVE  Value(s, key) = Value(t, key) /\ (Has(s, key) <=> Has(t, key))
<1>1. Has(s, key) <=> \E v : ShowsLine(s, key, v)
  BY DEF Has, ShowsLine
<1>2. Has(t, key) <=> \E v : ShowsLine(t, key, v)
  BY DEF Has, ShowsLine
<1>3. Has(s, key) <=> Has(t, key)
  BY <1>1, <1>2
<1>4. CASE Has(s, key)
  <2>1. ShowsLine(s, key, Value(s, key))
    BY <1>4, ValueShows
  <2>2. ShowsLine(t, key, Value(s, key))
    BY <2>1
  <2>3. Value(t, key) = Value(s, key)
    BY <2>2, ValueShows
  <2> QED BY <1>3, <2>3
<1>5. CASE ~Has(s, key)
  BY <1>3, <1>5, ValueShows
<1> QED BY <1>3, <1>4, <1>5

-----------------------------------------------------------------------------
(* What an update makes of it.                                             *)

\* Another value on a line that is there.
LEMMA ReplaceLays ==
  ASSUME NEW lines \in Seq(LineSet), LaidOut(lines), NEW name \in Credential, NEW val \in Nat,
         \E i \in DOMAIN lines : lines[i].k = name,
         NEW up, up = UpsertQuotedConfigValue(lines, name, val)
  PROVE  /\ up \in Seq(LineSet) /\ LaidOut(up)
         /\ \A key : Has(lines, key) <=> Has(up, key)
         /\ \A key : key # name => Value(up, key) = Value(lines, key)
         /\ Has(lines, name) => Value(up, name) = val
         /\ name \in Needed => Has(lines, name)
<1> DEFINE p == FirstLineOf(lines, name)
<1>1. up = [lines EXCEPT ![p].v = val]
  BY DEF UpsertQuotedConfigValue, FirstAt, FirstLineOf
<1>2. p \in DOMAIN lines /\ lines[p].k = name /\ \A j \in 1..(p - 1) : lines[j].k # name
  <2>1. p \in DOMAIN lines /\ lines[p].k = name
    BY FirstLineIs
  <2>2. \E i \in DOMAIN lines : lines[i].k = name /\ \A j \in 1..(i - 1) : ~(lines[j].k = name)
    <3> DEFINE T == {i \in DOMAIN lines : lines[i].k = name}
    <3>1. PICK m \in T : \A k \in T : m <= k
      <4>1. T \in SUBSET Nat /\ T # {}
        OBVIOUS
      <4> QED BY <4>1, Least
    <3>2. m \in DOMAIN lines /\ lines[m].k = name
      BY <3>1
    <3>3. ASSUME NEW j \in 1..(m - 1), lines[j].k = name PROVE FALSE
      <4>1. j \in DOMAIN lines /\ j < m
        BY <3>2
      <4>2. j \in T
        BY <3>3, <4>1
      <4> QED BY <3>1, <3>2, <4>1, <4>2
    <3> QED BY <3>2, <3>3
  <2> QED BY <2>1, <2>2 DEF FirstLineOf
<1>3. lines[p] \in LineSet
  BY <1>2
<1>4. [lines[p] EXCEPT !.v = val] \in LineSet /\ [lines[p] EXCEPT !.v = val].k = name
        /\ [lines[p] EXCEPT !.v = val].v = val
  BY <1>2, <1>3 DEF LineSet
<1> HIDE DEF p
<1>5. up \in Seq(LineSet) /\ DOMAIN up = DOMAIN lines /\ Len(up) = Len(lines)
  BY <1>1, <1>2, <1>4
<1>6. \A i \in DOMAIN lines : up[i].k = lines[i].k
  BY <1>1, <1>2, <1>4
<1>7. \A i \in DOMAIN lines : i # p => up[i] = lines[i]
  BY <1>1
<1>8. up[p].v = val
  BY <1>1, <1>2, <1>4
<1>9. Len(lines) \in Nat /\ DOMAIN lines = 1..Len(lines)
  OBVIOUS
<1>10. /\ Bare(lines) => Bare(up)
       /\ \A b \in DOMAIN lines : EmptyAt(lines, b) => EmptyAt(up, b)
       /\ \A b \in DOMAIN lines : ConnectorsAt(lines, b) => ConnectorsAt(up, b)
  <2>1. Bare(lines) => Bare(up)
    BY <1>5, <1>6 DEF Bare
  <2>2. ASSUME NEW b \in DOMAIN lines, EmptyAt(lines, b) PROVE EmptyAt(up, b)
    BY <1>5, <1>6, <2>2 DEF EmptyAt
  <2>3. ASSUME NEW b \in DOMAIN lines, ConnectorsAt(lines, b) PROVE ConnectorsAt(up, b)
    <3>1. b \in Nat /\ b + 3 \in 1..Len(lines)
      BY <1>9, <2>3 DEF ConnectorsAt
    <3>2. \A i \in 1..(b - 1) : i \in DOMAIN lines
      BY <1>9, <3>1
    <3>3. \A i \in (b + 1)..(Len(lines) - 1) : i \in DOMAIN lines
      BY <1>9, <3>1
    <3>4. {b, b + 1, b + 2, Len(lines)} \subseteq DOMAIN lines
      BY <1>9, <3>1
    <3>5. /\ up[b].k = "begin" /\ up[b + 1].k = "table" /\ up[b + 2].k = "api_key" /\ up[Len(up)].k = "end"
          /\ b + 3 \in DOMAIN up
      BY <1>5, <1>6, <2>3, <3>4 DEF ConnectorsAt
    <3>6. \A i \in 1..(b - 1) : up[i].k \notin Marks
      BY <1>6, <2>3, <3>2 DEF ConnectorsAt
    <3>7. \A i \in (b + 1)..(Len(up) - 1) : up[i].k \in {"table", "api_key"}
      BY <1>5, <1>6, <2>3, <3>3 DEF ConnectorsAt
    <3>8. \A key \in Needed : \E i \in 1..(b - 1) : up[i].k = key
      BY <1>6, <2>3, <3>2 DEF ConnectorsAt
    <3> QED BY <3>5, <3>6, <3>7, <3>8 DEF ConnectorsAt
  <2> QED BY <2>1, <2>2, <2>3
<1>11. /\ Len(Top(up)) = Len(Top(lines)) /\ Top(up) \in Seq(LineSet) /\ Top(lines) \in Seq(LineSet)
       /\ \A i \in DOMAIN Top(lines) : /\ i \in DOMAIN lines
                                       /\ Top(lines)[i] = lines[i] /\ Top(up)[i] = up[i]
  <2>1. CASE Top(lines) = lines /\ (Bare(lines) \/ \E b \in DOMAIN lines : EmptyAt(lines, b))
    <3>1. Top(up) = up
      BY <1>5, <1>10, <2>1, TopOf
    <3> QED BY <1>5, <2>1, <3>1
  <2>2. ASSUME NEW b \in DOMAIN lines, ConnectorsAt(lines, b), Top(lines) = SubSeq(lines, 1, b)
        PROVE  /\ Len(Top(up)) = Len(Top(lines)) /\ Top(up) \in Seq(LineSet) /\ Top(lines) \in Seq(LineSet)
               /\ \A i \in DOMAIN Top(lines) : /\ i \in DOMAIN lines
                                               /\ Top(lines)[i] = lines[i] /\ Top(up)[i] = up[i]
    <3>1. Top(up) = SubSeq(up, 1, b)
      BY <1>5, <1>10, <2>2, TopOf
    <3>2. b \in 1..Len(lines)
      BY <1>9
    <3> QED BY <1>5, <2>2, <3>1, <3>2
  <2> QED BY <2>1, <2>2, TopLaidOut
<1>12. DOMAIN Top(up) = DOMAIN Top(lines)
  BY <1>11
<1>13. Parses(up)
  BY <1>6, <1>11, <1>12 DEF LaidOut, Parses
<1>14. LaidOut(up)
  BY <1>5, <1>10, <1>13 DEF LaidOut
<1>15. \A key : Has(lines, key) <=> Has(up, key)
  BY <1>6, <1>11, <1>12 DEF Has
<1>16. ASSUME NEW key, key # name PROVE Value(up, key) = Value(lines, key)
  <2>1. \A v : ShowsLine(up, key, v) <=> ShowsLine(lines, key, v)
    <3>1. \A i \in DOMAIN Top(lines) : Top(lines)[i].k = key \/ Top(up)[i].k = key => Top(up)[i] = Top(lines)[i]
      BY <1>2, <1>6, <1>7, <1>11, <1>16
    <3> QED BY <1>12, <3>1 DEF ShowsLine
  <2> QED BY <1>5, <1>13, <2>1, SameLines DEF LaidOut
<1>17. Has(lines, name) => Value(up, name) = val
  <2> SUFFICES ASSUME Has(lines, name) PROVE ShowsLine(up, name, val)
    BY <1>5, <1>13, ValueShows
  <2>1. PICK i \in DOMAIN Top(lines) : Top(lines)[i].k = name
    BY DEF Has
  <2>2. i \in DOMAIN lines /\ lines[i].k = name
    BY <1>11, <2>1
  <2>3. p <= i
    BY <1>2, <1>9, <2>2
  <2>4. p \in DOMAIN Top(lines)
    BY <1>2, <1>9, <1>11, <2>1, <2>3
  <2> QED BY <1>2, <1>6, <1>8, <1>11, <1>12, <2>4 DEF ShowsLine
<1>18. name \in Needed => Has(lines, name)
  <2> SUFFICES ASSUME name \in Needed PROVE Has(lines, name)
    OBVIOUS
  <2>1. CASE Top(lines) = lines
    BY <2>1 DEF Has
  <2>2. ASSUME NEW b \in DOMAIN lines, ConnectorsAt(lines, b), Top(lines) = SubSeq(lines, 1, b)
        PROVE  Has(lines, name)
    <3>1. PICK i \in 1..(b - 1) : lines[i].k = name
      BY <2>2 DEF ConnectorsAt
    <3>2. b \in 1..Len(lines)
      BY <1>9
    <3>3. i \in DOMAIN Top(lines) /\ Top(lines)[i] = lines[i]
      BY <1>9, <2>2, <3>1, <3>2
    <3> QED BY <3>1, <3>3 DEF Has
  <2> QED BY <2>1, <2>2, TopLaidOut
<1> QED BY <1>5, <1>14, <1>15, <1>16, <1>17, <1>18

\* A key that is nowhere gets a line of its own, where a load finds it.
LEMMA AppendLays ==
  ASSUME NEW lines \in Seq(LineSet), LaidOut(lines), NEW name \in Credential, NEW val \in Nat,
         ~\E i \in DOMAIN lines : lines[i].k = name,
         NEW up, up = UpsertQuotedConfigValue(lines, name, val)
  PROVE  /\ up \in Seq(LineSet) /\ LaidOut(up)
         /\ \A key : key # name => (Has(lines, key) <=> Has(up, key)) /\ Value(up, key) = Value(lines, key)
         /\ Has(up, name) /\ Value(up, name) = val
<1> DEFINE new == [k |-> name, v |-> val]
<1>1. up = Append(lines, new)
  BY DEF UpsertQuotedConfigValue, Line
<1>2. new \in LineSet /\ new.k = name /\ new.v = val
  BY DEF Credential, LineKeys, LineSet
<1> HIDE DEF new
<1>3. /\ up \in Seq(LineSet) /\ Len(up) = Len(lines) + 1 /\ DOMAIN up = DOMAIN lines \cup {Len(lines) + 1}
      /\ Len(lines) \in Nat /\ DOMAIN lines = 1..Len(lines)
      /\ up[Len(lines) + 1] = new /\ \A i \in DOMAIN lines : up[i] = lines[i]
  BY <1>1, <1>2
<1>4. Top(lines) = lines /\ (Bare(lines) \/ \E b \in DOMAIN lines : EmptyAt(lines, b))
  <2>1. ASSUME NEW b \in DOMAIN lines, ConnectorsAt(lines, b) PROVE FALSE
    <3>1. b + 3 \in 1..Len(lines) /\ b \in 1..Len(lines)
      BY <1>3, <2>1 DEF ConnectorsAt
    <3>2. b + 2 \in DOMAIN lines /\ \A i \in 1..(b - 1) : i \in DOMAIN lines
      BY <1>3, <3>1
    <3>3. name # "api_key"
      BY <2>1, <3>2 DEF ConnectorsAt
    <3>4. name \in Needed
      BY <3>3 DEF Needed
    <3> QED BY <2>1, <3>2, <3>4 DEF ConnectorsAt
  <2> QED BY <2>1, TopLaidOut
<1>5. new.k \notin Marks
  BY <1>2 DEF Credential, Marks
<1>6. Bare(lines) => Bare(up)
  BY <1>3, <1>5 DEF Bare
<1>7. ASSUME NEW b \in DOMAIN lines, EmptyAt(lines, b) PROVE b \in DOMAIN up /\ EmptyAt(up, b)
  BY <1>3, <1>5, <1>7 DEF EmptyAt
<1>8. Top(up) = up
  BY <1>3, <1>4, <1>6, <1>7, TopOf
<1>9. Parses(up)
  <2>1. \A i, j \in DOMAIN lines : lines[i].k = lines[j].k => i = j
    BY <1>4 DEF LaidOut, Parses
  <2>2. ASSUME NEW i \in DOMAIN up, NEW j \in DOMAIN up, up[i].k = up[j].k PROVE i = j
    <3>1. CASE i \in DOMAIN lines /\ j \in DOMAIN lines
      BY <1>3, <2>1, <2>2, <3>1
    <3>2. \A m \in DOMAIN lines : up[m].k # name
      BY <1>3
    <3>3. up[Len(lines) + 1].k = name
      BY <1>2, <1>3
    <3> QED BY <1>3, <2>2, <3>1, <3>2, <3>3
  <2> QED BY <1>8, <2>2 DEF Parses
<1>10. LaidOut(up)
  BY <1>4, <1>6, <1>7, <1>9 DEF LaidOut
<1>11. ASSUME NEW key, key # name
       PROVE  (Has(lines, key) <=> Has(up, key)) /\ Value(up, key) = Value(lines, key)
  <2>1. \A v : ShowsLine(lines, key, v) <=> ShowsLine(up, key, v)
    BY <1>2, <1>3, <1>4, <1>8, <1>11 DEF ShowsLine
  <2> QED BY <1>3, <1>9, <2>1, SameLines DEF LaidOut
<1>12. ShowsLine(up, name, val)
  <2>1. Len(lines) + 1 \in DOMAIN Top(up) /\ Top(up)[Len(lines) + 1] = new
    BY <1>3, <1>8
  <2> QED BY <1>2, <2>1 DEF ShowsLine
<1>13. Has(up, name) /\ Value(up, name) = val
  <2>1. Has(up, name)
    BY <1>12 DEF ShowsLine, Has
  <2>2. Value(up, name) = val
    BY <1>3, <1>9, <1>12, ValueShows
  <2> QED BY <2>1, <2>2
<1> QED BY <1>3, <1>10, <1>11, <1>13

\* An update of a key changes what a load finds of it, and of no other: and only the API key can be
\* where no load finds it.
Upserted(lines, name, val, up) ==
  /\ up \in Seq(LineSet) /\ LaidOut(up)
  /\ \A key : Has(lines, key) => Has(up, key)
  /\ \A key : key # name => Value(up, key) = Value(lines, key)
  /\ Value(up, name) = val \/ (name = "api_key" /\ Value(up, name) = 0)
  /\ name \in Needed => Has(up, name)

LEMMA UpsertLays ==
  ASSUME NEW lines \in Seq(LineSet), LaidOut(lines), NEW name \in Credential, NEW val \in Nat
  PROVE  Upserted(lines, name, val, UpsertQuotedConfigValue(lines, name, val))
<1> DEFINE up == UpsertQuotedConfigValue(lines, name, val)
<1>0. up = UpsertQuotedConfigValue(lines, name, val)
  OBVIOUS
<1> HIDE DEF up
<1>1. CASE \E i \in DOMAIN lines : lines[i].k = name
  <2>1. /\ up \in Seq(LineSet) /\ LaidOut(up)
        /\ \A key : Has(lines, key) <=> Has(up, key)
        /\ \A key : key # name => Value(up, key) = Value(lines, key)
        /\ Has(lines, name) => Value(up, name) = val
        /\ name \in Needed => Has(lines, name)
    BY <1>0, <1>1, ReplaceLays
  <2>2. ~Has(lines, name) => name = "api_key"
    BY <2>1 DEF Needed
  <2>3. ~Has(lines, name) => Value(up, name) = 0
    BY <2>1, ValueShows DEF LaidOut
  <2> QED BY <1>0, <2>1, <2>2, <2>3 DEF Upserted
<1>2. CASE ~\E i \in DOMAIN lines : lines[i].k = name
  <2>1. /\ up \in Seq(LineSet) /\ LaidOut(up)
        /\ \A key : key # name => (Has(lines, key) <=> Has(up, key)) /\ Value(up, key) = Value(lines, key)
        /\ Has(up, name) /\ Value(up, name) = val
    BY <1>0, <1>2, AppendLays
  <2> QED BY <1>0, <2>1 DEF Upserted
<1> QED BY <1>1, <1>2

\* Two parts of a file, and the rest of one.
LEMMA JoinIs ==
  ASSUME NEW s \in Seq(LineSet), NEW t \in Seq(LineSet), NEW st, st = s \o t
  PROVE  /\ st \in Seq(LineSet) /\ Len(st) = Len(s) + Len(t) /\ Len(s) \in Nat /\ Len(t) \in Nat
         /\ \A i \in 1..Len(s) : st[i] = s[i]
         /\ \A i \in 1..Len(t) : st[Len(s) + i] = t[i]
OBVIOUS

LEMMA RestIs ==
  ASSUME NEW s \in Seq(LineSet), NEW m \in 1..(Len(s) + 1), NEW t, t = SubSeq(s, m, Len(s))
  PROVE  /\ t \in Seq(LineSet) /\ Len(t) = Len(s) - m + 1 /\ Len(s) \in Nat /\ Len(t) \in Nat
         /\ \A i \in 1..Len(t) : t[i] = s[i + m - 1]
<1>1. Len(s) \in Nat /\ Len(s) \in 0..Len(s)
  OBVIOUS
<1>2. t \in Seq(LineSet) /\ \A i \in DOMAIN t : t[i] = s[i + m - 1]
  BY <1>1, PartKeeps
<1>3. Len(t) = Len(s) - m + 1
  OBVIOUS
<1> QED BY <1>1, <1>2, <1>3

\* The section of the connectors, and what a load finds of it.
LEMMA RenderedIs ==
  ASSUME NEW b \in BOOLEAN
  PROVE  /\ RenderManagedAIConnectorsSection(b) \in Seq(LineSet)
         /\ Len(RenderManagedAIConnectorsSection(b)) = IF b THEN 4 ELSE 2
         /\ RenderManagedAIConnectorsSection(b)[1].k = "begin"
         /\ ~b => RenderManagedAIConnectorsSection(b)[2].k = "end"
         /\ b => /\ RenderManagedAIConnectorsSection(b)[2].k = "table"
                 /\ RenderManagedAIConnectorsSection(b)[3].k = "api_key"
                 /\ RenderManagedAIConnectorsSection(b)[4].k = "end"
<1> DEFINE B == Line("begin", 0)
           E == Line("end", 0)
           H == Line("table", 0)
           K == Line("api_key", ConnectorKey)
<1>1. /\ B \in LineSet /\ E \in LineSet /\ H \in LineSet /\ K \in LineSet
      /\ B.k = "begin" /\ E.k = "end" /\ H.k = "table" /\ K.k = "api_key"
  <2>1. \A l \in LineKeys, n \in Nat : Line(l, n) \in LineSet /\ Line(l, n).k = l
    BY DEF Line, LineSet
  <2>2. 0 \in Nat /\ ConnectorKey \in Nat
    BY DEF ConnectorKey
  <2>3. "begin" \in LineKeys /\ "end" \in LineKeys /\ "table" \in LineKeys /\ "api_key" \in LineKeys
    BY DEF LineKeys
  <2> QED BY <2>1, <2>2, <2>3
<1>2. RenderManagedAIConnectorsSection(b) = <<B>> \o (IF b THEN <<H, K>> ELSE <<>>) \o <<E>>
  BY DEF RenderManagedAIConnectorsSection
<1> HIDE DEF B, E, H, K
<1> DEFINE s == <<B>>
           t == <<E>>
<1>3. /\ s \in Seq(LineSet) /\ Len(s) = 1 /\ s[1] = B
      /\ t \in Seq(LineSet) /\ Len(t) = 1 /\ t[1] = E
  BY <1>1
<1> HIDE DEF s, t
<1>4. CASE b
  <2> DEFINE m == <<H, K>>
  <2>1. m \in Seq(LineSet) /\ Len(m) = 2 /\ m[1] = H /\ m[2] = K
    BY <1>1
  <2>2. RenderManagedAIConnectorsSection(b) = (s \o m) \o t
    BY <1>2, <1>4 DEF s, t
  <2> HIDE DEF m
  <2> DEFINE u == s \o m
  <2>3. u \in Seq(LineSet) /\ Len(u) = 3 /\ u[1] = B /\ u[2] = H /\ u[3] = K
    <3>0. u = s \o m
      OBVIOUS
    <3> HIDE DEF u
    <3>a. s \in Seq(LineSet) /\ m \in Seq(LineSet)
      BY <1>3, <2>1
    <3>1. /\ u \in Seq(LineSet) /\ Len(u) = Len(s) + Len(m)
          /\ \A i \in 1..Len(s) : u[i] = s[i]
          /\ \A i \in 1..Len(m) : u[Len(s) + i] = m[i]
      BY <3>0, <3>a, JoinIs
    <3>2. u[1] = s[1] /\ u[1 + 1] = m[1] /\ u[1 + 2] = m[2]
      BY <1>3, <2>1, <3>1
    <3> QED BY <1>3, <2>1, <3>1, <3>2
  <2> HIDE DEF u
  <2>4. u \o t \in Seq(LineSet) /\ Len(u \o t) = 4 /\ (u \o t)[1] = B /\ (u \o t)[2] = H
        /\ (u \o t)[3] = K /\ (u \o t)[4] = E
    <3> DEFINE w == u \o t
    <3>0. w = u \o t
      OBVIOUS
    <3> HIDE DEF w
    <3>a. u \in Seq(LineSet) /\ t \in Seq(LineSet)
      BY <1>3, <2>3
    <3>1. /\ w \in Seq(LineSet) /\ Len(w) = Len(u) + Len(t)
          /\ \A i \in 1..Len(u) : w[i] = u[i]
          /\ \A i \in 1..Len(t) : w[Len(u) + i] = t[i]
      BY <3>0, <3>a, JoinIs
    <3>2. w[1] = u[1] /\ w[2] = u[2] /\ w[3] = u[3] /\ w[3 + 1] = t[1]
      BY <1>3, <2>3, <3>1
    <3>3. w \in Seq(LineSet) /\ Len(w) = 4 /\ w[1] = B /\ w[2] = H /\ w[3] = K /\ w[4] = E
      BY <1>3, <2>3, <3>1, <3>2
    <3> QED BY <3>3 DEF w
  <2>5. RenderManagedAIConnectorsSection(b) = u \o t
    BY <2>2 DEF u
  <2> QED BY <1>1, <1>4, <2>4, <2>5
<1>5. CASE ~b
  <2> DEFINE m == <<>>
  <2>1. m \in Seq(LineSet) /\ Len(m) = 0
    OBVIOUS
  <2>2. RenderManagedAIConnectorsSection(b) = (s \o m) \o t
    BY <1>2, <1>5 DEF s, t
  <2> HIDE DEF m
  <2> DEFINE u == s \o m
  <2>3. u \in Seq(LineSet) /\ Len(u) = 1 /\ u[1] = B
    <3>0. u = s \o m
      OBVIOUS
    <3> HIDE DEF u
    <3>a. s \in Seq(LineSet) /\ m \in Seq(LineSet)
      BY <1>3, <2>1
    <3>1. /\ u \in Seq(LineSet) /\ Len(u) = Len(s) + Len(m)
          /\ \A i \in 1..Len(s) : u[i] = s[i]
      BY <3>0, <3>a, JoinIs
    <3> QED BY <1>3, <2>1, <3>1
  <2> HIDE DEF u
  <2>4. u \o t \in Seq(LineSet) /\ Len(u \o t) = 2 /\ (u \o t)[1] = B /\ (u \o t)[2] = E
    <3> DEFINE w == u \o t
    <3>0. w = u \o t
      OBVIOUS
    <3> HIDE DEF w
    <3>a. u \in Seq(LineSet) /\ t \in Seq(LineSet)
      BY <1>3, <2>3
    <3>1. /\ w \in Seq(LineSet) /\ Len(w) = Len(u) + Len(t)
          /\ \A i \in 1..Len(u) : w[i] = u[i]
          /\ \A i \in 1..Len(t) : w[Len(u) + i] = t[i]
      BY <3>0, <3>a, JoinIs
    <3>2. w[1] = u[1] /\ w[1 + 1] = t[1]
      BY <1>3, <2>3, <3>1
    <3>3. w \in Seq(LineSet) /\ Len(w) = 2 /\ w[1] = B /\ w[2] = E
      BY <1>3, <2>3, <3>1, <3>2
    <3> QED BY <3>3 DEF w
  <2>5. RenderManagedAIConnectorsSection(b) = u \o t
    BY <2>2 DEF u
  <2> QED BY <1>1, <1>5, <2>4, <2>5
<1> QED BY <1>4, <1>5


Section(lines, b, e) ==
  /\ b < e /\ lines[b].k = "begin" /\ lines[e].k = "end"
  /\ \A i \in 1..(b - 1) : lines[i].k # "begin"
  /\ \A i \in (b + 1)..(e - 1) : lines[i].k # "end"

\* Its section is cut out of the file.
LEMMA CutIs ==
  ASSUME NEW lines \in Seq(LineSet), NEW b \in 1..Len(lines), NEW e \in 1..Len(lines),
         Section(lines, b, e), NEW out, out = StripManagedAIConnectorsSection(lines)
  PROVE  /\ out \in Seq(LineSet) /\ Len(out) = Len(lines) - (e - b + 1)
         /\ \A i \in 1..(b - 1) : out[i] = lines[i]
         /\ \A i \in b..Len(out) : out[i] = lines[i + (e - b + 1)]
<1> USE DEF Section
<1>0. Len(lines) \in Nat /\ DOMAIN lines = 1..Len(lines) /\ b \in Nat /\ e \in Nat /\ b <= Len(lines) /\ e <= Len(lines) /\ 1 <= b
  OBVIOUS
<1> DEFINE r == SubSeq(lines, b, Len(lines))
           b0 == CHOOSE i \in DOMAIN lines : lines[i].k = "begin" /\ \A j \in 1..(i - 1) : ~(lines[j].k = "begin")
           e0 == CHOOSE i \in DOMAIN r : r[i].k = "end" /\ \A j \in 1..(i - 1) : ~(r[j].k = "end")
           n == e - b + 1
<1>1. b0 = b
  <2>1. ASSUME NEW i \in DOMAIN lines, lines[i].k = "begin", \A j \in 1..(i - 1) : ~(lines[j].k = "begin")
        PROVE  i = b
    <3>1. i \in Nat /\ 1 <= i
      BY <1>0
    <3>2. ~(i < b)
      BY <1>0, <2>1, <3>1
    <3>3. ~(b < i)
      BY <1>0, <2>1, <3>1
    <3> QED BY <1>0, <3>1, <3>2, <3>3
  <2>2. \E i \in DOMAIN lines : lines[i].k = "begin" /\ \A j \in 1..(i - 1) : ~(lines[j].k = "begin")
    OBVIOUS
  <2>3. b0 \in DOMAIN lines /\ lines[b0].k = "begin" /\ \A j \in 1..(b0 - 1) : ~(lines[j].k = "begin")
    BY <2>2
  <2> HIDE DEF b0
  <2> QED BY <2>1, <2>3
<1>2. /\ r \in Seq(LineSet) /\ Len(r) = Len(lines) - b + 1 /\ DOMAIN r = 1..Len(r) /\ Len(r) \in Nat
      /\ \A i \in 1..Len(r) : r[i] = lines[i + b - 1]
  <2>1. b \in 1..(Len(lines) + 1)
    BY <1>0
  <2>2. /\ r \in Seq(LineSet) /\ Len(r) = Len(lines) - b + 1 /\ Len(r) \in Nat
        /\ \A i \in 1..Len(r) : r[i] = lines[i + b - 1]
    BY <2>1, RestIs
  <2> QED BY <2>2
<1> HIDE DEF r
<1>n. n \in Nat /\ n = e - b + 1 /\ n \in 1..Len(r) /\ n + b - 1 = e
  BY <1>0, <1>2
<1> HIDE DEF n
<1>3. r[n].k = "end"
  BY <1>2, <1>n
<1>4. ASSUME NEW j \in 1..(n - 1) PROVE r[j].k # "end"
  <2>1. j \in 1..Len(r)
    BY <1>n, <1>2
  <2>2. r[j] = lines[j + b - 1]
    BY <1>2, <2>1
  <2>3. j + b - 1 = b \/ j + b - 1 \in (b + 1)..(e - 1)
    BY <1>0, <1>n
  <2>4. "begin" # "end"
    OBVIOUS
  <2> QED BY <2>2, <2>3, <2>4
<1>5. e0 = n
  <2>1. ASSUME NEW i \in DOMAIN r, r[i].k = "end", \A j \in 1..(i - 1) : ~(r[j].k = "end")
        PROVE  i = n
    <3>1. i \in Nat /\ 1 <= i
      BY <1>2
    <3>2. ~(i < n)
      <4> SUFFICES ASSUME i < n PROVE FALSE
        OBVIOUS
      <4>1. i \in 1..(n - 1)
        BY <1>n, <3>1
      <4> QED BY <1>4, <2>1, <4>1
    <3>3. ~(n < i)
      <4> SUFFICES ASSUME n < i PROVE FALSE
        OBVIOUS
      <4>1. n \in 1..(i - 1)
        BY <1>n, <3>1
      <4> QED BY <1>3, <2>1, <4>1
    <3> QED BY <1>n, <3>1, <3>2, <3>3
  <2>2. \E i \in DOMAIN r : r[i].k = "end" /\ \A j \in 1..(i - 1) : ~(r[j].k = "end")
    BY <1>2, <1>n, <1>3, <1>4
  <2>3. e0 \in DOMAIN r /\ r[e0].k = "end" /\ \A j \in 1..(e0 - 1) : ~(r[j].k = "end")
    BY <2>2
  <2> HIDE DEF e0
  <2> QED BY <2>1, <2>3
<1> DEFINE x == SubSeq(lines, 1, b - 1)
           y == SubSeq(r, n + 1, Len(r))
<1>6. out = x \o y
  <2>1. out = SubSeq(lines, 1, b0 - 1)
                \o (IF \E i \in DOMAIN SubSeq(lines, b0, Len(lines)) : SubSeq(lines, b0, Len(lines))[i].k = "end"
                    THEN SubSeq(SubSeq(lines, b0, Len(lines)),
                                (CHOOSE i \in DOMAIN SubSeq(lines, b0, Len(lines)) :
                                   SubSeq(lines, b0, Len(lines))[i].k = "end"
                                     /\ \A j \in 1..(i - 1) : ~(SubSeq(lines, b0, Len(lines))[j].k = "end")) + 1,
                                Len(SubSeq(lines, b0, Len(lines))))
                    ELSE <<>>)
    <3>1. \E i \in DOMAIN lines : lines[i].k = "begin"
      BY <1>0
    <3> QED BY <3>1 DEF StripManagedAIConnectorsSection, FirstAt
  <2>2. out = SubSeq(lines, 1, b - 1) \o (IF \E i \in DOMAIN r : r[i].k = "end" THEN SubSeq(r, e0 + 1, Len(r)) ELSE <<>>)
    <3> HIDE DEF b0
    <3> QED BY <1>1, <2>1 DEF r
  <2>3. \E i \in DOMAIN r : r[i].k = "end"
    BY <1>2, <1>n, <1>3
  <2> HIDE DEF e0, b0
  <2> QED BY <1>5, <2>2, <2>3
<1>7. x \in Seq(LineSet) /\ Len(x) = b - 1 /\ \A i \in 1..(b - 1) : x[i] = lines[i]
  BY <1>0
<1>8. y \in Seq(LineSet) /\ Len(y) = Len(lines) - e /\ \A i \in 1..Len(y) : y[i] = lines[i + e]
  <2>1. n + 1 \in 1..(Len(r) + 1)
    BY <1>n, <1>2
  <2>a. y = SubSeq(r, n + 1, Len(r)) /\ r \in Seq(LineSet)
    BY <1>2
  <2> HIDE DEF y
  <2>2. y \in Seq(LineSet) /\ Len(y) = Len(r) - (n + 1) + 1 /\ Len(y) \in Nat
        /\ \A i \in 1..Len(y) : y[i] = r[i + (n + 1) - 1]
    BY <2>a, <2>1, RestIs
  <2>3. Len(y) = Len(lines) - e
    <3>1. Len(r) = Len(lines) - b + 1 /\ n = e - b + 1 /\ Len(y) = Len(r) - (n + 1) + 1
      BY <1>2, <1>n, <2>2
    <3> QED BY <1>0, <3>1
  <2>4. ASSUME NEW i \in 1..Len(y) PROVE y[i] = lines[i + e]
    <3>1. i + (n + 1) - 1 = i + n /\ i + n \in 1..Len(r) /\ (i + n) + b - 1 = i + e
      BY <1>0, <1>2, <1>n, <2>2
    <3>2. y[i] = r[i + n] /\ r[i + n] = lines[(i + n) + b - 1]
      BY <1>2, <2>2, <3>1
    <3> QED BY <3>1, <3>2
  <2> QED BY <2>2, <2>3, <2>4
<1> HIDE DEF x, y
<1>9. /\ out \in Seq(LineSet) /\ Len(out) = Len(x) + Len(y)
      /\ \A i \in 1..Len(x) : out[i] = x[i]
      /\ \A i \in 1..Len(y) : out[Len(x) + i] = y[i]
  <2>1. x \in Seq(LineSet) /\ y \in Seq(LineSet)
    BY <1>7, <1>8
  <2> QED BY <1>6, <2>1, JoinIs
<1>10. Len(out) = Len(lines) - (e - b + 1)
  BY <1>0, <1>7, <1>8, <1>9
<1>11. \A i \in 1..(b - 1) : out[i] = lines[i]
  BY <1>7, <1>9
<1>12. ASSUME NEW i \in b..Len(out) PROVE out[i] = lines[i + (e - b + 1)]
  <2>1. i - Len(x) \in 1..Len(y) /\ Len(x) + (i - Len(x)) = i /\ (i - Len(x)) + e = i + (e - b + 1)
    BY <1>0, <1>7, <1>8, <1>9, <1>10
  <2>2. out[Len(x) + (i - Len(x))] = y[i - Len(x)] /\ y[i - Len(x)] = lines[(i - Len(x)) + e]
    BY <1>8, <1>9, <2>1
  <2> QED BY <2>1, <2>2
<1> QED BY <1>9, <1>10, <1>11, <1>12

\* Without its section the file has the lines a load found, less the marks.
LEMMA StrippedIs ==
  ASSUME NEW lines \in Seq(LineSet), LaidOut(lines),
         NEW out, out = StripManagedAIConnectorsSection(lines)
  PROVE  /\ out \in Seq(LineSet) /\ Bare(out) /\ Parses(out)
         /\ \A key \in Credential : \A v : ShowsLine(out, key, v) <=> ShowsLine(lines, key, v)
<1>0. Len(lines) \in Nat /\ DOMAIN lines = 1..Len(lines)
  OBVIOUS
<1> DEFINE Kept == /\ \A i \in DOMAIN out : \E j \in DOMAIN Top(lines) : out[i] = Top(lines)[j]
                   /\ \A j \in DOMAIN Top(lines) : Top(lines)[j].k \notin Marks =>
                        \E i \in DOMAIN out : out[i] = Top(lines)[j]
                   /\ \A i, j \in DOMAIN out : out[i].k = out[j].k => i = j
<1>1. ASSUME out \in Seq(LineSet), Bare(out), Kept
      PROVE  Parses(out) /\ \A key \in Credential : \A v : ShowsLine(out, key, v) <=> ShowsLine(lines, key, v)
  <2>1. Top(out) = out
    BY <1>1, TopOf
  <2>2. Parses(out)
    BY <1>1, <2>1 DEF Parses
  <2>3. ASSUME NEW key \in Credential, NEW v PROVE ShowsLine(out, key, v) <=> ShowsLine(lines, key, v)
    <3>1. key \notin Marks
      BY DEF Credential, Marks
    <3>2. ShowsLine(out, key, v) => ShowsLine(lines, key, v)
      BY <1>1, <2>1 DEF ShowsLine
    <3>3. ShowsLine(lines, key, v) => ShowsLine(out, key, v)
      BY <1>1, <2>1, <3>1 DEF ShowsLine
    <3> QED BY <3>2, <3>3
  <2> QED BY <2>2, <2>3
<1>p. \A i, j \in DOMAIN Top(lines) : Top(lines)[i].k = Top(lines)[j].k => i = j
  BY DEF LaidOut, Parses
<1>2. CASE Bare(lines)
  <2>1. out = lines
    BY <1>2 DEF StripManagedAIConnectorsSection, Bare, Marks
  <2>2. Top(lines) = lines
    BY <1>2, TopOf
  <2>3. Kept
    BY <1>p, <2>1, <2>2
  <2> QED BY <1>1, <1>2, <2>1, <2>3
<1>3. ASSUME NEW b \in DOMAIN lines, EmptyAt(lines, b)
      PROVE  out \in Seq(LineSet) /\ Bare(out) /\ Kept
  <2> DEFINE e == b + 1
  <2>1. b \in 1..Len(lines) /\ e \in 1..Len(lines) /\ b < e /\ e = b + 1 /\ b \in Nat
    BY <1>0, <1>3 DEF EmptyAt
  <2>2. lines[b].k = "begin" /\ lines[e].k = "end" /\ \A i \in DOMAIN lines \ {b, e} : lines[i].k \notin Marks
    BY <1>3 DEF EmptyAt
  <2> HIDE DEF e
  <2>3. \A i \in 1..(b - 1) : lines[i].k # "begin"
    <3>1. \A i \in 1..(b - 1) : i \in DOMAIN lines \ {b, e}
      BY <1>0, <2>1
    <3> QED BY <2>2, <3>1 DEF Marks
  <2>4. \A i \in (b + 1)..(e - 1) : lines[i].k # "end"
    BY <2>1
  <2>a. lines[b].k = "begin" /\ lines[e].k = "end"
    BY <2>2
  <2>5. /\ out \in Seq(LineSet) /\ Len(out) = Len(lines) - (e - b + 1)
        /\ \A i \in 1..(b - 1) : out[i] = lines[i]
        /\ \A i \in b..Len(out) : out[i] = lines[i + (e - b + 1)]
    <3>1. Section(lines, b, e)
      BY <2>1, <2>a, <2>3, <2>4 DEF Section
    <3>2. b \in 1..Len(lines) /\ e \in 1..Len(lines)
      BY <2>1
    <3> QED BY <3>1, <3>2, CutIs
  <2>b. e - b + 1 = 2
    BY <2>1
  <2>c. Len(out) = Len(lines) - 2 /\ \A i \in b..Len(out) : out[i] = lines[i + 2]
    BY <2>5, <2>b
  <2>6. Len(out) = Len(lines) - 2 /\ Len(out) \in Nat /\ DOMAIN out = 1..Len(out)
    BY <2>5, <2>c
  <2> DEFINE Of(i) == IF i < b THEN i ELSE i + 2
  <2>7. ASSUME NEW i \in DOMAIN out
        PROVE  Of(i) \in DOMAIN lines \ {b, e} /\ out[i] = lines[Of(i)]
    <3>1. i \in Nat /\ 1 <= i /\ i <= Len(lines) - 2
      BY <2>6
    <3>2. Of(i) \in DOMAIN lines \ {b, e}
      BY <1>0, <2>1, <3>1
    <3>3. CASE i < b
      <4>1. i \in 1..(b - 1)
        BY <2>1, <3>1, <3>3
      <4> QED BY <2>5, <3>2, <3>3, <4>1
    <3>4. CASE ~(i < b)
      <4>1. i \in b..Len(out)
        BY <2>1, <2>6, <3>1, <3>4
      <4> QED BY <2>c, <3>2, <3>4, <4>1
    <3> QED BY <3>3, <3>4
  <2>8. \A j \in DOMAIN lines \ {b, e} : \E i \in DOMAIN out : Of(i) = j
    <3> SUFFICES ASSUME NEW j \in DOMAIN lines \ {b, e} PROVE \E i \in DOMAIN out : Of(i) = j
      OBVIOUS
    <3>1. CASE j < b
      BY <1>0, <2>1, <2>6, <3>1
    <3>2. CASE ~(j < b)
      <4>0. j \in Nat /\ b + 2 <= j /\ j <= Len(lines)
        BY <1>0, <2>1, <3>2
      <4>1. j - 2 \in DOMAIN out /\ ~(j - 2 < b) /\ (j - 2) + 2 = j
        BY <1>0, <2>1, <2>6, <4>0
      <4>2. Of(j - 2) = j
        BY <4>1
      <4> QED BY <4>1, <4>2
    <3> QED BY <3>1, <3>2
  <2>9. \A i, j \in DOMAIN out : Of(i) = Of(j) => i = j
    BY <2>1, <2>6
  <2>10. Top(lines) = lines
    BY <1>3, TopOf
  <2>11. \A j \in DOMAIN lines : lines[j].k \notin Marks => j \notin {b, e}
    BY <2>2 DEF Marks
  <2> HIDE DEF Of
  <2>12. Bare(out)
    BY <2>2, <2>7 DEF Bare
  <2>13. \A i \in DOMAIN out : \E j \in DOMAIN Top(lines) : out[i] = Top(lines)[j]
    BY <2>7, <2>10
  <2>14. ASSUME NEW j \in DOMAIN Top(lines), Top(lines)[j].k \notin Marks
         PROVE  \E i \in DOMAIN out : out[i] = Top(lines)[j]
    <3>1. PICK i \in DOMAIN out : Of(i) = j
      BY <2>8, <2>10, <2>11, <2>14
    <3> QED BY <2>7, <2>10, <3>1
  <2>15. ASSUME NEW i \in DOMAIN out, NEW j \in DOMAIN out, out[i].k = out[j].k PROVE i = j
    <3>1. Of(i) = Of(j)
      BY <1>p, <2>7, <2>10, <2>15
    <3> QED BY <2>9, <3>1
  <2> QED BY <2>5, <2>12, <2>13, <2>14, <2>15
<1>4. ASSUME NEW b \in DOMAIN lines, ConnectorsAt(lines, b)
      PROVE  out \in Seq(LineSet) /\ Bare(out) /\ Kept
  <2> DEFINE e == Len(lines)
  <2>1. b \in 1..Len(lines) /\ e \in 1..Len(lines) /\ b < e /\ b + 1 < e
    BY <1>0, <1>4 DEF ConnectorsAt
  <2>2. /\ lines[b].k = "begin" /\ lines[e].k = "end"
        /\ \A i \in 1..(b - 1) : lines[i].k \notin Marks
        /\ \A i \in (b + 1)..(e - 1) : lines[i].k \in {"table", "api_key"}
    BY <1>4 DEF ConnectorsAt
  <2>3. \A i \in 1..(b - 1) : lines[i].k # "begin"
    BY <2>2 DEF Marks
  <2>4. \A i \in (b + 1)..(e - 1) : lines[i].k # "end"
    BY <2>2
  <2>5. /\ out \in Seq(LineSet) /\ Len(out) = Len(lines) - (e - b + 1)
        /\ \A i \in 1..(b - 1) : out[i] = lines[i]
    <3>1. lines[b].k = "begin" /\ lines[e].k = "end"
      BY <2>2
    <3>2. b \in 1..Len(lines) /\ e \in 1..Len(lines) /\ b < e
      BY <2>1
    <3> HIDE DEF e
    <3>3. Section(lines, b, e)
      BY <2>3, <2>4, <3>1, <3>2 DEF Section
    <3> QED BY <3>2, <3>3, CutIs
  <2>6. Len(out) = b - 1 /\ DOMAIN out = 1..(b - 1) /\ b \in Nat
    BY <1>0, <2>1, <2>5
  <2>7. Top(lines) = SubSeq(lines, 1, b)
    BY <1>4, TopOf
  <2>8. DOMAIN Top(lines) = 1..b /\ \A i \in 1..b : Top(lines)[i] = lines[i]
    BY <1>0, <2>1, <2>7
  <2>9. \A i \in DOMAIN out : i \in DOMAIN Top(lines) /\ out[i] = Top(lines)[i] /\ out[i].k \notin Marks
    <3> SUFFICES ASSUME NEW i \in 1..(b - 1)
                 PROVE  i \in DOMAIN Top(lines) /\ out[i] = Top(lines)[i] /\ out[i].k \notin Marks
      BY <2>6
    <3>1. i \in 1..b
      BY <2>6
    <3> QED BY <2>2, <2>5, <2>8, <3>1
  <2>10. \A j \in DOMAIN Top(lines) : Top(lines)[j].k \notin Marks => j \in DOMAIN out
    <3>1. \A j \in 1..b : j # b => j \in 1..(b - 1)
      BY <2>6
    <3> QED BY <2>2, <2>6, <2>8, <3>1 DEF Marks
  <2>11. Bare(out)
    BY <2>9 DEF Bare
  <2>12. Kept
    BY <1>p, <2>9, <2>10
  <2> QED BY <2>5, <2>11, <2>12
<1> HIDE DEF Kept
<1> QED BY <1>1, <1>2, <1>3, <1>4 DEF LaidOut

\* The section is replaced: a load finds of the credentials what it found.
LEMMA ConnectorsLay ==
  ASSUME NEW lines \in Seq(LineSet), LaidOut(lines), Full(lines), NEW up, NEW b \in BOOLEAN,
         up = StripManagedAIConnectorsSection(lines) \o RenderManagedAIConnectorsSection(b)
  PROVE  /\ up \in Seq(LineSet) /\ LaidOut(up) /\ Full(up)
         /\ \A key \in Credential : Value(up, key) = Value(lines, key)
<1> DEFINE s == StripManagedAIConnectorsSection(lines)
           t == RenderManagedAIConnectorsSection(b)
<1>1. /\ s \in Seq(LineSet) /\ Bare(s) /\ Parses(s)
      /\ \A key \in Credential : \A v : ShowsLine(s, key, v) <=> ShowsLine(lines, key, v)
  BY StrippedIs
<1>2. /\ t \in Seq(LineSet) /\ Len(t) = (IF b THEN 4 ELSE 2) /\ t[1].k = "begin"
      /\ ~b => t[2].k = "end"
      /\ b => t[2].k = "table" /\ t[3].k = "api_key" /\ t[4].k = "end"
  BY RenderedIs
<1>3. up = s \o t
  OBVIOUS
<1> HIDE DEF s, t
<1>4. s \in Seq(LineSet) /\ t \in Seq(LineSet)
  BY <1>1, <1>2
<1>5. /\ up \in Seq(LineSet) /\ Len(up) = Len(s) + Len(t) /\ Len(s) \in Nat
      /\ \A i \in 1..Len(s) : up[i] = s[i]
      /\ \A i \in 1..Len(t) : up[Len(s) + i] = t[i]
  BY <1>3, <1>4, JoinIs
<1> DEFINE m == Len(s) + 1
<1>m. m \in Nat /\ 1 <= m /\ Len(s) = m - 1
  BY <1>5
<1>6. /\ Len(up) = (m - 1) + Len(t)
      /\ \A i \in 1..(m - 1) : up[i] = s[i] /\ up[i].k \notin Marks
      /\ up[m] = t[1] /\ up[m + 1] = t[2] /\ (b => up[m + 2] = t[3] /\ up[m + 3] = t[4])
  <2>1. \A i \in 1..Len(s) : up[i] = s[i] /\ up[i].k \notin Marks
    BY <1>1, <1>5 DEF Bare
  <2>2. up[Len(s) + 1] = t[1] /\ up[Len(s) + 2] = t[2] /\ (b => up[Len(s) + 3] = t[3] /\ up[Len(s) + 4] = t[4])
    <3>1. 1 \in 1..Len(t) /\ 2 \in 1..Len(t) /\ (b => 3 \in 1..Len(t) /\ 4 \in 1..Len(t))
      BY <1>2
    <3> QED BY <1>5, <3>1
  <2>3. Len(s) + 1 = m /\ Len(s) + 2 = m + 1 /\ Len(s) + 3 = m + 2 /\ Len(s) + 4 = m + 3
    BY <1>5
  <2> HIDE DEF m
  <2> QED BY <1>5, <1>m, <2>1, <2>2, <2>3
<1>7. Top(s) = s /\ \A i, j \in DOMAIN s : s[i].k = s[j].k => i = j
  <2>1. Top(s) = s
    BY <1>1, TopOf
  <2> QED BY <1>1, <2>1 DEF Parses
<1>8. \A key \in Needed : \E i \in 1..(m - 1) : s[i].k = key
  <2> SUFFICES ASSUME NEW key \in Needed PROVE \E i \in DOMAIN s : s[i].k = key
    BY <1>1, <1>m
  <2>1. key \in Credential /\ Has(lines, key)
    BY DEF Needed, Full
  <2>2. PICK v : ShowsLine(lines, key, v)
    BY <2>1 DEF Has, ShowsLine
  <2>3. ShowsLine(s, key, v)
    BY <1>1, <2>1, <2>2
  <2> QED BY <1>7, <2>3 DEF ShowsLine
<1> HIDE DEF m
\* What a load finds: the keys, and one mark or two.
<1> DEFINE n == IF b THEN m ELSE m + 1
<1>9. /\ \E p \in DOMAIN up : EmptyAt(up, p) \/ ConnectorsAt(up, p)
      /\ DOMAIN Top(up) = 1..n /\ \A i \in 1..n : Top(up)[i] = up[i]
      /\ \A i \in 1..n : i \in 1..(m - 1) \/ up[i].k \in Marks
      /\ \A i, j \in m..n : up[i].k = up[j].k => i = j
  <2>1. CASE b
    <3>0. Len(t) = 4
      BY <1>2, <2>1
    <3>a. Len(up) = m + 3
      BY <1>6, <1>m, <3>0
    <3>b. DOMAIN up = 1..Len(up)
      BY <1>5
    <3>1. Len(up) = m + 3 /\ m \in DOMAIN up /\ m + 3 \in DOMAIN up
      BY <1>m, <3>a, <3>b
    <3>2. up[m].k = "begin" /\ up[m + 1].k = "table" /\ up[m + 2].k = "api_key" /\ up[m + 3].k = "end"
      BY <1>2, <1>6, <2>1
    <3>3. \A i \in (m + 1)..(Len(up) - 1) : up[i].k \in {"table", "api_key"}
      <4>1. \A i \in (m + 1)..(Len(up) - 1) : i = m + 1 \/ i = m + 2
        BY <1>m, <3>1
      <4> QED BY <3>2, <4>1
    <3>4. up[Len(up)].k = "end"
      BY <3>1, <3>2
    <3>5. ConnectorsAt(up, m)
      BY <1>6, <1>8, <3>1, <3>2, <3>3, <3>4 DEF ConnectorsAt
    <3>6. Top(up) = SubSeq(up, 1, m)
      BY <1>5, <3>1, <3>5, TopOf
    <3>7. DOMAIN Top(up) = 1..m /\ \A i \in 1..m : Top(up)[i] = up[i]
      <4>1. m \in 1..Len(up) /\ up \in Seq(LineSet)
        BY <1>5, <1>m, <3>1
      <4> QED BY <3>6, <4>1
    <3>8. \A i \in 1..m : i \in 1..(m - 1) \/ i = m
      BY <1>m
    <3>9. \A i \in 1..m : i \in 1..(m - 1) \/ up[i].k \in Marks
      BY <3>2, <3>8 DEF Marks
    <3>10. \A i, j \in m..m : i = j
      BY <1>m
    <3> QED BY <2>1, <3>1, <3>5, <3>7, <3>9, <3>10
  <2>2. CASE ~b
    <3>0. Len(t) = 2
      BY <1>2, <2>2
    <3>a. Len(up) = m + 1
      BY <1>6, <1>m, <3>0
    <3>b. DOMAIN up = 1..Len(up)
      BY <1>5
    <3>1. Len(up) = m + 1 /\ m \in DOMAIN up /\ m + 1 \in DOMAIN up
      BY <1>m, <3>a, <3>b
    <3>2. up[m].k = "begin" /\ up[m + 1].k = "end"
      BY <1>2, <1>6, <2>2
    <3>3. \A i \in 1..(m + 1) : i \in 1..(m - 1) \/ i = m \/ i = m + 1
      BY <1>m
    <3>4. DOMAIN up = 1..(m + 1)
      BY <1>5, <3>1
    <3>5. EmptyAt(up, m)
      BY <1>6, <3>1, <3>2, <3>3, <3>4 DEF EmptyAt
    <3>6. Top(up) = up
      BY <1>5, <3>1, <3>5, TopOf
    <3>7. \A i \in 1..(m + 1) : i \in 1..(m - 1) \/ up[i].k \in Marks
      BY <3>2, <3>3 DEF Marks
    <3>8. ASSUME NEW i \in m..(m + 1), NEW j \in m..(m + 1), up[i].k = up[j].k PROVE i = j
      <4>1. (i = m \/ i = m + 1) /\ (j = m \/ j = m + 1)
        BY <1>m
      <4>2. up[m].k # up[m + 1].k
        BY <3>2
      <4>3. CASE i = m /\ j = m + 1
        BY <3>8, <4>2, <4>3
      <4>4. CASE i = m + 1 /\ j = m
        BY <3>8, <4>2, <4>4
      <4> QED BY <4>1, <4>3, <4>4
    <3> QED BY <2>2, <3>1, <3>4, <3>5, <3>6, <3>7, <3>8
  <2> QED BY <2>1, <2>2
<1>n. n \in Nat /\ m <= n /\ DOMAIN s = 1..(m - 1) /\ \A i \in 1..n : i \in 1..(m - 1) \/ i \in m..n
  BY <1>1, <1>m
<1> HIDE DEF n
<1>10. Parses(up)
  <2> SUFFICES ASSUME NEW i \in 1..n, NEW j \in 1..n, up[i].k = up[j].k PROVE i = j
    BY <1>9 DEF Parses
  <2>1. CASE i \in 1..(m - 1) /\ j \in 1..(m - 1)
    <3>1. up[i] = s[i] /\ up[j] = s[j] /\ i \in DOMAIN s /\ j \in DOMAIN s
      BY <1>6, <1>n, <2>1
    <3>2. s[i].k = s[j].k
      BY <3>1
    <3> QED BY <1>7, <3>1, <3>2
  <2>2. CASE i \in m..n /\ j \in m..n
    BY <1>9, <2>2
  <2>3. \A x \in 1..(m - 1), y \in m..n : up[x].k # up[y].k
    <3>1. \A y \in m..n : y \in 1..n /\ y \notin 1..(m - 1)
      BY <1>m, <1>n
    <3> QED BY <1>6, <1>9, <3>1
  <2> QED BY <1>n, <2>1, <2>2, <2>3
<1>11. LaidOut(up)
  BY <1>9, <1>10 DEF LaidOut
<1>12. ASSUME NEW key \in Credential, NEW v PROVE ShowsLine(up, key, v) <=> ShowsLine(s, key, v)
  <2>1. key \notin Marks
    BY DEF Credential, Marks
  <2>2. \A i \in 1..(m - 1) : i \in 1..n
    BY <1>m, <1>n
  <2>3. ASSUME ShowsLine(s, key, v) PROVE ShowsLine(up, key, v)
    <3>1. PICK i \in DOMAIN s : s[i].k = key /\ s[i].v = v
      BY <1>7, <2>3 DEF ShowsLine
    <3>2. i \in 1..(m - 1)
      BY <1>n, <3>1
    <3>3. i \in DOMAIN Top(up) /\ Top(up)[i] = up[i] /\ up[i] = s[i]
      BY <1>6, <1>9, <2>2, <3>2
    <3> QED BY <3>1, <3>3 DEF ShowsLine
  <2>4. ASSUME ShowsLine(up, key, v) PROVE ShowsLine(s, key, v)
    <3>1. PICK i \in DOMAIN Top(up) : Top(up)[i].k = key /\ Top(up)[i].v = v
      BY <2>4 DEF ShowsLine
    <3>2. i \in 1..n /\ Top(up)[i] = up[i]
      BY <1>9, <3>1
    <3>3. i \in 1..(m - 1)
      BY <1>9, <2>1, <3>1, <3>2
    <3>4. i \in DOMAIN s /\ up[i] = s[i]
      BY <1>6, <1>n, <3>3
    <3> QED BY <1>7, <3>1, <3>2, <3>4 DEF ShowsLine
  <2> QED BY <2>3, <2>4
<1>13. ASSUME NEW key \in Credential
       PROVE  Value(up, key) = Value(lines, key) /\ (Has(up, key) <=> Has(lines, key))
  <2>1. \A v : ShowsLine(up, key, v) <=> ShowsLine(lines, key, v)
    BY <1>1, <1>12
  <2>2. up \in Seq(LineSet) /\ Parses(lines)
    BY <1>5 DEF LaidOut
  <2> QED BY <1>10, <2>1, <2>2, SameLines
<1>14. Full(up)
  BY <1>13 DEF Full, Needed
<1> QED BY <1>5, <1>11, <1>13, <1>14

-----------------------------------------------------------------------------
(* What a write makes of it.                                               *)

Ups == Seq(Credential \X Nat)

LEMMA EditLays ==
  ASSUME NEW lines \in Seq(LineSet), LaidOut(lines), NEW ups \in Ups, NEW w, w = Edited(lines, ups)
  PROVE  /\ w \in Seq(LineSet) /\ LaidOut(w)
         /\ \A key : Has(lines, key) => Has(w, key)
         /\ \A key \in Needed : Mentions(ups, key) => Has(w, key)
         /\ \A key : ~Mentions(ups, key) => Value(w, key) = Value(lines, key)
         /\ \A key, v : Mentions(ups, key) /\ Puts(ups, key, {v}) =>
              Value(w, key) = v \/ (key = "api_key" /\ Value(w, key) = 0)
<1>0. ups \in Seq(Credential \X Nat)
  BY DEF Ups
<1>1. PICK g : /\ g[0] = lines /\ w = g[Len(ups)]
               /\ \A n \in 1..Len(ups) : g[n] = Updated(g[n - 1], ups[n])
  BY <1>0, EditedIs
<1> DEFINE Named(n, key) == \E i \in 1..n : ups[i][1] = key
           Kept(n) == \A key : Has(lines, key) \/ (key \in Needed /\ Named(n, key)) => Has(g[n], key)
           Left(n) == \A key : ~Named(n, key) => Value(g[n], key) = Value(lines, key)
           Put(n)  == \A key, v : Named(n, key) /\ Puts(ups, key, {v}) =>
                        Value(g[n], key) = v \/ (key = "api_key" /\ Value(g[n], key) = 0)
           Good(n) == g[n] \in Seq(LineSet) /\ LaidOut(g[n]) /\ Kept(n) /\ Left(n) /\ Put(n)
           T == {n \in 0..Len(ups) : ~Good(n)}
<1>2. T = {}
  <2> SUFFICES ASSUME T # {} PROVE FALSE
    OBVIOUS
  <2>1. T \in SUBSET Nat
    OBVIOUS
  <2>2. PICK m \in T : \A k \in T : m <= k
    <3> HIDE DEF Good
    <3> QED BY <2>1, Least
  <2>3. Good(0)
    BY <1>1
  <2>4. m \in 1..Len(ups) /\ m - 1 \in 0..Len(ups) /\ Good(m - 1)
    <3> HIDE DEF Good
    <3> QED BY <2>2, <2>3
  <2> DEFINE name == ups[m][1]
             val  == ups[m][2]
             a    == g[m - 1]
             b    == g[m]
  <2>5. name \in Credential /\ val \in Nat
    BY <1>0, <2>4
  <2>6. b = UpsertQuotedConfigValue(a, name, val)
    <3>1. name # "connectors"
      BY <2>5 DEF Credential
    <3> QED BY <1>1, <2>4, <3>1 DEF Updated
  <2>7. a \in Seq(LineSet) /\ LaidOut(a) /\ Kept(m - 1) /\ Left(m - 1) /\ Put(m - 1)
    BY <2>4
  <2>8. \A key : Named(m, key) <=> Named(m - 1, key) \/ name = key
    BY <2>4
  <2>9. \A key, v : name = key /\ Puts(ups, key, {v}) => val = v
    BY <2>4 DEF Puts
  <2> HIDE DEF name, val
  <2>u. Upserted(a, name, val, b)
    <3>1. a \in Seq(LineSet) /\ LaidOut(a)
      BY <2>7
    <3> HIDE DEF a, b, T
    <3> QED BY <2>5, <2>6, <3>1, UpsertLays
  <2>10. /\ b \in Seq(LineSet) /\ LaidOut(b)
         /\ \A key : Has(a, key) => Has(b, key)
         /\ \A key : key # name => Value(b, key) = Value(a, key)
         /\ Value(b, name) = val \/ (name = "api_key" /\ Value(b, name) = 0)
         /\ name \in Needed => Has(b, name)
    BY <2>u DEF Upserted
  <2> HIDE DEF Named
  <2>11. Kept(m)
    BY <2>7, <2>8, <2>10
  <2>12. Left(m)
    BY <2>7, <2>8, <2>10
  <2>13. Put(m)
    <3> SUFFICES ASSUME NEW key, NEW v, Named(m, key), Puts(ups, key, {v})
                 PROVE  Value(b, key) = v \/ (key = "api_key" /\ Value(b, key) = 0)
      OBVIOUS
    <3>1. CASE key = name
      BY <2>9, <2>10, <3>1
    <3>2. CASE key # name
      BY <2>7, <2>8, <2>10, <3>2
    <3> QED BY <3>1, <3>2
  <2> QED BY <2>2, <2>10, <2>11, <2>12, <2>13
<1>3. Good(Len(ups))
  <2> HIDE DEF Good
  <2> QED BY <1>2
<1>4. \A key : Mentions(ups, key) <=> Named(Len(ups), key)
  <2>1. DOMAIN ups = 1..Len(ups)
    BY <1>0
  <2> QED BY <2>1 DEF Mentions
<1> HIDE DEF Named
<1> QED BY <1>1, <1>3, <1>4

\* A write of these pairs, of a value for each key.
Writes(ups, S) == ups \in Ups /\ {ups[i] : i \in DOMAIN ups} = S

LEMMA WriteLays ==
  ASSUME NEW lines \in Seq(LineSet), LaidOut(lines), NEW ups, NEW S, Writes(ups, S),
         NEW w, w = Edited(lines, ups)
  PROVE  /\ w \in Seq(LineSet) /\ LaidOut(w)
         /\ \A key : Has(lines, key) => Has(w, key)
         /\ \A u \in S : u[1] \in Needed => Has(w, u[1])
         /\ \A key : (\A u \in S : u[1] # key) => Value(w, key) = Value(lines, key)
         /\ \A u \in S : (\A x \in S : x[1] = u[1] => x[2] = u[2]) =>
              Value(w, u[1]) = u[2] \/ (u[1] = "api_key" /\ Value(w, u[1]) = 0)
<1>1. ups \in Ups /\ \A i \in DOMAIN ups : ups[i] \in S
  BY DEF Writes
<1>2. \A u \in S : \E i \in DOMAIN ups : ups[i] = u
  BY DEF Writes
<1>3. /\ w \in Seq(LineSet) /\ LaidOut(w)
      /\ \A key : Has(lines, key) => Has(w, key)
      /\ \A key \in Needed : Mentions(ups, key) => Has(w, key)
      /\ \A key : ~Mentions(ups, key) => Value(w, key) = Value(lines, key)
      /\ \A key, v : Mentions(ups, key) /\ Puts(ups, key, {v}) =>
           Value(w, key) = v \/ (key = "api_key" /\ Value(w, key) = 0)
  BY <1>1, EditLays
<1>4. \A u \in S : Mentions(ups, u[1])
  BY <1>2 DEF Mentions
<1>5. ASSUME NEW key, \A u \in S : u[1] # key PROVE ~Mentions(ups, key)
  BY <1>1, <1>5 DEF Mentions
<1>6. ASSUME NEW u \in S, \A x \in S : x[1] = u[1] => x[2] = u[2] PROVE Puts(ups, u[1], {u[2]})
  BY <1>1, <1>6 DEF Puts
<1> QED BY <1>3, <1>4, <1>5, <1>6

LEMMA PairWritten ==
  ASSUME NEW key \in Credential, NEW n \in Nat
  PROVE  Writes(<<<<key, n>>>>, {<<key, n>>})
<1> DEFINE u == <<key, n>>
           s == <<u>>
<1>1. u \in Credential \X Nat
  OBVIOUS
<1> HIDE DEF u
<1>2. s \in Seq(Credential \X Nat) /\ DOMAIN s = {1} /\ s[1] = u
  BY <1>1
<1> HIDE DEF s
<1>3. Writes(s, {u})
  BY <1>2 DEF Writes, Ups
<1> QED BY <1>3 DEF s, u

LEMMA PairsWritten ==
  ASSUME NEW s, NEW S, Writes(s, S), NEW t, NEW T, Writes(t, T)
  PROVE  Writes(s \o t, S \cup T)
<1> DEFINE C == Credential \X Nat
           st == s \o t
<1>1. s \in Seq(C) /\ t \in Seq(C) /\ S = {s[i] : i \in DOMAIN s} /\ T = {t[i] : i \in DOMAIN t}
  BY DEF Writes, Ups
<1> HIDE DEF C
<1>2. st \in Seq(C) /\ Len(st) = Len(s) + Len(t) /\ Len(s) \in Nat /\ Len(t) \in Nat
  BY <1>1
<1>3. \A i \in 1..Len(s) : st[i] = s[i] /\ i \in DOMAIN st
  BY <1>1, <1>2
<1>4. \A i \in 1..Len(t) : st[i + Len(s)] = t[i] /\ i + Len(s) \in DOMAIN st
  BY <1>1, <1>2
<1>5. \A i \in DOMAIN st : i \in 1..Len(s) \/ (i - Len(s) \in 1..Len(t) /\ (i - Len(s)) + Len(s) = i)
  BY <1>2
<1>6. DOMAIN s = 1..Len(s) /\ DOMAIN t = 1..Len(t)
  BY <1>1
<1> HIDE DEF st
<1>7. \A i \in DOMAIN st : st[i] \in S \cup T
  <2> SUFFICES ASSUME NEW i \in DOMAIN st PROVE st[i] \in S \cup T
    OBVIOUS
  <2>1. CASE i \in 1..Len(s)
    BY <1>1, <1>3, <1>6, <2>1
  <2>2. CASE i - Len(s) \in 1..Len(t) /\ (i - Len(s)) + Len(s) = i
    <3>1. st[i] = t[i - Len(s)] /\ i - Len(s) \in DOMAIN t
      BY <1>4, <1>6, <2>2
    <3> QED BY <1>1, <3>1
  <2> QED BY <1>5, <2>1, <2>2
<1>8. \A u \in S : \E i \in DOMAIN st : st[i] = u
  BY <1>1, <1>3, <1>6
<1>9. \A u \in T : \E i \in DOMAIN st : st[i] = u
  <2> SUFFICES ASSUME NEW i \in DOMAIN t PROVE \E j \in DOMAIN st : st[j] = t[i]
    BY <1>1
  <2> QED BY <1>4, <1>6
<1>10. {st[i] : i \in DOMAIN st} = S \cup T
  BY <1>7, <1>8, <1>9
<1> QED BY <1>2, <1>10 DEF Writes, Ups, C, st

\* What each kind of write leaves, in a file that is laid out.
\* w is lines with other values of the keys of S.
Rewritten(lines, w, S) ==
  /\ w \in Seq(LineSet) /\ LaidOut(w)
  /\ \A key : Has(lines, key) => Has(w, key)
  /\ \A key : key \notin S => Value(w, key) = Value(lines, key)

LEMMA KeyWritten ==
  ASSUME NEW lines \in Seq(LineSet), LaidOut(lines), NEW n \in Nat,
         NEW ups, Writes(ups, {<<"api_key", n>>}), NEW w, w = Edited(lines, ups)
  PROVE  Rewritten(lines, w, {"api_key"}) /\ Value(w, "api_key") \in {0, n}
<1> DEFINE S == {<<"api_key", n>>}
<1>1. Writes(ups, S)
  OBVIOUS
<1>2. /\ \A key : key # "api_key" => \A u \in S : u[1] # key
      /\ <<"api_key", n>> \in S /\ \A x \in S : x[2] = n
  OBVIOUS
<1> HIDE DEF S
<1>3. /\ w \in Seq(LineSet) /\ LaidOut(w)
      /\ \A key : Has(lines, key) => Has(w, key)
      /\ \A u \in S : u[1] \in Needed => Has(w, u[1])
      /\ \A key : (\A u \in S : u[1] # key) => Value(w, key) = Value(lines, key)
      /\ \A u \in S : (\A x \in S : x[1] = u[1] => x[2] = u[2]) =>
           Value(w, u[1]) = u[2] \/ (u[1] = "api_key" /\ Value(w, u[1]) = 0)
  BY <1>1, WriteLays
<1> QED BY <1>2, <1>3 DEF Rewritten

LEMMA OrgWritten ==
  ASSUME NEW lines \in Seq(LineSet), LaidOut(lines), NEW o \in Nat,
         NEW ups, Writes(ups, {<<"org_id", o>>}), NEW w, w = Edited(lines, ups)
  PROVE  Rewritten(lines, w, {"org_id"}) /\ Value(w, "org_id") = o
<1> DEFINE S == {<<"org_id", o>>}
<1>1. Writes(ups, S)
  OBVIOUS
<1>2. /\ \A key : key # "org_id" => \A u \in S : u[1] # key
      /\ <<"org_id", o>> \in S /\ \A x \in S : x[2] = o
  OBVIOUS
<1> HIDE DEF S
<1>3. /\ w \in Seq(LineSet) /\ LaidOut(w)
      /\ \A key : Has(lines, key) => Has(w, key)
      /\ \A u \in S : u[1] \in Needed => Has(w, u[1])
      /\ \A key : (\A u \in S : u[1] # key) => Value(w, key) = Value(lines, key)
      /\ \A u \in S : (\A x \in S : x[1] = u[1] => x[2] = u[2]) =>
           Value(w, u[1]) = u[2] \/ (u[1] = "api_key" /\ Value(w, u[1]) = 0)
  BY <1>1, WriteLays
<1> QED BY <1>2, <1>3 DEF Rewritten

LEMMA OrgKeyWritten ==
  ASSUME NEW lines \in Seq(LineSet), LaidOut(lines), NEW o \in Nat, NEW n \in Nat,
         NEW ups, Writes(ups, {<<"org_id", o>>, <<"api_key", n>>}), NEW w, w = Edited(lines, ups)
  PROVE  /\ Rewritten(lines, w, {"org_id", "api_key"})
         /\ Value(w, "org_id") = o /\ Value(w, "api_key") \in {0, n}
<1> DEFINE S == {<<"org_id", o>>, <<"api_key", n>>}
<1>1. Writes(ups, S)
  OBVIOUS
<1>2. /\ \A key : key \notin {"org_id", "api_key"} => \A u \in S : u[1] # key
      /\ <<"org_id", o>> \in S /\ \A x \in S : x[1] = "org_id" => x[2] = o
      /\ <<"api_key", n>> \in S /\ \A x \in S : x[1] = "api_key" => x[2] = n
  OBVIOUS
<1> HIDE DEF S
<1>3. /\ w \in Seq(LineSet) /\ LaidOut(w)
      /\ \A key : Has(lines, key) => Has(w, key)
      /\ \A u \in S : u[1] \in Needed => Has(w, u[1])
      /\ \A key : (\A u \in S : u[1] # key) => Value(w, key) = Value(lines, key)
      /\ \A u \in S : (\A x \in S : x[1] = u[1] => x[2] = u[2]) =>
           Value(w, u[1]) = u[2] \/ (u[1] = "api_key" /\ Value(w, u[1]) = 0)
  BY <1>1, WriteLays
<1> QED BY <1>2, <1>3 DEF Rewritten

LEMMA TokensWritten ==
  ASSUME NEW lines \in Seq(LineSet), LaidOut(lines), NEW n \in Nat,
         NEW ups, Writes(ups, {<<"jwt", n>>, <<"refresh_token", n>>}), NEW w, w = Edited(lines, ups)
  PROVE  Rewritten(lines, w, Tokens) /\ Value(w, "jwt") = n /\ Value(w, "refresh_token") = n
<1> DEFINE S == {<<"jwt", n>>, <<"refresh_token", n>>}
<1>1. Writes(ups, S)
  OBVIOUS
<1>2. /\ \A key : key \notin Tokens => \A u \in S : u[1] # key
      /\ <<"jwt", n>> \in S /\ <<"refresh_token", n>> \in S /\ \A x \in S : x[2] = n
  BY DEF Tokens
<1> HIDE DEF S
<1>3. /\ w \in Seq(LineSet) /\ LaidOut(w)
      /\ \A key : Has(lines, key) => Has(w, key)
      /\ \A u \in S : u[1] \in Needed => Has(w, u[1])
      /\ \A key : (\A u \in S : u[1] # key) => Value(w, key) = Value(lines, key)
      /\ \A u \in S : (\A x \in S : x[1] = u[1] => x[2] = u[2]) =>
           Value(w, u[1]) = u[2] \/ (u[1] = "api_key" /\ Value(w, u[1]) = 0)
  BY <1>1, WriteLays
<1>4. Value(w, "jwt") = n /\ Value(w, "refresh_token") = n
  BY <1>2, <1>3
<1> QED BY <1>2, <1>3, <1>4 DEF Rewritten

\* The pairs of a login, and those that leave an api_url alone.
LoginPairs(k, o, s) == {<<"api_key", k>>, <<"org_id", o>>, <<"jwt", s>>, <<"refresh_token", s>>}
PutsLogin(S, k, o, s, url, lines) ==
  \/ S = LoginPairs(k, o, s) \cup {<<"api_url", url>>}
  \/ S = LoginPairs(k, o, s) /\ Value(lines, "api_url") = url

LEMMA LoginWritten ==
  ASSUME NEW lines \in Seq(LineSet), LaidOut(lines), NEW k \in Nat, NEW o \in Nat, NEW s \in Nat,
         NEW url \in Nat \ {0}, NEW ups, NEW S, Writes(ups, S), NEW w, w = Edited(lines, ups),
         PutsLogin(S, k, o, s, url, lines)
  PROVE  /\ w \in Seq(LineSet) /\ LaidOut(w) /\ Full(w) /\ APIURL(w) = url
         /\ Value(w, "jwt") = s /\ Value(w, "refresh_token") = s
         /\ Value(w, "org_id") = o /\ Value(w, "api_key") \in {0, k}
<1>1. /\ w \in Seq(LineSet) /\ LaidOut(w)
      /\ \A key : Has(lines, key) => Has(w, key)
      /\ \A u \in S : u[1] \in Needed => Has(w, u[1])
      /\ \A key : (\A u \in S : u[1] # key) => Value(w, key) = Value(lines, key)
      /\ \A u \in S : (\A x \in S : x[1] = u[1] => x[2] = u[2]) =>
           Value(w, u[1]) = u[2] \/ (u[1] = "api_key" /\ Value(w, u[1]) = 0)
  BY WriteLays
<1>2. /\ <<"api_key", k>> \in S /\ <<"org_id", o>> \in S /\ <<"jwt", s>> \in S /\ <<"refresh_token", s>> \in S
  BY DEF LoginPairs, PutsLogin
<1>3. /\ \A x \in S : x[1] = "api_key" => x[2] = k
      /\ \A x \in S : x[1] = "org_id" => x[2] = o
      /\ \A x \in S : x[1] = "jwt" => x[2] = s
      /\ \A x \in S : x[1] = "refresh_token" => x[2] = s
  BY DEF LoginPairs, PutsLogin
<1>4. Value(w, "org_id") = o /\ Value(w, "api_key") \in {0, k} /\ Value(w, "jwt") = s /\ Value(w, "refresh_token") = s
  BY <1>1, <1>2, <1>3
<1>5. Has(w, "org_id") /\ Has(w, "jwt") /\ Has(w, "refresh_token")
  BY <1>1, <1>2 DEF Needed, Credential
<1>6. Has(w, "api_url") /\ Value(w, "api_url") = url
  <2>1. CASE S = LoginPairs(k, o, s) \cup {<<"api_url", url>>}
    <3>1. <<"api_url", url>> \in S /\ \A x \in S : x[1] = "api_url" => x[2] = url
      BY <2>1 DEF LoginPairs
    <3> QED BY <1>1, <3>1 DEF Needed, Credential
  <2>2. CASE S = LoginPairs(k, o, s) /\ Value(lines, "api_url") = url
    <3>1. \A u \in S : u[1] # "api_url"
      BY <2>2 DEF LoginPairs
    <3>2. Has(lines, "api_url")
      BY <2>2, ValueShows DEF LaidOut
    <3> QED BY <1>1, <2>2, <3>1, <3>2
  <2> QED BY <2>1, <2>2 DEF PutsLogin
<1>7. Full(w)
  BY <1>5, <1>6 DEF Full, Needed, Credential
<1>8. APIURL(w) = url
  BY <1>6 DEF APIURL
<1> QED BY <1>1, <1>4, <1>7, <1>8

LEMMA ListWritten ==
  ASSUME NEW lines \in Seq(LineSet), LaidOut(lines), Full(lines), NEW x,
         NEW w, w = Edited(lines, <<<<"connectors", x>>>>)
  PROVE  /\ w \in Seq(LineSet) /\ LaidOut(w) /\ Full(w)
         /\ \A key \in Credential : Value(w, key) = Value(lines, key)
<1> DEFINE u == <<"connectors", x>>
           ups == <<u>>
<1>0. u[1] = "connectors" /\ u[2] = x
  OBVIOUS
<1> HIDE DEF u
<1>1. ups \in Seq({u}) /\ Len(ups) = 1 /\ ups[1] = u
  OBVIOUS
<1>2. w = Edited(lines, ups)
  BY DEF u
<1> HIDE DEF ups
<1>3. w = Updated(lines, u)
  <2>1. PICK g : g[0] = lines /\ w = g[Len(ups)] /\ \A n \in 1..Len(ups) : g[n] = Updated(g[n - 1], ups[n])
    BY <1>1, <1>2, EditedIs
  <2>2. g[1] = Updated(g[1 - 1], ups[1]) /\ w = g[1]
    BY <1>1, <2>1
  <2>3. 1 - 1 = 0
    OBVIOUS
  <2> QED BY <1>1, <2>1, <2>2, <2>3
<1> DEFINE b == x = 1
<1>4. b \in BOOLEAN /\ w = StripManagedAIConnectorsSection(lines) \o RenderManagedAIConnectorsSection(b)
  BY <1>0, <1>3 DEF Updated
<1> HIDE DEF b
<1> QED BY <1>4, ConnectorsLay

-----------------------------------------------------------------------------
(* Which writes agree.                                                     *)

Extends(m, n) == \A i \in DOMAIN m : i \in DOMAIN n /\ n[i] = m[i]

LEMMA AgreesLater ==
  ASSUME NEW lines, NEW m, NEW n, Extends(m, n), NEW kl, NEW kn, kl => kn, Agrees(lines, m, kl)
  PROVE  Agrees(lines, n, kn)
<1>1. \A key \in Held : Value(lines, key) # 0 =>
        /\ Value(lines, key) \in DOMAIN n /\ n[Value(lines, key)] = m[Value(lines, key)]
        /\ n[Value(lines, key)].url = APIURL(lines)
  BY DEF Agrees, Extends
<1>2. "api_key" \in Held
  BY DEF Held
<1> QED BY <1>1, <1>2 DEF Agrees

LEMMA KeyAgrees ==
  ASSUME NEW lines, NEW n, NEW kn, Agrees(lines, n, kn),
         NEW k, NEW org, k \in DOMAIN n, n[k] = [url |-> APIURL(lines), org |-> org],
         NEW w, Rewritten(lines, w, {"org_id", "api_key"}),
         Value(w, "org_id") = org, Value(w, "api_key") \in {0, k}
  PROVE  Agrees(w, n, kn) /\ APIURL(w) = APIURL(lines) /\ (Full(lines) => Full(w))
<1>0. /\ LaidOut(w) /\ \A key : Has(lines, key) => Has(w, key)
      /\ \A key : key \notin {"org_id", "api_key"} => Value(w, key) = Value(lines, key)
  BY DEF Rewritten
<1>1. APIURL(w) = APIURL(lines) /\ (SessionIn(w) <=> SessionIn(lines)) /\ (Full(lines) => Full(w))
  BY <1>0 DEF APIURL, SessionIn, Full
<1>2. \A key \in {"jwt", "refresh_token"} : Value(w, key) # 0 =>
        Value(w, key) \in DOMAIN n /\ n[Value(w, key)].url = APIURL(w)
  BY <1>0, <1>1 DEF Agrees, Held
<1>3. n[k].url = APIURL(w) /\ n[k].org = org
  BY <1>1
<1>4. \A key \in Held : Value(w, key) # 0 =>
        Value(w, key) \in DOMAIN n /\ n[Value(w, key)].url = APIURL(w)
  BY <1>2, <1>3 DEF Held
<1> QED BY <1>0, <1>1, <1>3, <1>4 DEF Agrees

LEMMA TokensAgree ==
  ASSUME NEW lines, NEW n, NEW kn, Agrees(lines, n, kn), Full(lines),
         NEW s, s \in DOMAIN n, n[s].url = APIURL(lines),
         NEW w, Rewritten(lines, w, Tokens), Value(w, "jwt") = s, Value(w, "refresh_token") = s
  PROVE  Agrees(w, n, kn) /\ APIURL(w) = APIURL(lines) /\ Full(w)
<1>0. /\ LaidOut(w) /\ \A key : Has(lines, key) => Has(w, key)
      /\ \A key : key \notin Tokens => Value(w, key) = Value(lines, key)
  BY DEF Rewritten
<1>1. /\ Value(w, "api_url") = Value(lines, "api_url") /\ Value(w, "org_id") = Value(lines, "org_id")
      /\ Value(w, "api_key") = Value(lines, "api_key")
  BY <1>0 DEF Tokens
<1>2. APIURL(w) = APIURL(lines) /\ Full(w)
  BY <1>0, <1>1 DEF APIURL, Full
<1>3. \A key \in Held : Value(w, key) # 0 =>
        Value(w, key) \in DOMAIN n /\ n[Value(w, key)].url = APIURL(w)
  BY <1>1, <1>2 DEF Held, Agrees
<1> QED BY <1>0, <1>1, <1>2, <1>3 DEF Agrees

LEMMA LoginAgrees ==
  ASSUME NEW n, NEW kn, NEW s, NEW k, NEW org, NEW w, LaidOut(w), Full(w),
         s \in DOMAIN n, n[s].url = APIURL(w), k \in DOMAIN n, n[k] = [url |-> APIURL(w), org |-> org],
         Value(w, "jwt") = s, Value(w, "refresh_token") = s, Value(w, "org_id") = org, Value(w, "api_key") \in {0, k}
  PROVE  Agrees(w, n, kn)
<1>1. n[k].url = APIURL(w) /\ n[k].org = org
  OBVIOUS
<1>2. \A key \in Held : Value(w, key) # 0 =>
        Value(w, key) \in DOMAIN n /\ n[Value(w, key)].url = APIURL(w)
  BY <1>1 DEF Held
<1> QED BY <1>1, <1>2 DEF Agrees

LEMMA OrgAgrees ==
  ASSUME NEW lines, NEW m, NEW kl, Agrees(lines, m, kl),
         NEW w, Rewritten(lines, w, {"org_id"})
  PROVE  Agrees(w, m, TRUE) /\ APIURL(w) = APIURL(lines) /\ (Full(lines) => Full(w))
<1>0. /\ LaidOut(w) /\ \A key : Has(lines, key) => Has(w, key)
      /\ \A key : key \notin {"org_id"} => Value(w, key) = Value(lines, key)
  BY DEF Rewritten
<1>1. APIURL(w) = APIURL(lines) /\ (SessionIn(w) <=> SessionIn(lines)) /\ (Full(lines) => Full(w))
  BY <1>0 DEF APIURL, SessionIn, Full
<1>2. \A key \in Held : Value(w, key) # 0 =>
        Value(w, key) \in DOMAIN m /\ m[Value(w, key)].url = APIURL(w)
  BY <1>0, <1>1 DEF Held, Agrees
<1> QED BY <1>0, <1>1, <1>2 DEF Agrees

LEMMA ListAgrees ==
  ASSUME NEW lines, NEW m, NEW kl, Agrees(lines, m, kl), NEW w, LaidOut(w), Full(w),
         \A key \in Credential : Value(w, key) = Value(lines, key)
  PROVE  Agrees(w, m, kl) /\ APIURL(w) = APIURL(lines)
<1>1. APIURL(w) = APIURL(lines)
  BY DEF APIURL, Credential
<1> QED BY <1>1 DEF Agrees, Held, Credential

-----------------------------------------------------------------------------
(* One client moves.                                                       *)

LEMMA Joined ==
  ASSUME NEW A, NEW m \in Seq(A), NEW t \in Seq(A)
  PROVE  /\ Extends(m, m \o t)
         /\ \A i \in 1..Len(t) : Len(m) + i \in DOMAIN (m \o t) /\ (m \o t)[Len(m) + i] = t[i]
<1> DEFINE n == m \o t
<1>1. n \in Seq(A) /\ Len(n) = Len(m) + Len(t) /\ Len(m) \in Nat /\ Len(t) \in Nat
  OBVIOUS
<1>2. \A i \in 1..Len(m) : n[i] = m[i]
  OBVIOUS
<1>3. \A i \in 1..Len(t) : n[Len(m) + i] = t[i]
  OBVIOUS
<1>4. DOMAIN m = 1..Len(m) /\ DOMAIN n = 1..Len(n)
  BY <1>1
<1> HIDE DEF n
<1>5. \A i \in DOMAIN m : i \in DOMAIN n /\ n[i] = m[i]
  BY <1>1, <1>2, <1>4
<1>6. \A i \in 1..Len(t) : Len(m) + i \in DOMAIN n
  BY <1>1, <1>4
<1> QED BY <1>3, <1>5, <1>6 DEF Extends, n

LEMMA OneMinted ==
  ASSUME AuthTyped, NEW x \in [url : Nat, org : Nat], minted' = minted \o <<x>>
  PROVE  Extends(minted, minted') /\ New \in DOMAIN minted' /\ minted'[New] = x
<1> DEFINE A == [url : Nat, org : Nat]
           t == <<x>>
<1>1. minted \in Seq(A) /\ x \in A
  BY DEF AuthTyped
<1> HIDE DEF A
<1>2. t \in Seq(A) /\ Len(t) = 1 /\ t[1] = x /\ 1 \in 1..Len(t)
  BY <1>1
<1> HIDE DEF t
<1>3. minted' = minted \o t
  BY DEF t
<1>4. /\ Extends(minted, minted \o t)
      /\ \A i \in 1..Len(t) : Len(minted) + i \in DOMAIN (minted \o t) /\ (minted \o t)[Len(minted) + i] = t[i]
  <2>1. minted \in Seq(A) /\ t \in Seq(A)
    BY <1>1, <1>2
  <2> QED BY <2>1, Joined
<1> QED BY <1>2, <1>3, <1>4 DEF New

LEMMA TwoMinted ==
  ASSUME AuthTyped, NEW x \in [url : Nat, org : Nat], NEW y \in [url : Nat, org : Nat],
         minted' = minted \o <<x, y>>
  PROVE  /\ Extends(minted, minted') /\ New \in DOMAIN minted' /\ minted'[New] = x
         /\ New + 1 \in DOMAIN minted' /\ minted'[New + 1] = y
<1> DEFINE A == [url : Nat, org : Nat]
           t == <<x, y>>
<1>1. minted \in Seq(A) /\ x \in A /\ y \in A
  BY DEF AuthTyped
<1> HIDE DEF A
<1>2. t \in Seq(A) /\ Len(t) = 2 /\ t[1] = x /\ t[2] = y /\ 1 \in 1..Len(t) /\ 2 \in 1..Len(t)
  BY <1>1
<1> HIDE DEF t
<1>3. minted' = minted \o t
  BY DEF t
<1>4. /\ Extends(minted, minted \o t)
      /\ \A i \in 1..Len(t) : Len(minted) + i \in DOMAIN (minted \o t) /\ (minted \o t)[Len(minted) + i] = t[i]
  <2>1. minted \in Seq(A) /\ t \in Seq(A)
    BY <1>1, <1>2
  <2> QED BY <2>1, Joined
<1>5. New = Len(minted) + 1 /\ New + 1 = Len(minted) + 2
  <2>1. Len(minted) \in Nat
    BY <1>1
  <2> QED BY <2>1 DEF New
<1> QED BY <1>2, <1>3, <1>4, <1>5

LEMMA Unminted ==
  ASSUME UNCHANGED minted
  PROVE  Extends(minted, minted')
BY DEF Extends

\* A client at rest holds nothing.
LEMMA RestHolds ==
  ASSUME NEW r, r.pc \in Resting, NEW lines, NEW u, NEW m, NEW kl
  PROVE  Holds(r, lines, u, m, kl)
BY DEF Holds, Stands, Resting, Writing, Loaded, Using

LEMMA WorkStands ==
  ASSUME NEW r, r.pc \notin Writing, NEW lines, NEW u, NEW m, NEW kl
  PROVE  Holds(r, lines, u, m, kl) <=> Stands(r, r.pc, lines, u, m)
BY DEF Holds

\* A step of c, which keeps its plan, while the others rest.
Takes(c) ==
  /\ Moved(c) /\ cl'[c].plan = cl[c].plan
  /\ (past.lost => past'.lost) /\ (past.met => past'.met) /\ (past.keyless => past'.keyless)
  /\ cl[c].pc \notin Resting \/ (\A d \in Client : cl[d].pc \in Resting) \/ past'.met

LEMMA AgreeMoves ==
  ASSUME AuthInv, AgreeInv, NEW c \in Client, Takes(c),
         Clean' => Agrees(file', minted', past'.keyless) /\ Fits(ui', file')
                     /\ Holds(cl'[c], file', ui', minted', past'.keyless)
  PROVE  AgreeInv'
<1>1. ASSUME NEW d \in Client PROVE Meant(cl'[d].plan)
  BY DEF AgreeInv, Takes, Moved
<1>2. ASSUME Clean', NEW d \in Client PROVE Holds(cl'[d], file', ui', minted', past'.keyless)
  <2>1. CASE d = c
    BY <1>2, <2>1
  <2>2. CASE d # c
    <3>1. \A a, b \in Client : cl[a].pc \notin Resting /\ cl[b].pc \notin Resting => a = b
      BY <1>2 DEF AuthInv, Keeps, Clean, Takes
    <3>2. cl[d].pc \in Resting
      BY <1>2, <2>2, <3>1 DEF Clean, Takes
    <3>3. cl'[d].pc \in Resting
      BY <2>2, <3>2 DEF Takes, Moved
    <3> QED BY <3>3, RestHolds
  <2> QED BY <2>1, <2>2
<1> QED BY <1>1, <1>2 DEF AgreeInv

\* What holds before a step that leaves the rest clean.
LEMMA WasAgreed ==
  ASSUME AuthInv, AgreeInv, NEW c \in Client, Takes(c), Clean'
  PROVE  /\ Agrees(file, minted, past.keyless) /\ Fits(ui, file)
         /\ Holds(cl[c], file, ui, minted, past.keyless)
         /\ LaidOut(file) /\ file \in Seq(LineSet)
         /\ Extends(minted, minted') => Agrees(file, minted', past'.keyless)
<1>1. Clean
  BY DEF Clean, Takes
<1>2. Agrees(file, minted, past.keyless) /\ Fits(ui, file) /\ Holds(cl[c], file, ui, minted, past.keyless)
  BY <1>1 DEF AgreeInv
<1>3. Extends(minted, minted') => Agrees(file, minted', past'.keyless)
  <2>1. past.keyless => past'.keyless
    BY DEF Takes
  <2> QED BY <1>2, <2>1, AgreesLater
<1> QED BY <1>2, <1>3 DEF AuthInv, AuthTyped, Agrees

LEMMA AgreeGoes ==
  ASSUME AuthInv, AgreeInv, NEW c \in Client, Takes(c), UNCHANGED <<file, ui>>, Extends(minted, minted'),
         Clean' => Holds(cl'[c], file, ui, minted', past'.keyless)
  PROVE  AgreeInv'
<1>1. ASSUME Clean' PROVE Agrees(file', minted', past'.keyless) /\ Fits(ui', file')
  <2>1. Agrees(file, minted', past'.keyless) /\ Fits(ui, file)
    BY <1>1, WasAgreed
  <2> QED BY <2>1
<1> QED BY <1>1, AgreeMoves

\* How a step is one.
LEMMA StepTakes ==
  ASSUME AuthTyped, NEW c \in Client, NEW r \in ClientSet, cl' = [cl EXCEPT ![c] = r],
         r.plan = cl[c].plan, cl[c].pc \notin Resting, UNCHANGED past
  PROVE  Takes(c) /\ cl'[c] = r
<1>1. Moved(c) /\ cl'[c] = r
  BY DEF AuthTyped, Moved
<1> QED BY <1>1 DEF Takes

LEMMA StartTakes ==
  ASSUME AuthTyped, NEW c \in Client, NEW r \in ClientSet, cl' = [cl EXCEPT ![c] = r],
         r.plan = cl[c].plan, Began(c)
  PROVE  /\ Takes(c) /\ cl'[c] = r
         /\ Clean' => ~(ui.up /\ KindOf(c) \notin Handlers)
<1>1. Moved(c) /\ cl'[c] = r
  BY DEF AuthTyped, Moved
<1> DEFINE m == past.met \/ Active # {} \/ (ui.up /\ KindOf(c) \notin Handlers)
<1>2. past \in PastSet /\ ui.up \in BOOLEAN
  BY DEF AuthTyped, UISet
<1>3. past' = [past EXCEPT !.met = m]
  BY DEF Began
<1>4. /\ past.met => m
      /\ ~m => \A d \in Client : cl[d].pc \in Resting
      /\ ~m => ~(ui.up /\ KindOf(c) \notin Handlers)
  BY DEF Active, Resting
<1> HIDE DEF m
<1>5. past'.met = m /\ past'.lost = past.lost /\ past'.keyless = past.keyless
  BY <1>2, <1>3 DEF PastSet
<1> QED BY <1>1, <1>4, <1>5 DEF Takes, Clean

LEMMA ToTakes ==
  ASSUME AuthTyped, NEW c \in Client, NEW pc \in Pcs, To(c, pc), cl[c].pc \notin Resting, UNCHANGED past
  PROVE  Takes(c) /\ Same(c) /\ cl'[c].pc = pc
<1>1. Moved(c) /\ Same(c) /\ cl'[c].pc = pc
  BY ToMoves
<1> QED BY <1>1 DEF Takes, Same

\* It comes to rest.
LEMMA AgreeRests ==
  ASSUME AuthInv, AgreeInv, NEW c \in Client, NEW pc \in Resting, To(c, pc), cl[c].pc \notin Resting,
         UNCHANGED <<file, ui, past>>, Extends(minted, minted')
  PROVE  AgreeInv'
<1>1. pc \in Pcs /\ AuthTyped
  BY DEF Resting, Pcs, Plain, AuthInv
<1>2. Takes(c) /\ cl'[c].pc = pc
  BY <1>1, ToTakes
<1>3. Holds(cl'[c], file, ui, minted', past'.keyless)
  BY <1>2, RestHolds
<1> QED BY <1>2, <1>3, AgreeGoes

\* What it does next depends on what it holds and on nothing else.
LEMMA StandsAlike ==
  ASSUME NEW r, NEW s, s.plan = r.plan, s.url = r.url, s.jwt = r.jwt, s.refresh = r.refresh,
         s.org = r.org, s.key = r.key, s.tries = r.tries,
         NEW pc, NEW lines, NEW u, NEW m
  PROVE  Stands(s, pc, lines, u, m) <=> Stands(r, pc, lines, u, m)
<1>1. LoggedIn(s, m) <=> LoggedIn(r, m)
  BY DEF LoggedIn
<1> QED BY <1>1 DEF Stands

\* What it takes to stand where credentials were loaded, and at the places of a handler.
LEMMA LoadedStands ==
  ASSUME NEW r, NEW pc \in Loaded, NEW lines, NEW u, NEW m, u.up <=> r.plan.kind \in Handlers,
         r.url = APIURL(lines), r.org = Value(lines, "org_id"), r.jwt # 0 \/ r.refresh # 0 => Full(lines)
  PROVE  Stands(r, pc, lines, u, m)
<1>1. pc \notin Resting \cup Using \cup {"orgkey", "adopt", "switch", "ready", "notready", "login", "gemini", "connector"}
  BY DEF Loaded, Resting, Using
<1> QED BY <1>1 DEF Stands

LEMMA UsingStands ==
  ASSUME NEW r, NEW pc \in Using, NEW lines, NEW u, NEW m, u.up <=> r.plan.kind \in Handlers,
         r.url = APIURL(lines), r.plan.kind # "reauth", pc = "switch" => r.plan.kind = "org"
  PROVE  Stands(r, pc, lines, u, m)
<1>1. pc \notin Resting \cup Loaded \cup {"orgkey", "adopt", "ready", "notready", "login", "gemini", "connector"}
  BY DEF Loaded, Resting, Using
<1> QED BY <1>1 DEF Stands

\* What it reads off where it stands.
LEMMA HoldsLoaded ==
  ASSUME NEW r, r.pc \in Loaded, NEW lines, NEW u, NEW m, NEW kl, Holds(r, lines, u, m, kl)
  PROVE  /\ u.up <=> r.plan.kind \in Handlers
         /\ r.url = APIURL(lines) /\ r.url # 0 /\ r.org = Value(lines, "org_id")
         /\ r.jwt # 0 \/ r.refresh # 0 => Full(lines)
<1>1. r.pc \notin Writing /\ r.pc \notin Resting
  BY DEF Loaded, Writing, Resting
<1>2. APIURL(lines) # 0
  BY DEF APIURL, Cloud
<1> QED BY <1>1, <1>2 DEF Holds, Stands

LEMMA HoldsUsing ==
  ASSUME NEW r, r.pc \in Using, NEW lines, NEW u, NEW m, NEW kl, Holds(r, lines, u, m, kl)
  PROVE  /\ u.up <=> r.plan.kind \in Handlers
         /\ r.url = APIURL(lines) /\ r.plan.kind # "reauth"
         /\ r.pc = "switch" => r.plan.kind = "org"
<1>1. r.pc \notin Writing /\ r.pc \notin Resting
  BY DEF Using, Writing, Resting
<1> QED BY <1>1 DEF Holds, Stands

-----------------------------------------------------------------------------
(* The pairs of each write.                                                *)

LEMMA Pair ==
  ASSUME NEW u, NEW v
  PROVE  <<u, v>> = <<u>> \o <<v>>
<1> DEFINE A == {u, v}
           p == <<u, v>>
           q == <<u>> \o <<v>>
<1>1. u \in A /\ v \in A
  OBVIOUS
<1> HIDE DEF A
<1>2. p \in Seq(A) /\ Len(p) = 2 /\ p[1] = u /\ p[2] = v
  BY <1>1
<1>3. q \in Seq(A) /\ Len(q) = 2 /\ q[1] = u /\ q[2] = v
  BY <1>1
<1> HIDE DEF p, q
<1>4. p = [i \in 1..2 |-> p[i]] /\ q = [i \in 1..2 |-> q[i]]
  BY <1>2, <1>3
<1>5. p = q
  BY <1>2, <1>3, <1>4
<1> QED BY <1>5 DEF p, q

LEMMA OrgKeyPairs ==
  ASSUME NEW o \in Nat, NEW n \in Nat
  PROVE  Writes(<<<<"org_id", o>>, <<"api_key", n>>>>, {<<"org_id", o>>, <<"api_key", n>>})
<1> DEFINE u == <<"org_id", o>>
           v == <<"api_key", n>>
<1>1. "org_id" \in Credential /\ "api_key" \in Credential
  BY DEF Credential
<1>2. Writes(<<u>>, {u}) /\ Writes(<<v>>, {v})
  BY <1>1, PairWritten
<1> HIDE DEF u, v
<1> DEFINE s == <<u>>
           t == <<v>>
           st == <<u, v>>
<1>3. st = s \o t
  BY Pair
<1>4. {u, v} = {u} \cup {v}
  OBVIOUS
<1> HIDE DEF s, t, st
<1>5. Writes(st, {u} \cup {v})
  <2>1. Writes(s, {u}) /\ Writes(t, {v})
    BY <1>2 DEF s, t
  <2>2. Writes(s \o t, {u} \cup {v})
    BY <2>1, PairsWritten
  <2> QED BY <1>3, <2>2
<1> QED BY <1>4, <1>5 DEF u, v, st

LEMMA TokenPairs ==
  ASSUME NEW n \in Nat
  PROVE  Writes(<<<<"jwt", n>>, <<"refresh_token", n>>>>, {<<"jwt", n>>, <<"refresh_token", n>>})
<1> DEFINE u == <<"jwt", n>>
           v == <<"refresh_token", n>>
<1>1. "jwt" \in Credential /\ "refresh_token" \in Credential
  BY DEF Credential
<1>2. Writes(<<u>>, {u}) /\ Writes(<<v>>, {v})
  BY <1>1, PairWritten
<1> HIDE DEF u, v
<1> DEFINE s == <<u>>
           t == <<v>>
           st == <<u, v>>
<1>3. st = s \o t
  BY Pair
<1>4. {u, v} = {u} \cup {v}
  OBVIOUS
<1> HIDE DEF s, t, st
<1>5. Writes(st, {u} \cup {v})
  <2>1. Writes(s, {u}) /\ Writes(t, {v})
    BY <1>2 DEF s, t
  <2>2. Writes(s \o t, {u} \cup {v})
    BY <2>1, PairsWritten
  <2> QED BY <1>3, <2>2
<1> QED BY <1>4, <1>5 DEF u, v, st

-----------------------------------------------------------------------------
(* The steps of the commands.                                              *)

\* With what it loaded it goes on, or tells whether it is ready.
LEMMA LoadedGoes ==
  ASSUME AuthInv, AgreeInv, NEW c \in Client, cl[c].pc \in Loaded,
         NEW pc \in Loaded \cup Resting \cup {"ready", "notready"}, To(c, pc),
         UNCHANGED <<file, ui, minted, past>>
  PROVE  AgreeInv'
<1>1. AuthTyped /\ pc \in Pcs /\ cl[c].pc \notin Resting /\ pc \notin Writing
  BY DEF AuthInv, Loaded, Resting, Pcs, Plain, Writing
<1>2. Takes(c) /\ Same(c) /\ cl'[c].pc = pc
  BY <1>1, ToTakes
<1>3. ASSUME Clean' PROVE Stands(cl'[c], pc, file, ui, minted)
  <2>1. Holds(cl[c], file, ui, minted, past.keyless)
    BY <1>2, <1>3, WasAgreed
  <2>2. /\ ui.up <=> cl[c].plan.kind \in Handlers
        /\ cl[c].url = APIURL(file) /\ cl[c].url # 0 /\ cl[c].org = Value(file, "org_id")
        /\ cl[c].jwt # 0 \/ cl[c].refresh # 0 => Full(file)
    BY <2>1, HoldsLoaded
  <2>3. CASE pc \in Loaded
    BY <1>2, <2>2, <2>3, LoadedStands DEF Same
  <2>4. CASE pc \in Resting \cup {"ready", "notready"}
    BY <1>2, <2>2, <2>4 DEF Same, Stands, Resting, Loaded, Using
  <2> QED BY <2>3, <2>4
<1>4. Clean' => Holds(cl'[c], file, ui, minted', past'.keyless)
  BY <1>1, <1>2, <1>3, WorkStands
<1>5. Extends(minted, minted')
  BY Unminted
<1> QED BY <1>2, <1>4, <1>5, AgreeGoes

LEMMA BeginReviewAgrees ==
  ASSUME AuthInv, AgreeInv, NEW c \in Client, BeginReview(c)
  PROVE  AgreeInv'
<1> DEFINE pc == IF Parses(file) /\ Value(file, "api_key") # 0 THEN "submit" ELSE "failed"
           r == [cl[c] EXCEPT !.pc = pc, !.url = APIURL(file), !.jwt = Value(file, "jwt"),
                              !.refresh = Value(file, "refresh_token"), !.org = Value(file, "org_id"),
                              !.key = Value(file, "api_key")]
<1>1. AuthTyped /\ cl[c] \in ClientSet
  BY DEF AuthInv, AuthTyped
<1>2. pc \in {"submit", "failed"} /\ pc \in Pcs /\ pc \notin Writing
  BY DEF Plain, Pcs, Writing
<1>3. (\A key : Value(file, key) \in Nat) /\ APIURL(file) \in Nat
  BY LoadAgrees
<1> HIDE DEF pc
<1>4. /\ r \in ClientSet /\ r.pc = pc /\ r.plan = cl[c].plan /\ r.url = APIURL(file)
      /\ r.jwt = Value(file, "jwt") /\ r.refresh = Value(file, "refresh_token")
      /\ r.org = Value(file, "org_id")
  BY <1>1, <1>2, <1>3 DEF ClientSet
<1>5. cl' = [cl EXCEPT ![c] = r]
  BY DEF BeginReview, pc
<1> HIDE DEF r
<1>6. UNCHANGED <<file, ui, minted>> /\ Began(c) /\ cl[c].plan.kind = "review"
  BY DEF BeginReview, server, KindOf
<1>7. Takes(c) /\ cl'[c] = r /\ (Clean' => ~(ui.up /\ KindOf(c) \notin Handlers))
  BY <1>1, <1>4, <1>5, <1>6, StartTakes
<1>8. ASSUME Clean' PROVE Holds(r, file, ui, minted, past'.keyless)
  <2>1. CASE pc = "failed"
    BY <1>4, <2>1, RestHolds DEF Resting
  <2>2. CASE pc = "submit"
    <3>1. SessionIn(file) => Full(file)
      BY <1>7, <1>8, WasAgreed DEF Agrees
    <3>2. r.jwt # 0 \/ r.refresh # 0 => Full(file)
      BY <1>4, <3>1 DEF SessionIn
    <3>3. ~ui.up /\ r.plan.kind \notin Handlers
      BY <1>4, <1>6, <1>7, <1>8 DEF Handlers, KindOf
    <3>4. pc \in Loaded
      BY <2>2 DEF Loaded
    <3>5. Stands(r, pc, file, ui, minted)
      BY <1>4, <3>2, <3>3, <3>4, LoadedStands
    <3> QED BY <1>2, <1>4, <3>5, WorkStands
  <2> QED BY <1>2, <2>1, <2>2
<1>9. Extends(minted, minted')
  BY <1>6, Unminted
<1> QED BY <1>6, <1>7, <1>8, <1>9, AgreeGoes

LEMMA SubmitReviewAgrees ==
  ASSUME AuthInv, AgreeInv, NEW c \in Client, SubmitReview(c)
  PROVE  AgreeInv'
<1>1. PICK pc \in {"done", "create", "failed"} : To(c, pc)
  BY DEF SubmitReview
<1>2. cl[c].pc \in Loaded /\ UNCHANGED <<file, ui, minted, past>>
  BY DEF SubmitReview, Loaded, server
<1>3. pc \in Loaded \cup Resting \cup {"ready", "notready"}
  BY DEF Loaded, Resting
<1> QED BY <1>1, <1>2, <1>3, LoadedGoes

LEMMA ProbeSessionAgrees ==
  ASSUME AuthInv, AgreeInv, NEW c \in Client, ProbeSession(c)
  PROVE  AgreeInv'
<1>1. PICK pc \in {"pkey", "ready", "prefresh", "notready"} : To(c, pc)
  BY DEF ProbeSession
<1>2. cl[c].pc \in Loaded /\ UNCHANGED <<file, ui, minted, past>>
  BY DEF ProbeSession, Loaded, server
<1>3. pc \in Loaded \cup Resting \cup {"ready", "notready"}
  BY DEF Loaded, Resting
<1> QED BY <1>1, <1>2, <1>3, LoadedGoes

\* It is about to write ups, and the file agrees with that and with where it goes on.
LEMMA AgreeSaves ==
  ASSUME AuthInv, AgreeInv, NEW c \in Client, Takes(c), UNCHANGED <<file, ui>>, Extends(minted, minted'),
         cl'[c].pc = "save",
         Clean' => WillStand(cl'[c], cl'[c].job.next, Edited(file, cl'[c].job.ups), ui, minted', past'.keyless)
  PROVE  AgreeInv'
<1>1. cl'[c].pc \in Writing
  BY DEF Writing
<1> QED BY <1>1, AgreeGoes DEF Holds

\* It goes to write ups with these tokens and this key.
GoesToSave(r, c, ups, next, else, j, s, k) ==
  r = [cl[c] EXCEPT !.pc = "save", !.job = [ups |-> ups, next |-> next, else |-> else],
                    !.jwt = j, !.refresh = s, !.key = k]

LEMMA SavingIs ==
  ASSUME AuthTyped, NEW c \in Client, NEW ups \in Seq(UpSet), NEW next \in Pcs, NEW else \in Pcs,
         NEW j \in Nat, NEW s \in Nat, NEW k \in Nat, NEW r, GoesToSave(r, c, ups, next, else, j, s, k)
  PROVE  /\ r \in ClientSet /\ r.pc = "save" /\ r.job.ups = ups /\ r.job.next = next
         /\ r.plan = cl[c].plan /\ r.url = cl[c].url /\ r.org = cl[c].org /\ r.tries = cl[c].tries
         /\ r.jwt = j /\ r.refresh = s /\ r.key = k
<1> DEFINE job == [ups |-> ups, next |-> next, else |-> else]
<1>1. job \in JobSet /\ "save" \in Pcs /\ job.ups = ups /\ job.next = next
  BY DEF JobSet, Pcs, Writing
<1>2. r = [cl[c] EXCEPT !.pc = "save", !.job = job, !.jwt = j, !.refresh = s, !.key = k]
  BY DEF GoesToSave
<1>3. cl[c] \in ClientSet
  BY DEF AuthTyped
<1> HIDE DEF job
<1>4. r \in ClientSet
  BY <1>1, <1>2, <1>3 DEF ClientSet
<1>5. /\ r.pc = "save" /\ r.job = job
      /\ r.plan = cl[c].plan /\ r.url = cl[c].url /\ r.org = cl[c].org /\ r.tries = cl[c].tries
      /\ r.jwt = j /\ r.refresh = s /\ r.key = k
  BY <1>2, <1>3 DEF ClientSet
<1> QED BY <1>1, <1>4, <1>5

LEMMA UpsTyped ==
  ASSUME NEW ups, NEW S, Writes(ups, S)
  PROVE  ups \in Seq(UpSet)
<1>1. ups \in Seq(Credential \X Nat) /\ Credential \X Nat \subseteq UpSet
  BY DEF Writes, Ups, Credential, UpSet, LineKeys
<1> QED BY <1>1

LEMMA CreateKeyAgrees ==
  ASSUME AuthInv, AgreeInv, NEW c \in Client, CreateKey(c)
  PROVE  AgreeInv'
<1>0. AuthTyped /\ cl[c] \in ClientSet
  BY DEF AuthInv, AuthTyped
<1>1. cl[c].pc \in Loaded /\ cl[c].pc \notin Resting /\ UNCHANGED <<file, ui, past>>
  BY DEF CreateKey, Loaded, Resting
<1>2. ASSUME NEW pc \in {"refresh", "failed"}, To(c, pc), UNCHANGED minted PROVE AgreeInv'
  <2>1. pc \in Loaded \cup Resting \cup {"ready", "notready"}
    BY DEF Loaded, Resting
  <2> QED BY <1>1, <1>2, <2>1, LoadedGoes
<1>3. CASE /\ Mint(<<[url |-> cl[c].url, org |-> cl[c].org]>>)
           /\ cl' = [cl EXCEPT ![c] = [Saving(c, <<<<"api_key", New>>>>, "retry", "failed") EXCEPT !.key = New]]
  <2> DEFINE ups == <<<<"api_key", New>>>>
             x == [url |-> cl[c].url, org |-> cl[c].org]
             r == [Saving(c, ups, "retry", "failed") EXCEPT !.key = New]
             w == Edited(file, ups)
  <2>1. cl[c].url \in Nat /\ cl[c].org \in Nat /\ cl[c].jwt \in Nat /\ cl[c].refresh \in Nat /\ New \in Nat
    BY <1>0 DEF ClientSet, AuthTyped, New
  <2>2. x \in [url : Nat, org : Nat]
    BY <2>1
  <2>3. Extends(minted, minted') /\ New \in DOMAIN minted' /\ minted'[New] = x
    <3>1. minted' = minted \o <<x>>
      BY <1>3 DEF Mint
    <3> HIDE DEF x
    <3> QED BY <1>0, <2>2, <3>1, OneMinted
  <2>4. Writes(ups, {<<"api_key", New>>})
    <3>1. "api_key" \in Credential
      BY DEF Credential
    <3> QED BY <2>1, <3>1, PairWritten
  <2>5. cl' = [cl EXCEPT ![c] = r]
    BY <1>3
  <2> HIDE DEF ups
  <2>6. /\ r \in ClientSet /\ r.pc = "save" /\ r.job.ups = ups /\ r.job.next = "retry"
        /\ r.plan = cl[c].plan /\ r.url = cl[c].url /\ r.org = cl[c].org
        /\ r.jwt = cl[c].jwt /\ r.refresh = cl[c].refresh
    <3>1. GoesToSave(r, c, ups, "retry", "failed", cl[c].jwt, cl[c].refresh, New)
      BY <1>0 DEF GoesToSave, Saving, ClientSet
    <3>2. "retry" \in Pcs /\ "failed" \in Pcs
      BY DEF Pcs, Plain
    <3>3. ups \in Seq(UpSet)
      BY <2>4, UpsTyped
    <3> HIDE DEF r
    <3> QED BY <1>0, <2>1, <3>1, <3>2, <3>3, SavingIs
  <2> HIDE DEF r
  <2>7. Takes(c) /\ cl'[c] = r
    BY <1>0, <1>1, <2>5, <2>6, StepTakes
  <2>8. ASSUME Clean' PROVE WillStand(r, "retry", w, ui, minted', past'.keyless)
    <3>1. /\ Agrees(file, minted', past'.keyless) /\ Fits(ui, file) /\ LaidOut(file) /\ file \in Seq(LineSet)
          /\ Holds(cl[c], file, ui, minted, past.keyless)
      BY <2>3, <2>7, <2>8, WasAgreed
    <3>2. /\ ui.up <=> cl[c].plan.kind \in Handlers
          /\ cl[c].url = APIURL(file) /\ cl[c].org = Value(file, "org_id")
          /\ cl[c].jwt # 0 \/ cl[c].refresh # 0 => Full(file)
      BY <1>1, <3>1, HoldsLoaded
    <3>3. Rewritten(file, w, {"api_key"}) /\ Value(w, "api_key") \in {0, New}
      BY <2>1, <2>4, <3>1, KeyWritten
    <3>4. minted'[New] = [url |-> APIURL(file), org |-> cl[c].org]
      BY <2>3, <3>2
    <3>5. Value(w, "org_id") = cl[c].org
      BY <3>2, <3>3 DEF Rewritten
    <3>6. Rewritten(file, w, {"org_id", "api_key"})
      BY <3>3 DEF Rewritten
    <3> HIDE DEF w, x
    <3>7. Agrees(w, minted', past'.keyless) /\ APIURL(w) = APIURL(file) /\ (Full(file) => Full(w))
      BY <2>3, <3>1, <3>3, <3>4, <3>5, <3>6, KeyAgrees
    <3>8. Fits(ui, w)
      BY <3>1, <3>7 DEF Fits
    <3>9. Stands(r, "retry", w, ui, minted')
      <4>1. "retry" \in Loaded
        BY DEF Loaded
      <4> QED BY <2>6, <3>2, <3>5, <3>7, <4>1, LoadedStands
    <3> QED BY <3>7, <3>8, <3>9 DEF WillStand
  <2> QED BY <1>1, <2>3, <2>6, <2>7, <2>8, AgreeSaves
<1> QED BY <1>2, <1>3 DEF CreateKey

LEMMA RecoverKeyAgrees ==
  ASSUME AuthInv, AgreeInv, NEW c \in Client, RecoverKey(c)
  PROVE  AgreeInv'
<1>0. AuthTyped /\ cl[c] \in ClientSet
  BY DEF AuthInv, AuthTyped
<1>1. cl[c].pc \in Loaded /\ cl[c].pc \notin Resting /\ UNCHANGED <<file, ui, past>>
  BY DEF RecoverKey, Is, Loaded, Resting
<1>2. ASSUME To(c, "notready"), UNCHANGED minted PROVE AgreeInv'
  BY <1>1, <1>2, LoadedGoes
<1>3. CASE /\ Mint(<<[url |-> cl[c].url, org |-> cl[c].org]>>)
           /\ cl' = [cl EXCEPT ![c] = [Saving(c, <<<<"org_id", cl[c].org>>, <<"api_key", New>>>>,
                                              "ready", "notready") EXCEPT !.key = New]]
  <2> DEFINE ups == <<<<"org_id", cl[c].org>>, <<"api_key", New>>>>
             x == [url |-> cl[c].url, org |-> cl[c].org]
             r == [Saving(c, ups, "ready", "notready") EXCEPT !.key = New]
             w == Edited(file, ups)
  <2>1. cl[c].url \in Nat /\ cl[c].org \in Nat /\ cl[c].jwt \in Nat /\ cl[c].refresh \in Nat /\ New \in Nat
    BY <1>0 DEF ClientSet, AuthTyped, New
  <2>2. x \in [url : Nat, org : Nat]
    BY <2>1
  <2>3. Extends(minted, minted') /\ New \in DOMAIN minted' /\ minted'[New] = x
    <3>1. minted' = minted \o <<x>>
      BY <1>3 DEF Mint
    <3> HIDE DEF x
    <3> QED BY <1>0, <2>2, <3>1, OneMinted
  <2>4. Writes(ups, {<<"org_id", cl[c].org>>, <<"api_key", New>>})
    BY <2>1, OrgKeyPairs
  <2>5. cl' = [cl EXCEPT ![c] = r]
    BY <1>3
  <2> HIDE DEF ups
  <2>6. /\ r \in ClientSet /\ r.pc = "save" /\ r.job.ups = ups /\ r.job.next = "ready"
        /\ r.plan = cl[c].plan /\ r.url = cl[c].url /\ r.org = cl[c].org
    <3>1. GoesToSave(r, c, ups, "ready", "notready", cl[c].jwt, cl[c].refresh, New)
      BY <1>0 DEF GoesToSave, Saving, ClientSet
    <3>2. "ready" \in Pcs /\ "notready" \in Pcs
      BY DEF Pcs, Plain
    <3>3. ups \in Seq(UpSet)
      BY <2>4, UpsTyped
    <3> HIDE DEF r
    <3> QED BY <1>0, <2>1, <3>1, <3>2, <3>3, SavingIs
  <2> HIDE DEF r
  <2>7. Takes(c) /\ cl'[c] = r
    BY <1>0, <1>1, <2>5, <2>6, StepTakes
  <2>8. ASSUME Clean' PROVE WillStand(r, "ready", w, ui, minted', past'.keyless)
    <3>1. /\ Agrees(file, minted', past'.keyless) /\ Fits(ui, file) /\ LaidOut(file) /\ file \in Seq(LineSet)
          /\ Holds(cl[c], file, ui, minted, past.keyless)
      BY <2>3, <2>7, <2>8, WasAgreed
    <3>2. (ui.up <=> cl[c].plan.kind \in Handlers) /\ cl[c].url = APIURL(file) /\ cl[c].url # 0
      BY <1>1, <3>1, HoldsLoaded
    <3>3. /\ Rewritten(file, w, {"org_id", "api_key"})
          /\ Value(w, "org_id") = cl[c].org /\ Value(w, "api_key") \in {0, New}
      BY <2>1, <2>4, <3>1, OrgKeyWritten
    <3>4. minted'[New] = [url |-> APIURL(file), org |-> cl[c].org]
      BY <2>3, <3>2
    <3> HIDE DEF w, x
    <3>5. Agrees(w, minted', past'.keyless) /\ APIURL(w) = APIURL(file) /\ (Full(file) => Full(w))
      BY <2>3, <3>1, <3>3, <3>4, KeyAgrees
    <3>6. Fits(ui, w)
      BY <3>1, <3>5 DEF Fits
    <3>7. Stands(r, "ready", w, ui, minted')
      BY <2>6, <3>2 DEF Stands, Loaded, Using
    <3> QED BY <3>5, <3>6, <3>7 DEF WillStand
  <2> QED BY <1>1, <2>3, <2>6, <2>7, <2>8, AgreeSaves
<1> QED BY <1>2, <1>3 DEF RecoverKey

LEMMA RefreshSessionAgrees ==
  ASSUME AuthInv, AgreeInv, NEW c \in Client, RefreshSession(c)
  PROVE  AgreeInv'
<1> DEFINE next == IF Is(c, "refresh") THEN "create2" ELSE "probe2"
           else == IF Is(c, "refresh") THEN "failed" ELSE "notready"
<1>0. AuthTyped /\ cl[c] \in ClientSet
  BY DEF AuthInv, AuthTyped
<1>1. cl[c].pc \in Loaded /\ cl[c].pc \notin Resting /\ UNCHANGED <<file, ui, past>>
  BY DEF RefreshSession, Loaded, Resting
<1>2. ASSUME To(c, else), UNCHANGED minted PROVE AgreeInv'
  <2>1. else \in Loaded \cup Resting \cup {"ready", "notready"}
    BY DEF Resting
  <2> HIDE DEF else
  <2> QED BY <1>1, <1>2, <2>1, LoadedGoes
<1>3. CASE /\ cl[c].refresh \in fresh /\ Mint(<<Session(cl[c].url)>>)
           /\ cl' = [cl EXCEPT ![c] = [SavedTokens(c, next, else) EXCEPT !.jwt = New, !.refresh = New]]
  <2> DEFINE ups == <<<<"jwt", New>>, <<"refresh_token", New>>>>
             x == [url |-> cl[c].url, org |-> 0]
             r == [Saving(c, ups, next, else) EXCEPT !.jwt = New, !.refresh = New]
             w == Edited(file, ups)
  <2>1. cl[c].url \in Nat /\ cl[c].key \in Nat /\ New \in Nat /\ cl[c].refresh # 0
    <3>1. cl[c].refresh \in Issued /\ Len(minted) \in Nat
      BY <1>0, <1>3 DEF AuthTyped
    <3>2. cl[c].refresh # 0 /\ New \in Nat
      BY <3>1 DEF Issued, New
    <3> QED BY <1>0, <3>2 DEF ClientSet
  <2>2. x \in [url : Nat, org : Nat]
    BY <2>1
  <2>3. Extends(minted, minted') /\ New \in DOMAIN minted' /\ minted'[New] = x
    <3>1. minted' = minted \o <<x>>
      BY <1>3 DEF Mint, Session
    <3> HIDE DEF x
    <3> QED BY <1>0, <2>2, <3>1, OneMinted
  <2>4. Writes(ups, {<<"jwt", New>>, <<"refresh_token", New>>})
    BY <2>1, TokenPairs
  <2>5. cl' = [cl EXCEPT ![c] = r]
    BY <1>3 DEF SavedTokens
  <2>a. next \in Pcs /\ else \in Pcs /\ next \in Loaded
    BY DEF Pcs, Plain, Loaded
  <2> HIDE DEF ups, next, else
  <2>6. /\ r \in ClientSet /\ r.pc = "save" /\ r.job.ups = ups /\ r.job.next = next
        /\ r.plan = cl[c].plan /\ r.url = cl[c].url /\ r.org = cl[c].org
    <3>1. GoesToSave(r, c, ups, next, else, New, New, cl[c].key)
      BY <1>0 DEF GoesToSave, Saving, ClientSet
    <3>2. ups \in Seq(UpSet)
      BY <2>4, UpsTyped
    <3> HIDE DEF r
    <3> QED BY <1>0, <2>1, <2>a, <3>1, <3>2, SavingIs
  <2> HIDE DEF r
  <2>7. Takes(c) /\ cl'[c] = r
    BY <1>0, <1>1, <2>5, <2>6, StepTakes
  <2>8. ASSUME Clean' PROVE WillStand(r, next, w, ui, minted', past'.keyless)
    <3>1. /\ Agrees(file, minted', past'.keyless) /\ Fits(ui, file) /\ LaidOut(file) /\ file \in Seq(LineSet)
          /\ Holds(cl[c], file, ui, minted, past.keyless)
      BY <2>3, <2>7, <2>8, WasAgreed
    <3>2. /\ ui.up <=> cl[c].plan.kind \in Handlers
          /\ cl[c].url = APIURL(file) /\ cl[c].org = Value(file, "org_id") /\ Full(file)
      BY <1>1, <2>1, <3>1, HoldsLoaded
    <3>3. Rewritten(file, w, Tokens) /\ Value(w, "jwt") = New /\ Value(w, "refresh_token") = New
      BY <2>1, <2>4, <3>1, TokensWritten
    <3>4. minted'[New].url = APIURL(file)
      BY <2>3, <3>2
    <3> HIDE DEF w, x
    <3>5. Agrees(w, minted', past'.keyless) /\ APIURL(w) = APIURL(file) /\ Full(w)
      BY <2>3, <3>1, <3>2, <3>3, <3>4, TokensAgree
    <3>6. Fits(ui, w)
      BY <3>1, <3>5 DEF Fits
    <3>7. Value(w, "org_id") = Value(file, "org_id")
      BY <3>3 DEF Rewritten, Tokens
    <3>8. Stands(r, next, w, ui, minted')
      BY <2>6, <2>a, <3>2, <3>5, <3>7, LoadedStands
    <3> QED BY <3>5, <3>6, <3>8 DEF WillStand
  <2> QED BY <1>1, <2>3, <2>6, <2>7, <2>8, AgreeSaves
<1> QED BY <1>2, <1>3 DEF RefreshSession

LEMMA BeginPreflightAgrees ==
  ASSUME AuthInv, AgreeInv, NEW c \in Client, BeginPreflight(c)
  PROVE  AgreeInv'
<1>0. AuthTyped /\ cl[c] \in ClientSet /\ Meant(cl[c].plan)
  BY DEF AuthInv, AuthTyped, AgreeInv
<1>1. /\ UNCHANGED <<file, ui, minted>> /\ Began(c)
      /\ cl[c].plan.kind \in {"ensure", "setup"} /\ cl[c].plan.kind \notin Handlers
  BY DEF BeginPreflight, server, KindOf, Handlers
<1>2. (\A key : Value(file, key) \in Nat) /\ APIURL(file) \in Nat /\ APIURL(file) # 0
  BY LoadAgrees DEF APIURL, Cloud
<1>3. CASE To(c, "failed")
  <2> DEFINE r == [cl[c] EXCEPT !.pc = "failed"]
  <2>1. "failed" \in Pcs
    BY DEF Pcs, Plain
  <2>2. r \in ClientSet /\ r.plan = cl[c].plan /\ r.pc = "failed"
    BY <1>0, <2>1 DEF ClientSet
  <2>3. cl' = [cl EXCEPT ![c] = r]
    BY <1>3 DEF To
  <2> HIDE DEF r
  <2>4. Takes(c) /\ cl'[c] = r
    BY <1>0, <1>1, <2>2, <2>3, StartTakes
  <2>5. Holds(r, file, ui, minted', past'.keyless)
    BY <2>2, RestHolds DEF Resting
  <2>6. Extends(minted, minted')
    BY <1>1, Unminted
  <2> QED BY <1>1, <2>4, <2>5, <2>6, AgreeGoes
<1>4. ASSUME NEW url \in IF KindOf(c) = "ensure" THEN {cl[c].plan.url} ELSE SetupURLs(c),
             NEW pc \in {"probe", "notready"}, pc = "probe" => APIURL(file) = url,
             cl' = [cl EXCEPT ![c].pc = pc,
                              ![c].url = url, ![c].jwt = Value(file, "jwt"),
                              ![c].refresh = Value(file, "refresh_token"),
                              ![c].org = Value(file, "org_id"), ![c].key = Value(file, "api_key")]
      PROVE  AgreeInv'
  <2> DEFINE r == [cl[c] EXCEPT !.pc = pc, !.url = url, !.jwt = Value(file, "jwt"),
                                !.refresh = Value(file, "refresh_token"), !.org = Value(file, "org_id"),
                                !.key = Value(file, "api_key")]
  <2>1. pc \in Pcs /\ pc \notin Writing
    BY DEF Plain, Pcs, Writing
  <2>2. url \in Nat /\ (cl[c].plan.kind = "setup" => url # 0)
    <3>1. cl[c].plan.url \in Nat /\ (cl[c].plan.kind = "setup" => cl[c].plan.url # 0)
      BY <1>0 DEF ClientSet, PlanSet, Meant
    <3>2. url = cl[c].plan.url \/ url = APIURL(file)
      BY <1>4 DEF SetupURLs
    <3> QED BY <1>2, <3>1, <3>2
  <2>3. /\ r \in ClientSet /\ r.pc = pc /\ r.plan = cl[c].plan /\ r.url = url
        /\ r.jwt = Value(file, "jwt") /\ r.refresh = Value(file, "refresh_token")
        /\ r.org = Value(file, "org_id")
    BY <1>0, <1>2, <2>1, <2>2 DEF ClientSet
  <2>4. cl' = [cl EXCEPT ![c] = r]
    BY <1>4
  <2> HIDE DEF r
  <2>5. Takes(c) /\ cl'[c] = r /\ (Clean' => ~(ui.up /\ KindOf(c) \notin Handlers))
    BY <1>0, <1>1, <2>3, <2>4, StartTakes
  <2>6. ASSUME Clean' PROVE Stands(r, pc, file, ui, minted)
    <3>1. ~ui.up /\ r.plan.kind \notin Handlers
      BY <1>1, <2>3, <2>5, <2>6 DEF KindOf
    <3>2. CASE pc = "probe"
      <4>1. SessionIn(file) => Full(file)
        BY <2>5, <2>6, WasAgreed DEF Agrees
      <4>2. r.jwt # 0 \/ r.refresh # 0 => Full(file)
        BY <2>3, <4>1 DEF SessionIn
      <4>3. pc \in Loaded /\ r.url = APIURL(file)
        BY <1>4, <2>3, <3>2 DEF Loaded
      <4> QED BY <2>3, <3>1, <4>2, <4>3, LoadedStands
    <3>3. CASE pc = "notready"
      BY <2>2, <2>3, <3>1, <3>3 DEF Stands, Loaded, Using
    <3> QED BY <3>2, <3>3
  <2>7. Clean' => Holds(r, file, ui, minted, past'.keyless)
    BY <2>1, <2>3, <2>6, WorkStands
  <2>8. Extends(minted, minted')
    BY <1>1, Unminted
  <2> QED BY <1>1, <2>5, <2>7, <2>8, AgreeGoes
<1>5. ASSUME NEW url \in IF KindOf(c) = "ensure" THEN {cl[c].plan.url} ELSE SetupURLs(c),
             NEW usable, usable => APIURL(file) = url,
             cl' = [cl EXCEPT ![c].pc = IF usable THEN "probe" ELSE "notready",
                              ![c].url = url, ![c].jwt = Value(file, "jwt"),
                              ![c].refresh = Value(file, "refresh_token"),
                              ![c].org = Value(file, "org_id"), ![c].key = Value(file, "api_key")]
      PROVE  AgreeInv'
  <2> DEFINE pc == IF usable THEN "probe" ELSE "notready"
  <2>1. pc \in {"probe", "notready"} /\ (pc = "probe" => APIURL(file) = url)
    BY <1>5
  <2>2. cl' = [cl EXCEPT ![c].pc = pc,
                         ![c].url = url, ![c].jwt = Value(file, "jwt"),
                         ![c].refresh = Value(file, "refresh_token"),
                         ![c].org = Value(file, "org_id"), ![c].key = Value(file, "api_key")]
    BY <1>5
  <2> HIDE DEF pc
  <2> QED BY <1>4, <1>5, <2>1, <2>2
<1>6. ASSUME ~To(c, "failed") PROVE AgreeInv'
  <2> DEFINE usable(url) == /\ file # <<>> /\ Parses(file) /\ APIURL(file) = url
                            /\ Value(file, "jwt") # 0 /\ Value(file, "org_id") # 0
  <2>1. PICK url \in IF KindOf(c) = "ensure" THEN {cl[c].plan.url} ELSE SetupURLs(c) :
          cl' = [cl EXCEPT ![c].pc = IF usable(url) THEN "probe" ELSE "notready",
                              ![c].url = url, ![c].jwt = Value(file, "jwt"),
                              ![c].refresh = Value(file, "refresh_token"),
                              ![c].org = Value(file, "org_id"), ![c].key = Value(file, "api_key")]
    BY <1>6 DEF BeginPreflight
  <2>2. usable(url) => APIURL(file) = url
    OBVIOUS
  <2> HIDE DEF usable
  <2> QED BY <1>5, <2>1, <2>2
<1> QED BY <1>3, <1>6

LEMMA EnsureEndsAgrees ==
  ASSUME AuthInv, AgreeInv, NEW c \in Client, EnsureEnds(c)
  PROVE  AgreeInv'
<1>1. PICK pc \in {"done", "failed"} : To(c, pc)
  BY DEF EnsureEnds
<1>2. cl[c].pc \notin Resting /\ UNCHANGED <<file, ui, past, minted>> /\ pc \in Resting
  BY DEF EnsureEnds, Resting, server
<1>3. Extends(minted, minted')
  BY <1>2, Unminted
<1> QED BY <1>1, <1>2, <1>3, AgreeRests

LEMMA SetupChoosesAgrees ==
  ASSUME AuthInv, AgreeInv, NEW c \in Client, SetupChooses(c)
  PROVE  AgreeInv'
<1>0. AuthTyped /\ cl[c] \in ClientSet
  BY DEF AuthInv, AuthTyped
<1>1. PICK pc \in {"login", "done", "gemini"}, n \in {0, 10} :
        /\ cl' = [cl EXCEPT ![c].pc = pc, ![c].tries = n]
        /\ pc = "gemini" => n = 10
  BY DEF SetupChooses
<1> DEFINE r == [cl[c] EXCEPT !.pc = pc, !.tries = n]
<1>2. pc \in Pcs /\ pc \notin Writing /\ n \in Nat
  BY DEF Plain, Pcs, Writing
<1>3. /\ r \in ClientSet /\ r.pc = pc /\ r.plan = cl[c].plan /\ r.url = cl[c].url /\ r.tries = n
  BY <1>0, <1>2 DEF ClientSet
<1>4. cl' = [cl EXCEPT ![c] = r]
  BY <1>1
<1> HIDE DEF r
<1>5. /\ cl[c].pc \in {"ready", "notready"} /\ cl[c].pc \notin Resting /\ cl[c].pc \notin Writing
      /\ UNCHANGED <<file, ui, past, minted>> /\ cl[c].plan.kind = "setup"
  BY DEF SetupChooses, server, Resting, Writing, KindOf
<1>6. Takes(c) /\ cl'[c] = r
  BY <1>0, <1>3, <1>4, <1>5, StepTakes
<1>7. ASSUME Clean' PROVE Stands(r, pc, file, ui, minted)
  <2>1. Holds(cl[c], file, ui, minted, past.keyless)
    BY <1>6, <1>7, WasAgreed
  <2>2. (ui.up <=> cl[c].plan.kind \in Handlers) /\ cl[c].url # 0
    BY <1>5, <2>1 DEF Holds, Stands
  <2>3. ~(n < 10 /\ pc \in {"gemini", "connector"})
    BY <1>1
  <2> QED BY <1>3, <1>5, <2>2, <2>3 DEF Stands, Loaded, Using
<1>8. Clean' => Holds(r, file, ui, minted, past'.keyless)
  BY <1>2, <1>3, <1>7, WorkStands
<1>9. Extends(minted, minted')
  BY <1>5, Unminted
<1> QED BY <1>5, <1>6, <1>8, <1>9, AgreeGoes

-----------------------------------------------------------------------------
(* Logging in.                                                             *)

\* The updates of a login are its pairs.
LEMMA FourPairs ==
  ASSUME NEW k \in Nat, NEW o \in Nat, NEW s \in Nat
  PROVE  Writes(<<<<"api_key", k>>, <<"org_id", o>>, <<"jwt", s>>, <<"refresh_token", s>>>>, LoginPairs(k, o, s))
<1> DEFINE C == Credential \X Nat
           a == <<"api_key", k>>
           b == <<"org_id", o>>
           d == <<"jwt", s>>
           e == <<"refresh_token", s>>
           ups == <<a, b, d, e>>
<1>1. a \in C /\ b \in C /\ d \in C /\ e \in C
  BY DEF Credential
<1>2. LoginPairs(k, o, s) = {a, b, d, e}
  BY DEF LoginPairs
<1> HIDE DEF C, a, b, d, e
<1>3. ups \in Seq(C) /\ DOMAIN ups = 1..4 /\ ups[1] = a /\ ups[2] = b /\ ups[3] = d /\ ups[4] = e
  BY <1>1
<1> HIDE DEF ups
<1>4. {ups[i] : i \in DOMAIN ups} = {a, b, d, e}
  <2>1. \A i \in 1..4 : i = 1 \/ i = 2 \/ i = 3 \/ i = 4
    OBVIOUS
  <2>2. 1 \in 1..4 /\ 2 \in 1..4 /\ 3 \in 1..4 /\ 4 \in 1..4
    OBVIOUS
  <2> QED BY <1>3, <2>1, <2>2
<1>5. Writes(ups, LoginPairs(k, o, s))
  BY <1>2, <1>3, <1>4 DEF Writes, Ups, C
<1> QED BY <1>5 DEF a, b, d, e, ups

LEMMA FivePairs ==
  ASSUME NEW k \in Nat, NEW o \in Nat, NEW s \in Nat, NEW url \in Nat
  PROVE  Writes(<<<<"api_key", k>>, <<"api_url", url>>, <<"org_id", o>>, <<"jwt", s>>, <<"refresh_token", s>>>>,
                LoginPairs(k, o, s) \cup {<<"api_url", url>>})
<1> DEFINE C == Credential \X Nat
           a == <<"api_key", k>>
           u == <<"api_url", url>>
           b == <<"org_id", o>>
           d == <<"jwt", s>>
           e == <<"refresh_token", s>>
           ups == <<a, u, b, d, e>>
<1>1. a \in C /\ b \in C /\ d \in C /\ e \in C /\ u \in C
  BY DEF Credential
<1>2. LoginPairs(k, o, s) \cup {<<"api_url", url>>} = {a, u, b, d, e}
  BY DEF LoginPairs
<1> HIDE DEF C, a, b, d, e, u
<1>3. /\ ups \in Seq(C) /\ DOMAIN ups = 1..5
      /\ ups[1] = a /\ ups[2] = u /\ ups[3] = b /\ ups[4] = d /\ ups[5] = e
  BY <1>1
<1> HIDE DEF ups
<1>4. {ups[i] : i \in DOMAIN ups} = {a, u, b, d, e}
  <2>1. \A i \in 1..5 : i = 1 \/ i = 2 \/ i = 3 \/ i = 4 \/ i = 5
    OBVIOUS
  <2>2. 1 \in 1..5 /\ 2 \in 1..5 /\ 3 \in 1..5 /\ 4 \in 1..5 /\ 5 \in 1..5
    OBVIOUS
  <2> QED BY <1>3, <2>1, <2>2
<1>5. Writes(ups, LoginPairs(k, o, s) \cup {<<"api_url", url>>})
  BY <1>2, <1>3, <1>4 DEF Writes, Ups, C
<1> QED BY <1>5 DEF a, b, d, e, u, ups

\* A login of `lrc ui` leaves an api_url that is there alone.
LEMMA ReauthPairs ==
  ASSUME AuthTyped, NEW c \in Client, cl[c].url \in Nat, NEW lines,
         NEW ups, ups = ReauthUpdates(c, lines)
  PROVE  \/ Writes(ups, LoginPairs(New + 1, 1, New) \cup {<<"api_url", cl[c].url>>})
         \/ Writes(ups, LoginPairs(New + 1, 1, New)) /\ Value(lines, "api_url") # 0
<1> DEFINE four == <<<<"api_key", New + 1>>, <<"org_id", 1>>, <<"jwt", New>>, <<"refresh_token", New>>>>
           first == <<<<"api_url", cl[c].url>>>>
           S == LoginPairs(New + 1, 1, New)
           T == {<<"api_url", cl[c].url>>}
<1>1. New \in Nat /\ New + 1 \in Nat /\ 1 \in Nat
  BY DEF AuthTyped, New
<1>2. Writes(four, S)
  BY <1>1, FourPairs
<1>3. Writes(first, T)
  <2>1. "api_url" \in Credential
    BY DEF Credential
  <2> QED BY <2>1, PairWritten
<1>4. ups = (IF Value(lines, "api_url") = 0 THEN first ELSE <<>>) \o four
  BY DEF ReauthUpdates
<1>5. four \in Seq(UpSet)
  <2> HIDE DEF four, S
  <2> QED BY <1>2, UpsTyped
<1> HIDE DEF four, first, S, T
<1>6. CASE Value(lines, "api_url") = 0
  <2>1. Writes(first \o four, T \cup S)
    BY <1>2, <1>3, PairsWritten
  <2>2. ups = first \o four /\ T \cup S = S \cup T
    BY <1>4, <1>6
  <2> QED BY <2>1, <2>2 DEF S, T
<1>7. CASE Value(lines, "api_url") # 0
  <2>1. <<>> \o four = four
    BY <1>5
  <2>2. ups = four
    BY <1>4, <1>7, <2>1
  <2> QED BY <1>2, <1>7, <2>2 DEF S
<1> QED BY <1>6, <1>7

\* What a login holds, and what it writes with it.
LEMMA LoginStands ==
  ASSUME NEW lines \in Seq(LineSet), LaidOut(lines), NEW u, Fits(u, lines), NEW m,
         NEW k \in Nat, NEW o \in Nat, NEW s \in Nat, NEW url \in Nat \ {0},
         s \in DOMAIN m, m[s].url = url, k \in DOMAIN m, m[k] = [url |-> url, org |-> o],
         NEW ups, NEW S, Writes(ups, S), NEW w, w = Edited(lines, ups),
         PutsLogin(S, k, o, s, url, lines),
         u.up => APIURL(lines) = url, NEW kl
  PROVE  Agrees(w, m, kl) /\ Fits(u, w) /\ APIURL(w) = url /\ Full(w)
<1>1. /\ w \in Seq(LineSet) /\ LaidOut(w) /\ Full(w) /\ APIURL(w) = url
      /\ Value(w, "jwt") = s /\ Value(w, "refresh_token") = s
      /\ Value(w, "org_id") = o /\ Value(w, "api_key") \in {0, k}
  BY LoginWritten
<1>2. m[s].url = APIURL(w) /\ m[k] = [url |-> APIURL(w), org |-> o]
  BY <1>1
<1>3. Agrees(w, m, kl)
  BY <1>1, <1>2, LoginAgrees
<1>4. Fits(u, w)
  BY <1>1 DEF Fits
<1> QED BY <1>1, <1>3, <1>4

LEMMA LoginAgreesSetup ==
  ASSUME AuthInv, AgreeInv, NEW c \in Client, Is(c, "login"), cl[c].plan.kind = "setup",
         Mint(<<Session(cl[c].url), [url |-> cl[c].url, org |-> 1]>>),
         cl' = [cl EXCEPT ![c] = [Credentials(c, New, New + 1) EXCEPT !.pc = "gemini"]],
         UNCHANGED <<file, ui, past>>
  PROVE  AgreeInv'
<1> DEFINE x == [url |-> cl[c].url, org |-> 0]
           y == [url |-> cl[c].url, org |-> 1]
           r == [Credentials(c, New, New + 1) EXCEPT !.pc = "gemini"]
<1>0. AuthTyped /\ cl[c] \in ClientSet /\ cl[c].pc \notin Resting /\ cl[c].pc = "login" /\ cl[c].pc \notin Writing
  BY DEF AuthInv, AuthTyped, Is, Resting, Writing
<1>1. cl[c].url \in Nat /\ New \in Nat /\ New + 1 \in Nat /\ "gemini" \in Pcs
  <2>1. New \in Nat /\ New + 1 \in Nat
    BY <1>0 DEF AuthTyped, New
  <2>2. cl[c].url \in Nat /\ "gemini" \in Pcs
    BY <1>0 DEF ClientSet, Pcs, Plain
  <2> QED BY <2>1, <2>2
<1>2. x \in [url : Nat, org : Nat] /\ y \in [url : Nat, org : Nat] /\ x.url = cl[c].url
  BY <1>1
<1>3. minted' = minted \o <<x, y>>
  BY DEF Mint, Session
<1>4. r = [cl[c] EXCEPT !.jwt = New, !.refresh = New, !.org = 1, !.key = New + 1, !.pc = "gemini"]
  BY DEF Credentials
<1>5. /\ r \in ClientSet /\ r.pc = "gemini" /\ r.plan = cl[c].plan /\ r.url = cl[c].url
      /\ r.jwt = New /\ r.refresh = New /\ r.org = 1 /\ r.key = New + 1
  <2> DEFINE n == New
             k == New + 1
  <2>1. r = [cl[c] EXCEPT !.jwt = n, !.refresh = n, !.org = 1, !.key = k, !.pc = "gemini"] /\ n \in Nat /\ k \in Nat
    BY <1>1, <1>4
  <2> HIDE DEF r, n, k
  <2>2. r \in ClientSet
    BY <1>0, <1>1, <2>1 DEF ClientSet
  <2>3. /\ r.pc = "gemini" /\ r.plan = cl[c].plan /\ r.url = cl[c].url
        /\ r.jwt = n /\ r.refresh = n /\ r.org = 1 /\ r.key = k
    BY <1>0, <2>1 DEF ClientSet
  <2> QED BY <2>2, <2>3 DEF n, k
<1>6. cl' = [cl EXCEPT ![c] = r]
  OBVIOUS
<1> HIDE DEF r
<1>7. y = [url |-> r.url, org |-> r.org]
  BY <1>5
<1> HIDE DEF x, y
<1>8. /\ Extends(minted, minted') /\ New \in DOMAIN minted' /\ minted'[New] = x
      /\ New + 1 \in DOMAIN minted' /\ minted'[New + 1] = y
  BY <1>0, <1>2, <1>3, TwoMinted
<1>9. Takes(c) /\ cl'[c] = r
  BY <1>0, <1>5, <1>6, StepTakes
<1>10. ASSUME Clean' PROVE Stands(r, "gemini", file, ui, minted')
  <2>1. Holds(cl[c], file, ui, minted, past.keyless)
    BY <1>9, <1>10, WasAgreed
  <2>2. (ui.up <=> cl[c].plan.kind \in Handlers) /\ cl[c].url # 0
    BY <1>0, <2>1 DEF Holds, Stands
  <2>3. ~ui.up
    BY <2>2 DEF Handlers
  <2>4. LoggedIn(r, minted')
    BY <1>2, <1>5, <1>7, <1>8, <2>2 DEF LoggedIn
  <2> QED BY <1>5, <2>2, <2>3, <2>4 DEF Stands, Loaded, Using
<1>11. Clean' => Holds(r, file, ui, minted', past'.keyless)
  <2>1. "gemini" \notin Writing
    BY DEF Writing
  <2> QED BY <1>5, <1>10, <2>1, WorkStands
<1> QED BY <1>8, <1>9, <1>11, AgreeGoes

LEMMA LoginAgreesReauth ==
  ASSUME AuthInv, AgreeInv, NEW c \in Client, Is(c, "login"), cl[c].plan.kind # "setup",
         Mint(<<Session(cl[c].url), [url |-> cl[c].url, org |-> 1]>>),
         cl' = [cl EXCEPT ![c] =
                  [Credentials(c, New, New + 1) EXCEPT !.pc = "save",
                     !.job = [ups |-> ReauthUpdates(c, file), next |-> "adopt", else |-> "failed"]]],
         UNCHANGED <<file, ui, past>>
  PROVE  AgreeInv'
<1> DEFINE x == [url |-> cl[c].url, org |-> 0]
           y == [url |-> cl[c].url, org |-> 1]
           ups == ReauthUpdates(c, file)
           job == [ups |-> ups, next |-> "adopt", else |-> "failed"]
           r == [Credentials(c, New, New + 1) EXCEPT !.pc = "save", !.job = job]
           w == Edited(file, ups)
           S == LoginPairs(New + 1, 1, New)
<1>0. AuthTyped /\ cl[c] \in ClientSet /\ cl[c].pc \notin Resting /\ cl[c].pc = "login" /\ cl[c].pc \notin Writing
  BY DEF AuthInv, AuthTyped, Is, Resting, Writing
<1>1. /\ cl[c].url \in Nat /\ New \in Nat /\ New + 1 \in Nat
      /\ "save" \in Pcs /\ "adopt" \in Pcs /\ "failed" \in Pcs
  BY <1>0 DEF ClientSet, AuthTyped, New, Pcs, Plain, Writing
<1>2. x \in [url : Nat, org : Nat] /\ y \in [url : Nat, org : Nat] /\ x.url = cl[c].url
  BY <1>1
<1>3. minted' = minted \o <<x, y>>
  BY DEF Mint, Session
<1>4. /\ r = [cl[c] EXCEPT !.jwt = New, !.refresh = New, !.org = 1, !.key = New + 1, !.pc = "save", !.job = job]
      /\ cl' = [cl EXCEPT ![c] = r]
  BY DEF Credentials
<1> HIDE DEF ups
<1>5. \/ Writes(ups, S \cup {<<"api_url", cl[c].url>>})
      \/ Writes(ups, S) /\ Value(file, "api_url") # 0
  <2>1. ups = ReauthUpdates(c, file)
    BY DEF ups
  <2> QED BY <1>0, <1>1, <2>1, ReauthPairs
<1>6. ups \in Seq(UpSet)
  <2> HIDE DEF S
  <2> QED BY <1>5, UpsTyped
<1>7. job \in JobSet /\ job.ups = ups /\ job.next = "adopt"
  BY <1>1, <1>6 DEF JobSet
<1> HIDE DEF job
<1>8. /\ r \in ClientSet /\ r.pc = "save" /\ r.plan = cl[c].plan /\ r.url = cl[c].url /\ r.job = job
  <2> DEFINE n == New
             k == New + 1
  <2>1. /\ r = [cl[c] EXCEPT !.jwt = n, !.refresh = n, !.org = 1, !.key = k, !.pc = "save", !.job = job]
        /\ n \in Nat /\ k \in Nat
    BY <1>1, <1>4
  <2> HIDE DEF r, n, k
  <2>2. r \in ClientSet
    BY <1>0, <1>1, <1>7, <2>1 DEF ClientSet
  <2>3. r.pc = "save" /\ r.plan = cl[c].plan /\ r.url = cl[c].url /\ r.job = job
    BY <1>0, <2>1 DEF ClientSet
  <2> QED BY <2>2, <2>3
<1> HIDE DEF r, x
<1>9. y = [url |-> cl[c].url, org |-> 1]
  OBVIOUS
<1> HIDE DEF y
<1>10. /\ Extends(minted, minted') /\ New \in DOMAIN minted' /\ minted'[New] = x
       /\ New + 1 \in DOMAIN minted' /\ minted'[New + 1] = y
  BY <1>0, <1>2, <1>3, TwoMinted
<1>11. Takes(c) /\ cl'[c] = r
  BY <1>0, <1>4, <1>8, StepTakes
<1>12. ASSUME Clean' PROVE WillStand(r, "adopt", w, ui, minted', past'.keyless)
  <2>1. /\ Fits(ui, file) /\ LaidOut(file) /\ file \in Seq(LineSet)
        /\ Holds(cl[c], file, ui, minted, past.keyless)
    BY <1>11, <1>12, WasAgreed
  <2>2. (ui.up <=> cl[c].plan.kind \in Handlers) /\ cl[c].url = APIURL(file)
    BY <1>0, <2>1 DEF Holds, Stands
  <2>3. cl[c].url \in Nat \ {0}
    BY <1>1, <2>2 DEF APIURL, Cloud
  <2>4. Value(file, "api_url") # 0 => Value(file, "api_url") = cl[c].url
    BY <2>2 DEF APIURL
  <2>5. minted'[New].url = cl[c].url /\ minted'[New + 1] = [url |-> cl[c].url, org |-> 1]
    BY <1>2, <1>9, <1>10
  <2>6. PICK T : Writes(ups, T) /\ PutsLogin(T, New + 1, 1, New, cl[c].url, file)
    BY <1>5, <2>4 DEF PutsLogin
  <2>7. w = Edited(file, ups) /\ 1 \in Nat
    OBVIOUS
  <2> HIDE DEF w
  <2>8. Agrees(w, minted', past'.keyless) /\ Fits(ui, w) /\ APIURL(w) = cl[c].url /\ Full(w)
    BY <1>1, <1>10, <2>1, <2>2, <2>3, <2>5, <2>6, <2>7, LoginStands
  <2>9. Stands(r, "adopt", w, ui, minted')
    BY <1>8, <2>2, <2>8 DEF Stands, Loaded, Using
  <2> QED BY <2>8, <2>9 DEF WillStand
<1> QED BY <1>7, <1>8, <1>10, <1>11, <1>12, AgreeSaves

LEMMA LoginKeepsAgreed ==
  ASSUME AuthInv, AgreeInv, NEW c \in Client, Login(c)
  PROVE  AgreeInv'
<1>0. AuthTyped /\ cl[c] \in ClientSet /\ cl[c].pc \notin Resting
  BY DEF AuthInv, AuthTyped, Is, Login, Resting
<1>1. UNCHANGED <<file, ui, past>> /\ Is(c, "login")
  BY DEF Login
<1>2. ASSUME To(c, "failed"), minted' = minted \/ Mint(<<Session(cl[c].url)>>) PROVE AgreeInv'
  <2>1. Extends(minted, minted')
    <3>1. CASE minted' = minted
      BY <3>1, Unminted
    <3>2. CASE Mint(<<Session(cl[c].url)>>)
      <4> DEFINE x == [url |-> cl[c].url, org |-> 0]
      <4>1. x \in [url : Nat, org : Nat]
        BY <1>0 DEF ClientSet
      <4>2. minted' = minted \o <<x>>
        BY <3>2 DEF Mint, Session
      <4> HIDE DEF x
      <4> QED BY <1>0, <4>1, <4>2, OneMinted
    <3> QED BY <1>2, <3>1, <3>2
  <2>2. "failed" \in Resting
    BY DEF Resting
  <2> QED BY <1>0, <1>1, <1>2, <2>1, <2>2, AgreeRests
<1>3. CASE /\ Mint(<<Session(cl[c].url), [url |-> cl[c].url, org |-> 1]>>)
           /\ cl' = [cl EXCEPT ![c] =
                   IF KindOf(c) = "setup" THEN [Credentials(c, New, New + 1) EXCEPT !.pc = "gemini"]
                   ELSE [Credentials(c, New, New + 1) EXCEPT !.pc = "save",
                           !.job = [ups |-> ReauthUpdates(c, file), next |-> "adopt", else |-> "failed"]]]
  <2>1. CASE cl[c].plan.kind = "setup"
    <3>1. cl' = [cl EXCEPT ![c] = [Credentials(c, New, New + 1) EXCEPT !.pc = "gemini"]]
      BY <1>3, <2>1 DEF KindOf
    <3> QED BY <1>1, <1>3, <2>1, <3>1, LoginAgreesSetup
  <2>2. CASE cl[c].plan.kind # "setup"
    <3>1. cl' = [cl EXCEPT ![c] =
                  [Credentials(c, New, New + 1) EXCEPT !.pc = "save",
                     !.job = [ups |-> ReauthUpdates(c, file), next |-> "adopt", else |-> "failed"]]]
      BY <1>3, <2>2 DEF KindOf
    <3> QED BY <1>1, <1>3, <2>2, <3>1, LoginAgreesReauth
  <2> QED BY <2>1, <2>2
<1> QED BY <1>1, <1>2, <1>3 DEF Login

LEMMA GeminiAgrees ==
  ASSUME AuthInv, AgreeInv, NEW c \in Client, Gemini(c)
  PROVE  AgreeInv'
<1>0. AuthTyped /\ cl[c] \in ClientSet
  BY DEF AuthInv, AuthTyped
<1>1. /\ UNCHANGED <<file, ui, past, minted>>
      /\ cl[c].pc = "gemini" /\ cl[c].pc \notin Resting /\ cl[c].pc \notin Writing
  BY DEF Gemini, server, Is, Resting, Writing
<1>2. Extends(minted, minted')
  BY <1>1, Unminted
<1>3. ASSUME To(c, "failed") PROVE AgreeInv'
  <2>1. "failed" \in Resting
    BY DEF Resting
  <2> QED BY <1>1, <1>2, <1>3, <2>1, AgreeRests
<1>4. ASSUME NEW pc \in {"gemini", "connector"}, NEW n \in Nat, n < 10 => cl[c].tries < 10,
             cl' = [cl EXCEPT ![c].tries = n, ![c].pc = pc]
      PROVE  AgreeInv'
  <2> DEFINE r == [cl[c] EXCEPT !.tries = n, !.pc = pc]
  <2>1. pc \in Pcs /\ pc \notin Writing
    BY DEF Plain, Pcs, Writing
  <2>2. /\ r \in ClientSet /\ r.pc = pc /\ r.plan = cl[c].plan /\ r.url = cl[c].url /\ r.jwt = cl[c].jwt
        /\ r.refresh = cl[c].refresh /\ r.org = cl[c].org /\ r.key = cl[c].key /\ r.tries = n
    BY <1>0, <2>1 DEF ClientSet
  <2>3. cl' = [cl EXCEPT ![c] = r]
    BY <1>4
  <2> HIDE DEF r
  <2>4. Takes(c) /\ cl'[c] = r
    BY <1>0, <1>1, <2>2, <2>3, StepTakes
  <2>5. ASSUME Clean' PROVE Stands(r, pc, file, ui, minted)
    <3>1. Holds(cl[c], file, ui, minted, past.keyless)
      BY <2>4, <2>5, WasAgreed
    <3>2. Stands(cl[c], "gemini", file, ui, minted)
      BY <1>1, <3>1, WorkStands
    <3>3. (ui.up <=> r.plan.kind \in Handlers) /\ (r.tries < 10 => ~ui.up /\ LoggedIn(cl[c], minted))
      <4>1. "gemini" \notin Resting
        BY DEF Resting
      <4> QED BY <1>4, <2>2, <3>2, <4>1 DEF Stands
    <3>4. LoggedIn(r, minted) <=> LoggedIn(cl[c], minted)
      BY <2>2 DEF LoggedIn
    <3> QED BY <3>3, <3>4 DEF Stands, Loaded, Using
  <2>6. Clean' => Holds(r, file, ui, minted, past'.keyless)
    BY <2>1, <2>2, <2>5, WorkStands
  <2> QED BY <1>1, <1>2, <2>4, <2>6, AgreeGoes
<1>5. CASE To(c, "connector")
  <2>1. cl' = [cl EXCEPT ![c].tries = cl[c].tries, ![c].pc = "connector"]
    <3>1. [cl[c] EXCEPT !.pc = "connector"] = [cl[c] EXCEPT !.tries = cl[c].tries, !.pc = "connector"]
      BY <1>0 DEF ClientSet
    <3>2. cl' = [cl EXCEPT ![c] = [cl[c] EXCEPT !.pc = "connector"]]
      BY <1>5 DEF To
    <3> QED BY <3>1, <3>2
  <2>2. cl[c].tries \in Nat
    BY <1>0 DEF ClientSet
  <2> QED BY <1>4, <2>1, <2>2
<1>6. CASE LET tries == cl[c].tries + 1 IN
           cl' = [cl EXCEPT ![c].tries = tries, ![c].pc = IF tries \in {3, 13} THEN "failed" ELSE "gemini"]
  <2> DEFINE n == cl[c].tries + 1
  <2>1. n \in Nat /\ (n < 10 => cl[c].tries < 10)
    <3>1. cl[c].tries \in Nat
      BY <1>0 DEF ClientSet
    <3> QED BY <3>1
  <2>2. \/ cl' = [cl EXCEPT ![c].tries = n, ![c].pc = "failed"]
        \/ cl' = [cl EXCEPT ![c].tries = n, ![c].pc = "gemini"]
    BY <1>6
  <2> HIDE DEF n
  <2>3. CASE cl' = [cl EXCEPT ![c].tries = n, ![c].pc = "gemini"]
    BY <1>4, <2>1, <2>3
  <2>4. CASE cl' = [cl EXCEPT ![c].tries = n, ![c].pc = "failed"]
    <3> DEFINE r == [cl[c] EXCEPT !.tries = n, !.pc = "failed"]
    <3>1. "failed" \in Pcs /\ "failed" \in Resting
      BY DEF Plain, Pcs, Resting
    <3>2. r \in ClientSet /\ r.pc = "failed" /\ r.plan = cl[c].plan
      BY <1>0, <2>1, <3>1 DEF ClientSet
    <3>3. cl' = [cl EXCEPT ![c] = r]
      BY <2>4
    <3> HIDE DEF r
    <3>4. Takes(c) /\ cl'[c] = r
      BY <1>0, <1>1, <3>2, <3>3, StepTakes
    <3>5. Holds(r, file, ui, minted', past'.keyless)
      BY <3>1, <3>2, RestHolds
    <3> QED BY <1>1, <1>2, <3>4, <3>5, AgreeGoes
  <2> QED BY <2>2, <2>3, <2>4
<1> QED BY <1>3, <1>5, <1>6 DEF Gemini

LEMMA ConnectorAgrees ==
  ASSUME AuthInv, AgreeInv, NEW c \in Client, Connector(c)
  PROVE  AgreeInv'
<1>0. AuthTyped /\ cl[c] \in ClientSet
  BY DEF AuthInv, AuthTyped
<1>1. /\ UNCHANGED <<file, ui, past, minted>>
      /\ cl[c].pc = "connector" /\ cl[c].pc \notin Resting /\ cl[c].pc \notin Writing
  BY DEF Connector, Is, Resting, Writing
<1>2. Extends(minted, minted')
  BY <1>1, Unminted
<1>3. ASSUME NEW pc \in {"failed", "done"}, To(c, pc) PROVE AgreeInv'
  <2>1. pc \in Resting
    BY DEF Resting
  <2> QED BY <1>1, <1>2, <1>3, <2>1, AgreeRests
<1>4. CASE ~(cl[c].tries >= 10) /\ cl' = [cl EXCEPT ![c] = Saving(c, WriteConfig(c), "done", "failed")]
  <2> DEFINE ups == WriteConfig(c)
             r == Saving(c, ups, "done", "failed")
             w == Edited(file, ups)
             S == LoginPairs(cl[c].key, cl[c].org, cl[c].jwt) \cup {<<"api_url", cl[c].url>>}
  <2>1. /\ cl[c].url \in Nat /\ cl[c].key \in Nat /\ cl[c].org \in Nat /\ cl[c].jwt \in Nat
        /\ cl[c].refresh \in Nat /\ cl[c].tries < 10
    <3>1. /\ cl[c].url \in Nat /\ cl[c].key \in Nat /\ cl[c].org \in Nat /\ cl[c].jwt \in Nat
          /\ cl[c].refresh \in Nat /\ cl[c].tries \in Nat
      BY <1>0 DEF ClientSet
    <3> QED BY <1>4, <3>1
  <2>2. cl' = [cl EXCEPT ![c] = r]
    BY <1>4
  <2>3. ups \in Seq(UpSet)
    <3> DEFINE a == <<"api_key", cl[c].key>>
               u == <<"api_url", cl[c].url>>
               b == <<"org_id", cl[c].org>>
               d == <<"jwt", cl[c].jwt>>
               e == <<"refresh_token", cl[c].refresh>>
    <3>1. a \in UpSet /\ u \in UpSet /\ b \in UpSet /\ d \in UpSet /\ e \in UpSet
      BY <2>1 DEF UpSet, LineKeys
    <3>2. ups = <<a, u, b, d, e>>
      BY DEF WriteConfig
    <3> HIDE DEF ups, a, u, b, d, e
    <3> QED BY <3>1, <3>2
  <2>4. /\ r \in ClientSet /\ r.pc = "save" /\ r.job.ups = ups /\ r.job.next = "done" /\ r.plan = cl[c].plan
    <3> HIDE DEF ups
    <3>1. GoesToSave(r, c, ups, "done", "failed", cl[c].jwt, cl[c].refresh, cl[c].key)
      BY <1>0 DEF GoesToSave, Saving, ClientSet
    <3>2. "done" \in Pcs /\ "failed" \in Pcs
      BY DEF Pcs, Plain
    <3> HIDE DEF r
    <3> QED BY <1>0, <2>1, <2>3, <3>1, <3>2, SavingIs
  <2>5. cl[c].refresh = cl[c].jwt => Writes(ups, S)
    <3>1. cl[c].refresh = cl[c].jwt => ups = <<<<"api_key", cl[c].key>>, <<"api_url", cl[c].url>>, <<"org_id", cl[c].org>>,
                    <<"jwt", cl[c].jwt>>, <<"refresh_token", cl[c].jwt>>>>
      BY DEF WriteConfig
    <3>2. Writes(<<<<"api_key", cl[c].key>>, <<"api_url", cl[c].url>>, <<"org_id", cl[c].org>>,
                    <<"jwt", cl[c].jwt>>, <<"refresh_token", cl[c].jwt>>>>, S)
      BY <2>1, FivePairs
    <3> HIDE DEF ups, S
    <3> QED BY <3>1, <3>2
  <2> HIDE DEF r, ups
  <2>6. Takes(c) /\ cl'[c] = r
    BY <1>0, <1>1, <2>2, <2>4, StepTakes
  <2>7. ASSUME Clean' PROVE WillStand(r, "done", w, ui, minted', past'.keyless)
    <3>1. /\ Fits(ui, file) /\ LaidOut(file) /\ file \in Seq(LineSet)
          /\ Holds(cl[c], file, ui, minted, past.keyless)
      BY <2>6, <2>7, WasAgreed
    <3>2. Stands(cl[c], "connector", file, ui, minted)
      BY <1>1, <3>1, WorkStands
    <3>3. ~ui.up /\ LoggedIn(cl[c], minted)
      BY <2>1, <3>2 DEF Stands
    <3>4. /\ cl[c].url \in Nat \ {0} /\ cl[c].refresh = cl[c].jwt
          /\ cl[c].jwt \in DOMAIN minted' /\ minted'[cl[c].jwt].url = cl[c].url
          /\ cl[c].key \in DOMAIN minted' /\ minted'[cl[c].key] = [url |-> cl[c].url, org |-> cl[c].org]
      BY <1>1, <2>1, <3>3 DEF LoggedIn
    <3>5. PutsLogin(S, cl[c].key, cl[c].org, cl[c].jwt, cl[c].url, file)
      BY DEF PutsLogin
    <3>6. Writes(ups, S) /\ w = Edited(file, ups)
      BY <2>5, <3>4
    <3> DEFINE k == cl[c].key
               o == cl[c].org
               s == cl[c].jwt
               url == cl[c].url
    <3> HIDE DEF w, S
    <3>7. ui.up => APIURL(file) = cl[c].url
      BY <3>3
    <3>8. Agrees(w, minted', past'.keyless) /\ Fits(ui, w) /\ APIURL(w) = cl[c].url /\ Full(w)
      <4>1. /\ k \in Nat /\ o \in Nat /\ s \in Nat /\ url \in Nat \ {0}
            /\ s \in DOMAIN minted' /\ minted'[s].url = url
            /\ k \in DOMAIN minted' /\ minted'[k] = [url |-> url, org |-> o]
            /\ PutsLogin(S, k, o, s, url, file) /\ (ui.up => APIURL(file) = url)
        BY <2>1, <3>4, <3>5, <3>7
      <4> HIDE DEF k, o, s, url
      <4>2. Agrees(w, minted', past'.keyless) /\ Fits(ui, w) /\ APIURL(w) = url /\ Full(w)
        BY <3>1, <3>6, <4>1, LoginStands
      <4> QED BY <4>2 DEF url
    <3>9. Stands(r, "done", w, ui, minted')
      BY DEF Stands, Resting, Loaded, Using
    <3> QED BY <3>8, <3>9 DEF WillStand
  <2> QED BY <1>1, <1>2, <2>4, <2>6, <2>7, AgreeSaves
<1> QED BY <1>3, <1>4 DEF Connector

-----------------------------------------------------------------------------
(* The steps of `lrc ui`.                                                  *)

\* Nobody is at work.
LEMMA AgreeIdle ==
  ASSUME AuthInv, AgreeInv, UNCHANGED <<file, minted, cl>>, past.lost => past'.lost, past.met => past'.met,
         past'.keyless = past.keyless,
         Clean' => Fits(ui', file) /\ (UNCHANGED ui \/ \A c \in Client : cl[c].pc \in Resting)
  PROVE  AgreeInv'
<1>1. \A c \in Client : Meant(cl'[c].plan)
  BY DEF AgreeInv
<1>2. ASSUME Clean', NEW c \in Client PROVE Holds(cl'[c], file', ui', minted', past'.keyless)
  <2>1. CASE UNCHANGED ui
    <3>1. Clean
      BY <1>2 DEF Clean
    <3>2. Holds(cl[c], file, ui, minted, past.keyless)
      BY <3>1 DEF AgreeInv
    <3> QED BY <2>1, <3>2
  <2>2. CASE \A d \in Client : cl[d].pc \in Resting
    BY <2>2, RestHolds
  <2> QED BY <1>2, <2>1, <2>2
<1>3. ASSUME Clean' PROVE Agrees(file', minted', past'.keyless) /\ Fits(ui', file')
  <2>1. Clean
    BY <1>3 DEF Clean
  <2>2. Agrees(file, minted, past.keyless)
    BY <2>1 DEF AgreeInv
  <2> QED BY <1>3, <2>2
<1> QED BY <1>1, <1>2, <1>3 DEF AgreeInv

LEMMA UIStartAgrees ==
  ASSUME AuthInv, AgreeInv, UIStart
  PROVE  AgreeInv'
<1>0. past \in PastSet
  BY DEF AuthInv, AuthTyped
<1>1. UNCHANGED <<file, minted, cl>>
  BY DEF UIStart, server
<1>2. /\ (past.met => past'.met) /\ past'.lost = past.lost /\ past'.keyless = past.keyless
      /\ Clean' => \A c \in Client : cl[c].pc \in Resting
  <2> DEFINE m == past.met \/ Active # {}
  <2>1. past' = [past EXCEPT !.met = m] /\ m \in BOOLEAN /\ (past.met => m)
    BY <1>0 DEF UIStart, PastSet
  <2>2. ~m => \A c \in Client : cl[c].pc \in Resting
    BY DEF Active, Resting
  <2> HIDE DEF m
  <2>3. past'.met = m /\ past'.lost = past.lost /\ past'.keyless = past.keyless
    BY <1>0, <2>1 DEF PastSet
  <2> QED BY <2>1, <2>2, <2>3 DEF Clean
<1>3. ASSUME Clean' PROVE Fits(ui', file)
  <2>1. Clean
    BY <1>2, <1>3 DEF Clean
  <2>2. LaidOut(file) /\ (SessionIn(file) => Full(file))
    BY <2>1 DEF AgreeInv, Agrees
  <2>3. ui' = [up |-> TRUE, url |-> APIURL(file), jwt |-> Value(file, "jwt"),
               refresh |-> Value(file, "refresh_token"), org |-> Value(file, "org_id")]
    BY <2>2 DEF UIStart, LaidOut
  <2>4. ui'.url = APIURL(file) /\ ui'.jwt = Value(file, "jwt") /\ ui'.refresh = Value(file, "refresh_token")
    BY <2>3
  <2> QED BY <2>2, <2>4 DEF Fits, SessionIn
<1> QED BY <1>1, <1>2, <1>3, AgreeIdle

LEMMA UIStopAgrees ==
  ASSUME AuthInv, AgreeInv, UIStop
  PROVE  AgreeInv'
<1>1. UNCHANGED <<file, minted, cl, past>> /\ ui' = NoUI
  BY DEF UIStop, server
<1>2. \A c \in Client : cl[c].pc \in Resting
  BY DEF UIStop, Active, Resting
<1>3. Fits(ui', file)
  BY <1>1 DEF Fits, NoUI
<1> QED BY <1>1, <1>2, <1>3, AgreeIdle

LEMMA ExpireAgrees ==
  ASSUME AuthInv, AgreeInv, Expire
  PROVE  AgreeInv'
<1>1. UNCHANGED <<file, minted, cl, ui>> /\ past' = [past EXCEPT !.expired = @ + 1]
  BY DEF Expire
<1>2. past'.met = past.met /\ past'.lost = past.lost /\ past'.keyless = past.keyless
  BY <1>1 DEF AuthInv, AuthTyped, PastSet
<1>3. Clean' => Fits(ui', file)
  BY <1>1, <1>2 DEF AgreeInv, Clean
<1> QED BY <1>1, <1>2, <1>3, AgreeIdle

LEMMA RestAgrees ==
  ASSUME AuthInv, AgreeInv, UNCHANGED authVars
  PROVE  AgreeInv'
<1>1. UNCHANGED <<file, minted, cl, ui, past>>
  BY DEF authVars
<1>2. Clean' => Fits(ui', file)
  BY <1>1 DEF AgreeInv, Clean
<1> QED BY <1>1, <1>2, AgreeIdle
-----------------------------------------------------------------------------
(* The handlers of the UI.                                                 *)

\* A handler that uses the session goes on with it, or ends.
LEMMA UsingGoes ==
  ASSUME AuthInv, AgreeInv, NEW c \in Client, cl[c].pc \in Using,
         NEW r \in ClientSet, cl' = [cl EXCEPT ![c] = r], r.plan = cl[c].plan, r.url = cl[c].url,
         r.pc \in Using \cup Resting, r.pc = "switch" => cl[c].plan.kind \notin {"list", "proxy", "status"},
         UNCHANGED <<file, ui, minted, past>>
  PROVE  AgreeInv'
<1>1. AuthTyped /\ cl[c].pc \notin Resting /\ cl[c].pc \notin Writing /\ r.pc \notin Writing
  BY DEF AuthInv, Using, Resting, Writing
<1>2. Takes(c) /\ cl'[c] = r
  BY <1>1, StepTakes
<1>3. ASSUME Clean' PROVE Stands(r, r.pc, file, ui, minted)
  <2>1. Holds(cl[c], file, ui, minted, past.keyless)
    BY <1>2, <1>3, WasAgreed
  <2>2. /\ ui.up <=> cl[c].plan.kind \in Handlers
        /\ cl[c].url = APIURL(file) /\ cl[c].plan.kind # "reauth"
    BY <2>1, HoldsUsing
  <2>3. CASE r.pc \in Using
    <3>1. ui.up
      BY DEF AuthInv, ClientOK, Uses
    <3>2. r.pc = "switch" => r.plan.kind = "org"
      BY <2>2, <3>1 DEF Handlers
    <3> QED BY <2>2, <2>3, <3>2, UsingStands
  <2>4. CASE r.pc \in Resting
    BY <2>4 DEF Stands, Resting, Loaded, Using
  <2> QED BY <2>3, <2>4
<1>4. Clean' => Holds(r, file, ui, minted, past'.keyless)
  BY <1>1, <1>3, WorkStands
<1>5. Extends(minted, minted')
  BY Unminted
<1> QED BY <1>2, <1>4, <1>5, AgreeGoes

LEMMA UnansweredIs ==
  ASSUME AuthTyped, NEW c \in Client
  PROVE  /\ Unanswered(c) \in ClientSet /\ Unanswered(c).pc \in {"ask", "failed"}
         /\ Unanswered(c).plan = cl[c].plan /\ Unanswered(c).url = cl[c].url
<1>1. cl[c] \in ClientSet /\ "ask" \in Pcs /\ "failed" \in Pcs
  BY DEF AuthTyped, Pcs, Plain, Using
<1>2. CASE Unanswered(c) = [cl[c] EXCEPT !.pc = "ask", !.tries = 1]
  <2> DEFINE r == [cl[c] EXCEPT !.pc = "ask", !.tries = 1]
  <2>1. r \in ClientSet /\ r.pc = "ask" /\ r.plan = cl[c].plan /\ r.url = cl[c].url
    BY <1>1 DEF ClientSet
  <2> HIDE DEF r
  <2>2. Unanswered(c) = r
    BY <1>2 DEF r
  <2> QED BY <2>1, <2>2
<1>3. CASE Unanswered(c) = [cl[c] EXCEPT !.pc = "failed"]
  BY <1>1, <1>3 DEF ClientSet
<1> QED BY <1>2, <1>3 DEF Unanswered

LEMMA UnansweredAgrees ==
  ASSUME AuthInv, AgreeInv, NEW c \in Client, cl[c].pc \in Using, cl' = [cl EXCEPT ![c] = Unanswered(c)],
         UNCHANGED <<file, ui, minted, past>>
  PROVE  AgreeInv'
<1> DEFINE r == Unanswered(c)
<1>1. r \in ClientSet /\ r.pc \in {"ask", "failed"} /\ r.plan = cl[c].plan /\ r.url = cl[c].url
  BY UnansweredIs DEF AuthInv
<1>2. cl' = [cl EXCEPT ![c] = r]
  OBVIOUS
<1> HIDE DEF r
<1>3. r.pc \in Using \cup Resting /\ r.pc # "switch"
  BY <1>1 DEF Using, Resting
<1> QED BY <1>1, <1>2, <1>3, UsingGoes

\* A handler reads the session of a UI that is up.
LEMMA BeginHandlerAgrees ==
  ASSUME AuthInv, AgreeInv, NEW c \in Client, BeginHandler(c)
  PROVE  AgreeInv'
<1> DEFINE signedOut == ui.jwt = 0 \/ (KindOf(c) \in {"list", "proxy"} /\ ui.org = 0)
           pc == IF KindOf(c) = "reauth" THEN "login" ELSE IF signedOut THEN "failed" ELSE "ask"
           r == [cl[c] EXCEPT !.pc = pc, !.url = ui.url, !.jwt = ui.jwt, !.org = ui.org]
<1>1. AuthTyped /\ cl[c] \in ClientSet /\ ui \in UISet
  BY DEF AuthInv, AuthTyped
<1>2. /\ pc \in {"login", "failed", "ask"} /\ pc \in Pcs /\ pc \notin Writing
      /\ pc = "login" => KindOf(c) = "reauth"
      /\ pc = "ask" => KindOf(c) # "reauth"
  BY DEF Pcs, Plain, Using, Writing
<1>3. cl' = [cl EXCEPT ![c] = r]
  BY DEF BeginHandler
<1> HIDE DEF pc
<1>4. r \in ClientSet /\ r.pc = pc /\ r.plan = cl[c].plan /\ r.url = ui.url
  BY <1>1, <1>2 DEF ClientSet, UISet
<1> HIDE DEF r
<1>5. /\ UNCHANGED <<file, ui, minted>> /\ Began(c) /\ ui.up
      /\ cl[c].plan.kind \in Handlers
  BY DEF BeginHandler, server, KindOf
<1>6. Takes(c) /\ cl'[c] = r
  BY <1>1, <1>3, <1>4, <1>5, StartTakes
<1>7. ASSUME Clean' PROVE Stands(r, pc, file, ui, minted)
  <2>1. ui.url = APIURL(file)
    BY <1>5, <1>6, <1>7, WasAgreed DEF Fits
  <2>2. CASE pc = "failed"
    BY <2>2 DEF Stands, Resting, Loaded, Using
  <2>3. CASE pc = "ask"
    <3>1. pc \in Using /\ r.plan.kind # "reauth"
      BY <1>2, <1>4, <2>3 DEF Using, KindOf
    <3> QED BY <1>4, <1>5, <2>1, <2>3, <3>1, UsingStands
  <2>4. CASE pc = "login"
    <3>1. r.plan.kind = "reauth"
      BY <1>2, <1>4, <2>4 DEF KindOf
    <3> QED BY <1>4, <1>5, <2>1, <2>4, <3>1 DEF Stands, Resting, Loaded, Using
  <2> QED BY <1>2, <2>2, <2>3, <2>4
<1>8. Clean' => Holds(r, file, ui, minted, past'.keyless)
  BY <1>2, <1>4, <1>7, WorkStands
<1>9. Extends(minted, minted')
  BY <1>5, Unminted
<1> QED BY <1>5, <1>6, <1>8, <1>9, AgreeGoes

\* The list of connectors goes into the file of a UI that is signed in.
LEMMA ListedAgrees ==
  ASSUME AuthInv, AgreeInv, NEW c \in Client, cl[c].pc \in Using, cl' = [cl EXCEPT ![c] = Listed(c)],
         UNCHANGED <<file, ui, minted, past>>
  PROVE  AgreeInv'
<1> DEFINE x == IF cl[c].url \in ai THEN 1 ELSE 0
           ups == <<<<"connectors", x>>>>
           r == Saving(c, ups, "done", "done")
           w == Edited(file, ups)
<1>0. AuthTyped /\ cl[c] \in ClientSet /\ cl[c].pc \notin Resting
  BY DEF AuthInv, AuthTyped, Using, Resting
<1>1. x \in Nat /\ cl[c].jwt \in Nat /\ cl[c].refresh \in Nat /\ cl[c].key \in Nat
  BY <1>0 DEF ClientSet
<1>2. cl' = [cl EXCEPT ![c] = r]
  BY DEF Listed
<1> HIDE DEF x
<1>3. ups \in Seq(UpSet)
  BY <1>1, OneUpdate
<1> HIDE DEF ups
<1>4. /\ r \in ClientSet /\ r.pc = "save" /\ r.job.ups = ups /\ r.job.next = "done"
      /\ r.plan = cl[c].plan /\ r.url = cl[c].url /\ r.org = cl[c].org
  <2>1. GoesToSave(r, c, ups, "done", "done", cl[c].jwt, cl[c].refresh, cl[c].key)
    BY <1>0 DEF GoesToSave, Saving, ClientSet
  <2>2. "done" \in Pcs
    BY DEF Pcs, Plain
  <2> HIDE DEF r
  <2> QED BY <1>0, <1>1, <1>3, <2>1, <2>2, SavingIs
<1> HIDE DEF r
<1>5. Takes(c) /\ cl'[c] = r
  BY <1>0, <1>2, <1>4, StepTakes
<1>6. Extends(minted, minted')
  BY Unminted
<1>7. ASSUME Clean' PROVE WillStand(r, "done", w, ui, minted', past'.keyless)
  <2>1. /\ Agrees(file, minted', past'.keyless) /\ Fits(ui, file) /\ LaidOut(file) /\ file \in Seq(LineSet)
    BY <1>5, <1>6, <1>7, WasAgreed
  <2>2. Full(file)
    <3>1. ui.up /\ ui.jwt # 0
      BY DEF AuthInv, ClientOK, Uses
    <3> QED BY <2>1, <3>1 DEF Fits
  <2>3. /\ w \in Seq(LineSet) /\ LaidOut(w) /\ Full(w)
        /\ \A key \in Credential : Value(w, key) = Value(file, key)
    BY <2>1, <2>2, ListWritten DEF ups
  <2> HIDE DEF w
  <2>4. Agrees(w, minted', past'.keyless) /\ APIURL(w) = APIURL(file)
    BY <2>1, <2>3, ListAgrees
  <2>5. Fits(ui, w)
    BY <2>1, <2>3, <2>4 DEF Fits
  <2>6. Stands(r, "done", w, ui, minted')
    BY DEF Stands, Resting, Loaded, Using
  <2> QED BY <2>4, <2>5, <2>6 DEF WillStand
<1> QED BY <1>4, <1>5, <1>6, <1>7, AgreeSaves

LEMMA AskAgrees ==
  ASSUME AuthInv, AgreeInv, NEW c \in Client, Ask(c)
  PROVE  AgreeInv'
<1>0. AuthTyped /\ cl[c] \in ClientSet /\ cl[c].pc \in Using /\ UNCHANGED <<file, ui, minted, past>>
  BY DEF AuthInv, AuthTyped, Ask, Using, server
<1>1. ASSUME NEW pc \in {"done", "switch", "expired"}, cl' = [cl EXCEPT ![c] = [cl[c] EXCEPT !.pc = pc]],
             pc = "switch" => cl[c].plan.kind \notin {"list", "proxy", "status"}
      PROVE  AgreeInv'
  <2> DEFINE r == [cl[c] EXCEPT !.pc = pc]
  <2>1. pc \in Pcs /\ pc \in Using \cup Resting
    BY DEF Pcs, Plain, Using, Resting
  <2>2. r \in ClientSet /\ r.pc = pc /\ r.plan = cl[c].plan /\ r.url = cl[c].url
    BY <1>0, <2>1 DEF ClientSet
  <2>3. cl' = [cl EXCEPT ![c] = r]
    BY <1>1
  <2> HIDE DEF r
  <2> QED BY <1>0, <1>1, <2>1, <2>2, <2>3, UsingGoes
<1>2. ASSUME cl' = [cl EXCEPT ![c] = Checked(c)] PROVE AgreeInv'
  <2> DEFINE pc == IF cl[c].tries = 1 \/ cl[c].org = 0 THEN "done" ELSE "ask"
             r == [cl[c] EXCEPT !.pc = pc, !.tries = 1]
  <2>1. pc \in Pcs /\ pc \in Using \cup Resting /\ pc # "switch"
    BY DEF Pcs, Plain, Using, Resting
  <2>3. cl' = [cl EXCEPT ![c] = r]
    BY <1>2 DEF Checked
  <2> HIDE DEF pc
  <2>2. r \in ClientSet /\ r.pc = pc /\ r.plan = cl[c].plan /\ r.url = cl[c].url
    BY <1>0, <2>1 DEF ClientSet
  <2> HIDE DEF r
  <2> QED BY <1>0, <2>1, <2>2, <2>3, UsingGoes
<1>3. ASSUME cl' = [cl EXCEPT ![c] = Answered(c)] PROVE AgreeInv'
  <2>1. CASE KindOf(c) = "list"
    <3>1. Answered(c) = Listed(c)
      BY <2>1 DEF Answered
    <3> QED BY <1>0, <1>3, <3>1, ListedAgrees
  <2>2. CASE KindOf(c) = "proxy"
    BY <1>1, <1>3, <2>2 DEF Answered, Proxied
  <2>3. CASE KindOf(c) = "status"
    BY <1>2, <1>3, <2>3 DEF Answered
  <2>4. CASE KindOf(c) \notin {"list", "proxy", "status"}
    BY <1>1, <1>3, <2>4 DEF Answered, KindOf
  <2> QED BY <2>1, <2>2, <2>3, <2>4
<1>4. CASE cl' = [cl EXCEPT ![c] = Unanswered(c)]
  BY <1>0, <1>4, UnansweredAgrees
<1>5. CASE cl' = [cl EXCEPT ![c] = [cl[c] EXCEPT !.pc = "expired"]]
  BY <1>1, <1>5
<1> QED BY <1>3, <1>4, <1>5 DEF Ask

LEMMA AgainAgrees ==
  ASSUME AuthInv, AgreeInv, NEW c \in Client, cl[c].pc \in Using, UNCHANGED <<file, ui, minted, past>>,
         cl' = [cl EXCEPT ![c].pc = "again", ![c].jwt = ui.jwt]
  PROVE  AgreeInv'
<1> DEFINE r == [cl[c] EXCEPT !.pc = "again", !.jwt = ui.jwt]
<1>1. cl[c] \in ClientSet /\ ui \in UISet /\ "again" \in Pcs /\ "again" \in Using
  BY DEF AuthInv, AuthTyped, Pcs, Using
<1>2. r \in ClientSet /\ r.pc = "again" /\ r.plan = cl[c].plan /\ r.url = cl[c].url
  BY <1>1 DEF ClientSet, UISet
<1>3. cl' = [cl EXCEPT ![c] = r]
  OBVIOUS
<1> HIDE DEF r
<1> QED BY <1>1, <1>2, <1>3, UsingGoes

LEMMA EnterRefreshAgrees ==
  ASSUME AuthInv, AgreeInv, NEW c \in Client, EnterRefresh(c)
  PROVE  AgreeInv'
<1>0. cl[c] \in ClientSet /\ cl[c].pc \in Using /\ UNCHANGED <<file, ui, minted, past>>
  BY DEF AuthInv, AuthTyped, EnterRefresh, Is, Using, server
<1>1. CASE To(c, "urefresh")
  <2> DEFINE r == [cl[c] EXCEPT !.pc = "urefresh"]
  <2>1. "urefresh" \in Pcs /\ "urefresh" \in Using
    BY DEF Pcs, Using
  <2>2. r \in ClientSet /\ r.pc = "urefresh" /\ r.plan = cl[c].plan /\ r.url = cl[c].url
    BY <1>0, <2>1 DEF ClientSet
  <2>3. cl' = [cl EXCEPT ![c] = r]
    BY <1>1 DEF To
  <2> HIDE DEF r
  <2> QED BY <1>0, <2>1, <2>2, <2>3, UsingGoes
<1> QED BY <1>0, <1>1, AgainAgrees, UnansweredAgrees DEF EnterRefresh

LEMMA LeaveRefreshAgrees ==
  ASSUME AuthInv, AgreeInv, NEW c \in Client, LeaveRefresh(c)
  PROVE  AgreeInv'
<1>1. /\ cl[c].pc \in Using /\ UNCHANGED <<file, ui, minted, past>>
      /\ cl' = [cl EXCEPT ![c].pc = "again", ![c].jwt = ui.jwt]
  BY DEF LeaveRefresh, Is, Using, server
<1> QED BY <1>1, AgainAgrees
-----------------------------------------------------------------------------
(* The handlers that change the session.                                   *)

LEMMA UIRefreshAgrees ==
  ASSUME AuthInv, AgreeInv, NEW c \in Client, UIRefresh(c)
  PROVE  AgreeInv'
<1>0. /\ AuthTyped /\ cl[c] \in ClientSet /\ ClientOK(c) /\ ui \in UISet /\ past \in PastSet
      /\ Len(minted) \in Nat
  BY DEF AuthInv, AuthTyped
<1>1. UNCHANGED file /\ cl[c].pc = "urefresh" /\ cl[c].pc \in Using /\ cl[c].pc \notin Resting
  BY DEF UIRefresh, Is, Using, Resting
<1>2. CASE cl' = [cl EXCEPT ![c] = Unanswered(c)] /\ UNCHANGED <<minted, ui, past>>
  BY <1>1, <1>2, UnansweredAgrees
<1>3. CASE /\ ui.refresh \in fresh /\ Mint(<<Session(ui.url)>>)
           /\ ui' = [ui EXCEPT !.jwt = New, !.refresh = New]
           /\ cl' = [cl EXCEPT ![c] = [SavedTokens(c, "leave", "leave") EXCEPT !.jwt = New]]
           /\ past' = [past EXCEPT !.refreshed = @ + 1]
  <2> DEFINE ups == <<<<"jwt", New>>, <<"refresh_token", New>>>>
             x == [url |-> ui.url, org |-> 0]
             r == [Saving(c, ups, "leave", "leave") EXCEPT !.jwt = New]
             w == Edited(file, ups)
  <2>1. /\ ui.url \in Nat /\ cl[c].key \in Nat /\ cl[c].refresh \in Nat /\ New \in Nat
        /\ ui.refresh # 0
    <3>1. ui.refresh \in Issued
      BY <1>0, <1>3 DEF AuthTyped
    <3>2. ui.refresh # 0 /\ New \in Nat
      BY <1>0, <3>1 DEF Issued, New
    <3> QED BY <1>0, <3>2 DEF ClientSet, UISet
  <2>2. x \in [url : Nat, org : Nat] /\ x.url = ui.url
    BY <2>1
  <2>3. Extends(minted, minted') /\ New \in DOMAIN minted' /\ minted'[New] = x
    <3>1. minted' = minted \o <<x>>
      BY <1>3 DEF Mint, Session
    <3> HIDE DEF x
    <3> QED BY <1>0, <2>2, <3>1, OneMinted
  <2>4. Writes(ups, {<<"jwt", New>>, <<"refresh_token", New>>})
    BY <2>1, TokenPairs
  <2>5. cl' = [cl EXCEPT ![c] = r]
    BY <1>3 DEF SavedTokens
  <2>a. "leave" \in Pcs /\ "leave" \in Using
    BY DEF Pcs, Using
  <2> HIDE DEF ups
  <2>6. /\ r \in ClientSet /\ r.pc = "save" /\ r.job.ups = ups /\ r.job.next = "leave"
        /\ r.plan = cl[c].plan /\ r.url = cl[c].url
    <3>1. GoesToSave(r, c, ups, "leave", "leave", New, cl[c].refresh, cl[c].key)
      BY <1>0 DEF GoesToSave, Saving, ClientSet
    <3>2. ups \in Seq(UpSet)
      BY <2>4, UpsTyped
    <3> HIDE DEF r
    <3> QED BY <1>0, <2>1, <2>a, <3>1, <3>2, SavingIs
  <2> HIDE DEF r
  <2>7. Takes(c) /\ cl'[c] = r
    <3>1. Moved(c) /\ cl'[c] = r
      BY <1>0, <2>5, <2>6 DEF AuthTyped, Moved
    <3>2. past'.lost = past.lost /\ past'.met = past.met /\ past'.keyless = past.keyless
      BY <1>0, <1>3 DEF PastSet
    <3> QED BY <1>1, <2>6, <3>1, <3>2 DEF Takes
  <2>8. ui'.up = ui.up /\ ui'.url = ui.url
    BY <1>0, <1>3 DEF UISet
  <2>9. ASSUME Clean'
        PROVE  /\ Agrees(file, minted', past'.keyless) /\ Fits(ui', file)
               /\ WillStand(r, "leave", w, ui', minted', past'.keyless)
    <3>1. /\ Agrees(file, minted', past'.keyless) /\ Fits(ui, file) /\ LaidOut(file) /\ file \in Seq(LineSet)
          /\ Holds(cl[c], file, ui, minted, past.keyless)
      BY <2>3, <2>7, <2>9, WasAgreed
    <3>2. /\ ui.up <=> cl[c].plan.kind \in Handlers
          /\ cl[c].url = APIURL(file) /\ cl[c].plan.kind # "reauth"
      BY <1>1, <3>1, HoldsUsing
    <3>3. ui.up
      BY <1>0, <1>1 DEF ClientOK, Uses
    <3>4. ui.url = APIURL(file) /\ Full(file)
      BY <2>1, <3>1, <3>3 DEF Fits
    <3>5. Rewritten(file, w, Tokens) /\ Value(w, "jwt") = New /\ Value(w, "refresh_token") = New
      <4> DEFINE n == New
      <4>1. /\ n \in Nat /\ LaidOut(file) /\ file \in Seq(LineSet) /\ w = Edited(file, ups)
            /\ Writes(ups, {<<"jwt", n>>, <<"refresh_token", n>>})
        BY <2>1, <2>4, <3>1
      <4> HIDE DEF n, w
      <4>2. Rewritten(file, w, Tokens) /\ Value(w, "jwt") = n /\ Value(w, "refresh_token") = n
        BY <4>1, TokensWritten
      <4> QED BY <4>2 DEF n
    <3>6. minted'[New].url = APIURL(file)
      BY <2>2, <2>3, <3>4
    <3> HIDE DEF w, x
    <3>7. Agrees(w, minted', past'.keyless) /\ APIURL(w) = APIURL(file) /\ Full(w)
      BY <2>3, <3>1, <3>4, <3>5, <3>6, TokensAgree
    <3>8. Fits(ui', file) /\ Fits(ui', w)
      BY <2>8, <3>4, <3>7 DEF Fits
    <3>9. Stands(r, "leave", w, ui', minted')
      <4>1. ui'.up <=> r.plan.kind \in Handlers
        BY <2>6, <2>8, <3>2
      <4>2. r.url = APIURL(w) /\ r.plan.kind # "reauth"
        BY <2>6, <3>2, <3>7
      <4> QED BY <2>a, <4>1, <4>2, UsingStands
    <3> QED BY <3>1, <3>7, <3>8, <3>9 DEF WillStand
  <2>10. Clean' => Agrees(file', minted', past'.keyless) /\ Fits(ui', file')
                     /\ Holds(cl'[c], file', ui', minted', past'.keyless)
    <3>1. r.pc \in Writing
      BY <2>6 DEF Writing
    <3> QED BY <1>1, <2>6, <2>7, <2>9, <3>1 DEF Holds
  <2> QED BY <2>7, <2>10, AgreeMoves
<1> QED BY <1>2, <1>3 DEF UIRefresh

LEMMA SwitchOrgAgrees ==
  ASSUME AuthInv, AgreeInv, NEW c \in Client, SwitchOrg(c)
  PROVE  AgreeInv'
<1> DEFINE org == cl[c].plan.org
           r == [cl[c] EXCEPT !.pc = "orgkey", !.org = org, !.jwt = ui.jwt]
<1>0. AuthTyped /\ cl[c] \in ClientSet /\ ClientOK(c) /\ ui \in UISet
  BY DEF AuthInv, AuthTyped
<1>1. /\ UNCHANGED <<file, past, minted>> /\ cl[c].pc = "switch" /\ cl[c].pc \in Using
      /\ ui' = [ui EXCEPT !.org = org] /\ cl' = [cl EXCEPT ![c] = r]
      /\ cl[c].pc \notin Resting
  BY DEF SwitchOrg, server, Is, Using, Resting
<1>2. org \in Nat /\ "orgkey" \in Pcs
  BY <1>0 DEF ClientSet, PlanSet, Pcs, Plain
<1>3. /\ ui'.up = ui.up /\ ui'.url = ui.url /\ ui'.jwt = ui.jwt /\ ui'.refresh = ui.refresh
  BY <1>0, <1>1 DEF UISet
<1>4. Meant(cl[c].plan)
  BY DEF AgreeInv
<1> HIDE DEF org
<1>5. /\ r \in ClientSet /\ r.pc = "orgkey" /\ r.plan = cl[c].plan /\ r.url = cl[c].url /\ r.org = org
  BY <1>0, <1>2 DEF ClientSet, UISet
<1> HIDE DEF r
<1>6. Takes(c) /\ cl'[c] = r
  BY <1>0, <1>1, <1>5, StepTakes
<1>7. Extends(minted, minted')
  BY <1>1, Unminted
<1>8. ASSUME Clean'
      PROVE  /\ Agrees(file, minted', past'.keyless) /\ Fits(ui', file)
             /\ Stands(r, "orgkey", file, ui', minted')
  <2>1. /\ Agrees(file, minted', past'.keyless) /\ Fits(ui, file)
        /\ Holds(cl[c], file, ui, minted, past.keyless)
    BY <1>6, <1>7, <1>8, WasAgreed
  <2>2. /\ ui.up <=> cl[c].plan.kind \in Handlers
        /\ cl[c].url = APIURL(file) /\ cl[c].plan.kind = "org"
    BY <1>1, <2>1, HoldsUsing
  <2>3. org # 0
    BY <1>4, <2>2 DEF Meant, org
  <2>4. Fits(ui', file)
    BY <1>3, <2>1 DEF Fits
  <2>5. Stands(r, "orgkey", file, ui', minted')
    BY <1>3, <1>5, <2>2, <2>3 DEF Stands, Loaded, Using
  <2> QED BY <2>1, <2>4, <2>5
<1>9. Clean' => Agrees(file', minted', past'.keyless) /\ Fits(ui', file')
                  /\ Holds(cl'[c], file', ui', minted', past'.keyless)
  <2>1. r.pc \notin Writing
    BY <1>5 DEF Writing
  <2> QED BY <1>1, <1>5, <1>6, <1>8, <2>1, WorkStands
<1> QED BY <1>6, <1>9, AgreeMoves

\* What a switch of organization writes.
LEMMA OrgUpdatesTyped ==
  ASSUME NEW c \in Client, cl[c].org \in Nat, NEW key \in Nat
  PROVE  OrgUpdates(c, key) \in Seq(UpSet)
<1>1. ASSUME NEW k \in {"org_id", "api_key"}, NEW n \in Nat
      PROVE  NonEmpty(<<k, n>>) \in Seq(UpSet)
  <2>1. k \in LineKeys \cup {"connectors"}
    BY DEF LineKeys
  <2>2. <<<<k, n>>>> \in Seq(UpSet)
    BY <2>1, OneUpdate
  <2>3. <<>> \in Seq(UpSet)
    OBVIOUS
  <2>4. NonEmpty(<<k, n>>) = <<<<k, n>>>> \/ NonEmpty(<<k, n>>) = <<>>
    BY DEF NonEmpty
  <2> QED BY <2>2, <2>3, <2>4
<1> DEFINE s == NonEmpty(<<"org_id", cl[c].org>>)
           t == NonEmpty(<<"api_key", key>>)
<1>2. s \in Seq(UpSet) /\ t \in Seq(UpSet) /\ OrgUpdates(c, key) = s \o t
  BY <1>1 DEF OrgUpdates
<1> HIDE DEF s, t
<1> QED BY <1>2

LEMMA OrgUpdatesAre ==
  ASSUME NEW c \in Client, cl[c].org \in Nat \ {0}, NEW key \in Nat
  PROVE  /\ key # 0 => Writes(OrgUpdates(c, key), {<<"org_id", cl[c].org>>, <<"api_key", key>>})
         /\ key = 0 => Writes(OrgUpdates(c, key), {<<"org_id", cl[c].org>>})
<1> DEFINE u == <<"org_id", cl[c].org>>
           v == <<"api_key", key>>
           s == <<u>>
           t == <<v>>
<1>1. Writes(s, {u}) /\ Writes(t, {v})
  <2>1. "org_id" \in Credential /\ "api_key" \in Credential
    BY DEF Credential
  <2> QED BY <2>1, PairWritten
<1>2. u[2] # 0 /\ v[2] = key
  OBVIOUS
<1> HIDE DEF u, v
<1>3. OrgUpdates(c, key) = s \o (IF key # 0 THEN t ELSE <<>>)
  BY <1>2 DEF OrgUpdates, NonEmpty, u, v
<1>4. {u, v} = {u} \cup {v}
  OBVIOUS
<1> HIDE DEF s, t
<1>5. CASE key # 0
  <2>1. Writes(s \o t, {u} \cup {v})
    BY <1>1, PairsWritten
  <2> QED BY <1>3, <1>4, <1>5, <2>1 DEF u, v
<1>6. CASE key = 0
  <2>1. s \o <<>> = s
    BY <1>1, ConcatEmptySeq DEF Writes, Ups
  <2> QED BY <1>1, <1>3, <1>6, <2>1 DEF u, v
<1> QED BY <1>5, <1>6

LEMMA SwitchKeyAgrees ==
  ASSUME AuthInv, AgreeInv, NEW c \in Client, SwitchKey(c)
  PROVE  AgreeInv'
<1>0. AuthTyped /\ cl[c] \in ClientSet /\ past \in PastSet
  BY DEF AuthInv, AuthTyped
<1>1. cl[c].pc = "orgkey" /\ cl[c].pc \notin Resting /\ cl[c].pc \notin Writing /\ UNCHANGED <<file, ui>>
  BY DEF SwitchKey, Is, Resting, Writing
<1>2. /\ cl[c].url \in Nat /\ cl[c].org \in Nat /\ cl[c].jwt \in Nat /\ cl[c].refresh \in Nat
      /\ cl[c].key \in Nat /\ New \in Nat
  BY <1>0 DEF ClientSet, AuthTyped, New
<1>3. "done" \in Pcs /\ "failed" \in Pcs
  BY DEF Pcs, Plain
<1>4. ASSUME Holds(cl[c], file, ui, minted, past.keyless)
      PROVE  cl[c].url = APIURL(file) /\ cl[c].org \in Nat \ {0}
  BY <1>1, <1>2, <1>4 DEF Holds, Stands
<1>5. CASE /\ Mint(<<[url |-> cl[c].url, org |-> cl[c].org]>>) /\ UNCHANGED past
           /\ cl' = [cl EXCEPT ![c] = [Saving(c, OrgUpdates(c, New), "done", "failed") EXCEPT !.key = New]]
  <2> DEFINE ups == OrgUpdates(c, New)
             x == [url |-> cl[c].url, org |-> cl[c].org]
             r == [Saving(c, ups, "done", "failed") EXCEPT !.key = New]
             w == Edited(file, ups)
  <2>1. x \in [url : Nat, org : Nat]
    BY <1>2
  <2>2. Extends(minted, minted') /\ New \in DOMAIN minted' /\ minted'[New] = x
    <3>1. minted' = minted \o <<x>>
      BY <1>5 DEF Mint
    <3> HIDE DEF x
    <3> QED BY <1>0, <2>1, <3>1, OneMinted
  <2>3. ups \in Seq(UpSet)
    BY <1>2, OrgUpdatesTyped
  <2>4. cl[c].org \in Nat \ {0} => Writes(ups, {<<"org_id", cl[c].org>>, <<"api_key", New>>})
    <3>1. New # 0
      BY <1>0 DEF AuthTyped, New
    <3> QED BY <1>2, <3>1, OrgUpdatesAre
  <2>5. cl' = [cl EXCEPT ![c] = r]
    BY <1>5
  <2> HIDE DEF ups
  <2>6. /\ r \in ClientSet /\ r.pc = "save" /\ r.job.ups = ups /\ r.job.next = "done"
        /\ r.plan = cl[c].plan
    <3>1. GoesToSave(r, c, ups, "done", "failed", cl[c].jwt, cl[c].refresh, New)
      BY <1>0 DEF GoesToSave, Saving, ClientSet
    <3> HIDE DEF r
    <3> QED BY <1>0, <1>2, <1>3, <2>3, <3>1, SavingIs
  <2> HIDE DEF r
  <2>7. Takes(c) /\ cl'[c] = r
    BY <1>0, <1>1, <1>5, <2>5, <2>6, StepTakes
  <2>8. ASSUME Clean' PROVE WillStand(r, "done", w, ui, minted', past'.keyless)
    <3>1. /\ Agrees(file, minted', past'.keyless) /\ Fits(ui, file) /\ LaidOut(file) /\ file \in Seq(LineSet)
          /\ Holds(cl[c], file, ui, minted, past.keyless)
      BY <2>2, <2>7, <2>8, WasAgreed
    <3>2. cl[c].url = APIURL(file) /\ cl[c].org \in Nat \ {0}
      BY <1>4, <3>1
    <3>3. /\ Rewritten(file, w, {"org_id", "api_key"})
          /\ Value(w, "org_id") = cl[c].org /\ Value(w, "api_key") \in {0, New}
      BY <1>2, <2>4, <3>1, <3>2, OrgKeyWritten
    <3>4. minted'[New] = [url |-> APIURL(file), org |-> cl[c].org]
      BY <2>2, <3>2
    <3> HIDE DEF w, x
    <3>5. Agrees(w, minted', past'.keyless) /\ APIURL(w) = APIURL(file) /\ (Full(file) => Full(w))
      BY <2>2, <3>1, <3>3, <3>4, KeyAgrees
    <3>6. Fits(ui, w)
      BY <3>1, <3>5 DEF Fits
    <3>7. Stands(r, "done", w, ui, minted')
      BY DEF Stands, Resting, Loaded, Using
    <3> QED BY <3>5, <3>6, <3>7 DEF WillStand
  <2> QED BY <1>1, <2>2, <2>6, <2>7, <2>8, AgreeSaves
<1>6. CASE /\ UNCHANGED minted /\ past' = [past EXCEPT !.keyless = TRUE]
           /\ cl' = [cl EXCEPT ![c] = Saving(c, OrgUpdates(c, 0), "done", "failed")]
  <2> DEFINE ups == OrgUpdates(c, 0)
             r == Saving(c, ups, "done", "failed")
             w == Edited(file, ups)
  <2>1. past'.lost = past.lost /\ past'.met = past.met /\ past'.keyless = TRUE
    BY <1>0, <1>6 DEF PastSet
  <2>2. Extends(minted, minted')
    BY <1>6, Unminted
  <2>3. ups \in Seq(UpSet)
    BY <1>2, OrgUpdatesTyped
  <2>4. cl[c].org \in Nat \ {0} => Writes(ups, {<<"org_id", cl[c].org>>})
    BY <1>2, OrgUpdatesAre
  <2>5. cl' = [cl EXCEPT ![c] = r]
    BY <1>6
  <2> HIDE DEF ups
  <2>6. /\ r \in ClientSet /\ r.pc = "save" /\ r.job.ups = ups /\ r.job.next = "done"
        /\ r.plan = cl[c].plan
    <3>1. GoesToSave(r, c, ups, "done", "failed", cl[c].jwt, cl[c].refresh, cl[c].key)
      BY <1>0 DEF GoesToSave, Saving, ClientSet
    <3> HIDE DEF r
    <3> QED BY <1>0, <1>2, <1>3, <2>3, <3>1, SavingIs
  <2> HIDE DEF r
  <2>7. Takes(c) /\ cl'[c] = r
    <3>1. Moved(c) /\ cl'[c] = r
      BY <1>0, <2>5, <2>6 DEF AuthTyped, Moved
    <3> QED BY <1>1, <2>1, <2>6, <3>1 DEF Takes
  <2>8. ASSUME Clean' PROVE WillStand(r, "done", w, ui, minted', past'.keyless)
    <3>1. /\ Agrees(file, minted', past'.keyless) /\ Fits(ui, file) /\ LaidOut(file) /\ file \in Seq(LineSet)
          /\ Holds(cl[c], file, ui, minted, past.keyless)
      BY <2>2, <2>7, <2>8, WasAgreed
    <3>2. cl[c].org \in Nat \ {0}
      BY <1>4, <3>1
    <3>3. Rewritten(file, w, {"org_id"})
      BY <1>2, <2>4, <3>1, <3>2, OrgWritten
    <3> HIDE DEF w
    <3>5. Agrees(w, minted', TRUE) /\ APIURL(w) = APIURL(file) /\ (Full(file) => Full(w))
      BY <3>1, <3>3, OrgAgrees
    <3>6. Fits(ui, w)
      BY <3>1, <3>5 DEF Fits
    <3>7. Stands(r, "done", w, ui, minted')
      BY DEF Stands, Resting, Loaded, Using
    <3> QED BY <2>1, <3>5, <3>6, <3>7 DEF WillStand
  <2> QED BY <1>1, <2>2, <2>6, <2>7, <2>8, AgreeSaves
<1> QED BY <1>5, <1>6 DEF SwitchKey

LEMMA AdoptAgrees ==
  ASSUME AuthInv, AgreeInv, NEW c \in Client, Adopt(c)
  PROVE  AgreeInv'
<1>0. AuthTyped /\ cl[c] \in ClientSet /\ ui \in UISet
  BY DEF AuthInv, AuthTyped
<1>1. /\ UNCHANGED <<file, past, minted>> /\ cl[c].pc = "adopt" /\ To(c, "done")
      /\ cl[c].pc \notin Writing /\ cl[c].pc \notin Resting
  BY DEF Adopt, server, Is, Writing, Resting
<1>2. Takes(c) /\ cl'[c].pc = "done"
  <2>1. "done" \in Pcs
    BY DEF Pcs, Plain
  <2> QED BY <1>0, <1>1, <2>1, ToTakes
<1>3. ui'.url = cl[c].url
  BY <1>0 DEF Adopt, UISet
<1>4. Extends(minted, minted')
  BY <1>1, Unminted
<1>5. ASSUME Clean' PROVE Agrees(file, minted', past'.keyless) /\ Fits(ui', file)
  <2>1. Agrees(file, minted', past'.keyless) /\ Holds(cl[c], file, ui, minted, past.keyless)
    BY <1>2, <1>4, <1>5, WasAgreed
  <2>2. cl[c].url = APIURL(file) /\ Full(file)
    BY <1>1, <2>1 DEF Holds, Stands
  <2> QED BY <1>3, <2>1, <2>2 DEF Fits
<1>6. Holds(cl'[c], file', ui', minted', past'.keyless)
  <2>1. cl'[c].pc \in Resting
    BY <1>2 DEF Resting
  <2> QED BY <2>1, RestHolds
<1> QED BY <1>1, <1>2, <1>5, <1>6, AgreeMoves

-----------------------------------------------------------------------------
(* The file is read and replaced.                                          *)

LEMMA SaveReadsAgrees ==
  ASSUME AuthInv, AgreeInv, NEW c \in Client, SaveReads(c)
  PROVE  AgreeInv'
<1> DEFINE r == [cl[c] EXCEPT !.pc = "replace", !.buf = file]
<1>0. AuthTyped /\ cl[c] \in ClientSet /\ file \in Seq(LineSet)
  BY DEF AuthInv, AuthTyped
<1>1. "replace" \in Pcs /\ "replace" \in Writing
  BY DEF Pcs, Writing
<1>2. /\ r \in ClientSet /\ r.pc = "replace" /\ r.job = cl[c].job
      /\ r.plan = cl[c].plan /\ r.url = cl[c].url /\ r.jwt = cl[c].jwt /\ r.refresh = cl[c].refresh
      /\ r.org = cl[c].org /\ r.key = cl[c].key /\ r.tries = cl[c].tries
  BY <1>0, <1>1 DEF ClientSet
<1>3. cl' = [cl EXCEPT ![c] = r]
  BY DEF SaveReads
<1> HIDE DEF r
<1>4. UNCHANGED <<file, ui, minted, past>> /\ cl[c].pc \in Writing /\ cl[c].pc \notin Resting
  BY DEF SaveReads, server, Is, Writing, Resting
<1>5. Takes(c) /\ cl'[c] = r
  BY <1>0, <1>2, <1>3, <1>4, StepTakes
<1>6. ASSUME Clean' PROVE Holds(r, file, ui, minted, past.keyless)
  <2> DEFINE w == Edited(file, cl[c].job.ups)
             next == cl[c].job.next
  <2>1. Holds(cl[c], file, ui, minted, past.keyless)
    BY <1>5, <1>6, WasAgreed
  <2>2. WillStand(cl[c], next, w, ui, minted, past.keyless)
    BY <1>4, <2>1 DEF Holds
  <2>3. w = Edited(file, r.job.ups) /\ next = r.job.next
    BY <1>2
  <2> HIDE DEF w, next
  <2>4. Stands(r, next, w, ui, minted) <=> Stands(cl[c], next, w, ui, minted)
    BY <1>2, StandsAlike
  <2>5. WillStand(r, next, w, ui, minted, past.keyless)
    BY <2>2, <2>4 DEF WillStand
  <2> QED BY <1>1, <1>2, <2>3, <2>5 DEF Holds
<1>7. Extends(minted, minted')
  BY <1>4, Unminted
<1>8. Clean' => Holds(cl'[c], file, ui, minted', past'.keyless)
  BY <1>4, <1>5, <1>6
<1> QED BY <1>4, <1>5, <1>7, <1>8, AgreeGoes

LEMMA SaveWritesAgrees ==
  ASSUME AuthInv, AgreeInv, NEW c \in Client, SaveWrites(c)
  PROVE  AgreeInv'
<1> DEFINE job == cl[c].job
<1>0. AuthTyped /\ cl[c] \in ClientSet /\ ClientOK(c) /\ past \in PastSet
  BY DEF AuthInv, AuthTyped
<1>1. /\ UNCHANGED <<minted, ui>> /\ cl[c].pc = "replace" /\ cl[c].pc \in Writing
      /\ cl[c].pc \notin Resting
  BY DEF SaveWrites, server, Is, Writing, Resting
<1>2. JobOK(c) /\ job.next \in Pcs /\ job.else \in Pcs
  BY <1>0, <1>1 DEF ClientOK, ClientSet, JobSet
<1>3. PICK pc \in {job.next, job.else} :
        /\ cl' = [cl EXCEPT ![c].pc = pc, ![c].buf = <<>>, ![c].job = NoJob]
        /\ \/ file' = Edited(cl[c].buf, job.ups) /\ UNCHANGED past /\ pc = job.next
           \/ past' = [past EXCEPT !.lost = TRUE]
  BY DEF SaveWrites
<1> DEFINE r == [cl[c] EXCEPT !.pc = pc, !.buf = <<>>, !.job = NoJob]
<1>4. NoJob \in JobSet /\ <<>> \in Seq(LineSet) /\ pc \in Pcs
  <2>1. "done" \in Pcs /\ "failed" \in Pcs
    BY DEF Pcs, Plain
  <2>2. <<>> \in Seq(UpSet) /\ <<>> \in Seq(LineSet)
    OBVIOUS
  <2> QED BY <1>2, <2>1, <2>2 DEF NoJob, JobSet
<1>5. r \in ClientSet
  BY <1>0, <1>4 DEF ClientSet
<1>6. /\ r.pc = pc /\ r.plan = cl[c].plan /\ r.url = cl[c].url /\ r.jwt = cl[c].jwt
      /\ r.refresh = cl[c].refresh /\ r.org = cl[c].org /\ r.key = cl[c].key /\ r.tries = cl[c].tries
  BY <1>0 DEF ClientSet
<1>7. cl' = [cl EXCEPT ![c] = r]
  BY <1>3
<1> HIDE DEF r
<1>8. Moved(c) /\ cl'[c] = r
  BY <1>0, <1>5, <1>7 DEF AuthTyped, Moved
<1>9. pc \notin Writing
  BY <1>2, <1>3 DEF JobOK, Writing
<1>10. CASE past' = [past EXCEPT !.lost = TRUE]
  <2>1. past'.lost /\ past'.met = past.met /\ past'.keyless = past.keyless
    BY <1>0, <1>10 DEF PastSet
  <2>2. Takes(c)
    BY <1>1, <1>6, <1>8, <2>1 DEF Takes
  <2> QED BY <2>1, <2>2, AgreeMoves DEF Clean
<1>11. CASE file' = Edited(cl[c].buf, job.ups) /\ UNCHANGED past /\ pc = job.next
  <2>1. Takes(c)
    BY <1>1, <1>6, <1>8, <1>11 DEF Takes
  <2> DEFINE w == Edited(file, job.ups)
  <2>2. ASSUME Clean'
        PROVE  Agrees(file', minted', past'.keyless) /\ Fits(ui', file')
                 /\ Holds(cl'[c], file', ui', minted', past'.keyless)
    <3>1. Holds(cl[c], file, ui, minted, past.keyless)
      BY <2>1, <2>2, WasAgreed
    <3>2. WillStand(cl[c], job.next, w, ui, minted, past.keyless)
      BY <1>1, <3>1 DEF Holds
    <3>3. file' = w
      <4>1. ClientKeeps(c)
        BY <1>11, <2>2, StaysClean
      <4>2. cl[c].buf = file
        BY <1>1, <4>1 DEF ClientKeeps, Is
      <4> QED BY <1>11, <4>2
    <3> HIDE DEF w
    <3>4. WillStand(cl[c], pc, w, ui, minted, past.keyless)
      BY <1>11, <3>2
    <3>5. Stands(r, pc, w, ui, minted) <=> Stands(cl[c], pc, w, ui, minted)
      BY <1>6, StandsAlike
    <3>6. Agrees(w, minted, past.keyless) /\ Fits(ui, w) /\ Stands(r, pc, w, ui, minted)
      BY <3>4, <3>5 DEF WillStand
    <3>7. Holds(r, w, ui, minted, past.keyless)
      BY <1>6, <1>9, <3>6, WorkStands
    <3> QED BY <1>1, <1>8, <1>11, <3>3, <3>6, <3>7
  <2> QED BY <2>1, <2>2, AgreeMoves
<1> QED BY <1>3, <1>10, <1>11
-----------------------------------------------------------------------------
(* Every state reached agrees.                                             *)

LEMMA AgreeStarts ==
  ASSUME FilesAreWhole, PlansAreMeant, AuthInit
  PROVE  AgreeInv
<1>1. PICK plan \in AuthPlans :
        cl = [c \in Client |-> [plan |-> plan[c], pc |-> "wait", url |-> Cloud, jwt |-> 0, refresh |-> 0,
                                org |-> 0, key |-> 0, buf |-> <<>>, job |-> NoJob, tries |-> 0]]
  BY DEF AuthInit
<1>2. \A c \in Client : cl[c].plan = plan[c] /\ cl[c].pc \in Resting
  BY <1>1 DEF Resting
<1>3. file \in Files /\ ui = NoUI
  BY DEF AuthInit
<1>4. file \in Seq(LineSet)
  BY <1>3, AuthAssumption DEF LineSet
<1>5. /\ LaidOut(file) /\ (SessionIn(file) => Full(file))
      /\ Value(file, "api_url") \in {0, Cloud} /\ Value(file, "org_id") \in {0, 1}
      /\ Value(file, "api_key") \in {0, 2}
  BY <1>3 DEF FilesAreWhole
<1>6. ASSUME NEW key \in Tokens PROVE Value(file, key) \in {0, 1}
  <2>1. \A i \in DOMAIN file : file[i].k \in Tokens => file[i].v <= 1
    BY <1>3, AuthAssumption DEF Tokens
  <2>2. \A i \in DOMAIN file : file[i].v \in Nat
    <3>1. \A i \in DOMAIN file : file[i] \in LineSet
      BY <1>4
    <3> QED BY <3>1 DEF LineSet
  <2>3. Only(file, key, {0, 1})
    BY <2>1, <2>2 DEF Only
  <2>4. Value(file, key) \in {0, 1} \cup {0}
    BY <1>4, <2>3, ValueIs
  <2> QED BY <2>4
<1>7. /\ 1 \in DOMAIN minted /\ 2 \in DOMAIN minted
      /\ minted[1].url = Cloud /\ minted[2].url = Cloud /\ minted[2].org = 1
  <2> DEFINE s == [url |-> Cloud, org |-> 0]
             k == [url |-> Cloud, org |-> 1]
  <2>1. s.url = Cloud /\ k.url = Cloud /\ k.org = 1
    OBVIOUS
  <2>2. minted = <<s, k>>
    BY DEF AuthInit
  <2> HIDE DEF s, k
  <2> QED BY <2>1, <2>2
<1>8. APIURL(file) = Cloud
  BY <1>5 DEF APIURL
<1>9. \A key \in Held : Value(file, key) # 0 =>
        Value(file, key) \in DOMAIN minted /\ minted[Value(file, key)].url = APIURL(file)
  BY <1>5, <1>6, <1>7, <1>8 DEF Held, Tokens
<1>10. Value(file, "api_key") # 0 /\ Value(file, "org_id") # 0
         => minted[Value(file, "api_key")].org = Value(file, "org_id")
  BY <1>5, <1>7
<1>11. Agrees(file, minted, past.keyless)
  BY <1>5, <1>9, <1>10 DEF Agrees
<1>12. Fits(ui, file)
  BY <1>3 DEF Fits, NoUI
<1>13. \A c \in Client : Meant(cl[c].plan) /\ Holds(cl[c], file, ui, minted, past.keyless)
  BY <1>2, RestHolds DEF PlansAreMeant
<1> QED BY <1>11, <1>12, <1>13 DEF AgreeInv

LEMMA AgreeStep ==
  ASSUME AuthInv, AgreeInv, [AuthNext]_authVars
  PROVE  AgreeInv'
<1>1. CASE UNCHANGED authVars
  BY <1>1, RestAgrees
<1>2. ASSUME NEW c \in Client, SaveReads(c) \/ SaveWrites(c) PROVE AgreeInv'
  BY <1>2, SaveReadsAgrees, SaveWritesAgrees
<1>3. ASSUME NEW c \in Client, BeginReview(c) \/ SubmitReview(c) \/ CreateKey(c) \/ RefreshSession(c)
      PROVE  AgreeInv'
  BY <1>3, BeginReviewAgrees, SubmitReviewAgrees, CreateKeyAgrees, RefreshSessionAgrees
<1>4. ASSUME NEW c \in Client,
             \/ BeginPreflight(c) \/ ProbeSession(c) \/ RecoverKey(c) \/ EnsureEnds(c) \/ SetupChooses(c)
      PROVE  AgreeInv'
  BY <1>4, BeginPreflightAgrees, ProbeSessionAgrees, RecoverKeyAgrees, EnsureEndsAgrees, SetupChoosesAgrees
<1>5. ASSUME NEW c \in Client, Login(c) \/ Gemini(c) \/ Connector(c) PROVE AgreeInv'
  BY <1>5, LoginKeepsAgreed, GeminiAgrees, ConnectorAgrees
<1>6. ASSUME NEW c \in Client, \/ BeginHandler(c) \/ Ask(c) \/ EnterRefresh(c) \/ UIRefresh(c)
                               \/ LeaveRefresh(c)
      PROVE  AgreeInv'
  BY <1>6, BeginHandlerAgrees, AskAgrees, EnterRefreshAgrees, UIRefreshAgrees, LeaveRefreshAgrees
<1>7. ASSUME NEW c \in Client, SwitchOrg(c) \/ SwitchKey(c) \/ Adopt(c) PROVE AgreeInv'
  BY <1>7, SwitchOrgAgrees, SwitchKeyAgrees, AdoptAgrees
<1>8. ASSUME UIStart \/ UIStop \/ Expire PROVE AgreeInv'
  BY <1>8, UIStartAgrees, UIStopAgrees, ExpireAgrees
<1> QED BY <1>1, <1>2, <1>3, <1>4, <1>5, <1>6, <1>7, <1>8 DEF AuthNext

LEMMA AgreedWhenQuiet ==
  ASSUME AgreeInv
  PROVE  CredentialsAgree
<1> SUFFICES ASSUME Quiet PROVE Agrees(file, minted, past.keyless)
  BY DEF CredentialsAgree, Agrees, Held
<1> QED BY DEF Quiet, AgreeInv, Clean

\* Whatever commands and handlers ran one after the other, and whichever of their calls failed,
\* the session and the key in ~/.lrc.toml are of the server it names, and the key is of the
\* organization it names: a write of one of them finds, or brings, the others that go with it.
\* The file lrc starts from has its layout, a setup is told a server and a switch an organization.
THEOREM CredentialsStay == FilesAreWhole /\ PlansAreMeant => (AuthSpec => []CredentialsAgree)
<1> SUFFICES ASSUME FilesAreWhole, PlansAreMeant PROVE AuthSpec => []CredentialsAgree
  OBVIOUS
<1>1. AuthInit => AuthInv /\ AgreeInv
  BY AuthStarts, AgreeStarts
<1>2. AuthInv /\ AgreeInv /\ [AuthNext]_authVars => (AuthInv /\ AgreeInv)'
  BY AuthStep, AgreeStep
<1>3. AuthInv /\ AgreeInv => CredentialsAgree
  BY AgreedWhenQuiet
<1> QED BY <1>1, <1>2, <1>3, PTL DEF AuthSpec
=============================================================================
