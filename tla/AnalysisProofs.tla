--------------------------- MODULE AnalysisProofs ---------------------------
(***************************************************************************)
(* Proofs about the scores of a review (Analysis over BlastRadius), for    *)
(* any code the index may hold, any diff git may give and any outage: the  *)
(* five invariants of Analysis, from one inductive invariant.              *)
(*                                                                         *)
(* First what the operators of BlastRadius compute: sums and folds by      *)
(* their recursions, orders by places, callers by chains of calls, scores  *)
(* by their parts.  No induction over data is needed: a smallest           *)
(* counterexample is picked, which a well-founded order always has.        *)
(***************************************************************************)
EXTENDS Analysis, FiniteSetTheorems, SequenceTheorems, FunctionTheorems, WellFoundedInduction, TLAPS

-----------------------------------------------------------------------------
(* Recursion and folds.                                                    *)

LessThan == {ss \in Nat \X Nat : ss[1] < ss[2]}

\* A non-empty set of natural numbers has a least element.
LEMMA Least ==
  ASSUME NEW T \in SUBSET Nat, T # {}
  PROVE  \E m \in T : \A k \in T : m <= k
<1>1. IsWellFoundedOn(LessThan, Nat)
  BY NatLessThanWellFounded DEF OpToRel, LessThan
<1>2. PICK m \in T : \A k \in T : ~(<<k, m>> \in LessThan)
  BY <1>1, WFMin
<1>3. \A k \in T : ~(k < m)
  BY <1>2 DEF LessThan
<1> QED BY <1>3

\* A bounded one has a greatest.
LEMMA Greatest ==
  ASSUME NEW n \in Nat, NEW T \in SUBSET (0..n), T # {}
  PROVE  \E m \in T : \A k \in T : k <= m
<1> DEFINE U == {n - k : k \in T}
<1>1. U \in SUBSET Nat /\ U # {}
  <2>1. \A k \in T : n - k \in Nat
    OBVIOUS
  <2> QED BY <2>1
<1> HIDE DEF U
<1>2. PICK u \in U : \A k \in U : u <= k
  BY <1>1, Least
<1>3. PICK m \in T : u = n - m
  BY <1>2 DEF U
<1>4. \A k \in T : n - k \in U
  BY DEF U
<1> QED BY <1>2, <1>3, <1>4

\* A function defined by recursion on a number exists.
IsRec(f, n, V, base, g) ==
  f \in [0..n -> V] /\ \A d \in 0..n : f[d] = IF d = 0 THEN base ELSE g[<<f[d - 1], d>>]

\* With any first value and any step there is such a function.
LEMMA RecExists ==
  ASSUME NEW n \in Nat, NEW V, NEW base \in V, NEW g \in [V \X (1..n) -> V]
  PROVE  \E f : IsRec(f, n, V, base, g)
<1> DEFINE Has(k) == \E f \in [0..k -> V] : \A d \in 0..k : f[d] = IF d = 0 THEN base ELSE g[<<f[d - 1], d>>]
           bad == {k \in 0..n : ~Has(k)}
<1>1. Has(0)
  <2> DEFINE f == [d \in 0..0 |-> base]
  <2>1. f \in [0..0 -> V]
    OBVIOUS
  <2>2. \A d \in 0..0 : f[d] = IF d = 0 THEN base ELSE g[<<f[d - 1], d>>]
    OBVIOUS
  <2> HIDE DEF f
  <2> QED BY <2>1, <2>2
<1>2. bad = {}
  <2> SUFFICES ASSUME bad # {} PROVE FALSE
    OBVIOUS
  <2>0. bad \in SUBSET Nat
    <3> HIDE DEF Has
    <3> QED OBVIOUS
  <2>1. PICK m \in bad : \A k \in bad : m <= k
    <3> HIDE DEF bad
    <3> QED BY <2>0, Least
  <2>2. m # 0
    <3> HIDE DEF Has
    <3> QED BY <2>1, <1>1
  <2>3. m \in Nat /\ m - 1 \in Nat /\ m \in 1..n /\ Has(m - 1)
    <3> HIDE DEF Has
    <3> QED BY <2>1, <2>2
  <2>4. PICK f \in [0..(m - 1) -> V] : \A d \in 0..(m - 1) : f[d] = IF d = 0 THEN base ELSE g[<<f[d - 1], d>>]
    BY <2>3
  <2> DEFINE h == [d \in 0..m |-> IF d = m THEN g[<<f[m - 1], m>>] ELSE f[d]]
  <2>5. h \in [0..m -> V]
    <3>1. <<f[m - 1], m>> \in V \X (1..n)
      BY <2>3, <2>4
    <3> QED BY <2>3, <2>4, <3>1
  <2>6. ASSUME NEW d \in 0..m PROVE h[d] = IF d = 0 THEN base ELSE g[<<h[d - 1], d>>]
    <3>1. CASE d = m
      <4>1. h[d] = g[<<f[m - 1], m>>] /\ h[m - 1] = f[m - 1]
        BY <2>3, <3>1
      <4> QED BY <4>1, <3>1, <2>2
    <3>2. CASE d # m
      <4>1. d \in 0..(m - 1) /\ h[d] = f[d]
        BY <2>3, <3>2
      <4>2. d # 0 => h[d - 1] = f[d - 1]
        BY <2>3, <3>2
      <4> QED BY <4>1, <4>2, <2>4
    <3> QED BY <3>1, <3>2
  <2>7. Has(m)
    BY <2>5, <2>6
  <2> HIDE DEF Has
  <2> QED BY <2>1, <2>7
<1>3. Has(n)
  <2> HIDE DEF Has
  <2> QED BY <1>2
<1> QED BY <1>3 DEF IsRec

\* A function defined by recursion on the subsets of a finite set, by what pick takes from them, exists.
Picks(pick, S) == \A T \in SUBSET S : T # {} => pick[T] \in T
IsFold(f, S, pick, V, base, g) ==
  /\ f \in [SUBSET S -> V]
  /\ \A T \in SUBSET S : f[T] = IF T = {} THEN base ELSE g[<<f[T \ {pick[T]}], pick[T]>>]

\* With any first value and any step there is such a fold, whatever pick takes.
LEMMA FoldExists ==
  ASSUME NEW S, IsFiniteSet(S), NEW pick, Picks(pick, S),
         NEW V, NEW base \in V, NEW g \in [V \X S -> V]
  PROVE  \E f : IsFold(f, S, pick, V, base, g)
<1> DEFINE Sub(k) == {T \in SUBSET S : Cardinality(T) <= k}
           Good(f, k) == \A T \in Sub(k) : f[T] = IF T = {} THEN base ELSE g[<<f[T \ {pick[T]}], pick[T]>>]
           Has(k) == \E f \in [Sub(k) -> V] : Good(f, k)
           bad == {k \in Nat : ~Has(k)}
<1>1. \A T \in SUBSET S : IsFiniteSet(T) /\ Cardinality(T) \in Nat
  BY FS_Subset, FS_CardinalityType
<1>2. \A T \in SUBSET S : T # {} => /\ pick[T] \in S /\ T \ {pick[T]} \in SUBSET S
                                    /\ Cardinality(T \ {pick[T]}) = Cardinality(T) - 1
  BY <1>1, FS_RemoveElement DEF Picks
<1>3. \A T \in SUBSET S : T # {} => Cardinality(T) # 0
  BY <1>1, FS_EmptySet
<1>4. Has(0)
  <2> DEFINE f == [T \in Sub(0) |-> base]
  <2>1. f \in [Sub(0) -> V]
    OBVIOUS
  <2>2. \A T \in Sub(0) : T = {}
    BY <1>1, <1>3
  <2>3. Good(f, 0)
    BY <2>2
  <2> HIDE DEF f, Good
  <2> QED BY <2>1, <2>3
<1>5. bad = {}
  <2> SUFFICES ASSUME bad # {} PROVE FALSE
    OBVIOUS
  <2>1. PICK m \in bad : \A k \in bad : m <= k
    <3> HIDE DEF Has
    <3> QED BY Least
  <2>2. m # 0
    <3> HIDE DEF Has
    <3> QED BY <2>1, <1>4
  <2>3. m \in Nat /\ m - 1 \in Nat /\ Has(m - 1)
    <3> HIDE DEF Has
    <3> QED BY <2>1, <2>2
  <2>4. PICK f \in [Sub(m - 1) -> V] : Good(f, m - 1)
    BY <2>3
  <2> DEFINE h == [T \in Sub(m) |-> IF T = {} THEN base ELSE g[<<f[T \ {pick[T]}], pick[T]>>]]
  <2>5. \A T \in Sub(m) : T # {} => T \ {pick[T]} \in Sub(m - 1)
    BY <1>1, <1>2, <2>3
  <2>6. h \in [Sub(m) -> V]
    <3>1. ASSUME NEW T \in Sub(m), T # {} PROVE g[<<f[T \ {pick[T]}], pick[T]>>] \in V
      <4>1. f[T \ {pick[T]}] \in V /\ pick[T] \in S
        BY <3>1, <1>2, <2>4, <2>5
      <4> QED BY <4>1
    <3> QED BY <3>1
  <2>7. \A T \in Sub(m - 1) : T \in Sub(m) /\ h[T] = f[T]
    <3>1. \A T \in Sub(m - 1) : T \in Sub(m)
      BY <1>1, <2>3
    <3> QED BY <3>1, <2>4
  <2>8. Good(h, m)
    <3>1. \A T \in Sub(m) : T # {} => h[T \ {pick[T]}] = f[T \ {pick[T]}]
      <4> HIDE DEF h, Sub
      <4> QED BY <2>5, <2>7
    <3> QED BY <3>1
  <2>9. Has(m)
    <3> HIDE DEF h, Good, Sub
    <3> QED BY <2>6, <2>8
  <2> HIDE DEF Has
  <2> QED BY <2>1, <2>9
<1>6. Has(Cardinality(S))
  <2> HIDE DEF Has
  <2> QED BY <1>1, <1>5
<1>7. PICK f \in [Sub(Cardinality(S)) -> V] : Good(f, Cardinality(S))
  BY <1>6
<1>8. Sub(Cardinality(S)) = SUBSET S
  <2>1. \A T \in SUBSET S : Cardinality(T) <= Cardinality(S)
    BY FS_Subset
  <2> QED BY <2>1
<1> QED BY <1>7, <1>8 DEF IsFold

-----------------------------------------------------------------------------
(* Sums.                                                                   *)

OneOf(T) == CHOOSE x \in T : TRUE
IsTotal(it, f, S) ==
  /\ it \in [SUBSET S -> Nat]
  /\ \A T \in SUBSET S : it[T] = IF T = {} THEN 0 ELSE f[OneOf(T)] + it[T \ {OneOf(T)}]

\* SumFunction adds the values one by one, in some order.
LEMMA TotalIs ==
  ASSUME NEW S, IsFiniteSet(S), NEW f \in [S -> Nat]
  PROVE  \E it : IsTotal(it, f, S) /\ SumFunction(f) = it[S]
<1> DEFINE pick == [T \in SUBSET S |-> OneOf(T)]
           g == [p \in Nat \X S |-> f[p[2]] + p[1]]
           Step(iter) == [s \in SUBSET S |-> IF s = {} THEN 0 ELSE f[OneOf(s)] + iter[s \ {OneOf(s)}]]
           it == CHOOSE iter : iter = Step(iter)
<1>1. \A T \in SUBSET S : T # {} => OneOf(T) \in T
  BY DEF OneOf
<1>2. \A T \in SUBSET S : T # {} => pick[T] \in T
  BY <1>1
<1>3. g \in [Nat \X S -> Nat] /\ 0 \in Nat
  OBVIOUS
<1>4. PICK h : IsFold(h, S, pick, Nat, 0, g)
  <2>1. Picks(pick, S)
    BY <1>2 DEF Picks
  <2> HIDE DEF g, pick
  <2> QED BY <2>1, <1>3, FoldExists
<1>5. ASSUME NEW T \in SUBSET S PROVE h[T] = IF T = {} THEN 0 ELSE f[OneOf(T)] + h[T \ {OneOf(T)}]
  <2>0. h[T] = IF T = {} THEN 0 ELSE g[<<h[T \ {pick[T]}], pick[T]>>]
    BY <1>4 DEF IsFold
  <2>1. CASE T = {}
    BY <2>0, <2>1
  <2>2. CASE T # {}
    <3>1. OneOf(T) \in S /\ pick[T] = OneOf(T) /\ T \ {OneOf(T)} \in SUBSET S
      BY <1>1, <2>2
    <3>2. h[T] = g[<<h[T \ {OneOf(T)}], OneOf(T)>>]
      BY <2>0, <2>2, <3>1
    <3>3. <<h[T \ {OneOf(T)}], OneOf(T)>> \in Nat \X S
      BY <3>1, <1>4 DEF IsFold
    <3> QED BY <3>2, <3>3, <2>2
  <2> QED BY <2>1, <2>2
<1>6. h = Step(h)
  BY <1>4, <1>5 DEF IsFold
<1>7. it = Step(it)
  <2> HIDE DEF Step
  <2> QED BY <1>6
<1> HIDE DEF it
<1>8. it \in [SUBSET S -> Nat]
  <2>1. \A T \in SUBSET S : it[T] = IF T = {} THEN 0 ELSE f[OneOf(T)] + it[T \ {OneOf(T)}]
    BY <1>7
  <2> DEFINE bad == {k \in Nat : \E T \in SUBSET S : Cardinality(T) = k /\ ~(it[T] \in Nat)}
  <2>2. ASSUME bad # {} PROVE FALSE
    <3>1. PICK m \in bad : \A k \in bad : m <= k
      BY <2>2, Least
    <3>2. PICK T \in SUBSET S : Cardinality(T) = m /\ ~(it[T] \in Nat)
      BY <3>1
    <3>3. T # {}
      <4> SUFFICES ASSUME T = {} PROVE FALSE
        OBVIOUS
      <4>1. it[T] = 0
        BY <2>1
      <4> QED BY <4>1, <3>2
    <3>4. OneOf(T) \in T /\ T \ {OneOf(T)} \in SUBSET S /\ IsFiniteSet(T)
      BY <1>1, <3>3, FS_Subset
    <3>5. Cardinality(T \ {OneOf(T)}) = m - 1 /\ m \in Nat /\ Cardinality(T \ {OneOf(T)}) \in Nat
      BY <3>2, <3>4, FS_RemoveElement, FS_CardinalityType, FS_Subset
    <3>6. it[T \ {OneOf(T)}] \in Nat
      BY <3>1, <3>4, <3>5
    <3>7. f[OneOf(T)] \in Nat
      BY <3>4
    <3>8. it[T] = f[OneOf(T)] + it[T \ {OneOf(T)}]
      BY <2>1, <3>2, <3>3
    <3>9. \A a, b \in Nat : a + b \in Nat
      OBVIOUS
    <3> QED BY <3>2, <3>6, <3>7, <3>8, <3>9
  <2>3. \A T \in SUBSET S : it[T] \in Nat
    BY <2>2, FS_Subset, FS_CardinalityType
  <2> QED BY <1>7, <2>3
<1>9. IsTotal(it, f, S)
  BY <1>7, <1>8 DEF IsTotal
<1>10. SumFunction(f) = it[S]
  BY DEF SumFunction, SumFunctionOnSet, FoldFunctionOnSet, MapThenFoldSet, it, OneOf
<1> QED BY <1>9, <1>10

\* A total does not depend on what is taken first.
LEMMA TotalTakes ==
  ASSUME NEW S, IsFiniteSet(S), NEW f \in [S -> Nat], NEW it, IsTotal(it, f, S),
         NEW T \in SUBSET S, NEW x \in T
  PROVE  it[T] = f[x] + it[T \ {x}]
<1> DEFINE Takes(U) == \A y \in U : it[U] = f[y] + it[U \ {y}]
           bad == {k \in Nat : \E U \in SUBSET S : Cardinality(U) = k /\ ~Takes(U)}
<1>1. it \in [SUBSET S -> Nat]
      /\ \A U \in SUBSET S : it[U] = IF U = {} THEN 0 ELSE f[OneOf(U)] + it[U \ {OneOf(U)}]
  BY DEF IsTotal
<1>2. \A U \in SUBSET S : IsFiniteSet(U) /\ Cardinality(U) \in Nat
  BY FS_Subset, FS_CardinalityType
<1>3. ASSUME bad # {} PROVE FALSE
  <2>1. PICK m \in bad : \A k \in bad : m <= k
    <3> HIDE DEF Takes
    <3> QED BY <1>3, Least
  <2>2. PICK U \in SUBSET S : Cardinality(U) = m /\ ~Takes(U)
    BY <2>1
  <2>3. PICK y \in U : it[U] # f[y] + it[U \ {y}]
    BY <2>2
  <2> DEFINE a == OneOf(U)
  <2>4. a \in U
    BY <2>3 DEF OneOf
  <2> HIDE DEF a
  <2>5. it[U] = f[a] + it[U \ {a}]
    BY <1>1, <2>3 DEF a
  <2>6. a # y
    BY <2>3, <2>5
  <2>7. U \ {a} \in SUBSET S /\ U \ {y} \in SUBSET S /\ (U \ {a}) \ {y} \in SUBSET S
        /\ (U \ {a}) \ {y} = (U \ {y}) \ {a} /\ y \in U \ {a} /\ a \in U \ {y}
    BY <2>3, <2>4, <2>6
  <2>8. Cardinality(U \ {a}) = m - 1 /\ Cardinality(U \ {y}) = m - 1
    BY <1>2, <2>2, <2>3, <2>4, FS_RemoveElement
  <2>9. Takes(U \ {a}) /\ Takes(U \ {y})
    <3> HIDE DEF Takes
    <3> QED BY <2>1, <2>7, <2>8, <1>2
  <2>10. it[U \ {a}] = f[y] + it[(U \ {a}) \ {y}] /\ it[U \ {y}] = f[a] + it[(U \ {y}) \ {a}]
    BY <2>7, <2>9
  <2>11. f[a] \in Nat /\ f[y] \in Nat /\ it[(U \ {a}) \ {y}] \in Nat
    BY <2>3, <2>4, <2>7, <1>1
  <2> DEFINE rest == it[(U \ {a}) \ {y}]
  <2>12. it[U] = f[a] + (f[y] + rest) /\ it[U \ {y}] = f[a] + rest
    BY <2>5, <2>7, <2>10
  <2>13. it[U] = f[y] + it[U \ {y}]
    <3>1. rest \in Nat
      BY <2>11
    <3> HIDE DEF rest
    <3> QED BY <2>11, <2>12, <3>1
  <2> QED BY <2>3, <2>13
<1>4. Takes(T)
  <2> HIDE DEF Takes
  <2> QED BY <1>3, <1>2
<1> QED BY <1>4

\* What is summed one to one to larger numbers has a sum that is not larger.
LEMMA SumThrough ==
  ASSUME NEW S, IsFiniteSet(S), NEW f \in [S -> Nat],
         NEW S2, IsFiniteSet(S2), NEW f2 \in [S2 -> Nat],
         NEW h \in [S -> S2], \A x, y \in S : h[x] = h[y] => x = y,
         \A x \in S : f[x] <= f2[h[x]]
  PROVE  SumFunction(f) <= SumFunction(f2)
<1>1. PICK it : IsTotal(it, f, S) /\ SumFunction(f) = it[S]
  BY TotalIs
<1>2. PICK it2 : IsTotal(it2, f2, S2) /\ SumFunction(f2) = it2[S2]
  BY TotalIs
<1>3. it \in [SUBSET S -> Nat] /\ it2 \in [SUBSET S2 -> Nat] /\ it[{}] = 0 /\ it2[{}] = 0
  BY <1>1, <1>2 DEF IsTotal
<1> DEFINE Image(T) == {h[x] : x \in T}
           Less(T) == it[T] <= it2[Image(T)]
           bad == {k \in Nat : \E T \in SUBSET S : Cardinality(T) = k /\ ~Less(T)}
<1>4. \A T \in SUBSET S : IsFiniteSet(T) /\ Cardinality(T) \in Nat /\ Image(T) \in SUBSET S2
  BY FS_Subset, FS_CardinalityType
<1>5. ASSUME bad # {} PROVE FALSE
  <2>1. PICK m \in bad : \A k \in bad : m <= k
    <3> HIDE DEF Less
    <3> QED BY <1>5, Least
  <2>2. PICK T \in SUBSET S : Cardinality(T) = m /\ ~Less(T)
    BY <2>1
  <2>3. PICK x \in T : TRUE
    <3>1. CASE T = {}
      <4>1. Image(T) = {}
        BY <3>1
      <4> QED BY <4>1, <3>1, <1>3, <2>2
    <3> QED BY <3>1
  <2>4. T \ {x} \in SUBSET S /\ Cardinality(T \ {x}) = m - 1
    BY <1>4, <2>2, <2>3, FS_RemoveElement
  <2>5. Less(T \ {x})
    <3> HIDE DEF Less
    <3> QED BY <2>1, <2>4, <1>4
  <2>6. Image(T) \ {h[x]} = Image(T \ {x}) /\ h[x] \in Image(T)
    BY <2>3, <2>2
  <2>7. it[T] = f[x] + it[T \ {x}]
    BY <1>1, <2>2, <2>3, TotalTakes
  <2>8. it2[Image(T)] = f2[h[x]] + it2[Image(T) \ {h[x]}]
    <3> HIDE DEF Image
    <3> QED BY <1>2, <1>4, <2>2, <2>6, TotalTakes
  <2>9. /\ f[x] \in Nat /\ f2[h[x]] \in Nat /\ f[x] <= f2[h[x]]
        /\ it[T \ {x}] \in Nat /\ it2[Image(T \ {x})] \in Nat
    <3> HIDE DEF Image
    <3> QED BY <1>3, <1>4, <2>2, <2>3, <2>4
  <2>10. ~(it[T] <= it2[Image(T)]) /\ it[T \ {x}] <= it2[Image(T \ {x})]
    BY <2>2, <2>5
  <2>11. it2[Image(T)] = f2[h[x]] + it2[Image(T \ {x})]
    <3> HIDE DEF Image
    <3> QED BY <2>6, <2>8
  <2> DEFINE a == it[T \ {x}]
             b == it2[Image(T \ {x})]
             c == it2[Image(T)]
  <2>12. a \in Nat /\ b \in Nat /\ it[T] = f[x] + a /\ c = f2[h[x]] + b /\ a <= b /\ ~(it[T] <= c)
    <3> HIDE DEF Image
    <3> QED BY <2>7, <2>9, <2>10, <2>11
  <2> HIDE DEF a, b, c
  <2> QED BY <2>9, <2>12
<1>6. Less(S)
  <2> HIDE DEF Less
  <2> QED BY <1>4, <1>5
<1> DEFINE Low(U) == it2[Image(S)] <= it2[U]
           bad2 == {k \in Nat : \E U \in SUBSET S2 : Image(S) \subseteq U /\ Cardinality(U) = k /\ ~Low(U)}
<1>7. \A U \in SUBSET S2 : IsFiniteSet(U) /\ Cardinality(U) \in Nat
  BY FS_Subset, FS_CardinalityType
<1>8. ASSUME bad2 # {} PROVE FALSE
  <2>1. PICK m \in bad2 : \A k \in bad2 : m <= k
    <3> HIDE DEF Low
    <3> QED BY <1>8, Least
  <2>2. PICK U \in SUBSET S2 : Image(S) \subseteq U /\ Cardinality(U) = m /\ ~Low(U)
    BY <2>1
  <2>3. PICK x \in U : x \notin Image(S)
    <3>1. U # Image(S)
      <4>1. it2[U] \in Nat
        BY <1>3, <2>2
      <4> HIDE DEF Image
      <4> QED BY <2>2, <4>1
    <3> HIDE DEF Image
    <3> QED BY <2>2, <3>1
  <2>4. U \ {x} \in SUBSET S2 /\ Cardinality(U \ {x}) = m - 1 /\ Image(S) \subseteq U \ {x}
    <3> HIDE DEF Image
    <3> QED BY <1>7, <2>2, <2>3, FS_RemoveElement
  <2>5. Low(U \ {x})
    <3> HIDE DEF Low, Image
    <3> QED BY <2>1, <2>4, <1>7
  <2>6. it2[U] = f2[x] + it2[U \ {x}]
    <3>1. U \in SUBSET S2 /\ x \in U
      BY <2>2, <2>3
    <3>2. IsTotal(it2, f2, S2)
      BY <1>2
    <3> HIDE DEF Image
    <3> QED BY <3>1, <3>2, TotalTakes
  <2>7. f2[x] \in Nat /\ it2[U \ {x}] \in Nat /\ it2[Image(S)] \in Nat
    <3> HIDE DEF Image
    <3> QED BY <1>3, <1>4, <2>2, <2>3, <2>4
  <2> HIDE DEF Image
  <2> QED BY <2>2, <2>5, <2>6, <2>7
<1>9. Low(S2)
  <2> HIDE DEF Low, Image
  <2> QED BY <1>7, <1>8, <1>4
<1>10. it[S] \in Nat /\ it2[S2] \in Nat /\ it2[Image(S)] \in Nat
  <2> HIDE DEF Image
  <2> QED BY <1>3, <1>4
<1> HIDE DEF Image
<1> QED BY <1>1, <1>2, <1>6, <1>9, <1>10

\* A sum of natural numbers is one.
LEMMA SumNat ==
  ASSUME NEW S, IsFiniteSet(S), NEW f \in [S -> Nat]
  PROVE  SumFunction(f) \in Nat
<1>1. PICK it : IsTotal(it, f, S) /\ SumFunction(f) = it[S]
  BY TotalIs
<1> QED BY <1>1 DEF IsTotal

\* The image of a finite set is finite, and no larger.
LEMMA ImageIsFinite ==
  ASSUME NEW S, IsFiniteSet(S), NEW f
  PROVE  IsFiniteSet({f[x] : x \in S}) /\ Cardinality({f[x] : x \in S}) <= Cardinality(S)
<1> DEFINE T == {f[x] : x \in S}
           g == [x \in S |-> f[x]]
<1>1. g \in Surjection(S, T)
  BY DEF Surjection
<1> HIDE DEF T, g
<1>2. IsFiniteSet(T) /\ Cardinality(T) <= Cardinality(S)
  BY <1>1, FS_Surjection
<1> QED BY <1>2 DEF T

-----------------------------------------------------------------------------
(* Orders, filters and sequences of sequences.                             *)

\* In a finite set with a strict total order R, how many stand ahead of a member is its place.
Ahead(i, K, R) == {j \in K : <<j, i>> \in R}
IsOrder(K, R) ==
  /\ \A i \in K : <<i, i>> \notin R
  /\ \A i, j, k \in K : <<i, j>> \in R /\ <<j, k>> \in R => <<i, k>> \in R
  /\ \A i, j \in K : i = j \/ <<i, j>> \in R \/ <<j, i>> \in R

\* The places are 0, 1, 2 ... without a gap, and grow along the order.
LEMMA Places ==
  ASSUME NEW K, IsFiniteSet(K), NEW R, IsOrder(K, R)
  PROVE  /\ \A i \in K : Cardinality(Ahead(i, K, R)) \in 0..(Cardinality(K) - 1)
         /\ \A i, k \in K : <<i, k>> \in R => Cardinality(Ahead(i, K, R)) < Cardinality(Ahead(k, K, R))
         /\ \A n \in 0..(Cardinality(K) - 1) : \E i \in K : Cardinality(Ahead(i, K, R)) = n
<1> DEFINE A(i) == Ahead(i, K, R)
           c == Cardinality(K)
<1>0. c \in Nat /\ \A i \in K : IsFiniteSet(A(i)) /\ Cardinality(A(i)) \in Nat
  BY FS_Subset, FS_CardinalityType DEF Ahead
<1>1. ASSUME NEW i \in K PROVE Cardinality(A(i)) \in 0..(c - 1)
  <2>1. A(i) \in SUBSET (K \ {i})
    BY DEF Ahead, IsOrder
  <2>2. IsFiniteSet(K \ {i}) /\ Cardinality(K \ {i}) = c - 1
    BY FS_RemoveElement
  <2>3. Cardinality(A(i)) <= c - 1
    <3> HIDE DEF A, c
    <3> QED BY <2>1, <2>2, FS_Subset
  <2> HIDE DEF A, c
  <2> QED BY <1>0, <2>3
<1>2. ASSUME NEW i \in K, NEW k \in K, <<i, k>> \in R PROVE Cardinality(A(i)) < Cardinality(A(k))
  <2>1. A(i) \in SUBSET (A(k) \ {i}) /\ i \in A(k)
    BY <1>2 DEF Ahead, IsOrder
  <2>2. IsFiniteSet(A(k) \ {i}) /\ Cardinality(A(k) \ {i}) = Cardinality(A(k)) - 1
    <3> HIDE DEF A
    <3> QED BY <1>0, <2>1, FS_RemoveElement
  <2> HIDE DEF A, c
  <2>3. Cardinality(A(i)) <= Cardinality(A(k)) - 1
    BY <2>1, <2>2, FS_Subset
  <2> QED BY <1>0, <2>3
<1>3. ASSUME NEW n \in 0..(c - 1) PROVE \E i \in K : Cardinality(A(i)) = n
  <2> DEFINE f == [i \in K |-> Cardinality(A(i))]
             T == 0..(c - 1)
  <2> HIDE DEF A, c
  <2>1. f \in [K -> T]
    BY <1>1
  <2>2. ASSUME NEW i \in K, NEW k \in K, f[i] = f[k] PROVE i = k
    <3>1. <<i, k>> \notin R /\ <<k, i>> \notin R
      BY <1>0, <1>2, <2>2
    <3> QED BY <3>1 DEF IsOrder
  <2>3. f \in Injection(K, T)
    BY <2>1, <2>2 DEF Injection, IsInjective
  <2>4. IsFiniteSet(T) /\ Cardinality(T) = c
    <3>1. c - 1 \in Int /\ 0 \in Int
      BY <1>0
    <3>2. IsFiniteSet(T) /\ Cardinality(T) = IF 0 > c - 1 THEN 0 ELSE (c - 1) - 0 + 1
      BY <3>1, FS_Interval
    <3> QED BY <1>0, <3>2
  <2>5. f \in Surjection(K, T)
    <3> HIDE DEF f, T
    <3> QED BY <2>3, <2>4, FS_Injection DEF c
  <2>6. PICK i \in K : f[i] = n
    BY <2>5 DEF Surjection
  <2> QED BY <2>6
<1> QED BY <1>1, <1>2, <1>3

\* What FilterDiff leaves is in the order it was.
Embeds(e, out, sections) ==
  /\ e \in [DOMAIN out -> DOMAIN sections]
  /\ \A m, n \in DOMAIN out : m < n => e[m] < e[n]
  /\ \A n \in DOMAIN out : out[n] = sections[e[n]]

\* The filtered sections are some of the sections, in order (FilterDiff).
LEMMA FilterEmbeds ==
  ASSUME NEW E, NEW sections \in Seq(E), NEW patterns
  PROVE  /\ FilterDiff(sections, patterns) \in Seq(E)
         /\ \E e : Embeds(e, FilterDiff(sections, patterns), sections)
<1> DEFINE K == {i \in DOMAIN sections : sections[i].path \notin patterns}
           R == {p \in K \X K : p[1] < p[2]}
           c == Cardinality(K)
           out == [n \in 1..c |-> sections[CHOOSE i \in K : Cardinality({j \in K : j < i}) = n - 1]]
           e == [n \in 1..c |-> CHOOSE i \in K : Cardinality({j \in K : j < i}) = n - 1]
<1>1. Len(sections) \in Nat /\ DOMAIN sections = 1..Len(sections)
      /\ \A i \in K : i \in Nat /\ i \in DOMAIN sections
  OBVIOUS
<1>2. IsFiniteSet(K) /\ c \in Nat
  <2>1. IsFiniteSet(1..Len(sections))
    BY <1>1, FS_Interval
  <2> QED BY <1>1, <2>1, FS_Subset, FS_CardinalityType
<1>3. IsOrder(K, R)
  <2>1. \A i, j \in K : <<i, j>> \in R <=> i < j
    OBVIOUS
  <2> HIDE DEF K, R
  <2> QED BY <1>1, <2>1 DEF IsOrder
<1>4. ASSUME NEW i \in K PROVE Ahead(i, K, R) = {j \in K : j < i}
  BY DEF Ahead
<1> DEFINE A == [i \in K |-> Cardinality({j \in K : j < i})]
<1>5. /\ \A n \in 0..(c - 1) : \E i \in K : A[i] = n
      /\ \A i, k \in K : i < k => A[i] < A[k]
      /\ \A i \in K : A[i] \in Nat
  <2>1. \A i, j \in K : <<i, j>> \in R <=> i < j
    OBVIOUS
  <2>2. \A i \in K : A[i] = Cardinality(Ahead(i, K, R))
    BY <1>4
  <2> HIDE DEF K, R, A
  <2>3. /\ \A i \in K : A[i] \in 0..(c - 1)
        /\ \A i, k \in K : <<i, k>> \in R => A[i] < A[k]
        /\ \A n \in 0..(c - 1) : \E i \in K : A[i] = n
    BY <1>2, <1>3, <2>2, Places
  <2>4. \A i, k \in K : i < k => A[i] < A[k]
    BY <2>1, <2>3
  <2> HIDE DEF c
  <2>5. \A i \in K : A[i] \in Nat
    BY <1>2, <2>3
  <2>6. \A n \in 0..(c - 1) : \E i \in K : A[i] = n
    BY <2>3
  <2> QED BY <2>4, <2>5, <2>6
<1>6. ASSUME NEW n \in 1..c PROVE e[n] \in K /\ A[e[n]] = n - 1
  <2>1. n - 1 \in 0..(c - 1)
    BY <1>2
  <2>2. PICK i \in K : A[i] = n - 1
    <3> HIDE DEF K, A
    <3> QED BY <1>5, <2>1
  <2>3. \A k \in K : A[k] = Cardinality({j \in K : j < k})
    OBVIOUS
  <2>4. Cardinality({j \in K : j < i}) = n - 1
    BY <2>2, <2>3
  <2> HIDE DEF K
  <2>5. e[n] \in K /\ Cardinality({j \in K : j < e[n]}) = n - 1
    BY <2>4
  <2> QED BY <2>3, <2>5
<1> HIDE DEF K, e, A
<1>7. e \in [1..c -> DOMAIN sections]
  BY <1>1, <1>6 DEF e
<1>8. ASSUME NEW m \in 1..c, NEW n \in 1..c, m < n PROVE e[m] < e[n]
  <2>1. ~(e[n] < e[m]) /\ e[m] # e[n]
    <3>1. A[e[m]] < A[e[n]] /\ A[e[m]] \in Nat /\ A[e[n]] \in Nat
      BY <1>2, <1>5, <1>6, <1>8
    <3> QED BY <1>5, <1>6, <3>1
  <2>2. e[m] \in Nat /\ e[n] \in Nat
    BY <1>1, <1>6
  <2> QED BY <2>1, <2>2
<1>9. \A n \in 1..c : out[n] = sections[e[n]]
  BY DEF e
<1>10. out = FilterDiff(sections, patterns)
  BY DEF FilterDiff, K
<1>11. out \in Seq(E)
  <2>1. \A n \in 1..c : sections[e[n]] \in E
    BY <1>1, <1>7
  <2>2. out \in [1..c -> E]
    BY <1>9, <2>1
  <2> HIDE DEF out
  <2> QED BY <1>2, <2>2, SeqDef
<1>12. DOMAIN out = 1..c
  OBVIOUS
<1> HIDE DEF out
<1>13. Embeds(e, out, sections)
  BY <1>7, <1>8, <1>9, <1>12 DEF Embeds
<1> QED BY <1>10, <1>11, <1>13

\* A sequence of sequences in a row: where each of them begins.
IsLayout(off, seqs, flat) ==
  /\ off \in [DOMAIN seqs -> Nat]
  /\ \A i \in DOMAIN seqs : \A j \in DOMAIN seqs[i] : off[i] + j \in DOMAIN flat /\ flat[off[i] + j] = seqs[i][j]
  /\ \A k \in DOMAIN flat : \E i \in DOMAIN seqs : \E j \in DOMAIN seqs[i] : k = off[i] + j
  /\ \A i, l \in DOMAIN seqs : i < l => off[i] + Len(seqs[i]) <= off[l]

\* FlattenSeq lays the sequences out one after the other.
LEMMA Layout ==
  ASSUME NEW E, NEW seqs \in Seq(Seq(E))
  PROVE  FlattenSeq(seqs) \in Seq(E) /\ \E off : IsLayout(off, seqs, FlattenSeq(seqs))
<1> DEFINE n == Len(seqs)
           V == Seq(E)
           g == [p \in V \X (1..n) |-> p[1] \o seqs[p[2]]]
           Step(f) == [i \in 1..n |-> IF i = 1 THEN seqs[i] ELSE f[i - 1] \o seqs[i]]
<1>1. n \in Nat /\ DOMAIN seqs = 1..n /\ \A i \in 1..n : seqs[i] \in Seq(E)
  OBVIOUS
<1>2. PICK h : IsRec(h, n, V, <<>>, g)
  <2>1. <<>> \in V
    OBVIOUS
  <2>2. g \in [V \X (1..n) -> V]
    <3>1. \A a, b \in Seq(E) : a \o b \in Seq(E)
      BY ConcatProperties
    <3> QED BY <1>1, <3>1
  <2> HIDE DEF g, V, n
  <2> QED BY <1>1, <2>1, <2>2, RecExists
<1>3. h \in [0..n -> Seq(E)] /\ h[0] = <<>>
  <2> HIDE DEF g
  <2>1. 0 \in 0..n
    BY <1>1
  <2>2. h \in [0..n -> V] /\ \A d \in 0..n : h[d] = IF d = 0 THEN <<>> ELSE g[<<h[d - 1], d>>]
    BY <1>2 DEF IsRec
  <2> QED BY <2>1, <2>2
<1>4. ASSUME NEW d \in 1..n PROVE h[d - 1] \in Seq(E) /\ h[d] = h[d - 1] \o seqs[d]
  <2>1. d \in 0..n /\ d # 0 /\ d - 1 \in 0..n
    BY <1>1
  <2>2. h[d] = g[<<h[d - 1], d>>]
    BY <1>2, <2>1 DEF IsRec
  <2>3. <<h[d - 1], d>> \in V \X (1..n)
    BY <1>3, <2>1
  <2>4. g[<<h[d - 1], d>>] = h[d - 1] \o seqs[d]
    BY <2>3
  <2> QED BY <1>3, <2>1, <2>2, <2>4
<1>5. \A d \in 1..n : /\ Len(h[d]) = Len(h[d - 1]) + Len(seqs[d]) /\ Len(h[d - 1]) \in Nat
                      /\ Len(h[d]) \in Nat /\ Len(seqs[d]) \in Nat
                      /\ \A k \in 1..Len(h[d - 1]) : h[d][k] = h[d - 1][k]
                      /\ \A j \in 1..Len(seqs[d]) : h[d][Len(h[d - 1]) + j] = seqs[d][j]
  <2> TAKE d \in 1..n
  <2>1. h[d] \in Seq(E) /\ h[d - 1] \in Seq(E) /\ seqs[d] \in Seq(E)
    <3>1. d \in 0..n
      BY <1>1
    <3> QED BY <1>1, <1>3, <1>4, <3>1
  <2>2. h[d] = h[d - 1] \o seqs[d]
    BY <1>4
  <2>3. /\ Len(h[d]) = Len(h[d - 1]) + Len(seqs[d])
        /\ \A k \in 1..(Len(h[d - 1]) + Len(seqs[d])) :
             h[d][k] = IF k <= Len(h[d - 1]) THEN h[d - 1][k] ELSE seqs[d][k - Len(h[d - 1])]
    <3>1. \A s1, s2 \in Seq(E) :
            /\ Len(s1 \o s2) = Len(s1) + Len(s2)
            /\ \A k \in 1..(Len(s1) + Len(s2)) :
                 (s1 \o s2)[k] = IF k <= Len(s1) THEN s1[k] ELSE s2[k - Len(s1)]
      BY ConcatProperties
    <3>2. /\ Len(h[d - 1] \o seqs[d]) = Len(h[d - 1]) + Len(seqs[d])
          /\ \A k \in 1..(Len(h[d - 1]) + Len(seqs[d])) :
               (h[d - 1] \o seqs[d])[k] =
                 IF k <= Len(h[d - 1]) THEN h[d - 1][k] ELSE seqs[d][k - Len(h[d - 1])]
      BY <2>1, <3>1
    <3> QED BY <2>2, <3>2
  <2>4. Len(h[d]) \in Nat /\ Len(h[d - 1]) \in Nat /\ Len(seqs[d]) \in Nat
    BY <2>1
  <2> DEFINE a == Len(h[d - 1])
             b == Len(seqs[d])
             c == h[d]
  <2>5. /\ Len(c) = a + b /\ Len(c) \in Nat /\ a \in Nat /\ b \in Nat
        /\ \A k \in 1..(a + b) : c[k] = IF k <= a THEN h[d - 1][k] ELSE seqs[d][k - a]
    BY <2>3, <2>4
  <2> HIDE DEF a, b, c
  <2>6. \A k \in 1..a : c[k] = h[d - 1][k]
    BY <2>5
  <2>7. \A j \in 1..b : c[a + j] = seqs[d][j]
    <3> TAKE j \in 1..b
    <3>1. a + j \in 1..(a + b) /\ ~(a + j <= a) /\ (a + j) - a = j
      BY <2>5
    <3> QED BY <2>5, <3>1
  <2> QED BY <2>5, <2>6, <2>7 DEF a, b, c
<1> HIDE DEF g, V
\* The flattening is the last of them.
<1>6. FlattenSeq(seqs) = h[n]
  <2>1. CASE n = 0
    <3>1. FlattenSeq(seqs) = seqs /\ seqs = <<>>
      BY <2>1 DEF FlattenSeq
    <3> QED BY <3>1, <2>1, <1>3
  <2>2. CASE n # 0
    <3> DEFINE F == CHOOSE f : f = Step(f)
               hh == [i \in 1..n |-> h[i]]
               bad == {i \in 1..n : F[i] # h[i]}
    <3>1. hh = Step(hh)
      <4>1. ASSUME NEW i \in 1..n PROVE hh[i] = IF i = 1 THEN seqs[i] ELSE hh[i - 1] \o seqs[i]
        <5>1. CASE i = 1
          <6>1. h[i] = <<>> \o seqs[i] /\ seqs[i] \in Seq(E)
            <7>1. i - 1 = 0
              BY <5>1
            <7> QED BY <1>1, <1>3, <1>4, <7>1
          <6>2. <<>> \o seqs[i] = seqs[i]
            BY <6>1, ConcatEmptySeq
          <6> QED BY <5>1, <6>1, <6>2
        <5>2. CASE i # 1
          <6>1. i - 1 \in 1..n
            BY <1>1, <5>2
          <6> QED BY <1>4, <5>2, <6>1
        <5> QED BY <5>1, <5>2
      <4> QED BY <4>1
    <3>2. F = Step(F)
      <4> HIDE DEF Step, hh
      <4> QED BY <3>1
    <3> HIDE DEF F
    <3>3. \A i \in 1..n : F[i] = IF i = 1 THEN seqs[i] ELSE F[i - 1] \o seqs[i]
      BY <3>2
    <3>4. \A i \in 1..n : h[i] = IF i = 1 THEN seqs[i] ELSE h[i - 1] \o seqs[i]
      <4>1. \A i \in 1..n : hh[i] = h[i] /\ (i # 1 => hh[i - 1] = h[i - 1])
        BY <1>1
      <4>2. \A i \in 1..n : hh[i] = IF i = 1 THEN seqs[i] ELSE hh[i - 1] \o seqs[i]
        <5> HIDE DEF hh
        <5> QED BY <3>1
      <4> HIDE DEF hh
      <4> QED BY <4>1, <4>2
    <3>5. bad = {}
      <4> SUFFICES ASSUME bad # {} PROVE FALSE
        OBVIOUS
      <4>1. bad \in SUBSET Nat
        BY <1>1
      <4>2. PICK m \in bad : \A k \in bad : m <= k
        <5> HIDE DEF bad
        <5> QED BY <4>1, Least
      <4>3. m \in 1..n /\ F[m] # h[m]
        BY <4>2
      <4>4. m # 1
        BY <3>3, <3>4, <4>3
      <4>5. m - 1 \in 1..n /\ m - 1 \notin bad
        BY <1>1, <4>2, <4>3, <4>4
      <4>6. F[m - 1] = h[m - 1]
        BY <4>5
      <4> QED BY <3>3, <3>4, <4>3, <4>4, <4>6
    <3>6. F[n] = h[n]
      BY <1>1, <2>2, <3>5
    <3>7. FlattenSeq(seqs) = F[n]
      BY <2>2 DEF FlattenSeq, F, Step
    <3> QED BY <3>6, <3>7
  <2> QED BY <2>1, <2>2
<1> HIDE DEF n
<1>7. ASSUME NEW d \in 0..n, NEW m \in 0..n, d <= m
      PROVE  /\ Len(h[d]) <= Len(h[m])
             /\ \A k \in 1..Len(h[d]) : h[m][k] = h[d][k]
  <2> DEFINE Holds(i) == Len(h[d]) <= Len(h[i]) /\ \A k \in 1..Len(h[d]) : h[i][k] = h[d][k]
             bad == {i \in d..n : ~Holds(i)}
  <2>1. \A i \in 0..n : Len(h[i]) \in Nat
    BY <1>3
  <2>2. bad = {}
    <3> SUFFICES ASSUME bad # {} PROVE FALSE
      OBVIOUS
    <3>1. bad \in SUBSET Nat
      <4> HIDE DEF Holds
      <4> QED BY <1>1
    <3>2. PICK i \in bad : \A k \in bad : i <= k
      <4> HIDE DEF bad
      <4> QED BY <3>1, Least
    <3>3. i \in d..n /\ ~Holds(i)
      BY <3>2
    <3>4. i # d
      BY <2>1, <3>3
    <3>5. i - 1 \in d..n /\ i \in 1..n /\ Holds(i - 1) /\ i - 1 \in 0..n
      <4>1. i - 1 \in d..n /\ i \in 1..n /\ i - 1 \notin bad
        <5> HIDE DEF Holds
        <5> QED BY <1>1, <3>2, <3>3, <3>4
      <4> QED BY <4>1, <1>1
    <3>6. Len(h[i]) = Len(h[i - 1]) + Len(seqs[i]) /\ Len(seqs[i]) \in Nat
          /\ \A k \in 1..Len(h[i - 1]) : h[i][k] = h[i - 1][k]
      BY <1>5, <3>5
    <3>7. Len(h[d]) \in Nat /\ Len(h[i - 1]) \in Nat
      BY <2>1, <3>5
    <3> DEFINE a == Len(h[d])
               b == Len(h[i - 1])
               c == Len(h[i])
               e == h[i]
               f == h[i - 1]
    <3>8. /\ a \in Nat /\ b \in Nat /\ a <= b /\ c = b + Len(seqs[i])
          /\ (\A k \in 1..a : f[k] = h[d][k]) /\ (\A k \in 1..b : e[k] = f[k])
          /\ ~(a <= c /\ \A k \in 1..a : e[k] = h[d][k])
      BY <3>3, <3>5, <3>6, <3>7
    <3> HIDE DEF a, b, c, e, f
    <3> QED BY <3>6, <3>8
  <2>3. m \in d..n
    BY <1>1, <1>7
  <2> QED BY <2>2, <2>3
<1> DEFINE off == [i \in 1..n |-> Len(h[i - 1])]
<1>8. off \in [1..n -> Nat]
  BY <1>5
<1>9. ASSUME NEW i \in 1..n, NEW j \in 1..Len(seqs[i])
      PROVE  off[i] + j \in 1..Len(h[n]) /\ h[n][off[i] + j] = seqs[i][j]
  <2>1. i \in 0..n /\ n \in 0..n /\ i <= n
    BY <1>1
  <2>2. Len(h[i]) <= Len(h[n]) /\ Len(h[n]) \in Nat /\ \A k \in 1..Len(h[i]) : h[n][k] = h[i][k]
    BY <1>3, <1>7, <2>1
  <2>3. off[i] = Len(h[i - 1])
    OBVIOUS
  <2>4. off[i] \in Nat /\ Len(h[i]) = off[i] + Len(seqs[i]) /\ Len(seqs[i]) \in Nat
        /\ h[i][off[i] + j] = seqs[i][j]
    BY <1>5, <2>3
  <2> HIDE DEF off
  <2>5. off[i] + j \in 1..Len(h[i])
    <3> DEFINE a == off[i]
               b == Len(seqs[i])
    <3>1. a \in Nat /\ b \in Nat /\ j \in 1..b /\ Len(h[i]) = a + b
      BY <2>4
    <3> HIDE DEF a, b
    <3>2. a + j \in 1..(a + b)
      BY <3>1
    <3> QED BY <3>1, <3>2 DEF a
  <2> DEFINE p == off[i] + j
  <2>6. p \in 1..Len(h[i]) /\ h[i][p] = seqs[i][j] /\ Len(h[i]) \in Nat
    BY <2>4, <2>5, <2>1, <1>3
  <2> HIDE DEF p
  <2> DEFINE a == Len(h[i])
             b == Len(h[n])
             e == h[n]
             f == h[i]
  <2>7. p \in 1..b /\ e[p] = seqs[i][j]
    <3>1. a \in Nat /\ b \in Nat /\ a <= b /\ p \in 1..a /\ f[p] = seqs[i][j] /\ \A k \in 1..a : e[k] = f[k]
      BY <2>2, <2>6
    <3> HIDE DEF a, b, e, f
    <3> QED BY <3>1
  <2> QED BY <2>7 DEF p
<1>10. ASSUME NEW k \in 1..Len(h[n]) PROVE \E i \in 1..n : \E j \in 1..Len(seqs[i]) : k = off[i] + j
  <2> DEFINE long == {d \in 0..n : k <= Len(h[d])}
  <2>1. n \in long /\ long \in SUBSET Nat
    BY <1>1, <1>3
  <2>2. PICK m \in long : \A d \in long : m <= d
    <3> HIDE DEF long
    <3> QED BY <2>1, Least
  <2>3. m # 0
    BY <1>1, <1>3, <2>2
  <2>4. m \in 1..n /\ m - 1 \notin long /\ m - 1 \in 0..n
    BY <1>1, <2>2, <2>3
  <2>5. Len(h[m - 1]) < k /\ k <= Len(h[m])
    BY <1>3, <2>2, <2>4
  <2>6. k - off[m] \in 1..Len(seqs[m])
    <3>1. off[m] = Len(h[m - 1])
      BY <2>4
    <3>2. Len(h[m]) = Len(h[m - 1]) + Len(seqs[m]) /\ Len(h[m - 1]) \in Nat /\ Len(seqs[m]) \in Nat
      BY <1>5, <2>4
    <3> DEFINE a == Len(h[m - 1])
               b == Len(seqs[m])
    <3>3. a \in Nat /\ b \in Nat /\ a < k /\ k <= a + b /\ k \in Nat
      <4>1. n \in 0..n
        BY <1>1
      <4>2. Len(h[n]) \in Nat
        BY <1>3, <4>1
      <4>3. k \in Nat
        BY <4>2
      <4> QED BY <2>5, <3>2, <4>3
    <3> HIDE DEF a, b
    <3>4. k - a \in 1..b
      BY <3>3
    <3> QED BY <3>1, <3>4 DEF a, b
  <2>7. k = off[m] + (k - off[m])
    BY <1>8, <2>4
  <2> HIDE DEF off
  <2> QED BY <2>4, <2>6, <2>7
<1>11. ASSUME NEW i \in 1..n, NEW l \in 1..n, i < l PROVE off[i] + Len(seqs[i]) <= off[l]
  <2>1. i \in 0..n /\ l - 1 \in 0..n /\ i <= l - 1
    BY <1>1, <1>11
  <2>2. Len(h[i]) <= Len(h[l - 1])
    BY <1>7, <2>1
  <2>3. Len(h[i]) = off[i] + Len(seqs[i])
    BY <1>5
  <2> QED BY <2>2, <2>3
<1>12. h[n] \in Seq(E) /\ DOMAIN h[n] = 1..Len(h[n]) /\ \A i \in 1..n : DOMAIN seqs[i] = 1..Len(seqs[i])
  BY <1>1, <1>3
<1> HIDE DEF off
<1>13. IsLayout(off, seqs, h[n])
  <2> DEFINE flat == h[n]
  <2>1. DOMAIN flat = 1..Len(h[n])
    BY <1>12
  <2>2. \A i \in 1..n : \A j \in DOMAIN seqs[i] : off[i] + j \in DOMAIN flat /\ flat[off[i] + j] = seqs[i][j]
    BY <1>9, <1>12, <2>1
  <2>3. \A k \in DOMAIN flat : \E i \in 1..n : \E j \in DOMAIN seqs[i] : k = off[i] + j
    BY <1>10, <1>12, <2>1
  <2> HIDE DEF flat
  <2>4. DOMAIN seqs = 1..n /\ off \in [1..n -> Nat]
    BY <1>1, <1>8
  <2>5. \A i, l \in 1..n : i < l => off[i] + Len(seqs[i]) <= off[l]
    BY <1>11
  <2> HIDE DEF n
  <2>6. IsLayout(off, seqs, flat)
    BY <2>2, <2>3, <2>4, <2>5, Zenon DEF IsLayout
  <2> QED BY <2>6 DEF flat
<1> QED BY <1>6, <1>12, <1>13

-----------------------------------------------------------------------------
(* The diff and its hunks.                                                 *)

\* A count git leaves out is read as the one line it stands for.
LEMMA CountIsRead == \A lines : atoiDefault(Count(lines)) = lines
<1> TAKE lines
<1>1. CASE lines = 1
  BY <1>1 DEF atoiDefault, Count
<1>2. CASE lines # 1
  <2>1. Count(lines) = <<lines>> /\ <<lines>> # <<>>
    BY <1>2 DEF Count
  <2> QED BY <2>1 DEF atoiDefault
<1> QED BY <1>1, <1>2

\* A diff without the sections that are ignored is a diff.
LEMMA FilteredIsDiff ==
  ASSUME NEW sections, IsDiff(sections), NEW patterns
  PROVE  IsDiff(FilterDiff(sections, patterns))
<1> DEFINE out == FilterDiff(sections, patterns)
<1>1. sections \in Seq(Range(sections))
  BY DEF IsDiff
<1>2. out \in Seq(Range(sections)) /\ \E e : Embeds(e, out, sections)
  BY <1>1, FilterEmbeds
<1>3. PICK e : Embeds(e, out, sections)
  BY <1>2
<1> HIDE DEF out
<1>4. out \in Seq(Range(out))
  BY <1>2, SeqOfRange
<1>5. \A n \in DOMAIN out : e[n] \in DOMAIN sections /\ out[n] = sections[e[n]]
  BY <1>3 DEF Embeds
<1>6. \A i, k \in DOMAIN out : i < k => e[i] < e[k]
  BY <1>3 DEF Embeds
<1>7. \A i \in DOMAIN out :
        /\ out[i].hunks \in Seq(Range(out[i].hunks))
        /\ \A j \in DOMAIN out[i].hunks : IsHunk(out[i].hunks[j])
        /\ IsFiniteSet(Roles[out[i].path])
  BY <1>5 DEF IsDiff
<1>8. ASSUME NEW i \in DOMAIN out, NEW k \in DOMAIN out,
             NEW j \in DOMAIN out[i].hunks, NEW l \in DOMAIN out[k].hunks,
             ~out[i].binary, ~out[k].binary, out[i].path = out[k].path,
             i < k \/ (i = k /\ j < l)
      PROVE  /\ out[i].hunks[j].first < out[k].hunks[l].first
             /\ out[i].hunks[j].first + out[i].hunks[j].lines <= out[k].hunks[l].first
  <2>1. e[i] < e[k] \/ (e[i] = e[k] /\ j < l)
    BY <1>6, <1>8
  <2>2. e[i] \in DOMAIN sections /\ e[k] \in DOMAIN sections
        /\ out[i] = sections[e[i]] /\ out[k] = sections[e[k]]
    BY <1>5
  <2> QED BY <1>8, <2>1, <2>2 DEF IsDiff
<1>9. IsDiff(out)
  BY <1>4, <1>7, <1>8 DEF IsDiff
<1> QED BY <1>9 DEF out

\* Where the hunks of a diff are after parsing.
HunkOf(section, j) ==
  [file |-> section.path, first |-> section.hunks[j].first, lines |-> section.hunks[j].lines,
   body |-> section.hunks[j].body]
IsParse(off, sections, hunks) ==
  /\ off \in [DOMAIN sections -> Nat]
  /\ \A i \in DOMAIN sections : ~sections[i].binary =>
       \A j \in DOMAIN sections[i].hunks :
         off[i] + j \in DOMAIN hunks /\ hunks[off[i] + j] = HunkOf(sections[i], j)
  /\ \A k \in DOMAIN hunks : \E i \in DOMAIN sections :
       ~sections[i].binary /\ \E j \in DOMAIN sections[i].hunks : k = off[i] + j
  /\ \A i, l \in DOMAIN sections : \A j \in DOMAIN sections[i].hunks, m \in DOMAIN sections[l].hunks :
       i < l /\ ~sections[i].binary /\ ~sections[l].binary => off[i] + j < off[l] + m

\* Parse lays out the hunks of the text files, in order (diffparse.Parse).
LEMMA ParseIs ==
  ASSUME NEW sections, IsDiff(sections)
  PROVE  /\ Parse(sections) \in Seq(Range(Parse(sections)))
         /\ \E off : IsParse(off, sections, Parse(sections))
<1> DEFINE n == Len(sections)
           seqs == [i \in DOMAIN sections |->
                     IF sections[i].binary THEN <<>>
                     ELSE [j \in DOMAIN sections[i].hunks |-> HunkOf(sections[i], j)]]
           E == UNION {Range(seqs[i]) : i \in DOMAIN sections}
           flat == FlattenSeq(seqs)
<1>1. n \in Nat /\ DOMAIN sections = 1..n
  BY DEF IsDiff
<1>2. ASSUME NEW i \in DOMAIN sections
      PROVE  /\ Len(sections[i].hunks) \in Nat /\ DOMAIN sections[i].hunks = 1..Len(sections[i].hunks)
  <2> DEFINE hs == sections[i].hunks
  <2>1. hs \in Seq(Range(hs))
    BY DEF IsDiff
  <2> HIDE DEF hs
  <2>2. Len(hs) \in Nat /\ DOMAIN hs = 1..Len(hs)
    BY <2>1
  <2> QED BY <2>2 DEF hs
<1>3. Parse(sections) = flat
  <2>1. \A i \in DOMAIN sections : \A j \in DOMAIN sections[i].hunks :
          atoiDefault(Count(sections[i].hunks[j].lines)) = sections[i].hunks[j].lines
    BY CountIsRead
  <2> QED BY <2>1 DEF Parse, HunkOf
<1>4. ASSUME NEW i \in DOMAIN sections PROVE seqs[i] \in Seq(E)
  <2>1. \A j \in DOMAIN seqs[i] : seqs[i][j] \in Range(seqs[i])
    BY DEF Range
  <2>2. Range(seqs[i]) \subseteq E
    OBVIOUS
  <2>3. CASE sections[i].binary
    <3>1. seqs[i] = <<>>
      BY <2>3
    <3> HIDE DEF E, seqs
    <3> QED BY <3>1
  <2>4. CASE ~sections[i].binary
    <3>1. seqs[i] = [j \in 1..Len(sections[i].hunks) |-> HunkOf(sections[i], j)]
      BY <1>2, <2>4
    <3>2. \A j \in 1..Len(sections[i].hunks) : HunkOf(sections[i], j) \in E
      <4> HIDE DEF E, seqs
      <4>1. DOMAIN seqs[i] = 1..Len(sections[i].hunks)
            /\ \A j \in 1..Len(sections[i].hunks) : seqs[i][j] = HunkOf(sections[i], j)
        BY <3>1
      <4> QED BY <2>1, <2>2, <4>1
    <3> HIDE DEF E, seqs
    <3>3. seqs[i] \in [1..Len(sections[i].hunks) -> E]
      BY <3>1, <3>2
    <3> QED BY <1>2, <3>3, SeqDef
  <2> QED BY <2>3, <2>4
<1>5. seqs \in Seq(Seq(E))
  <2>1. seqs \in [1..n -> Seq(E)]
    <3>1. DOMAIN seqs = 1..n /\ seqs = [i \in DOMAIN seqs |-> seqs[i]]
      BY <1>1
    <3> HIDE DEF E, seqs
    <3> QED BY <1>1, <1>4, <3>1
  <2> HIDE DEF E, seqs
  <2> QED BY <1>1, <2>1, SeqDef
<1>6. \A i \in DOMAIN sections :
        /\ DOMAIN seqs[i] = IF sections[i].binary THEN {} ELSE DOMAIN sections[i].hunks
        /\ ~sections[i].binary => \A j \in DOMAIN sections[i].hunks : seqs[i][j] = HunkOf(sections[i], j)
  OBVIOUS
<1>7. DOMAIN seqs = DOMAIN sections
  OBVIOUS
<1> HIDE DEF E, seqs, n
<1>8. flat \in Seq(E) /\ \E off : IsLayout(off, seqs, flat)
  BY <1>5, Layout
<1>9. PICK off : IsLayout(off, seqs, flat)
  BY <1>8
<1> HIDE DEF flat
<1>10. flat \in Seq(Range(flat))
  BY <1>8, SeqOfRange
<1>11. IsParse(off, sections, flat)
  <2>1. off \in [DOMAIN sections -> Nat]
    BY <1>7, <1>9 DEF IsLayout
  <2>2. ASSUME NEW i \in DOMAIN sections, ~sections[i].binary, NEW j \in DOMAIN sections[i].hunks
        PROVE  off[i] + j \in DOMAIN flat /\ flat[off[i] + j] = HunkOf(sections[i], j)
    BY <1>6, <1>7, <1>9, <2>2 DEF IsLayout
  <2>3. ASSUME NEW k \in DOMAIN flat
        PROVE  \E i \in DOMAIN sections :
                 ~sections[i].binary /\ \E j \in DOMAIN sections[i].hunks : k = off[i] + j
    <3>1. PICK i \in DOMAIN seqs : \E j \in DOMAIN seqs[i] : k = off[i] + j
      BY <1>9 DEF IsLayout
    <3> QED BY <1>6, <1>7, <3>1
  <2>4. ASSUME NEW i \in DOMAIN sections, NEW l \in DOMAIN sections,
               NEW j \in DOMAIN sections[i].hunks, NEW m \in DOMAIN sections[l].hunks,
               i < l, ~sections[i].binary, ~sections[l].binary
        PROVE  off[i] + j < off[l] + m
    <3>1. off[i] + Len(seqs[i]) <= off[l]
      BY <1>7, <1>9, <2>4 DEF IsLayout
    <3>2. DOMAIN seqs[i] = 1..Len(sections[i].hunks) /\ seqs[i] \in Seq(E)
      BY <1>2, <1>4, <1>6, <2>4
    <3>3. Len(seqs[i]) = Len(sections[i].hunks)
      <4> DEFINE a == Len(seqs[i])
                 b == Len(sections[i].hunks)
      <4>1. a \in Nat /\ b \in Nat /\ 1..a = 1..b
        BY <1>2, <3>2
      <4> HIDE DEF a, b
      <4>2. (a # 0 => a \in 1..b) /\ (b # 0 => b \in 1..a)
        BY <4>1
      <4>3. a = b
        BY <4>1, <4>2
      <4> QED BY <4>3 DEF a, b
    <3>4. j \in Nat /\ m \in Nat /\ m >= 1 /\ j <= Len(sections[i].hunks) /\ Len(sections[i].hunks) \in Nat
      BY <1>2
    <3> DEFINE a == Len(sections[i].hunks)
    <3>5. off[i] \in Nat /\ off[l] \in Nat /\ off[i] + a <= off[l] /\ a \in Nat /\ j <= a
      BY <2>1, <3>1, <3>3, <3>4
    <3> HIDE DEF a
    <3> QED BY <3>4, <3>5
  <2> QED BY <2>1, <2>2, <2>3, <2>4 DEF IsParse
<1> QED BY <1>3, <1>10, <1>11

\* The hunks of a diff: well formed, and those of a file in its order.
HunksInOrder(hunks) ==
  /\ hunks \in Seq(Range(hunks))
  /\ \A k \in DOMAIN hunks : IsHunk(hunks[k]) /\ IsFiniteSet(Roles[hunks[k].file])
  /\ \A k, l \in DOMAIN hunks : k < l /\ hunks[k].file = hunks[l].file =>
       hunks[k].first < hunks[l].first /\ hunks[k].first + hunks[k].lines <= hunks[l].first

\* What Parse makes of a diff of git is in order.
LEMMA ParsedInOrder ==
  ASSUME NEW sections, IsDiff(sections)
  PROVE  HunksInOrder(Parse(sections))
<1> DEFINE hunks == Parse(sections)
<1>1. hunks \in Seq(Range(hunks))
  BY ParseIs
<1>2. PICK off : IsParse(off, sections, hunks)
  BY ParseIs
<1> HIDE DEF hunks
<1>3. \A k \in DOMAIN hunks : \E i \in DOMAIN sections : \E j \in DOMAIN sections[i].hunks :
        ~sections[i].binary /\ k = off[i] + j /\ hunks[k] = HunkOf(sections[i], j)
  BY <1>2 DEF IsParse
<1>4. \A i \in DOMAIN sections : \A j \in DOMAIN sections[i].hunks :
        /\ i \in Nat /\ off[i] \in Nat /\ j \in Nat
  <2> TAKE i \in DOMAIN sections
  <2> TAKE j \in DOMAIN sections[i].hunks
  <2>1. i \in Nat
    BY DEF IsDiff
  <2>2. j \in Nat
    <3> DEFINE hs == sections[i].hunks
    <3>1. hs \in Seq(Range(hs)) /\ j \in DOMAIN hs
      BY DEF IsDiff
    <3> HIDE DEF hs
    <3> QED BY <3>1
  <2> QED BY <2>1, <2>2, <1>2 DEF IsParse
<1>5. ASSUME NEW k \in DOMAIN hunks PROVE IsHunk(hunks[k]) /\ IsFiniteSet(Roles[hunks[k].file])
  <2>0. PICK i \in DOMAIN sections : \E j \in DOMAIN sections[i].hunks : hunks[k] = HunkOf(sections[i], j)
    BY <1>3
  <2>1. PICK j \in DOMAIN sections[i].hunks : hunks[k] = HunkOf(sections[i], j)
    BY <2>0
  <2> DEFINE h == sections[i].hunks[j]
  <2>2. /\ hunks[k].first = h.first /\ hunks[k].lines = h.lines
        /\ hunks[k].body = h.body /\ hunks[k].file = sections[i].path
    BY <2>1 DEF HunkOf
  <2>3. IsHunk(h) /\ IsFiniteSet(Roles[sections[i].path])
    BY DEF IsDiff
  <2> HIDE DEF h
  <2> QED BY <2>2, <2>3 DEF IsHunk
<1>6. ASSUME NEW k \in DOMAIN hunks, NEW l \in DOMAIN hunks, k < l, hunks[k].file = hunks[l].file
      PROVE  hunks[k].first < hunks[l].first /\ hunks[k].first + hunks[k].lines <= hunks[l].first
  <2> DEFINE At(p, i, j) == ~sections[i].binary /\ p = off[i] + j /\ hunks[p] = HunkOf(sections[i], j)
  <2>a. \A p \in DOMAIN hunks : \E i \in DOMAIN sections : \E j \in DOMAIN sections[i].hunks : At(p, i, j)
    BY <1>3
  <2>b. PICK i \in DOMAIN sections : \E j \in DOMAIN sections[i].hunks : At(k, i, j)
    BY <2>a
  <2>1. PICK j \in DOMAIN sections[i].hunks : At(k, i, j)
    BY <2>b
  <2>c. PICK q \in DOMAIN sections : \E m \in DOMAIN sections[q].hunks : At(l, q, m)
    BY <2>a
  <2>2. PICK m \in DOMAIN sections[q].hunks : At(l, q, m)
    BY <2>c
  <2>3. i < q \/ (i = q /\ j < m)
    <3>1. i \in Nat /\ q \in Nat /\ j \in Nat /\ m \in Nat /\ off[i] \in Nat /\ off[q] \in Nat
      BY <1>4
    <3>2. ~(q < i)
      <4> SUFFICES ASSUME q < i PROVE FALSE
        OBVIOUS
      <4>1. off[q] + m < off[i] + j
        BY <1>2, <2>1, <2>2 DEF IsParse
      <4> QED BY <1>6, <2>1, <2>2, <3>1, <4>1
    <3>3. i = q => j < m
      BY <1>6, <2>1, <2>2, <3>1
    <3> QED BY <3>1, <3>2, <3>3
  <2>4. sections[i].path = sections[q].path
    BY <1>6, <2>1, <2>2 DEF HunkOf
  <2>5. /\ sections[i].hunks[j].first < sections[q].hunks[m].first
        /\ sections[i].hunks[j].first + sections[i].hunks[j].lines <= sections[q].hunks[m].first
    BY <2>1, <2>2, <2>3, <2>4 DEF IsDiff
  <2> QED BY <2>1, <2>2, <2>5 DEF HunkOf
<1>7. HunksInOrder(hunks)
  BY <1>1, <1>5, <1>6 DEF HunksInOrder
<1> QED BY <1>7 DEF hunks

-----------------------------------------------------------------------------
(* The scores of the hunks.                                                *)

\* The greatest of some numbers is one of them.
LEMMA MaxIs ==
  ASSUME NEW n \in Nat, NEW T \in SUBSET (0..n), T # {}
  PROVE  Max(T) \in T /\ \A y \in T : y <= Max(T)
<1>1. \E m \in T : \A y \in T : m >= y
  BY Greatest
<1>2. Max(T) \in T /\ \A y \in T : Max(T) >= y
  BY <1>1 DEF Max
<1> QED BY <1>2

\* The least of some numbers is one of them.
LEMMA MinIs ==
  ASSUME NEW T \in SUBSET Nat, T # {}
  PROVE  Min(T) \in T /\ \A y \in T : Min(T) <= y
<1>1. \E m \in T : \A y \in T : m <= y
  BY Least
<1> QED BY <1>1 DEF Min

\* ScoreHunks scores the hunks one by one.
AllScores(code, hunks, x) == [i \in DOMAIN hunks |-> HunkScore(code, hunks, hunks[i], x)]

\* The report has a score for every hunk, its own (ScoreHunks).
LEMMA ScoresAre ==
  ASSUME NEW code, NEW hunks, hunks \in Seq(Range(hunks)), NEW x
  PROVE  /\ DOMAIN ScoreHunks(code, hunks, x) = DOMAIN hunks
         /\ \A i \in DOMAIN hunks :
              /\ ScoreHunks(code, hunks, x)[i].hunk = HunkScore(code, hunks, hunks[i], x)
              /\ ScoreHunks(code, hunks, x)[i].combined = Combined(AllScores(code, hunks, x), i)
<1> DEFINE n == Len(hunks)
           D == DOMAIN hunks
           H(i) == HunkScore(code, hunks, hunks[i], x)
           W == {H(i) : i \in D}
           V == Seq(W)
           pick == [T \in SUBSET D |-> Max(T)]
           g == [p \in V \X D |-> Append(p[1], H(p[2]))]
           Step(f) == [s \in SUBSET D |-> IF s = {} THEN <<>> ELSE Append(f[s \ {Max(s)}], H(Max(s)))]
           it == CHOOSE f : f = Step(f)
<1>1. n \in Nat /\ D = 1..n
  OBVIOUS
<1>2. IsFiniteSet(D)
  BY <1>1, FS_Interval
<1>3. \A T \in SUBSET D : T # {} => Max(T) \in T
  <2>1. \A T \in SUBSET D : T \in SUBSET (0..n)
    BY <1>1
  <2> QED BY <1>1, <2>1, MaxIs
<1>4. PICK h : IsFold(h, D, pick, V, <<>>, g)
  <2>1. Picks(pick, D)
    BY <1>3 DEF Picks
  <2>2. <<>> \in V
    OBVIOUS
  <2>3. g \in [V \X D -> V]
    <3>1. \A p \in V \X D : H(p[2]) \in W /\ p[1] \in V
      OBVIOUS
    <3> HIDE DEF H, W
    <3>2. \A a \in Seq(W), b \in W : Append(a, b) \in Seq(W)
      BY AppendProperties
    <3> QED BY <3>1, <3>2
  <2> HIDE DEF pick, V, g, D
  <2> QED BY <1>2, <2>1, <2>2, <2>3, FoldExists
<1> HIDE DEF H
<1>5. ASSUME NEW T \in SUBSET D
      PROVE  h[T] = IF T = {} THEN <<>> ELSE Append(h[T \ {Max(T)}], H(Max(T)))
  <2>0. h[T] = IF T = {} THEN <<>> ELSE g[<<h[T \ {pick[T]}], pick[T]>>]
    <3> HIDE DEF g, pick, V
    <3> QED BY <1>4 DEF IsFold
  <2>1. CASE T = {}
    BY <2>0, <2>1
  <2>2. CASE T # {}
    <3>1. Max(T) \in D /\ pick[T] = Max(T) /\ T \ {Max(T)} \in SUBSET D
      BY <1>3, <2>2
    <3>2. h[T] = g[<<h[T \ {Max(T)}], Max(T)>>]
      BY <2>0, <2>2, <3>1
    <3>3. <<h[T \ {Max(T)}], Max(T)>> \in V \X D
      <4> HIDE DEF g, pick, V
      <4> QED BY <3>1, <1>4 DEF IsFold
    <3>4. g[<<h[T \ {Max(T)}], Max(T)>>] = Append(h[T \ {Max(T)}], H(Max(T)))
      <4> HIDE DEF V, D
      <4> QED BY <3>3
    <3> QED BY <3>2, <3>4, <2>2
  <2> QED BY <2>1, <2>2
<1> HIDE DEF g, pick
<1>6. h = Step(h)
  <2>1. h \in [SUBSET D -> V]
    <3> HIDE DEF V
    <3> QED BY <1>4 DEF IsFold
  <2> HIDE DEF V
  <2> QED BY <1>5, <2>1
<1>7. it = Step(it)
  <2> HIDE DEF Step
  <2> QED BY <1>6
<1>8. FoldLeft(LAMBDA done, hh : Append(done, HunkScore(code, hunks, hh, x)), <<>>, hunks) = it[D]
  BY DEF FoldLeft, MapThenFoldSet, it, Step, H
<1> HIDE DEF it
<1>9. \A T \in SUBSET D : it[T] = IF T = {} THEN <<>> ELSE Append(it[T \ {Max(T)}], H(Max(T)))
  BY <1>7
<1> HIDE DEF Step
<1> DEFINE Holds(k) == it[1..k] \in Seq(W) /\ Len(it[1..k]) = k /\ \A i \in 1..k : it[1..k][i] = H(i)
           bad == {k \in 0..n : ~Holds(k)}
<1>10. bad = {}
  <2> SUFFICES ASSUME bad # {} PROVE FALSE
    OBVIOUS
  <2>1. bad \in SUBSET Nat
    <3> HIDE DEF Holds
    <3> QED BY <1>1
  <2>2. PICK k \in bad : \A m \in bad : k <= m
    <3> HIDE DEF bad
    <3> QED BY <2>1, Least
  <2>3. k \in 0..n /\ ~Holds(k)
    BY <2>2
  <2>4. k # 0
    <3> SUFFICES ASSUME k = 0 PROVE FALSE
      OBVIOUS
    <3>1. 1..k = {} /\ {} \in SUBSET D
      OBVIOUS
    <3>2. it[1..k] = <<>>
      BY <1>9, <3>1
    <3>3. Holds(k)
      BY <3>1, <3>2
    <3> QED BY <2>3, <3>3
  <2>5. k \in 1..n /\ k - 1 \in 0..n /\ k - 1 \notin bad
    <3> HIDE DEF Holds
    <3> QED BY <1>1, <2>2, <2>3, <2>4
  <2>6. Holds(k - 1)
    BY <2>5
  <2>7. 1..k \in SUBSET D /\ 1..k # {} /\ 1..k \in SUBSET (0..n) /\ k \in 1..k
    <3> HIDE DEF bad, D, n
    <3>1. k \in 1..k /\ \A i \in 1..k : i \in 1..n
      BY <1>1, <2>5
    <3> QED BY <1>1, <3>1
  <2>8. Max(1..k) = k /\ (1..k) \ {k} = 1..(k - 1)
    <3>1. Max(1..k) \in 1..k /\ \A y \in 1..k : y <= Max(1..k)
      BY <1>1, <2>7, MaxIs
    <3> QED BY <2>5, <2>7, <3>1
  <2>9. it[1..k] = Append(it[1..(k - 1)], H(k))
    BY <1>9, <2>7, <2>8
  <2>10. H(k) \in W
    <3>1. k \in D
      BY <1>1, <2>5
    <3> HIDE DEF D
    <3> QED BY <3>1
  <2> DEFINE a == it[1..(k - 1)]
  <2>11. a \in Seq(W) /\ Len(a) = k - 1 /\ \A i \in 1..(k - 1) : a[i] = H(i)
    BY <2>6
  <2> HIDE DEF a, W
  <2>12. /\ Append(a, H(k)) \in Seq(W)
         /\ Len(Append(a, H(k))) = Len(a) + 1
         /\ \A i \in 1..Len(a) : Append(a, H(k))[i] = a[i]
         /\ Append(a, H(k))[Len(a) + 1] = H(k)
    BY <2>10, <2>11, AppendProperties
  <2>13. \A i \in 1..k : Append(a, H(k))[i] = H(i)
    <3> TAKE i \in 1..k
    <3>1. CASE i = k
      BY <2>5, <2>11, <2>12, <3>1
    <3>2. CASE i # k
      <4>1. i \in 1..(k - 1)
        BY <2>5, <3>2
      <4> QED BY <4>1, <2>11, <2>12
    <3> QED BY <3>1, <3>2
  <2>14. Holds(k)
    BY <2>5, <2>9, <2>11, <2>12, <2>13 DEF a
  <2> QED BY <2>3, <2>14
<1>11. n \in 0..n /\ 1..n = D
  BY <1>1
<1>12. Holds(n)
  <2> HIDE DEF Holds
  <2> QED BY <1>10, <1>11
<1>13. it[D] \in Seq(W) /\ Len(it[D]) = n /\ \A i \in 1..n : it[D][i] = H(i)
  BY <1>11, <1>12
<1> HIDE DEF W, n, D
<1>14. it[D] = [i \in D |-> H(i)]
  BY <1>1, <1>13
<1>15. AllScores(code, hunks, x) = [i \in D |-> H(i)]
  BY DEF AllScores, D, H
<1>16. FoldLeft(LAMBDA done, hh : Append(done, HunkScore(code, hunks, hh, x)), <<>>, hunks)
         = AllScores(code, hunks, x)
  BY <1>8, <1>14, <1>15
<1> DEFINE fold == FoldLeft(LAMBDA done, hh : Append(done, HunkScore(code, hunks, hh, x)), <<>>, hunks)
<1>17. ScoreHunks(code, hunks, x) = [i \in DOMAIN hunks |-> [hunk |-> fold[i], combined |-> Combined(fold, i)]]
  BY DEF ScoreHunks
<1> HIDE DEF fold
<1>18. fold = AllScores(code, hunks, x)
  BY <1>16 DEF fold
<1> DEFINE S == ScoreHunks(code, hunks, x)
           all == AllScores(code, hunks, x)
<1> HIDE DEF all
<1>19. S = [i \in DOMAIN hunks |-> [hunk |-> all[i], combined |-> Combined(all, i)]]
  BY <1>17, <1>18 DEF all
<1>20. \A i \in DOMAIN hunks : all[i] = HunkScore(code, hunks, hunks[i], x)
  BY DEF all, AllScores
<1> HIDE DEF S
<1>21. DOMAIN S = DOMAIN hunks
       /\ \A i \in DOMAIN hunks : S[i].hunk = all[i] /\ S[i].combined = Combined(all, i)
  BY <1>19
<1>22. DOMAIN S = DOMAIN hunks
       /\ \A i \in DOMAIN hunks :
            S[i].hunk = HunkScore(code, hunks, hunks[i], x) /\ S[i].combined = Combined(all, i)
  BY <1>20, <1>21
<1> QED BY <1>22 DEF S, all

-----------------------------------------------------------------------------
(* The report and the page.                                                *)

\* What is scored are the hunks of the diff, and the page shows the scores there are.
ReportInv ==
  \/ report = Report("pending", <<>>, {})
  \/ \E x \in Outages : report = Report("unavailable", <<>>, x)
  \/ \E x \in Outages : report = Report("ready", ScoreHunks(input.code, Parse(diff), x), x)
AnalysisInv ==
  /\ input \in [code : Codes, diff : Diffs, source : Sources, lrc : LrcDirs]
  /\ stage \in {"start", "collected", "filtered", "shown", "ended"}
  /\ IsDiff(diff)
  /\ ReportInv
  /\ stage \in {"start", "collected"} => report.status = "pending"
  /\ page = IF stage = "shown" THEN applyBlastScoresToFiles(report.scores, parseDiffToFiles(diff)) ELSE <<>>

\* An empty diff is one git may give.
LEMMA NothingIsDiff == IsDiff(<<>>)
<1>1. <<>> \in Seq(Range(<<>>)) /\ DOMAIN <<>> = {}
  OBVIOUS
<1> QED BY <1>1 DEF IsDiff

\* Without scores the page shows none, and without files it shows nothing.
LEMMA NoScores ==
  /\ \A scores : applyBlastScoresToFiles(scores, <<>>) = <<>>
  /\ \A sections : applyBlastScoresToFiles(<<>>, parseDiffToFiles(sections)) = parseDiffToFiles(sections)
<1>1. ASSUME NEW scores PROVE applyBlastScoresToFiles(scores, <<>>) = <<>>
  BY DEF applyBlastScoresToFiles
<1>2. ASSUME NEW sections
      PROVE  applyBlastScoresToFiles(<<>>, parseDiffToFiles(sections)) = parseDiffToFiles(sections)
  <2> DEFINE files == parseDiffToFiles(sections)
             byKey == blastScoresByKey(<<>>)
  <2>1. DOMAIN byKey = {}
    <3>1. Range(<<>>) = {}
      BY DEF Range
    <3> HIDE DEF byKey
    <3>2. byKey = blastScoresByKey(<<>>)
      BY DEF byKey
    <3> QED BY <3>1, <3>2 DEF blastScoresByKey
  <2>2. \A i \in DOMAIN files :
          files[i] = [file |-> files[i].file, hunks |-> [j \in DOMAIN files[i].hunks |-> files[i].hunks[j]]]
    BY DEF parseDiffToFiles
  <2>3. files = [i \in DOMAIN files |-> files[i]]
    BY DEF parseDiffToFiles
  <2> HIDE DEF files, byKey
  <2>4. applyBlastScoresToFiles(<<>>, files)
          = [i \in DOMAIN files |-> [files[i] EXCEPT !.hunks = [j \in DOMAIN @ |-> @[j]]]]
    BY <2>1 DEF applyBlastScoresToFiles, byKey
  <2>5. \A i \in DOMAIN files : [files[i] EXCEPT !.hunks = [j \in DOMAIN @ |-> @[j]]] = files[i]
    BY <2>2
  <2>6. applyBlastScoresToFiles(<<>>, files) = files
    BY <2>3, <2>4, <2>5
  <2> QED BY <2>6 DEF files
<1> QED BY <1>1, <1>2

\* The inductive invariant of the analysis: whatever fails, and whether the report or the page is
\* first, the report is of the hunks of the diff and the page shows the scores of the report
\* (startBlastRadiusScoring, applyBlastRadiusFromHandle).
THEOREM AnalysisIsOfTheDiff == AnalysisSpec => []AnalysisInv
<1>1. AnalysisInit => AnalysisInv
  <2>1. Report("pending", <<>>, {}).status = "pending"
    BY DEF Report
  <2> QED BY <2>1, NothingIsDiff DEF AnalysisInit, AnalysisInv, ReportInv
<1>2. AnalysisInv /\ [AnalysisNext]_analysisVars => AnalysisInv'
  <2> SUFFICES ASSUME AnalysisInv, [AnalysisNext]_analysisVars PROVE AnalysisInv'
    OBVIOUS
  <2>p. stage \in {"start", "collected"} => report = Report("pending", <<>>, {})
    BY DEF AnalysisInv, ReportInv, Report
  <2>s. /\ \A st, sc, x : Report(st, sc, x).status = st /\ Report(st, sc, x).scores = sc
    BY DEF Report
  <2>1. CASE Collect
    <3>1. IsDiff(diff')
      BY <2>1, NothingIsDiff, DiffsAssumption DEF Collect, AnalysisInv
    <3>2. stage = "start" /\ stage' \in {"ended", "collected"} /\ UNCHANGED <<input, report, page>>
      BY <2>1 DEF Collect
    <3>3. ReportInv'
      BY <2>p, <3>2 DEF ReportInv
    <3> QED BY <2>p, <2>s, <3>1, <3>2, <3>3 DEF AnalysisInv
  <2>2. CASE Exclude
    <3>1. IsDiff(diff')
      BY <2>2, FilteredIsDiff DEF Exclude, AnalysisInv
    <3>2. stage = "collected" /\ stage' \in {"ended", "filtered"} /\ UNCHANGED <<input, report, page>>
      BY <2>2 DEF Exclude
    <3>3. ReportInv'
      BY <2>p, <3>2 DEF ReportInv
    <3> QED BY <2>p, <2>s, <3>1, <3>2, <3>3 DEF AnalysisInv
  <2>3. CASE Score
    <3>1. stage \in {"filtered", "shown"} /\ report.status = "pending" /\ UNCHANGED <<input, stage, diff>>
      BY <2>3 DEF Score
    <3>2. PICK x \in Outages :
            IF Fails(input.code, Parse(diff), x)
            THEN report' = Report("unavailable", <<>>, x) /\ UNCHANGED page
            ELSE /\ report' = Report("ready", ScoreHunks(input.code, Parse(diff), x), x)
                 /\ page' = applyBlastScoresToFiles(report'.scores, page)
      BY <2>3 DEF Score
    <3>3. ReportInv'
      BY <3>1, <3>2 DEF ReportInv
    <3>4. report.scores = <<>>
      BY <2>s, <3>1 DEF AnalysisInv, ReportInv
    <3>5. page' = IF stage = "shown" THEN applyBlastScoresToFiles(report'.scores, parseDiffToFiles(diff)) ELSE <<>>
      <4>1. page = IF stage = "shown" THEN parseDiffToFiles(diff) ELSE <<>>
        BY <3>4, NoScores DEF AnalysisInv
      <4>2. CASE Fails(input.code, Parse(diff), x)
        BY <2>s, <3>2, <4>1, <4>2, NoScores
      <4>3. CASE ~Fails(input.code, Parse(diff), x)
        BY <3>2, <4>1, <4>3, NoScores
      <4> QED BY <4>2, <4>3
    <3> QED BY <3>1, <3>3, <3>5 DEF AnalysisInv
  <2>4. CASE Submit
    BY <2>4 DEF Submit, AnalysisInv, ReportInv
  <2>5. CASE Show
    BY <2>5 DEF Show, AnalysisInv, ReportInv
  <2>6. CASE UNCHANGED analysisVars
    BY <2>6 DEF analysisVars, AnalysisInv, ReportInv
  <2> QED BY <2>1, <2>2, <2>3, <2>4, <2>5, <2>6 DEF AnalysisNext
<1> QED BY <1>1, <1>2, PTL DEF AnalysisSpec

\* What the invariant says of a report with scores.
LEMMA ReadyIs ==
  ASSUME AnalysisInv
  PROVE  /\ report.status = "ready" => /\ report.outage \in Outages
                                       /\ report.scores = ScoreHunks(input.code, Parse(diff), report.outage)
         /\ report.status # "ready" => report.scores = <<>>
         /\ IsGraph(input.code) /\ HunksInOrder(Parse(diff))
<1>1. \A st, sc, x : Report(st, sc, x).status = st /\ Report(st, sc, x).scores = sc /\ Report(st, sc, x).outage = x
  BY DEF Report
<1>2. IsGraph(input.code)
  BY CodesAssumption DEF AnalysisInv
<1>3. HunksInOrder(Parse(diff))
  BY ParsedInOrder DEF AnalysisInv
<1> QED BY <1>1, <1>2, <1>3 DEF AnalysisInv, ReportInv

\* The scores of the hunks, field by field.
SymbolsOf(code, hunks, h, x) == {Contribution(code, s, RenamedFrom(code, hunks, s), x) : s \in Touched(code, h)}
Blasts(symbols) == [c \in symbols |-> c.blast]
Priorities(symbols) == [c \in symbols |-> c.priority]

\* A score keeps the file and the range of its hunk, and is made of the symbols it touches.
LEMMA HunkScoreFields ==
  ASSUME NEW code, NEW hunks, NEW h, NEW x
  PROVE  /\ HunkScore(code, hunks, h, x).file = h.file
         /\ HunkScore(code, hunks, h, x).first = h.first
         /\ HunkScore(code, hunks, h, x).lines = h.lines
         /\ HunkScore(code, hunks, h, x).symbols = SymbolsOf(code, hunks, h, x)
         /\ HunkScore(code, hunks, h, x).blast =
              Root(SumFunction(Blasts(SymbolsOf(code, hunks, h, x))))
              + (3 * fileCouplingBonus(code, h.file, x)) \div 10 + archRoleSignals(h.file)
         /\ HunkScore(code, hunks, h, x).priority = Root(SumFunction(Priorities(SymbolsOf(code, hunks, h, x))))
         /\ HunkScore(code, hunks, h, x).hygiene = classifyHunkHygiene(h, Touched(code, h))
  BY DEF HunkScore, SymbolsOf, Blasts, Priorities

\* Two hunks of one key are one hunk, so the key finds the score of that hunk.
LEMMA KeyFinds ==
  ASSUME NEW code, NEW hunks, HunksInOrder(hunks), NEW x, NEW k \in DOMAIN hunks
  PROVE  LET byKey == blastScoresByKey(ScoreHunks(code, hunks, x))
             key == blastRadiusKey(hunks[k].file, hunks[k].first, hunks[k].lines) IN
         key \in DOMAIN byKey /\ byKey[key] = ScoreHunks(code, hunks, x)[k].combined
<1> DEFINE S == ScoreHunks(code, hunks, x)
           K(i) == blastRadiusKey(S[i].hunk.file, S[i].hunk.first, S[i].hunk.lines)
           key == blastRadiusKey(hunks[k].file, hunks[k].first, hunks[k].lines)
           these == {i \in DOMAIN S : K(i) = key}
<1>1. hunks \in Seq(Range(hunks))
  BY DEF HunksInOrder
<1>2. DOMAIN S = DOMAIN hunks
      /\ \A i \in DOMAIN hunks : S[i].hunk = HunkScore(code, hunks, hunks[i], x)
  BY <1>1, ScoresAre
<1> HIDE DEF S
<1>3. \A i \in DOMAIN hunks : S[i].hunk.file = hunks[i].file /\ S[i].hunk.first = hunks[i].first
                             /\ S[i].hunk.lines = hunks[i].lines
  BY <1>2, HunkScoreFields
<1>4. \A i \in DOMAIN hunks : K(i) = blastRadiusKey(hunks[i].file, hunks[i].first, hunks[i].lines)
  BY <1>3
<1>5. these = {k}
  <2>1. k \in these
    BY <1>2, <1>4
  <2>2. ASSUME NEW i \in these PROVE i = k
    <3>1. i \in DOMAIN hunks /\ hunks[i].file = hunks[k].file /\ hunks[i].first = hunks[k].first
      BY <1>2, <1>4 DEF blastRadiusKey
    <3>2. i \in Nat /\ k \in Nat /\ hunks[i].first \in Nat /\ hunks[k].first \in Nat
      <4>1. i \in Nat /\ k \in Nat
        BY <1>1, <3>1
      <4>2. IsHunk(hunks[i]) /\ IsHunk(hunks[k])
        BY <3>1 DEF HunksInOrder
      <4> QED BY <4>1, <4>2 DEF IsHunk
    <3>3. ~(i < k) /\ ~(k < i)
      BY <3>1, <3>2 DEF HunksInOrder
    <3> QED BY <3>2, <3>3
  <2> QED BY <2>1, <2>2
<1>6. Max(these) = k
  <2>1. Len(hunks) \in Nat /\ k \in 0..Len(hunks)
    BY <1>1
  <2>2. these \in SUBSET (0..Len(hunks)) /\ these # {}
    BY <1>5, <2>1
  <2>3. Max(these) \in these
    <3> HIDE DEF these
    <3> QED BY <2>1, <2>2, MaxIs
  <2> QED BY <1>5, <2>3
<1>7. key \in {blastRadiusKey(r.hunk.file, r.hunk.first, r.hunk.lines) : r \in Range(S)}
  <2>1. S[k] \in Range(S)
    BY <1>2 DEF Range
  <2>2. K(k) = key
    BY <1>4
  <2> QED BY <2>1, <2>2
<1> DEFINE byKey == blastScoresByKey(S)
<1>8. key \in DOMAIN byKey /\ byKey[key] = S[Max(these)].combined
  BY <1>7 DEF blastScoresByKey
<1> QED BY <1>6, <1>8 DEF S

\* Every hunk of the page with lines of its own, of a file whose path has no space, has the score of
\* that very hunk, whether the report or the page is first (blastRadiusKey, applyBlastScoresToFiles).
THEOREM EveryHunkHasItsScore == AnalysisSpec => []HunkHasItsScore
<1>1. AnalysisInv => HunkHasItsScore
  <2> SUFFICES ASSUME AnalysisInv, stage = "shown", report.status = "ready",
                      NEW i \in DOMAIN diff, NEW j \in DOMAIN diff[i].hunks,
                      ~diff[i].binary, diff[i].path = diff[i].word, diff[i].hunks[j].lines > 0
               PROVE  \E k \in DOMAIN Hunks :
                        /\ Hunks[k].file = diff[i].path /\ Hunks[k].body = diff[i].hunks[j].body
                        /\ Hunks[k].first = diff[i].hunks[j].first
                        /\ page[i].hunks[j].score = report.scores[k].combined
    BY DEF HunkHasItsScore
  <2> DEFINE H == Parse(diff)
             S == ScoreHunks(input.code, H, report.outage)
             byKey == blastScoresByKey(S)
             h == diff[i].hunks[j]
             key == blastRadiusKey(diff[i].path, h.first, h.lines)
  <2>1. IsDiff(diff) /\ HunksInOrder(H) /\ report.scores = S
        /\ page = applyBlastScoresToFiles(S, parseDiffToFiles(diff))
    BY ReadyIs DEF AnalysisInv
  <2>2. PICK off : IsParse(off, diff, H)
    BY <2>1, ParseIs
  <2> DEFINE k == off[i] + j
  <2>3. k \in DOMAIN H /\ H[k] = HunkOf(diff[i], j)
    BY <2>2 DEF IsParse
  <2> HIDE DEF k, H
  <2>4. H[k].file = diff[i].path /\ H[k].first = h.first /\ H[k].lines = h.lines /\ H[k].body = h.body
    BY <2>3 DEF HunkOf
  <2>5. key \in DOMAIN byKey /\ byKey[key] = S[k].combined
    BY <2>1, <2>3, <2>4, KeyFinds
  <2> HIDE DEF S
  <2>6. PageHunk(h).first = h.first /\ PageHunk(h).lines = h.lines
        /\ PageHunk(h) = [oldFirst |-> h.oldFirst, first |-> h.first, lines |-> h.lines, score |-> Unscored]
    <3>1. (IF Count(h.lines) = <<>> \/ h.lines = 0 THEN 1 ELSE Count(h.lines)[1]) = h.lines
      <4>1. CASE h.lines = 1
        BY <4>1 DEF Count
      <4>2. CASE h.lines # 1
        <5>1. Count(h.lines) = <<h.lines>> /\ h.lines # 0
          BY <4>2 DEF Count
        <5> QED BY <5>1
      <4> QED BY <4>1, <4>2
    <3> QED BY <3>1 DEF PageHunk
  <2> DEFINE files == parseDiffToFiles(diff)
  <2>7. /\ i \in DOMAIN files
        /\ files[i] = [file |-> diff[i].word,
                       hunks |-> [n \in DOMAIN diff[i].hunks |-> PageHunk(diff[i].hunks[n])]]
    BY DEF parseDiffToFiles
  <2> HIDE DEF files, byKey
  <2> DEFINE WithScore(file, g) ==
               IF blastRadiusKey(file, g.first, g.lines) \in DOMAIN byKey
               THEN [g EXCEPT !.score = byKey[blastRadiusKey(file, g.first, g.lines)]] ELSE g
  <2>8. page[i] = [files[i] EXCEPT !.hunks = [n \in DOMAIN @ |-> WithScore(files[i].file, @[n])]]
    BY <2>1, <2>7 DEF applyBlastScoresToFiles, byKey, files
  <2>9. page[i].hunks = [n \in DOMAIN files[i].hunks |-> WithScore(files[i].file, files[i].hunks[n])]
    <3> HIDE DEF WithScore
    <3> QED BY <2>7, <2>8
  <2>10. /\ files[i].file = diff[i].path
         /\ DOMAIN files[i].hunks = DOMAIN diff[i].hunks /\ files[i].hunks[j] = PageHunk(h)
    BY <2>7
  <2>11. page[i].hunks[j] = WithScore(diff[i].path, PageHunk(h))
    <3> HIDE DEF WithScore, h
    <3> QED BY <2>9, <2>10
  <2>12. WithScore(diff[i].path, PageHunk(h)) = [PageHunk(h) EXCEPT !.score = S[k].combined]
    <3> HIDE DEF h
    <3> QED BY <2>5, <2>6
  <2>13. page[i].hunks[j].score = S[k].combined
    <3> HIDE DEF h
    <3> QED BY <2>6, <2>11, <2>12
  <2> QED BY <2>1, <2>3, <2>4, <2>13 DEF Hunks, H
<1> QED BY <1>1, AnalysisIsOfTheDiff, PTL

-----------------------------------------------------------------------------
(* Renamed declarations.                                                   *)

\* The declaration of a symbol on its own is the only one found, and replaces the line before it.
LEMMA DeclarationFound ==
  ASSUME NEW h, IsHunk(h), NEW s, s.first \in Nat, NEW k \in DOMAIN h.body, Declares(h, k, s)
  PROVE  /\ s.first >= h.first /\ h.lines > 0 /\ s.first <= h.first + h.lines - 1 /\ s.first > 0
         /\ detectDeclRename(h, s) = matchSingleIdentSwap(h.body[k - 1].text, h.body[k].text, s.name)
<1> DEFINE n == Len(h.body)
           kept(q) == {j \in 1..(q - 1) : h.body[j].op # "-"}
           whole == {j \in DOMAIN h.body : h.body[j].op # "-"}
           found == {q \in DOMAIN h.body :
                       /\ h.body[q].op = "+" /\ s.first > 0 /\ NewLine(h, q) = s.first
                       /\ Cardinality(Run(h, q, "-")) = Cardinality(Run(h, q, "+"))}
           At(q, j) == Cardinality({i \in Run(h, q, "-") : i <= j}) = Cardinality({i \in Run(h, q, "+") : i <= q})
           Old(q) == CHOOSE j \in Run(h, q, "-") : At(q, j)
<1>1. n \in Nat /\ DOMAIN h.body = 1..n /\ h.first \in Nat /\ h.lines \in Nat /\ (h.lines > 0 => h.first > 0)
  <2> DEFINE b == h.body
  <2>1. b \in Seq(Range(b))
    BY DEF IsHunk
  <2> HIDE DEF b
  <2>2. Len(b) \in Nat /\ DOMAIN b = 1..Len(b)
    BY <2>1
  <2> QED BY <2>2 DEF IsHunk, b
<1>w. h.lines = Cardinality(whole)
  BY DEF IsHunk
<1>2. /\ k > 1 /\ h.body[k].op = "+" /\ h.body[k - 1].op = "-"
      /\ k = 2 \/ h.body[k - 2].op = " "
      /\ k = n \/ h.body[k + 1].op = " "
      /\ NewLine(h, k) = s.first
  BY DEF Declares, NewLine
<1> HIDE DEF n, found, Old
<1>3. k \in 1..n /\ k - 1 \in 1..n
  <2>1. k \in 1..n /\ k > 1
    BY <1>1, <1>2
  <2> QED BY <1>1, <2>1
<1>4. \A q \in 1..n : /\ IsFiniteSet(kept(q)) /\ Cardinality(kept(q)) \in Nat
                     /\ NewLine(h, q) = h.first + Cardinality(kept(q))
  <2> TAKE q \in 1..n
  <2>1. IsFiniteSet(1..(q - 1))
    BY <1>1, FS_Interval
  <2>2. kept(q) \in SUBSET (1..(q - 1))
    OBVIOUS
  <2>3. NewLine(h, q) = h.first + Cardinality(kept(q))
    BY DEF NewLine
  <2> HIDE DEF kept
  <2> QED BY <2>1, <2>2, <2>3, FS_Subset, FS_CardinalityType
\* The next line that is kept has a greater number.
<1>5. ASSUME NEW p \in 1..n, NEW q \in 1..n, p < q, h.body[p].op # "-"
      PROVE  NewLine(h, p) < NewLine(h, q)
  <2>1. kept(p) \in SUBSET (kept(q) \ {p}) /\ p \in kept(q)
    BY <1>1, <1>5
  <2>2. IsFiniteSet(kept(q) \ {p}) /\ Cardinality(kept(q) \ {p}) = Cardinality(kept(q)) - 1
    <3> HIDE DEF kept
    <3> QED BY <1>4, <2>1, FS_RemoveElement
  <2>3. Cardinality(kept(p)) <= Cardinality(kept(q)) - 1
    <3> HIDE DEF kept
    <3> QED BY <2>1, <2>2, FS_Subset
  <2> HIDE DEF kept
  <2> QED BY <1>1, <1>4, <2>3
<1>6. Cardinality(kept(k)) < h.lines
  <2>1. kept(k) \in SUBSET (whole \ {k}) /\ k \in whole
    <3>1. \A j \in 1..(k - 1) : j \in DOMAIN h.body /\ j # k
      BY <1>1, <1>3
    <3>2. h.body[k].op # "-"
      BY <1>2
    <3> QED BY <3>1, <3>2
  <2>2. IsFiniteSet(whole)
    <3>1. IsFiniteSet(1..n) /\ whole \in SUBSET (1..n)
      <4>1. IsFiniteSet(1..n)
        BY <1>1, FS_Interval
      <4> QED BY <1>1, <4>1
    <3> HIDE DEF whole
    <3> QED BY <3>1, FS_Subset
  <2> HIDE DEF whole, kept
  <2>3. IsFiniteSet(whole \ {k}) /\ Cardinality(whole \ {k}) = Cardinality(whole) - 1
    BY <2>1, <2>2, FS_RemoveElement
  <2>4. Cardinality(kept(k)) <= Cardinality(whole) - 1
    BY <2>1, <2>3, FS_Subset
  <2> QED BY <1>1, <1>w, <1>3, <1>4, <2>4
<1>7. s.first >= h.first /\ h.lines > 0 /\ s.first <= h.first + h.lines - 1 /\ s.first > 0
  <2> DEFINE c == Cardinality(kept(k))
  <2>1. c \in Nat /\ s.first = h.first + c /\ c < h.lines
    BY <1>2, <1>3, <1>4, <1>6
  <2> HIDE DEF c
  <2> QED BY <1>1, <2>1
<1>8. Run(h, k, "-") = {k - 1} /\ Run(h, k, "+") = {k}
  <2> DEFINE Op(i) == h.body[i].op
  <2>a. (k = 2 \/ Op(k - 2) = " ") /\ (k = n \/ Op(k + 1) = " ")
    BY <1>2
  <2>1. ASSUME NEW op, NEW j \in Run(h, k, op) PROVE j \in {k - 1, k} /\ h.body[j].op = op
    <3>1. j \in 1..n /\ h.body[j].op = op
          /\ \A i \in 1..n : (j <= i /\ i <= k) \/ (k <= i /\ i <= j) => Op(i) # " "
      BY <1>1 DEF Run
    <3> HIDE DEF Op
    <3>2. ~(j < k - 1)
      <4> SUFFICES ASSUME j < k - 1 PROVE FALSE
        OBVIOUS
      <4>1. k - 2 \in 1..n /\ k # 2 /\ j <= k - 2 /\ k - 2 <= k
        <5>1. j \in 1..n /\ k \in 1..n
          BY <1>3, <3>1
        <5> QED BY <1>1, <5>1
      <4> QED BY <2>a, <3>1, <4>1
    <3>3. ~(j > k)
      <4> SUFFICES ASSUME j > k PROVE FALSE
        OBVIOUS
      <4>1. k + 1 \in 1..n /\ k # n /\ k <= k + 1 /\ k + 1 <= j
        <5>1. j \in 1..n /\ k \in 1..n
          BY <1>3, <3>1
        <5> QED BY <1>1, <5>1
      <4> QED BY <2>a, <3>1, <4>1
    <3>4. j = k - 1 \/ j = k
      <4>1. j \in 1..n /\ k \in 1..n
        BY <1>3, <3>1
      <4> QED BY <1>1, <3>2, <3>3, <4>1
    <3> QED BY <3>1, <3>4
  <2>2. k - 1 \in Run(h, k, "-") /\ k \in Run(h, k, "+")
    <3>1. \A i \in 1..n : (k - 1 <= i /\ i <= k) \/ (k <= i /\ i <= k - 1) => h.body[i].op # " "
      <4> TAKE i \in 1..n
      <4>1. (k - 1 <= i /\ i <= k) \/ (k <= i /\ i <= k - 1) => i = k - 1 \/ i = k
        BY <1>1, <1>3
      <4> QED BY <1>2, <4>1
    <3>2. \A i \in 1..n : (k <= i /\ i <= k) \/ (k <= i /\ i <= k) => h.body[i].op # " "
      <4> TAKE i \in 1..n
      <4>1. (k <= i /\ i <= k) => i = k
        BY <1>1, <1>3
      <4> QED BY <1>2, <4>1
    <3> QED BY <1>1, <1>2, <1>3, <3>1, <3>2 DEF Run
  <2>3. h.body[k].op # h.body[k - 1].op
    BY <1>2
  <2>4. \A j \in Run(h, k, "-") : j = k - 1
    BY <1>2, <2>1, <2>3
  <2>5. \A j \in Run(h, k, "+") : j = k
    BY <1>2, <2>1, <2>3
  <2> QED BY <2>2, <2>4, <2>5
<1>9. Cardinality({k - 1}) = 1 /\ Cardinality({k}) = 1
  BY FS_Singleton
<1>10. found = {k}
  <2> USE DEF found
  <2>1. k \in found
    BY <1>2, <1>7, <1>8, <1>9
  <2>2. ASSUME NEW q \in found PROVE q = k
    <3>1. q \in 1..n /\ h.body[q].op = "+" /\ NewLine(h, q) = s.first
      BY <1>1
    <3>2. ~(q < k) /\ ~(k < q)
      <4>1. NewLine(h, q) = NewLine(h, k) /\ NewLine(h, k) \in Nat /\ h.body[q].op # "-" /\ h.body[k].op # "-"
        BY <1>2, <3>1
      <4> QED BY <1>3, <1>5, <3>1, <4>1
    <3> QED BY <1>1, <1>3, <3>1, <3>2
  <2> QED BY <2>1, <2>2
<1>11. OneOf(found) = k
  <2>1. OneOf({k}) \in {k}
    BY DEF OneOf
  <2> QED BY <1>10, <2>1
<1>12. Old(k) = k - 1
  <2>1. {i \in Run(h, k, "-") : i <= k - 1} = {k - 1} /\ {i \in Run(h, k, "+") : i <= k} = {k}
    BY <1>1, <1>3, <1>8
  <2>2. At(k, k - 1)
    BY <1>9, <2>1
  <2> HIDE DEF At
  <2>3. \E j \in Run(h, k, "-") : At(k, j)
    BY <1>8, <2>2
  <2>4. Old(k) \in Run(h, k, "-")
    BY <2>3 DEF Old
  <2> QED BY <1>8, <2>4
<1>13. detectDeclRename(h, s) =
         IF found = {} THEN None
         ELSE matchSingleIdentSwap(h.body[Old(OneOf(found))].text, h.body[OneOf(found)].text, s.name)
  BY DEF detectDeclRename, OneOf, found, Old
<1>14. detectDeclRename(h, s) = matchSingleIdentSwap(h.body[Old(k)].text, h.body[k].text, s.name)
  <2>1. found # {}
    BY <1>10
  <2> QED BY <1>11, <1>13, <2>1
<1> QED BY <1>7, <1>12, <1>14

\* What a contribution says of its symbol.
LEMMA ContributionIs ==
  ASSUME NEW code, NEW s, NEW old, NEW x
  PROVE  LET c == Contribution(code, s, old, x) IN
         /\ c.qn = s.qn
         /\ c.method # None => c.renamedFrom = old
<1>1. CASE ~IsCallable(s) /\ "usage" \in x
  <2>1. Contribution(code, s, old, x) = [NoScore EXCEPT !.qn = s.qn]
    BY <1>1 DEF Contribution
  <2> QED BY <2>1 DEF NoScore
<1>2. CASE ~(~IsCallable(s) /\ "usage" \in x)
  <2> DEFINE c == IF IsCallable(s) THEN CallScore(code, s.qn, old, x) ELSE TypeScore(code, s, old, x)
  <2>1. c.renamedFrom = old
    BY DEF CallScore, TypeScore
  <2> HIDE DEF c
  <2>2. Contribution(code, s, old, x).qn = s.qn /\ Contribution(code, s, old, x).renamedFrom = c.renamedFrom
    BY <1>2 DEF Contribution, c
  <2> QED BY <2>1, <2>2
<1> QED BY <1>1, <1>2

\* A scored symbol is a symbol of the hunk it is scored in.
LEMMA ScoredIs ==
  ASSUME AnalysisInv, NEW c \in Scored
  PROVE  /\ report.status = "ready"
         /\ \E i \in DOMAIN Hunks : \E s \in Touched(input.code, Hunks[i]) :
              /\ c = Contribution(input.code, s, RenamedFrom(input.code, Hunks, s), report.outage)
              /\ s \in input.code.symbols /\ s.file = Hunks[i].file /\ SymbolOf(input.code, c.qn) = s
<1>1. PICK r \in Range(report.scores) : c \in r.hunk.symbols
  BY DEF Scored
<1>2. PICK i \in DOMAIN report.scores : r = report.scores[i]
  BY DEF Range
<1>3. report.status = "ready"
  <2>1. report.scores # <<>>
    BY <1>2
  <2> QED BY <2>1, ReadyIs
<1>4. /\ report.scores = ScoreHunks(input.code, Hunks, report.outage)
      /\ Hunks \in Seq(Range(Hunks)) /\ IsGraph(input.code)
  BY <1>3, ReadyIs DEF HunksInOrder, Hunks
<1>5. i \in DOMAIN Hunks /\ report.scores[i].hunk = HunkScore(input.code, Hunks, Hunks[i], report.outage)
  BY <1>2, <1>4, ScoresAre
<1>6. c \in SymbolsOf(input.code, Hunks, Hunks[i], report.outage)
  BY <1>1, <1>2, <1>5, HunkScoreFields
<1>7. PICK s \in Touched(input.code, Hunks[i]) :
        c = Contribution(input.code, s, RenamedFrom(input.code, Hunks, s), report.outage)
  BY <1>6 DEF SymbolsOf
<1>8. s \in input.code.symbols /\ s.file = Hunks[i].file
  BY DEF Touched, ForHunk, InFile
<1>9. c.qn = s.qn
  BY <1>7, ContributionIs
<1>10. SymbolOf(input.code, c.qn) = s
  <2>1. SymbolOf(input.code, c.qn) \in input.code.symbols /\ SymbolOf(input.code, c.qn).qn = c.qn
    BY <1>8, <1>9 DEF SymbolOf
  <2> QED BY <1>4, <1>8, <1>9, <2>1 DEF IsGraph
<1> QED BY <1>3, <1>5, <1>7, <1>8, <1>10

\* The hunk with the declaration of a symbol is the first that touches it.
LEMMA FirstTouches ==
  ASSUME NEW code, IsGraph(code), NEW hunks, HunksInOrder(hunks), NEW s \in code.symbols,
         NEW i \in DOMAIN hunks, hunks[i].file = s.file,
         NEW k \in DOMAIN hunks[i].body, Declares(hunks[i], k, s)
  PROVE  Min({j \in DOMAIN hunks : s \in Touched(code, hunks[j])}) = i
<1> DEFINE I == {j \in DOMAIN hunks : s \in Touched(code, hunks[j])}
           Final(h) == IF h.lines > 0 THEN h.first + h.lines - 1 ELSE h.first
<1>1. s.first \in Nat /\ s.last \in Nat /\ s.first <= s.last
  BY DEF IsGraph
<1>2. \A j \in DOMAIN hunks : IsHunk(hunks[j]) /\ hunks[j].first \in Nat /\ hunks[j].lines \in Nat /\ j \in Nat
  <2>1. \A j \in DOMAIN hunks : IsHunk(hunks[j])
    BY DEF HunksInOrder
  <2>2. \A j \in DOMAIN hunks : j \in Nat
    BY DEF HunksInOrder
  <2> QED BY <2>1, <2>2 DEF IsHunk
<1>3. /\ s.first >= hunks[i].first /\ hunks[i].lines > 0
      /\ s.first <= hunks[i].first + hunks[i].lines - 1 /\ s.first > 0
  <2> DEFINE h == hunks[i]
  <2>1. IsHunk(h) /\ k \in DOMAIN h.body /\ Declares(h, k, s)
    BY <1>2
  <2> HIDE DEF h
  <2>2. s.first >= h.first /\ h.lines > 0 /\ s.first <= h.first + h.lines - 1 /\ s.first > 0
    BY <1>1, <2>1, DeclarationFound
  <2> QED BY <2>2 DEF h
<1>4. \A j \in DOMAIN hunks :
        s \in Touched(code, hunks[j]) <=>
          /\ s.file = hunks[j].file /\ s.first + s.last # 0
          /\ s.first <= Final(hunks[j]) /\ hunks[j].first <= s.last
  BY DEF Touched, ForHunk, InFile
<1>5. i \in I
  <2>1. s.first <= Final(hunks[i]) /\ hunks[i].first <= s.last /\ s.first + s.last # 0
    BY <1>1, <1>2, <1>3
  <2> HIDE DEF Final
  <2> QED BY <1>4, <2>1
<1>6. \A j \in I : ~(j < i)
  <2> SUFFICES ASSUME NEW j \in I, j < i PROVE FALSE
    OBVIOUS
  <2>1. hunks[j].file = s.file /\ s.first <= Final(hunks[j])
    <3> HIDE DEF Final
    <3> QED BY <1>4
  <2>2. hunks[j].first < hunks[i].first /\ hunks[j].first + hunks[j].lines <= hunks[i].first
    BY <2>1 DEF HunksInOrder
  <2> QED BY <1>1, <1>2, <1>3, <2>1, <2>2
<1> HIDE DEF I
<1>7. I \in SUBSET Nat /\ I # {}
  BY <1>2, <1>5 DEF I
<1>8. Min(I) \in I /\ \A j \in I : Min(I) <= j
  BY <1>7, MinIs
<1>9. Min(I) = i
  BY <1>2, <1>5, <1>6, <1>7, <1>8
<1> QED BY <1>9 DEF I

\* Where the line of a declaration is replaced by one with another name, the symbol is scored by its
\* old name too, though only the first hunk that touches it is looked at (detectDeclRename).
THEOREM RenamesAreSeen == AnalysisSpec => []RenameIsSeen
<1>1. AnalysisInv => RenameIsSeen
  <2> SUFFICES ASSUME AnalysisInv, NEW c \in Scored, NEW i \in DOMAIN Hunks,
                      Hunks[i].file = SymbolOf(input.code, c.qn).file, c.method # None,
                      NEW k \in DOMAIN Hunks[i].body, Declares(Hunks[i], k, SymbolOf(input.code, c.qn))
               PROVE  c.renamedFrom = matchSingleIdentSwap(Hunks[i].body[k - 1].text, Hunks[i].body[k].text,
                                                           SymbolOf(input.code, c.qn).name)
    BY DEF RenameIsSeen
  <2>1. PICK r \in DOMAIN Hunks : \E s \in Touched(input.code, Hunks[r]) :
          /\ c = Contribution(input.code, s, RenamedFrom(input.code, Hunks, s), report.outage)
          /\ s \in input.code.symbols /\ s.file = Hunks[r].file /\ SymbolOf(input.code, c.qn) = s
    BY ScoredIs
  <2>2. PICK s \in Touched(input.code, Hunks[r]) :
          /\ c = Contribution(input.code, s, RenamedFrom(input.code, Hunks, s), report.outage)
          /\ s \in input.code.symbols /\ s.file = Hunks[r].file /\ SymbolOf(input.code, c.qn) = s
    BY <2>1
  <2>3. c.renamedFrom = RenamedFrom(input.code, Hunks, s)
    BY <2>2, ContributionIs
  <2>4. IsGraph(input.code) /\ HunksInOrder(Hunks) /\ IsHunk(Hunks[i]) /\ s.first \in Nat
    <3>1. IsGraph(input.code) /\ HunksInOrder(Hunks)
      BY ReadyIs DEF Hunks
    <3> QED BY <2>2, <3>1 DEF IsGraph, HunksInOrder
  <2>5. Min({j \in DOMAIN Hunks : s \in Touched(input.code, Hunks[j])}) = i
    BY <2>2, <2>4, FirstTouches
  <2>6. RenamedFrom(input.code, Hunks, s) = detectDeclRename(Hunks[i], s)
    BY <2>5 DEF RenamedFrom
  <2>7. detectDeclRename(Hunks[i], s)
          = matchSingleIdentSwap(Hunks[i].body[k - 1].text, Hunks[i].body[k].text, s.name)
    <3> DEFINE h == Hunks[i]
    <3>1. k \in DOMAIN h.body /\ Declares(h, k, s) /\ IsHunk(h)
      BY <2>2, <2>4
    <3> HIDE DEF h
    <3>2. detectDeclRename(h, s) = matchSingleIdentSwap(h.body[k - 1].text, h.body[k].text, s.name)
      BY <2>4, <3>1, DeclarationFound
    <3> QED BY <3>2 DEF h
  <2> QED BY <2>2, <2>3, <2>6, <2>7
<1> QED BY <1>1, AnalysisIsOfTheDiff, PTL

-----------------------------------------------------------------------------
(* Chains of calls.                                                        *)

\* The names a chain of calls may have, and the chains of at most n names from one on.
Names(code, qn) == {qn} \union {e[1] : e \in code.calls}
Chains(code, qn, n) == {w \in Seq(Names(code, qn)) : Len(w) \in 1..n /\ w[1] = qn /\ IsChain(code, w)}

\* A caller of the last of a chain makes it longer.
LEMMA LongerChain ==
  ASSUME NEW code, IsGraph(code), NEW qn, NEW n \in Nat, NEW w \in Chains(code, qn, n),
         NEW e \in code.calls, e[2] = Last(w)
  PROVE  Append(w, e[1]) \in Chains(code, qn, n + 1) /\ Last(Append(w, e[1])) = e[1]
<1> DEFINE N == Names(code, qn)
           m == Len(w)
           v == Append(w, e[1])
<1>1. w \in Seq(N) /\ m \in 1..n /\ w[1] = qn /\ \A i \in 1..(m - 1) : <<w[i + 1], w[i]>> \in code.calls
  BY DEF Chains, IsChain
<1>2. e[1] \in N /\ e = <<e[1], e[2]>> /\ e[2] = w[m]
  BY DEF Names, IsGraph, Last
<1> HIDE DEF N, v
<1>3. /\ v \in Seq(N) /\ Len(v) = m + 1 /\ v[m + 1] = e[1]
      /\ \A i \in 1..m : v[i] = w[i]
  BY <1>1, <1>2, AppendProperties DEF v
<1> HIDE DEF m
<1>4. ASSUME NEW i \in 1..m PROVE <<v[i + 1], v[i]>> \in code.calls
  <2>1. CASE i = m
    BY <1>1, <1>2, <1>3, <2>1
  <2>2. CASE i # m
    <3>1. i \in 1..(m - 1) /\ i + 1 \in 1..m
      BY <1>1, <2>2
    <3> QED BY <1>1, <1>3, <3>1
  <2> QED BY <2>1, <2>2
<1>5. IsChain(code, v)
  <2>1. Len(v) - 1 = m
    BY <1>1, <1>3
  <2> QED BY <1>4, <2>1 DEF IsChain
<1>6. Len(v) \in 1..(n + 1) /\ v[1] = qn
  BY <1>1, <1>3
<1>7. Last(v) = e[1]
  BY <1>3 DEF Last
<1> QED BY <1>3, <1>5, <1>6, <1>7 DEF Chains, N, v

\* A chain of more than one name is one shorter, and a call.
LEMMA ShorterChain ==
  ASSUME NEW code, NEW qn, NEW n \in Nat, NEW w \in Chains(code, qn, n + 1), Len(w) > 1
  PROVE  \E v \in Chains(code, qn, n) :
           /\ Len(v) = Len(w) - 1 /\ w = Append(v, Last(w))
           /\ <<Last(w), Last(v)>> \in code.calls
<1> DEFINE N == Names(code, qn)
           m == Len(w) - 1
           v == [i \in 1..m |-> w[i]]
<1>1. w \in Seq(N) /\ m \in Nat /\ m >= 1 /\ m <= n /\ Len(w) = m + 1 /\ w[1] = qn
      /\ \A i \in 1..m : <<w[i + 1], w[i]>> \in code.calls
  BY DEF Chains, IsChain
<1>2. \A i \in 1..(m + 1) : w[i] \in N
  BY <1>1
<1> HIDE DEF N, m
<1>3. v \in Seq(N) /\ Len(v) = m
  <2>1. v \in [1..m -> N]
    BY <1>1, <1>2
  <2> QED BY <1>1, <2>1, SeqDef
<1>4. \A i \in 1..m : v[i] = w[i]
  OBVIOUS
<1> HIDE DEF v
<1>5. w = Append(v, w[m + 1])
  <2> DEFINE u == Append(v, w[m + 1])
  <2>1. w[m + 1] \in N
    BY <1>1, <1>2
  <2>2. u \in Seq(N) /\ Len(u) = m + 1 /\ u[m + 1] = w[m + 1] /\ \A i \in 1..m : u[i] = v[i]
    BY <1>3, <2>1, AppendProperties
  <2> HIDE DEF u
  <2>3. \A i \in 1..(m + 1) : u[i] = w[i]
    BY <1>1, <1>4, <2>2
  <2>4. u = w
    BY <1>1, <2>2, <2>3, SeqEqual
  <2> QED BY <2>4 DEF u
<1>6. v \in Chains(code, qn, n)
  <2>1. Len(v) \in 1..n /\ v[1] = qn
    BY <1>1, <1>3, <1>4
  <2>2. \A i \in 1..(m - 1) : <<v[i + 1], v[i]>> \in code.calls
    <3> TAKE i \in 1..(m - 1)
    <3>1. i \in 1..m /\ i + 1 \in 1..m
      BY <1>1
    <3> QED BY <1>1, <1>4, <3>1
  <2> QED BY <1>3, <2>1, <2>2 DEF Chains, IsChain, N
<1>7. Last(w) = w[m + 1] /\ Last(v) = w[m]
  BY <1>1, <1>3, <1>4 DEF Last
<1>8. <<Last(w), Last(v)>> \in code.calls
  BY <1>1, <1>7
<1> QED BY <1>3, <1>5, <1>6, <1>7, <1>8 DEF m

\* Every chain of at most depth calls is found.
LEMMA WaysAre ==
  ASSUME NEW code, IsGraph(code), NEW qn, NEW depth \in Nat
  PROVE  Ways(code, qn, depth) = Chains(code, qn, depth + 1)
<1> DEFINE Grown(S) == S \union UNION {{Append(w, e[1]) : e \in {c \in code.calls : c[2] = Last(w)}} : w \in S}
           V == SUBSET Seq(Names(code, qn))
           g == [p \in V \X (1..depth) |-> Grown(p[1])]
           Step(f) == [d \in 0..depth |-> IF d = 0 THEN {<<qn>>} ELSE Grown(f[d - 1])]
           W == CHOOSE f : f = Step(f)
<1>0. qn \in Names(code, qn) /\ \A e \in code.calls : e[1] \in Names(code, qn)
  BY DEF Names
<1>1. g \in [V \X (1..depth) -> V] /\ {<<qn>>} \in V
  <2>1. \A w \in Seq(Names(code, qn)), e \in code.calls : Append(w, e[1]) \in Seq(Names(code, qn))
    BY <1>0, AppendProperties
  <2>2. \A S \in V : Grown(S) \in V
    BY <2>1
  <2>3. <<qn>> \in Seq(Names(code, qn))
    BY <1>0
  <2> HIDE DEF Grown
  <2> QED BY <2>2, <2>3
<1> HIDE DEF Grown
<1>2. PICK f : IsRec(f, depth, V, {<<qn>>}, g)
  <2> HIDE DEF g, V
  <2> QED BY <1>1, RecExists
<1>3. f = Step(f)
  <2>1. f \in [0..depth -> V]
    BY <1>2 DEF IsRec
  <2>2. \A d \in 0..depth : f[d] = IF d = 0 THEN {<<qn>>} ELSE g[<<f[d - 1], d>>]
    <3> HIDE DEF g, V
    <3> QED BY <1>2 DEF IsRec
  <2>3. \A d \in 0..depth : d # 0 => g[<<f[d - 1], d>>] = Grown(f[d - 1])
    <3> TAKE d \in 0..depth
    <3> HAVE d # 0
    <3>1. <<f[d - 1], d>> \in V \X (1..depth)
      <4>1. d - 1 \in 0..depth /\ d \in 1..depth
        OBVIOUS
      <4> HIDE DEF V
      <4> QED BY <2>1, <4>1
    <3> HIDE DEF V
    <3> QED BY <3>1
  <2> HIDE DEF g, V
  <2> QED BY <2>1, <2>2, <2>3
<1>4. W = Step(W)
  <2> HIDE DEF Step
  <2> QED BY <1>3
<1>5. Ways(code, qn, depth) = W[depth]
  BY DEF Ways, W, Step, Grown
<1> HIDE DEF W
<1>6. W[0] = {<<qn>>} /\ \A d \in 1..depth : W[d] = Grown(W[d - 1])
  <2>1. \A d \in 0..depth : W[d] = IF d = 0 THEN {<<qn>>} ELSE Grown(W[d - 1])
    BY <1>4
  <2> QED BY <2>1
<1> DEFINE bad == {d \in 0..depth : W[d] # Chains(code, qn, d + 1)}
<1>7. bad = {}
  <2> SUFFICES ASSUME bad # {} PROVE FALSE
    OBVIOUS
  <2>1. PICK d \in bad : \A m \in bad : d <= m
    <3>1. bad \in SUBSET Nat
      OBVIOUS
    <3> HIDE DEF bad
    <3> QED BY <3>1, Least
  <2>2. d \in 0..depth /\ W[d] # Chains(code, qn, d + 1)
    BY <2>1
  <2>3. d # 0
    <3> SUFFICES W[0] = Chains(code, qn, 0 + 1)
      BY <2>2
    <3>1. <<qn>> \in Chains(code, qn, 0 + 1)
      <4>1. <<qn>> \in Seq(Names(code, qn)) /\ Len(<<qn>>) = 1 /\ <<qn>>[1] = qn
        BY <1>0
      <4> QED BY <4>1 DEF Chains, IsChain
    <3>2. ASSUME NEW w \in Chains(code, qn, 0 + 1) PROVE w = <<qn>>
      <4>1. w \in Seq(Names(code, qn)) /\ Len(w) = 1 /\ w[1] = qn
        BY DEF Chains
      <4> QED BY <4>1
    <3> QED BY <1>6, <3>1, <3>2
  <2>4. d \in 1..depth /\ d - 1 \in 0..depth /\ d - 1 \notin bad
    BY <2>1, <2>2, <2>3
  <2> DEFINE C == Chains(code, qn, d)
  <2>5. W[d - 1] = C /\ d \in Nat
    <3>1. W[d - 1] = Chains(code, qn, (d - 1) + 1) /\ (d - 1) + 1 = d
      BY <2>4
    <3> QED BY <2>4, <3>1
  <2>6. W[d] = C \union UNION {{Append(w, e[1]) : e \in {c \in code.calls : c[2] = Last(w)}} : w \in C}
    BY <1>6, <2>4, <2>5 DEF Grown
  <2>7. ASSUME NEW v \in W[d] PROVE v \in Chains(code, qn, d + 1)
    <3>1. CASE v \in C
      BY <2>5, <3>1 DEF Chains
    <3>2. CASE v \notin C
      <4>1. PICK w \in C : \E e \in code.calls : e[2] = Last(w) /\ v = Append(w, e[1])
        <5> HIDE DEF C
        <5> QED BY <2>6, <3>2
      <4> QED BY <2>5, <4>1, LongerChain
    <3> QED BY <3>1, <3>2
  <2>8. ASSUME NEW w \in Chains(code, qn, d + 1) PROVE w \in W[d]
    <3>1. CASE Len(w) <= d
      <4>1. w \in C
        BY <2>5, <3>1 DEF Chains
      <4> HIDE DEF C
      <4> QED BY <2>6, <4>1
    <3>2. CASE ~(Len(w) <= d)
      <4>1. Len(w) > 1
        BY <2>4, <2>5, <3>2 DEF Chains
      <4>2. PICK v \in C : w = Append(v, Last(w)) /\ <<Last(w), Last(v)>> \in code.calls
        BY <2>5, <4>1, ShorterChain
      <4> DEFINE e == <<Last(w), Last(v)>>
      <4>3. e \in code.calls /\ e[2] = Last(v) /\ e[1] = Last(w)
        BY <4>2
      <4> HIDE DEF e, C
      <4>4. w \in {Append(v, c[1]) : c \in {c \in code.calls : c[2] = Last(v)}}
        BY <4>2, <4>3
      <4> QED BY <2>6, <4>4
    <3> QED BY <3>1, <3>2
  <2>9. W[d] = Chains(code, qn, d + 1)
    BY <2>7, <2>8
  <2> QED BY <2>2, <2>9
<1>8. W[depth] = Chains(code, qn, depth + 1)
  BY <1>7
<1> QED BY <1>5, <1>8

-----------------------------------------------------------------------------
(* The callers of a symbol.                                                *)

\* A chain is its first, its path and its last.
LEMMA PathIs ==
  ASSUME NEW N, NEW w \in Seq(N), Len(w) >= 2
  PROVE  /\ PathOf(w) \in Seq(N) /\ Len(PathOf(w)) = Len(w) - 2
         /\ w = <<w[1]>> \o PathOf(w) \o <<Last(w)>>
<1> DEFINE n == Len(w)
           t == Tail(w)
           p == Front(t)
<1>1. n \in Nat /\ n >= 2 /\ \A i \in 1..n : w[i] \in N
  OBVIOUS
<1>2. t \in Seq(N) /\ Len(t) = n - 1 /\ \A i \in 1..(n - 1) : t[i] = w[i + 1]
  <2>1. w # <<>>
    BY <1>1
  <2> QED BY <2>1, HeadTailProperties
<1> HIDE DEF t
<1>3. p \in Seq(N) /\ Len(p) = n - 2 /\ \A i \in 1..(n - 2) : p[i] = w[i + 1]
  <2> HIDE DEF n
  <2>1. \A i \in 1..(n - 2) : t[i] \in N
    BY <1>1, <1>2
  <2>2. /\ SubSeq(t, 1, n - 2) \in Seq(N)
        /\ Len(SubSeq(t, 1, n - 2)) = IF 1 <= n - 2 THEN n - 2 - 1 + 1 ELSE 0
        /\ \A i \in 1..(n - 2 - 1 + 1) : SubSeq(t, 1, n - 2)[i] = t[1 + i - 1]
    BY <1>1, <2>1, SubSeqProperties
  <2>3. p = SubSeq(t, 1, n - 2)
    <3>1. Len(t) - 1 = n - 2
      BY <1>1, <1>2
    <3> QED BY <3>1 DEF Front
  <2>4. Len(p) = n - 2
    BY <1>1, <2>2, <2>3
  <2>5. \A i \in 1..(n - 2) : p[i] = t[i]
    <3> TAKE i \in 1..(n - 2)
    <3>1. i \in 1..(n - 2 - 1 + 1) /\ 1 + i - 1 = i
      BY <1>1
    <3> QED BY <2>2, <2>3, <3>1
  <2>6. \A i \in 1..(n - 2) : t[i] = w[i + 1]
    BY <1>1, <1>2
  <2> HIDE DEF p
  <2> QED BY <2>2, <2>3, <2>4, <2>5, <2>6
<1>4. PathOf(w) = p
  BY DEF PathOf, t
<1> HIDE DEF p
<1> DEFINE a == <<w[1]>>
           b == <<Last(w)>>
           u == (a \o p) \o b
<1>5. a \in Seq(N) /\ b \in Seq(N) /\ Len(a) = 1 /\ Len(b) = 1 /\ a[1] = w[1] /\ b[1] = w[n]
  BY <1>1 DEF Last
<1> HIDE DEF a, b, n
<1> DEFINE ap == a \o p
<1>6. ap \in Seq(N) /\ Len(ap) = n - 1 /\ \A i \in 1..(n - 1) : ap[i] = w[i]
  <2>1. /\ ap \in Seq(N) /\ Len(ap) = 1 + (n - 2)
        /\ \A i \in 1..(1 + (n - 2)) : ap[i] = IF i <= 1 THEN a[i] ELSE p[i - 1]
    <3>1. \A s1, s2 \in Seq(N) :
            /\ s1 \o s2 \in Seq(N) /\ Len(s1 \o s2) = Len(s1) + Len(s2)
            /\ \A i \in 1..(Len(s1) + Len(s2)) :
                 (s1 \o s2)[i] = IF i <= Len(s1) THEN s1[i] ELSE s2[i - Len(s1)]
      BY ConcatProperties
    <3>2. /\ a \o p \in Seq(N) /\ Len(a \o p) = Len(a) + Len(p)
          /\ \A i \in 1..(Len(a) + Len(p)) :
               (a \o p)[i] = IF i <= Len(a) THEN a[i] ELSE p[i - Len(a)]
      BY <1>3, <1>5, <3>1
    <3> QED BY <1>3, <1>5, <3>2
  <2> HIDE DEF ap
  <2>2. \A i \in 1..(n - 1) : ap[i] = w[i]
    <3> TAKE i \in 1..(n - 1)
    <3>1. CASE i = 1
      BY <1>1, <1>5, <2>1, <3>1
    <3>2. CASE i # 1
      <4>1. i - 1 \in 1..(n - 2) /\ i \in 1..(1 + (n - 2)) /\ ~(i <= 1) /\ (i - 1) + 1 = i
        BY <1>1, <3>2
      <4> QED BY <1>3, <2>1, <4>1
    <3> QED BY <3>1, <3>2
  <2> QED BY <1>1, <2>1, <2>2
<1> HIDE DEF ap
<1>7. u = ap \o b
  BY DEF ap
<1>8. u \in Seq(N) /\ Len(u) = n /\ \A i \in 1..n : u[i] = w[i]
  <2> DEFINE v == ap \o b
  <2>1. /\ v \in Seq(N) /\ Len(v) = (n - 1) + 1
        /\ \A i \in 1..((n - 1) + 1) : v[i] = IF i <= n - 1 THEN ap[i] ELSE b[i - (n - 1)]
    <3>1. \A s1, s2 \in Seq(N) :
            /\ s1 \o s2 \in Seq(N) /\ Len(s1 \o s2) = Len(s1) + Len(s2)
            /\ \A i \in 1..(Len(s1) + Len(s2)) :
                 (s1 \o s2)[i] = IF i <= Len(s1) THEN s1[i] ELSE s2[i - Len(s1)]
      BY ConcatProperties
    <3>2. /\ ap \o b \in Seq(N) /\ Len(ap \o b) = Len(ap) + Len(b)
          /\ \A i \in 1..(Len(ap) + Len(b)) :
               (ap \o b)[i] = IF i <= Len(ap) THEN ap[i] ELSE b[i - Len(ap)]
      BY <1>5, <1>6, <3>1
    <3> QED BY <1>5, <1>6, <3>2
  <2> HIDE DEF v
  <2>2. \A i \in 1..n : v[i] = w[i]
    <3> TAKE i \in 1..n
    <3>1. CASE i = n
      <4>1. i \in 1..((n - 1) + 1) /\ ~(i <= n - 1) /\ i - (n - 1) = 1
        BY <1>1, <3>1
      <4> QED BY <1>5, <2>1, <3>1, <4>1
    <3>2. CASE i # n
      <4>1. i \in 1..((n - 1) + 1) /\ i \in 1..(n - 1) /\ i <= n - 1
        BY <1>1, <3>2
      <4> QED BY <1>6, <2>1, <4>1
    <3> QED BY <3>1, <3>2
  <2>3. Len(v) = n /\ v = u
    BY <1>1, <1>7, <2>1 DEF v
  <2> QED BY <2>1, <2>2, <2>3
<1> HIDE DEF u
<1>9. u = w
  BY <1>8, SeqEqual DEF n
<1> QED BY <1>3, <1>4, <1>9 DEF u, a, b, n

\* The weights of the callers (score.weightForDepth).
LEMMA WeightIs ==
  Weight(1) = 100 /\ Weight(2) = 50 /\ Weight(3) = 25
  BY DEF Weight

\* A caller found by chains of at most depth calls, with its distance and a chain.
Found(code, qn, depth, q) == {w \in Ways(code, qn, depth) : Last(w) = q}
Best(code, qn, depth, q) == BestDepth({Len(w) - 1 : w \in Found(code, qn, depth, q)})
Nearest(code, qn, depth, q) ==
  CHOOSE w \in Found(code, qn, depth, q) : Len(w) = Best(code, qn, depth, q) + 1
IsCaller(r, code, qn, depth) ==
  /\ r.depth \in 1..depth /\ r.weight = Weight(r.depth) /\ r.preRename = FALSE /\ r.qn # qn
  /\ r.path \in Seq(Names(code, qn)) /\ Len(r.path) = r.depth - 1
  /\ <<qn>> \o r.path \o <<r.qn>> \in Chains(code, qn, depth + 1)
  /\ \A w \in Chains(code, qn, depth + 1) : Last(w) = r.qn => r.depth <= Len(w) - 1
  /\ \E e \in code.calls : r.qn = e[1]

\* FanIn finds every caller within reach, once, at its distance (score.FanIn).
LEMMA FanInIs ==
  ASSUME NEW code, IsGraph(code), NEW qn, NEW depth \in Nat
  PROVE  /\ \A r \in FanIn(code, qn, depth) : IsCaller(r, code, qn, depth)
         /\ \A w \in Chains(code, qn, depth + 1) : Last(w) # qn => \E r \in FanIn(code, qn, depth) : r.qn = Last(w)
         /\ \A r, s \in FanIn(code, qn, depth) : r.qn = s.qn => r = s
         /\ IsFiniteSet(FanIn(code, qn, depth))
<1> DEFINE N == Names(code, qn)
           C == Chains(code, qn, depth + 1)
           B(q) == Best(code, qn, depth, q)
           P(q) == PathOf(Nearest(code, qn, depth, q))
           R(q) == [qn |-> q, depth |-> B(q), weight |-> Weight(B(q)), preRename |-> FALSE, path |-> P(q)]
           Q == {Last(w) : w \in C} \ {qn}
<1>1. Ways(code, qn, depth) = C
  BY WaysAre
<1>2. FanIn(code, qn, depth) = {R(q) : q \in Q}
  <2>1. FanIn(code, qn, depth) = {R(q) : q \in {Last(w) : w \in Ways(code, qn, depth)} \ {qn}}
    BY DEF FanIn, Best, Nearest, Found
  <2> QED BY <1>1, <2>1
<1>3. \A q : Found(code, qn, depth, q) = {w \in C : Last(w) = q}
  BY <1>1 DEF Found
<1> HIDE DEF C, N
<1>4. ASSUME NEW w \in C
      PROVE  w \in Seq(N) /\ Len(w) \in 1..(depth + 1) /\ w[1] = qn /\ (Last(w) # qn => Len(w) >= 2)
             /\ (Len(w) >= 2 => \E e \in code.calls : Last(w) = e[1])
  <2>1. w \in Seq(N) /\ Len(w) \in 1..(depth + 1) /\ w[1] = qn
    BY DEF C, Chains, N
  <2>2. Last(w) # qn => Len(w) >= 2
    BY <2>1 DEF Last
  <2>3. ASSUME Len(w) >= 2 PROVE \E e \in code.calls : Last(w) = e[1]
    <3>1. w \in Chains(code, qn, depth + 1) /\ Len(w) > 1
      BY <2>1, <2>3 DEF C
    <3>2. PICK v \in Chains(code, qn, depth) : <<Last(w), Last(v)>> \in code.calls
      BY <3>1, ShorterChain
    <3> QED BY <3>2
  <2> QED BY <2>1, <2>2, <2>3
<1>5. ASSUME NEW q \in Q
      PROVE  /\ B(q) \in 1..depth /\ (\A w \in C : Last(w) = q => B(q) <= Len(w) - 1)
             /\ Nearest(code, qn, depth, q) \in C
             /\ Last(Nearest(code, qn, depth, q)) = q /\ Len(Nearest(code, qn, depth, q)) = B(q) + 1
  <2> DEFINE F == Found(code, qn, depth, q)
             D == {Len(w) - 1 : w \in F}
  <2>1. F = {w \in C : Last(w) = q}
    BY <1>3
  <2> HIDE DEF F
  <2>2. D \in SUBSET Nat /\ D \in SUBSET (1..depth)
    <3>1. \A w \in F : Len(w) \in 2..(depth + 1)
      BY <1>4, <2>1
    <3>2. \A w \in F : Len(w) - 1 \in 1..depth
      BY <3>1
    <3> QED BY <3>2
  <2>3. D # {}
    BY <2>1
  <2> HIDE DEF D
  <2>4. Min(D) \in D /\ \A d \in D : Min(D) <= d
    BY <2>2, <2>3, MinIs
  <2>5. B(q) = Min(D)
    BY DEF Best, BestDepth, D, F
  <2> HIDE DEF B
  <2>6. PICK v \in F : Len(v) - 1 = B(q)
    BY <2>4, <2>5 DEF D
  <2>7. Len(v) = B(q) + 1
    <3>1. Len(v) \in Nat
      BY <1>4, <2>1
    <3> QED BY <2>6, <3>1
  <2>8. Nearest(code, qn, depth, q) \in F /\ Len(Nearest(code, qn, depth, q)) = B(q) + 1
    BY <2>7 DEF Nearest, F, B
  <2>9. \A w \in C : Last(w) = q => B(q) <= Len(w) - 1
    BY <2>1, <2>4, <2>5 DEF D
  <2>10. B(q) \in 1..depth
    BY <2>2, <2>4, <2>5
  <2> QED BY <2>1, <2>8, <2>9, <2>10
<1>6. ASSUME NEW q \in Q PROVE IsCaller(R(q), code, qn, depth)
  <2> DEFINE w == Nearest(code, qn, depth, q)
             p == P(q)
             r == R(q)
  <2>1. w \in C /\ Last(w) = q /\ Len(w) = B(q) + 1 /\ B(q) \in 1..depth /\ q # qn
    BY <1>5
  <2>2. w \in Seq(N) /\ w[1] = qn /\ Len(w) >= 2 /\ \E e \in code.calls : q = e[1]
    BY <1>4, <2>1
  <2> HIDE DEF w
  <2>3. PathOf(w) \in Seq(N) /\ Len(PathOf(w)) = Len(w) - 2 /\ w = <<w[1]>> \o PathOf(w) \o <<Last(w)>>
    BY <2>2, PathIs
  <2>4. p = PathOf(w)
    BY DEF w
  <2> HIDE DEF p, B
  <2>5. p \in Seq(N) /\ Len(p) = B(q) - 1 /\ <<qn>> \o p \o <<q>> \in C
    <3>1. <<w[1]>> = <<qn>> /\ <<Last(w)>> = <<q>>
      BY <2>1, <2>2
    <3>2. w = <<qn>> \o p \o <<q>>
      BY <2>3, <2>4, <3>1
    <3>3. Len(p) = B(q) - 1
      BY <2>1, <2>3, <2>4
    <3> QED BY <2>1, <2>3, <2>4, <3>2, <3>3
  <2>6. r = [qn |-> q, depth |-> B(q), weight |-> Weight(B(q)), preRename |-> FALSE, path |-> p]
    BY DEF p
  <2>7. r.qn = q /\ r.depth = B(q) /\ r.weight = Weight(B(q)) /\ r.preRename = FALSE /\ r.path = p
    BY <2>6
  <2>8. \A v \in C : Last(v) = q => B(q) <= Len(v) - 1
    BY <1>5 DEF B
  <2> HIDE DEF r
  <2>9. IsCaller(r, code, qn, depth)
    BY <2>1, <2>2, <2>5, <2>7, <2>8 DEF IsCaller, C, N
  <2> QED BY <2>9 DEF r
<1>7. \A q : R(q).qn = q
  OBVIOUS
<1> HIDE DEF R
<1>8. \A r \in FanIn(code, qn, depth) : IsCaller(r, code, qn, depth)
  BY <1>2, <1>6
<1>9. \A w \in C : Last(w) # qn => \E r \in FanIn(code, qn, depth) : r.qn = Last(w)
  BY <1>2, <1>7
<1>10. \A r, s \in FanIn(code, qn, depth) : r.qn = s.qn => r = s
  BY <1>2, <1>7
<1>11. IsFiniteSet(FanIn(code, qn, depth))
  <2>1. IsFiniteSet(code.calls)
    BY DEF IsGraph
  <2> DEFINE E == {e[1] : e \in code.calls}
  <2>2. IsFiniteSet(E)
    <3> DEFINE f == [e \in code.calls |-> e[1]]
    <3>1. IsFiniteSet({f[e] : e \in code.calls})
      <4> HIDE DEF f
      <4> QED BY <2>1, ImageIsFinite
    <3>2. {f[e] : e \in code.calls} = E
      OBVIOUS
    <3> QED BY <3>1, <3>2
  <2>3. Q \in SUBSET E
    BY <1>4
  <2> HIDE DEF E, Q
  <2>4. IsFiniteSet(Q)
    BY <2>2, <2>3, FS_Subset
  <2> DEFINE F == {R(q) : q \in Q}
             g == [q \in Q |-> R(q)]
  <2>5. {g[q] : q \in Q} = F
    OBVIOUS
  <2>6. IsFiniteSet(F)
    <3> HIDE DEF F, g
    <3> QED BY <2>4, <2>5, ImageIsFinite
  <2> QED BY <1>2, <2>6
<1> QED BY <1>8, <1>9, <1>10, <1>11 DEF C

-----------------------------------------------------------------------------
(* Layers of callers, and the callers by an old name.                      *)

\* The names that chains of at most d calls from a name of S lead to.
Reached(code, S, d) == {Last(w) : w \in UNION {Chains(code, q, d + 1) : q \in S}}

\* Who reaches S in d calls: those who do in d - 1, and their callers.
LEMMA ReachedIs ==
  ASSUME NEW code, IsGraph(code), NEW S
  PROVE  /\ Reached(code, S, 0) = S
         /\ \A d \in Nat \ {0} :
              Reached(code, S, d) = Reached(code, S, d - 1) \union Calling(code, Reached(code, S, d - 1))
<1>1. Reached(code, S, 0) = S
  <2>1. ASSUME NEW q \in S PROVE q \in Reached(code, S, 0)
    <3>1. <<q>> \in Seq(Names(code, q)) /\ Len(<<q>>) = 1 /\ <<q>>[1] = q
      BY DEF Names
    <3>2. <<q>> \in Chains(code, q, 0 + 1) /\ Last(<<q>>) = q
      BY <3>1 DEF Chains, IsChain, Last
    <3> QED BY <3>2 DEF Reached
  <2>2. ASSUME NEW q \in S, NEW w \in Chains(code, q, 0 + 1) PROVE Last(w) = q
    BY DEF Chains, Last
  <2> QED BY <2>1, <2>2 DEF Reached
<1>2. ASSUME NEW d \in Nat \ {0}
      PROVE  Reached(code, S, d) = Reached(code, S, d - 1) \union Calling(code, Reached(code, S, d - 1))
  <2> DEFINE A == Reached(code, S, d)
             B == Reached(code, S, d - 1)
  <2>0. (d - 1) + 1 = d /\ d - 1 \in Nat
    OBVIOUS
  <2>1. ASSUME NEW q \in B PROVE q \in A
    <3>1. PICK s \in S : \E w \in Chains(code, s, d) : q = Last(w)
      BY <2>0 DEF Reached
    <3>2. PICK w \in Chains(code, s, d) : q = Last(w)
      BY <3>1
    <3>3. w \in Chains(code, s, d + 1)
      BY DEF Chains
    <3> QED BY <3>2, <3>3 DEF Reached
  <2>2. ASSUME NEW q \in Calling(code, B) PROVE q \in A
    <3>1. PICK e \in code.calls : e[2] \in B /\ q = e[1]
      BY DEF Calling
    <3>2. PICK s \in S : \E w \in Chains(code, s, d) : e[2] = Last(w)
      BY <2>0, <3>1 DEF Reached
    <3>3. PICK w \in Chains(code, s, d) : e[2] = Last(w)
      BY <3>2
    <3>4. Append(w, e[1]) \in Chains(code, s, d + 1) /\ Last(Append(w, e[1])) = e[1]
      BY <3>3, LongerChain
    <3> QED BY <3>1, <3>4 DEF Reached
  <2>3. ASSUME NEW q \in A PROVE q \in B \union Calling(code, B)
    <3>1. PICK s \in S : \E w \in Chains(code, s, d + 1) : q = Last(w)
      BY DEF Reached
    <3>2. PICK w \in Chains(code, s, d + 1) : q = Last(w)
      BY <3>1
    <3>3. CASE Len(w) <= d
      <4>1. w \in Chains(code, s, (d - 1) + 1)
        BY <2>0, <3>3 DEF Chains
      <4> QED BY <3>2, <4>1 DEF Reached
    <3>4. CASE ~(Len(w) <= d)
      <4>1. Len(w) > 1
        BY <3>4 DEF Chains
      <4>2. PICK v \in Chains(code, s, d) : <<Last(w), Last(v)>> \in code.calls
        BY <4>1, ShorterChain
      <4>3. Last(v) \in B
        BY <2>0 DEF Reached
      <4> DEFINE e == <<Last(w), Last(v)>>
      <4>4. e \in code.calls /\ e[2] \in B /\ e[1] = q
        <5> HIDE DEF B
        <5> QED BY <3>2, <4>2, <4>3
      <4> HIDE DEF e, B
      <4> QED BY <4>4 DEF Calling
    <3> QED BY <3>3, <3>4
  <2> QED BY <2>1, <2>2, <2>3
<1> QED BY <1>1, <1>2

\* A layer is what one more call adds.
LEMMA LayersAre ==
  ASSUME NEW code, IsGraph(code), NEW S
  PROVE  \A d \in 1..MaxDepth : Layers(code, S)[d] = Reached(code, S, d) \ Reached(code, S, d - 1)
<1> DEFINE Further(T) == T \union Calling(code, T)
           Step(f) == [d \in 0..MaxDepth |-> IF d = 0 THEN S ELSE Further(f[d - 1])]
           W == CHOOSE f : f = Step(f)
           f0 == [d \in 0..MaxDepth |-> Reached(code, S, d)]
<1>0. MaxDepth \in Nat
  BY BlastRadiusAssumption
<1>1. /\ Reached(code, S, 0) = S
      /\ \A d \in Nat \ {0} : Reached(code, S, d) = Further(Reached(code, S, d - 1))
  BY ReachedIs
<1> HIDE DEF Further
<1>2. f0 = Step(f0)
  <2>1. \A d \in 0..MaxDepth : Reached(code, S, d) = IF d = 0 THEN S ELSE Further(f0[d - 1])
    <3> TAKE d \in 0..MaxDepth
    <3>1. CASE d = 0
      BY <1>1, <3>1
    <3>2. CASE d # 0
      <4>1. d - 1 \in 0..MaxDepth /\ d \in Nat \ {0}
        BY <1>0, <3>2
      <4> QED BY <1>1, <3>2, <4>1
    <3> QED BY <3>1, <3>2
  <2> QED BY <2>1
<1>3. W = Step(W)
  <2> HIDE DEF Step, f0
  <2> QED BY <1>2
<1>4. Layers(code, S) = [d \in 1..MaxDepth |-> W[d] \ W[d - 1]]
  BY DEF Layers, W, Step, Further
<1> HIDE DEF W
<1>5. \A d \in 0..MaxDepth : W[d] = IF d = 0 THEN S ELSE Further(W[d - 1])
  BY <1>3
<1> DEFINE bad == {d \in 0..MaxDepth : W[d] # Reached(code, S, d)}
<1>6. bad = {}
  <2> SUFFICES ASSUME bad # {} PROVE FALSE
    OBVIOUS
  <2>1. PICK d \in bad : \A m \in bad : d <= m
    <3>1. bad \in SUBSET Nat
      BY <1>0
    <3> HIDE DEF bad
    <3> QED BY <3>1, Least
  <2>2. d \in 0..MaxDepth /\ W[d] # Reached(code, S, d)
    BY <2>1
  <2>3. d # 0
    BY <1>1, <1>5, <2>2
  <2>4. d - 1 \in 0..MaxDepth /\ d - 1 \notin bad /\ d \in Nat \ {0}
    BY <1>0, <2>1, <2>2, <2>3
  <2>5. W[d - 1] = Reached(code, S, d - 1)
    BY <2>4
  <2> QED BY <1>1, <1>5, <2>2, <2>3, <2>4, <2>5
<1>7. ASSUME NEW d \in 1..MaxDepth PROVE Layers(code, S)[d] = Reached(code, S, d) \ Reached(code, S, d - 1)
  <2>1. d \in 0..MaxDepth /\ d - 1 \in 0..MaxDepth
    BY <1>0
  <2>2. W[d] = Reached(code, S, d) /\ W[d - 1] = Reached(code, S, d - 1)
    BY <1>6, <2>1
  <2> QED BY <1>4, <2>2
<1> QED BY <1>7

\* The length and the ends of a chain put together of its parts.
LEMMA EndsOf ==
  ASSUME NEW N, NEW a \in N, NEW b \in N, NEW p \in Seq(N)
  PROVE  /\ <<a>> \o p \in Seq(N) /\ Len(<<a>> \o p) = Len(p) + 1 /\ (<<a>> \o p)[1] = a
         /\ Append(<<a>> \o p, b) = <<a>> \o p \o <<b>>
         /\ Len(<<a>> \o p \o <<b>>) = Len(p) + 2 /\ Last(<<a>> \o p \o <<b>>) = b
<1> DEFINE sa == <<a>>
           ap == sa \o p
           v == Append(ap, b)
<1>1. sa \in Seq(N) /\ Len(sa) = 1 /\ sa[1] = a /\ Len(p) \in Nat
  OBVIOUS
<1> HIDE DEF sa
<1>2. ap \in Seq(N) /\ Len(ap) = Len(p) + 1 /\ ap[1] = a
  <2>1. /\ ap \in Seq(N) /\ Len(ap) = Len(sa) + Len(p)
        /\ \A i \in 1..(Len(sa) + Len(p)) : ap[i] = IF i <= Len(sa) THEN sa[i] ELSE p[i - Len(sa)]
    BY <1>1, ConcatProperties
  <2> HIDE DEF ap
  <2>2. 1 \in 1..(Len(sa) + Len(p)) /\ 1 <= Len(sa)
    BY <1>1
  <2> QED BY <1>1, <2>1, <2>2
<1> HIDE DEF ap
<1>3. v = ap \o <<b>>
  BY <1>2, AppendIsConcat
<1>4. Len(v) = Len(ap) + 1 /\ v[Len(ap) + 1] = b
  BY <1>2, AppendProperties
<1> HIDE DEF v
<1>5. Len(v) = Len(p) + 2 /\ Last(v) = b
  BY <1>1, <1>2, <1>4 DEF Last
<1> QED BY <1>2, <1>3, <1>5 DEF v, ap, sa

\* The callers of those who use the old name, each by the nearest of them.
Via(code, direct) ==
  UNION {{[qn |-> r.qn, depth |-> r.depth + 1, weight |-> r.weight \div 2, preRename |-> TRUE,
           path |-> <<d.qn>> \o r.path] : r \in FanIn(code, d.qn, MaxDepth - 1)} : d \in direct}
NearestVia(code, direct, q) ==
  CHOOSE r \in Via(code, direct) : r.qn = q /\ \A s \in Via(code, direct) : s.qn = q => r.depth <= s.depth

\* The choice of expandPreRenameCallers, by name.
LEMMA ViaIs ==
  ASSUME NEW code, NEW direct, NEW self, NEW x
  PROVE  expandPreRenameCallers(code, direct, self, x) =
           IF "fan-in" \in x THEN {}
           ELSE {NearestVia(code, direct, q) :
                   q \in {r.qn : r \in Via(code, direct)} \ ({d.qn : d \in direct} \union {self})}
  BY DEF expandPreRenameCallers, Via, NearestVia

\* A caller by the old name, of the names that use it.
IsOldCaller(r, code, names, self) ==
  /\ r.preRename = TRUE /\ r.qn # self
  /\ r.depth \in 1..MaxDepth /\ r.weight = Weight(r.depth) /\ Len(r.path) = r.depth - 1
  /\ r.depth = 1 <=> r.qn \in names
  /\ r.depth > 1 => /\ r.path[1] \in names /\ IsChain(code, Append(r.path, r.qn))
                    /\ r.qn \in Layers(code, names)[r.depth - 1]

\* Every caller by the old name is one (expandPreRenameCallers).
LEMMA PreRenameIs ==
  ASSUME NEW code, IsGraph(code), NEW old, NEW self, NEW x
  PROVE  \E names : /\ \A r \in PreRename(code, old, self, x) : IsOldCaller(r, code, names, self)
                    /\ names = {r.qn : r \in {o \in PreRename(code, old, self, x) : o.depth = 1}}
<1> DEFINE P == PreRename(code, old, self, x)
           direct == oldNameCallers(code, old, self, x)
           names == {d.qn : d \in direct}
           V == Via(code, direct)
<1>0. MaxDepth \in 1..3
  BY BlastRadiusAssumption
<1>1. CASE old = None
  <2>1. P = {}
    BY <1>1 DEF PreRename
  <2> HIDE DEF P
  <2>2. {} = {r.qn : r \in {o \in P : o.depth = 1}}
    BY <2>1
  <2> QED BY <2>1, <2>2 DEF P
<1>2. CASE old # None
  <2>1. P = direct \union expandPreRenameCallers(code, direct, self, x)
    BY <1>2 DEF PreRename
  <2>2. \A d \in direct : /\ d.qn # self /\ d.depth = 1 /\ d.weight = 100 /\ d.preRename = TRUE /\ d.path = <<>>
    <3> TAKE d \in direct
    <3>1. PICK u : u # self /\ d = [qn |-> u, depth |-> 1, weight |-> 100, preRename |-> TRUE, path |-> <<>>]
      BY DEF oldNameCallers
    <3> QED BY <3>1
  <2> HIDE DEF direct, P
  <2>3. ASSUME NEW d \in direct PROVE IsOldCaller(d, code, names, self)
    <3>1. Len(d.path) = 0 /\ d.qn \in names /\ ~(d.depth > 1)
      BY <2>2
    <3> HIDE DEF names
    <3> QED BY <1>0, <2>2, <3>1, WeightIs DEF IsOldCaller
  <2>4. ASSUME NEW v \in V
        PROVE  \E d \in direct : \E r \in FanIn(code, d.qn, MaxDepth - 1) :
                 /\ IsCaller(r, code, d.qn, MaxDepth - 1)
                 /\ v.qn = r.qn /\ v.depth = r.depth + 1 /\ v.weight = r.weight \div 2 /\ v.preRename = TRUE
                 /\ v.path = <<d.qn>> \o r.path
    <3>1. PICK d \in direct : \E r \in FanIn(code, d.qn, MaxDepth - 1) :
            v = [qn |-> r.qn, depth |-> r.depth + 1, weight |-> r.weight \div 2, preRename |-> TRUE,
                 path |-> <<d.qn>> \o r.path]
      BY DEF Via
    <3>2. PICK r \in FanIn(code, d.qn, MaxDepth - 1) :
            v = [qn |-> r.qn, depth |-> r.depth + 1, weight |-> r.weight \div 2, preRename |-> TRUE,
                 path |-> <<d.qn>> \o r.path]
      BY <3>1
    <3>3. IsCaller(r, code, d.qn, MaxDepth - 1)
      BY <1>0, FanInIs
    <3> QED BY <3>2, <3>3
  <2>5. ASSUME NEW d \in direct, NEW r \in FanIn(code, d.qn, MaxDepth - 1)
        PROVE  \E v \in V : v.qn = r.qn /\ v.depth = r.depth + 1
    <3> DEFINE v == [qn |-> r.qn, depth |-> r.depth + 1, weight |-> r.weight \div 2, preRename |-> TRUE,
                     path |-> <<d.qn>> \o r.path]
    <3> DEFINE T == {[qn |-> s.qn, depth |-> s.depth + 1, weight |-> s.weight \div 2, preRename |-> TRUE,
                      path |-> <<d.qn>> \o s.path] : s \in FanIn(code, d.qn, MaxDepth - 1)}
    <3>0. v \in T
      OBVIOUS
    <3>1. v \in V
      <4> HIDE DEF v
      <4>1. T \subseteq V
        BY DEF Via
      <4> QED BY <3>0, <4>1
    <3>2. v.qn = r.qn /\ v.depth = r.depth + 1
      OBVIOUS
    <3> HIDE DEF v, V
    <3> QED BY <3>1, <3>2
  <2> HIDE DEF V
  <2>6. ASSUME NEW q \in {r.qn : r \in V}
        PROVE  /\ NearestVia(code, direct, q) \in V /\ NearestVia(code, direct, q).qn = q
               /\ \A s \in V : s.qn = q => NearestVia(code, direct, q).depth <= s.depth
    <3> DEFINE T == {r.depth : r \in {s \in V : s.qn = q}}
    <3>1. T \in SUBSET Nat
      <4>1. \A v \in V : v.depth \in Nat
        <5> TAKE v \in V
        <5>1. PICK d \in direct : \E r \in FanIn(code, d.qn, MaxDepth - 1) :
                IsCaller(r, code, d.qn, MaxDepth - 1) /\ v.depth = r.depth + 1
          BY <2>4
        <5>2. PICK r \in FanIn(code, d.qn, MaxDepth - 1) :
                IsCaller(r, code, d.qn, MaxDepth - 1) /\ v.depth = r.depth + 1
          BY <5>1
        <5> QED BY <1>0, <5>2 DEF IsCaller
      <4> QED BY <4>1
    <3>2. T # {}
      OBVIOUS
    <3> HIDE DEF T
    <3>3. PICK m \in T : \A k \in T : m <= k
      BY <3>1, <3>2, Least
    <3>4. PICK r \in V : r.qn = q /\ r.depth = m
      BY DEF T
    <3>5. r.qn = q /\ \A s \in V : s.qn = q => r.depth <= s.depth
      BY <3>3, <3>4 DEF T
    <3> QED BY <3>5 DEF NearestVia, V
  <2>7. ASSUME NEW q \in {r.qn : r \in V} \ (names \union {self})
        PROVE  IsOldCaller(NearestVia(code, direct, q), code, names, self) /\ NearestVia(code, direct, q).depth # 1
    <3> DEFINE v == NearestVia(code, direct, q)
    <3>1. v \in V /\ v.qn = q /\ \A s \in V : s.qn = q => v.depth <= s.depth
      BY <2>6
    <3> HIDE DEF v
    <3>2. PICK d \in direct : \E r \in FanIn(code, d.qn, MaxDepth - 1) :
             /\ IsCaller(r, code, d.qn, MaxDepth - 1)
             /\ v.qn = r.qn /\ v.depth = r.depth + 1 /\ v.weight = r.weight \div 2 /\ v.preRename = TRUE
             /\ v.path = <<d.qn>> \o r.path
      BY <2>4, <3>1
    <3>3. PICK r \in FanIn(code, d.qn, MaxDepth - 1) :
             /\ IsCaller(r, code, d.qn, MaxDepth - 1)
             /\ v.qn = r.qn /\ v.depth = r.depth + 1 /\ v.weight = r.weight \div 2 /\ v.preRename = TRUE
             /\ v.path = <<d.qn>> \o r.path
      BY <3>2
    <3> DEFINE N == Names(code, d.qn)
               w == <<d.qn>> \o r.path \o <<q>>
    <3>4. /\ r.depth \in 1..(MaxDepth - 1) /\ r.weight = Weight(r.depth)
          /\ r.path \in Seq(N) /\ Len(r.path) = r.depth - 1
          /\ w \in Chains(code, d.qn, (MaxDepth - 1) + 1) /\ r.qn = q
      BY <3>1, <3>3 DEF IsCaller
    <3>5. d.qn \in N /\ q \in N
      BY <3>3, <3>4 DEF IsCaller, Names
    <3>6. /\ <<d.qn>> \o r.path \in Seq(N) /\ Len(<<d.qn>> \o r.path) = Len(r.path) + 1
          /\ (<<d.qn>> \o r.path)[1] = d.qn
          /\ Append(<<d.qn>> \o r.path, q) = w
          /\ Len(w) = Len(r.path) + 2 /\ Last(w) = q
      <4> HIDE DEF N
      <4> QED BY <3>4, <3>5, EndsOf
    <3> HIDE DEF N, w
    <3>7. Len(w) = r.depth + 1 /\ Len(v.path) = r.depth /\ r.depth \in Nat
      BY <1>0, <3>3, <3>4, <3>6
    <3>8. v.depth \in 2..MaxDepth /\ v.depth - 1 = r.depth /\ v.weight = Weight(v.depth)
      <4>1. r.depth = 1 \/ r.depth = 2
        BY <1>0, <3>4
      <4> QED BY <1>0, <3>3, <3>4, <4>1, WeightIs
    <3>9. v.path[1] = d.qn /\ d.qn \in names /\ IsChain(code, Append(v.path, v.qn))
      <4>1. IsChain(code, w)
        BY <3>4 DEF Chains
      <4> QED BY <3>1, <3>3, <3>6, <4>1
    <3> HIDE DEF names
    <3>10. v.qn \in Reached(code, names, r.depth)
      <4>1. w \in Chains(code, d.qn, r.depth + 1)
        BY <3>4, <3>7 DEF Chains
      <4> QED BY <3>1, <3>6, <3>9, <4>1 DEF Reached
    <3>11. v.qn \notin Reached(code, names, r.depth - 1)
      <4> SUFFICES ASSUME q \in Reached(code, names, r.depth - 1) PROVE FALSE
        BY <3>1
      <4>1. PICK u \in names : \E y \in Chains(code, u, (r.depth - 1) + 1) : q = Last(y)
        BY DEF Reached
      <4>2. PICK y \in Chains(code, u, (r.depth - 1) + 1) : q = Last(y)
        BY <4>1
      <4>3. (r.depth - 1) + 1 = r.depth
        BY <3>7
      <4>4. y \in Chains(code, u, (MaxDepth - 1) + 1) /\ Len(y) \in Nat /\ Len(y) <= r.depth
        <5>1. y \in Seq(Names(code, u)) /\ Len(y) \in 1..r.depth /\ y[1] = u /\ IsChain(code, y)
          BY <4>2, <4>3 DEF Chains
        <5>2. Len(y) \in 1..((MaxDepth - 1) + 1)
          BY <1>0, <3>4, <5>1
        <5>3. Len(y) \in Nat /\ Len(y) <= r.depth
          BY <3>7, <5>1
        <5> QED BY <5>1, <5>2, <5>3 DEF Chains
      <4>5. Last(y) # u
        BY <4>2
      <4>6. PICK b \in direct : b.qn = u
        BY DEF names
      <4>7. PICK r2 \in FanIn(code, u, MaxDepth - 1) : r2.qn = q
        <5>1. MaxDepth - 1 \in Nat
          BY <1>0
        <5> QED BY <4>2, <4>4, <4>5, <5>1, FanInIs
      <4>8. IsCaller(r2, code, u, MaxDepth - 1)
        <5>1. MaxDepth - 1 \in Nat
          BY <1>0
        <5> QED BY <5>1, FanInIs
      <4>9. r2.depth <= Len(y) - 1 /\ r2.depth \in Nat
        <5>1. r2.depth \in 1..(MaxDepth - 1)
              /\ \A z \in Chains(code, u, (MaxDepth - 1) + 1) : Last(z) = r2.qn => r2.depth <= Len(z) - 1
          BY <4>8 DEF IsCaller
        <5>2. r2.depth <= Len(y) - 1
          BY <4>2, <4>4, <4>7, <5>1
        <5> QED BY <1>0, <5>1, <5>2
      <4>10. PICK v2 \in V : v2.qn = q /\ v2.depth = r2.depth + 1
        BY <2>5, <4>6, <4>7
      <4>11. v.depth <= v2.depth
        BY <3>1, <4>10
      <4> QED BY <3>3, <3>7, <4>4, <4>9, <4>10, <4>11
    <3>12. v.qn \in Layers(code, names)[v.depth - 1]
      <4>1. r.depth \in 1..MaxDepth
        BY <1>0, <3>4
      <4> QED BY <3>8, <3>10, <3>11, <4>1, LayersAre
    <3>13. v.qn # self /\ v.qn \notin names /\ v.depth # 1 /\ v.depth \in 1..MaxDepth
      BY <1>0, <3>1, <3>8
    <3>14. IsOldCaller(v, code, names, self)
      BY <3>3, <3>7, <3>8, <3>9, <3>12, <3>13 DEF IsOldCaller
    <3> QED BY <3>13, <3>14 DEF v
  <2>8. ASSUME NEW r \in P PROVE r \in direct \/ (IsOldCaller(r, code, names, self) /\ r.depth # 1)
    <3>1. CASE "fan-in" \in x
      BY <2>1, <3>1, ViaIs
    <3>2. CASE "fan-in" \notin x
      <4>1. P = direct \union {NearestVia(code, direct, q) : q \in {s.qn : s \in V} \ (names \union {self})}
        BY <2>1, <3>2, ViaIs DEF V
      <4> HIDE DEF names
      <4> QED BY <2>7, <4>1
    <3> QED BY <3>1, <3>2
  <2>9. \A r \in P : IsOldCaller(r, code, names, self)
    <3> HIDE DEF names
    <3> QED BY <2>3, <2>8
  <2>10. names = {r.qn : r \in {o \in P : o.depth = 1}}
    <3>1. direct \subseteq P
      BY <2>1
    <3>2. \A r \in P : r.depth = 1 <=> r \in direct
      BY <2>2, <2>8
    <3> QED BY <3>1, <3>2
  <2> HIDE DEF names
  <2> QED BY <2>9, <2>10 DEF P
<1> QED BY <1>1, <1>2

\* The callers at a distance are a layer, each with a chain of calls.
LEMMA CallersAre ==
  ASSUME NEW code, IsGraph(code), NEW qn
  PROVE  /\ \A d \in 1..MaxDepth :
              {r.qn : r \in {n \in FanIn(code, qn, MaxDepth) : n.depth = d}} = Layers(code, {qn})[d]
         /\ \A r \in FanIn(code, qn, MaxDepth) : IsChain(code, <<qn>> \o r.path \o <<r.qn>>)
<1> DEFINE F == FanIn(code, qn, MaxDepth)
<1>0. MaxDepth \in Nat
  BY BlastRadiusAssumption
<1>1. /\ \A r \in F : IsCaller(r, code, qn, MaxDepth)
      /\ \A w \in Chains(code, qn, MaxDepth + 1) : Last(w) # qn => \E r \in F : r.qn = Last(w)
  BY <1>0, FanInIs
<1> HIDE DEF F
<1>2. \A d : Reached(code, {qn}, d) = {Last(w) : w \in Chains(code, qn, d + 1)}
  BY DEF Reached
<1>3. ASSUME NEW r \in F
      PROVE  /\ r.depth \in 1..MaxDepth
             /\ IsChain(code, <<qn>> \o r.path \o <<r.qn>>)
             /\ \A d \in Nat : r.depth <= d => r.qn \in Reached(code, {qn}, d)
             /\ \A d \in 0..MaxDepth : d < r.depth => r.qn \notin Reached(code, {qn}, d)
  <2> DEFINE N == Names(code, qn)
             w == <<qn>> \o r.path \o <<r.qn>>
  <2>1. /\ r.depth \in 1..MaxDepth /\ r.path \in Seq(N) /\ Len(r.path) = r.depth - 1
        /\ w \in Chains(code, qn, MaxDepth + 1)
        /\ \A v \in Chains(code, qn, MaxDepth + 1) : Last(v) = r.qn => r.depth <= Len(v) - 1
    BY <1>1 DEF IsCaller
  <2>2. qn \in N /\ r.qn \in N
    BY <1>1 DEF IsCaller, Names
  <2>3. Len(w) = Len(r.path) + 2 /\ Last(w) = r.qn
    <3> HIDE DEF N
    <3>1. r.path \in Seq(N)
      BY <2>1
    <3>2. ASSUME NEW b \in N, NEW p \in Seq(N)
          PROVE  Len(<<qn>> \o p \o <<b>>) = Len(p) + 2 /\ Last(<<qn>> \o p \o <<b>>) = b
      <4>1. qn \in N
        BY <2>2
      <4>2. /\ <<qn>> \o p \in Seq(N) /\ Len(<<qn>> \o p) = Len(p) + 1 /\ (<<qn>> \o p)[1] = qn
            /\ Append(<<qn>> \o p, b) = <<qn>> \o p \o <<b>>
            /\ Len(<<qn>> \o p \o <<b>>) = Len(p) + 2 /\ Last(<<qn>> \o p \o <<b>>) = b
        BY <4>1, EndsOf, ZenonT(60)
      <4> QED BY <4>2
    <3> QED BY <2>2, <3>1, <3>2
  <2> HIDE DEF N, w
  <2>4. Len(w) = r.depth + 1 /\ r.depth \in Nat
    BY <1>0, <2>1, <2>3
  <2>5. ASSUME NEW d \in Nat, r.depth <= d PROVE r.qn \in Reached(code, {qn}, d)
    <3>1. w \in Chains(code, qn, d + 1)
      BY <2>1, <2>4, <2>5 DEF Chains
    <3> QED BY <1>2, <2>3, <3>1
  <2>6. ASSUME NEW d \in 0..MaxDepth, d < r.depth, r.qn \in Reached(code, {qn}, d) PROVE FALSE
    <3>1. PICK v \in Chains(code, qn, d + 1) : Last(v) = r.qn
      BY <1>2, <2>6
    <3>2. v \in Chains(code, qn, MaxDepth + 1) /\ Len(v) \in 1..(d + 1)
      BY <1>0 DEF Chains
    <3>3. r.depth <= Len(v) - 1
      BY <2>1, <3>1, <3>2
    <3> QED BY <1>0, <2>4, <2>6, <3>2, <3>3
  <2>7. IsChain(code, w)
    BY <2>1 DEF Chains
  <2> HIDE DEF N
  <2>8. r.depth \in 1..MaxDepth
    BY <2>1
  <2>9. \A d \in Nat : r.depth <= d => r.qn \in Reached(code, {qn}, d)
    BY <2>5
  <2>10. \A d \in 0..MaxDepth : d < r.depth => r.qn \notin Reached(code, {qn}, d)
    BY <2>6
  <2>11. IsChain(code, <<qn>> \o r.path \o <<r.qn>>)
    BY <2>7 DEF w
  <2> QED BY <2>8, <2>9, <2>10, <2>11
<1>4. ASSUME NEW d \in 1..MaxDepth
      PROVE  {r.qn : r \in {n \in F : n.depth = d}} = Layers(code, {qn})[d]
  <2>1. Layers(code, {qn})[d] = Reached(code, {qn}, d) \ Reached(code, {qn}, d - 1)
    <3>1. \A S : \A n \in 1..MaxDepth : Layers(code, S)[n] = Reached(code, S, n) \ Reached(code, S, n - 1)
      BY LayersAre
    <3> QED BY <3>1
  <2>2. d \in Nat /\ d - 1 \in 0..MaxDepth
    BY <1>0
  <2>3. ASSUME NEW r \in F, r.depth = d PROVE r.qn \in Layers(code, {qn})[d]
    <3>1. d <= d /\ d - 1 < d /\ d \in Nat /\ d - 1 \in 0..MaxDepth
      BY <2>2
    <3>2. r.qn \in Reached(code, {qn}, d)
      BY <1>3, <2>3, <3>1
    <3>3. r.qn \notin Reached(code, {qn}, d - 1)
      BY <1>3, <2>3, <3>1
    <3> QED BY <2>1, <3>2, <3>3
  <2>4. ASSUME NEW q \in Layers(code, {qn})[d] PROVE \E r \in F : r.depth = d /\ r.qn = q
    <3>1. PICK w \in Chains(code, qn, d + 1) : Last(w) = q
      <4>1. q \in Reached(code, {qn}, d)
        BY <2>1
      <4>2. q \in {Last(w) : w \in Chains(code, qn, d + 1)}
        BY <1>2, <4>1
      <4> QED BY <4>2
    <3>2. q # qn
      <4>1. <<qn>> \in Seq(Names(code, qn)) /\ Len(<<qn>>) = 1 /\ <<qn>>[1] = qn
        BY DEF Names
      <4>2. <<qn>> \in Chains(code, qn, (d - 1) + 1) /\ Last(<<qn>>) = qn
        BY <2>2, <4>1 DEF Chains, IsChain, Last
      <4>3. qn \in Reached(code, {qn}, d - 1)
        BY <1>2, <4>2
      <4> QED BY <2>1, <4>3
    <3>3. w \in Chains(code, qn, MaxDepth + 1) /\ Len(w) \in 1..(d + 1)
      BY <1>0 DEF Chains
    <3>4. PICK r \in F : r.qn = q
      BY <1>1, <3>1, <3>2, <3>3
    <3>5. r.depth <= Len(w) - 1
      BY <1>1, <3>1, <3>3, <3>4 DEF IsCaller
    <3>6. r.depth \in 1..MaxDepth /\ ~(r.depth <= d - 1)
      <4>1. r.depth <= d - 1 => q \in Reached(code, {qn}, d - 1)
        <5>1. d - 1 \in Nat
          BY <1>0, <2>2
        <5>2. \A n \in Nat : r.depth <= n => r.qn \in Reached(code, {qn}, n)
          BY <1>3
        <5>3. r.depth <= d - 1 => r.qn \in Reached(code, {qn}, d - 1)
          BY <5>1, <5>2
        <5> QED BY <3>4, <5>3
      <4> QED BY <1>3, <2>1, <4>1
    <3>7. r.depth = d
      BY <1>0, <2>2, <3>3, <3>5, <3>6
    <3> QED BY <3>4, <3>7
  <2> QED BY <2>3, <2>4
<1> QED BY <1>3, <1>4 DEF F

\* The callers and the way a symbol is scored.
LEMMA ContributionCallers ==
  ASSUME NEW code, NEW s, NEW old, NEW x
  PROVE  \/ /\ Contribution(code, s, old, x).method = "calls" /\ IsCallable(s)
            /\ Contribution(code, s, old, x).callers =
                 FanIn(code, s.qn, MaxDepth) \union PreRename(code, old, s.qn, x)
         \/ /\ Contribution(code, s, old, x).method = "text-references" /\ ~IsCallable(s)
            /\ Contribution(code, s, old, x).callers = PreRename(code, old, s.qn, x)
         \/ /\ Contribution(code, s, old, x).method = None /\ ~IsCallable(s)
            /\ Contribution(code, s, old, x).callers = {}
<1>1. CASE ~IsCallable(s) /\ "usage" \in x
  <2>1. Contribution(code, s, old, x) = [NoScore EXCEPT !.qn = s.qn]
    BY <1>1 DEF Contribution
  <2> QED BY <1>1, <2>1 DEF NoScore
<1>2. CASE IsCallable(s)
  <2> DEFINE c == CallScore(code, s.qn, old, x)
  <2>1. c.method = "calls" /\ c.callers = FanIn(code, s.qn, MaxDepth) \union PreRename(code, old, s.qn, x)
    BY DEF CallScore
  <2> HIDE DEF c
  <2>2. Contribution(code, s, old, x).method = c.method /\ Contribution(code, s, old, x).callers = c.callers
    BY <1>2 DEF Contribution, c
  <2> QED BY <1>2, <2>1, <2>2
<1>3. CASE ~IsCallable(s) /\ "usage" \notin x
  <2> DEFINE c == TypeScore(code, s, old, x)
  <2>1. c.method = "text-references" /\ c.callers = PreRename(code, old, s.qn, x)
    BY DEF TypeScore
  <2> HIDE DEF c
  <2>2. Contribution(code, s, old, x).method = c.method /\ Contribution(code, s, old, x).callers = c.callers
    BY <1>3 DEF Contribution, c
  <2> QED BY <1>3, <2>1, <2>2
<1> QED BY <1>1, <1>2, <1>3

\* What CallersAtTheirDistance says of one contribution.
AtTheirDistance(code, c) ==
  LET now == {r \in c.callers : ~r.preRename}
      oldOnes == c.callers \ now
      direct == {r.qn : r \in {o \in oldOnes : o.depth = 1}} IN
  /\ c.method = "calls" =>
       \A d \in 1..MaxDepth : {r.qn : r \in {n \in now : n.depth = d}} = Layers(code, {c.qn})[d]
  /\ \A r \in now : IsChain(code, <<c.qn>> \o r.path \o <<r.qn>>)
  /\ \A d \in 2..MaxDepth :
       {r.qn : r \in {o \in oldOnes : o.depth = d}} \subseteq Layers(code, direct)[d - 1]
  /\ \A r \in oldOnes : r.depth > 1 => r.path[1] \in direct /\ IsChain(code, Append(r.path, r.qn))
  /\ \A r \in c.callers : Len(r.path) = r.depth - 1 /\ r.qn # c.qn /\ r.weight = <<100, 50, 25>>[r.depth]

\* It holds of every symbol a hunk touches, with or without an outage.
LEMMA CallersOfOne ==
  ASSUME NEW code, IsGraph(code), NEW s, NEW old, NEW x, NEW c, c = Contribution(code, s, old, x)
  PROVE  AtTheirDistance(code, c)
<1> DEFINE now == {r \in c.callers : ~r.preRename}
           oldOnes == c.callers \ now
           direct == {r.qn : r \in {o \in oldOnes : o.depth = 1}}
           F == FanIn(code, c.qn, MaxDepth)
           P == PreRename(code, old, c.qn, x)
<1>0. MaxDepth \in 1..3 /\ MaxDepth \in Nat /\ c.qn = s.qn
  BY BlastRadiusAssumption, ContributionIs
<1>1. /\ \A r \in F : IsCaller(r, code, c.qn, MaxDepth)
  BY <1>0, FanInIs
<1>2. PICK names : /\ \A r \in P : IsOldCaller(r, code, names, c.qn)
                   /\ names = {r.qn : r \in {o \in P : o.depth = 1}}
  BY PreRenameIs
<1>3. \/ c.method = "calls" /\ c.callers = F \union P
      \/ c.method = "text-references" /\ c.callers = P
      \/ c.method = None /\ c.callers = {}
  BY <1>0, ContributionCallers
<1>4. /\ \A d \in 1..MaxDepth : {r.qn : r \in {n \in F : n.depth = d}} = Layers(code, {c.qn})[d]
      /\ \A r \in F : IsChain(code, <<c.qn>> \o r.path \o <<r.qn>>)
  BY CallersAre
<1> HIDE DEF F, P
<1>5. (\A r \in F : r.preRename = FALSE) /\ (\A r \in P : r.preRename = TRUE)
  BY <1>1, <1>2 DEF IsCaller, IsOldCaller
<1>6. /\ now = F \/ (now = {} /\ c.method # "calls")
      /\ oldOnes = P \/ oldOnes = {}
  <2>1. CASE c.method = "calls" /\ c.callers = F \union P
    <3>1. now = F
      BY <1>5, <2>1
    <3>2. oldOnes = P
      <4> HIDE DEF now
      <4>1. \A r \in P : r \notin F
        BY <1>5
      <4> QED BY <2>1, <3>1, <4>1
    <3> HIDE DEF now, oldOnes
    <3> QED BY <3>1, <3>2
  <2>2. CASE c.method = "text-references" /\ c.callers = P
    BY <1>5, <2>2
  <2>3. CASE c.method = None /\ c.callers = {}
    BY <2>3 DEF None
  <2> QED BY <1>3, <2>1, <2>2, <2>3
<1>7. c.callers = now \union oldOnes
  OBVIOUS
<1> HIDE DEF now, oldOnes
<1>8. oldOnes # {} => direct = names
  BY <1>2, <1>6
<1> HIDE DEF direct
<1>9. c.method = "calls" =>
        \A d \in 1..MaxDepth : {r.qn : r \in {n \in now : n.depth = d}} = Layers(code, {c.qn})[d]
  BY <1>4, <1>6
<1>10. \A r \in now : IsChain(code, <<c.qn>> \o r.path \o <<r.qn>>)
  BY <1>4, <1>6
<1>11. \A d \in 2..MaxDepth :
         {r.qn : r \in {o \in oldOnes : o.depth = d}} \subseteq Layers(code, direct)[d - 1]
  <2> SUFFICES ASSUME NEW d \in 2..MaxDepth, NEW o \in oldOnes, o.depth = d
               PROVE  o.qn \in Layers(code, direct)[d - 1]
    OBVIOUS
  <2>1. o \in P /\ direct = names
    BY <1>6, <1>8
  <2>2. IsOldCaller(o, code, names, c.qn)
    BY <1>2, <2>1
  <2>3. o.depth > 1
    BY <1>0, <2>2 DEF IsOldCaller
  <2> QED BY <2>1, <2>2, <2>3 DEF IsOldCaller
<1>12. \A r \in oldOnes : r.depth > 1 => r.path[1] \in direct /\ IsChain(code, Append(r.path, r.qn))
  BY <1>2, <1>6, <1>8 DEF IsOldCaller
<1>13. \A d \in 1..3 : Weight(d) = <<100, 50, 25>>[d]
  BY DEF Weight
<1>14. ASSUME NEW r \in c.callers
       PROVE  Len(r.path) = r.depth - 1 /\ r.qn # c.qn /\ r.weight = <<100, 50, 25>>[r.depth]
  <2>1. Len(r.path) = r.depth - 1 /\ r.qn # c.qn /\ r.weight = Weight(r.depth) /\ r.depth \in 1..MaxDepth
    <3>1. r \in F \/ r \in P
      BY <1>6, <1>7
    <3>2. CASE r \in F
      BY <1>1, <3>2 DEF IsCaller
    <3>3. CASE r \in P
      BY <1>2, <3>3 DEF IsOldCaller
    <3> QED BY <3>1, <3>2, <3>3
  <2>2. r.depth \in 1..3
    BY <1>0, <2>1
  <2> QED BY <1>13, <2>1, <2>2
<1> QED BY <1>9, <1>10, <1>11, <1>12, <1>14 DEF AtTheirDistance, direct, oldOnes, now

\* The callers of a symbol are those within reach, each once, as far away as the shortest chain of
\* calls, with such a chain for a path; those who use its old name are one step away, and their
\* callers one further than from them (score.FanIn, expandPreRenameCallers).
THEOREM CallersStandAtTheirDistance == AnalysisSpec => []CallersAtTheirDistance
<1>1. AnalysisInv => CallersAtTheirDistance
  <2> SUFFICES ASSUME AnalysisInv, NEW c \in Scored
               PROVE  AtTheirDistance(input.code, c)
    BY DEF CallersAtTheirDistance, AtTheirDistance
  <2>1. PICK i \in DOMAIN Hunks : \E s \in Touched(input.code, Hunks[i]) :
          c = Contribution(input.code, s, RenamedFrom(input.code, Hunks, s), report.outage)
    BY ScoredIs
  <2>2. PICK s \in Touched(input.code, Hunks[i]) :
          c = Contribution(input.code, s, RenamedFrom(input.code, Hunks, s), report.outage)
    BY <2>1
  <2>3. IsGraph(input.code)
    BY ReadyIs
  <2> QED BY <2>2, <2>3, CallersOfOne
<1> QED BY <1>1, AnalysisIsOfTheDiff, PTL

-----------------------------------------------------------------------------
(* Numbers.                                                                *)

\* Squares grow.
LEMMA SquaresGrow == \A a, b \in Nat : a <= b => a * a <= b * b
<1> SUFFICES ASSUME NEW a \in Nat, NEW b \in Nat, a <= b PROVE a * a <= b * b
  OBVIOUS
<1>1. PICK d \in Nat : b = a + d
  <2>1. b - a \in Nat /\ b = a + (b - a)
    OBVIOUS
  <2> QED BY <2>1
<1>2. b * b = a * a + (2 * a * d + d * d)
  BY <1>1
<1>3. a * d \in Nat /\ d * d \in Nat /\ a * a \in Nat
  OBVIOUS
<1> QED BY <1>2, <1>3

\* A root is one rounded down.
IsRoot(r, points) == r * r <= 100 * points /\ 100 * points < (r + 1) * (r + 1)

\* Every number has a root (Root).
LEMMA RootIs == \A points \in Nat : Root(points) \in Nat /\ IsRoot(Root(points), points)
<1> SUFFICES ASSUME NEW points \in Nat PROVE Root(points) \in Nat /\ IsRoot(Root(points), points)
  OBVIOUS
<1> DEFINE n == 10 * points
           T == {r \in 0..n : r * r <= 100 * points}
<1>0. n \in Nat
  OBVIOUS
<1>1. T \in SUBSET (0..n) /\ T # {}
  <2>1. 0 \in T
    OBVIOUS
  <2> QED BY <2>1
<1>2. PICK m \in T : \A k \in T : k <= m
  <2> HIDE DEF T, n
  <2> QED BY <1>0, <1>1, Greatest
<1>3. m \in Nat /\ m \in 0..n /\ m * m <= 100 * points
  BY <1>0
<1>4. 100 * points < (m + 1) * (m + 1)
  <2>1. CASE m < n
    <3>1. m + 1 \in 0..n /\ m + 1 \notin T
      BY <1>2, <1>3, <2>1
    <3>2. ~((m + 1) * (m + 1) <= 100 * points)
      BY <3>1
    <3>3. (m + 1) * (m + 1) \in Nat /\ 100 * points \in Nat
      BY <1>3
    <3> DEFINE a == (m + 1) * (m + 1)
               b == 100 * points
    <3>4. a \in Nat /\ b \in Nat /\ ~(a <= b)
      BY <3>2, <3>3
    <3> HIDE DEF a, b
    <3>5. b < a
      BY <3>4
    <3> QED BY <3>5 DEF a, b
  <2>2. CASE ~(m < n)
    <3>1. m = 10 * points
      BY <1>3, <2>2
    <3>2. points <= points * points
      <4>1. CASE points = 0
        BY <4>1
      <4>2. CASE points # 0
        <5>1. PICK k \in Nat : points = k + 1
          <6>1. points - 1 \in Nat /\ points = (points - 1) + 1
            BY <4>2
          <6> QED BY <6>1
        <5>2. points * points = k * k + 2 * k + 1 /\ k * k \in Nat
          BY <5>1
        <5> QED BY <5>1, <5>2
      <4> QED BY <4>1, <4>2
    <3>3. (m + 1) * (m + 1) = 100 * (points * points) + 20 * points + 1
      BY <3>1
    <3> DEFINE q == points * points
    <3>4. q \in Nat
      OBVIOUS
    <3> HIDE DEF q
    <3> QED BY <3>2, <3>3, <3>4 DEF q
  <2> QED BY <2>1, <2>2
<1>5. m \in 0..(10 * points) /\ IsRoot(m, points)
  BY <1>3, <1>4 DEF IsRoot
<1>6. Root(points) \in 0..(10 * points) /\ IsRoot(Root(points), points)
  BY <1>5 DEF Root, IsRoot
<1> QED BY <1>6

\* Roots grow.
LEMMA RootsGrow == \A a, b \in Nat : a <= b => Root(a) <= Root(b)
<1> SUFFICES ASSUME NEW a \in Nat, NEW b \in Nat, a <= b, ~(Root(a) <= Root(b)) PROVE FALSE
  OBVIOUS
<1> DEFINE r == Root(a)
           q == Root(b)
           u == r * r
           v == (q + 1) * (q + 1)
<1>1. r \in Nat /\ q \in Nat /\ u <= 100 * a /\ 100 * b < v /\ u \in Nat /\ v \in Nat
  <2>1. r \in Nat /\ q \in Nat /\ IsRoot(r, a) /\ IsRoot(q, b)
    BY RootIs
  <2> HIDE DEF r, q
  <2> QED BY <2>1 DEF IsRoot
<1>2. ~(r <= q)
  OBVIOUS
<1> HIDE DEF r, q
<1>3. q + 1 <= r /\ q + 1 \in Nat
  BY <1>1, <1>2
<1>4. v <= u
  BY <1>1, <1>3, SquaresGrow
<1> HIDE DEF u, v
<1> QED BY <1>1, <1>4

\* The logarithm of what Logs covers.
LEMMA LogIs ==
  /\ \A n \in Nat : IsCount(n) => Log1p(n) \in Nat
  /\ \A m, n \in Nat : m <= n /\ IsCount(n) => IsCount(m) /\ Log1p(m) <= Log1p(n)
<1>1. Logs \in Seq(Nat) /\ \A n \in DOMAIN Logs : \A m \in 1..n : Logs[m] <= Logs[n]
  BY LogsAssumption
<1>2. Len(Logs) \in Nat /\ DOMAIN Logs = 1..Len(Logs) /\ \A n \in 1..Len(Logs) : Logs[n] \in Nat
  BY <1>1
<1>3. ASSUME NEW n \in Nat, IsCount(n) PROVE Log1p(n) \in Nat
  <2>1. CASE n = 0
    BY <2>1 DEF Log1p
  <2>2. CASE n # 0
    <3>1. n \in 1..Len(Logs)
      BY <1>2, <1>3, <2>2 DEF IsCount
    <3> QED BY <1>2, <2>2, <3>1 DEF Log1p
  <2> QED BY <2>1, <2>2
<1>4. ASSUME NEW m \in Nat, NEW n \in Nat, m <= n, IsCount(n) PROVE IsCount(m) /\ Log1p(m) <= Log1p(n)
  <2>1. IsCount(m)
    BY <1>2, <1>4 DEF IsCount
  <2>2. CASE m = 0
    <3>1. Log1p(m) = 0 /\ Log1p(n) \in Nat
      BY <1>3, <1>4, <2>2 DEF Log1p
    <3> QED BY <2>1, <3>1
  <2>3. CASE m # 0
    <3>1. n # 0 /\ n \in 1..Len(Logs) /\ m \in 1..n
      BY <1>2, <1>4, <2>3 DEF IsCount
    <3>2. Log1p(m) = Logs[m] /\ Log1p(n) = Logs[n]
      BY <2>3, <3>1 DEF Log1p
    <3> QED BY <1>1, <1>2, <2>1, <3>1, <3>2
  <2> QED BY <2>2, <2>3
<1> QED BY <1>3, <1>4

\* A part of a finite set, and a smaller count for each of its members, add up to no more.
LEMMA SumOfPart ==
  ASSUME NEW S, IsFiniteSet(S), NEW f \in [S -> Nat], NEW S2, IsFiniteSet(S2), NEW f2 \in [S2 -> Nat],
         S \subseteq S2, \A x \in S : f[x] <= f2[x]
  PROVE  SumFunction(f) <= SumFunction(f2)
<1> DEFINE h == [x \in S |-> x]
<1>1. h \in [S -> S2] /\ (\A x, y \in S : h[x] = h[y] => x = y) /\ \A x \in S : f[x] <= f2[h[x]]
  OBVIOUS
<1> HIDE DEF h
<1> QED BY <1>1, SumThrough

-----------------------------------------------------------------------------
(* What the signals are worth, and that one is worth no more without an answer. *)

\* A quotient of natural numbers.
LEMMA Quotients ==
  /\ \A a \in Nat, k \in Nat \ {0} : a \div k \in Nat
  /\ \A a, b \in Nat, k \in Nat \ {0} : a <= b => a \div k <= b \div k
  /\ \A a \in Nat, k \in Nat \ {0} : (a * k) \div k = a
<1>1. \A a \in Nat, k \in Nat \ {0} : a \div k \in Int /\ k * (a \div k) <= a /\ a < k * (a \div k) + k
  OBVIOUS
<1>2. ASSUME NEW a \in Nat, NEW k \in Nat \ {0} PROVE a \div k \in Nat
  OBVIOUS
<1>3. ASSUME NEW a \in Nat, NEW b \in Nat, NEW k \in Nat \ {0}, a <= b PROVE a \div k <= b \div k
  <2> DEFINE q == a \div k
             p == b \div k
  <2>1. q \in Nat /\ p \in Nat /\ k * q <= a /\ b < k * p + k
    BY <1>1, <1>2
  <2> HIDE DEF q, p
  <2>2. ASSUME ~(q <= p) PROVE FALSE
    <3>1. PICK d \in Nat : q = p + 1 + d
      <4>1. q - p - 1 \in Nat /\ q = p + 1 + (q - p - 1)
        BY <2>1, <2>2
      <4> QED BY <4>1
    <3>2. k * q = k * p + k + k * d /\ k * d \in Nat /\ k * p \in Nat
      BY <2>1, <3>1
    <3> DEFINE kq == k * q
               kp == k * p
               kd == k * d
    <3>3. kq = kp + k + kd /\ kd \in Nat /\ kp \in Nat /\ kq <= a /\ b < kp + k
      BY <2>1, <3>2
    <3> HIDE DEF kq, kp, kd
    <3> QED BY <1>3, <3>3
  <2> QED BY <2>2 DEF q, p
<1>4. ASSUME NEW a \in Nat, NEW k \in Nat \ {0} PROVE (a * k) \div k = a
  OBVIOUS
<1> QED BY <1>2, <1>3, <1>4

\* The symbol of a name.
LEMMA SymbolIs ==
  ASSUME NEW code, IsGraph(code), NEW s \in code.symbols
  PROVE  SymbolOf(code, s.qn) = s
<1>1. SymbolOf(code, s.qn) \in code.symbols /\ SymbolOf(code, s.qn).qn = s.qn
  BY DEF SymbolOf
<1> QED BY <1>1 DEF IsGraph

\* The callers of a symbol, their weights and their packages.
LEMMA CallersWeigh ==
  ASSUME NEW code, IsGraph(code), NEW qn
  PROVE  /\ IsFiniteSet(FanIn(code, qn, MaxDepth))
         /\ \A r \in FanIn(code, qn, MaxDepth) : r.weight \in 0..100
         /\ Reach(FanIn(code, qn, MaxDepth)) \in Nat
         /\ packageDiversityBonus(Cardinality(Packages(code, FanIn(code, qn, MaxDepth)))) \in Nat
<1> DEFINE F == FanIn(code, qn, MaxDepth)
           weights == [r \in F |-> r.weight]
<1>0. MaxDepth \in 1..3 /\ MaxDepth \in Nat
  BY BlastRadiusAssumption
<1>1. IsFiniteSet(F) /\ \A r \in F : IsCaller(r, code, qn, MaxDepth)
  BY <1>0, FanInIs
<1> HIDE DEF F
<1>2. ASSUME NEW r \in F PROVE r.weight \in 0..100 /\ \E s \in code.symbols : s.qn = r.qn
  <2>1. r.depth \in 1..3 /\ r.weight = Weight(r.depth) /\ \E e \in code.calls : r.qn = e[1]
    <3>1. r.depth \in 1..MaxDepth /\ r.weight = Weight(r.depth) /\ \E e \in code.calls : r.qn = e[1]
      BY <1>1 DEF IsCaller
    <3>2. r.depth \in 1..3
      BY <1>0, <3>1
    <3> QED BY <3>1, <3>2
  <2>2. r.weight \in 0..100
    <3>1. r.depth = 1 \/ r.depth = 2 \/ r.depth = 3
      BY <2>1
    <3> QED BY <2>1, <3>1, WeightIs
  <2> QED BY <2>1, <2>2 DEF IsGraph
<1>3. Reach(F) \in Nat
  <2>1. weights \in [F -> Nat]
    BY <1>2
  <2>2. Reach(F) = Root(SumFunction(weights))
    BY DEF Reach
  <2> HIDE DEF weights
  <2>3. SumFunction(weights) \in Nat
    BY <1>1, <2>1, SumNat
  <2> QED BY <2>2, <2>3, RootIs
<1>4. packageDiversityBonus(Cardinality(Packages(code, F))) \in Nat
  <2> DEFINE P == Packages(code, F)
             all == {s.package : s \in code.symbols}
             c == Cardinality(P)
  <2>1. IsFiniteSet(code.symbols) /\ IsCount(Cardinality(all))
    BY DEF IsGraph
  <2>2. IsFiniteSet(all)
    <3> DEFINE f == [s \in code.symbols |-> s.package]
    <3>1. all = {f[s] : s \in code.symbols}
      OBVIOUS
    <3> HIDE DEF all, f
    <3> QED BY <2>1, <3>1, ImageIsFinite
  <2>3. P \in SUBSET all
    <3>1. ASSUME NEW r \in F PROVE packageOf(code, r.qn) \in all
      <4>1. PICK s \in code.symbols : s.qn = r.qn
        BY <1>2
      <4> QED BY <4>1, SymbolIs DEF packageOf
    <3> QED BY <3>1 DEF Packages
  <2> HIDE DEF all, P
  <2>4. c \in Nat /\ Cardinality(all) \in Nat /\ c <= Cardinality(all)
    BY <2>2, <2>3, FS_Subset, FS_CardinalityType
  <2> HIDE DEF c
  <2>5. Log1p(c) \in Nat
    BY <2>1, <2>4, LogIs
  <2> QED BY <2>5 DEF packageDiversityBonus, c, P
<1> QED BY <1>1, <1>2, <1>3, <1>4 DEF F

\* What an entry point goes by: without the answers about entries, fewer do.
LEMMA LabelsAre ==
  ASSUME NEW code, NEW qn, NEW x
  PROVE  /\ IsFiniteSet(EntryLabel(code, qn, x))
         /\ "routes" \notin x => EntryLabel(code, qn, x) \subseteq EntryLabel(code, qn, {})
<1> DEFINE E(y) == EntryLabel(code, qn, y)
           flags(y) == entryPointFlags(code, y)
           named(y) == {SymbolOf(code, f).name : f \in flags(y) \intersect {qn}}
<1>1. \A y : E(y) = IF qn \in routeHandlers(code, y) THEN {code.routes[qn]} ELSE named(y)
  BY DEF EntryLabel
<1>2. flags(x) \subseteq flags({})
  BY DEF entryPointFlags, Architecture, Answer
<1>3. "routes" \notin x => routeHandlers(code, x) = routeHandlers(code, {})
  BY DEF routeHandlers, Answer
<1>4. IsFiniteSet(E(x))
  <2> DEFINE one == {SymbolOf(code, qn).name}
  <2>1. named(x) \in SUBSET one
    OBVIOUS
  <2>2. IsFiniteSet(one) /\ IsFiniteSet({code.routes[qn]})
    BY FS_Singleton
  <2> HIDE DEF one, named, E
  <2>3. IsFiniteSet(named(x))
    BY <2>1, <2>2, FS_Subset
  <2> QED BY <1>1, <2>2, <2>3
<1>5. named(x) \subseteq named({})
  <2> HIDE DEF flags
  <2> QED BY <1>2
<1>6. "routes" \notin x => E(x) \subseteq E({})
  <2> HIDE DEF named, E
  <2> QED BY <1>1, <1>3, <1>5
<1> QED BY <1>4, <1>6

\* The signal of the entry points.
Labels(code, callers, x) == UNION {EntryLabel(code, r.qn, x) : r \in callers}
WeightsTo(code, callers, label, x) == {r.weight : r \in {c \in callers : label \in EntryLabel(code, c.qn, x)}}
EntrySignals(code, callers, x) ==
  [label \in Labels(code, callers, x) |-> (3 * Max(WeightsTo(code, callers, label, x))) \div 2]

\* The signal is a number, and an outage never makes it larger (entryReachabilitySignal).
LEMMA EntriesAre ==
  ASSUME NEW code, NEW callers, IsFiniteSet(callers), \A r \in callers : r.weight \in 0..100, NEW x
  PROVE  /\ entryReachabilitySignal(code, callers, x) \in Nat
         /\ "routes" \notin x =>
              entryReachabilitySignal(code, callers, x) <= entryReachabilitySignal(code, callers, {})
<1> DEFINE L(y) == Labels(code, callers, y)
           W(y, label) == WeightsTo(code, callers, label, y)
           f(y) == EntrySignals(code, callers, y)
<1>1. \A y : entryReachabilitySignal(code, callers, y) = SumFunction(f(y))
  BY DEF entryReachabilitySignal, EntrySignals, WeightsTo, Labels
<1>2. ASSUME NEW y PROVE IsFiniteSet(L(y))
  <2> DEFINE g == [r \in callers |-> EntryLabel(code, r.qn, y)]
             sets == {g[r] : r \in callers}
  <2>1. IsFiniteSet(sets)
    <3> HIDE DEF g
    <3> QED BY ImageIsFinite
  <2>2. \A T \in sets : IsFiniteSet(T)
    BY LabelsAre
  <2>3. L(y) = UNION sets
    BY DEF Labels
  <2> HIDE DEF sets, L
  <2> QED BY <2>1, <2>2, <2>3, FS_UNION
<1>3. ASSUME NEW y, NEW label \in L(y)
      PROVE  W(y, label) \in SUBSET (0..100) /\ W(y, label) # {}
             /\ Max(W(y, label)) \in W(y, label) /\ \A w \in W(y, label) : w <= Max(W(y, label))
  <2>1. W(y, label) \in SUBSET (0..100)
    BY DEF WeightsTo
  <2>2. W(y, label) # {}
    <3>1. PICK r \in callers : label \in EntryLabel(code, r.qn, y)
      BY DEF Labels
    <3>2. r.weight \in W(y, label)
      BY <3>1 DEF WeightsTo
    <3> QED BY <3>2
  <2> HIDE DEF W
  <2> QED BY <2>1, <2>2, MaxIs
<1>4. ASSUME NEW y PROVE f(y) \in [L(y) -> Nat]
  <2>1. \A label \in L(y) : (3 * Max(W(y, label))) \div 2 \in Nat
    <3> TAKE label \in L(y)
    <3>1. Max(W(y, label)) \in 0..100
      <4> HIDE DEF W, L
      <4> QED BY <1>3
    <3> HIDE DEF W
    <3> QED BY <3>1
  <2>2. f(y) = [label \in L(y) |-> (3 * Max(W(y, label))) \div 2]
    BY DEF EntrySignals
  <2> HIDE DEF f, W, L
  <2> QED BY <2>1, <2>2
<1>5. entryReachabilitySignal(code, callers, x) \in Nat
  <2> HIDE DEF f, L
  <2> QED BY <1>1, <1>2, <1>4, SumNat
<1>6. ASSUME "routes" \notin x PROVE SumFunction(f(x)) <= SumFunction(f({}))
  <2>1. \A q : EntryLabel(code, q, x) \subseteq EntryLabel(code, q, {})
    BY <1>6, LabelsAre
  <2>2. L(x) \subseteq L({})
    BY <2>1 DEF Labels
  <2>3. ASSUME NEW label \in L(x) PROVE f(x)[label] <= f({})[label]
    <3> DEFINE a == Max(W(x, label))
               b == Max(W({}, label))
    <3>1. W(x, label) \subseteq W({}, label)
      BY <2>1 DEF WeightsTo
    <3>2. label \in L({})
      BY <2>2, <2>3
    <3>3. a \in 0..100 /\ b \in 0..100 /\ a <= b
      <4> HIDE DEF W, L
      <4> QED BY <1>3, <3>1, <3>2
    <3>4. f(x)[label] = (3 * a) \div 2 /\ f({})[label] = (3 * b) \div 2
      BY <2>3, <3>2 DEF EntrySignals
    <3> HIDE DEF a, b, f
    <3> QED BY <3>3, <3>4
  <2> HIDE DEF f, L
  <2> QED BY <1>2, <1>4, <2>2, <2>3, SumOfPart
<1> QED BY <1>1, <1>5, <1>6

-----------------------------------------------------------------------------
(* What a symbol contributes.                                              *)

\* What was mentioned where.
LEMMA UsageIs ==
  ASSUME NEW code, IsGraph(code), NEW name
  PROVE  /\ usage(code, name).matches \in Nat
         /\ packageDiversityBonus(Cardinality(usage(code, name).directories)) \in Nat
<1> DEFINE u == usage(code, name)
           c == Cardinality(u.directories)
<1>1. u.matches \in Nat /\ IsFiniteSet(u.directories) /\ IsCount(c)
  <2>1. CASE name \in DOMAIN code.usage
    BY <2>1 DEF usage, IsGraph
  <2>2. CASE name \notin DOMAIN code.usage
    <3>1. u.matches = 0 /\ u.directories = {}
      BY <2>2 DEF usage
    <3>2. Len(Logs) \in Nat
      BY LogsAssumption
    <3> HIDE DEF u
    <3>3. IsFiniteSet(u.directories) /\ Cardinality(u.directories) = 0
      BY <3>1, FS_EmptySet
    <3> QED BY <3>1, <3>2, <3>3 DEF IsCount
  <2> QED BY <2>1, <2>2
<1> HIDE DEF u
<1>2. c \in Nat
  BY <1>1, FS_CardinalityType
<1> HIDE DEF c
<1>3. Log1p(c) \in Nat
  BY <1>1, <1>2, LogIs
<1> QED BY <1>1, <1>3 DEF packageDiversityBonus, c, u

\* The mentions of an old name are worth something unless the search fails.
LEMMA RenameSignalIs ==
  ASSUME NEW code, IsGraph(code), NEW old, NEW x
  PROVE  renameOldNameSignal(code, old, x) \in Nat
         /\ renameOldNameSignal(code, old, x) <= renameOldNameSignal(code, old, {})
<1> DEFINE m == usage(code, old).matches
           r == Root(100 * m)
           v == (3 * r) \div 2
<1>1. v \in Nat
  <2>1. m \in Nat
    BY UsageIs
  <2> HIDE DEF m
  <2>2. 100 * m \in Nat
    BY <2>1
  <2>3. r \in Nat
    BY <2>2, RootIs
  <2> HIDE DEF r
  <2> QED BY <2>3
<1>2. /\ renameOldNameSignal(code, old, x) = IF old = None \/ "usage" \in x THEN 0 ELSE v
      /\ renameOldNameSignal(code, old, {}) = IF old = None THEN 0 ELSE v
  BY DEF renameOldNameSignal
<1> HIDE DEF v
<1> QED BY <1>1, <1>2

\* The signals of the architecture.
LEMMA PlacesInArchitecture ==
  ASSUME NEW code, IsGraph(code), NEW qn, NEW x
  PROVE  /\ hotspotSignal(code, qn, x) \in Nat /\ layerSignal(code, qn, x) \in Nat
         /\ hotspotSignal(code, qn, x) <= hotspotSignal(code, qn, {})
         /\ layerSignal(code, qn, x) <= layerSignal(code, qn, {})
<1> DEFINE spots == DOMAIN code.architecture.hotspots
           v == Log1p(code.architecture.hotspots[qn]) \div 2
<1>1. ASSUME qn \in spots PROVE v \in Nat
  <2> DEFINE n == code.architecture.hotspots[qn]
  <2>1. IsCount(n)
    BY <1>1 DEF IsGraph
  <2>2. Len(Logs) \in Nat
    BY LogsAssumption
  <2> HIDE DEF n
  <2>3. n \in Nat
    BY <2>1, <2>2 DEF IsCount
  <2>4. Log1p(n) \in Nat
    BY <2>1, <2>3, LogIs
  <2> QED BY <2>4 DEF n
<1>2. /\ hotspotSignal(code, qn, x) = IF qn \in spots /\ "architecture" \notin x THEN v ELSE 0
      /\ hotspotSignal(code, qn, {}) = IF qn \in spots THEN v ELSE 0
  BY DEF hotspotSignal, Architecture, Answer
<1>3. /\ layerSignal(code, qn, x) = 0 \/ layerSignal(code, qn, x) = 150
      /\ layerSignal(code, qn, x) = 150 => layerSignal(code, qn, {}) = 150
      /\ layerSignal(code, qn, {}) = 0 \/ layerSignal(code, qn, {}) = 150
  <2> DEFINE p == Range(packageOf(code, qn))
             core == code.architecture.core
  <2>1. /\ layerSignal(code, qn, x) = IF p \intersect Architecture(x, core) = {} THEN 0 ELSE 150
        /\ layerSignal(code, qn, {}) = IF p \intersect Architecture({}, core) = {} THEN 0 ELSE 150
    BY DEF layerSignal
  <2>2. Architecture(x, core) \subseteq Architecture({}, core)
    BY DEF Architecture, Answer
  <2> HIDE DEF p, core
  <2> QED BY <2>1, <2>2
<1> HIDE DEF v, spots
<1> QED BY <1>1, <1>2, <1>3

\* What a function is worth, part by part.
CallParts(code, qn, old, x) ==
  [reach |-> Reach(FanIn(code, qn, MaxDepth)),
   renamed |-> renameOldNameSignal(code, old, x),
   packages |-> packageDiversityBonus(Cardinality(Packages(code, FanIn(code, qn, MaxDepth)))),
   entry |-> IF EntryLabel(code, qn, x) # {} \/ SymbolOf(code, qn).entry THEN 200 ELSE 0,
   entries |-> entryReachabilitySignal(code, FanIn(code, qn, MaxDepth), x),
   hotspot |-> hotspotSignal(code, qn, x),
   layer |-> layerSignal(code, qn, x)]

\* The parts are numbers, and an outage never makes one larger.
LEMMA CallBlast ==
  ASSUME NEW code, IsGraph(code), NEW qn, NEW old, NEW x
  PROVE  /\ CallScore(code, qn, old, x).blast \in Nat
         /\ "routes" \notin x => CallScore(code, qn, old, x).blast <= CallScore(code, qn, old, {}).blast
<1> DEFINE p(y) == CallParts(code, qn, old, y)
<1>1. \A y : CallScore(code, qn, old, y).blast =
               p(y).reach + p(y).renamed + p(y).packages + p(y).entry + p(y).entries + p(y).hotspot + p(y).layer
  BY DEF CallScore, CallParts
<1>2. ASSUME NEW y
      PROVE  /\ p(y).reach \in Nat /\ p(y).renamed \in Nat /\ p(y).packages \in Nat /\ p(y).entry \in Nat
             /\ p(y).entries \in Nat /\ p(y).hotspot \in Nat /\ p(y).layer \in Nat
  <2>1. p(y).reach \in Nat /\ p(y).packages \in Nat
    BY CallersWeigh DEF CallParts
  <2>2. p(y).renamed \in Nat
    BY RenameSignalIs DEF CallParts
  <2>3. p(y).hotspot \in Nat /\ p(y).layer \in Nat
    BY PlacesInArchitecture DEF CallParts
  <2>4. p(y).entries \in Nat
    BY CallersWeigh, EntriesAre DEF CallParts
  <2>5. p(y).entry \in Nat
    BY DEF CallParts
  <2> QED BY <2>1, <2>2, <2>3, <2>4, <2>5
<1>3. ASSUME "routes" \notin x
      PROVE  /\ p(x).reach = p({}).reach /\ p(x).renamed <= p({}).renamed /\ p(x).packages = p({}).packages
             /\ p(x).entry <= p({}).entry /\ p(x).entries <= p({}).entries
             /\ p(x).hotspot <= p({}).hotspot /\ p(x).layer <= p({}).layer
  <2>1. p(x).reach = p({}).reach /\ p(x).packages = p({}).packages
    BY DEF CallParts
  <2>2. p(x).renamed <= p({}).renamed
    BY RenameSignalIs DEF CallParts
  <2>3. p(x).hotspot <= p({}).hotspot /\ p(x).layer <= p({}).layer
    BY PlacesInArchitecture DEF CallParts
  <2>4. p(x).entries <= p({}).entries
    BY <1>3, CallersWeigh, EntriesAre DEF CallParts
  <2>5. p(x).entry <= p({}).entry
    <3>1. EntryLabel(code, qn, x) \subseteq EntryLabel(code, qn, {})
      BY <1>3, LabelsAre
    <3> QED BY <3>1 DEF CallParts
  <2> QED BY <2>1, <2>2, <2>3, <2>4, <2>5
<1> HIDE DEF p
<1>4. CallScore(code, qn, old, x).blast \in Nat
  BY <1>1, <1>2
<1>5. ASSUME "routes" \notin x PROVE CallScore(code, qn, old, x).blast <= CallScore(code, qn, old, {}).blast
  <2> DEFINE a == p(x)
             b == p({})
  <2>1. /\ a.reach \in Nat /\ a.renamed \in Nat /\ a.packages \in Nat /\ a.entry \in Nat
        /\ a.entries \in Nat /\ a.hotspot \in Nat /\ a.layer \in Nat
        /\ b.renamed \in Nat /\ b.entry \in Nat /\ b.entries \in Nat /\ b.hotspot \in Nat /\ b.layer \in Nat
    BY <1>2
  <2>2. /\ a.reach = b.reach /\ a.renamed <= b.renamed /\ a.packages = b.packages /\ a.entry <= b.entry
        /\ a.entries <= b.entries /\ a.hotspot <= b.hotspot /\ a.layer <= b.layer
    BY <1>3, <1>5
  <2>3. /\ CallScore(code, qn, old, x).blast =
             a.reach + a.renamed + a.packages + a.entry + a.entries + a.hotspot + a.layer
        /\ CallScore(code, qn, old, {}).blast =
             b.reach + b.renamed + b.packages + b.entry + b.entries + b.hotspot + b.layer
    BY <1>1
  <2> HIDE DEF a, b
  <2> QED BY <2>1, <2>2, <2>3
<1> QED BY <1>4, <1>5

\* The methods of a type, and who calls them.
MethodReach(code, qn, x) == [m \in methodsByParentClass(code, qn, x) |-> Reach(FanIn(code, m, MaxDepth))]

\* The half of the root of their reach, and less of it with an outage.
LEMMA MethodsAre ==
  ASSUME NEW code, IsGraph(code), NEW qn, NEW x
  PROVE  /\ Root(SumFunction(MethodReach(code, qn, x))) \div 2 \in Nat
         /\ Root(SumFunction(MethodReach(code, qn, x))) \div 2
              <= Root(SumFunction(MethodReach(code, qn, {}))) \div 2
<1> DEFINE M(y) == methodsByParentClass(code, qn, y)
           f(y) == MethodReach(code, qn, y)
           r(y) == Root(SumFunction(f(y)))
<1>1. ASSUME NEW y PROVE IsFiniteSet(M(y))
  <2> DEFINE E == {m \in Answer(y, "methods", code.methods) : m[1] = qn}
             g == [e \in E |-> e[2]]
  <2>1. IsFiniteSet(code.methods)
    BY DEF IsGraph
  <2>2. E \in SUBSET code.methods
    BY DEF Answer
  <2>3. IsFiniteSet(E)
    <3> HIDE DEF E
    <3> QED BY <2>1, <2>2, FS_Subset
  <2>4. M(y) = {g[e] : e \in E}
    BY DEF methodsByParentClass
  <2> HIDE DEF M, E, g
  <2> QED BY <2>3, <2>4, ImageIsFinite
<1>2. ASSUME NEW y PROVE f(y) \in [M(y) -> Nat]
  <2>1. \A m : Reach(FanIn(code, m, MaxDepth)) \in Nat
    BY CallersWeigh
  <2> HIDE DEF M
  <2>2. f(y) = [m \in M(y) |-> Reach(FanIn(code, m, MaxDepth))]
    BY DEF MethodReach, M
  <2> HIDE DEF f
  <2> QED BY <2>1, <2>2
<1>3. M(x) \subseteq M({}) /\ \A m \in M(x) : f(x)[m] <= f({})[m]
  <2>1. M(x) \subseteq M({})
    BY DEF methodsByParentClass, Answer
  <2>2. \A m \in M(x) : f(x)[m] = f({})[m] /\ f(x)[m] \in Nat
    <3>1. \A m \in M(x) : f(x)[m] = f({})[m]
      BY <2>1 DEF MethodReach
    <3> HIDE DEF f, M
    <3> QED BY <1>2, <3>1
  <2> HIDE DEF f, M
  <2> QED BY <2>1, <2>2
<1> HIDE DEF M, f
<1>4. SumFunction(f(x)) \in Nat /\ SumFunction(f({})) \in Nat
  BY <1>1, <1>2, SumNat
<1>5. SumFunction(f(x)) <= SumFunction(f({}))
  BY <1>1, <1>2, <1>3, SumOfPart
<1>6. r(x) \in Nat /\ r({}) \in Nat /\ r(x) <= r({})
  BY <1>4, <1>5, RootIs, RootsGrow
<1> HIDE DEF r
<1>7. r(x) \div 2 \in Nat /\ r(x) \div 2 <= r({}) \div 2
  BY <1>6
<1> QED BY <1>7 DEF r, f

\* The implementers of an interface.
LEMMA ImplementersAre ==
  ASSUME NEW code, IsGraph(code), NEW qn, NEW x
  PROVE  /\ implementerCounts(code, qn, x) \in Nat /\ IsCount(implementerCounts(code, qn, x))
         /\ implementerCounts(code, qn, x) <= implementerCounts(code, qn, {})
<1> DEFINE I(y) == {i \in Answer(y, "implementers", code.implements) : i[2] = qn}
           all == Cardinality(code.implements)
<1>1. IsFiniteSet(code.implements) /\ IsCount(all)
  BY DEF IsGraph
<1>2. \A y : I(y) \in SUBSET code.implements
  BY DEF Answer
<1>3. I(x) \in SUBSET I({})
  BY DEF Answer
<1>4. \A y : implementerCounts(code, qn, y) = Cardinality(I(y))
  BY DEF implementerCounts
<1> HIDE DEF I
<1>5. \A y : IsFiniteSet(I(y)) /\ Cardinality(I(y)) \in Nat /\ Cardinality(I(y)) <= all /\ all \in Nat
  BY <1>1, <1>2, FS_Subset, FS_CardinalityType
<1>6. Cardinality(I(x)) <= Cardinality(I({}))
  BY <1>3, <1>5, FS_Subset
<1> HIDE DEF all
<1>7. IsCount(Cardinality(I(x)))
  BY <1>1, <1>5, LogIs
<1> QED BY <1>4, <1>5, <1>6, <1>7

\* Who else implements what a type implements.
OthersOf(code, i, x) ==
  LET others == implementerCounts(code, i, x) - 1 IN IF others <= 0 THEN 0 ELSE Log1p(others)
Others(code, qn, x) == [i \in implementedInterfaces(code, qn, x) |-> OthersOf(code, i, x)]

\* The sum over the interfaces, and less of it with an outage (InterfaceScore).
LEMMA InterfacesAre ==
  ASSUME NEW code, IsGraph(code), NEW s, NEW x
  PROVE  InterfaceScore(code, s, x) \in Nat /\ InterfaceScore(code, s, x) <= InterfaceScore(code, s, {})
<1> DEFINE I(y) == implementedInterfaces(code, s.qn, y)
           f(y) == Others(code, s.qn, y)
           n(i, y) == implementerCounts(code, i, y)
<1>1. \A y : InterfaceScore(code, s, y) = IF s.label = "Interface" THEN Log1p(n(s.qn, y)) ELSE SumFunction(f(y))
  BY DEF InterfaceScore, Others, OthersOf
<1>2. \A i, y : n(i, y) \in Nat /\ IsCount(n(i, y)) /\ n(i, y) <= n(i, {})
  BY ImplementersAre
<1>3. ASSUME NEW i, NEW y PROVE OthersOf(code, i, y) \in Nat /\ OthersOf(code, i, y) <= OthersOf(code, i, {})
  <2> DEFINE a == n(i, y)
             b == n(i, {})
  <2>0. /\ OthersOf(code, i, y) = IF a - 1 <= 0 THEN 0 ELSE Log1p(a - 1)
        /\ OthersOf(code, i, {}) = IF b - 1 <= 0 THEN 0 ELSE Log1p(b - 1)
    BY DEF OthersOf
  <2> HIDE DEF n
  <2>1. a \in Nat /\ b \in Nat /\ IsCount(a) /\ IsCount(b) /\ a <= b
    BY <1>2
  <2> HIDE DEF a, b
  <2>2. ASSUME ~(a - 1 <= 0)
        PROVE  Log1p(a - 1) \in Nat /\ ~(b - 1 <= 0) /\ Log1p(a - 1) <= Log1p(b - 1)
    <3>1. a - 1 \in Nat /\ b - 1 \in Nat /\ a - 1 <= b - 1 /\ b - 1 <= b /\ ~(b - 1 <= 0)
      BY <2>1, <2>2
    <3>2. IsCount(b - 1)
      BY <2>1, <3>1, LogIs
    <3>3. IsCount(a - 1) /\ Log1p(a - 1) <= Log1p(b - 1)
      BY <3>1, <3>2, LogIs
    <3> QED BY <3>1, <3>3, LogIs
  <2>3. ASSUME ~(b - 1 <= 0) PROVE Log1p(b - 1) \in Nat
    <3>1. b - 1 \in Nat /\ b - 1 <= b
      BY <2>1, <2>3
    <3>2. IsCount(b - 1)
      BY <2>1, <3>1, LogIs
    <3> QED BY <3>1, <3>2, LogIs
  <2> QED BY <2>0, <2>2, <2>3
<1>4. ASSUME NEW y PROVE IsFiniteSet(I(y))
  <2> DEFINE E == {m \in Answer(y, "implemented", code.implements) : m[1] = s.qn}
             g == [e \in E |-> e[2]]
  <2>1. IsFiniteSet(code.implements)
    BY DEF IsGraph
  <2>2. E \in SUBSET code.implements
    BY DEF Answer
  <2>3. IsFiniteSet(E)
    <3> HIDE DEF E
    <3> QED BY <2>1, <2>2, FS_Subset
  <2>4. I(y) = {g[e] : e \in E}
    BY DEF implementedInterfaces
  <2> HIDE DEF I, E, g
  <2> QED BY <2>3, <2>4, ImageIsFinite
<1>5. I(x) \subseteq I({})
  BY DEF implementedInterfaces, Answer
<1> HIDE DEF I
<1>6. \A y : f(y) = [i \in I(y) |-> OthersOf(code, i, y)]
  BY DEF Others, I
<1> HIDE DEF f
<1>7. \A y : f(y) \in [I(y) -> Nat]
  BY <1>3, <1>6
<1>8. \A i \in I(x) : f(x)[i] <= f({})[i]
  BY <1>3, <1>5, <1>6
<1>9. SumFunction(f(x)) \in Nat /\ SumFunction(f(x)) <= SumFunction(f({}))
  <2>1. SumFunction(f(x)) \in Nat
    BY <1>4, <1>7, SumNat
  <2>2. SumFunction(f(x)) <= SumFunction(f({}))
    BY <1>4, <1>5, <1>7, <1>8, SumOfPart
  <2> QED BY <2>1, <2>2
<1> HIDE DEF n
<1>10. Log1p(n(s.qn, x)) \in Nat /\ Log1p(n(s.qn, x)) <= Log1p(n(s.qn, {}))
  BY <1>2, LogIs
<1> QED BY <1>1, <1>9, <1>10

\* What a type is worth, part by part.
LEMMA TypeBlast ==
  ASSUME NEW code, IsGraph(code), NEW s, NEW old, NEW x
  PROVE  TypeScore(code, s, old, x).blast \in Nat
         /\ TypeScore(code, s, old, x).blast <= TypeScore(code, s, old, {}).blast
<1> DEFINE u == usage(code, s.name)
           refs == IF u.matches = 0 THEN 0 ELSE u.matches - 1
           a == Root(100 * refs)
           b(y) == renameOldNameSignal(code, old, y)
           m(y) == Root(SumFunction(MethodReach(code, s.qn, y))) \div 2
           p == packageDiversityBonus(Cardinality(u.directories))
           i(y) == InterfaceScore(code, s, y)
<1>1. \A y : TypeScore(code, s, old, y).blast = a + b(y) + m(y) + p + i(y)
  BY DEF TypeScore, MethodReach
<1>2. a \in Nat /\ p \in Nat
  <2>1. u.matches \in Nat /\ p \in Nat
    BY UsageIs
  <2> HIDE DEF u
  <2>2. refs \in Nat
    BY <2>1
  <2> HIDE DEF refs
  <2>3. 100 * refs \in Nat
    BY <2>2
  <2> QED BY <2>1, <2>3, RootIs
<1>3. b(x) \in Nat /\ b({}) \in Nat /\ b(x) <= b({})
  BY RenameSignalIs
<1>4. m(x) \in Nat /\ m({}) \in Nat /\ m(x) <= m({})
  BY MethodsAre
<1>5. i(x) \in Nat /\ i({}) \in Nat /\ i(x) <= i({})
  BY InterfacesAre
<1> HIDE DEF a, b, m, p, i
<1> QED BY <1>1, <1>2, <1>3, <1>4, <1>5

\* How much attention a symbol deserves.
Attention(code, s, x) ==
  codeMetricSignals(s, testCoverageCounts(code, s.qn, x)) + duplicationSignal(similarSymbols(code, s.qn, x))

\* It is a number.
LEMMA AttentionIs ==
  ASSUME NEW code, IsGraph(code), NEW s \in code.symbols, NEW x
  PROVE  Attention(code, s, x) \in Nat
<1> DEFINE n == testCoverageCounts(code, s.qn, x)
           S == similarSymbols(code, s.qn, x)
           f == [m \in S |-> IF m.sameFile THEN 2 * m.jaccard ELSE 3 * m.jaccard]
<1>1. n \in Nat
  <2> DEFINE T == {t \in Answer(x, "tests", code.tests) : t[2] = s.qn}
  <2>1. IsFiniteSet(code.tests) /\ T \in SUBSET code.tests
    BY DEF IsGraph, Answer
  <2> HIDE DEF T
  <2>2. Cardinality(T) \in Nat
    BY <2>1, FS_Subset, FS_CardinalityType
  <2> QED BY <2>2 DEF testCoverageCounts, T
<1>2. codeMetricSignals(s, n) \in Nat
  <2>1. s.metrics \in [1..4 -> Nat]
    BY DEF IsGraph
  <2>2. s.metrics[1] \in Nat /\ s.metrics[2] \in Nat /\ s.metrics[3] \in Nat /\ s.metrics[4] \in Nat
    BY <2>1
  <2> HIDE DEF n
  <2>3. 300 \div (1 + n) \in Nat
    <3>1. 1 + n \in Nat \ {0}
      BY <1>1
    <3> QED BY <3>1, Quotients
  <2> DEFINE q == 300 \div (1 + n)
  <2>4. codeMetricSignals(s, n)
          = 100 * s.metrics[1] + 50 * s.metrics[2] + 300 * s.metrics[3] + 30 * s.metrics[4] + q
    BY DEF codeMetricSignals
  <2> HIDE DEF q
  <2> QED BY <2>2, <2>3, <2>4 DEF q
<1>3. duplicationSignal(S) \in Nat
  <2>1. IsFiniteSet(code.similar) /\ S \in SUBSET code.similar
    BY DEF IsGraph, similarSymbols, Answer
  <2>2. \A m \in S : m.jaccard \in Nat
    BY <2>1 DEF IsGraph
  <2> HIDE DEF S
  <2>3. IsFiniteSet(S)
    BY <2>1, FS_Subset
  <2>4. f \in [S -> Nat]
    <3>1. \A m \in S : 2 * m.jaccard \in Nat /\ 3 * m.jaccard \in Nat
      BY <2>2
    <3> QED BY <3>1
  <2>5. duplicationSignal(S) = SumFunction(f)
    BY DEF duplicationSignal
  <2> HIDE DEF f
  <2> QED BY <2>3, <2>4, <2>5, SumNat
<1> HIDE DEF n, S
<1> QED BY <1>2, <1>3 DEF Attention, n, S

\* A contribution is worth no more without an answer.
LEMMA ContributionIsWorth ==
  ASSUME NEW code, IsGraph(code), NEW s \in code.symbols, NEW old, NEW x
  PROVE  /\ Contribution(code, s, old, x).blast \in Nat /\ Contribution(code, s, old, x).priority \in Nat
         /\ "routes" \notin x => Contribution(code, s, old, x).blast <= Contribution(code, s, old, {}).blast
<1> DEFINE lost(y) == ~IsCallable(s) /\ "usage" \in y
           score(y) == IF IsCallable(s) THEN CallScore(code, s.qn, old, y) ELSE TypeScore(code, s, old, y)
           b(y) == score(y).blast
           w(y) == IF s.qn \in symbolsThatWriteData(code, y) THEN 150 ELSE 0
           C(y) == Contribution(code, s, old, y)
<1>1. ASSUME NEW y PROVE lost(y) => C(y).blast = 0 /\ C(y).priority = 0
  <2> SUFFICES ASSUME lost(y) PROVE C(y).blast = 0 /\ C(y).priority = 0
    OBVIOUS
  <2>1. C(y) = [NoScore EXCEPT !.qn = s.qn]
    BY DEF Contribution
  <2> HIDE DEF C
  <2> QED BY <2>1 DEF NoScore
<1>2. ASSUME NEW y PROVE ~lost(y) => C(y).blast = b(y) + w(y) /\ C(y).priority = Attention(code, s, y)
  <2> DEFINE c == score(y)
             at == Attention(code, s, y)
             bw == b(y) + w(y)
  <2> SUFFICES ASSUME ~lost(y) PROVE C(y).blast = bw /\ C(y).priority = at
    OBVIOUS
  <2>1. C(y) = [qn |-> s.qn, method |-> c.method, callers |-> c.callers, packages |-> c.packages,
                renamedFrom |-> c.renamedFrom, blast |-> bw, priority |-> at]
    BY DEF Contribution, Attention
  <2> HIDE DEF C, c, at, bw
  <2> QED BY <2>1
<1>3. \A y : b(y) \in Nat
  <2>1. \A y : CallScore(code, s.qn, old, y).blast \in Nat
    BY CallBlast
  <2>2. \A y : TypeScore(code, s, old, y).blast \in Nat
    BY TypeBlast
  <2> QED BY <2>1, <2>2
<1>4. "routes" \notin x => b(x) <= b({})
  <2>1. "routes" \notin x => CallScore(code, s.qn, old, x).blast <= CallScore(code, s.qn, old, {}).blast
    BY CallBlast
  <2>2. TypeScore(code, s, old, x).blast <= TypeScore(code, s, old, {}).blast
    BY TypeBlast
  <2> QED BY <2>1, <2>2
<1>5. w(x) \in Nat /\ w({}) \in Nat /\ w(x) <= w({})
  BY DEF symbolsThatWriteData, Answer
<1>6. ~lost({})
  OBVIOUS
<1>7. \A y : Attention(code, s, y) \in Nat
  BY AttentionIs
<1> HIDE DEF lost, b, w, C
<1>8. C({}).blast = b({}) + w({}) /\ b({}) + w({}) \in Nat
  BY <1>2, <1>3, <1>5, <1>6
<1>9. CASE lost(x)
  BY <1>1, <1>8, <1>9 DEF C
<1>10. CASE ~lost(x)
  <2>1. C(x).blast = b(x) + w(x) /\ C(x).priority \in Nat
    BY <1>2, <1>7, <1>10
  <2>2. b(x) \in Nat /\ b({}) \in Nat
    BY <1>3
  <2> QED BY <1>4, <1>5, <1>8, <2>1, <2>2 DEF C
<1> QED BY <1>9, <1>10

-----------------------------------------------------------------------------
(* What a hunk is worth.                                                   *)

\* The roles of a file.
LEMMA RolesAre ==
  ASSUME NEW file, IsFiniteSet(Roles[file])
  PROVE  archRoleSignals(file) \in Nat
<1> DEFINE S == Roles[file]
           f == [role \in S |-> CASE role \in {"auth", "schema"} -> 200
                                  [] role \in {"persistence", "build"} -> 150
                                  [] OTHER -> 100]
<1>1. f \in [S -> Nat]
  OBVIOUS
<1>2. archRoleSignals(file) = SumFunction(f)
  BY DEF archRoleSignals
<1> HIDE DEF f
<1> QED BY <1>1, <1>2, SumNat

\* Of a file that changes with others: a share, unless the query fails.
LEMMA CouplingIs ==
  ASSUME NEW code, IsGraph(code), NEW file, NEW x
  PROVE  /\ (3 * fileCouplingBonus(code, file, x)) \div 10 \in Nat
         /\ (3 * fileCouplingBonus(code, file, x)) \div 10 <= (3 * fileCouplingBonus(code, file, {})) \div 10
<1> DEFINE v == Root(code.coupling[file])
           known == file \in DOMAIN code.coupling
           c(y) == fileCouplingBonus(code, file, y)
<1>1. known => v \in Nat
  BY RootIs DEF IsGraph
<1>2. /\ c(x) = IF "coupling" \in x \/ ~known THEN 0 ELSE v
      /\ c({}) = IF ~known THEN 0 ELSE v
  BY DEF fileCouplingBonus
<1> HIDE DEF v, known, c
<1>3. c(x) \in Nat /\ c({}) \in Nat /\ c(x) <= c({})
  BY <1>1, <1>2
<1>4. (3 * c(x)) \div 10 \in Nat /\ (3 * c(x)) \div 10 <= (3 * c({})) \div 10
  BY <1>3
<1> QED BY <1>4 DEF c

\* The symbols of a hunk and their sums.
LEMMA SymbolsAre ==
  ASSUME NEW code, IsGraph(code), NEW hunks, NEW h, NEW x
  PROVE  /\ IsFiniteSet(SymbolsOf(code, hunks, h, x))
         /\ Blasts(SymbolsOf(code, hunks, h, x)) \in [SymbolsOf(code, hunks, h, x) -> Nat]
         /\ Priorities(SymbolsOf(code, hunks, h, x)) \in [SymbolsOf(code, hunks, h, x) -> Nat]
         /\ "routes" \notin x =>
              SumFunction(Blasts(SymbolsOf(code, hunks, h, x)))
                <= SumFunction(Blasts(SymbolsOf(code, hunks, h, {})))
<1> DEFINE T == Touched(code, h)
           C(s, y) == Contribution(code, s, RenamedFrom(code, hunks, s), y)
           S(y) == SymbolsOf(code, hunks, h, y)
<1>1. T \in SUBSET code.symbols /\ IsFiniteSet(T)
  <2>1. T \in SUBSET code.symbols
    BY DEF Touched, ForHunk, InFile
  <2>2. IsFiniteSet(code.symbols)
    BY DEF IsGraph
  <2> HIDE DEF T
  <2> QED BY <2>1, <2>2, FS_Subset
<1>2. \A y : S(y) = {C(s, y) : s \in T}
  BY DEF SymbolsOf
<1>3. \A s \in T : \A y : C(s, y).blast \in Nat /\ C(s, y).priority \in Nat /\ C(s, y).qn = s.qn
  <2> HIDE DEF T
  <2> TAKE s \in T
  <2> TAKE y
  <2>1. s \in code.symbols
    BY <1>1
  <2> QED BY <2>1, ContributionIsWorth, ContributionIs
<1>4. "routes" \notin x => \A s \in T : C(s, x).blast <= C(s, {}).blast
  <2> HIDE DEF T
  <2> QED BY <1>1, ContributionIsWorth
<1> HIDE DEF T, C, S
<1>5. \A y : IsFiniteSet(S(y))
  <2> TAKE y
  <2> DEFINE g == [s \in T |-> C(s, y)]
  <2>1. S(y) = {g[s] : s \in T}
    BY <1>2
  <2> HIDE DEF g
  <2> QED BY <1>1, <2>1, ImageIsFinite
<1>6. \A y : \A c \in S(y) : c.blast \in Nat /\ c.priority \in Nat
  BY <1>2, <1>3
<1>7. \A y : Blasts(S(y)) \in [S(y) -> Nat] /\ Priorities(S(y)) \in [S(y) -> Nat]
  BY <1>6 DEF Blasts, Priorities
<1>8. ASSUME "routes" \notin x
      PROVE  SumFunction(Blasts(S(x))) <= SumFunction(Blasts(S({})))
  <2> DEFINE Same(c, d) == c.qn = d.qn
             g == [c \in S(x) |-> CHOOSE d \in S({}) : Same(c, d)]
  <2>1. ASSUME NEW c \in S(x) PROVE \E d \in S({}) : Same(c, d) /\ c.blast <= d.blast
    <3>1. PICK s \in T : c = C(s, x)
      BY <1>2
    <3>2. C(s, {}) \in S({})
      BY <1>2
    <3> QED BY <1>3, <1>4, <1>8, <3>1, <3>2
  <2>2. ASSUME NEW y, NEW c \in S(y), NEW d \in S(y), c.qn = d.qn PROVE c = d
    <3>1. PICK s \in T : c = C(s, y)
      BY <1>2
    <3>2. PICK t \in T : d = C(t, y)
      BY <1>2
    <3>3. s.qn = t.qn /\ s \in code.symbols /\ t \in code.symbols
      BY <1>1, <1>3, <2>2, <3>1, <3>2
    <3> QED BY <3>1, <3>2, <3>3 DEF IsGraph
  <2> HIDE DEF Same
  <2>3. \A c \in S(x) : g[c] \in S({}) /\ Same(c, g[c])
    BY <2>1
  <2>4. g \in [S(x) -> S({})]
    BY <2>3
  <2> HIDE DEF g
  <2>5. \A c, d \in S(x) : g[c] = g[d] => c = d
    BY <2>2, <2>3 DEF Same
  <2>6. \A c \in S(x) : c.blast <= g[c].blast
    <3> TAKE c \in S(x)
    <3>1. PICK d \in S({}) : Same(c, d) /\ c.blast <= d.blast
      BY <2>1
    <3>2. d = g[c]
      BY <2>2, <2>3, <3>1 DEF Same
    <3> QED BY <3>1, <3>2
  <2>7. \A c \in S(x) : Blasts(S(x))[c] <= Blasts(S({}))[g[c]]
    BY <2>3, <2>6 DEF Blasts
  <2> QED BY <1>5, <1>7, <2>4, <2>5, <2>7, SumThrough
<1> QED BY <1>5, <1>7, <1>8 DEF S

\* The numbers of a hunk.
LEMMA HunkIsWorth ==
  ASSUME NEW code, IsGraph(code), NEW hunks, NEW h, IsFiniteSet(Roles[h.file]), NEW x
  PROVE  /\ HunkScore(code, hunks, h, x).blast \in Nat
         /\ HunkScore(code, hunks, h, x).priority \in Nat
         /\ HunkScore(code, hunks, h, x).hygiene \in 0..100
         /\ "routes" \notin x => HunkScore(code, hunks, h, x).blast <= HunkScore(code, hunks, h, {}).blast
<1> DEFINE sum(y) == SumFunction(Blasts(SymbolsOf(code, hunks, h, y)))
           c(y) == (3 * fileCouplingBonus(code, h.file, y)) \div 10
           a == archRoleSignals(h.file)
           p == SumFunction(Priorities(SymbolsOf(code, hunks, h, x)))
<1>1. /\ \A y : HunkScore(code, hunks, h, y).blast = Root(sum(y)) + c(y) + a
      /\ HunkScore(code, hunks, h, x).priority = Root(p)
  BY HunkScoreFields
<1>2. \A y : sum(y) \in Nat
  BY SymbolsAre, SumNat
<1>3. p \in Nat
  BY SymbolsAre, SumNat
<1>4. "routes" \notin x => sum(x) <= sum({})
  BY SymbolsAre
<1>5. a \in Nat /\ c(x) \in Nat /\ c({}) \in Nat /\ c(x) <= c({})
  BY RolesAre, CouplingIs
<1> HIDE DEF sum, c, a, p
<1>6. Root(p) \in Nat /\ Root(sum(x)) \in Nat /\ Root(sum({})) \in Nat
  BY <1>2, <1>3, RootIs
<1>7. "routes" \notin x => Root(sum(x)) <= Root(sum({}))
  BY <1>2, <1>4, RootsGrow
<1>8. HunkScore(code, hunks, h, x).hygiene \in 0..100
  <2>1. classifyHunkHygiene(h, Touched(code, h)) \in {10, 5, 15, 40, 60, 100}
    BY DEF classifyHunkHygiene
  <2> QED BY <2>1, HunkScoreFields
<1> QED BY <1>1, <1>5, <1>6, <1>7, <1>8

\* A query that fails hides risk and never makes any up: every hunk is scored as the whole report
\* scores it, with sums of fewer and smaller signals.  The queries for routes are excepted: without
\* one, two handlers of a route count under two names.
THEOREM FailureHidesRisk == AnalysisSpec => []OutageHidesRisk
<1>1. AnalysisInv => OutageHidesRisk
  <2> SUFFICES ASSUME AnalysisInv, report.status = "ready", "routes" \notin report.outage,
                      NEW i \in DOMAIN report.scores
               PROVE  report.scores[i].hunk.blast <= ScoreHunks(input.code, Hunks, {})[i].hunk.blast
    BY DEF OutageHidesRisk
  <2> DEFINE H == Hunks
             x == report.outage
             code == input.code
  <2>1. report.scores = ScoreHunks(code, H, x) /\ IsGraph(code) /\ HunksInOrder(H)
    BY ReadyIs DEF Hunks
  <2> HIDE DEF H
  <2>2. H \in Seq(Range(H))
    BY <2>1 DEF HunksInOrder
  <2>3. /\ i \in DOMAIN H
        /\ report.scores[i].hunk = HunkScore(code, H, H[i], x)
        /\ ScoreHunks(code, H, {})[i].hunk = HunkScore(code, H, H[i], {})
    BY <2>1, <2>2, ScoresAre
  <2>4. IsFiniteSet(Roles[H[i].file])
    BY <2>1, <2>3 DEF HunksInOrder
  <2>5. HunkScore(code, H, H[i], x).blast <= HunkScore(code, H, H[i], {}).blast
    BY <2>1, <2>4, HunkIsWorth
  <2> QED BY <2>3, <2>5 DEF H
<1> QED BY <1>1, AnalysisIsOfTheDiff, PTL

-----------------------------------------------------------------------------
(* The ranks of the hunks.                                                 *)

\* A finite set of natural numbers has a bound.
LEMMA Bounded ==
  ASSUME NEW T \in SUBSET Nat, IsFiniteSet(T)
  PROVE  \E n \in Nat : \A k \in T : k <= n
<1> DEFINE Has(U) == \E n \in Nat : \A k \in U : k <= n
           bad == {c \in Nat : \E U \in SUBSET T : Cardinality(U) = c /\ ~Has(U)}
<1>1. \A U \in SUBSET T : IsFiniteSet(U) /\ Cardinality(U) \in Nat
  BY FS_Subset, FS_CardinalityType
<1>2. ASSUME bad # {} PROVE FALSE
  <2>1. PICK c \in bad : \A d \in bad : c <= d
    <3> HIDE DEF Has
    <3> QED BY <1>2, Least
  <2>2. PICK U \in SUBSET T : Cardinality(U) = c /\ ~Has(U)
    BY <2>1
  <2>3. PICK x \in U : TRUE
    BY <2>2
  <2>4. U \ {x} \in SUBSET T /\ Cardinality(U \ {x}) = c - 1
    BY <1>1, <2>2, <2>3, FS_RemoveElement
  <2>5. Has(U \ {x})
    <3> HIDE DEF Has
    <3> QED BY <1>1, <2>1, <2>4
  <2>6. PICK n \in Nat : \A k \in U \ {x} : k <= n
    BY <2>5
  <2>7. x \in Nat
    BY <2>2, <2>3
  <2> DEFINE m == IF n <= x THEN x ELSE n
  <2>8. m \in Nat /\ \A k \in U : k <= m
    BY <2>2, <2>6, <2>7
  <2> QED BY <2>2, <2>8
<1>3. Has(T)
  <2> HIDE DEF Has
  <2> QED BY <1>1, <1>2
<1> QED BY <1>3

\* Products grow.
LEMMA ProductsGrow == \A a, b, c, d \in Nat : a <= c /\ b <= d => a * b <= c * d
<1> SUFFICES ASSUME NEW a \in Nat, NEW b \in Nat, NEW c \in Nat, NEW d \in Nat, a <= c, b <= d
             PROVE  a * b <= c * d
  OBVIOUS
<1>1. PICK u \in Nat, v \in Nat : c = a + u /\ d = b + v
  <2>1. c - a \in Nat /\ d - b \in Nat /\ c = a + (c - a) /\ d = b + (d - b)
    OBVIOUS
  <2> QED BY <2>1
<1>2. c * d = a * b + (a * v + u * b + u * v)
  BY <1>1
<1>3. a * v \in Nat /\ u * b \in Nat /\ u * v \in Nat /\ a * b \in Nat
  OBVIOUS
<1> QED BY <1>2, <1>3

\* The scale of a score, and of a share.
Scale == 10000

\* It is a positive number.
LEMMA ScaleIs == Scale \in Nat \ {0} /\ 100 * 100 = Scale
  BY DEF Scale

\* A share of the highest stays on the scale and keeps the order.
LEMMA NormIs ==
  ASSUME NEW n \in Nat, NEW points \in [1..n -> Nat]
  PROVE  /\ \A i \in 1..n : Norm(points, i) \in 0..Scale
         /\ \A i, j \in 1..n : points[i] >= points[j] => Norm(points, i) >= Norm(points, j)
<1> DEFINE T == {0} \union Range(points)
           top == Max(T)
           share == [i \in 1..n |-> (Scale * points[i]) \div top]
<1>1. T \in SUBSET Nat /\ IsFiniteSet(T) /\ 0 \in T /\ \A i \in 1..n : points[i] \in T
  <2>1. IsFiniteSet(1..n)
    BY FS_Interval
  <2>2. IsFiniteSet({points[i] : i \in 1..n})
    BY <2>1, ImageIsFinite
  <2>3. Range(points) = {points[i] : i \in 1..n}
    BY DEF Range
  <2>4. IsFiniteSet({0})
    BY FS_Singleton
  <2>5. IsFiniteSet(T)
    BY <2>2, <2>3, <2>4, FS_Union
  <2> QED BY <2>3, <2>5
<1>2. \A i \in 1..n : Norm(points, i) = IF top = 0 THEN 0 ELSE share[i]
  BY DEF Norm, Highest, Scale
<1> HIDE DEF T
<1>3. PICK b \in Nat : \A k \in T : k <= b
  BY <1>1, Bounded
<1>4. top \in T /\ \A y \in T : y <= top
  <2>1. T \in SUBSET (0..b) /\ T # {}
    BY <1>1, <1>3
  <2> QED BY <2>1, MaxIs
<1>5. top \in Nat /\ \A i \in 1..n : points[i] \in Nat /\ points[i] <= top
  BY <1>1, <1>4
<1> HIDE DEF top
<1>6. ASSUME top # 0, NEW i \in 1..n PROVE share[i] \in Nat /\ share[i] <= Scale
  <2> DEFINE p == Scale * points[i]
             t == Scale * top
  <2>1. p \in Nat /\ t \in Nat /\ p <= t
    <3>1. points[i] \in Nat /\ points[i] <= top /\ top \in Nat /\ Scale \in Nat /\ Scale <= Scale
      BY <1>5, ScaleIs
    <3> QED BY <3>1, ProductsGrow
  <2>2. t \div top = Scale
    BY <1>5, <1>6, ScaleIs, Quotients
  <2> HIDE DEF p, t
  <2>3. p \div top \in Nat /\ p \div top <= t \div top
    BY <1>5, <1>6, <2>1, Quotients
  <2>4. share[i] = p \div top
    BY DEF p
  <2> HIDE DEF share
  <2> QED BY <2>2, <2>3, <2>4
<1>7. ASSUME top # 0, NEW i \in 1..n, NEW j \in 1..n, points[i] >= points[j] PROVE share[j] <= share[i]
  <2> DEFINE p == Scale * points[i]
             q == Scale * points[j]
  <2>1. p \in Nat /\ q \in Nat /\ q <= p
    <3>1. points[i] \in Nat /\ points[j] \in Nat /\ points[j] <= points[i] /\ Scale \in Nat /\ Scale <= Scale
      BY <1>5, <1>7, ScaleIs
    <3> QED BY <3>1, ProductsGrow
  <2>2. share[i] = p \div top /\ share[j] = q \div top
    OBVIOUS
  <2> HIDE DEF p, q, share
  <2>3. q \div top <= p \div top
    BY <1>5, <1>7, <2>1, Quotients
  <2> QED BY <2>2, <2>3
<1> HIDE DEF share
<1>8. ASSUME NEW i \in 1..n PROVE Norm(points, i) \in 0..Scale
  <2>1. CASE top = 0
    BY <1>2, <2>1, ScaleIs
  <2>2. CASE top # 0
    <3>1. Norm(points, i) = share[i] /\ share[i] \in Nat /\ share[i] <= Scale
      BY <1>2, <1>6, <2>2
    <3> QED BY <3>1, ScaleIs
  <2> QED BY <2>1, <2>2
<1>9. ASSUME NEW i \in 1..n, NEW j \in 1..n, points[i] >= points[j] PROVE Norm(points, i) >= Norm(points, j)
  <2>1. CASE top = 0
    BY <1>2, <2>1
  <2>2. CASE top # 0
    <3>1. Norm(points, i) = share[i] /\ Norm(points, j) = share[j] /\ share[j] <= share[i]
      BY <1>2, <1>7, <1>9, <2>2
    <3>2. share[i] \in Nat /\ share[j] \in Nat
      BY <1>6, <2>2
    <3> QED BY <3>1, <3>2
  <2> QED BY <2>1, <2>2
<1> QED BY <1>8, <1>9

\* The score of a hunk stays on the scale, and is no smaller than that of one with no more of anything.
LEMMA CombinedIs ==
  ASSUME NEW n \in Nat, NEW scores, DOMAIN scores = 1..n,
         \A i \in 1..n : scores[i].blast \in Nat /\ scores[i].priority \in Nat /\ scores[i].hygiene \in 0..100
  PROVE  /\ \A i \in 1..n : Combined(scores, i) \in 0..Scale
         /\ \A i, j \in 1..n :
              /\ scores[i].blast >= scores[j].blast
              /\ scores[i].priority >= scores[j].priority
              /\ scores[i].hygiene >= scores[j].hygiene
              => Combined(scores, i) >= Combined(scores, j)
<1> DEFINE blasts == [j \in DOMAIN scores |-> scores[j].blast]
           priorities == [j \in DOMAIN scores |-> scores[j].priority]
           a == [i \in 1..n |-> Norm(blasts, i)]
           b == [i \in 1..n |-> Norm(priorities, i)]
           u == [i \in 1..n |-> 60 * a[i] + 40 * b[i]]
           h == [i \in 1..n |-> scores[i].hygiene]
           p == [i \in 1..n |-> u[i] * h[i]]
<1>1. \A i \in 1..n : Combined(scores, i) = p[i] \div Scale
  BY DEF Combined, Scale
<1>2. blasts \in [1..n -> Nat] /\ priorities \in [1..n -> Nat]
      /\ \A i \in 1..n : blasts[i] = scores[i].blast /\ priorities[i] = scores[i].priority
  OBVIOUS
<1> HIDE DEF blasts, priorities
<1>3. \A i \in 1..n : a[i] \in 0..Scale /\ b[i] \in 0..Scale
  BY <1>2, NormIs
<1>4. \A i, j \in 1..n : scores[i].blast >= scores[j].blast /\ scores[i].priority >= scores[j].priority
                         => a[i] >= a[j] /\ b[i] >= b[j]
  <2>1. /\ \A i, j \in 1..n : blasts[i] >= blasts[j] => Norm(blasts, i) >= Norm(blasts, j)
        /\ \A i, j \in 1..n : priorities[i] >= priorities[j] => Norm(priorities, i) >= Norm(priorities, j)
    BY <1>2, NormIs
  <2>2. \A i \in 1..n : a[i] = Norm(blasts, i) /\ b[i] = Norm(priorities, i)
    OBVIOUS
  <2> HIDE DEF a, b
  <2> QED BY <1>2, <2>1, <2>2
<1> HIDE DEF a, b
<1>5. \A i \in 1..n : u[i] = 60 * a[i] + 40 * b[i] /\ h[i] = scores[i].hygiene
  OBVIOUS
<1>6. \A i \in 1..n : p[i] = u[i] * h[i]
  OBVIOUS
<1> HIDE DEF u, h, p
<1>7. ASSUME NEW i \in 1..n
      PROVE  /\ a[i] \in Nat /\ b[i] \in Nat /\ u[i] \in Nat /\ u[i] <= 100 * Scale
             /\ h[i] \in Nat /\ h[i] <= 100 /\ p[i] \in Nat
  <2>1. u[i] = 60 * a[i] + 40 * b[i] /\ h[i] = scores[i].hygiene /\ p[i] = u[i] * h[i]
    BY <1>5, <1>6
  <2>2. a[i] \in Nat /\ b[i] \in Nat /\ a[i] <= Scale /\ b[i] <= Scale /\ Scale \in Nat
    BY <1>3, ScaleIs
  <2>3. u[i] \in Nat /\ u[i] <= 100 * Scale
    BY <2>1, <2>2
  <2>4. h[i] \in Nat /\ h[i] <= 100
    <3>1. h[i] \in 0..100
      <4>1. h[i] = scores[i].hygiene
        BY <1>5
      <4> QED BY <4>1
    <3>2. \A v \in 0..100 : v \in Nat /\ v <= 100
      OBVIOUS
    <3> QED BY <3>1, <3>2
  <2>5. p[i] \in Nat
    <3>1. \A v, w \in Nat : v * w \in Nat
      OBVIOUS
    <3>2. u[i] * h[i] \in Nat
      BY <2>3, <2>4, <3>1
    <3> QED BY <2>1, <3>2
  <2> QED BY <2>2, <2>3, <2>4, <2>5
<1>8. ASSUME NEW i \in 1..n PROVE Combined(scores, i) \in 0..Scale
  <2> DEFINE q == Scale * Scale
             c == p[i] \div Scale
  <2>1. q = (100 * Scale) * 100 /\ q \in Nat /\ 100 * Scale \in Nat /\ 100 \in Nat
    BY ScaleIs
  <2>2. u[i] * h[i] <= (100 * Scale) * 100
    BY <1>7, <2>1, ProductsGrow
  <2>3. p[i] \in Nat /\ p[i] <= q
    BY <1>6, <1>7, <2>1, <2>2
  <2>4. q \div Scale = Scale
    BY ScaleIs, Quotients
  <2> HIDE DEF q
  <2>5. c \in Nat /\ c <= q \div Scale
    BY <2>1, <2>3, ScaleIs, Quotients
  <2> HIDE DEF c
  <2>6. c \in 0..Scale
    BY <2>4, <2>5, ScaleIs
  <2> QED BY <1>1, <2>6 DEF c
<1>9. ASSUME NEW i \in 1..n, NEW j \in 1..n, scores[i].blast >= scores[j].blast,
             scores[i].priority >= scores[j].priority, scores[i].hygiene >= scores[j].hygiene
      PROVE  Combined(scores, i) >= Combined(scores, j)
  <2>1. a[i] >= a[j] /\ b[i] >= b[j]
    BY <1>4, <1>9
  <2>2. /\ a[i] \in Nat /\ b[i] \in Nat /\ u[i] \in Nat /\ h[i] \in Nat /\ p[i] \in Nat
        /\ a[j] \in Nat /\ b[j] \in Nat /\ u[j] \in Nat /\ h[j] \in Nat /\ p[j] \in Nat
    BY <1>7
  <2>3. h[j] <= h[i]
    <3>1. h[i] = scores[i].hygiene /\ h[j] = scores[j].hygiene
      BY <1>5
    <3> QED BY <1>9, <2>2, <3>1
  <2>4. u[j] <= u[i]
    <3>1. u[i] = 60 * a[i] + 40 * b[i] /\ u[j] = 60 * a[j] + 40 * b[j]
      BY <1>5
    <3>2. \A x, y, z, w \in Nat : x >= y /\ z >= w => 60 * y + 40 * w <= 60 * x + 40 * z
      OBVIOUS
    <3>3. 60 * a[j] + 40 * b[j] <= 60 * a[i] + 40 * b[i]
      BY <2>1, <2>2, <3>2
    <3> QED BY <3>1, <3>3
  <2>5. u[j] * h[j] <= u[i] * h[i]
    BY <2>2, <2>3, <2>4, ProductsGrow
  <2>6. p[j] <= p[i]
    BY <1>6, <2>5
  <2>7. p[j] \div Scale <= p[i] \div Scale /\ p[i] \div Scale \in Nat /\ p[j] \div Scale \in Nat
    <3>1. p[i] \in Nat /\ p[j] \in Nat /\ Scale \in Nat \ {0}
      BY <2>2, ScaleIs
    <3>2. p[i] \div Scale \in Nat /\ p[j] \div Scale \in Nat
      BY <3>1, Quotients
    <3>3. p[j] \div Scale <= p[i] \div Scale
      BY <2>6, <3>1, Quotients
    <3> QED BY <3>2, <3>3
  <2>8. Combined(scores, i) = p[i] \div Scale /\ Combined(scores, j) = p[j] \div Scale
    BY <1>1
  <2> QED BY <2>7, <2>8
<1> QED BY <1>8, <1>9

\* The page is sorted by score, those without one last, and no hunk is lost or shown twice.
Kept(hunks) ==
  LET sorted == sortedHunksByBlastRadius(hunks) IN
  /\ ToBag(sorted) = ToBag(hunks)
  /\ \A i, j \in DOMAIN sorted : i < j => sorted[i].score >= sorted[j].score

\* sort.SliceStable by Before does so.
LEMMA SortIs ==
  ASSUME NEW hunks, hunks \in Seq(Range(hunks)), \A i \in DOMAIN hunks : hunks[i].score \in Nat \union {Unscored}
  PROVE  Kept(hunks)
<1> DEFINE n == Len(hunks)
           K == DOMAIN hunks
           R == {p \in K \X K : Before(hunks[p[1]], hunks[p[2]])
                                \/ (p[1] < p[2] /\ ~Before(hunks[p[2]], hunks[p[1]]))}
           sc == [i \in K |-> hunks[i].score]
           N(i) == {j \in K : Before(hunks[j], hunks[i]) \/ (j < i /\ ~Before(hunks[i], hunks[j]))}
           A == [i \in K |-> Cardinality(N(i))]
           place == [m \in K |-> CHOOSE i \in K : Cardinality(N(i)) = m - 1]
           sorted == [m \in K |-> hunks[place[m]]]
<1>1. n \in Nat /\ K = 1..n /\ IsFiniteSet(K) /\ Cardinality(K) = n
  <2>1. n \in Nat /\ K = 1..n
    OBVIOUS
  <2>2. IsFiniteSet(1..n) /\ Cardinality(1..n) = IF 1 > n THEN 0 ELSE n - 1 + 1
    BY <2>1, FS_Interval
  <2> HIDE DEF n, K
  <2> QED BY <2>1, <2>2
<1>2. \A i \in K : sc[i] \in Int /\ sc[i] = hunks[i].score
  BY DEF Unscored
<1>3. ASSUME NEW i \in K, NEW j \in K PROVE Before(hunks[i], hunks[j]) <=> sc[i] > sc[j]
  BY DEF Before, Unscored
<1>4. \A i, j \in K : <<i, j>> \in R <=> sc[i] > sc[j] \/ (i < j /\ ~(sc[j] > sc[i]))
  <2> HIDE DEF sc
  <2> QED BY <1>3
<1>5. \A i \in K : N(i) = Ahead(i, K, R)
  BY DEF Ahead
<1> HIDE DEF K, R, N, sc
<1>6. IsOrder(K, R)
  <2>1. \A i \in K : i \in Nat /\ sc[i] \in Int
    BY <1>1, <1>2
  <2>2. ASSUME NEW i \in K PROVE <<i, i>> \notin R
    <3>1. ~(sc[i] > sc[i]) /\ ~(i < i)
      BY <2>1
    <3> QED BY <1>4, <3>1
  <2>3. ASSUME NEW i \in K, NEW j \in K PROVE i = j \/ <<i, j>> \in R \/ <<j, i>> \in R
    <3>1. sc[i] > sc[j] \/ sc[j] > sc[i] \/ i = j
          \/ (i < j /\ ~(sc[j] > sc[i])) \/ (j < i /\ ~(sc[i] > sc[j]))
      BY <2>1
    <3> QED BY <1>4, <3>1
  <2>4. ASSUME NEW i \in K, NEW j \in K, NEW k \in K, <<i, j>> \in R, <<j, k>> \in R PROVE <<i, k>> \in R
    <3>1. sc[i] > sc[j] \/ (i < j /\ ~(sc[j] > sc[i]))
      BY <1>4, <2>4
    <3>2. sc[j] > sc[k] \/ (j < k /\ ~(sc[k] > sc[j]))
      BY <1>4, <2>4
    <3>3. sc[i] > sc[k] \/ (i < k /\ ~(sc[k] > sc[i]))
      BY <2>1, <3>1, <3>2
    <3> QED BY <1>4, <3>3
  <2> QED BY <2>2, <2>3, <2>4 DEF IsOrder
<1>7. /\ \A i \in K : A[i] \in 0..(n - 1)
      /\ \A i, k \in K : <<i, k>> \in R => A[i] < A[k]
      /\ \A m \in 0..(n - 1) : \E i \in K : A[i] = m
  <2>1. \A i \in K : A[i] = Cardinality(Ahead(i, K, R))
    BY <1>5
  <2> HIDE DEF A, n
  <2>2. /\ \A i \in K : Cardinality(Ahead(i, K, R)) \in 0..(Cardinality(K) - 1)
        /\ \A i, k \in K : <<i, k>> \in R => Cardinality(Ahead(i, K, R)) < Cardinality(Ahead(k, K, R))
        /\ \A m \in 0..(Cardinality(K) - 1) : \E i \in K : Cardinality(Ahead(i, K, R)) = m
    BY <1>1, <1>6, Places
  <2>3. Cardinality(K) = n
    BY <1>1
  <2>4. \A i \in K : A[i] \in 0..(n - 1)
    BY <2>1, <2>2, <2>3
  <2>5. \A i, k \in K : <<i, k>> \in R => A[i] < A[k]
    BY <2>1, <2>2
  <2>6. \A m \in 0..(n - 1) : \E i \in K : A[i] = m
    BY <2>1, <2>2, <2>3
  <2> QED BY <2>4, <2>5, <2>6
<1>8. ASSUME NEW m \in K PROVE place[m] \in K /\ A[place[m]] = m - 1
  <2>1. m - 1 \in 0..(n - 1)
    BY <1>1
  <2>2. PICK i \in K : A[i] = m - 1
    <3> HIDE DEF A
    <3> QED BY <1>7, <2>1
  <2>3. \A k \in K : A[k] = Cardinality(N(k))
    OBVIOUS
  <2>4. Cardinality(N(i)) = m - 1
    BY <2>2, <2>3
  <2>5. place[m] \in K /\ Cardinality(N(place[m])) = m - 1
    BY <2>4
  <2> QED BY <2>3, <2>5
<1>9. sorted = sortedHunksByBlastRadius(hunks)
  BY DEF sortedHunksByBlastRadius, K, N
<1>10. DOMAIN sorted = K /\ \A m \in K : sorted[m] = hunks[place[m]]
  OBVIOUS
<1>11. place \in [K -> K]
  BY <1>8
<1> HIDE DEF A, place, sorted, n
<1>12. ASSUME NEW m \in K, NEW l \in K, place[m] = place[l] PROVE m = l
  <2>1. m \in Nat /\ l \in Nat
    BY <1>1
  <2>2. A[place[m]] = m - 1 /\ A[place[l]] = l - 1
    BY <1>8
  <2>3. m - 1 = l - 1
    BY <1>12, <2>2
  <2> QED BY <2>1, <2>3
<1>13. ASSUME NEW m \in K, NEW l \in K, m < l PROVE sorted[m].score >= sorted[l].score
  <2>1. place[m] \in K /\ place[l] \in K /\ m \in Nat /\ l \in Nat /\ A[place[m]] = m - 1 /\ A[place[l]] = l - 1
    BY <1>1, <1>8
  <2>2. <<place[l], place[m]>> \notin R
    <3>1. ~(l - 1 < m - 1)
      BY <1>13, <2>1
    <3>2. ~(A[place[l]] < A[place[m]])
      BY <2>1, <3>1
    <3> QED BY <1>7, <2>1, <3>2
  <2>3. place[m] # place[l]
    BY <1>12, <1>13, <2>1
  <2>4. <<place[m], place[l]>> \in R
    BY <1>6, <2>1, <2>2, <2>3 DEF IsOrder
  <2>5. sc[place[m]] >= sc[place[l]]
    <3>1. sc[place[m]] \in Int /\ sc[place[l]] \in Int
      BY <1>2, <2>1
    <3>2. ~(sc[place[l]] > sc[place[m]])
      <4>1. sc[place[m]] > sc[place[l]] \/ ~(sc[place[l]] > sc[place[m]])
        BY <1>4, <2>1, <2>4
      <4> QED BY <3>1, <4>1
    <3> QED BY <3>1, <3>2
  <2> QED BY <1>2, <1>10, <2>1, <2>5
<1>14. \A i \in K : \E m \in K : place[m] = i
  <2>1. place \in Injection(K, K)
    BY <1>11, <1>12 DEF Injection, IsInjective
  <2>2. place \in Surjection(K, K)
    BY <1>1, <2>1, FS_Injection
  <2> QED BY <2>2 DEF Surjection
<1>15. Range(sorted) = Range(hunks)
  <2>1. Range(sorted) = {hunks[place[m]] : m \in K}
    BY <1>10 DEF Range
  <2>2. Range(hunks) = {hunks[i] : i \in K}
    BY DEF Range, K
  <2>3. \A m \in K : place[m] \in K
    BY <1>8
  <2> QED BY <1>14, <2>1, <2>2, <2>3
<1>16. ASSUME NEW h PROVE Cardinality({m \in K : sorted[m] = h}) = Cardinality({i \in K : hunks[i] = h})
  <2> DEFINE S == {m \in K : sorted[m] = h}
             T == {i \in K : hunks[i] = h}
             f == [m \in S |-> place[m]]
  <2>1. IsFiniteSet(S)
    BY <1>1, FS_Subset
  <2>2. \A m \in S : m \in K /\ f[m] = place[m]
    OBVIOUS
  <2>3. \A m \in S : f[m] \in T
    BY <1>8, <1>10
  <2>4. f \in [S -> T]
    BY <2>3
  <2>5. \A i \in T : \E m \in S : f[m] = i
    <3> SUFFICES ASSUME NEW i \in T PROVE \E m \in S : f[m] = i
      OBVIOUS
    <3>1. PICK m \in K : place[m] = i
      BY <1>14
    <3>2. m \in S
      BY <1>10, <3>1
    <3> QED BY <3>1, <3>2
  <2> HIDE DEF f, S, T
  <2>6. \A m, l \in S : f[m] = f[l] => m = l
    BY <1>12, <2>2
  <2>7. f \in Bijection(S, T)
    BY <2>4, <2>5, <2>6 DEF Bijection, Injection, IsInjective, Surjection
  <2>8. ExistsBijection(S, T)
    BY <2>7 DEF ExistsBijection
  <2>9. Cardinality(T) = Cardinality(S)
    BY <2>1, <2>8, FS_Bijection
  <2> QED BY <2>9 DEF S, T
<1>17. ToBag(sorted) = ToBag(hunks)
  <2>1. ToBag(sorted) = [h \in Range(sorted) |-> Cardinality({m \in K : sorted[m] = h})]
    BY <1>10 DEF ToBag
  <2>2. ToBag(hunks) = [h \in Range(hunks) |-> Cardinality({i \in K : hunks[i] = h})]
    BY DEF ToBag, K
  <2>3. [h \in Range(sorted) |-> Cardinality({m \in K : sorted[m] = h})]
        = [h \in Range(hunks) |-> Cardinality({i \in K : hunks[i] = h})]
    BY <1>15, <1>16
  <2> QED BY <2>1, <2>2, <2>3
<1> QED BY <1>9, <1>10, <1>13, <1>17 DEF Kept

\* What the page shows of a hunk is a score on the scale, or none.
LEMMA ShownScores ==
  ASSUME NEW sections, IsDiff(sections), NEW scores, NEW n \in Nat, DOMAIN scores = 1..n,
         \A i \in 1..n : scores[i].combined \in Nat,
         NEW f \in Range(applyBlastScoresToFiles(scores, parseDiffToFiles(sections)))
  PROVE  /\ f.hunks \in Seq(Range(f.hunks))
         /\ \A j \in DOMAIN f.hunks : f.hunks[j].score \in Nat \union {Unscored}
<1> DEFINE byKey == blastScoresByKey(scores)
           files == parseDiffToFiles(sections)
           WithScore(file, g) ==
             IF blastRadiusKey(file, g.first, g.lines) \in DOMAIN byKey
             THEN [g EXCEPT !.score = byKey[blastRadiusKey(file, g.first, g.lines)]] ELSE g
           K(i) == blastRadiusKey(scores[i].hunk.file, scores[i].hunk.first, scores[i].hunk.lines)
<1>1. ASSUME NEW key \in DOMAIN byKey PROVE byKey[key] \in Nat
  <2> DEFINE these == {i \in DOMAIN scores : K(i) = key}
  <2>1. byKey[key] = scores[Max(these)].combined
    BY DEF blastScoresByKey
  <2>2. \E r \in Range(scores) : blastRadiusKey(r.hunk.file, r.hunk.first, r.hunk.lines) = key
    BY DEF blastScoresByKey
  <2>3. \E i \in DOMAIN scores : K(i) = key
    BY <2>2 DEF Range
  <2>4. these \in SUBSET (0..n) /\ these # {}
    BY <2>3
  <2>5. Max(these) \in these
    <3> HIDE DEF these
    <3> QED BY <2>4, MaxIs
  <2>6. Max(these) \in 1..n
    BY <2>5
  <2> QED BY <2>1, <2>6
<1> HIDE DEF byKey
<1>2. PICK i \in DOMAIN files :
        f = [files[i] EXCEPT !.hunks = [j \in DOMAIN @ |-> WithScore(files[i].file, @[j])]]
  <2>1. applyBlastScoresToFiles(scores, files)
        = [i \in DOMAIN files |->
             [files[i] EXCEPT !.hunks = [j \in DOMAIN @ |-> WithScore(files[i].file, @[j])]]]
    BY DEF applyBlastScoresToFiles, byKey
  <2> HIDE DEF files, WithScore
  <2> QED BY <2>1 DEF Range, files
<1>3. i \in DOMAIN sections
      /\ files[i] = [file |-> sections[i].word,
                     hunks |-> [q \in DOMAIN sections[i].hunks |-> PageHunk(sections[i].hunks[q])]]
  BY DEF parseDiffToFiles
<1> DEFINE s == sections[i].hunks
<1>4. s \in Seq(Range(s))
  BY <1>3 DEF IsDiff
<1>5. f.hunks = [j \in DOMAIN s |-> WithScore(files[i].file, PageHunk(s[j]))]
  <2>1. files[i].hunks = [j \in DOMAIN s |-> PageHunk(s[j])]
    BY <1>3
  <2>2. f.hunks = [j \in DOMAIN files[i].hunks |-> WithScore(files[i].file, files[i].hunks[j])]
    <3> HIDE DEF files, WithScore, s
    <3>1. files[i] = [file |-> sections[i].word, hunks |-> [j \in DOMAIN s |-> PageHunk(s[j])]]
      BY <1>3 DEF s
    <3> QED BY <1>2, <3>1
  <2> HIDE DEF files, WithScore, s
  <2> QED BY <2>1, <2>2
<1>6. ASSUME NEW j \in DOMAIN s PROVE f.hunks[j].score \in Nat \union {Unscored}
  <2> DEFINE g == PageHunk(s[j])
             key == blastRadiusKey(files[i].file, g.first, g.lines)
  <2>1. f.hunks[j] = WithScore(files[i].file, g)
    <3> HIDE DEF WithScore, files, s
    <3> QED BY <1>5
  <2>2. PICK a, b, c : g = [oldFirst |-> a, first |-> b, lines |-> c, score |-> Unscored]
    BY DEF PageHunk
  <2> HIDE DEF g, files, s
  <2>3. CASE key \in DOMAIN byKey
    <3>1. f.hunks[j] = [g EXCEPT !.score = byKey[key]]
      BY <2>1, <2>3
    <3> HIDE DEF key
    <3>2. f.hunks[j].score = byKey[key]
      BY <2>2, <3>1
    <3> QED BY <1>1, <2>3, <3>2
  <2>4. CASE key \notin DOMAIN byKey
    <3>1. f.hunks[j] = g
      BY <2>1, <2>4
    <3> QED BY <2>2, <3>1
  <2> QED BY <2>3, <2>4
<1>7. DOMAIN f.hunks = 1..Len(s) /\ Len(s) \in Nat
  <2>1. DOMAIN s = 1..Len(s) /\ Len(s) \in Nat
    <3> HIDE DEF s
    <3> QED BY <1>4
  <2> HIDE DEF s, WithScore, files
  <2> QED BY <1>5, <2>1
<1> DEFINE t == f.hunks
           l == Len(s)
<1>8. t \in Seq(Range(t))
  <2>1. t = [j \in 1..l |-> t[j]] /\ \A j \in 1..l : t[j] \in Range(t)
    <3>1. \A j \in DOMAIN s : t[j] \in Range(t)
      <4>1. DOMAIN t = DOMAIN s
        BY <1>5
      <4> QED BY <4>1 DEF Range
    <3>2. DOMAIN s = 1..l
      BY <1>4
    <3>3. t = [j \in DOMAIN s |-> t[j]]
      BY <1>5
    <3> HIDE DEF s, t, l
    <3> QED BY <3>1, <3>2, <3>3
  <2> HIDE DEF t, l
  <2>2. t \in [1..l -> Range(t)]
    BY <2>1
  <2>3. l \in Nat
    BY <1>7 DEF l
  <2> QED BY <2>2, <2>3, SeqDef
<1>9. \A j \in DOMAIN f.hunks : j \in DOMAIN s
  BY <1>5
<1> QED BY <1>6, <1>8, <1>9

\* The rank follows the risk: a hunk that reaches as far as another, deserves as much attention and is
\* no more of a mere clean-up never ranks below it, no score leaves the scale, and sorting the page by
\* the scores loses no hunk (ScoreHunks, applyBlastScoresToFiles, sortedHunksByBlastRadius).
THEOREM RiskIsRanked == AnalysisSpec => []RiskKeepsRank
<1>1. AnalysisInv => RiskKeepsRank
  <2> SUFFICES ASSUME AnalysisInv PROVE RiskKeepsRank
    OBVIOUS
  <2> DEFINE H == Hunks
             x == report.outage
             code == input.code
             s == report.scores
             all == AllScores(code, H, x)
             n == Len(H)
  <2>1. IsGraph(code) /\ HunksInOrder(H) /\ IsDiff(diff)
    BY ReadyIs DEF Hunks, AnalysisInv
  <2>2. H \in Seq(Range(H)) /\ n \in Nat /\ DOMAIN H = 1..n
    <3> HIDE DEF H
    <3>1. H \in Seq(Range(H))
      BY <2>1 DEF HunksInOrder
    <3> QED BY <3>1
  <2>3. DOMAIN all = 1..n
        /\ \A i \in 1..n : all[i] = HunkScore(code, H, H[i], x)
    BY <2>2 DEF AllScores
  <2> HIDE DEF H, n, all
  <2>4. \A i \in 1..n : all[i].blast \in Nat /\ all[i].priority \in Nat /\ all[i].hygiene \in 0..100
    <3> SUFFICES ASSUME NEW i \in 1..n
                 PROVE  all[i].blast \in Nat /\ all[i].priority \in Nat /\ all[i].hygiene \in 0..100
      OBVIOUS
    <3>1. IsFiniteSet(Roles[H[i].file])
      BY <2>1, <2>2 DEF HunksInOrder
    <3>2. /\ HunkScore(code, H, H[i], x).blast \in Nat
          /\ HunkScore(code, H, H[i], x).priority \in Nat
          /\ HunkScore(code, H, H[i], x).hygiene \in 0..100
      BY <2>1, <3>1, HunkIsWorth
    <3> QED BY <2>3, <3>2
  <2>5. /\ \A i \in 1..n : Combined(all, i) \in 0..Scale
        /\ \A i, j \in 1..n :
             /\ all[i].blast >= all[j].blast
             /\ all[i].priority >= all[j].priority
             /\ all[i].hygiene >= all[j].hygiene
             => Combined(all, i) >= Combined(all, j)
    BY <2>2, <2>3, <2>4, CombinedIs
  <2>6. PICK m \in Nat : /\ DOMAIN s = 1..m
                         /\ m = n \/ m = 0
                         /\ \A i \in 1..m : m = n /\ s[i].hunk = all[i] /\ s[i].combined = Combined(all, i)
    <3>1. CASE report.status # "ready"
      <4>1. s = <<>>
        BY <3>1, ReadyIs
      <4>2. DOMAIN s = 1..0
        BY <4>1
      <4> HIDE DEF s
      <4> QED BY <4>2
    <3>2. CASE report.status = "ready"
      <4>1. s = ScoreHunks(code, H, x)
        BY <3>2, ReadyIs DEF Hunks, H
      <4>2. /\ DOMAIN ScoreHunks(code, H, x) = DOMAIN H
            /\ \A i \in DOMAIN H :
                 /\ ScoreHunks(code, H, x)[i].hunk = HunkScore(code, H, H[i], x)
                 /\ ScoreHunks(code, H, x)[i].combined = Combined(AllScores(code, H, x), i)
        BY <2>2, ScoresAre
      <4>3. \A i \in 1..n : s[i].hunk = all[i] /\ s[i].combined = Combined(all, i)
        BY <2>2, <2>3, <4>1, <4>2 DEF all
      <4>4. DOMAIN s = 1..n
        BY <2>2, <4>1, <4>2
      <4> HIDE DEF s
      <4> QED BY <2>2, <4>3, <4>4
    <3> QED BY <3>1, <3>2
  <2>7. \A i \in 1..m : s[i].combined \in 0..Scale /\ s[i].combined \in Nat
    <3> HIDE DEF s
    <3>1. \A i \in 1..m : s[i].combined \in 0..Scale
      BY <2>5, <2>6
    <3> QED BY <3>1, ScaleIs
  <2>8. \A i, j \in DOMAIN s :
          /\ s[i].hunk.blast >= s[j].hunk.blast
          /\ s[i].hunk.priority >= s[j].hunk.priority
          /\ s[i].hunk.hygiene >= s[j].hunk.hygiene
          => s[i].combined >= s[j].combined
    <3> HIDE DEF s
    <3> QED BY <2>5, <2>6
  <2>9. \A f \in Range(page) : Kept(f.hunks)
    <3> SUFFICES ASSUME NEW f \in Range(page) PROVE Kept(f.hunks)
      OBVIOUS
    <3>1. CASE stage # "shown"
      <4>1. Range(<<>>) = {}
        BY DEF Range
      <4> QED BY <3>1, <4>1 DEF AnalysisInv
    <3>2. CASE stage = "shown"
      <4>1. f \in Range(applyBlastScoresToFiles(s, parseDiffToFiles(diff)))
        BY <3>2 DEF AnalysisInv
      <4> HIDE DEF s
      <4>2. /\ f.hunks \in Seq(Range(f.hunks))
            /\ \A j \in DOMAIN f.hunks : f.hunks[j].score \in Nat \union {Unscored}
        BY <2>1, <2>6, <2>7, <4>1, ShownScores
      <4> QED BY <4>2, SortIs
    <3> QED BY <3>1, <3>2
  <2>10. \A i \in DOMAIN s : s[i].combined \in 0..Scale
    <3> HIDE DEF s
    <3> QED BY <2>6, <2>7
  <2>11. \A i \in DOMAIN s : 0 <= s[i].combined /\ s[i].combined <= Scale
    <3> HIDE DEF s
    <3> QED BY <2>10, ScaleIs
  <2>12. \A f \in Range(page) :
           LET sorted == sortedHunksByBlastRadius(f.hunks) IN
           /\ ToBag(sorted) = ToBag(f.hunks)
           /\ \A i, j \in DOMAIN sorted : i < j => sorted[i].score >= sorted[j].score
    BY <2>9 DEF Kept
  <2> QED BY <2>8, <2>11, <2>12 DEF RiskKeepsRank, Scale
<1> QED BY <1>1, AnalysisIsOfTheDiff, PTL
=============================================================================
