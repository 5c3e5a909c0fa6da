-------------------------- MODULE ReviewPagesProofs --------------------------
(***************************************************************************)
(* Proofs about the pages that analyse a journal (ReviewScope,             *)
(* AnalyticalInspector and TradeReview) and the ingestion, filters, KPIs   *)
(* and queries they rest on, for any files, filters, rows, evidence and    *)
(* page size.                                                              *)
(***************************************************************************)
EXTENDS ReviewScopeProps, AnalyticalInspectorProps, TradeReviewProps,
        FiniteSetTheorems, SequenceTheorems, WellFoundedInduction, TLAPS

-----------------------------------------------------------------------------
(* A strict total order on a finite set numbers it: every place has exactly  *)
(* one element with as many before it.                                     *)
LEMMA OrderNumbers ==
    ASSUME NEW S, IsFiniteSet(S), NEW R,
           \A d \in S : <<d, d>> \notin R,
           \A d, e, f \in S : <<d, e>> \in R /\ <<e, f>> \in R => <<d, f>> \in R,
           \A d, e \in S : d # e => <<d, e>> \in R \/ <<e, d>> \in R
    PROVE  /\ Cardinality(S) \in Nat
           /\ \A i \in 1..Cardinality(S) :
                 \E d \in S : Cardinality({e \in S : <<e, d>> \in R}) = i - 1
           /\ \A d \in S :
                 /\ Cardinality({e \in S : <<e, d>> \in R}) \in Nat
                 /\ Cardinality({e \in S : <<e, d>> \in R}) + 1 \in 1..Cardinality(S)
           /\ \A d, e \in S :
                 Cardinality({c \in S : <<c, d>> \in R}) = Cardinality({c \in S : <<c, e>> \in R})
                    => d = e
           /\ \A d, e \in S : <<d, e>> \in R =>
                 Cardinality({c \in S : <<c, d>> \in R}) < Cardinality({c \in S : <<c, e>> \in R})
<1> DEFINE Before(d) == {e \in S : <<e, d>> \in R}
           place == [d \in S |-> Cardinality(Before(d)) + 1]
           n == Cardinality(S)
<1>1. n \in Nat
  BY FS_CardinalityType
<1>2. /\ \A d \in S : Before(d) \subseteq S /\ d \notin Before(d)
      /\ \A d, e \in S : <<d, e>> \in R =>
            d \in Before(e) /\ Before(d) \subseteq Before(e)
  OBVIOUS
<1>3. \A d \in S : Before(d) = {e \in S : <<e, d>> \in R}
  OBVIOUS
<1> HIDE DEF Before
<1>4. ASSUME NEW d \in S
      PROVE  /\ IsFiniteSet(Before(d)) /\ Cardinality(Before(d)) \in Nat
             /\ Cardinality(Before(d)) < n
  <2>1. Before(d) \in SUBSET S /\ Before(d) # S
    BY <1>2
  <2>2. /\ IsFiniteSet(Before(d)) /\ Cardinality(Before(d)) <= n
        /\ n = Cardinality(Before(d)) => S = Before(d)
    BY <2>1, FS_Subset
  <2>3. Cardinality(Before(d)) \in Nat
    BY <2>2, FS_CardinalityType
  <2> QED
    BY <1>1, <2>1, <2>2, <2>3
<1>5. ASSUME NEW d \in S, NEW e \in S, <<d, e>> \in R
      PROVE  Cardinality(Before(d)) < Cardinality(Before(e))
  <2>1. Before(d) \in SUBSET Before(e) /\ Before(d) # Before(e)
    BY <1>2, <1>5
  <2>2. IsFiniteSet(Before(e))
    BY <1>4
  <2>3. /\ Cardinality(Before(d)) <= Cardinality(Before(e))
        /\ Cardinality(Before(e)) = Cardinality(Before(d)) => Before(e) = Before(d)
    BY <2>1, <2>2, FS_Subset
  <2>4. Cardinality(Before(d)) \in Nat /\ Cardinality(Before(e)) \in Nat
    BY <1>4
  <2> QED
    BY <2>1, <2>3, <2>4
<1>6. ASSUME NEW d \in S, NEW e \in S, Cardinality(Before(d)) = Cardinality(Before(e))
      PROVE  d = e
  <2>1. Cardinality(Before(d)) \in Nat /\ Cardinality(Before(e)) \in Nat
    BY <1>4
  <2>2. ~ (Cardinality(Before(d)) < Cardinality(Before(e)))
    BY <1>6, <2>1
  <2>3. ~ (Cardinality(Before(e)) < Cardinality(Before(d)))
    BY <1>6, <2>1
  <2>4. <<d, e>> \notin R /\ <<e, d>> \notin R
    BY <1>5, <2>2, <2>3
  <2> QED
    BY <2>4
<1>7. place \in [S -> 1..n]
  <2>1. \A d \in S : Cardinality(Before(d)) + 1 \in 1..n
    BY <1>1, <1>4
  <2> QED
    BY <2>1
<1>8. place \in Injection(S, 1..n)
  <2>1. ASSUME NEW d \in S, NEW e \in S, place[d] = place[e] PROVE d = e
    <3>1. Cardinality(Before(d)) \in Nat /\ Cardinality(Before(e)) \in Nat
      BY <1>4
    <3>2. Cardinality(Before(d)) + 1 = Cardinality(Before(e)) + 1
      BY <2>1
    <3>3. Cardinality(Before(d)) = Cardinality(Before(e))
      BY <3>1, <3>2
    <3> QED
      BY <1>6, <3>3
  <2> HIDE DEF place
  <2> QED
    BY <1>7, <2>1 DEF Injection, IsInjective
<1>9. IsFiniteSet(1..n) /\ Cardinality(1..n) = n
  <2>1. 1 \in Int /\ n \in Int
    BY <1>1
  <2>2. IsFiniteSet(1..n) /\ Cardinality(1..n) = IF 1 > n THEN 0 ELSE n - 1 + 1
    BY <2>1, FS_Interval
  <2> QED
    BY <1>1, <2>2
<1>10. place \in Surjection(S, 1..n)
  <2> HIDE DEF place
  <2> QED
    BY <1>8, <1>9, FS_Injection
<1>11. ASSUME NEW i \in 1..n PROVE \E d \in S : Cardinality(Before(d)) = i - 1
  <2>1. PICK d \in S : place[d] = i
    BY <1>10 DEF Surjection
  <2>2. Cardinality(Before(d)) + 1 = i /\ Cardinality(Before(d)) \in Nat
    BY <1>4, <2>1
  <2>3. Cardinality(Before(d)) = i - 1
    BY <2>2
  <2> QED
    BY <2>3
<1>12. \A d \in S : Cardinality(Before(d)) \in Nat /\ Cardinality(Before(d)) + 1 \in 1..n
  BY <1>1, <1>4
<1> QED
  BY <1>1, <1>5, <1>6, <1>11, <1>12 DEF Before

(* A finite set is listed once, in its order.                              *)
Lists(sequence, S, R) ==
    LET n == Cardinality(S) IN
    /\ n \in Nat
    /\ sequence \in [1..n -> S]
    /\ \A e \in S : \E i \in 1..n : sequence[i] = e
    /\ \A i, j \in 1..n : i < j => <<sequence[i], sequence[j]>> \in R

LEMMA InOrderLists ==
    ASSUME NEW S, IsFiniteSet(S), NEW R,
           \A d \in S : <<d, d>> \notin R,
           \A d, e, f \in S : <<d, e>> \in R /\ <<e, f>> \in R => <<d, f>> \in R,
           \A d, e \in S : d # e => <<d, e>> \in R \/ <<e, d>> \in R
    PROVE  Lists(InOrder(S, R), S, R)
<1> DEFINE n == Cardinality(S)
           Count(e) == Cardinality({d \in S : <<d, e>> \in R})
           place(i) == CHOOSE e \in S : Count(e) = i - 1
<1>1. /\ n \in Nat
      /\ \A i \in 1..n : \E e \in S : Count(e) = i - 1
      /\ \A e \in S : Count(e) \in Nat /\ Count(e) + 1 \in 1..n
      /\ \A d, e \in S : Count(d) = Count(e) => d = e
      /\ \A d, e \in S : <<d, e>> \in R => Count(d) < Count(e)
  BY OrderNumbers
<1>2. InOrder(S, R) = [i \in 1..n |-> place(i)]
  BY DEF InOrder
<1> HIDE DEF Count, n
<1>3. \A i \in 1..n : place(i) \in S /\ Count(place(i)) = i - 1
  BY <1>1
<1> HIDE DEF place
<1>4. ASSUME NEW e \in S PROVE \E i \in 1..n : place(i) = e
  <2>1. Count(e) + 1 \in 1..n /\ Count(e) \in Nat
    BY <1>1
  <2>2. place(Count(e) + 1) \in S /\ Count(place(Count(e) + 1)) = (Count(e) + 1) - 1
    BY <1>3, <2>1
  <2>3. Count(place(Count(e) + 1)) = Count(e)
    BY <2>1, <2>2
  <2> QED
    BY <1>1, <2>1, <2>2, <2>3
<1>5. ASSUME NEW i \in 1..n, NEW j \in 1..n, i < j PROVE <<place(i), place(j)>> \in R
  <2>1. /\ place(i) \in S /\ place(j) \in S
        /\ Count(place(i)) = i - 1 /\ Count(place(j)) = j - 1
    BY <1>3
  <2>2. i \in Int /\ j \in Int
    BY <1>1
  <2>3. Count(place(i)) < Count(place(j))
    BY <1>5, <2>1, <2>2
  <2>4. place(i) # place(j) /\ ~ (Count(place(j)) < Count(place(i)))
    BY <1>5, <2>1, <2>2
  <2>5. <<place(j), place(i)>> \notin R
    BY <1>1, <2>1, <2>4
  <2> QED
    BY <2>1, <2>4, <2>5
<1> QED
  BY <1>1, <1>2, <1>3, <1>4, <1>5 DEF Lists, n

(* Rows listed in the order of the file.                                   *)
LEMMA InFileOrderLists ==
    ASSUME NEW rows, IsFiniteSet(rows), rows \subseteq Nat
    PROVE  Lists(InFileOrder(rows), rows, {p \in rows \X rows : p[1] < p[2]})
<1> DEFINE R == {p \in rows \X rows : p[1] < p[2]}
<1>1. \A d, e \in rows : <<d, e>> \in R <=> d < e
  OBVIOUS
<1> HIDE DEF R
<1>2. \A d \in rows : <<d, d>> \notin R
  BY <1>1
<1>3. \A d, e, f \in rows : <<d, e>> \in R /\ <<e, f>> \in R => <<d, f>> \in R
  BY <1>1
<1>4. \A d, e \in rows : d # e => <<d, e>> \in R \/ <<e, d>> \in R
  BY <1>1
<1>5. Lists(InOrder(rows, R), rows, R)
  BY <1>2, <1>3, <1>4, InOrderLists
<1> QED
  BY <1>5 DEF InFileOrder, R

-----------------------------------------------------------------------------
(* What holds of a subset when it holds of all smaller ones holds of all.  *)
LEMMA SubsetInduction ==
    ASSUME NEW S, IsFiniteSet(S), NEW Good,
           \A T \in SUBSET S : (\A U \in SUBSET T : U # T => U \in Good) => T \in Good
    PROVE  \A T \in SUBSET S : T \in Good
<1> DEFINE Bad == {T \in SUBSET S : T \notin Good}
           R == StrictSubsetOrdering(S)
<1>1. IsWellFoundedOn(R, SUBSET S)
  BY FS_StrictSubsetOrderingWellFounded, FS_FiniteSubsetsOfFinite
<1>2. \A T, U \in SUBSET S : U \subseteq T /\ U # T => <<U, T>> \in R
  BY DEF StrictSubsetOrdering
<1> SUFFICES ASSUME Bad # {} PROVE FALSE
  OBVIOUS
<1> HIDE DEF R
<1>3. PICK T \in Bad : \A U \in Bad : <<U, T>> \notin R
  <2>1. Bad \subseteq SUBSET S
    OBVIOUS
  <2> HIDE DEF Bad
  <2> QED
    BY <1>1, <2>1, WFMin
<1>4. ASSUME NEW U \in SUBSET T, U # T PROVE U \in Good
  <2>1. T \in SUBSET S /\ U \in SUBSET S
    BY <1>3
  <2>2. <<U, T>> \in R
    BY <1>2, <1>4, <2>1
  <2>3. U \notin Bad
    BY <1>3, <2>2
  <2> QED
    BY <2>1, <2>3
<1>5. T \in SUBSET S /\ T \notin Good
  BY <1>3
<1> QED
  BY <1>4, <1>5

-----------------------------------------------------------------------------
(* Sums.  The fold of the library takes any one element out at a time.     *)
One(S) == CHOOSE x \in S : TRUE

IsSum(sum, f, S) ==
    sum = [T \in SUBSET S |-> IF T = {} THEN 0 ELSE f[One(T)] + sum[T \ {One(T)}]]

LEMMA SumIsChosen ==
    ASSUME NEW f, NEW S PROVE SumOver(f, S) = (CHOOSE sum : IsSum(sum, f, S))[S]
  BY DEF SumOver, MapThenSumSet, MapThenFoldSet, IsSum, One

LEMMA OneIsIn == ASSUME NEW S, S # {} PROVE One(S) \in S
  BY DEF One

(* Two folds agree.                                                        *)
LEMMA SumIsUnique ==
    ASSUME NEW f, NEW S, IsFiniteSet(S), NEW g, IsSum(g, f, S), NEW h, IsSum(h, f, S)
    PROVE  g[S] = h[S]
<1> DEFINE Good == {T \in SUBSET S : g[T] = h[T]}
<1>1. /\ \A T \in SUBSET S : g[T] = IF T = {} THEN 0 ELSE f[One(T)] + g[T \ {One(T)}]
      /\ \A T \in SUBSET S : h[T] = IF T = {} THEN 0 ELSE f[One(T)] + h[T \ {One(T)}]
  BY DEF IsSum
<1>2. ASSUME NEW T \in SUBSET S, \A U \in SUBSET T : U # T => U \in Good PROVE T \in Good
  <2>1. CASE T = {}
    BY <1>1, <2>1
  <2>2. CASE T # {}
    <3>1. T \ {One(T)} \in SUBSET T /\ T \ {One(T)} # T
      BY <2>2, OneIsIn
    <3>2. g[T \ {One(T)}] = h[T \ {One(T)}]
      BY <1>2, <3>1
    <3> QED
      BY <1>1, <2>2, <3>2
  <2> QED
    BY <2>1, <2>2
<1>3. \A T \in SUBSET S : T \in Good
  <2> HIDE DEF Good
  <2> QED
    BY <1>2, SubsetInduction
<1> QED
  BY <1>3

(* The fold exists, and takes one element out.                             *)
LEMMA SumIs ==
    ASSUME NEW f, NEW S, IsFiniteSet(S)
    PROVE  SumOver(f, S) = IF S = {} THEN 0 ELSE f[One(S)] + SumOver(f, S \ {One(S)})
<1> DEFINE Step(T) == IF T = {} THEN 0 ELSE f[One(T)] + SumOver(f, T \ {One(T)})
           Good == {T \in SUBSET S : SumOver(f, T) = Step(T)}
<1>1. ASSUME NEW T \in SUBSET S, \A U \in SUBSET T : U # T => U \in Good PROVE T \in Good
  <2> DEFINE g == [U \in SUBSET T |-> Step(U)]
  <2>1. ASSUME NEW U \in SUBSET T, U # {}
        PROVE  g[U \ {One(U)}] = SumOver(f, U \ {One(U)})
    <3>1. U \ {One(U)} \in SUBSET T /\ U \ {One(U)} # T
      BY <2>1, OneIsIn
    <3>2. SumOver(f, U \ {One(U)}) = Step(U \ {One(U)})
      BY <1>1, <3>1
    <3> QED
      BY <3>1, <3>2
  <2>2. IsSum(g, f, T)
    <3>1. \A U \in SUBSET T :
             Step(U) = IF U = {} THEN 0 ELSE f[One(U)] + g[U \ {One(U)}]
      BY <2>1
    <3> DEFINE k == [U \in SUBSET T |-> IF U = {} THEN 0 ELSE f[One(U)] + g[U \ {One(U)}]]
    <3>2. g = k
      <4> HIDE DEF Step
      <4>1. \A U \in SUBSET T : g[U] = k[U]
        BY <3>1
      <4> QED
        BY <4>1
    <3> QED
      BY <3>2 DEF IsSum
  <2> DEFINE chosen == CHOOSE sum : IsSum(sum, f, T)
  <2>3. IsSum(chosen, f, T)
    <3> HIDE DEF g
    <3> QED
      BY <2>2
  <2>4. IsFiniteSet(T)
    BY FS_Subset
  <2>5. chosen[T] = g[T]
    <3> HIDE DEF g, chosen
    <3> QED
      BY <2>2, <2>3, <2>4, SumIsUnique
  <2>6. SumOver(f, T) = chosen[T]
    BY SumIsChosen
  <2>7. g[T] = Step(T)
    OBVIOUS
  <2> QED
    BY <2>5, <2>6, <2>7
<1>2. \A T \in SUBSET S : T \in Good
  <2> HIDE DEF Good
  <2> QED
    BY <1>1, SubsetInduction
<1> QED
  BY <1>2

(* Numbers may be taken out in any order.                                  *)
IsNumeric(f, S) == \A x \in S : f[x] \in Int

LEMMA SumOfNothing == ASSUME NEW f PROVE SumOver(f, {}) = 0
  BY FS_EmptySet, SumIs

LEMMA SumStep ==
    ASSUME NEW f, NEW S, IsFiniteSet(S), IsNumeric(f, S)
    PROVE  /\ SumOver(f, S) \in Int
           /\ \A x \in S : SumOver(f, S) = f[x] + SumOver(f, S \ {x})
<1> DEFINE Good == {T \in SUBSET S :
                      /\ SumOver(f, T) \in Int
                      /\ \A x \in T : SumOver(f, T) = f[x] + SumOver(f, T \ {x})}
<1>1. ASSUME NEW T \in SUBSET S, \A U \in SUBSET T : U # T => U \in Good PROVE T \in Good
  <2>1. IsFiniteSet(T)
    BY FS_Subset
  <2>2. CASE T = {}
    BY <2>2, SumOfNothing
  <2>3. CASE T # {}
    <3> DEFINE y == One(T)
    <3>1. y \in T
      BY <2>3, OneIsIn
    <3>2. SumOver(f, T) = f[y] + SumOver(f, T \ {y})
      BY <2>1, <2>3, SumIs
    <3> HIDE DEF y
    <3>3. T \ {y} \in Good
      BY <1>1, <3>1
    <3>4. f[y] \in Int
      BY <3>1 DEF IsNumeric
    <3>5. SumOver(f, T) \in Int
      BY <3>2, <3>3, <3>4
    <3>6. ASSUME NEW x \in T, x # y PROVE SumOver(f, T) = f[x] + SumOver(f, T \ {x})
      <4>1. T \ {x} \in Good
        BY <1>1, <3>6
      <4>2. SumOver(f, T \ {y}) = f[x] + SumOver(f, (T \ {y}) \ {x})
        BY <3>3, <3>6
      <4>3. SumOver(f, T \ {x}) = f[y] + SumOver(f, (T \ {x}) \ {y})
        BY <4>1, <3>1, <3>6
      <4>4. (T \ {x}) \ {y} = (T \ {y}) \ {x} /\ (T \ {y}) \ {x} \in SUBSET T
            /\ (T \ {y}) \ {x} # T
        BY <3>1
      <4>5. (T \ {y}) \ {x} \in Good
        BY <1>1, <4>4
      <4>6. SumOver(f, (T \ {y}) \ {x}) \in Int /\ f[x] \in Int
        BY <4>5, <3>6 DEF IsNumeric
      <4>7. SumOver(f, (T \ {x}) \ {y}) = SumOver(f, (T \ {y}) \ {x})
        BY <4>4
      <4> DEFINE rest == SumOver(f, (T \ {y}) \ {x})
      <4>8. /\ SumOver(f, T \ {y}) = f[x] + rest
            /\ SumOver(f, T \ {x}) = f[y] + rest
            /\ rest \in Int /\ f[x] \in Int
        BY <4>2, <4>3, <4>6, <4>7
      <4> HIDE DEF Good, rest
      <4> QED
        BY <3>2, <3>4, <4>8
    <3> QED
      BY <3>2, <3>5, <3>6
  <2> QED
    BY <2>2, <2>3
<1>2. \A T \in SUBSET S : T \in Good
  <2> HIDE DEF Good
  <2> QED
    BY <1>1, SubsetInduction
<1> QED
  BY <1>2

(* The sum depends on the values at the points only, whatever the names of *)
(* the points are.                                                         *)
LEMMA SumImage ==
    ASSUME NEW S, IsFiniteSet(S), NEW T, NEW move \in Bijection(S, T),
           NEW f, IsNumeric(f, S), NEW g, \A x \in S : g[move[x]] = f[x]
    PROVE  SumOver(g, T) = SumOver(f, S)
<1> DEFINE Moved(U) == {move[x] : x \in U}
           Good == {U \in SUBSET S : SumOver(g, Moved(U)) = SumOver(f, U)}
<1>1. /\ \A x \in S : move[x] \in T
      /\ \A x, y \in S : move[x] = move[y] => x = y
      /\ \A t \in T : \E x \in S : move[x] = t
  BY DEF Bijection, Injection, Surjection, IsInjective
<1>2. ASSUME NEW U \in SUBSET S PROVE
         /\ IsFiniteSet(U) /\ IsFiniteSet(Moved(U))
         /\ IsNumeric(f, U) /\ IsNumeric(g, Moved(U))
  <2>1. IsFiniteSet(U)
    BY FS_Subset
  <2>2. IsFiniteSet(Moved(U))
    <3>1. IsFiniteSet(T)
      BY FS_Bijection DEF ExistsBijection
    <3>2. Moved(U) \in SUBSET T
      BY <1>1
    <3> HIDE DEF Moved
    <3> QED
      BY <3>1, <3>2, FS_Subset
  <2> QED
    BY <2>1, <2>2 DEF IsNumeric
<1>3. ASSUME NEW U \in SUBSET S, \A V \in SUBSET U : V # U => V \in Good PROVE U \in Good
  <2>1. CASE U = {}
    <3>1. Moved(U) = {}
      BY <2>1
    <3> QED
      BY <2>1, <3>1, SumOfNothing
  <2>2. CASE U # {}
    <3>1. PICK x \in U : TRUE
      BY <2>2
    <3>2. SumOver(f, U) = f[x] + SumOver(f, U \ {x})
      <4>1. IsFiniteSet(U) /\ IsNumeric(f, U)
        BY <1>2
      <4> QED
        BY <4>1, SumStep
    <3>3. move[x] \in Moved(U)
      OBVIOUS
    <3>4. SumOver(g, Moved(U)) = g[move[x]] + SumOver(g, Moved(U) \ {move[x]})
      <4> HIDE DEF Moved
      <4> QED
        BY <1>2, <3>3, SumStep
    <3>5. Moved(U) \ {move[x]} = Moved(U \ {x})
      BY <1>1
    <3>6. U \ {x} \in Good
      BY <1>3
    <3>7. SumOver(g, Moved(U \ {x})) = SumOver(f, U \ {x})
      BY <3>6
    <3>8. g[move[x]] = f[x]
      OBVIOUS
    <3> HIDE DEF Moved
    <3>9. SumOver(g, Moved(U)) = SumOver(f, U)
      BY <3>2, <3>4, <3>5, <3>7, <3>8
    <3> QED
      BY <3>9
  <2> QED
    BY <2>1, <2>2
<1>4. \A U \in SUBSET S : U \in Good
  <2> HIDE DEF Good
  <2> QED
    BY <1>3, SubsetInduction
<1>5. Moved(S) = T
  BY <1>1
<1>6. SumOver(g, Moved(S)) = SumOver(f, S)
  BY <1>4
<1> QED
  BY <1>5, <1>6

LEMMA SumSame ==
    ASSUME NEW S, IsFiniteSet(S), NEW f, IsNumeric(f, S), NEW g, \A x \in S : g[x] = f[x]
    PROVE  SumOver(g, S) = SumOver(f, S)
<1> DEFINE move == [x \in S |-> x]
<1>1. move \in Bijection(S, S)
  BY DEF Bijection, Injection, Surjection, IsInjective
<1>2. \A x \in S : g[move[x]] = f[x]
  OBVIOUS
<1> HIDE DEF move
<1> QED
  BY <1>1, <1>2, SumImage

(* A sum is taken in two parts.                                            *)
LEMMA SumSplit ==
    ASSUME NEW A, NEW B, IsFiniteSet(A), IsFiniteSet(B), A \cap B = {},
           NEW f, IsNumeric(f, A), IsNumeric(f, B)
    PROVE  SumOver(f, A \cup B) = SumOver(f, A) + SumOver(f, B)
<1> DEFINE Good == {T \in SUBSET A : SumOver(f, T \cup B) = SumOver(f, T) + SumOver(f, B)}
<1>1. SumOver(f, B) \in Int
  BY SumStep
<1>2. ASSUME NEW T \in SUBSET A, \A U \in SUBSET T : U # T => U \in Good PROVE T \in Good
  <2>1. /\ IsFiniteSet(T) /\ IsFiniteSet(T \cup B)
        /\ IsNumeric(f, T) /\ IsNumeric(f, T \cup B)
    <3>1. IsFiniteSet(T)
      BY FS_Subset
    <3> QED
      BY <3>1, FS_Union DEF IsNumeric
  <2>2. CASE T = {}
    <3>1. T \cup B = B
      BY <2>2
    <3> QED
      BY <1>1, <2>2, <3>1, SumOfNothing
  <2>3. CASE T # {}
    <3>1. PICK x \in T : TRUE
      BY <2>3
    <3>2. SumOver(f, T) = f[x] + SumOver(f, T \ {x})
      BY <2>1, SumStep
    <3>3. x \in T \cup B
      OBVIOUS
    <3>4. SumOver(f, T \cup B) = f[x] + SumOver(f, (T \cup B) \ {x})
      BY <2>1, <3>3, SumStep
    <3>5. (T \cup B) \ {x} = (T \ {x}) \cup B
      OBVIOUS
    <3>6. T \ {x} \in Good
      BY <1>2
    <3>7. SumOver(f, (T \ {x}) \cup B) = SumOver(f, T \ {x}) + SumOver(f, B)
      BY <3>6
    <3>8. SumOver(f, T \ {x}) \in Int /\ f[x] \in Int
      <4>1. IsFiniteSet(T \ {x}) /\ IsNumeric(f, T \ {x})
        BY <2>1, FS_RemoveElement DEF IsNumeric
      <4> QED
        BY <4>1, <2>1, SumStep DEF IsNumeric
    <3> HIDE DEF Good
    <3>9. SumOver(f, T \cup B) = SumOver(f, T) + SumOver(f, B)
      <4>1. SumOver(f, T \cup B) = f[x] + (SumOver(f, T \ {x}) + SumOver(f, B))
        BY <3>4, <3>5, <3>7
      <4> DEFINE rest == SumOver(f, T \ {x})
      <4>2. rest \in Int
        BY <3>8
      <4> HIDE DEF rest
      <4> QED
        BY <1>1, <3>2, <3>8, <4>1, <4>2 DEF rest
    <3> QED
      BY <3>9 DEF Good
  <2> QED
    BY <2>2, <2>3
<1>3. \A T \in SUBSET A : T \in Good
  <2> HIDE DEF Good
  <2> QED
    BY <1>2, SubsetInduction
<1> QED
  BY <1>3

(* A bound on every value bounds the sum by the number of points.          *)
LEMMA SumBounds ==
    ASSUME NEW S, IsFiniteSet(S), NEW f, IsNumeric(f, S), NEW c \in Int
    PROVE  /\ (\A x \in S : c =< f[x]) => c * Cardinality(S) =< SumOver(f, S)
           /\ (\A x \in S : f[x] =< c) => SumOver(f, S) =< c * Cardinality(S)
<1> DEFINE Good == {T \in SUBSET S :
                      /\ (\A x \in T : c =< f[x]) => c * Cardinality(T) =< SumOver(f, T)
                      /\ (\A x \in T : f[x] =< c) => SumOver(f, T) =< c * Cardinality(T)}
<1>1. ASSUME NEW T \in SUBSET S, \A U \in SUBSET T : U # T => U \in Good PROVE T \in Good
  <2>1. IsFiniteSet(T) /\ IsNumeric(f, T) /\ Cardinality(T) \in Nat
    BY FS_Subset, FS_CardinalityType DEF IsNumeric
  <2>2. CASE T = {}
    BY <2>2, SumOfNothing, FS_EmptySet
  <2>3. CASE T # {}
    <3>1. PICK x \in T : TRUE
      BY <2>3
    <3> DEFINE U == T \ {x}
               n == Cardinality(U)
               sum == SumOver(f, U)
    <3>2. SumOver(f, T) = f[x] + sum
      BY <2>1, SumStep
    <3>3. Cardinality(T) = n + 1 /\ n \in Nat /\ IsFiniteSet(U) /\ IsNumeric(f, U)
      <4>1. IsFiniteSet(U) /\ n = Cardinality(T) - 1
        BY <2>1, FS_RemoveElement
      <4>2. n \in Nat
        BY <4>1, FS_CardinalityType
      <4> QED
        BY <2>1, <4>1, <4>2 DEF IsNumeric
    <3>4. sum \in Int /\ f[x] \in Int
      BY <2>1, <3>3, SumStep DEF IsNumeric
    <3>5. U \in Good
      BY <1>1
    <3>6. /\ (\A y \in U : c =< f[y]) => c * n =< sum
          /\ (\A y \in U : f[y] =< c) => sum =< c * n
      BY <3>5
    <3>7. U \subseteq T
      OBVIOUS
    <3> HIDE DEF U, n, sum
    <3>8. c * (n + 1) = c * n + c
      BY <3>3
    <3>9. c * n \in Int
      BY <3>3
    <3>10. ASSUME \A y \in T : c =< f[y] PROVE c * (n + 1) =< f[x] + sum
      <4>1. c =< f[x] /\ c * n =< sum
        BY <3>6, <3>7, <3>10
      <4> DEFINE m == c * n
      <4> HIDE DEF m
      <4> QED
        BY <4>1, <3>4, <3>8, <3>9 DEF m
    <3>11. ASSUME \A y \in T : f[y] =< c PROVE f[x] + sum =< c * (n + 1)
      <4>1. f[x] =< c /\ sum =< c * n
        BY <3>6, <3>7, <3>11
      <4> DEFINE m == c * n
      <4> HIDE DEF m
      <4> QED
        BY <4>1, <3>4, <3>8, <3>9 DEF m
    <3> QED
      BY <3>2, <3>3, <3>10, <3>11
  <2> QED
    BY <2>2, <2>3
<1>2. \A T \in SUBSET S : T \in Good
  <2> HIDE DEF Good
  <2> QED
    BY <1>1, SubsetInduction
<1> QED
  BY <1>2

LEMMA SumOfOnes ==
    ASSUME NEW S, IsFiniteSet(S), NEW f, \A x \in S : f[x] = 1
    PROVE  SumOver(f, S) = Cardinality(S)
<1>1. IsNumeric(f, S) /\ Cardinality(S) \in Nat
  BY FS_CardinalityType DEF IsNumeric
<1>2. 1 * Cardinality(S) =< SumOver(f, S) /\ SumOver(f, S) =< 1 * Cardinality(S)
  <2>1. \A x \in S : 1 =< f[x] /\ f[x] =< 1
    OBVIOUS
  <2> QED
    BY <1>1, <2>1, SumBounds
<1>3. SumOver(f, S) \in Int
  BY <1>1, SumStep
<1> QED
  BY <1>1, <1>2, <1>3

(* The sums of disjoint groups add up to the sum of the groups together.   *)
LEMMA SumOfGroups ==
    ASSUME NEW S, IsFiniteSet(S), NEW f, IsNumeric(f, S), NEW key, NEW K, IsFiniteSet(K),
           NEW groups, \A k \in K : groups[k] = SumOver(f, {x \in S : key[x] = k})
    PROVE  SumOver(groups, K) = SumOver(f, {x \in S : key[x] \in K})
<1> DEFINE In(L) == {x \in S : key[x] \in L}
           Good == {L \in SUBSET K : SumOver(groups, L) = SumOver(f, In(L))}
<1>1. ASSUME NEW L
      PROVE  In(L) \in SUBSET S /\ IsFiniteSet(In(L)) /\ IsNumeric(f, In(L))
  <2>1. In(L) \in SUBSET S
    OBVIOUS
  <2> HIDE DEF In
  <2> QED
    BY <2>1, FS_Subset DEF IsNumeric
<1>2. IsNumeric(groups, K)
  <2>1. ASSUME NEW k \in K PROVE groups[k] \in Int
    <3>1. groups[k] = SumOver(f, In({k}))
      <4>1. In({k}) = {x \in S : key[x] = k}
        OBVIOUS
      <4> QED
        BY <4>1
    <3> HIDE DEF In
    <3> QED
      BY <1>1, <3>1, SumStep
  <2> QED
    BY <2>1 DEF IsNumeric
<1>3. ASSUME NEW L \in SUBSET K, \A M \in SUBSET L : M # L => M \in Good PROVE L \in Good
  <2>1. IsFiniteSet(L) /\ IsNumeric(groups, L)
    BY <1>2, FS_Subset DEF IsNumeric
  <2>2. CASE L = {}
    <3>1. In(L) = {}
      BY <2>2
    <3> QED
      BY <2>2, <3>1, SumOfNothing
  <2>3. CASE L # {}
    <3>1. PICK k \in L : TRUE
      BY <2>3
    <3>2. SumOver(groups, L) = groups[k] + SumOver(groups, L \ {k})
      BY <2>1, SumStep
    <3>3. groups[k] = SumOver(f, In({k}))
      <4>1. In({k}) = {x \in S : key[x] = k}
        OBVIOUS
      <4> QED
        BY <4>1
    <3>4. L \ {k} \in Good
      BY <1>3
    <3>5. SumOver(groups, L \ {k}) = SumOver(f, In(L \ {k}))
      BY <3>4
    <3>6. In({k}) \cap In(L \ {k}) = {} /\ In({k}) \cup In(L \ {k}) = In(L)
      OBVIOUS
    <3> HIDE DEF In
    <3>7. SumOver(f, In({k}) \cup In(L \ {k})) = SumOver(f, In({k})) + SumOver(f, In(L \ {k}))
      BY <1>1, <3>6, SumSplit
    <3>8. SumOver(groups, L) = SumOver(f, In(L))
      BY <3>2, <3>3, <3>5, <3>6, <3>7
    <3> QED
      BY <3>8
  <2> QED
    BY <2>2, <2>3
<1>4. \A L \in SUBSET K : L \in Good
  <2> HIDE DEF Good
  <2> QED
    BY <1>3, SubsetInduction
<1> QED
  BY <1>4

(* A finite set of numbers has a greatest and a least element.             *)
LEMMA ExtremesExist ==
    ASSUME NEW S, IsFiniteSet(S), S \subseteq Int, S # {}
    PROVE  /\ Max(S) \in S /\ \A x \in S : x =< Max(S)
           /\ Min(S) \in S /\ \A x \in S : Min(S) =< x
<1> DEFINE HasBoth(T) == /\ \E top \in T : \A x \in T : top >= x
                         /\ \E low \in T : \A x \in T : low =< x
           Good == {T \in SUBSET S : T # {} => HasBoth(T)}
<1>1. ASSUME NEW T \in SUBSET S, \A U \in SUBSET T : U # T => U \in Good PROVE T \in Good
  <2> SUFFICES ASSUME T # {} PROVE HasBoth(T)
    OBVIOUS
  <2>1. PICK y \in T : TRUE
    OBVIOUS
  <2>2. T \ {y} \in Good
    BY <1>1
  <2>3. CASE T \ {y} = {}
    <3>1. T = {y} /\ y \in Int
      BY <2>3
    <3> QED
      BY <3>1
  <2>4. CASE T \ {y} # {}
    <3>1. PICK top \in T \ {y} : \A x \in T \ {y} : top >= x
      BY <2>2, <2>4
    <3>2. PICK low \in T \ {y} : \A x \in T \ {y} : low =< x
      BY <2>2, <2>4
    <3>3. top \in Int /\ low \in Int /\ y \in Int /\ \A x \in T : x \in Int
      OBVIOUS
    <3>4. \E m \in T : \A x \in T : m >= x
      <4>1. CASE top >= y
        BY <3>1, <3>3, <4>1
      <4>2. CASE ~ (top >= y)
        BY <3>1, <3>3, <4>2
      <4> QED
        BY <4>1, <4>2
    <3>5. \E m \in T : \A x \in T : m =< x
      <4>1. CASE low =< y
        BY <3>2, <3>3, <4>1
      <4>2. CASE ~ (low =< y)
        BY <3>2, <3>3, <4>2
      <4> QED
        BY <4>1, <4>2
    <3> QED
      BY <3>4, <3>5
  <2> QED
    BY <2>3, <2>4
<1>2. \A T \in SUBSET S : T \in Good
  <2> HIDE DEF Good
  <2> QED
    BY <1>1, SubsetInduction
<1>3. HasBoth(S)
  BY <1>2
<1>4. Max(S) \in S /\ \A x \in S : Max(S) >= x
  BY <1>3 DEF Max
<1>5. Min(S) \in S /\ \A x \in S : Min(S) =< x
  BY <1>3 DEF Min
<1> QED
  BY <1>4, <1>5

-----------------------------------------------------------------------------
(* Ingestion: what an accepted file becomes.                               *)
StoredJournals == {Stored(Ingested(raw)) : raw \in {raw \in Files : Accepted(Ingested(raw))}}

LEMMA AcceptedIs ==
    ASSUME NEW raw, Accepted(Ingested(raw))
    PROVE  /\ Ingested(raw) = Normalised(raw) /\ "Profit" \in Normalised(raw).columns
           /\ HasProfit(Normalised(raw))
<1>1. \A reason : ~Accepted(Refused(reason))
  BY DEF Accepted, Refused
<1>2. Ingested(raw) = Validated(Normalised(raw))
  BY <1>1 DEF Ingested
<1> QED
  BY <1>1, <1>2 DEF Validated

LEMMA LeastExists ==
    ASSUME NEW S \in SUBSET Nat, S # {}
    PROVE  \E m \in S : \A k \in S : m <= k
<1>1. PICK m \in S : \A k \in S : ~ (<<k, m>> \in OpToRel(<, Nat))
  BY NatLessThanWellFounded, WFMin
<1>2. ASSUME NEW k \in S, k < m PROVE FALSE
  BY <1>1, <1>2 DEF OpToRel
<1>3. \A k \in S : k \in Nat /\ m \in Nat /\ ~ (k < m)
  BY <1>1, <1>2
<1>4. \A k \in S : m <= k
  BY <1>3
<1> QED
  BY <1>4

LEMMA PresentIsColumn ==
    ASSUME NEW names, NEW columns, DOMAIN names \subseteq Nat,
           FirstPresent(names, columns) # NoValue
    PROVE  \E i \in DOMAIN names : FirstPresent(names, columns) = names[i] /\ names[i] \in columns
<1> DEFINE present == {i \in DOMAIN names : names[i] \in columns}
           first == CHOOSE i \in present : \A j \in present : i <= j
<1>1. present # {} /\ FirstPresent(names, columns) = names[first]
  BY DEF FirstPresent
<1>2. \E m \in present : \A j \in present : m <= j
  <2>1. present \in SUBSET Nat
    OBVIOUS
  <2> HIDE DEF present
  <2> QED
    BY <1>1, <2>1, LeastExists
<1> HIDE DEF present
<1>3. first \in present
  BY <1>2
<1> HIDE DEF first
<1> QED
  BY <1>1, <1>3 DEF present

LEMMA NormalisedIs ==
    ASSUME NEW raw \in Files
    PROVE  LET clean == Normalised(raw) IN
           /\ IsFiniteSet(DOMAIN clean.rows) /\ DOMAIN clean.rows \subseteq Nat
           /\ \A r \in DOMAIN clean.rows :
                 /\ DOMAIN clean.rows[r] = clean.columns
                 /\ \A c \in clean.columns :
                       \E s \in DOMAIN raw.rows : \E i \in DOMAIN raw.header :
                          /\ Renamed(raw, raw.header[i].name) = c
                          /\ clean.rows[r][c] =
                                Coerced(clean.columns, c, raw.rows[s][i])
<1> DEFINE usable == {r \in DOMAIN raw.rows :
                        \E i \in DOMAIN raw.rows[r] : raw.rows[r][i] # NoValue}
           order == InFileOrder(usable)
           columns == JournalColumns(raw)
           n == Cardinality(usable)
<1>1. IsFiniteSet(usable) /\ usable \subseteq DOMAIN raw.rows /\ usable \subseteq Nat
  <2>1. raw.rows \in Seq({raw.rows[r] : r \in DOMAIN raw.rows})
    BY FilesAssumption
  <2>2. Len(raw.rows) \in Nat /\ DOMAIN raw.rows = 1..Len(raw.rows)
    BY <2>1
  <2>3. IsFiniteSet(DOMAIN raw.rows)
    BY <2>2, FS_Interval
  <2> QED
    BY <2>2, <2>3, FS_Subset
<1>2. UsableRows(raw) = order
  BY DEF UsableRows
<1> HIDE DEF usable
<1>3. n \in Nat /\ order \in [1..n -> usable]
  BY <1>1, InFileOrderLists DEF Lists
<1> HIDE DEF order, n
<1>4. IsFiniteSet(1..n) /\ 1..n \subseteq Nat
  BY <1>3, FS_Interval
<1>5. ASSUME NEW c \in columns
      PROVE  SourceOf(raw, c) \in DOMAIN raw.header
             /\ Renamed(raw, raw.header[SourceOf(raw, c)].name) = c
  <2> DEFINE named == {i \in DOMAIN raw.header : Renamed(raw, raw.header[i].name) = c}
  <2>1. named # {}
    BY DEF JournalColumns, Names
  <2>2. named \in SUBSET Nat
    BY FilesAssumption
  <2>3. \E i \in named : \A k \in named : i <= k
    <3> HIDE DEF named
    <3> QED
      BY <2>1, <2>2, LeastExists
  <2>4. SourceOf(raw, c) = CHOOSE i \in named : \A k \in named : i <= k
    BY DEF SourceOf
  <2>5. SourceOf(raw, c) \in named
    <3> HIDE DEF named
    <3> QED
      BY <2>3, <2>4
  <2> QED
    BY <2>5
<1>6. /\ Normalised(raw).columns = columns
      /\ Normalised(raw).rows =
            [r \in 1..n |-> [c \in columns |->
                Coerced(columns, c, raw.rows[order[r]][SourceOf(raw, c)])]]
  BY <1>2, <1>3 DEF Normalised
<1> HIDE DEF columns
<1>7. ASSUME NEW r \in 1..n, NEW c \in columns
      PROVE  \E s \in DOMAIN raw.rows : \E i \in DOMAIN raw.header :
                /\ Renamed(raw, raw.header[i].name) = c
                /\ Normalised(raw).rows[r][c] = Coerced(columns, c, raw.rows[s][i])
  <2>1. order[r] \in DOMAIN raw.rows
    BY <1>1, <1>3
  <2> QED
    BY <1>5, <1>6, <2>1
<1> QED
  BY <1>4, <1>6, <1>7

(* The session gives back what was stored, infinite numbers aside.         *)
LEMMA StoredIs ==
    ASSUME NEW raw \in Files, Accepted(Ingested(raw))
    PROVE  LET before == Normalised(raw)
               after == Stored(Ingested(raw))
           IN /\ after.columns = before.columns
              /\ DOMAIN after.rows = DOMAIN before.rows
              /\ \A r \in DOMAIN before.rows : \A c \in before.columns :
                    after.rows[r][c] =
                       IF c \notin TextColumns /\ before.rows[r][c] = Infinite THEN NoValue
                       ELSE before.rows[r][c]
<1>1. Ingested(raw) = Normalised(raw)
  BY AcceptedIs
<1>2. /\ DOMAIN Normalised(raw) = {"columns", "rows"}
  BY DEF Normalised
<1> QED
  BY <1>1, <1>2 DEF Stored

(* The cells of a stored journal in the columns that are not texts.        *)
LEMMA NumberCells ==
    ASSUME NEW j \in StoredJournals, NEW c \in j.columns, c \notin TextColumns, c # "Commission",
           NEW r \in DOMAIN j.rows
    PROVE  /\ j.rows[r][c] \in Int \cup {Junk, NoValue}
           /\ c \in NumericColumns => j.rows[r][c] \in Int \cup {NoValue}
<1>1. PICK raw \in Files : Accepted(Ingested(raw)) /\ j = Stored(Ingested(raw))
  BY DEF StoredJournals
<1> DEFINE clean == Normalised(raw)
<1>2. /\ j.columns = clean.columns /\ DOMAIN j.rows = DOMAIN clean.rows
      /\ \A s \in DOMAIN clean.rows : \A d \in clean.columns :
            j.rows[s][d] = IF d \notin TextColumns /\ clean.rows[s][d] = Infinite THEN NoValue
                           ELSE clean.rows[s][d]
  BY <1>1, StoredIs
<1>3. PICK s \in DOMAIN raw.rows : \E i \in DOMAIN raw.header :
         /\ Renamed(raw, raw.header[i].name) = c
         /\ clean.rows[r][c] = Coerced(clean.columns, c, raw.rows[s][i])
  BY <1>2, NormalisedIs
<1>4. PICK i \in DOMAIN raw.header :
         /\ Renamed(raw, raw.header[i].name) = c
         /\ clean.rows[r][c] = Coerced(clean.columns, c, raw.rows[s][i])
  BY <1>3
<1>5. raw.header[i].name = c
  BY <1>4 DEF Renamed
<1>6. raw.rows[s][i] \in Int \cup {Junk, Infinite, NoValue}
  BY <1>5, FilesAssumption
<1>7. /\ clean.rows[r][c] \in Int \cup {Junk, Infinite, NoValue}
      /\ c \in NumericColumns => clean.rows[r][c] \in Int \cup {Infinite, NoValue}
  BY <1>4, <1>6 DEF Coerced, Parsed
<1> HIDE DEF clean
<1> QED
  BY <1>2, <1>7

(* A cell of the Min R/R column that reads as a number is one.             *)
LEMMA RRCells ==
    ASSUME NEW j \in StoredJournals, RRColumn(j.columns) # NoValue, NEW r \in DOMAIN j.rows,
           Parsed(j.rows[r][RRColumn(j.columns)]) # NoValue
    PROVE  j.rows[r][RRColumn(j.columns)] \in Int
<1> DEFINE c == RRColumn(j.columns)
<1>1. c \in j.columns /\ c \notin TextColumns /\ c # "Commission"
  <2>1. DOMAIN RRColumns = 1..5
    BY DEF RRColumns
  <2>2. PICK i \in 1..5 : c = RRColumns[i] /\ RRColumns[i] \in j.columns
    BY <2>1, PresentIsColumn DEF RRColumn
  <2>3. RRColumns[i] # "Commission"
    <3>1. i = 1 \/ i = 2 \/ i = 3 \/ i = 4 \/ i = 5
      OBVIOUS
    <3>2. /\ RRColumns[1] # "Commission" /\ RRColumns[2] # "Commission"
          /\ RRColumns[3] # "Commission" /\ RRColumns[4] # "Commission"
          /\ RRColumns[5] # "Commission"
      BY DEF RRColumns
    <3> QED
      BY <3>1, <3>2
  <2> QED
    BY <2>1, <2>2, <2>3, FilesAssumption
<1> HIDE DEF c
<1>2. j.rows[r][c] \in Int \cup {Junk, NoValue}
  BY <1>1, NumberCells
<1> QED
  BY <1>2 DEF Parsed, c

(* A profit is a number or missing.                                        *)
LEMMA ProfitCells ==
    ASSUME NEW j \in StoredJournals
    PROVE  \A r \in DOMAIN j.rows : j.rows[r].Profit \in Int \cup {NoValue}
<1>1. "Profit" \in j.columns
  <2>1. PICK raw \in Files : Accepted(Ingested(raw)) /\ j = Stored(Ingested(raw))
    BY DEF StoredJournals
  <2> QED
    BY <2>1, AcceptedIs, StoredIs
<1>2. "Profit" \in NumericColumns /\ "Profit" \notin TextColumns
  BY CellAssumption DEF NumericColumns
<1> QED
  BY <1>1, <1>2, NumberCells

-----------------------------------------------------------------------------
(* Filters: what a page states is what it applied, and stating it again    *)
(* changes nothing.                                                        *)
IsFilterSet(filters) == filters = [filter \in DOMAIN NoFilters |-> filters[filter]]

LEMMA AppliedIs ==
    ASSUME NEW j, NEW filters, IsFilterSet(filters)
    PROVE  LET applied == Applied(j, filters) IN
           /\ IsFilterSet(applied)
           /\ applied.start_date = IF Dated(j) THEN filters.start_date ELSE NoValue
           /\ applied.end_date = IF Dated(j) THEN filters.end_date ELSE NoValue
           /\ applied.symbol = IF "Symbol" \in j.columns THEN filters.symbol ELSE NoValue
           /\ applied.q = filters.q
<1>1. DOMAIN NoFilters = {"start_date", "end_date", "symbol", "q"}
  BY DEF NoFilters
<1>2. DOMAIN filters = {"start_date", "end_date", "symbol", "q"}
  BY <1>1 DEF IsFilterSet
<1> QED
  BY <1>1, <1>2 DEF Applied, IsFilterSet

LEMMA AppliedAgain ==
    ASSUME NEW j, NEW filters, IsFilterSet(filters)
    PROVE  /\ Applied(j, Applied(j, filters)) = Applied(j, filters)
           /\ Scope(j, Applied(j, filters)) = Scope(j, filters)
<1> DEFINE applied == Applied(j, filters)
           again == Applied(j, applied)
<1>1. /\ IsFilterSet(applied)
      /\ applied.start_date = IF Dated(j) THEN filters.start_date ELSE NoValue
      /\ applied.end_date = IF Dated(j) THEN filters.end_date ELSE NoValue
      /\ applied.symbol = IF "Symbol" \in j.columns THEN filters.symbol ELSE NoValue
      /\ applied.q = filters.q
  BY AppliedIs
<1>2. /\ IsFilterSet(again)
      /\ again.start_date = IF Dated(j) THEN applied.start_date ELSE NoValue
      /\ again.end_date = IF Dated(j) THEN applied.end_date ELSE NoValue
      /\ again.symbol = IF "Symbol" \in j.columns THEN applied.symbol ELSE NoValue
      /\ again.q = applied.q
  BY <1>1, AppliedIs
<1> HIDE DEF applied, again
<1>3. DOMAIN NoFilters = {"start_date", "end_date", "symbol", "q"}
  BY DEF NoFilters
<1>4. again = applied
  <2>1. \A filter \in DOMAIN NoFilters : again[filter] = applied[filter]
    BY <1>1, <1>2, <1>3
  <2> QED
    BY <1>1, <1>2, <2>1 DEF IsFilterSet
<1>5. \A row : /\ InDates(j, row, applied) = InDates(j, row, filters)
               /\ OfSymbol(j, row, applied) = OfSymbol(j, row, filters)
  BY <1>1 DEF InDates, OfSymbol
<1> DEFINE dated(f) == {r \in DOMAIN j.rows : InDates(j, j.rows[r], f)}
           traded(f) == {r \in dated(f) : OfSymbol(j, j.rows[r], f)}
<1>6. traded(applied) = traded(filters)
  BY <1>5
<1>7. \A f : Scope(j, f) = {r \in traded(f) : f.q # NoValue => IsFound(j, traded(f), r, f.q)}
  BY DEF Scope
<1> HIDE DEF traded
<1>8. Scope(j, applied) = Scope(j, filters)
  BY <1>1, <1>6, <1>7
<1> QED
  BY <1>4, <1>8 DEF applied, again

(* A row is found among some rows as among others, unless a date column that *)
(* is text is read in another format.                                      *)
LEMMA FoundAlike ==
    ASSUME NEW j, NEW rows, NEW others, NEW r, NEW q,
           \A c \in LaterDateColumns(j.columns) :
              FormatAmong(j, rows, c) = FormatAmong(j, others, c)
    PROVE  IsFound(j, rows, r, q) <=> IsFound(j, others, r, q)
<1>1. \A c : DayAmong(j, rows, r, c) = DayAmong(j, others, r, c)
  BY DEF DayAmong
<1> QED
  BY <1>1 DEF IsFound

(* The rows of a page are those that each date and symbol filter selects on  *)
(* its own, and of these the search finds what it finds in the whole journal, *)
(* as long as dates are read alike.                                        *)
LEMMA EachFilterAlone ==
    ASSUME NEW j, NEW filters, IsFilterSet(filters)
    PROVE  LET applied == Applied(j, filters)
               alone(filter) == [NoFilters EXCEPT ![filter] = applied[filter]]
               narrowed == {r \in DOMAIN j.rows : \A filter \in DOMAIN applied \ {"q"} :
                              r \in Scope(j, alone(filter))}
           IN /\ Scope(j, filters) \subseteq narrowed
              /\ applied.q = NoValue => Scope(j, filters) = narrowed
              /\ \A r \in narrowed :
                   (r \in Scope(j, filters)) # (r \in Scope(j, alone("q"))) =>
                      \E c \in LaterDateColumns(j.columns) :
                         FormatAmong(j, narrowed, c) # FormatAmong(j, DOMAIN j.rows, c)
<1> DEFINE applied == Applied(j, filters)
           alone(filter) == [NoFilters EXCEPT ![filter] = applied[filter]]
           narrowed == {r \in DOMAIN j.rows : \A filter \in DOMAIN applied \ {"q"} :
                          r \in Scope(j, alone(filter))}
           left(f) == {r \in {r \in DOMAIN j.rows : InDates(j, j.rows[r], f)} :
                         OfSymbol(j, j.rows[r], f)}
<1>1. /\ IsFilterSet(applied)
      /\ Scope(j, filters) = Scope(j, applied)
  BY AppliedIs, AppliedAgain
<1> HIDE DEF applied
<1>2. DOMAIN NoFilters = {"start_date", "end_date", "symbol", "q"}
  BY DEF NoFilters
<1>3. DOMAIN applied = {"start_date", "end_date", "symbol", "q"}
  BY <1>1, <1>2 DEF IsFilterSet
<1>4. /\ NoFilters.start_date = NoValue /\ NoFilters.end_date = NoValue
      /\ NoFilters.symbol = NoValue /\ NoFilters.q = NoValue
  BY DEF NoFilters
<1>5. \A filter, other \in {"start_date", "end_date", "symbol", "q"} :
         alone(filter)[other] = IF other = filter THEN applied[filter] ELSE NoValue
  BY <1>2, <1>4
<1> HIDE DEF alone
<1>6. \A f : Scope(j, f) = {r \in left(f) : f.q # NoValue => IsFound(j, left(f), r, f.q)}
  BY DEF Scope
<1>7. \A f, r : r \in left(f) <=> /\ r \in DOMAIN j.rows
                                  /\ InDates(j, j.rows[r], f)
                                  /\ OfSymbol(j, j.rows[r], f)
  OBVIOUS
<1> HIDE DEF left
<1>8. \A row : InDates(j, row, applied) <=>
                  InDates(j, row, alone("start_date")) /\ InDates(j, row, alone("end_date"))
  BY <1>5 DEF InDates, InRange
<1>9. \A row : /\ \A filter \in {"symbol", "q"} : InDates(j, row, alone(filter))
               /\ OfSymbol(j, row, applied) <=> OfSymbol(j, row, alone("symbol"))
               /\ \A filter \in {"start_date", "end_date", "q"} : OfSymbol(j, row, alone(filter))
  BY <1>5 DEF InDates, OfSymbol
<1>10. /\ alone("q").q = applied.q
       /\ \A filter \in {"start_date", "end_date", "symbol"} : alone(filter).q = NoValue
  BY <1>5
<1>11. /\ left(alone("q")) = DOMAIN j.rows
       /\ \A filter \in {"start_date", "end_date", "symbol"} :
             Scope(j, alone(filter)) = left(alone(filter))
  BY <1>6, <1>7, <1>9, <1>10
<1>12. left(applied) = narrowed
  <2>1. DOMAIN applied \ {"q"} = {"start_date", "end_date", "symbol"}
    BY <1>3
  <2>2. \A r : r \in left(applied) <=> r \in narrowed
    BY <1>7, <1>8, <1>9, <1>11, <2>1
  <2> QED
    BY <2>2
<1>13. ASSUME NEW r \in narrowed, (r \in Scope(j, applied)) # (r \in Scope(j, alone("q")))
       PROVE  \E c \in LaterDateColumns(j.columns) :
                 FormatAmong(j, narrowed, c) # FormatAmong(j, DOMAIN j.rows, c)
  <2>1. /\ r \in Scope(j, applied) <=>
              (applied.q # NoValue => IsFound(j, narrowed, r, applied.q))
        /\ r \in Scope(j, alone("q")) <=>
              (applied.q # NoValue => IsFound(j, DOMAIN j.rows, r, applied.q))
    BY <1>6, <1>10, <1>11, <1>12
  <2> HIDE DEF narrowed
  <2>2. SUFFICES ASSUME \A c \in LaterDateColumns(j.columns) :
                           FormatAmong(j, narrowed, c) = FormatAmong(j, DOMAIN j.rows, c)
                 PROVE  FALSE
    OBVIOUS
  <2>3. IsFound(j, narrowed, r, applied.q) <=> IsFound(j, DOMAIN j.rows, r, applied.q)
    BY <2>2, FoundAlike
  <2> QED
    BY <1>13, <2>1, <2>3
<1>14. /\ Scope(j, applied) \subseteq narrowed
       /\ applied.q = NoValue => Scope(j, applied) = narrowed
  BY <1>6, <1>12
<1> QED
  BY <1>1, <1>13, <1>14 DEF alone, applied

-----------------------------------------------------------------------------
(* A page with a journal shows what apply_analysis, compute_kpis and the   *)
(* export make of it; which Min R/R was typed in only matters if it applies. *)
PageIsComputed ==
    page.over # NoValue =>
        /\ page.over \in StoredJournals
        /\ IsFilterSet(page.asked)
        /\ page.active = Applied(page.over, page.asked)
        /\ page.scope = Scope(page.over, page.asked)
        /\ page.kpis = ComputeKpis(Profits(page.over, page.scope))
        /\ page.min_rr # NoValue => RRColumn(page.over.columns) # NoValue
        /\ page.exported =
              Exported(page.over.columns, page.over.rows, page.scope, page.min_rr)

PageIsEmpty ==
    page.over = NoValue => page = EmptyPage(page.kind) /\ IsFilterSet(page.active)

ReviewInv ==
    /\ journal \in StoredJournals \cup {NoValue}
    /\ PageIsComputed
    /\ PageIsEmpty

LEMMA RenderedIs ==
    ASSUME NEW over \in StoredJournals, over # NoValue, over = journal,
           NEW kind, NEW filters, NEW min_rr
    PROVE  LET rendered == Rendered(kind, filters, min_rr) IN
           /\ rendered.over = over /\ rendered.asked = filters
           /\ rendered.active = Applied(over, filters)
           /\ rendered.scope = Scope(over, filters)
           /\ rendered.kpis = ComputeKpis(Profits(over, rendered.scope))
           /\ rendered.min_rr # NoValue => RRColumn(over.columns) # NoValue
           /\ rendered.exported =
                 Exported(over.columns, over.rows, rendered.scope, rendered.min_rr)
  BY DEF Rendered, AppliedMinRR

LEMMA EmptyPageIs ==
    ASSUME NEW kind
    PROVE  /\ EmptyPage(kind).over = NoValue /\ EmptyPage(kind).kind = kind
           /\ EmptyPage(kind).active = NoFilters /\ EmptyPage(kind).scope = {}
           /\ EmptyPage(kind).kpis = NoKpis
  BY DEF EmptyPage

LEMMA NoFiltersIs == IsFilterSet(NoFilters)
  BY DEF IsFilterSet, NoFilters

LEMMA RenderedKeeps ==
    ASSUME ReviewInv, NEW kind, NEW filters, IsFilterSet(filters), NEW min_rr,
           page' = Rendered(kind, filters, min_rr), journal' = journal
    PROVE  ReviewInv'
<1>1. CASE journal = NoValue
  <2>1. page' = EmptyPage(kind)
    BY <1>1 DEF Rendered
  <2>2. /\ page'.over = NoValue /\ page'.kind = kind /\ page'.active = NoFilters
    BY <2>1, EmptyPageIs
  <2> QED
    BY <2>1, <2>2, NoFiltersIs DEF ReviewInv, PageIsComputed, PageIsEmpty, StoredJournals
<1>2. CASE journal # NoValue
  <2>1. journal \in StoredJournals
    BY <1>2 DEF ReviewInv
  <2>2. /\ page'.over = journal /\ page'.asked = filters
        /\ page'.active = Applied(journal, filters)
        /\ page'.scope = Scope(journal, filters)
        /\ page'.kpis = ComputeKpis(Profits(journal, page'.scope))
        /\ page'.min_rr # NoValue => RRColumn(journal.columns) # NoValue
        /\ page'.exported =
              Exported(journal.columns, journal.rows, page'.scope, page'.min_rr)
    BY <1>2, <2>1, RenderedIs
  <2> QED
    BY <1>2, <2>1, <2>2 DEF ReviewInv, PageIsComputed, PageIsEmpty
<1> QED
  BY <1>1, <1>2

LEMMA ReviewInvHolds == Spec => []ReviewInv
<1>1. Init => ReviewInv
  BY EmptyPageIs, NoFiltersIs DEF Init, ReviewInv, PageIsComputed, PageIsEmpty
<1>2. ReviewInv /\ [Next]_vars => ReviewInv'
  <2> SUFFICES ASSUME ReviewInv, [Next]_vars PROVE ReviewInv'
    OBVIOUS
  <2>1. ASSUME NEW raw \in Files, Upload(raw) PROVE ReviewInv'
    <3>1. journal' \in StoredJournals \cup {NoValue}
      BY <2>1 DEF Upload, StoredJournals
    <3> QED
      BY <2>1, <3>1 DEF Upload, ReviewInv, PageIsComputed, PageIsEmpty
  <2>2. ASSUME NEW kind \in Kinds, NEW filters \in FilterSets, NEW min_rr \in MinRRs,
               Open(kind, filters, min_rr)
        PROVE  ReviewInv'
    <3>1. IsFilterSet(filters)
      BY FilesAssumption DEF IsFilterSet
    <3> QED
      BY <2>2, <3>1, RenderedKeeps DEF Open
  <2>3. ASSUME NEW kind \in Kinds, Follow(kind) PROVE ReviewInv'
    <3>1. IsFilterSet(page.active)
      BY AppliedIs DEF ReviewInv, PageIsComputed, PageIsEmpty
    <3> QED
      BY <2>3, <3>1, RenderedKeeps DEF Follow
  <2>4. CASE UNCHANGED vars
    BY <2>4 DEF vars, ReviewInv, PageIsComputed, PageIsEmpty
  <2> QED
    BY <2>1, <2>2, <2>3, <2>4 DEF Next
<1> QED
  BY <1>1, <1>2, PTL DEF Spec

(* On every page, the analysed rows are those that each date and symbol    *)
(* filter keeps and, dates being read alike, the search finds; an export   *)
(* leaves out none but for its Min R/R.                                    *)
THEOREM RowsShownAsStated == Spec => []RowsAreAsStated
<1>1. ReviewInv => RowsAreAsStated
  <2> DEFINE Stated ==
                /\ page.scope \subseteq Narrowed
                /\ page.active.q = NoValue => page.scope = Narrowed
                /\ \A r \in Narrowed :
                     (r \in page.scope) # (r \in Scope(page.over, Alone("q"))) =>
                        \E c \in LaterDateColumns(page.over.columns) :
                           FormatAmong(page.over, Narrowed, c)
                              # FormatAmong(page.over, DOMAIN page.over.rows, c)
  <2> SUFFICES ASSUME ReviewInv, page.over # NoValue
               PROVE  /\ Stated
                      /\ page.exported \subseteq page.scope
                      /\ page.min_rr = NoValue => page.exported = page.scope
                      /\ page.min_rr # NoValue =>
                           \A r \in page.exported :
                              page.over.rows[r][RRColumn(page.over.columns)] \in Int
    BY DEF RowsAreAsStated
  <2>1. /\ page.over \in StoredJournals /\ IsFilterSet(page.asked)
        /\ page.active = Applied(page.over, page.asked)
        /\ page.scope = Scope(page.over, page.asked)
        /\ page.min_rr # NoValue => RRColumn(page.over.columns) # NoValue
        /\ page.exported = Exported(page.over.columns, page.over.rows, page.scope, page.min_rr)
    BY DEF ReviewInv, PageIsComputed
  <2>2. Stated
    <3>1. LET applied == Applied(page.over, page.asked)
              alone(filter) == [NoFilters EXCEPT ![filter] = applied[filter]]
              narrowed == {r \in DOMAIN page.over.rows : \A filter \in DOMAIN applied \ {"q"} :
                              r \in Scope(page.over, alone(filter))}
          IN /\ Scope(page.over, page.asked) \subseteq narrowed
             /\ applied.q = NoValue => Scope(page.over, page.asked) = narrowed
             /\ \A r \in narrowed :
                  (r \in Scope(page.over, page.asked)) # (r \in Scope(page.over, alone("q"))) =>
                     \E c \in LaterDateColumns(page.over.columns) :
                        FormatAmong(page.over, narrowed, c)
                           # FormatAmong(page.over, DOMAIN page.over.rows, c)
      BY <2>1, EachFilterAlone
    <3>2. Narrowed = {r \in DOMAIN page.over.rows :
                        \A filter \in DOMAIN page.active \ {"q"} :
                           r \in Scope(page.over,
                                        [NoFilters EXCEPT ![filter] = page.active[filter]])}
      BY DEF Narrowed, Alone
    <3>3. Alone("q") = [NoFilters EXCEPT !["q"] = page.active["q"]]
      BY DEF Alone
    <3> QED
      BY <2>1, <3>1, <3>2, <3>3
  <2> HIDE DEF Stated
  <2>3. page.exported \subseteq page.scope /\ (page.min_rr = NoValue => page.exported = page.scope)
    BY <2>1 DEF Exported
  <2>4. ASSUME page.min_rr # NoValue, NEW r \in page.exported
        PROVE  page.over.rows[r][RRColumn(page.over.columns)] \in Int
    <3>1. r \in page.scope /\ Parsed(page.over.rows[r][RRColumn(page.over.columns)]) # NoValue
      BY <2>1, <2>4 DEF Exported
    <3>2. r \in DOMAIN page.over.rows
      BY <2>1, <3>1 DEF Scope
    <3> QED
      BY <2>1, <2>4, <3>1, <3>2, RRCells
  <2> QED
    BY <2>2, <2>3, <2>4
<1> QED
  BY <1>1, ReviewInvHolds, PTL

(* A link leads to the same rows and the same KPIs, as long as the journal *)
(* is the one the page was made of.                                        *)
THEOREM LinksLeadToSameRows == Spec => LinksKeepScope
<1>1. ReviewInv /\ [Next]_vars =>
         [\A kind \in Kinds :
            page.over = journal /\ Follow(kind) =>
                /\ page'.scope = page.scope
                /\ page'.kpis = page.kpis
                /\ page'.active = page.active]_vars
  <2> SUFFICES ASSUME ReviewInv, NEW kind \in Kinds, page.over = journal, Follow(kind)
               PROVE  /\ page'.scope = page.scope
                      /\ page'.kpis = page.kpis
                      /\ page'.active = page.active
    OBVIOUS
  <2>1. page' = Rendered(kind, page.active, NoValue)
    BY DEF Follow
  <2>2. CASE journal = NoValue
    <3>1. page' = EmptyPage(kind) /\ page = EmptyPage(page.kind)
      BY <2>1, <2>2 DEF Rendered, ReviewInv, PageIsEmpty
    <3>2. /\ page'.scope = {} /\ page'.kpis = NoKpis /\ page'.active = NoFilters
          /\ page.scope = {} /\ page.kpis = NoKpis /\ page.active = NoFilters
      BY <3>1, EmptyPageIs
    <3> QED
      BY <3>2
  <2>3. CASE journal # NoValue
    <3>1. /\ journal \in StoredJournals /\ IsFilterSet(page.asked)
          /\ page.active = Applied(journal, page.asked)
          /\ page.scope = Scope(journal, page.asked)
          /\ page.kpis = ComputeKpis(Profits(journal, page.scope))
      BY <2>3 DEF ReviewInv, PageIsComputed
    <3>2. /\ page'.active = Applied(journal, page.active)
          /\ page'.scope = Scope(journal, page.active)
          /\ page'.kpis = ComputeKpis(Profits(journal, page'.scope))
      BY <2>1, <2>3, <3>1, RenderedIs
    <3> QED
      BY <3>1, <3>2, AppliedAgain
  <2> QED
    BY <2>2, <2>3
<1> QED
  BY <1>1, ReviewInvHolds, PTL DEF Spec, LinksKeepScope

(* No profits means that no row has one.                                   *)
LEMMA EmptyProfits ==
    ASSUME NEW j, NEW rows, IsFiniteSet(rows), rows \subseteq Nat, Profits(j, rows) = << >>
    PROVE  \A r \in rows : j.rows[r].Profit = NoValue
<1> DEFINE kept == {r \in rows : j.rows[r].Profit # NoValue}
           order == InFileOrder(kept)
<1>1. IsFiniteSet(kept) /\ kept \subseteq Nat
  BY FS_Subset
<1>2. Profits(j, rows) = [i \in DOMAIN order |-> j.rows[order[i]].Profit]
  BY DEF Profits
<1> HIDE DEF kept
<1>3. Lists(order, kept, {p \in kept \X kept : p[1] < p[2]})
  BY <1>1, InFileOrderLists
<1>4. DOMAIN order = 1..Cardinality(kept) /\ \A r \in kept : \E i \in 1..Cardinality(kept) : order[i] = r
  BY <1>3 DEF Lists
<1> HIDE DEF order
<1>5. DOMAIN order = {}
  BY <1>2
<1>6. kept = {}
  BY <1>4, <1>5
<1> QED
  BY <1>6 DEF kept

(* An accepted journal only lacks KPIs when its profits were all infinite, *)
(* although it is checked before infinities are lost in JSON.              *)
THEOREM JournalsHaveKpis == Spec => []AcceptedHasKpis
<1>1. ReviewInv => AcceptedHasKpis
  <2> SUFFICES ASSUME ReviewInv, page.over # NoValue, page.active = NoFilters, page.kpis = NoKpis,
                      NEW raw \in Files, Accepted(Ingested(raw)), Stored(Ingested(raw)) = page.over
               PROVE  LET rows == Ingested(raw).rows
                          profits == {rows[r].Profit : r \in DOMAIN rows}
                      IN Infinite \in profits /\ profits \subseteq {NoValue, Infinite}
    BY DEF AcceptedHasKpis
  <2> DEFINE rows == Normalised(raw).rows
             profits == {rows[r].Profit : r \in DOMAIN rows}
  <2>1. /\ Ingested(raw) = Normalised(raw) /\ "Profit" \in Normalised(raw).columns
        /\ \E r \in DOMAIN rows : rows[r].Profit # NoValue
    BY AcceptedIs DEF HasProfit
  <2>2. /\ DOMAIN page.over.rows = DOMAIN rows
        /\ \A r \in DOMAIN rows :
              page.over.rows[r].Profit = rows[r].Profit \/ rows[r].Profit = Infinite
    BY <2>1, StoredIs
  <2>3. IsFiniteSet(DOMAIN rows) /\ DOMAIN rows \subseteq Nat
    BY NormalisedIs
  <2> HIDE DEF rows
  <2>4. page.scope = DOMAIN page.over.rows
    <3>1. /\ IsFilterSet(page.asked) /\ NoFilters = Applied(page.over, page.asked)
          /\ page.scope = Scope(page.over, page.asked)
      BY DEF ReviewInv, PageIsComputed
    <3>2. page.scope = Scope(page.over, NoFilters)
      BY <3>1, AppliedAgain
    <3>3. /\ NoFilters.start_date = NoValue /\ NoFilters.end_date = NoValue
          /\ NoFilters.symbol = NoValue /\ NoFilters.q = NoValue
      BY DEF NoFilters
    <3>4. \A row : InDates(page.over, row, NoFilters) /\ OfSymbol(page.over, row, NoFilters)
      BY <3>3 DEF InDates, OfSymbol
    <3> QED
      BY <3>2, <3>3, <3>4 DEF Scope
  <2>5. Profits(page.over, page.scope) = << >>
    <3>1. ComputeKpis(Profits(page.over, page.scope)) = NoKpis
      BY DEF ReviewInv, PageIsComputed
    <3>2. \A q : q # << >> => ComputeKpis(q) # NoKpis
      <4>1. "losing" \notin DOMAIN NoKpis
        BY DEF NoKpis
      <4>2. \A q : q # << >> => "losing" \in DOMAIN ComputeKpis(q)
        BY DEF ComputeKpis
      <4> QED
        BY <4>1, <4>2
    <3> QED
      BY <3>1, <3>2
  <2>6. \A r \in DOMAIN rows : page.over.rows[r].Profit = NoValue
    BY <2>2, <2>3, <2>4, <2>5, EmptyProfits
  <2>7. \A r \in DOMAIN rows : rows[r].Profit \in {NoValue, Infinite}
    BY <2>2, <2>6
  <2>8. Infinite \in profits /\ profits \subseteq {NoValue, Infinite}
    BY <2>1, <2>7
  <2> QED
    BY <2>1, <2>8 DEF rows
<1> QED
  BY <1>1, ReviewInvHolds, PTL

-----------------------------------------------------------------------------
(* The KPIs.  What is left out of a loss never makes it larger.            *)
LEMMA CountSplit ==
    ASSUME NEW A, NEW B, IsFiniteSet(A), IsFiniteSet(B), A \cap B = {}
    PROVE  /\ IsFiniteSet(A \cup B) /\ Cardinality(A) \in Nat /\ Cardinality(B) \in Nat
           /\ Cardinality(A \cup B) = Cardinality(A) + Cardinality(B)
<1>1. Cardinality(A) \in Nat /\ Cardinality(B) \in Nat /\ Cardinality({}) = 0
  BY FS_CardinalityType, FS_EmptySet
<1>2. /\ IsFiniteSet(A \cup B)
      /\ Cardinality(A \cup B) = Cardinality(A) + Cardinality(B) - Cardinality(A \cap B)
  BY FS_Union
<1>3. Cardinality(A \cap B) = 0
  BY <1>1
<1> QED
  BY <1>1, <1>2, <1>3

(* The sign of a sum whose terms have one sign.                            *)
LEMMA SumSigns ==
    ASSUME NEW S, IsFiniteSet(S), NEW f, IsNumeric(f, S)
    PROVE  /\ (\A x \in S : f[x] >= 0) => SumOver(f, S) >= 0
           /\ (\A x \in S : f[x] =< 0) => SumOver(f, S) =< 0
           /\ (\A x \in S : f[x] > 0) /\ S # {} => SumOver(f, S) > 0
           /\ (\A x \in S : f[x] < 0) /\ S # {} => SumOver(f, S) < 0
<1> DEFINE n == Cardinality(S)
           sum == SumOver(f, S)
<1>1. n \in Nat /\ (S # {} => n > 0) /\ sum \in Int
  BY FS_CardinalityType, FS_EmptySet, SumStep
<1>2. ASSUME NEW c \in Int
      PROVE  /\ (\A x \in S : c =< f[x]) => c * n =< sum
             /\ (\A x \in S : f[x] =< c) => sum =< c * n
  BY SumBounds
<1>3. \A x \in S : f[x] \in Int
  BY DEF IsNumeric
<1> HIDE DEF n, sum
<1>4. /\ (\A x \in S : 0 =< f[x]) => 0 * n =< sum
      /\ (\A x \in S : f[x] =< 0) => sum =< 0 * n
      /\ (\A x \in S : 1 =< f[x]) => 1 * n =< sum
      /\ (\A x \in S : f[x] =< -1) => sum =< (-1) * n
  BY <1>2
<1>5. 0 * n = 0 /\ 1 * n = n /\ (-1) * n = -n
  BY <1>1
<1>6. /\ (\A x \in S : f[x] > 0) => \A x \in S : 1 =< f[x]
      /\ (\A x \in S : f[x] < 0) => \A x \in S : f[x] =< -1
      /\ (\A x \in S : f[x] >= 0) => \A x \in S : 0 =< f[x]
  BY <1>3
<1>7. /\ (\A x \in S : f[x] >= 0) => sum >= 0
      /\ (\A x \in S : f[x] =< 0) => sum =< 0
      /\ (\A x \in S : f[x] > 0) => n =< sum
      /\ (\A x \in S : f[x] < 0) => sum =< -n
  BY <1>1, <1>4, <1>5, <1>6
<1> QED
  BY <1>1, <1>7 DEF sum

LEMMA LossesAreLeast ==
    ASSUME NEW S, IsFiniteSet(S), NEW f, IsNumeric(f, S), NEW A \in SUBSET S
    PROVE  SumOver(f, {x \in S : f[x] < 0}) =< SumOver(f, A)
<1> DEFINE L == {x \in S : f[x] < 0}
           B == A \cap L
           C == A \ L
           E == L \ A
<1>1. /\ B \in SUBSET S /\ C \in SUBSET S /\ E \in SUBSET S
      /\ B \cap C = {} /\ B \cup C = A
      /\ B \cap E = {} /\ B \cup E = L
      /\ \A x \in C : f[x] >= 0
      /\ \A x \in E : f[x] =< 0
  BY DEF IsNumeric
<1> HIDE DEF L, B, C, E
<1>2. ASSUME NEW T \in SUBSET S
      PROVE  IsFiniteSet(T) /\ IsNumeric(f, T) /\ SumOver(f, T) \in Int
  <2>1. IsFiniteSet(T) /\ IsNumeric(f, T)
    BY FS_Subset DEF IsNumeric
  <2> QED
    BY <2>1, SumStep
<1>3. SumOver(f, A) = SumOver(f, B) + SumOver(f, C)
  BY <1>1, <1>2, SumSplit
<1>4. SumOver(f, L) = SumOver(f, B) + SumOver(f, E)
  BY <1>1, <1>2, SumSplit
<1>5. SumOver(f, C) >= 0 /\ SumOver(f, E) =< 0
  BY <1>1, <1>2, SumSigns
<1>6. SumOver(f, B) \in Int /\ SumOver(f, C) \in Int /\ SumOver(f, E) \in Int
  BY <1>1, <1>2
<1>7. SumOver(f, L) =< SumOver(f, A)
  BY <1>3, <1>4, <1>5, <1>6
<1> QED
  BY <1>7 DEF L

(* A journal of trades: one profit or more, all numbers.                   *)
IsTrades(p, n) ==
    /\ n \in Nat /\ n > 0
    /\ DOMAIN p = 1..n /\ Len(p) = n /\ p # << >>
    /\ IsNumeric(p, 1..n) /\ IsFiniteSet(1..n) /\ Cardinality(1..n) = n

LEMMA TradesAddUp ==
    ASSUME NEW p, NEW n, IsTrades(p, n)
    PROVE  LET kpis == ComputeKpis(p) IN
           /\ kpis.trades = n
           /\ kpis.trades = kpis.winning + kpis.losing + kpis.breakeven
           /\ kpis.total = kpis.gross_profit - kpis.gross_loss
           /\ kpis.worst * kpis.trades =< kpis.total
           /\ kpis.total =< kpis.best * kpis.trades
           /\ (kpis.factor = <<"infinite">>) <=> (kpis.losing = 0 /\ kpis.winning > 0)
<1> DEFINE D == 1..n
           W == Wins(p)
           L == Losses(p)
           Z == {i \in D : p[i] = 0}
           kpis == ComputeKpis(p)
<1>1. /\ DOMAIN p = D /\ IsNumeric(p, D) /\ IsFiniteSet(D) /\ Cardinality(D) = n
      /\ n \in Nat /\ n > 0 /\ Len(p) = n /\ p # << >>
  BY DEF IsTrades
<1> HIDE DEF D
<1>2. /\ W \in SUBSET D /\ L \in SUBSET D /\ Z \in SUBSET D
      /\ W \cap (L \cup Z) = {} /\ L \cap Z = {} /\ W \cup (L \cup Z) = D
      /\ \A i \in W : p[i] > 0
      /\ \A i \in L : p[i] < 0
      /\ \A i \in Z : p[i] >= 0 /\ p[i] =< 0
  BY <1>1 DEF Wins, Losses, IsNumeric
<1>3. /\ kpis.trades = n /\ kpis.winning = Cardinality(W) /\ kpis.losing = Cardinality(L)
      /\ kpis.breakeven = Cardinality(Z) /\ kpis.total = SumOver(p, D)
      /\ kpis.gross_profit = SumOver(p, W) /\ kpis.gross_loss = -SumOver(p, L)
      /\ kpis.factor = ProfitFactor(SumOver(p, W), -SumOver(p, L))
      /\ kpis.best = Max(Range(p)) /\ kpis.worst = Min(Range(p))
  BY <1>1 DEF ComputeKpis, Total
<1> HIDE DEF W, L, Z, kpis
<1>4. ASSUME NEW T \in SUBSET D
      PROVE  IsFiniteSet(T) /\ IsNumeric(p, T) /\ SumOver(p, T) \in Int /\ Cardinality(T) \in Nat
  <2>1. IsFiniteSet(T) /\ IsNumeric(p, T)
    BY <1>1, FS_Subset DEF IsNumeric
  <2> QED
    BY <2>1, SumStep, FS_CardinalityType
<1>5. IsFiniteSet(L \cup Z) /\ IsNumeric(p, L \cup Z) /\ SumOver(p, L \cup Z) \in Int
  <2>1. L \cup Z \in SUBSET D
    BY <1>2
  <2> QED
    BY <1>4, <2>1
<1>6. n = Cardinality(W) + Cardinality(L) + Cardinality(Z)
  <2>1. Cardinality(L \cup Z) = Cardinality(L) + Cardinality(Z)
    BY <1>2, <1>4, CountSplit
  <2>2. Cardinality(W \cup (L \cup Z)) = Cardinality(W) + Cardinality(L \cup Z)
    BY <1>2, <1>4, <1>5, CountSplit
  <2>3. Cardinality(W) \in Nat /\ Cardinality(L) \in Nat /\ Cardinality(Z) \in Nat
    BY <1>2, <1>4
  <2>4. n = Cardinality(W) + (Cardinality(L) + Cardinality(Z))
    BY <1>1, <1>2, <2>1, <2>2
  <2> QED
    BY <2>3, <2>4
<1>7. SumOver(p, D) = SumOver(p, W) + SumOver(p, L)
  <2>1. SumOver(p, L \cup Z) = SumOver(p, L) + SumOver(p, Z)
    BY <1>2, <1>4, SumSplit
  <2>2. SumOver(p, W \cup (L \cup Z)) = SumOver(p, W) + SumOver(p, L \cup Z)
    BY <1>2, <1>4, <1>5, SumSplit
  <2>3. SumOver(p, Z) >= 0 /\ SumOver(p, Z) =< 0
    BY <1>2, <1>4, SumSigns
  <2>4. SumOver(p, W) \in Int /\ SumOver(p, L) \in Int /\ SumOver(p, Z) \in Int
    BY <1>2, <1>4
  <2>5. SumOver(p, D) = SumOver(p, W) + (SumOver(p, L) + SumOver(p, Z))
    BY <1>2, <2>1, <2>2
  <2> QED
    BY <2>3, <2>4, <2>5
<1>8. /\ SumOver(p, W) \in Int /\ SumOver(p, L) \in Int
      /\ W # {} => SumOver(p, W) > 0
      /\ W = {} => SumOver(p, W) = 0
      /\ L # {} => SumOver(p, L) < 0
      /\ L = {} => SumOver(p, L) = 0
  BY <1>2, <1>4, SumSigns, SumOfNothing
<1>9. /\ Cardinality(W) \in Nat /\ Cardinality(L) \in Nat
      /\ Cardinality(W) = 0 <=> W = {}
      /\ Cardinality(L) = 0 <=> L = {}
  BY <1>2, <1>4, FS_EmptySet
<1>10. kpis.factor = <<"infinite">> <=> (kpis.losing = 0 /\ kpis.winning > 0)
  <2> DEFINE profit == SumOver(p, W)
             loss == -SumOver(p, L)
  <2>1. profit \in Int /\ loss \in Int
    BY <1>8
  <2>2. loss > 0 <=> L # {}
    BY <1>8
  <2>3. profit = 0 <=> W = {}
    BY <1>8
  <2> HIDE DEF profit, loss
  <2>4. ProfitFactor(profit, loss) = <<"infinite">> <=> ~ (loss > 0) /\ profit # 0
    <3>1. <<"ratio", profit, loss>> # <<"infinite">> /\ <<"N/A">> # <<"infinite">>
      OBVIOUS
    <3> QED
      BY <3>1 DEF ProfitFactor
  <2>5. kpis.losing = 0 <=> L = {}
    BY <1>3, <1>9
  <2>6. kpis.winning > 0 <=> W # {}
    BY <1>3, <1>9
  <2>7. kpis.factor = ProfitFactor(profit, loss)
    BY <1>3 DEF profit, loss
  <2> QED
    BY <2>2, <2>3, <2>4, <2>5, <2>6, <2>7
<1>11. /\ kpis.worst * kpis.trades =< kpis.total
       /\ kpis.total =< kpis.best * kpis.trades
  <2> DEFINE R == Range(p)
  <2>1. R = {p[i] : i \in D}
    BY <1>1 DEF Range
  <2>2. IsFiniteSet(R)
    <3> DEFINE values == [i \in D |-> p[i]]
    <3>1. values \in Surjection(D, R)
      BY <2>1 DEF Surjection
    <3> HIDE DEF values, R
    <3> QED
      BY <1>1, <3>1, FS_Surjection
  <2>3. R \subseteq Int /\ R # {}
    <3>1. 1 \in D
      BY <1>1 DEF D
    <3> QED
      BY <1>1, <2>1, <3>1 DEF IsNumeric
  <2> HIDE DEF R
  <2>4. /\ Max(R) \in R /\ \A x \in R : x =< Max(R)
        /\ Min(R) \in R /\ \A x \in R : Min(R) =< x
    BY <2>2, <2>3, ExtremesExist
  <2>5. Max(R) \in Int /\ Min(R) \in Int /\ \A i \in D : Min(R) =< p[i] /\ p[i] =< Max(R)
    BY <2>1, <2>3, <2>4
  <2>6. Min(R) * Cardinality(D) =< SumOver(p, D) /\ SumOver(p, D) =< Max(R) * Cardinality(D)
    BY <1>1, <2>5, SumBounds
  <2> QED
    BY <1>1, <1>3, <2>6 DEF R
<1> QED
  BY <1>1, <1>3, <1>6, <1>7, <1>8, <1>10, <1>11 DEF kpis

(* The drawdown is the largest fall of the account, and no larger than all *)
(* losses together.                                                        *)
LEMMA EquityIs ==
    ASSUME NEW p, NEW n, IsTrades(p, n)
    PROVE  /\ \A i \in 0..n : Equity(p, i) \in Int
           /\ \A i, j \in 0..n : i =< j => Equity(p, i) - Equity(p, j) =< -SumOver(p, Losses(p))
<1>1. /\ DOMAIN p = 1..n /\ IsNumeric(p, 1..n) /\ IsFiniteSet(1..n) /\ n \in Nat
  BY DEF IsTrades
<1>2. ASSUME NEW T \in SUBSET (1..n)
      PROVE  IsFiniteSet(T) /\ IsNumeric(p, T) /\ SumOver(p, T) \in Int
  <2>1. IsFiniteSet(T) /\ IsNumeric(p, T)
    BY <1>1, FS_Subset DEF IsNumeric
  <2> QED
    BY <2>1, SumStep
<1>3. ASSUME NEW i \in 0..n PROVE 1..i \in SUBSET (1..n) /\ Equity(p, i) = SumOver(p, 1..i)
  BY <1>1 DEF Equity
<1>4. \A i \in 0..n : Equity(p, i) \in Int
  BY <1>2, <1>3
<1>5. ASSUME NEW i \in 0..n, NEW j \in 0..n, i =< j
      PROVE  Equity(p, i) - Equity(p, j) =< -SumOver(p, Losses(p))
  <2> DEFINE A == 1..i
             B == (i + 1)..j
             L == {x \in 1..n : p[x] < 0}
  <2>1. A \in SUBSET (1..n) /\ B \in SUBSET (1..n) /\ A \cap B = {} /\ A \cup B = 1..j
    BY <1>1, <1>5
  <2>2. L \in SUBSET (1..n) /\ Losses(p) = L
    BY <1>1 DEF Losses
  <2>3. Equity(p, i) = SumOver(p, A) /\ Equity(p, j) = SumOver(p, A \cup B)
    BY <1>3, <2>1
  <2>4. SumOver(p, L) =< SumOver(p, B)
    <3> DEFINE D == 1..n
    <3>1. IsFiniteSet(D) /\ IsNumeric(p, D) /\ B \in SUBSET D
      BY <1>1, <2>1
    <3> HIDE DEF D, B
    <3>2. SumOver(p, {x \in D : p[x] < 0}) =< SumOver(p, B)
      BY <3>1, LossesAreLeast
    <3> QED
      BY <3>2 DEF D
  <2> HIDE DEF A, B, L
  <2>5. SumOver(p, A \cup B) = SumOver(p, A) + SumOver(p, B)
    BY <1>2, <2>1, SumSplit
  <2>6. SumOver(p, A) \in Int /\ SumOver(p, B) \in Int /\ SumOver(p, L) \in Int
    BY <1>2, <2>1, <2>2
  <2>7. SumOver(p, A) - (SumOver(p, A) + SumOver(p, B)) =< -SumOver(p, L)
    BY <2>4, <2>6
  <2> QED
    BY <2>2, <2>3, <2>5, <2>7
<1> QED
  BY <1>4, <1>5

LEMMA PeakIs ==
    ASSUME NEW p, NEW n, IsTrades(p, n), NEW i \in 0..n
    PROVE  /\ \A j \in 0..i : Equity(p, j) =< RunningPeak(p, i)
           /\ \E j \in 0..i : RunningPeak(p, i) = Equity(p, j)
<1> DEFINE S == {Equity(p, j) : j \in 0..i}
<1>1. n \in Nat
  BY DEF IsTrades
<1>2. S \subseteq Int /\ S # {}
  <2>1. 0..i \subseteq 0..n /\ 0 \in 0..i
    BY <1>1
  <2> QED
    BY <2>1, EquityIs
<1>3. IsFiniteSet(S)
  <2> DEFINE value == [j \in 0..i |-> Equity(p, j)]
  <2>1. value \in Surjection(0..i, S)
    BY DEF Surjection
  <2>2. IsFiniteSet(0..i)
    BY <1>1, FS_Interval
  <2> HIDE DEF value, S
  <2> QED
    BY <2>1, <2>2, FS_Surjection
<1>4. RunningPeak(p, i) = Max(S)
  BY DEF RunningPeak
<1>5. Max(S) \in S /\ \A x \in S : x =< Max(S)
  <2> HIDE DEF S
  <2> QED
    BY <1>2, <1>3, ExtremesExist
<1> QED
  BY <1>4, <1>5

LEMMA DrawdownIs ==
    ASSUME NEW p, NEW n, IsTrades(p, n)
    PROVE  /\ \A i, j \in 0..n : i =< j => Equity(p, i) - Equity(p, j) =< MaxDrawdown(p)
           /\ \E i, j \in 0..n : i =< j /\ Equity(p, i) - Equity(p, j) = MaxDrawdown(p)
           /\ MaxDrawdown(p) =< -SumOver(p, Losses(p))
<1> DEFINE fall(i) == Equity(p, i) - RunningPeak(p, i)
           S == {fall(i) : i \in 0..n}
<1>1. n \in Nat /\ Len(p) = n
  BY DEF IsTrades
<1>2. \A i \in 0..n : Equity(p, i) \in Int
  BY EquityIs
<1>3. ASSUME NEW i \in 0..n PROVE 0..i \subseteq 0..n /\ i \in Int
  BY <1>1
<1>4. \A i \in 0..n : RunningPeak(p, i) \in Int
  BY <1>2, <1>3, PeakIs
<1>5. S \subseteq Int /\ S # {}
  <2>1. 0 \in 0..n
    BY <1>1
  <2> QED
    BY <1>2, <1>4, <2>1
<1>6. IsFiniteSet(S)
  <2> DEFINE value == [i \in 0..n |-> fall(i)]
  <2>1. value \in Surjection(0..n, S)
    BY DEF Surjection
  <2>2. IsFiniteSet(0..n)
    BY <1>1, FS_Interval
  <2> HIDE DEF value, S
  <2> QED
    BY <2>1, <2>2, FS_Surjection
<1>7. MaxDrawdown(p) = -Min(S)
  BY <1>1 DEF MaxDrawdown
<1>8. Min(S) \in S /\ \A x \in S : Min(S) =< x
  <2> HIDE DEF S
  <2> QED
    BY <1>5, <1>6, ExtremesExist
<1>9. Min(S) \in Int
  BY <1>5, <1>8
<1>10. ASSUME NEW i \in 0..n, NEW j \in 0..n, i =< j
       PROVE  Equity(p, i) - Equity(p, j) =< MaxDrawdown(p)
  <2>1. Min(S) =< fall(j)
    BY <1>8
  <2>2. Equity(p, i) =< RunningPeak(p, j)
    <3>1. i \in 0..j
      BY <1>1, <1>10
    <3> QED
      BY <3>1, PeakIs
  <2>3. Equity(p, i) \in Int /\ Equity(p, j) \in Int /\ RunningPeak(p, j) \in Int
    BY <1>2, <1>4
  <2> HIDE DEF S
  <2> QED
    BY <1>7, <1>9, <2>1, <2>2, <2>3
<1>11. PICK j \in 0..n : Min(S) = fall(j)
  BY <1>8
<1>12. PICK i \in 0..j : RunningPeak(p, j) = Equity(p, i)
  BY PeakIs
<1>13. i \in 0..n /\ i =< j
  BY <1>1, <1>3
<1>14. Equity(p, i) - Equity(p, j) = MaxDrawdown(p)
  <2>1. Equity(p, i) \in Int /\ Equity(p, j) \in Int
    BY <1>2, <1>13
  <2>2. Min(S) = Equity(p, j) - Equity(p, i)
    BY <1>11, <1>12
  <2> HIDE DEF S
  <2> QED
    BY <1>7, <2>1, <2>2
<1>15. MaxDrawdown(p) =< -SumOver(p, Losses(p))
  BY <1>13, <1>14, EquityIs
<1> QED
  BY <1>10, <1>13, <1>14, <1>15

(* The profits of selected rows.                                           *)
LEMMA ProfitsAre ==
    ASSUME NEW j \in StoredJournals, NEW rows, rows \subseteq DOMAIN j.rows,
           Profits(j, rows) # << >>
    PROVE  \E n : IsTrades(Profits(j, rows), n) /\ n =< Cardinality(rows) /\ Cardinality(rows) \in Nat
<1> DEFINE kept == {r \in rows : j.rows[r].Profit # NoValue}
           order == InFileOrder(kept)
           n == Cardinality(kept)
           p == Profits(j, rows)
<1>1. IsFiniteSet(DOMAIN j.rows) /\ DOMAIN j.rows \subseteq Nat
  <2>1. PICK raw \in Files : Accepted(Ingested(raw)) /\ j = Stored(Ingested(raw))
    BY DEF StoredJournals
  <2>2. DOMAIN j.rows = DOMAIN Normalised(raw).rows
    BY <2>1, StoredIs
  <2> QED
    BY <2>2, NormalisedIs
<1>2. IsFiniteSet(rows) /\ Cardinality(rows) \in Nat /\ rows \subseteq Nat
  BY <1>1, FS_Subset, FS_CardinalityType
<1>3. IsFiniteSet(kept) /\ kept \subseteq Nat /\ n \in Nat /\ n =< Cardinality(rows)
  <2>1. kept \in SUBSET rows
    OBVIOUS
  <2> HIDE DEF kept
  <2> QED
    BY <1>2, <2>1, FS_Subset, FS_CardinalityType
<1>4. \A r \in kept : j.rows[r].Profit \in Int
  BY ProfitCells
<1>5. p = [i \in DOMAIN order |-> j.rows[order[i]].Profit]
  BY DEF Profits
<1> HIDE DEF kept, n
<1>6. Lists(order, kept, {q \in kept \X kept : q[1] < q[2]})
  BY <1>3, InFileOrderLists
<1>7. order \in [1..n -> kept]
  BY <1>6 DEF Lists, n
<1> HIDE DEF order
<1>8. p = [i \in 1..n |-> j.rows[order[i]].Profit]
  BY <1>5, <1>7
<1> HIDE DEF p
<1>9. DOMAIN p = 1..n /\ Len(p) = n /\ \A i \in 1..n : p[i] \in Int
  <2>1. DOMAIN p = 1..n /\ \A i \in 1..n : p[i] = j.rows[order[i]].Profit
    BY <1>8
  <2>2. ASSUME NEW i \in 1..n PROVE p[i] \in Int
    <3>1. order[i] \in kept
      BY <1>7
    <3> QED
      BY <1>4, <2>1, <3>1
  <2>3. Len(p) = n
    <3>1. p \in Seq(Int)
      BY <1>3, <2>1, <2>2, <1>8
    <3> QED
      BY <1>3, <2>1, <3>1, LenProperties
  <2> QED
    BY <2>1, <2>2, <2>3
<1>10. n > 0
  <2>1. n = 0 => p = << >>
    BY <1>8
  <2> QED
    BY <1>3, <2>1 DEF p
<1>11. IsFiniteSet(1..n) /\ Cardinality(1..n) = n
  BY <1>3, <1>10, FS_Interval
<1>12. IsTrades(p, n)
  BY <1>3, <1>9, <1>10, <1>11 DEF IsTrades, IsNumeric, p
<1> QED
  BY <1>2, <1>3, <1>12 DEF p

(* The KPIs of every page are those of the rows it states.                 *)
THEOREM KpisShownAreTrue == Spec => []KpisAreTrue
<1>1. ReviewInv => KpisAreTrue
  <2> SUFFICES ASSUME ReviewInv, page.kpis # NoKpis PROVE KpisAddUp /\ DrawdownIsLargestFall
    BY DEF KpisAreTrue, KpisAddUp, DrawdownIsLargestFall
  <2> DEFINE j == page.over
             p == Profits(j, page.scope)
  <2>1. page.over # NoValue
    BY EmptyPageIs DEF ReviewInv, PageIsEmpty
  <2>2. j \in StoredJournals /\ page.scope = Scope(j, page.asked) /\ page.kpis = ComputeKpis(p)
    BY <2>1 DEF ReviewInv, PageIsComputed
  <2>3. page.scope \subseteq DOMAIN j.rows
    BY <2>2 DEF Scope
  <2>4. p # << >>
    BY <2>2 DEF ComputeKpis
  <2> HIDE DEF j
  <2>5. PICK n : IsTrades(p, n) /\ n =< Cardinality(page.scope) /\ Cardinality(page.scope) \in Nat
    BY <2>2, <2>3, <2>4, ProfitsAre
  <2> HIDE DEF p
  <2>6. Len(p) = n
    BY <2>5 DEF IsTrades
  <2>7. page.kpis.drawdown = MaxDrawdown(p) /\ page.kpis.gross_loss = -SumOver(p, Losses(p))
    BY <2>2, <2>4, <2>5 DEF ComputeKpis
  <2>8. KpisAddUp
    <3>1. /\ page.kpis.trades = n
          /\ page.kpis.trades = page.kpis.winning + page.kpis.losing + page.kpis.breakeven
          /\ page.kpis.total = page.kpis.gross_profit - page.kpis.gross_loss
          /\ page.kpis.worst * page.kpis.trades =< page.kpis.total
          /\ page.kpis.total =< page.kpis.best * page.kpis.trades
          /\ (page.kpis.factor = <<"infinite">>) <=>
                (page.kpis.losing = 0 /\ page.kpis.winning > 0)
      BY <2>2, <2>5, TradesAddUp
    <3>2. page.kpis.drawdown =< page.kpis.gross_loss
      BY <2>5, <2>7, DrawdownIs
    <3> QED
      BY <2>5, <3>1, <3>2 DEF KpisAddUp
  <2>9. DrawdownIsLargestFall
    BY <2>5, <2>6, <2>7, DrawdownIs DEF DrawdownIsLargestFall, j, p
  <2> QED
    BY <2>8, <2>9
<1> QED
  BY <1>1, ReviewInvHolds, PTL

-----------------------------------------------------------------------------
(* The analytical queries.  An answer is computed from the rows of a journal *)
(* that the symbol it states selects.                                      *)
SymbolOnly(symbol) == [NoFilters EXCEPT !.symbol = symbol]

IsComputed(answer) ==
    /\ answer.over \in QueryJournals
    /\ answer.selected = Len(Selected(answer.over, answer.symbol))
    /\ answer.result =
          Execute(answer.query, Selected(answer.over, answer.symbol), answer.over.columns)

QueryInv ==
    /\ queryJournal \in QueryJournals \cup {NoValue, Unreadable}
    /\ \A tab \in Tabs : HasResult(tab) => IsComputed(shown[tab])

LEMMA AnsweredIs ==
    ASSUME NEW j \in QueryJournals, NEW query, NEW symbol
    PROVE  IsComputed(Answered(j, query, symbol))
<1> DEFINE answer == Answered(j, query, symbol)
<1>1. IsFilterSet(SymbolOnly(symbol)) /\ SymbolOnly(symbol).symbol = symbol
  BY DEF IsFilterSet, SymbolOnly, NoFilters
<1>2. /\ answer.over = j /\ answer.query = query
      /\ answer.symbol = Applied(j, SymbolOnly(symbol)).symbol
      /\ answer.selected = Len(Selected(j, symbol))
      /\ answer.result = Execute(query, Selected(j, symbol), j.columns)
  BY DEF Answered, SymbolOnly
<1>3. Applied(j, SymbolOnly(symbol)) = SymbolOnly(answer.symbol)
  <2> DEFINE applied == Applied(j, SymbolOnly(symbol))
             again == SymbolOnly(answer.symbol)
  <2>1. /\ IsFilterSet(applied) /\ IsFilterSet(again)
        /\ again.start_date = NoValue /\ again.end_date = NoValue /\ again.q = NoValue
        /\ again.symbol = answer.symbol
    BY <1>1, AppliedIs DEF IsFilterSet, SymbolOnly, NoFilters
  <2>2. /\ applied.start_date = NoValue /\ applied.end_date = NoValue /\ applied.q = NoValue
        /\ applied.symbol = answer.symbol
    <3>1. /\ SymbolOnly(symbol).start_date = NoValue /\ SymbolOnly(symbol).end_date = NoValue
          /\ SymbolOnly(symbol).q = NoValue
      BY DEF SymbolOnly, NoFilters
    <3> QED
      BY <1>1, <1>2, <3>1, AppliedIs
  <2> HIDE DEF applied, again
  <2>3. DOMAIN NoFilters = {"start_date", "end_date", "symbol", "q"}
    BY DEF NoFilters
  <2>4. \A filter \in DOMAIN NoFilters : applied[filter] = again[filter]
    BY <2>1, <2>2, <2>3
  <2>5. applied = again
    BY <2>1, <2>4 DEF IsFilterSet
  <2> QED
    BY <2>5 DEF applied, again
<1>4. Scope(j, SymbolOnly(answer.symbol)) = Scope(j, SymbolOnly(symbol))
  BY <1>1, <1>3, AppliedAgain
<1>5. Selected(j, answer.symbol) = Selected(j, symbol)
  BY <1>4 DEF Selected, SymbolOnly
<1> QED
  BY <1>2, <1>5 DEF IsComputed

LEMMA QueryInvHolds == QuerySpec => []QueryInv
<1>1. QueryInit => QueryInv
  BY DEF QueryInit, QueryInv, HasResult, AnswerPage
<1>2. QueryInv /\ [QueryNext]_queryVars => QueryInv'
  <2> SUFFICES ASSUME QueryInv, [QueryNext]_queryVars PROVE QueryInv'
    OBVIOUS
  <2>1. ASSUME LoadQueryJournal PROVE QueryInv'
    BY <2>1 DEF LoadQueryJournal, QueryInv, HasResult, IsComputed
  <2>2. ASSUME NEW tab \in Tabs, NEW state, Show(tab, state), state # "RESULT_AVAILABLE"
        PROVE  QueryInv'
    <3>1. ASSUME NEW t \in Tabs, HasResult(t)' PROVE shown'[t] = shown[t] /\ HasResult(t)
      BY <2>2, <3>1 DEF Show, HasResult, AnswerPage
    <3> QED
      BY <2>2, <3>1 DEF QueryInv, IsComputed, Show
  <2>3. ASSUME NEW tab \in Tabs, NEW query, NEW symbol, Ask(tab, query, symbol)
        PROVE  QueryInv'
    <3>1. queryJournal \in QueryJournals
      BY <2>3 DEF Ask, QueryInv
    <3>2. IsComputed(Answered(queryJournal, query, symbol))
      BY <3>1, AnsweredIs
    <3>3. /\ queryJournal' = queryJournal
          /\ \A t \in Tabs : shown'[t] = shown[t] \/ shown'[t] = Answered(queryJournal, query, symbol)
      BY <2>3 DEF Ask
    <3> QED
      BY <3>2, <3>3 DEF QueryInv, HasResult, IsComputed
  <2>4. CASE UNCHANGED queryVars
    BY <2>4 DEF queryVars, QueryInv, HasResult, IsComputed
  <2> QED
    BY <2>1, <2>2, <2>3, <2>4 DEF QueryNext, AskTwice, VisitTab, AskNothing, AskInVain
<1> QED
  BY <1>1, <1>2, PTL DEF QuerySpec

(* The selected rows, numbered in the order of the journal.                *)
LEMMA SelectedIs ==
    ASSUME NEW j \in QueryJournals, NEW symbol
    PROVE  LET scope == Scope(j, SymbolOnly(symbol))
               order == InFileOrder(scope)
               rows == Selected(j, symbol)
               n == Cardinality(scope)
           IN /\ scope \subseteq DOMAIN j.rows /\ IsFiniteSet(scope) /\ n \in Nat
              /\ order \in Bijection(1..n, scope)
              /\ DOMAIN rows = 1..n /\ Len(rows) = n
              /\ \A i \in 1..n : rows[i] = j.rows[order[i]]
              /\ n > 0 => rows # << >>
              /\ n = 0 => rows = << >>
<1> DEFINE scope == Scope(j, SymbolOnly(symbol))
           order == InFileOrder(scope)
           rows == Selected(j, symbol)
           n == Cardinality(scope)
<1>1. DOMAIN j.rows = 1..Len(j.rows) /\ Len(j.rows) \in Nat
  <2>1. j.rows \in Seq({j.rows[r] : r \in DOMAIN j.rows})
    BY QueriesAssumption
  <2> QED
    BY <2>1
<1>2. scope \subseteq DOMAIN j.rows
  BY DEF Scope
<1>3. IsFiniteSet(scope) /\ scope \subseteq Nat /\ n \in Nat
  <2>1. IsFiniteSet(1..Len(j.rows))
    BY <1>1, FS_Interval
  <2> HIDE DEF scope
  <2>2. scope \in SUBSET (1..Len(j.rows))
    BY <1>1, <1>2
  <2>3. IsFiniteSet(scope)
    BY <2>1, <2>2, FS_Subset
  <2> QED
    BY <1>1, <2>2, <2>3, FS_CardinalityType
<1>4. Lists(order, scope, {p \in scope \X scope : p[1] < p[2]})
  <2> HIDE DEF scope
  <2> QED
    BY <1>3, InFileOrderLists
<1>5. rows = [i \in DOMAIN order |-> j.rows[order[i]]]
  BY DEF Selected, SymbolOnly
<1> HIDE DEF scope, order, rows, n
<1>6. /\ order \in [1..n -> scope]
      /\ \A e \in scope : \E i \in 1..n : order[i] = e
      /\ \A i, k \in 1..n : i < k => order[i] < order[k]
  BY <1>4 DEF Lists, n
<1>7. \A i, k \in 1..n : order[i] = order[k] => i = k
  <2> SUFFICES ASSUME NEW i \in 1..n, NEW k \in 1..n, i # k PROVE order[i] # order[k]
    OBVIOUS
  <2>1. order[i] \in Nat /\ order[k] \in Nat
    BY <1>3, <1>6
  <2>2. i < k \/ k < i
    BY <1>3
  <2> QED
    BY <1>6, <2>1, <2>2
<1>8. order \in Bijection(1..n, scope)
  BY <1>6, <1>7 DEF Bijection, Injection, Surjection, IsInjective
<1>9. DOMAIN rows = 1..n /\ \A i \in 1..n : rows[i] = j.rows[order[i]]
  BY <1>5, <1>6
<1>10. Len(rows) = n
  <2>1. rows = [i \in 1..n |-> j.rows[order[i]]]
    BY <1>5, <1>6
  <2> QED
    BY <1>3, <2>1
<1>11. n = 0 => rows = << >>
  <2>1. rows = [i \in 1..n |-> j.rows[order[i]]]
    BY <1>5, <1>6
  <2> QED
    BY <2>1
<1>12. n > 0 => rows # << >>
  BY <1>3, <1>10
<1> QED
  BY <1>2, <1>3, <1>8, <1>9, <1>10, <1>11, <1>12 DEF scope, order, rows, n

(* A query is answered when nothing is found against it.                   *)
Answerable(query, rows, columns) ==
    LET column == FirstDateColumn(columns) IN
    /\ query \in Queries /\ rows # << >> /\ ~ MissingRequired(query, columns)
    /\ query \in DateQueries =>
          DateIssues(rows, column) = {} /\ ~ (Cardinality(Offsets(rows, column)) > 1)
    /\ query \in SymbolQueries => SymbolIssues(rows) = {}
    /\ query \in ProfitQueries => ProfitIssues(rows) = {}

LEMMA ExecuteIs ==
    ASSUME NEW query, NEW rows, NEW columns
    PROVE  LET result == Execute(query, rows, columns) IN
           /\ result.status = Verdict(query, rows, columns)[1]
           /\ result.issues = Verdict(query, rows, columns)[2]
           /\ result.status = "OK" <=> Answerable(query, rows, columns)
           /\ result.status # "OK" => result.payload = NoPayload
           /\ result.status = "OK" => result.payload = Payload(query, rows, columns)
           /\ query \in Queries => result.digest = InputDigest(rows, ColumnsUsed(query, columns))
<1> DEFINE verdict == Verdict(query, rows, columns)
           result == Execute(query, rows, columns)
<1>1. verdict[1] = "OK" <=> Answerable(query, rows, columns)
  <2>1. CASE query \notin Queries
    BY <2>1 DEF Verdict, Answerable
  <2>2. CASE query \in Queries /\ rows = << >>
    BY <2>2 DEF Verdict, Answerable
  <2>3. CASE query \in Queries /\ rows # << >>
    BY <2>3 DEF Verdict, Answerable
  <2> QED
    BY <2>1, <2>2, <2>3
<1>2. /\ result.status = verdict[1] /\ result.issues = verdict[2]
      /\ result.payload = IF verdict[1] = "OK" THEN Payload(query, rows, columns) ELSE NoPayload
      /\ query \in Queries => result.digest = InputDigest(rows, ColumnsUsed(query, columns))
  BY DEF Execute
<1> HIDE DEF verdict, result
<1> QED
  BY <1>1, <1>2 DEF verdict, result

(* The groups: every row is in the one of its key.                         *)
Keys(query, rows, columns) == [i \in DOMAIN rows |-> KeyOf(query, rows[i], columns)]

Amounts(query, rows) == [i \in DOMAIN rows |-> Amount(query, rows[i])]

IsGrouped(groups, amount, keys, places) ==
    /\ DOMAIN groups = {keys[i] : i \in places}
    /\ \A k \in DOMAIN groups : groups[k] = SumOver(amount, {i \in places : keys[i] = k})

LEMMA GroupedIs ==
    ASSUME NEW query, NEW rows, NEW columns
    PROVE  IsGrouped(Grouped(query, rows, columns), Amounts(query, rows),
                     Keys(query, rows, columns), DOMAIN rows)
<1> DEFINE keys == Keys(query, rows, columns)
           amount == Amounts(query, rows)
<1>1. \A i \in DOMAIN rows : keys[i] = KeyOf(query, rows[i], columns)
  BY DEF Keys
<1>2. {KeyOf(query, rows[i], columns) : i \in DOMAIN rows} = {keys[i] : i \in DOMAIN rows}
  BY <1>1
<1>3. \A k : {i \in DOMAIN rows : KeyOf(query, rows[i], columns) = k}
              = {i \in DOMAIN rows : keys[i] = k}
  BY <1>1
<1>4. Grouped(query, rows, columns) =
         [k \in {KeyOf(query, rows[i], columns) : i \in DOMAIN rows} |->
             SumOver(amount, {i \in DOMAIN rows : KeyOf(query, rows[i], columns) = k})]
  BY DEF Grouped, Amounts
<1> HIDE DEF keys, amount
<1>5. IsGrouped(Grouped(query, rows, columns), amount, keys, DOMAIN rows)
  BY <1>2, <1>3, <1>4 DEF IsGrouped
<1> QED
  BY <1>5 DEF keys, amount

LEMMA GroupsAddUp ==
    ASSUME NEW groups, NEW amount, NEW keys, NEW places, IsFiniteSet(places),
           IsNumeric(amount, places), IsGrouped(groups, amount, keys, places),
           NEW K, K \subseteq DOMAIN groups
    PROVE  SumOver(groups, K) = SumOver(amount, {i \in places : keys[i] \in K})
<1> DEFINE key == [i \in places |-> keys[i]]
<1>1. IsFiniteSet(K)
  <2>1. key \in Surjection(places, DOMAIN groups)
    BY DEF Surjection, IsGrouped
  <2> HIDE DEF key
  <2>2. IsFiniteSet(DOMAIN groups)
    BY <2>1, FS_Surjection
  <2> QED
    BY <2>2, FS_Subset
<1>2. \A k \in K : groups[k] = SumOver(amount, {i \in places : keys[i] = k})
  BY DEF IsGrouped
<1> QED
  BY <1>1, <1>2, SumOfGroups

LEMMA AllGroupsAddUp ==
    ASSUME NEW groups, NEW amount, NEW keys, NEW places, IsFiniteSet(places),
           IsNumeric(amount, places), IsGrouped(groups, amount, keys, places)
    PROVE  SumOver(groups, DOMAIN groups) = SumOver(amount, places)
<1>1. {i \in places : keys[i] \in DOMAIN groups} = places
  BY DEF IsGrouped
<1>2. SumOver(groups, DOMAIN groups) =
         SumOver(amount, {i \in places : keys[i] \in DOMAIN groups})
  BY GroupsAddUp
<1> QED
  BY <1>1, <1>2

(* What is added up are numbers.                                           *)
LEMMA AmountsAre ==
    ASSUME NEW j \in QueryJournals, NEW symbol, NEW query,
           Answerable(query, Selected(j, symbol), j.columns)
    PROVE  LET rows == Selected(j, symbol) IN
           /\ IsFiniteSet(DOMAIN rows) /\ IsNumeric(Amounts(query, rows), DOMAIN rows)
           /\ query \in ProfitQueries => \A i \in DOMAIN rows : Amounts(query, rows)[i] = rows[i].Profit
           /\ query \notin ProfitQueries => \A i \in DOMAIN rows : Amounts(query, rows)[i] = 1
<1> DEFINE rows == Selected(j, symbol)
           scope == Scope(j, SymbolOnly(symbol))
           order == InFileOrder(scope)
           n == Cardinality(scope)
<1>1. /\ scope \subseteq DOMAIN j.rows /\ n \in Nat /\ order \in Bijection(1..n, scope)
      /\ DOMAIN rows = 1..n /\ \A i \in 1..n : rows[i] = j.rows[order[i]]
  BY SelectedIs
<1> HIDE DEF scope, order, n, rows
<1>2. \A i \in 1..n : order[i] \in DOMAIN j.rows
  BY <1>1 DEF Bijection, Injection
<1>3. IsFiniteSet(DOMAIN rows)
  BY <1>1, FS_Interval
<1>4. /\ query \in ProfitQueries => \A i \in DOMAIN rows : Amounts(query, rows)[i] = rows[i].Profit
      /\ query \notin ProfitQueries => \A i \in DOMAIN rows : Amounts(query, rows)[i] = 1
  BY DEF Amounts, Amount
<1>5. ASSUME query \in ProfitQueries, NEW i \in DOMAIN rows PROVE rows[i].Profit \in Int
  <2>1. ProfitIssues(rows) = {} /\ "Profit" \in j.columns
    BY <1>5 DEF Answerable, MissingRequired, rows
  <2>2. rows[i].Profit \in Int \cup {Infinite, NotANumber, Junk, NoValue}
    BY <1>1, <1>2, <2>1, QueriesAssumption
  <2>3. /\ Rows(rows, "Profit", {NoValue}) = {} /\ Rows(rows, "Profit", {Junk}) = {}
        /\ Rows(rows, "Profit", {Infinite, NotANumber}) = {}
    BY <2>1 DEF ProfitIssues, Issue
  <2>4. rows[i].Profit \notin {NoValue} \cup {Junk} \cup {Infinite, NotANumber}
    BY <2>3 DEF Rows
  <2> QED
    BY <2>2, <2>4
<1>6. IsNumeric(Amounts(query, rows), DOMAIN rows)
  BY <1>4, <1>5 DEF IsNumeric
<1> QED
  BY <1>3, <1>4, <1>6 DEF rows

(* The answer to a counting or profit query takes in every selected row, and *)
(* a query that fails returns nothing.                                     *)
THEOREM AnswersTakeAllRows == QuerySpec => []AllRowsOrNone
<1>1. QueryInv => AllRowsOrNone
  <2> SUFFICES ASSUME QueryInv, NEW tab \in Tabs, HasResult(tab)
               PROVE  LET page_ == shown[tab]
                          rows == Scope(page_.over, SymbolOnly(page_.symbol))
                      IN /\ page_.result.status # "OK" => page_.result.payload = NoPayload
                         /\ page_.selected = Cardinality(rows)
                         /\ (\E q \in {"TRADE_COUNT_BY_DAY", "TRADE_COUNT_BY_SYMBOL"} :
                                IsAnswer(tab, q)) => SumOf(Groups(tab)) = page_.selected
                         /\ (\E q \in ProfitQueries : IsAnswer(tab, q)) =>
                               SumOf(Groups(tab)) =
                                  SumOver([r \in rows |-> page_.over.rows[r].Profit], rows)
    BY DEF AllRowsOrNone, SymbolOnly
  <2> DEFINE j == shown[tab].over
             symbol == shown[tab].symbol
             query == shown[tab].query
             rows == Selected(j, symbol)
             scope == Scope(j, SymbolOnly(symbol))
             order == InFileOrder(scope)
             n == Cardinality(scope)
             groups == Grouped(query, rows, j.columns)
  <2>1. /\ j \in QueryJournals /\ shown[tab].selected = Len(rows)
        /\ shown[tab].result = Execute(query, rows, j.columns)
    BY DEF QueryInv, IsComputed
  <2>2. /\ scope \subseteq DOMAIN j.rows /\ IsFiniteSet(scope) /\ n \in Nat
        /\ order \in Bijection(1..n, scope)
        /\ DOMAIN rows = 1..n /\ Len(rows) = n /\ \A i \in 1..n : rows[i] = j.rows[order[i]]
    BY <2>1, SelectedIs
  <2>3. /\ shown[tab].result.status # "OK" => shown[tab].result.payload = NoPayload
        /\ shown[tab].result.status = "OK" =>
              /\ Answerable(query, rows, j.columns)
              /\ shown[tab].result.payload = Payload(query, rows, j.columns)
    BY <2>1, ExecuteIs
  <2> HIDE DEF j, symbol, query, rows, scope, order, n, groups
  <2>4. ASSUME shown[tab].result.status = "OK",
               query \in {"TRADE_COUNT_BY_DAY", "TRADE_COUNT_BY_SYMBOL"} \cup ProfitQueries
        PROVE  /\ Groups(tab) = groups
               /\ SumOf(Groups(tab)) = SumOver(Amounts(query, rows), 1..n)
    <3>1. query # "TRADE_COUNT" /\ query \notin {"BUSIEST_TRADING_DAY", "MOST_TRADED_SYMBOL"}
      BY <2>4 DEF ProfitQueries
    <3>2. Groups(tab) = groups
      BY <2>3, <2>4, <3>1 DEF Groups, Payload, Answer, groups
    <3>3. IsFiniteSet(DOMAIN rows) /\ IsNumeric(Amounts(query, rows), DOMAIN rows)
      BY <2>1, <2>3, <2>4, AmountsAre DEF rows
    <3>4. SumOver(groups, DOMAIN groups) = SumOver(Amounts(query, rows), DOMAIN rows)
      <4>1. IsGrouped(groups, Amounts(query, rows), Keys(query, rows, j.columns), DOMAIN rows)
        BY GroupedIs DEF groups
      <4> QED
        BY <3>3, <4>1, AllGroupsAddUp
    <3> QED
      BY <2>2, <3>2, <3>4 DEF SumOf
  <2>5. ASSUME NEW q \in {"TRADE_COUNT_BY_DAY", "TRADE_COUNT_BY_SYMBOL"}, IsAnswer(tab, q)
        PROVE  SumOf(Groups(tab)) = n
    <3>1. shown[tab].result.status = "OK" /\ query = q /\ query \notin ProfitQueries
      BY <2>5 DEF IsAnswer, query, ProfitQueries
    <3>2. \A i \in 1..n : Amounts(query, rows)[i] = 1
      <4>1. Answerable(query, rows, j.columns)
        BY <2>3, <3>1
      <4>2. query \notin ProfitQueries => \A i \in DOMAIN rows : Amounts(query, rows)[i] = 1
        BY <2>1, <4>1, AmountsAre DEF rows
      <4> QED
        BY <2>2, <3>1, <4>2
    <3>3. IsFiniteSet(1..n) /\ Cardinality(1..n) = n
      BY <2>2, FS_Interval
    <3>4. SumOver(Amounts(query, rows), 1..n) = n
      BY <3>2, <3>3, SumOfOnes
    <3> QED
      BY <2>4, <3>1, <3>4
  <2>6. ASSUME NEW q \in ProfitQueries, IsAnswer(tab, q)
        PROVE  SumOf(Groups(tab)) = SumOver([r \in scope |-> j.rows[r].Profit], scope)
    <3> DEFINE profit == [r \in scope |-> j.rows[r].Profit]
               amount == Amounts(query, rows)
    <3>1. shown[tab].result.status = "OK" /\ query = q
      BY <2>6 DEF IsAnswer, query
    <3>2. IsNumeric(amount, 1..n) /\ \A i \in 1..n : amount[i] = rows[i].Profit
      BY <2>1, <2>2, <2>3, <2>6, <3>1, AmountsAre DEF rows
    <3>3. \A i \in 1..n : profit[order[i]] = amount[i]
      <4>1. \A i \in 1..n : order[i] \in scope
        BY <2>2 DEF Bijection, Injection
      <4> QED
        BY <2>2, <3>2, <4>1
    <3>4. IsFiniteSet(1..n)
      BY <2>2, FS_Interval
    <3> HIDE DEF profit, amount
    <3>5. SumOver(profit, scope) = SumOver(amount, 1..n)
      BY <2>2, <3>2, <3>3, <3>4, SumImage
    <3> QED
      BY <2>4, <2>6, <3>1, <3>5 DEF profit, amount
  <2> QED
    BY <2>1, <2>2, <2>3, <2>5, <2>6 DEF j, symbol, scope, n
<1> QED
  BY <1>1, QueryInvHolds, PTL

(* What an answered page shows.                                            *)
LEMMA AnswerIs ==
    ASSUME NEW tab, HasResult(tab), IsComputed(shown[tab]), NEW query, shown[tab].query = query
    PROVE  LET j == shown[tab].over
               rows == Selected(j, shown[tab].symbol)
           IN /\ IsAnswer(tab, query) <=> Answerable(query, rows, j.columns)
              /\ IsAnswer(tab, query) /\ query # "TRADE_COUNT" =>
                    /\ Groups(tab) = Answer(query, rows, j.columns)
                    /\ shown[tab].result.payload.tie =
                         (KindOf(query) = "TIED_MAX" /\ Cardinality(DOMAIN Groups(tab)) > 1)
<1> DEFINE j == shown[tab].over
           rows == Selected(j, shown[tab].symbol)
<1>1. shown[tab].result = Execute(query, rows, j.columns)
  BY DEF IsComputed
<1> HIDE DEF j, rows
<1>2. /\ shown[tab].result.status = "OK" <=> Answerable(query, rows, j.columns)
      /\ shown[tab].result.status = "OK" =>
            shown[tab].result.payload = Payload(query, rows, j.columns)
  BY <1>1, ExecuteIs
<1>3. IsAnswer(tab, query) <=> Answerable(query, rows, j.columns)
  BY <1>2 DEF IsAnswer
<1>4. ASSUME IsAnswer(tab, query), query # "TRADE_COUNT"
      PROVE  /\ Groups(tab) = Answer(query, rows, j.columns)
             /\ shown[tab].result.payload.tie =
                  (KindOf(query) = "TIED_MAX" /\ Cardinality(DOMAIN Groups(tab)) > 1)
  <2>1. shown[tab].result.payload = Payload(query, rows, j.columns)
    BY <1>2, <1>4 DEF IsAnswer
  <2> QED
    BY <1>4, <2>1 DEF Payload, Groups
<1> QED
  BY <1>3, <1>4 DEF j, rows

(* A query of the same kind, or one that needs less, is answered, too.     *)
LEMMA AlsoAnswerable ==
    ASSUME NEW first, NEW second \in Queries, NEW rows, NEW columns,
           second \in DateQueries => first \in DateQueries,
           second \in SymbolQueries => first \in SymbolQueries,
           second \in ProfitQueries => first \in ProfitQueries,
           Answerable(first, rows, columns)
    PROVE  Answerable(second, rows, columns)
  BY DEF Answerable, MissingRequired

(* Queries that count over the same keys have the same groups.             *)
LEMMA GroupedAlike ==
    ASSUME NEW first, NEW second, NEW rows, NEW columns,
           \A row : KeyOf(first, row, columns) = KeyOf(second, row, columns)
    PROVE  /\ DOMAIN Grouped(first, rows, columns) = DOMAIN Grouped(second, rows, columns)
           /\ first \notin ProfitQueries /\ second \notin ProfitQueries =>
                 Grouped(first, rows, columns) = Grouped(second, rows, columns)
<1>1. Keys(first, rows, columns) = Keys(second, rows, columns)
  BY DEF Keys
<1>2. ASSUME NEW query
      PROVE  DOMAIN Grouped(query, rows, columns) =
                {Keys(query, rows, columns)[i] : i \in DOMAIN rows}
  <2>1. IsGrouped(Grouped(query, rows, columns), Amounts(query, rows),
                  Keys(query, rows, columns), DOMAIN rows)
    BY GroupedIs
  <2> QED
    BY <2>1 DEF IsGrouped
<1>3. first \notin ProfitQueries /\ second \notin ProfitQueries =>
         \A row : Amount(first, row) = Amount(second, row)
  BY DEF Amount
<1>4. first \notin ProfitQueries /\ second \notin ProfitQueries =>
         Grouped(first, rows, columns) = Grouped(second, rows, columns)
  BY <1>3 DEF Grouped
<1> QED
  BY <1>1, <1>2, <1>4

LEMMA QueryClasses ==
    /\ \A q \in {"TRADE_COUNT_BY_DAY", "BUSIEST_TRADING_DAY"} :
          q \in DateQueries /\ q \notin SymbolQueries /\ q \notin ProfitQueries
    /\ \A q \in {"TRADE_COUNT_BY_SYMBOL", "MOST_TRADED_SYMBOL"} :
          q \notin DateQueries /\ q \in SymbolQueries /\ q \notin ProfitQueries
    /\ \A q \in {"PROFIT_BY_DAY", "MONTHLY_PROFIT"} :
          q \in DateQueries /\ q \notin SymbolQueries /\ q \in ProfitQueries
    /\ "PROFIT_BY_SYMBOL" \notin DateQueries /\ "PROFIT_BY_SYMBOL" \in SymbolQueries
    /\ "PROFIT_BY_SYMBOL" \in ProfitQueries
    /\ DateQueries \cup SymbolQueries \subseteq Queries
  BY DEF DateQueries, SymbolQueries, ProfitQueries, Queries

LEMMA KeysAlike ==
    ASSUME NEW row, NEW columns
    PROVE  /\ KeyOf("BUSIEST_TRADING_DAY", row, columns) = row[FirstDateColumn(columns)].day
           /\ KeyOf("TRADE_COUNT_BY_DAY", row, columns) = row[FirstDateColumn(columns)].day
           /\ KeyOf("PROFIT_BY_DAY", row, columns) = row[FirstDateColumn(columns)].day
           /\ KeyOf("MONTHLY_PROFIT", row, columns) = MonthOf(row[FirstDateColumn(columns)].day)
           /\ KeyOf("TRADE_COUNT_BY_SYMBOL", row, columns) = row.Symbol
           /\ KeyOf("MOST_TRADED_SYMBOL", row, columns) = row.Symbol
           /\ KeyOf("PROFIT_BY_SYMBOL", row, columns) = row.Symbol
  BY DEF KeyOf, SymbolQueries

(* Answers over the same rows of the same journal agree with each other.   *)
THEOREM AnswersAgree == QuerySpec => []QueriesAgree
<1>1. QueryInv => QueriesAgree
  <2> SUFFICES ASSUME QueryInv, NEW a \in Tabs, NEW b \in Tabs, HasResult(a), HasResult(b),
                      shown[a].over = shown[b].over, shown[a].symbol = shown[b].symbol
        PROVE
        /\ \A pair \in {<<"TRADE_COUNT_BY_DAY", "BUSIEST_TRADING_DAY">>,
                        <<"TRADE_COUNT_BY_SYMBOL", "MOST_TRADED_SYMBOL">>} :
             IsAnswer(a, pair[1]) /\ shown[b].query = pair[2] =>
                /\ IsAnswer(b, pair[2])
                /\ \A k \in DOMAIN Groups(a) :
                      k \in DOMAIN Groups(b) <=>
                      (\A l \in DOMAIN Groups(a) : Groups(a)[k] >= Groups(a)[l])
                /\ shown[b].result.payload.tie = (Cardinality(DOMAIN Groups(b)) > 1)
        /\ IsAnswer(a, "PROFIT_BY_DAY") /\ shown[b].query = "MONTHLY_PROFIT" =>
                /\ IsAnswer(b, "MONTHLY_PROFIT")
                /\ \A month \in DOMAIN Groups(b) :
                      Groups(b)[month] =
                          SumOver(Groups(a), {day \in DOMAIN Groups(a) : MonthOf(day) = month})
        /\ \A pair \in {<<"PROFIT_BY_DAY", "TRADE_COUNT_BY_DAY">>,
                        <<"PROFIT_BY_SYMBOL", "TRADE_COUNT_BY_SYMBOL">>} :
             IsAnswer(a, pair[1]) /\ shown[b].query = pair[2] =>
                /\ IsAnswer(b, pair[2])
                /\ DOMAIN Groups(a) = DOMAIN Groups(b)
    BY DEF QueriesAgree
  <2> DEFINE j == shown[a].over
             symbol == shown[a].symbol
             rows == Selected(j, symbol)
             columns == j.columns
             Over(query) == Grouped(query, rows, columns)
  <2>1. j \in QueryJournals /\ IsComputed(shown[a]) /\ IsComputed(shown[b])
    BY DEF QueryInv, IsComputed
  <2>2. ASSUME NEW query, shown[a].query = query, IsAnswer(a, query), query # "TRADE_COUNT"
        PROVE  Answerable(query, rows, columns) /\ Groups(a) = Answer(query, rows, columns)
    BY <2>1, <2>2, AnswerIs
  <2>3. ASSUME NEW query, shown[b].query = query, Answerable(query, rows, columns),
               query # "TRADE_COUNT"
        PROVE  /\ IsAnswer(b, query) /\ Groups(b) = Answer(query, rows, columns)
               /\ shown[b].result.payload.tie =
                     (KindOf(query) = "TIED_MAX" /\ Cardinality(DOMAIN Groups(b)) > 1)
    BY <2>1, <2>3, AnswerIs
  <2>4. \A query : query \notin {"BUSIEST_TRADING_DAY", "MOST_TRADED_SYMBOL"} =>
                      Answer(query, rows, columns) = Over(query)
    BY DEF Answer
  <2>5. \A query \in {"BUSIEST_TRADING_DAY", "MOST_TRADED_SYMBOL"} :
           Answer(query, rows, columns) = TiedMax(Over(query)) /\ KindOf(query) = "TIED_MAX"
    BY DEF Answer, KindOf
  <2> HIDE DEF j, symbol, rows, columns, Over
  <2>6. ASSUME NEW first, NEW second,
               \/ first = "TRADE_COUNT_BY_DAY" /\ second = "BUSIEST_TRADING_DAY"
               \/ first = "TRADE_COUNT_BY_SYMBOL" /\ second = "MOST_TRADED_SYMBOL",
               IsAnswer(a, first), shown[b].query = second
        PROVE  /\ IsAnswer(b, second)
               /\ \A k \in DOMAIN Groups(a) :
                     k \in DOMAIN Groups(b) <=>
                     (\A l \in DOMAIN Groups(a) : Groups(a)[k] >= Groups(a)[l])
               /\ shown[b].result.payload.tie = (Cardinality(DOMAIN Groups(b)) > 1)
    <3>1. shown[a].query = first /\ first # "TRADE_COUNT" /\ second # "TRADE_COUNT"
      BY <2>6 DEF IsAnswer
    <3>2. Answerable(first, rows, columns) /\ Groups(a) = Over(first)
      BY <2>2, <2>4, <2>6, <3>1
    <3>3. Answerable(second, rows, columns)
      BY <2>6, <3>2, AlsoAnswerable, QueryClasses
    <3>4. /\ IsAnswer(b, second) /\ Groups(b) = TiedMax(Over(second))
          /\ shown[b].result.payload.tie = (Cardinality(DOMAIN Groups(b)) > 1)
      BY <2>3, <2>5, <2>6, <3>1, <3>3
    <3>5. Over(second) = Over(first)
      <4>1. \A row : KeyOf(first, row, columns) = KeyOf(second, row, columns)
        BY <2>6, KeysAlike
      <4>2. first \notin ProfitQueries /\ second \notin ProfitQueries
        BY <2>6, QueryClasses
      <4> QED
        BY <4>1, <4>2, GroupedAlike DEF Over
    <3>6. DOMAIN Groups(b) = {k \in DOMAIN Groups(a) :
                                 \A l \in DOMAIN Groups(a) : Groups(a)[k] >= Groups(a)[l]}
      BY <3>2, <3>4, <3>5 DEF TiedMax
    <3>7. ASSUME NEW k \in DOMAIN Groups(a)
          PROVE  k \in DOMAIN Groups(b) <=>
                 (\A l \in DOMAIN Groups(a) : Groups(a)[k] >= Groups(a)[l])
      BY <3>6
    <3> QED
      BY <3>4, <3>7
  <2>7. ASSUME IsAnswer(a, "PROFIT_BY_DAY"), shown[b].query = "MONTHLY_PROFIT"
        PROVE  /\ IsAnswer(b, "MONTHLY_PROFIT")
               /\ \A month \in DOMAIN Groups(b) :
                     Groups(b)[month] =
                         SumOver(Groups(a), {day \in DOMAIN Groups(a) : MonthOf(day) = month})
    <3>1. shown[a].query = "PROFIT_BY_DAY"
      BY <2>7 DEF IsAnswer
    <3>2. Answerable("PROFIT_BY_DAY", rows, columns) /\ Groups(a) = Over("PROFIT_BY_DAY")
      BY <2>2, <2>4, <2>7, <3>1
    <3>3. Answerable("MONTHLY_PROFIT", rows, columns)
      BY <3>2, AlsoAnswerable, QueryClasses
    <3>4. IsAnswer(b, "MONTHLY_PROFIT") /\ Groups(b) = Over("MONTHLY_PROFIT")
      BY <2>3, <2>4, <2>7, <3>3
    <3> DEFINE days == Keys("PROFIT_BY_DAY", rows, columns)
               months == Keys("MONTHLY_PROFIT", rows, columns)
               amount == Amounts("PROFIT_BY_DAY", rows)
               places == DOMAIN rows
    <3>5. IsFiniteSet(places) /\ IsNumeric(amount, places)
      BY <2>1, <3>2, AmountsAre DEF rows, columns
    <3>6. amount = Amounts("MONTHLY_PROFIT", rows)
      BY QueryClasses DEF Amounts, Amount
    <3>7. /\ IsGrouped(Groups(a), amount, days, places)
          /\ IsGrouped(Groups(b), amount, months, places)
      BY <3>2, <3>4, <3>6, GroupedIs DEF Over
    <3>8. \A i \in places : months[i] = MonthOf(days[i])
      BY KeysAlike DEF Keys
    <3> HIDE DEF days, months, amount, places
    <3>9. ASSUME NEW month \in DOMAIN Groups(b)
          PROVE  Groups(b)[month] =
                    SumOver(Groups(a), {day \in DOMAIN Groups(a) : MonthOf(day) = month})
      <4> DEFINE K == {day \in DOMAIN Groups(a) : MonthOf(day) = month}
      <4>1. \A i \in places : days[i] \in DOMAIN Groups(a)
        BY <3>7 DEF IsGrouped
      <4>2. {i \in places : months[i] = month} = {i \in places : days[i] \in K}
        BY <3>8, <4>1
      <4>3. K \subseteq DOMAIN Groups(a)
        OBVIOUS
      <4> HIDE DEF K
      <4>4. SumOver(Groups(a), K) = SumOver(amount, {i \in places : days[i] \in K})
        BY <3>5, <3>7, <4>3, GroupsAddUp
      <4>5. Groups(b)[month] = SumOver(amount, {i \in places : months[i] = month})
        BY <3>7 DEF IsGrouped
      <4> QED
        BY <4>2, <4>4, <4>5 DEF K
    <3> QED
      BY <3>4, <3>9
  <2>8. ASSUME NEW first, NEW second,
               \/ first = "PROFIT_BY_DAY" /\ second = "TRADE_COUNT_BY_DAY"
               \/ first = "PROFIT_BY_SYMBOL" /\ second = "TRADE_COUNT_BY_SYMBOL",
               IsAnswer(a, first), shown[b].query = second
        PROVE  IsAnswer(b, second) /\ DOMAIN Groups(a) = DOMAIN Groups(b)
    <3>1. /\ shown[a].query = first /\ first # "TRADE_COUNT" /\ second # "TRADE_COUNT"
          /\ {first, second} \cap {"BUSIEST_TRADING_DAY", "MOST_TRADED_SYMBOL"} = {}
      BY <2>8 DEF IsAnswer
    <3>2. Answerable(first, rows, columns) /\ Groups(a) = Over(first)
      BY <2>2, <2>4, <2>8, <3>1
    <3>3. Answerable(second, rows, columns)
      BY <2>8, <3>2, AlsoAnswerable, QueryClasses
    <3>4. IsAnswer(b, second) /\ Groups(b) = Over(second)
      BY <2>3, <2>4, <2>8, <3>1, <3>3
    <3>5. DOMAIN Over(second) = DOMAIN Over(first)
      <4>1. \A row : KeyOf(first, row, columns) = KeyOf(second, row, columns)
        BY <2>8, KeysAlike
      <4> QED
        BY <4>1, GroupedAlike DEF Over
    <3> QED
      BY <3>2, <3>4, <3>5
  <2>9. ASSUME NEW pair \in {<<"TRADE_COUNT_BY_DAY", "BUSIEST_TRADING_DAY">>,
                             <<"TRADE_COUNT_BY_SYMBOL", "MOST_TRADED_SYMBOL">>},
               IsAnswer(a, pair[1]), shown[b].query = pair[2]
        PROVE  /\ IsAnswer(b, pair[2])
               /\ \A k \in DOMAIN Groups(a) :
                     k \in DOMAIN Groups(b) <=>
                     (\A l \in DOMAIN Groups(a) : Groups(a)[k] >= Groups(a)[l])
               /\ shown[b].result.payload.tie = (Cardinality(DOMAIN Groups(b)) > 1)
    <3>1. \/ pair[1] = "TRADE_COUNT_BY_DAY" /\ pair[2] = "BUSIEST_TRADING_DAY"
          \/ pair[1] = "TRADE_COUNT_BY_SYMBOL" /\ pair[2] = "MOST_TRADED_SYMBOL"
      OBVIOUS
    <3> QED
      BY <2>6, <2>9, <3>1
  <2>10. ASSUME NEW pair \in {<<"PROFIT_BY_DAY", "TRADE_COUNT_BY_DAY">>,
                              <<"PROFIT_BY_SYMBOL", "TRADE_COUNT_BY_SYMBOL">>},
                IsAnswer(a, pair[1]), shown[b].query = pair[2]
         PROVE  IsAnswer(b, pair[2]) /\ DOMAIN Groups(a) = DOMAIN Groups(b)
    <3>1. \/ pair[1] = "PROFIT_BY_DAY" /\ pair[2] = "TRADE_COUNT_BY_DAY"
          \/ pair[1] = "PROFIT_BY_SYMBOL" /\ pair[2] = "TRADE_COUNT_BY_SYMBOL"
      OBVIOUS
    <3> QED
      BY <2>8, <2>10, <3>1
  <2> QED
    BY <2>7, <2>9, <2>10
<1> QED
  BY <1>1, QueryInvHolds, PTL

-----------------------------------------------------------------------------
(* The input hash.  Sequences that are equal as bags are one another's     *)
(* rearrangements.                                                         *)
LEMMA EqualBags ==
    ASSUME NEW p, NEW q, IsFiniteSet(DOMAIN p), IsFiniteSet(DOMAIN q), ToBag(p) = ToBag(q)
    PROVE  \E move \in Bijection(DOMAIN p, DOMAIN q) : \A i \in DOMAIN p : q[move[i]] = p[i]
<1> DEFINE At(s, x) == {i \in DOMAIN s : s[i] = x}
           h(x) == CHOOSE b : b \in Bijection(At(p, x), At(q, x))
           move == [i \in DOMAIN p |-> h(p[i])[i]]
<1>1. /\ \A s : ToBag(s) = [x \in Range(s) |-> Cardinality(At(s, x))]
      /\ \A s, x, i : i \in At(s, x) <=> i \in DOMAIN s /\ s[i] = x
      /\ \A s, i : i \in DOMAIN s => s[i] \in Range(s)
      /\ \A s, x : x \in Range(s) => \E i \in DOMAIN s : s[i] = x
  BY DEF ToBag, Range
<1> HIDE DEF At
<1>2. Range(p) = Range(q) /\ \A x \in Range(p) : Cardinality(At(p, x)) = Cardinality(At(q, x))
  <2>1. DOMAIN ToBag(p) = Range(p) /\ DOMAIN ToBag(q) = Range(q)
    BY <1>1
  <2>2. /\ \A x \in Range(p) : ToBag(p)[x] = Cardinality(At(p, x))
        /\ \A x \in Range(q) : ToBag(q)[x] = Cardinality(At(q, x))
    BY <1>1
  <2> QED
    BY <2>1, <2>2
<1>3. ASSUME NEW x \in Range(p) PROVE h(x) \in Bijection(At(p, x), At(q, x))
  <2>1. At(p, x) \in SUBSET DOMAIN p /\ At(q, x) \in SUBSET DOMAIN q
    BY <1>1
  <2>2. IsFiniteSet(At(p, x)) /\ IsFiniteSet(At(q, x))
    BY <2>1, FS_Subset
  <2>3. Cardinality(At(p, x)) = Cardinality(At(q, x))
    BY <1>2
  <2>4. ExistsBijection(At(p, x), At(q, x))
    BY <2>2, <2>3, FS_SameCardinalityBij
  <2> QED
    BY <2>4 DEF ExistsBijection
<1> HIDE DEF h
<1>4. ASSUME NEW x \in Range(p)
      PROVE  /\ \A i \in At(p, x) : h(x)[i] \in At(q, x)
             /\ \A i, k \in At(p, x) : h(x)[i] = h(x)[k] => i = k
             /\ \A t \in At(q, x) : \E i \in At(p, x) : h(x)[i] = t
  BY <1>3 DEF Bijection, Injection, Surjection, IsInjective
<1>5. ASSUME NEW i \in DOMAIN p
      PROVE  /\ p[i] \in Range(p) /\ i \in At(p, p[i])
             /\ move[i] = h(p[i])[i]
             /\ move[i] \in DOMAIN q /\ q[move[i]] = p[i]
  BY <1>1, <1>4
<1>6. ASSUME NEW i \in DOMAIN p, NEW k \in DOMAIN p, move[i] = move[k] PROVE i = k
  <2>1. p[i] = p[k]
    BY <1>5, <1>6
  <2>2. /\ p[i] \in Range(p) /\ i \in At(p, p[i]) /\ k \in At(p, p[i])
        /\ h(p[i])[i] = h(p[i])[k]
    BY <1>5, <1>6, <2>1
  <2> QED
    BY <1>4, <2>2
<1>7. ASSUME NEW t \in DOMAIN q PROVE \E i \in DOMAIN p : move[i] = t
  <2>1. q[t] \in Range(p) /\ t \in At(q, q[t])
    BY <1>1, <1>2
  <2>2. PICK i \in At(p, q[t]) : h(q[t])[i] = t
    BY <1>4, <2>1
  <2>3. i \in DOMAIN p /\ p[i] = q[t]
    BY <1>1
  <2>4. move[i] = t
    BY <1>5, <2>2, <2>3
  <2> QED
    BY <2>3, <2>4
<1>8. move \in [DOMAIN p -> DOMAIN q]
  BY <1>5
<1> HIDE DEF move
<1>9. move \in Bijection(DOMAIN p, DOMAIN q)
  BY <1>6, <1>7, <1>8 DEF Bijection, Injection, Surjection, IsInjective
<1> QED
  BY <1>5, <1>9

(* A bijection relates the parts it maps to each other.                    *)
LEMMA PartsMatch ==
    ASSUME NEW S, NEW T, NEW move \in Bijection(S, T), NEW A \in SUBSET S, NEW B \in SUBSET T,
           \A x \in S : x \in A <=> move[x] \in B
    PROVE  \E part \in Bijection(A, B) : \A x \in A : part[x] = move[x]
<1> DEFINE part == [x \in A |-> move[x]]
<1>1. /\ \A x \in S : move[x] \in T
      /\ \A x, y \in S : move[x] = move[y] => x = y
      /\ \A t \in T : \E x \in S : move[x] = t
  BY DEF Bijection, Injection, Surjection, IsInjective
<1>2. part \in [A -> B] /\ \A x \in A : part[x] = move[x]
  BY <1>1
<1>3. \A t \in B : \E x \in A : part[x] = t
  BY <1>1
<1>4. \A x, y \in A : part[x] = part[y] => x = y
  BY <1>1
<1> HIDE DEF part
<1>5. part \in Bijection(A, B)
  BY <1>2, <1>3, <1>4 DEF Bijection, Injection, Surjection, IsInjective
<1> QED
  BY <1>2, <1>5

(* Rows and their rearrangement have the same cells in the used columns.   *)
SameCells(rows, others, used, move) ==
    /\ IsFiniteSet(DOMAIN rows)
    /\ move \in Bijection(DOMAIN rows, DOMAIN others)
    /\ \A i \in DOMAIN rows, c \in used : others[move[i]][c] = rows[i][c]

LEMMA EqualDigests ==
    ASSUME NEW rows, NEW others, NEW used, NEW theirs,
           IsFiniteSet(DOMAIN rows), IsFiniteSet(DOMAIN others),
           InputDigest(rows, used) = InputDigest(others, theirs)
    PROVE  /\ used = theirs /\ Len(rows) = Len(others)
           /\ \E move : SameCells(rows, others, used, move)
<1> DEFINE p == [i \in DOMAIN rows |-> [c \in used |-> rows[i][c]]]
           q == [i \in DOMAIN others |-> [c \in theirs |-> others[i][c]]]
<1>1. used = theirs /\ Len(rows) = Len(others) /\ ToBag(p) = ToBag(q)
  BY DEF InputDigest
<1>2. DOMAIN p = DOMAIN rows /\ DOMAIN q = DOMAIN others
  OBVIOUS
<1>3. PICK move \in Bijection(DOMAIN rows, DOMAIN others) : \A i \in DOMAIN rows : q[move[i]] = p[i]
  <2> HIDE DEF p, q
  <2> QED
    BY <1>1, <1>2, EqualBags
<1>4. ASSUME NEW i \in DOMAIN rows, NEW c \in used PROVE others[move[i]][c] = rows[i][c]
  <2>1. move[i] \in DOMAIN others
    BY DEF Bijection, Injection
  <2>2. q[move[i]][c] = others[move[i]][c] /\ p[i][c] = rows[i][c]
    BY <1>1, <2>1
  <2>3. q[move[i]] = p[i]
    BY <1>3
  <2> HIDE DEF p, q
  <2> QED
    BY <2>2, <2>3
<1> QED
  BY <1>1, <1>3, <1>4 DEF SameCells

(* So the same rows are at fault in them.                                  *)
LEMMA SameRowsAtFault ==
    ASSUME NEW rows, NEW others, NEW used, NEW move, SameCells(rows, others, used, move),
           NEW column \in used, NEW values, NEW code
    PROVE  Issue(code, Rows(rows, column, values)) = Issue(code, Rows(others, column, values))
<1> DEFINE A == Rows(rows, column, values)
           B == Rows(others, column, values)
<1>1. A \in SUBSET DOMAIN rows /\ B \in SUBSET DOMAIN others
  BY DEF Rows
<1>2. \A i \in DOMAIN rows : move[i] \in DOMAIN others
  BY DEF SameCells, Bijection, Injection
<1>3. \A i \in DOMAIN rows : i \in A <=> move[i] \in B
  BY <1>2 DEF Rows, SameCells
<1> HIDE DEF A, B
<1>4. IsFiniteSet(A)
  BY <1>1, FS_Subset DEF SameCells
<1>5. Cardinality(A) = Cardinality(B) /\ (A = {} <=> B = {})
  <2>1. move \in Bijection(DOMAIN rows, DOMAIN others)
    BY DEF SameCells
  <2>2. PICK part \in Bijection(A, B) : \A i \in A : part[i] = move[i]
    BY <1>1, <1>3, <2>1, PartsMatch
  <2>3. Cardinality(A) = Cardinality(B)
    BY <1>4, <2>2, FS_Bijection DEF ExistsBijection
  <2>4. A = {} <=> B = {}
    BY <2>2 DEF Bijection, Injection, Surjection
  <2> QED
    BY <2>3, <2>4
<1>6. Issue(code, A) = Issue(code, B)
  BY <1>5 DEF Issue
<1> QED
  BY <1>6 DEF A, B

LEMMA DateColumnIs ==
    ASSUME NEW columns
    PROVE  FirstDateColumn(columns) \in {"Open Time", "Open", "Date"} \cup {NoValue}
<1>1. DOMAIN DateColumns = {1, 2, 3} /\ DateColumns[1] = "Open Time"
      /\ DateColumns[2] = "Open" /\ DateColumns[3] = "Date"
  BY DEF DateColumns
<1>2. DOMAIN DateColumns \subseteq Nat
  BY DEF DateColumns
<1>3. CASE FirstDateColumn(columns) # NoValue
  <2>1. \E i \in DOMAIN DateColumns : FirstDateColumn(columns) = DateColumns[i]
    BY <1>2, <1>3, PresentIsColumn DEF FirstDateColumn
  <2> QED
    BY <1>1, <2>1
<1> QED
  BY <1>3

(* The used columns name what a query reads.                               *)
LEMMA UsedColumns ==
    ASSUME NEW query, NEW columns, NEW theirs,
           ColumnsUsed(query, columns) = ColumnsUsed(query, theirs)
    PROVE  LET used == ColumnsUsed(query, columns) IN
           /\ query \in DateQueries =>
                 /\ FirstDateColumn(columns) = FirstDateColumn(theirs)
                 /\ FirstDateColumn(columns) # NoValue => FirstDateColumn(columns) \in used
           /\ query \in SymbolQueries =>
                 /\ "Symbol" \in columns <=> "Symbol" \in theirs
                 /\ "Symbol" \in columns => "Symbol" \in used
           /\ query \in ProfitQueries =>
                 /\ "Profit" \in columns <=> "Profit" \in theirs
                 /\ "Profit" \in columns => "Profit" \in used
           /\ MissingRequired(query, columns) <=> MissingRequired(query, theirs)
<1> DEFINE mine == FirstDateColumn(columns)
           yours == FirstDateColumn(theirs)
           used == ColumnsUsed(query, columns)
<1>1. /\ mine \in {"Open Time", "Open", "Date"} \cup {NoValue}
      /\ yours \in {"Open Time", "Open", "Date"} \cup {NoValue}
  BY DateColumnIs
<1>2. /\ \A c : c \in used <=> \/ query \in DateQueries /\ c = mine /\ c # NoValue
                               \/ query \in SymbolQueries /\ c = "Symbol" /\ c \in columns
                               \/ query \in ProfitQueries /\ c = "Profit" /\ c \in columns
      /\ \A c : c \in used <=> \/ query \in DateQueries /\ c = yours /\ c # NoValue
                               \/ query \in SymbolQueries /\ c = "Symbol" /\ c \in theirs
                               \/ query \in ProfitQueries /\ c = "Profit" /\ c \in theirs
  BY DEF ColumnsUsed
<1> HIDE DEF mine, yours, used
<1>3. query \in DateQueries => mine = yours /\ (mine # NoValue => mine \in used)
  BY <1>1, <1>2
<1>4. query \in SymbolQueries =>
         ("Symbol" \in columns <=> "Symbol" \in theirs) /\ ("Symbol" \in columns => "Symbol" \in used)
  <2>1. "Symbol" \notin {"Open Time", "Open", "Date"} /\ "Symbol" # "Profit"
    OBVIOUS
  <2> QED
    BY <1>1, <1>2, <2>1
<1>5. query \in ProfitQueries =>
         ("Profit" \in columns <=> "Profit" \in theirs) /\ ("Profit" \in columns => "Profit" \in used)
  <2>1. "Profit" \notin {"Open Time", "Open", "Date"} /\ "Symbol" # "Profit"
    OBVIOUS
  <2> QED
    BY <1>1, <1>2, <2>1
<1>6. MissingRequired(query, columns) <=> MissingRequired(query, theirs)
  BY <1>3, <1>4, <1>5 DEF MissingRequired, mine, yours
<1> QED
  BY <1>3, <1>4, <1>5, <1>6 DEF mine, yours, used

(* Two inputs of a query that have the same hash.                          *)
SameInput(query, rows, columns, others, theirs, move) ==
    /\ query \in Queries
    /\ rows = << >> <=> others = << >>
    /\ Len(rows) = Len(others)
    /\ ColumnsUsed(query, columns) = ColumnsUsed(query, theirs)
    /\ SameCells(rows, others, ColumnsUsed(query, columns), move)

LEMMA SameVerdict ==
    ASSUME NEW query, NEW rows, NEW columns, NEW others, NEW theirs, NEW move,
           SameInput(query, rows, columns, others, theirs, move)
    PROVE  Verdict(query, rows, columns) = Verdict(query, others, theirs)
<1> DEFINE used == ColumnsUsed(query, columns)
           column == FirstDateColumn(columns)
           date == FirstDateColumn(theirs)
<1>1. SameCells(rows, others, used, move)
  BY DEF SameInput
<1>2. /\ query \in DateQueries => column = date /\ (column # NoValue => column \in used)
      /\ query \in SymbolQueries => ("Symbol" \in columns => "Symbol" \in used)
      /\ query \in ProfitQueries => ("Profit" \in columns => "Profit" \in used)
      /\ MissingRequired(query, columns) <=> MissingRequired(query, theirs)
  BY UsedColumns DEF SameInput
<1>3. query \in Queries /\ (rows = << >> <=> others = << >>)
  BY DEF SameInput
<1>4. ASSUME query \in DateQueries, ~ MissingRequired(query, columns)
      PROVE  /\ DateIssues(rows, column) = DateIssues(others, date)
             /\ Offsets(rows, column) = Offsets(others, date)
  <2>1. column = date /\ column \in used
    BY <1>2, <1>4 DEF MissingRequired
  <2> HIDE DEF used, column, date
  <2>2. DateIssues(rows, column) = DateIssues(others, column)
    BY <1>1, <2>1, SameRowsAtFault DEF DateIssues
  <2>3. /\ \A i \in DOMAIN rows :
              move[i] \in DOMAIN others /\ others[move[i]][column] = rows[i][column]
        /\ \A k \in DOMAIN others : \E i \in DOMAIN rows : move[i] = k
    BY <1>1, <2>1 DEF SameCells, Bijection, Injection, Surjection
  <2>4. Offsets(rows, column) = Offsets(others, column)
    BY <2>3 DEF Offsets
  <2> QED
    BY <2>1, <2>2, <2>4
<1>5. ASSUME query \in SymbolQueries, ~ MissingRequired(query, columns)
      PROVE  SymbolIssues(rows) = SymbolIssues(others)
  <2>1. "Symbol" \in used
    BY <1>2, <1>5 DEF MissingRequired
  <2> HIDE DEF used
  <2> QED
    BY <1>1, <2>1, SameRowsAtFault DEF SymbolIssues
<1>6. ASSUME query \in ProfitQueries, ~ MissingRequired(query, columns)
      PROVE  ProfitIssues(rows) = ProfitIssues(others)
  <2>1. "Profit" \in used
    BY <1>2, <1>6 DEF MissingRequired
  <2> HIDE DEF used
  <2>2. \A code, values :
           Issue(code, Rows(rows, "Profit", values)) = Issue(code, Rows(others, "Profit", values))
    BY <1>1, <2>1, SameRowsAtFault
  <2> QED
    BY <2>2 DEF ProfitIssues
<1> HIDE DEF used, column, date
<1>7. CASE rows = << >>
  BY <1>3, <1>7 DEF Verdict
<1>8. CASE rows # << >> /\ MissingRequired(query, columns)
  BY <1>2, <1>3, <1>8 DEF Verdict
<1>9. CASE rows # << >> /\ ~ MissingRequired(query, columns)
  <2>1. ~ MissingRequired(query, theirs)
    BY <1>2, <1>9
  <2> QED
    BY <1>3, <1>4, <1>5, <1>6, <1>9, <2>1 DEF Verdict, column, date
<1> QED
  BY <1>7, <1>8, <1>9

(* The same input has the same groups.                                     *)
LEMMA SameGroups ==
    ASSUME NEW query, NEW rows, NEW columns, NEW others, NEW theirs, NEW move,
           SameInput(query, rows, columns, others, theirs, move), query # "TRADE_COUNT",
           ~ MissingRequired(query, columns), IsNumeric(Amounts(query, rows), DOMAIN rows)
    PROVE  Grouped(query, rows, columns) = Grouped(query, others, theirs)
<1> DEFINE used == ColumnsUsed(query, columns)
           column == FirstDateColumn(columns)
           date == FirstDateColumn(theirs)
           keys == Keys(query, rows, columns)
           others_keys == Keys(query, others, theirs)
           amount == Amounts(query, rows)
           others_amount == Amounts(query, others)
           groups == Grouped(query, rows, columns)
           others_groups == Grouped(query, others, theirs)
<1>1. /\ query \in DateQueries => column = date /\ column \in used
      /\ query \in SymbolQueries => "Symbol" \in used
      /\ query \in ProfitQueries => "Profit" \in used
  BY UsedColumns DEF SameInput, MissingRequired
<1>2. query \in DateQueries \cup SymbolQueries
  BY DEF SameInput, Queries
<1>3. /\ IsFiniteSet(DOMAIN rows) /\ move \in Bijection(DOMAIN rows, DOMAIN others)
      /\ \A i \in DOMAIN rows, c \in used : others[move[i]][c] = rows[i][c]
  BY DEF SameInput, SameCells
<1>4. /\ \A i \in DOMAIN rows : move[i] \in DOMAIN others
      /\ \A k \in DOMAIN others : \E i \in DOMAIN rows : move[i] = k
  BY <1>3 DEF Bijection, Injection, Surjection
<1> HIDE DEF used
<1>5. ASSUME NEW i \in DOMAIN rows
      PROVE  KeyOf(query, others[move[i]], theirs) = KeyOf(query, rows[i], columns)
  <2>1. CASE query \in SymbolQueries
    <3>1. query # "MONTHLY_PROFIT"
      BY <2>1 DEF SymbolQueries
    <3>2. others[move[i]].Symbol = rows[i].Symbol
      BY <1>1, <1>3, <2>1
    <3> QED
      BY <2>1, <3>1, <3>2 DEF KeyOf
  <2>2. CASE query \notin SymbolQueries
    <3>1. column = date /\ others[move[i]][column] = rows[i][column]
      BY <1>1, <1>2, <1>3, <2>2
    <3>2. \A row, cols : KeyOf(query, row, cols) =
             IF query = "MONTHLY_PROFIT" THEN MonthOf(row[FirstDateColumn(cols)].day)
             ELSE row[FirstDateColumn(cols)].day
      BY <2>2 DEF KeyOf
    <3> QED
      BY <3>1, <3>2
  <2> QED
    BY <2>1, <2>2
<1>6. \A i \in DOMAIN rows : others_keys[move[i]] = keys[i]
  BY <1>4, <1>5 DEF Keys
<1>7. \A i \in DOMAIN rows : others_amount[move[i]] = amount[i]
  BY <1>1, <1>3, <1>4 DEF Amounts, Amount
<1>8. /\ IsGrouped(groups, amount, keys, DOMAIN rows)
      /\ IsGrouped(others_groups, others_amount, others_keys, DOMAIN others)
  BY GroupedIs
<1>9. groups = [k \in DOMAIN groups |-> groups[k]]
      /\ others_groups = [k \in DOMAIN others_groups |-> others_groups[k]]
  BY DEF Grouped
<1>10. IsNumeric(amount, DOMAIN rows)
  OBVIOUS
<1> HIDE DEF column, date, keys, others_keys, amount, others_amount, groups, others_groups
<1>11. DOMAIN groups = DOMAIN others_groups
  <2>1. {keys[i] : i \in DOMAIN rows} = {others_keys[i] : i \in DOMAIN others}
    BY <1>4, <1>6
  <2> QED
    BY <1>8, <2>1 DEF IsGrouped
<1>12. ASSUME NEW k \in DOMAIN groups PROVE groups[k] = others_groups[k]
  <2> DEFINE A == {i \in DOMAIN rows : keys[i] = k}
             B == {i \in DOMAIN others : others_keys[i] = k}
  <2>1. groups[k] = SumOver(amount, A) /\ others_groups[k] = SumOver(others_amount, B)
    BY <1>8, <1>11 DEF IsGrouped
  <2>2. A \in SUBSET DOMAIN rows /\ B \in SUBSET DOMAIN others
    OBVIOUS
  <2>3. \A i \in DOMAIN rows : i \in A <=> move[i] \in B
    BY <1>4, <1>6
  <2> HIDE DEF A, B
  <2>4. PICK part \in Bijection(A, B) : \A i \in A : part[i] = move[i]
    BY <1>3, <2>2, <2>3, PartsMatch
  <2>5. IsFiniteSet(A) /\ IsNumeric(amount, A)
    BY <1>3, <1>10, <2>2, FS_Subset DEF IsNumeric
  <2>6. \A i \in A : others_amount[part[i]] = amount[i]
    BY <1>7, <2>2, <2>4
  <2>7. SumOver(others_amount, B) = SumOver(amount, A)
    BY <2>5, <2>6, SumImage
  <2> QED
    BY <2>1, <2>7
<1>13. groups = others_groups
  BY <1>9, <1>11, <1>12
<1> QED
  BY <1>13 DEF groups, others_groups

(* All dates of an answered query have the same offset.                    *)
LEMMA OneOffset ==
    ASSUME NEW S, IsFiniteSet(S), ~ (Cardinality(S) > 1), NEW x \in S, NEW y \in S
    PROVE  x = y
<1> SUFFICES ASSUME x # y PROVE FALSE
  OBVIOUS
<1>1. IsFiniteSet({x}) /\ Cardinality({x}) = 1
  BY FS_Singleton
<1>2. Cardinality({x} \cup {y}) = 2
  BY <1>1, FS_AddElement
<1>3. {x} \cup {y} \in SUBSET S
  OBVIOUS
<1>4. Cardinality({x} \cup {y}) <= Cardinality(S) /\ Cardinality(S) \in Nat
  BY <1>3, FS_Subset, FS_CardinalityType
<1> QED
  BY <1>2, <1>4

LEMMA SameOffset ==
    ASSUME NEW query \in DateQueries, NEW rows, NEW columns, NEW others, NEW theirs, NEW move,
           SameInput(query, rows, columns, others, theirs, move),
           Answerable(query, rows, columns), 1 \in DOMAIN rows, 1 \in DOMAIN others
    PROVE  rows[1][FirstDateColumn(columns)].offset = others[1][FirstDateColumn(theirs)].offset
<1> DEFINE used == ColumnsUsed(query, columns)
           column == FirstDateColumn(columns)
           S == Offsets(rows, column)
<1>1. column = FirstDateColumn(theirs) /\ column \in used
  BY UsedColumns DEF SameInput, Answerable, MissingRequired
<1>2. /\ IsFiniteSet(DOMAIN rows) /\ move \in Bijection(DOMAIN rows, DOMAIN others)
      /\ \A i \in DOMAIN rows, c \in used : others[move[i]][c] = rows[i][c]
  BY DEF SameInput, SameCells
<1>3. ~ (Cardinality(S) > 1)
  BY DEF Answerable
<1> HIDE DEF used, column
<1>4. rows[1][column].offset \in S
  BY DEF Offsets
<1>5. others[1][column].offset \in S
  <2>1. PICK i \in DOMAIN rows : move[i] = 1
    BY <1>2 DEF Bijection, Surjection
  <2>2. others[1][column] = rows[i][column]
    BY <1>1, <1>2, <2>1
  <2> QED
    BY <2>2 DEF Offsets
<1>6. IsFiniteSet(S)
  <2> DEFINE offset == [i \in DOMAIN rows |-> rows[i][column].offset]
  <2>1. offset \in Surjection(DOMAIN rows, S)
    BY DEF Offsets, Surjection
  <2> HIDE DEF offset, S
  <2> QED
    BY <1>2, <2>1, FS_Surjection
<1> HIDE DEF S
<1>7. rows[1][column].offset = others[1][column].offset
  BY <1>3, <1>4, <1>5, <1>6, OneOffset
<1> QED
  BY <1>1, <1>7 DEF column

(* Whoever asks the same question of an input with the same hash gets the  *)
(* same answer.                                                            *)
THEOREM HashFixesAnswer == QuerySpec => []SameInputSameAnswer
<1>1. QueryInv => SameInputSameAnswer
  <2> SUFFICES ASSUME QueryInv, NEW a \in Tabs, NEW b \in Tabs, HasResult(a), HasResult(b),
                      shown[a].query = shown[b].query, shown[a].query \in Queries,
                      shown[a].result.digest = shown[b].result.digest
               PROVE  /\ shown[a].result.status = shown[b].result.status
                      /\ shown[a].result.issues = shown[b].result.issues
                      /\ Groups(a) = Groups(b)
                      /\ shown[a].result.payload.scalar = shown[b].result.payload.scalar
                      /\ shown[a].result.payload.tie = shown[b].result.payload.tie
                      /\ shown[a].result.payload.offset = shown[b].result.payload.offset
    BY DEF SameInputSameAnswer
  <2> DEFINE query == shown[a].query
             rows == Selected(shown[a].over, shown[a].symbol)
             columns == shown[a].over.columns
             others == Selected(shown[b].over, shown[b].symbol)
             theirs == shown[b].over.columns
             mine == shown[a].result
             yours == shown[b].result
  <2>1. /\ shown[a].over \in QueryJournals /\ mine = Execute(query, rows, columns)
        /\ shown[b].over \in QueryJournals /\ yours = Execute(query, others, theirs)
    BY DEF QueryInv, IsComputed
  <2>2. ASSUME NEW j \in QueryJournals, NEW symbol
        PROVE  /\ IsFiniteSet(DOMAIN Selected(j, symbol))
               /\ Selected(j, symbol) = << >> <=> Len(Selected(j, symbol)) = 0
               /\ Selected(j, symbol) # << >> => 1 \in DOMAIN Selected(j, symbol)
    <3> DEFINE n == Cardinality(Scope(j, SymbolOnly(symbol)))
    <3>1. /\ n \in Nat /\ DOMAIN Selected(j, symbol) = 1..n /\ Len(Selected(j, symbol)) = n
          /\ n > 0 => Selected(j, symbol) # << >>
          /\ n = 0 => Selected(j, symbol) = << >>
      BY SelectedIs
    <3> HIDE DEF n
    <3> QED
      BY <3>1, FS_Interval
  <2>3. /\ IsFiniteSet(DOMAIN rows) /\ IsFiniteSet(DOMAIN others)
        /\ rows = << >> <=> Len(rows) = 0
        /\ others = << >> <=> Len(others) = 0
        /\ rows # << >> => 1 \in DOMAIN rows
        /\ others # << >> => 1 \in DOMAIN others
    BY <2>1, <2>2
  <2>4. /\ mine.status = Verdict(query, rows, columns)[1]
        /\ mine.issues = Verdict(query, rows, columns)[2]
        /\ mine.status = "OK" <=> Answerable(query, rows, columns)
        /\ mine.status # "OK" => mine.payload = NoPayload
        /\ mine.status = "OK" => mine.payload = Payload(query, rows, columns)
        /\ mine.digest = InputDigest(rows, ColumnsUsed(query, columns))
    BY <2>1, ExecuteIs
  <2>5. /\ yours.status = Verdict(query, others, theirs)[1]
        /\ yours.issues = Verdict(query, others, theirs)[2]
        /\ yours.status # "OK" => yours.payload = NoPayload
        /\ yours.status = "OK" => yours.payload = Payload(query, others, theirs)
        /\ yours.digest = InputDigest(others, ColumnsUsed(query, theirs))
    BY <2>1, ExecuteIs
  <2>6. query \in Queries /\ mine.digest = yours.digest
    OBVIOUS
  <2>7. IsNumeric(Amounts(query, rows), DOMAIN rows) \/ ~ Answerable(query, rows, columns)
    BY <2>1, AmountsAre
  <2> HIDE DEF query, rows, columns, others, theirs, mine, yours
  <2>8. PICK move : SameInput(query, rows, columns, others, theirs, move)
    <3>1. InputDigest(rows, ColumnsUsed(query, columns)) =
             InputDigest(others, ColumnsUsed(query, theirs))
      BY <2>4, <2>5, <2>6
    <3>2. /\ ColumnsUsed(query, columns) = ColumnsUsed(query, theirs)
          /\ Len(rows) = Len(others)
          /\ \E move : SameCells(rows, others, ColumnsUsed(query, columns), move)
      BY <2>3, <3>1, EqualDigests
    <3>3. rows = << >> <=> others = << >>
      BY <2>3, <3>2
    <3> QED
      BY <2>6, <3>2, <3>3 DEF SameInput
  <2>9. Verdict(query, rows, columns) = Verdict(query, others, theirs)
    BY <2>8, SameVerdict
  <2>10. mine.status = yours.status /\ mine.issues = yours.issues
    BY <2>4, <2>5, <2>9
  <2>11. CASE mine.status # "OK"
    <3>1. mine.payload = yours.payload
      BY <2>4, <2>5, <2>10, <2>11
    <3> QED
      BY <2>10, <3>1 DEF mine, yours, Groups
  <2>12. CASE mine.status = "OK"
    <3>1. /\ mine.payload = Payload(query, rows, columns)
          /\ yours.payload = Payload(query, others, theirs)
          /\ Answerable(query, rows, columns)
      BY <2>4, <2>5, <2>10, <2>12
    <3>2. query # "TRADE_COUNT" => Grouped(query, rows, columns) = Grouped(query, others, theirs)
      BY <2>7, <2>8, <3>1, SameGroups DEF Answerable
    <3>3. query # "TRADE_COUNT" => Answer(query, rows, columns) = Answer(query, others, theirs)
      BY <3>2 DEF Answer
    <3>4. query \in DateQueries =>
             rows[1][FirstDateColumn(columns)].offset = others[1][FirstDateColumn(theirs)].offset
      <4>1. 1 \in DOMAIN rows /\ 1 \in DOMAIN others
        BY <2>3, <2>8, <3>1 DEF Answerable, SameInput
      <4> QED
        BY <2>8, <3>1, <4>1, SameOffset
    <3>5. Len(rows) = Len(others)
      BY <2>8 DEF SameInput
    <3>6. /\ mine.payload.groups = yours.payload.groups
          /\ mine.payload.scalar = yours.payload.scalar
          /\ mine.payload.tie = yours.payload.tie
          /\ mine.payload.offset = yours.payload.offset
      BY <3>1, <3>3, <3>4, <3>5 DEF Payload
    <3> QED
      BY <2>10, <3>6 DEF mine, yours, Groups
  <2> QED
    BY <2>11, <2>12
<1> QED
  BY <1>1, QueryInvHolds, PTL

-----------------------------------------------------------------------------
(* The trade review table: what a row is sorted by is a number or missing. *)
IsBound(bound) == bound \in Evidences \cup {NoValue}

IsSortKey(key) == key \in SortKeys \cup {NoValue}

LEMMA CellIs ==
    ASSUME NEW j \in TableJournals, NEW r \in DOMAIN j.rows, NEW c
    PROVE  /\ c \in NumberKeys \cup {"entry", "exit"} => Cell(j.rows[r], c) \in Int \cup {NoValue}
           /\ c \in TextKeys /\ Cell(j.rows[r], c) # NoValue => TextRank(j.rows[r][c]) \in Int
  BY TableAssumption DEF Cell

LEMMA TicketIs ==
    ASSUME NEW j \in TableJournals, NEW r \in DOMAIN j.rows
    PROVE  TicketOf(j.rows[r]) \in Int \cup {NoValue}
  BY TableAssumption DEF TicketOf

LEMMA MovementIs ==
    ASSUME NEW j \in TableJournals, NEW r \in DOMAIN j.rows
    PROVE  resolve_realised_movement(j.rows[r]).value \in Int \cup {NoValue}
<1> DEFINE row == j.rows[r]
           side == classify_side(Cell(row, "type"))
           calculated == calculated_movement(side, Cell(row, "entry"), Cell(row, "exit"))
<1>1. /\ Cell(row, "entry") \in Int \cup {NoValue} /\ Cell(row, "exit") \in Int \cup {NoValue}
      /\ Cell(row, "pips") \in Int \cup {NoValue}
  BY CellIs DEF NumberKeys
<1>2. calculated \in Int \cup {NoValue}
  BY <1>1 DEF calculated_movement
<1>3. resolve_realised_movement(row).value =
         IF Cell(row, "pips") # NoValue THEN Cell(row, "pips") ELSE calculated
  BY DEF resolve_realised_movement
<1> QED
  BY <1>1, <1>2, <1>3

(* Close times are read in the format of one of the rows, or each alone.   *)
LEMMA FormatIs ==
    ASSUME NEW j \in TableJournals, NEW rows \in SUBSET DOMAIN j.rows
    PROVE  \/ FormatAmong(j, rows, "close_time") = NoValue
           \/ \E i \in DOMAIN j.rows :
                 FormatAmong(j, rows, "close_time") = GuessedFormat(j.rows[i].close_time)
<1> DEFINE filled == {r \in rows : j.rows[r].close_time # NoValue}
<1>1. FormatAmong(j, rows, "close_time") =
         IF filled = {} THEN NoValue ELSE GuessedFormat(j.rows[Min(filled)].close_time)
  BY DEF FormatAmong
<1>2. filled \subseteq DOMAIN j.rows /\ filled \in SUBSET Nat
  <2>1. j.rows \in Seq({j.rows[r] : r \in DOMAIN j.rows})
    BY TableAssumption
  <2>2. DOMAIN j.rows \subseteq Nat
    BY <2>1
  <2> QED
    BY <2>2
<1> HIDE DEF filled
<1>3. ASSUME filled # {} PROVE Min(filled) \in filled
  <2>1. \E m \in filled : \A k \in filled : m <= k
    BY <1>2, <1>3, LeastExists
  <2> QED
    BY <2>1 DEF Min
<1> QED
  BY <1>1, <1>2, <1>3

LEMMA SortValueIs ==
    ASSUME NEW j \in TableJournals, NEW rows \in SUBSET DOMAIN j.rows, NEW r \in DOMAIN j.rows,
           NEW bound, IsBound(bound), NEW key \in SortKeys, Sortable(key, j.columns, bound)
    PROVE  SortValue(j, rows, r, key, bound) \in Int \cup {NoValue}
<1> DEFINE row == j.rows[r]
<1> USE DEF NumberKeys, TextKeys, EvidenceKeys
<1>1. CASE key \in NumberKeys
  BY <1>1, CellIs DEF SortValue
<1>2. CASE key \in TextKeys
  BY <1>2, CellIs DEF SortValue
<1>3. CASE key \in EvidenceKeys
  <2> DEFINE ticket == canonical_ticket(Cell(row, "ticket"))
  <2>1. EvidenceOf(row, bound)[key] \in Int \cup {NoValue}
    <3>1. CASE bound # NoValue /\ ticket # NoValue /\ ticket \in DOMAIN bound
      BY <1>3, <3>1, TableAssumption DEF EvidenceOf, IsBound
    <3>2. CASE ~(bound # NoValue /\ ticket # NoValue /\ ticket \in DOMAIN bound)
      BY <1>3, <3>2 DEF EvidenceOf, NoEvidence
    <3> QED
      BY <3>1, <3>2
  <2> QED
    BY <1>3, <2>1 DEF SortValue
<1>4. CASE key = "movement"
  BY <1>4, MovementIs DEF SortValue
<1>5. CASE key = "ticket"
  BY <1>5, TableAssumption DEF SortValue, TicketOf
<1>6. CASE key = "close_time"
  <2>1. "close_time" \in j.columns
    BY <1>6 DEF Sortable
  <2>2. SortValue(j, rows, r, key, bound) =
           DayRead(row.close_time, FormatAmong(j, rows, "close_time"))
    BY <1>6 DEF SortValue
  <2>3. CASE FormatAmong(j, rows, "close_time") = NoValue
    BY <2>1, <2>2, <2>3, TableAssumption
  <2>4. ASSUME NEW i \in DOMAIN j.rows,
               FormatAmong(j, rows, "close_time") = GuessedFormat(j.rows[i].close_time)
        PROVE  SortValue(j, rows, r, key, bound) \in Int \cup {NoValue}
    <3>1. \A format \in {NoValue, GuessedFormat(j.rows[i].close_time)} :
             DayRead(row.close_time, format) \in Int \cup {NoValue}
      BY <2>1, <2>4, TableAssumption
    <3> QED
      BY <2>2, <2>4, <3>1
  <2> QED
    BY <2>3, <2>4, FormatIs
<1> QED
  BY <1>1, <1>2, <1>3, <1>4, <1>5, <1>6 DEF SortKeys

(* Missing values come last, whatever the direction.                       *)
LEMMA PrecedesIs ==
    ASSUME NEW a \in Int \cup {NoValue}, NEW b \in Int \cup {NoValue}, NEW dir
    PROVE  /\ ~Precedes(a, a, dir)
           /\ a # b => Precedes(a, b, dir) \/ Precedes(b, a, dir)
           /\ ~(Precedes(a, b, dir) /\ Precedes(b, a, dir))
           /\ \A c \in Int \cup {NoValue} :
                 Precedes(a, b, dir) /\ Precedes(b, c, dir) => Precedes(a, c, dir)
  BY CellAssumption DEF Precedes

LEMMA RowOrder ==
    ASSUME NEW j \in TableJournals, DOMAIN j.rows \subseteq Nat, NEW bound, IsBound(bound),
           NEW rows \in SUBSET DOMAIN j.rows,
           NEW key \in SortKeys, Sortable(key, j.columns, bound), NEW dir
    PROVE  LET before(d, e) == RowBefore(j, bound, rows, key, dir, d, e)
               S == DOMAIN j.rows
           IN /\ \A d \in S : ~before(d, d)
              /\ \A d, e, f \in S : before(d, e) /\ before(e, f) => before(d, f)
              /\ \A d, e \in S : d # e => before(d, e) \/ before(e, d)
<1> DEFINE S == DOMAIN j.rows
           V == Int \cup {NoValue}
           value(r) == SortValue(j, rows, r, key, bound)
           ticket(r) == TicketOf(j.rows[r])
           before(d, e) == RowBefore(j, bound, rows, key, dir, d, e)
           down(a, b) == Precedes(a, b, dir)
           up(a, b) == Precedes(a, b, "asc")
<1>1. \A r \in S : value(r) \in V /\ ticket(r) \in V
  BY SortValueIs, TicketIs
<1>2. \A d, e : before(d, e) <=> \/ down(value(d), value(e))
                                 \/ /\ value(d) = value(e)
                                    /\ \/ up(ticket(d), ticket(e))
                                       \/ ticket(d) = ticket(e) /\ d < e
  BY DEF RowBefore
<1>3. /\ \A a \in V : ~down(a, a) /\ ~up(a, a)
      /\ \A a, b \in V : a # b => (down(a, b) \/ down(b, a)) /\ (up(a, b) \/ up(b, a))
      /\ \A a, b, c \in V : /\ down(a, b) /\ down(b, c) => down(a, c)
                            /\ up(a, b) /\ up(b, c) => up(a, c)
  BY PrecedesIs
<1> HIDE DEF value, ticket, before, down, up, V
<1>4. \A d \in S : ~before(d, d)
  BY <1>1, <1>2, <1>3
<1>5. ASSUME NEW d \in S, NEW e \in S, d # e PROVE before(d, e) \/ before(e, d)
  BY <1>1, <1>2, <1>3, <1>5
<1>6. ASSUME NEW d \in S, NEW e \in S, NEW f \in S, before(d, e), before(e, f) PROVE before(d, f)
  BY <1>1, <1>2, <1>3, <1>6
<1> QED
  BY <1>4, <1>5, <1>6 DEF before

(* The table lists the kept rows once each, in the order it is marked with.  *)
LEMMA SortedRowsAre ==
    ASSUME NEW j \in TableJournals, NEW bound, IsBound(bound), NEW key, IsSortKey(key), NEW dir,
           NEW rows \in SUBSET DOMAIN j.rows
    PROVE  LET sorted == SortedRows(j, bound, rows, key, dir)
               n == Cardinality(rows)
           IN /\ n \in Nat /\ sorted \in [1..n -> rows]
              /\ \A r \in rows : \E i \in 1..n : sorted[i] = r
              /\ \A i, k \in 1..n : i < k => sorted[i] # sorted[k]
              /\ key # NoValue /\ Sortable(key, j.columns, bound) =>
                    \A i, k \in 1..n : i < k =>
                       RowBefore(j, bound, rows, key, dir, sorted[i], sorted[k])
<1> DEFINE sorted == SortedRows(j, bound, rows, key, dir)
           n == Cardinality(rows)
           S == DOMAIN j.rows
           marked == key # NoValue /\ Sortable(key, j.columns, bound)
           before(d, e) == RowBefore(j, bound, rows, key, dir, d, e)
           R == {p \in rows \X rows : before(p[1], p[2])}
<1>1. IsFiniteSet(rows) /\ rows \subseteq Nat /\ S \subseteq Nat
  <2>1. j.rows \in Seq({j.rows[r] : r \in DOMAIN j.rows})
    BY TableAssumption
  <2>2. Len(j.rows) \in Nat /\ DOMAIN j.rows = 1..Len(j.rows)
    BY <2>1
  <2>3. IsFiniteSet(DOMAIN j.rows)
    BY <2>2, FS_Interval
  <2> QED
    BY <2>2, <2>3, FS_Subset
<1>2. CASE marked
  <2>1. key \in SortKeys /\ Sortable(key, j.columns, bound)
    BY <1>2 DEF IsSortKey
  <2>2. /\ \A d \in S : ~before(d, d)
        /\ \A d, e, f \in S : before(d, e) /\ before(e, f) => before(d, f)
        /\ \A d, e \in S : d # e => before(d, e) \/ before(e, d)
    BY <1>1, <2>1, RowOrder
  <2>3. sorted = InOrder(rows, R)
    BY <1>2 DEF SortedRows
  <2> HIDE DEF before, sorted
  <2>4. \A d, e \in rows : <<d, e>> \in R <=> before(d, e)
    OBVIOUS
  <2> HIDE DEF R
  <2>5. \A d \in rows : <<d, d>> \notin R
    BY <2>2, <2>4
  <2>6. \A d, e, f \in rows : <<d, e>> \in R /\ <<e, f>> \in R => <<d, f>> \in R
    BY <2>2, <2>4
  <2>7. \A d, e \in rows : d # e => <<d, e>> \in R \/ <<e, d>> \in R
    BY <2>2, <2>4
  <2>8. Lists(sorted, rows, R)
    BY <1>1, <2>3, <2>5, <2>6, <2>7, InOrderLists
  <2>9. /\ n \in Nat /\ sorted \in [1..n -> rows]
        /\ \A r \in rows : \E i \in 1..n : sorted[i] = r
        /\ \A i, k \in 1..n : i < k => <<sorted[i], sorted[k]>> \in R
    BY <2>8 DEF Lists
  <2> HIDE DEF n
  <2>10. \A i, k \in 1..n : i < k => sorted[i] # sorted[k] /\ before(sorted[i], sorted[k])
    BY <2>4, <2>5, <2>9
  <2> QED
    BY <2>9, <2>10 DEF before, sorted, n
<1>3. CASE ~marked
  <2>1. sorted = InFileOrder(rows)
    BY <1>3 DEF SortedRows
  <2> HIDE DEF sorted
  <2>2. Lists(sorted, rows, {p \in rows \X rows : p[1] < p[2]})
    BY <1>1, <2>1, InFileOrderLists
  <2>3. /\ n \in Nat /\ sorted \in [1..n -> rows]
        /\ \A r \in rows : \E i \in 1..n : sorted[i] = r
        /\ \A i, k \in 1..n : i < k => <<sorted[i], sorted[k]>> \in {p \in rows \X rows : p[1] < p[2]}
    BY <2>2 DEF Lists
  <2> HIDE DEF n
  <2>4. \A i, k \in 1..n : i < k => sorted[i] < sorted[k] /\ sorted[i] \in Nat /\ sorted[k] \in Nat
    BY <1>1, <2>3
  <2>5. \A i, k \in 1..n : i < k => sorted[i] # sorted[k]
    BY <2>4
  <2> QED
    BY <1>3, <2>3, <2>5 DEF sorted, n
<1> QED
  BY <1>2, <1>3

-----------------------------------------------------------------------------
(* Paging: the pages before one are full, and the last ends the rows.      *)
UpTo(rows, number) == Min({Len(rows), number * TRADE_PAGE_SIZE})

LEMMA MinIs ==
    ASSUME NEW a \in Int, NEW b \in Int
    PROVE  Min({a, b}) = IF a <= b THEN a ELSE b
  BY DEF Min

LEMMA PagesAre ==
    ASSUME NEW rows, Len(rows) \in Nat
    PROVE  /\ NumPages(rows) \in Nat /\ NumPages(rows) >= 1
           /\ \A k \in Nat : k >= 1 /\ k < NumPages(rows) => k * TRADE_PAGE_SIZE < Len(rows)
           /\ NumPages(rows) * TRADE_PAGE_SIZE >= Len(rows)
<1> DEFINE n == Len(rows)
           p == TRADE_PAGE_SIZE
           q == (n + p - 1) \div p
<1>1. p \in Nat /\ p >= 1
  BY TableAssumption
<1>2. NumPages(rows) = Max({1, q})
  BY DEF NumPages
<1> HIDE DEF n, p
<1>3. n \in Nat
  BY DEF n
<1>4. q \in Int /\ p * q <= n + p - 1 /\ n + p - 1 < p * q + p
  BY <1>1, <1>3
<1> HIDE DEF q
<1>5. Max({1, q}) = IF q <= 1 THEN 1 ELSE q
  BY <1>4 DEF Max
<1>6. ASSUME NEW k \in Nat, k < q PROVE k * p < n
  <2>1. (k + 1) * p <= q * p
    BY <1>1, <1>4, <1>6
  <2>2. (k + 1) * p = k * p + p /\ k * p \in Int /\ q * p = p * q
    BY <1>1, <1>4
  <2> QED
    BY <1>1, <1>3, <1>4, <2>1, <2>2
<1>7. CASE q <= 1
  <2>1. NumPages(rows) = 1
    BY <1>2, <1>5, <1>7
  <2>2. p * q <= p
    BY <1>1, <1>4, <1>7
  <2>3. p >= n /\ 1 * p = p
    BY <1>1, <1>3, <1>4, <2>2
  <2> QED
    BY <2>1, <2>3 DEF n, p
<1>8. CASE q > 1
  <2>1. NumPages(rows) = q
    BY <1>2, <1>4, <1>5, <1>8
  <2>2. q * p >= n
    BY <1>1, <1>3, <1>4
  <2>3. q \in Nat /\ q >= 1
    BY <1>4, <1>8
  <2> QED
    BY <1>6, <2>1, <2>2, <2>3 DEF n, p
<1> QED
  BY <1>4, <1>7, <1>8

-----------------------------------------------------------------------------
RowsOf(table) == KeptRows(table.over, table.filter)

(* All rows of a table, of which it shows one page.                        *)
AllRows(table) == SortedRows(table.over, table.bound, RowsOf(table), table.sort, table.dir)

(* A table shows the page it states; a walk has seen all rows up to its end. *)
IsPage(table) ==
    table.over # NoValue =>
        /\ table.over \in TableJournals /\ IsBound(table.bound) /\ IsSortKey(table.sort)
        /\ table.pages = NumPages(AllRows(table))
        /\ table.number \in Nat /\ table.number >= 1 /\ table.number <= table.pages
        /\ table.seen # NoValue =>
              table.seen = SubSeq(AllRows(table), 1, UpTo(AllRows(table), table.number))

TableInv ==
    /\ tableJournal \in TableJournals \cup {NoValue}
    /\ IsBound(evidence)
    /\ IsPage(tablePage)

LEMMA AllRowsAre ==
    ASSUME NEW table, table.over \in TableJournals, IsBound(table.bound), IsSortKey(table.sort)
    PROVE  LET rows == AllRows(table)
               n == Cardinality(RowsOf(table))
           IN /\ n \in Nat /\ rows \in Seq(RowsOf(table)) /\ Len(rows) = n
              /\ rows \in [1..n -> RowsOf(table)]
              /\ \A r \in RowsOf(table) : \E i \in 1..n : rows[i] = r
              /\ \A i, k \in 1..n : i < k => rows[i] # rows[k]
              /\ table.sort # NoValue /\ Sortable(table.sort, table.over.columns, table.bound) =>
                    \A i, k \in 1..n : i < k =>
                       RowBefore(table.over, table.bound, RowsOf(table), table.sort, table.dir,
                                 rows[i], rows[k])
<1> DEFINE rows == AllRows(table)
           n == Cardinality(RowsOf(table))
           kept == RowsOf(table)
<1>1. kept \in SUBSET DOMAIN table.over.rows
  BY DEF RowsOf, KeptRows
<1>2. rows = SortedRows(table.over, table.bound, kept, table.sort, table.dir)
  BY DEF AllRows
<1> HIDE DEF rows, kept
<1>3. LET m == Cardinality(kept) IN
      /\ m \in Nat /\ rows \in [1..m -> kept]
      /\ \A r \in kept : \E i \in 1..m : rows[i] = r
      /\ \A i, k \in 1..m : i < k => rows[i] # rows[k]
      /\ table.sort # NoValue /\ Sortable(table.sort, table.over.columns, table.bound) =>
            \A i, k \in 1..m : i < k =>
               RowBefore(table.over, table.bound, kept, table.sort, table.dir, rows[i], rows[k])
  BY <1>1, <1>2, SortedRowsAre
<1>4. Cardinality(kept) = n
  BY DEF kept
<1> HIDE DEF n
<1>5. rows \in Seq(kept) /\ Len(rows) = n
  BY <1>3, <1>4
<1> QED
  BY <1>3, <1>4, <1>5 DEF rows, n, kept

(* Turning from one page to the next goes on where the page before ended.  *)
LEMMA PagesAdjoin ==
    ASSUME NEW S, NEW rows \in Seq(S), NEW k \in Nat, k >= 1, k < NumPages(rows)
    PROVE  SubSeq(rows, 1, UpTo(rows, k)) \o OnPage(rows, k + 1) = SubSeq(rows, 1, UpTo(rows, k + 1))
<1> DEFINE n == Len(rows)
           p == TRADE_PAGE_SIZE
           a == k * p
           b == UpTo(rows, k + 1)
<1>1. n \in Nat /\ p \in Nat /\ p >= 1
  BY TableAssumption
<1>2. a \in Nat /\ a < n /\ (k + 1) * p = a + p /\ ((k + 1) - 1) * p = a
  BY <1>1, PagesAre
<1>3. UpTo(rows, k) = a
  BY <1>1, <1>2, MinIs DEF UpTo
<1>4. OnPage(rows, k + 1) = SubSeq(rows, a + 1, b)
  BY <1>2 DEF OnPage, UpTo
<1>5. b = IF n <= a + p THEN n ELSE a + p
  BY <1>1, <1>2, MinIs DEF UpTo
<1> HIDE DEF a, b, p
<1>6. b \in a..n /\ a \in 0..n
  BY <1>1, <1>2, <1>5
<1>7. SubSeq(rows, 1, a) \o SubSeq(rows, a + 1, b) = SubSeq(rows, 1, b)
  <2>1. 1 \in 1..(n + 1) /\ a \in (1 - 1)..n
    BY <1>1, <1>6
  <2> QED
    BY <1>6, <2>1, ConcatAdjacentSubSeq
<1> QED
  BY <1>3, <1>4, <1>7 DEF b

LEMMA PageNumberIs ==
    ASSUME NEW rows, Len(rows) \in Nat, NEW number
    PROVE  /\ PageNumber(rows, number) \in Nat /\ PageNumber(rows, number) >= 1
           /\ PageNumber(rows, number) <= NumPages(rows)
  BY PagesAre DEF PageNumber

LEMMA TableIs ==
    ASSUME TableInv, tableJournal # NoValue, NEW filter, NEW key, IsSortKey(key), NEW dir, NEW number
    PROVE  IsPage(Table(filter, key, dir, number))
<1> DEFINE kept == KeptRows(tableJournal, filter)
           rows == SortedRows(tableJournal, evidence, kept, key, dir)
           at == PageNumber(rows, number)
           unseen == [over |-> tableJournal, bound |-> evidence, filter |-> filter,
                      sort |-> key, dir |-> dir, number |-> at,
                      pages |-> NumPages(rows), shown |-> OnPage(rows, at), seen |-> << >>]
           table == Table(filter, key, dir, number)
<1>1. table = [unseen EXCEPT !.seen = Seen(unseen)]
  BY DEF Table
<1>2. /\ table.over = tableJournal /\ table.bound = evidence /\ table.filter = filter
      /\ table.sort = key /\ table.dir = dir /\ table.number = at
      /\ table.pages = NumPages(rows) /\ table.seen = Seen(unseen)
  BY <1>1
<1>3. AllRows(table) = rows
  BY <1>2 DEF AllRows, RowsOf
<1>4. tableJournal \in TableJournals /\ IsBound(evidence)
  BY DEF TableInv
<1>5. rows \in Seq(RowsOf(table)) /\ Len(rows) \in Nat
  BY <1>2, <1>3, <1>4, AllRowsAre
<1>6. at \in Nat /\ at >= 1 /\ at <= NumPages(rows)
  BY <1>5, PageNumberIs
<1>7. /\ unseen.over = tableJournal /\ unseen.bound = evidence /\ unseen.filter = filter
      /\ unseen.sort = key /\ unseen.dir = dir /\ unseen.number = at
      /\ unseen.shown = OnPage(rows, at)
  OBVIOUS
<1> HIDE DEF table, unseen, at, rows
<1>8. ASSUME Seen(unseen) # NoValue PROVE Seen(unseen) = SubSeq(rows, 1, UpTo(rows, at))
  <2>1. CASE at = 1
    <3>1. Seen(unseen) = OnPage(rows, 1)
      BY <1>7, <2>1 DEF Seen
    <3>2. (1 - 1) * TRADE_PAGE_SIZE + 1 = 1
      BY TableAssumption
    <3> QED
      BY <2>1, <3>1, <3>2 DEF OnPage, UpTo
  <2>2. CASE at # 1
    <3>1. /\ \A f \in {"over", "bound", "filter", "sort", "dir"} : unseen[f] = tablePage[f]
          /\ at = tablePage.number + 1 /\ tablePage.seen # NoValue
          /\ Seen(unseen) = tablePage.seen \o OnPage(rows, at)
      BY <1>7, <1>8, <2>2 DEF Seen
    <3>2. /\ tablePage.over = tableJournal /\ tablePage.bound = evidence
          /\ tablePage.filter = filter /\ tablePage.sort = key /\ tablePage.dir = dir
      BY <1>7, <3>1
    <3>3. AllRows(tablePage) = rows
      BY <3>2 DEF AllRows, RowsOf, rows
    <3> DEFINE k == tablePage.number
    <3>4. /\ k \in Nat /\ k >= 1
          /\ tablePage.seen = SubSeq(rows, 1, UpTo(rows, k))
      BY <3>1, <3>2, <3>3 DEF TableInv, IsPage
    <3>5. at = k + 1
      BY <3>1
    <3> HIDE DEF k
    <3>6. k < NumPages(rows)
      BY <1>5, <1>6, <3>4, <3>5, PagesAre
    <3>7. SubSeq(rows, 1, UpTo(rows, k)) \o OnPage(rows, k + 1) = SubSeq(rows, 1, UpTo(rows, k + 1))
      BY <1>5, <3>4, <3>6, PagesAdjoin
    <3> QED
      BY <3>1, <3>4, <3>5, <3>7
  <2> QED
    BY <2>1, <2>2
<1>9. IsPage(table)
  BY <1>2, <1>3, <1>4, <1>6, <1>8 DEF IsPage
<1> QED
  BY <1>9 DEF table

LEMMA EmptyTableIs == IsPage(EmptyTable)
  BY DEF IsPage, EmptyTable

LEMMA TableInvHolds == TableSpec => []TableInv
<1>1. TableInit => TableInv
  BY EmptyTableIs DEF TableInit, TableInv, IsBound
<1>2. TableInv /\ [TableNext]_tableVars => TableInv'
  <2> SUFFICES ASSUME TableInv, [TableNext]_tableVars PROVE TableInv'
    OBVIOUS
  <2>1. CASE LoadTableJournal
    BY <2>1 DEF LoadTableJournal, TableInv, IsBound
  <2>2. CASE Bind
    BY <2>2 DEF Bind, TableInv, IsBound
  <2>3. ASSUME NEW filter, NEW key, IsSortKey(key), NEW dir, NEW number,
               tablePage' = Table(filter, key, dir, number), UNCHANGED <<tableJournal, evidence>>
        PROVE  TableInv'
    <3>1. CASE tableJournal = NoValue
      <4>1. tablePage' = EmptyTable
        BY <2>3, <3>1 DEF Table
      <4> QED
        BY <2>3, <4>1, EmptyTableIs DEF TableInv
    <3>2. CASE tableJournal # NoValue
      <4>1. IsPage(Table(filter, key, dir, number))
        BY <2>3, <3>2, TableIs
      <4> QED
        BY <2>3, <4>1 DEF TableInv
    <3> QED
      BY <3>1, <3>2
  <2>4. ASSUME NEW filter \in Filters \cup {NoValue}, OpenTable(filter) PROVE TableInv'
    <3>1. IsSortKey(NoValue)
      BY DEF IsSortKey
    <3> QED
      BY <2>3, <2>4, <3>1 DEF OpenTable
  <2>5. ASSUME NEW key \in SortKeys, SortBy(key) PROVE TableInv'
    <3>1. IsSortKey(key)
      BY DEF IsSortKey
    <3> QED
      BY <2>3, <2>5, <3>1 DEF SortBy
  <2>6. ASSUME NEW number, Turn(number) PROVE TableInv'
    <3>1. IsSortKey(tablePage.sort)
      BY <2>6 DEF Turn, TableInv, IsPage
    <3> QED
      BY <2>3, <2>6, <3>1 DEF Turn
  <2>7. ASSUME NEW key \in SortKeys, NEW dir \in {"asc", "desc"}, TypeSort(key, dir)
        PROVE  TableInv'
    <3>1. IsSortKey(key)
      BY DEF IsSortKey
    <3> QED
      BY <2>3, <2>7, <3>1 DEF TypeSort
  <2>8. CASE UNCHANGED tableVars
    BY <2>8 DEF tableVars, TableInv
  <2> QED
    BY <2>1, <2>2, <2>4, <2>5, <2>6, <2>7, <2>8 DEF TableNext
<1> QED
  BY <1>1, <1>2, PTL DEF TableSpec

LEMMA WalkIs ==
    ASSUME TableInv, tablePage.over # NoValue, tablePage.seen # NoValue
    PROVE  LET rows == AllRows(tablePage)
               n == Cardinality(RowsOf(tablePage))
               m == UpTo(rows, tablePage.number)
           IN /\ n \in Nat /\ rows \in Seq(RowsOf(tablePage)) /\ Len(rows) = n
              /\ m \in 0..n /\ tablePage.seen = SubSeq(rows, 1, m)
              /\ tablePage.number = tablePage.pages => m = n
<1> DEFINE rows == AllRows(tablePage)
           n == Cardinality(RowsOf(tablePage))
           number == tablePage.number
           m == UpTo(rows, number)
<1>1. /\ tablePage.over \in TableJournals /\ IsBound(tablePage.bound) /\ IsSortKey(tablePage.sort)
      /\ tablePage.pages = NumPages(rows) /\ number \in Nat /\ number >= 1
      /\ tablePage.seen = SubSeq(rows, 1, m)
  BY DEF TableInv, IsPage
<1>2. n \in Nat /\ rows \in Seq(RowsOf(tablePage)) /\ Len(rows) = n
  BY <1>1, AllRowsAre
<1> HIDE DEF rows, n, number
<1>3. /\ TRADE_PAGE_SIZE \in Nat /\ number * TRADE_PAGE_SIZE \in Nat
  BY <1>1, TableAssumption
<1>4. m = IF n <= number * TRADE_PAGE_SIZE THEN n ELSE number * TRADE_PAGE_SIZE
  BY <1>2, <1>3, MinIs DEF UpTo
<1>5. number = NumPages(rows) => number * TRADE_PAGE_SIZE >= n
  BY <1>2, PagesAre
<1> HIDE DEF m
<1>6. m \in 0..n /\ (number = NumPages(rows) => m = n)
  BY <1>2, <1>3, <1>4, <1>5
<1> QED
  BY <1>1, <1>2, <1>6 DEF rows, n, number, m

(* Although every page sorts the table anew, whoever turns all pages sees  *)
(* every kept trade exactly once, in the order the table is marked with.   *)
THEOREM PagesAreOneTable == TableSpec => []PagesMakeOneTable
<1>1. ASSUME TableInv, tablePage.over # NoValue, tablePage.seen # NoValue,
             tablePage.number = tablePage.pages
      PROVE  /\ Len(tablePage.seen) = Cardinality(Range(tablePage.seen))
             /\ Range(tablePage.seen) = RowsOf(tablePage)
  <2> DEFINE rows == AllRows(tablePage)
             kept == RowsOf(tablePage)
  <2>1. /\ Cardinality(kept) \in Nat /\ rows \in Seq(kept) /\ Len(rows) = Cardinality(kept)
        /\ tablePage.seen = SubSeq(rows, 1, Len(rows))
    BY <1>1, WalkIs
  <2>2. \A r \in kept : \E i \in 1..Cardinality(kept) : rows[i] = r
    BY <1>1, AllRowsAre DEF TableInv, IsPage
  <2> HIDE DEF rows, kept
  <2>3. tablePage.seen = rows
    BY <2>1, SubSeqFull
  <2>4. DOMAIN rows = 1..Cardinality(kept) /\ \A i \in 1..Cardinality(kept) : rows[i] \in kept
    BY <2>1
  <2>5. Range(rows) = kept
    BY <2>2, <2>4 DEF Range
  <2> QED
    BY <2>1, <2>3, <2>5 DEF kept
<1>2. TableInv => WalkShowsEveryTradeOnce
  BY <1>1 DEF WalkShowsEveryTradeOnce, RowsOf
<1>3. TableInv => SortedAsMarked
  <2> DEFINE rows == AllRows(tablePage)
             kept == RowsOf(tablePage)
             seen == tablePage.seen
             value(r) == SortValue(tablePage.over, kept, r, tablePage.sort, tablePage.bound)
             ticket(r) == TicketOf(tablePage.over.rows[r])
  <2> SUFFICES ASSUME TableInv, tablePage.over # NoValue, tablePage.seen # NoValue,
                      tablePage.sort # NoValue,
                      Sortable(tablePage.sort, tablePage.over.columns, tablePage.bound),
                      NEW i \in DOMAIN seen, NEW j \in DOMAIN seen, i < j
               PROVE  /\ value(seen[i]) = NoValue => value(seen[j]) = NoValue
                      /\ value(seen[i]) # NoValue /\ value(seen[j]) # NoValue =>
                            IF tablePage.dir = "asc" THEN value(seen[i]) =< value(seen[j])
                            ELSE value(seen[i]) >= value(seen[j])
                      /\ /\ value(seen[i]) = value(seen[j])
                         /\ ticket(seen[i]) # NoValue /\ ticket(seen[j]) # NoValue
                         => ticket(seen[i]) =< ticket(seen[j])
    BY DEF SortedAsMarked, RowsOf
  <2>1. /\ Cardinality(kept) \in Nat /\ rows \in Seq(kept) /\ Len(rows) = Cardinality(kept)
        /\ UpTo(rows, tablePage.number) \in 0..Len(rows)
        /\ seen = SubSeq(rows, 1, UpTo(rows, tablePage.number))
    BY WalkIs
  <2>2. /\ tablePage.over \in TableJournals /\ IsBound(tablePage.bound)
        /\ tablePage.sort \in SortKeys
    BY DEF TableInv, IsPage, IsSortKey
  <2>3. \A a, b \in 1..Cardinality(kept) : a < b =>
           RowBefore(tablePage.over, tablePage.bound, kept, tablePage.sort, tablePage.dir,
                     rows[a], rows[b])
    BY <2>2, AllRowsAre DEF IsSortKey
  <2>4. kept \subseteq DOMAIN tablePage.over.rows
    BY DEF RowsOf, KeptRows
  <2> DEFINE m == UpTo(rows, tablePage.number)
  <2> HIDE DEF rows, kept, seen, m
  <2>5. /\ DOMAIN seen = 1..m /\ i \in 1..Cardinality(kept) /\ j \in 1..Cardinality(kept)
        /\ seen[i] = rows[i] /\ seen[j] = rows[j]
    <3>1. m \in Int /\ 1 \in Int /\ \A k \in 1..m : rows[k] \in kept
      BY <2>1 DEF m
    <3>2. /\ Len(seen) = IF 1 <= m THEN m - 1 + 1 ELSE 0
          /\ seen \in Seq(kept)
          /\ \A k \in 1..(m - 1 + 1) : seen[k] = rows[1 + k - 1]
      BY <2>1, <3>1, SubSeqProperties DEF m
    <3>3. DOMAIN seen = 1..m
      BY <2>1, <3>2 DEF m
    <3> QED
      BY <2>1, <3>1, <3>2, <3>3 DEF m
  <2>6. /\ seen[i] \in DOMAIN tablePage.over.rows /\ seen[j] \in DOMAIN tablePage.over.rows
        /\ RowBefore(tablePage.over, tablePage.bound, kept, tablePage.sort, tablePage.dir,
                     seen[i], seen[j])
    BY <2>1, <2>3, <2>4, <2>5
  <2>7. /\ value(seen[i]) \in Int \cup {NoValue} /\ value(seen[j]) \in Int \cup {NoValue}
        /\ ticket(seen[i]) \in Int \cup {NoValue} /\ ticket(seen[j]) \in Int \cup {NoValue}
    BY <2>2, <2>4, <2>6, SortValueIs, TicketIs
  <2>8. \/ Precedes(value(seen[i]), value(seen[j]), tablePage.dir)
        \/ /\ value(seen[i]) = value(seen[j])
           /\ \/ Precedes(ticket(seen[i]), ticket(seen[j]), "asc")
              \/ ticket(seen[i]) = ticket(seen[j])
    BY <2>6 DEF RowBefore
  <2> HIDE DEF value, ticket
  <2> QED
    BY <2>7, <2>8, CellAssumption DEF Precedes
<1>4. TableInv => PagesMakeOneTable
  BY <1>2, <1>3 DEF PagesMakeOneTable
<1> QED
  BY <1>4, TableInvHolds, PTL

=============================================================================
