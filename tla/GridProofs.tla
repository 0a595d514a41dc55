----------------------------- MODULE GridProofs -----------------------------
(***************************************************************************)
(* Lemmas about the operators that VoidFiller is built from, SpatialGrid   *)
(* and Kriging, for every grid, batch and radius: what the operations on a *)
(* grid leave of it, which of a batch's points a cell and a neighbourhood  *)
(* hold, and that quickSelectItems puts the nearest neighbours first.      *)
(*                                                                         *)
(* A loop of the code is a recursive function of its iterations.  LoopRuns *)
(* says that there is such a function, and LoopKeeps that what holds       *)
(* before the loop and is kept by each iteration holds after it: were it   *)
(* not so, there would be a first iteration after which it does not hold.  *)
(***************************************************************************)
EXTENDS VoidFiller, FiniteSetTheorems, WellFoundedInduction, TLAPS

GridFields == {"minX", "minY", "maxX", "maxY", "points", "void", "filled"}

(* A value of vf.grid: cells at indices from 0 on, finitely many.          *)
GridShape(g) ==
  /\ DOMAIN g = GridFields
  /\ g.minX \in Int /\ g.minY \in Int /\ g.maxX \in Int /\ g.maxY \in Int
  /\ Cells(g) \subseteq Nat \X Nat /\ IsFiniteSet(Cells(g))
  /\ g.points \in [Cells(g) -> Seq(Int \X Int)]
  /\ g.void \subseteq Cells(g) /\ g.filled \subseteq Cells(g)

-----------------------------------------------------------------------------
(* Least elements *)

LEMMA Sizes ==
  /\ CellSize \in Nat /\ CellSize > 0 /\ CellSize % 2 = 0
  /\ SearchRadius \in Nat /\ NCalls \in Nat
  /\ Config \subseteq [tick : Int, fallback : BOOLEAN]
  /\ AutoFitVariogram \in BOOLEAN /\ "free" \notin Caller
  /\ \A b \in Batch : b # <<>> /\ b \in Seq(Int \X Int)
BY VoidFillerAssumption DEF VoidFillerAssumption, SpatialGridAssumption

(* What WFMin says of a set of naturals. *)
LEMMA LeastNat ==
  ASSUME NEW C, C \subseteq Nat, C # {}
  PROVE  \E x \in C : \A y \in C : x <= y
<1> DEFINE R == OpToRel(<, Nat)
<1>1. IsWellFoundedOn(R, Nat)
  BY NatLessThanWellFounded
<1>2. \A x, y \in Nat : y < x => <<y, x>> \in R
  BY DEF OpToRel
<1> HIDE DEF R
<1>3. \E x \in C : \A y \in C : ~(<<y, x>> \in R)
  BY <1>1, WFMin
<1>4. PICK x \in C : \A y \in C : ~(<<y, x>> \in R)
  BY <1>3
<1>5. ASSUME NEW y \in C PROVE x <= y
  <2>1. x \in Nat /\ y \in Nat /\ ~(y < x)
    BY <1>2, <1>4
  <2> QED
    BY <2>1
<1> QED
  BY <1>5

(* The values of a finite sequence of integers have a least one. *)
LEMMA LeastInSeq ==
  ASSUME NEW n \in Nat, n > 0, NEW s \in [1 .. n -> Int]
  PROVE  \E m \in 1 .. n : \A i \in 1 .. n : s[m] <= s[i]
<1> DEFINE Has(k) == \E m \in 1 .. k : \A i \in 1 .. k : s[m] <= s[i]
           Bad == {k \in 1 .. n : ~Has(k)}
<1> SUFFICES ASSUME Bad # {} PROVE FALSE
  <2>1. n \in 1 .. n
    OBVIOUS
  <2> QED
    BY <2>1
<1>1. Bad \subseteq Nat
  OBVIOUS
<1>2. PICK k \in Bad : \A j \in Bad : k <= j
  <2> HIDE DEF Bad
  <2> QED
    BY <1>1, LeastNat
<1>3. k \in 1 .. n /\ ~Has(k)
  OBVIOUS
<1>4. k # 1
  <2> SUFFICES ASSUME k = 1 PROVE FALSE
    OBVIOUS
  <2>1. 1 \in 1 .. k /\ \A i \in 1 .. k : i = 1
    OBVIOUS
  <2>2. s[1] \in Int
    OBVIOUS
  <2> QED
    BY <1>3, <2>1, <2>2
<1>5. k - 1 \in 1 .. n /\ Has(k - 1)
  <2>1. k - 1 \in 1 .. n /\ ~(k <= k - 1)
    BY <1>3, <1>4
  <2>2. k - 1 \notin Bad
    <3> HIDE DEF Bad
    <3> QED
      BY <1>2, <2>1
  <2> HIDE DEF Has
  <2> QED
    BY <2>1, <2>2
<1>6. PICK m \in 1 .. k - 1 : \A i \in 1 .. k - 1 : s[m] <= s[i]
  BY <1>5
<1>7. s[m] \in Int /\ s[k] \in Int /\ m \in 1 .. k /\ k \in 1 .. k
  BY <1>3, <1>6
<1>8. \A i \in 1 .. k : s[i] \in Int /\ (i = k \/ i \in 1 .. k - 1)
  BY <1>3
<1>9. CASE s[m] <= s[k]
  <2>1. \A i \in 1 .. k : s[m] <= s[i]
    BY <1>6, <1>8, <1>9
  <2>2. m \in 1 .. k
    BY <1>7
  <2>3. Has(k)
    BY <2>1, <2>2
  <2> HIDE DEF Has
  <2> QED
    BY <1>3, <2>3
<1>10. CASE s[k] <= s[m]
  <2>1. ASSUME NEW i \in 1 .. k PROVE s[k] <= s[i]
    <3>1. s[i] \in Int
      BY <1>8
    <3>2. CASE i = k
      BY <3>1, <3>2
    <3>3. CASE i \in 1 .. k - 1
      <4>1. s[m] <= s[i]
        BY <1>6, <3>3
      <4> QED
        BY <1>7, <1>10, <3>1, <4>1
    <3> QED
      BY <1>8, <3>2, <3>3
  <2> QED
    BY <1>3, <1>7, <2>1
<1> QED
  BY <1>7, <1>9, <1>10

(* The bounds that ProcessAndFill finds for a batch. *)
LEMMA Bounds ==
  ASSUME NEW n \in Nat, n > 0, NEW s \in [1 .. n -> Int]
  PROVE  /\ Min({s[i] : i \in 1 .. n}) \in Int
         /\ Max({s[i] : i \in 1 .. n}) \in Int
<1> DEFINE S == {s[i] : i \in 1 .. n}
<1>1. S \subseteq Int
  OBVIOUS
<1>2. Min(S) \in S
  <2>1. PICK m \in 1 .. n : \A i \in 1 .. n : s[m] <= s[i]
    BY LeastInSeq
  <2>2. s[m] \in S /\ \A y \in S : s[m] <= y
    BY <2>1
  <2> HIDE DEF S
  <2> QED
    BY <2>2 DEF Min
<1>3. Max(S) \in S
  <2> DEFINE t == [i \in 1 .. n |-> 0 - s[i]]
  <2>1. t \in [1 .. n -> Int]
    OBVIOUS
  <2>2. \A i \in 1 .. n : t[i] = 0 - s[i] /\ s[i] \in Int
    OBVIOUS
  <2> HIDE DEF t
  <2>3. PICK m \in 1 .. n : \A i \in 1 .. n : t[m] <= t[i]
    BY <2>1, LeastInSeq
  <2>4. \A i \in 1 .. n : s[m] >= s[i]
    BY <2>2, <2>3
  <2>5. s[m] \in S /\ \A y \in S : s[m] >= y
    BY <2>4
  <2> HIDE DEF S
  <2> QED
    BY <2>5 DEF Max
<1> QED
  BY <1>1, <1>2, <1>3

(* GetVoidCells has a first cell, which is one of the cells. *)
LEMMA FirstIsOne ==
  ASSUME NEW cells, cells \subseteq Nat \X Nat, cells # {}
  PROVE  FirstCell(cells) \in cells
<1> DEFINE X == {c[1] : c \in cells}
           x == Min(X)
           Column == {d \in cells : d[1] = x}
           Y == {c[2] : c \in Column}
           y == Min(Y)
<1>1. X \subseteq Nat /\ X # {}
  OBVIOUS
<1>2. x \in X
  <2> HIDE DEF X
  <2>1. \E a \in X : \A b \in X : a <= b
    BY <1>1, LeastNat
  <2> QED
    BY <2>1 DEF Min
<1>3. Y \subseteq Nat /\ Y # {}
  <2> HIDE DEF x
  <2> QED
    BY <1>2
<1>4. y \in Y
  <2> HIDE DEF Y
  <2>1. \E a \in Y : \A b \in Y : a <= b
    BY <1>3, LeastNat
  <2> QED
    BY <2>1 DEF Min
<1>5. PICK d \in cells : d[1] = x /\ d[2] = y
  <2> HIDE DEF x, y
  <2> QED
    BY <1>4
<1>6. d = <<x, y>>
  <2> HIDE DEF x, y
  <2> QED
    BY <1>5
<1>7. FirstCell(cells) = <<x, y>>
  BY DEF FirstCell
<1> QED
  BY <1>6, <1>7

-----------------------------------------------------------------------------
(* Loops *)

(* Induction on the iterations of a loop, numbered a..b: Y holds those     *)
(* after which the loop is as it should be.                                *)
LEMMA EachIteration ==
  ASSUME NEW a \in Int, NEW b \in Int, NEW Y, a \in Y,
         \A i \in a + 1 .. b : i - 1 \in Y => i \in Y
  PROVE  \A i \in a .. b : i \in Y
<1> DEFINE Bad == {d \in Nat : a + d <= b /\ a + d \notin Y}
<1>1. ASSUME Bad # {} PROVE FALSE
  <2>1. PICK d \in Bad : \A e \in Bad : d <= e
    BY <1>1, LeastNat
  <2>2. d # 0
    OBVIOUS
  <2>3. d - 1 \notin Bad
    BY <2>1, <2>2
  <2>4. (a + d) - 1 \in Y /\ a + d \in a + 1 .. b
    BY <2>2, <2>3
  <2> QED
    BY <2>1, <2>4
<1>2. ASSUME NEW i \in a .. b PROVE i \in Y
  <2>1. i - a \in Nat /\ a + (i - a) = i
    OBVIOUS
  <2>2. i \notin Y => i - a \in Bad
    BY <2>1
  <2> HIDE DEF Bad
  <2> QED
    BY <1>1, <2>2
<1> QED
  BY <1>2

(* A loop, its iterations numbered a+1..b: X[i] is what is known of its    *)
(* state after iteration i, step[i] what iteration i makes of the state    *)
(* before it.                                                              *)
Stepwise(X, step, a, b) ==
  \A i \in a + 1 .. b : \A x \in X[i - 1] : step[i][x] \in X[i]

RunOf(f, base, step, a, b) ==
  f = [i \in a .. b |-> IF i = a THEN base ELSE step[i][f[i - 1]]]

Within(f, X, a, b) == \A i \in a .. b : f[i] \in X[i]

Kept(f, X, a, b) ==
  \A i \in a + 1 .. b : f[i - 1] \in X[i - 1] => f[i] \in X[i]

(* The recursive function that stands for a loop exists. *)
LEMMA LoopRuns ==
  ASSUME NEW a \in Int, NEW b \in Int, a <= b, NEW X, NEW base \in X[a],
         NEW step, Stepwise(X, step, a, b)
  PROVE  \E f : RunOf(f, base, step, a, b) /\ Within(f, X, a, b)
<1> DEFINE Runs(f, k) == RunOf(f, base, step, a, k) /\ Within(f, X, a, k)
           Y == {k \in a .. b : \E f : Runs(f, k)}
<1>0. \A i \in a + 1 .. b : \A x \in X[i - 1] : step[i][x] \in X[i]
  BY DEF Stepwise
<1>1. a \in Y
  <2> DEFINE f == [i \in a .. a |-> base]
  <2>0. a .. a = {a}
    OBVIOUS
  <2>1. f = [i \in a .. a |-> IF i = a THEN base ELSE step[i][f[i - 1]]]
    BY <2>0
  <2>2. \A i \in a .. a : f[i] \in X[i]
    BY <2>0
  <2>3. Runs(f, a)
    <3> HIDE DEF f
    <3> QED
      BY <2>1, <2>2 DEF RunOf, Within
  <2> HIDE DEF f, Runs
  <2> QED
    BY <2>3
<1>2. ASSUME NEW k \in a + 1 .. b, k - 1 \in Y PROVE k \in Y
  <2>1. PICK g : Runs(g, k - 1)
    BY <1>2
  <2> DEFINE f == [i \in a .. k |-> IF i = k THEN step[k][g[k - 1]] ELSE g[i]]
  <2>2. DOMAIN g = a .. k - 1 /\ k - 1 \in a .. k - 1
    BY <2>1 DEF RunOf
  <2>3. \A i \in a .. k - 1 : g[i] = IF i = a THEN base ELSE step[i][g[i - 1]]
    BY <2>1 DEF RunOf
  <2>4. \A i \in a .. k - 1 : g[i] \in X[i]
    BY <2>1 DEF Within
  <2>5. /\ \A i \in a .. k - 1 : i \in a .. k /\ i # k
        /\ \A i \in a .. k : i = k \/ i \in a .. k - 1
        /\ \A i \in a .. k - 1 : i = a \/ i - 1 \in a .. k - 1
        /\ k \in a .. k /\ k # a
    OBVIOUS
  <2>6. (\A i \in a .. k - 1 : f[i] = g[i]) /\ f[k] = step[k][g[k - 1]]
    BY <2>5
  <2>7. DOMAIN f = a .. k
    OBVIOUS
  <2> HIDE DEF f, Runs
  <2>8. ASSUME NEW i \in a .. k
        PROVE  f[i] = IF i = a THEN base ELSE step[i][f[i - 1]]
    <3>1. CASE i = k
      BY <2>2, <2>5, <2>6, <3>1
    <3>2. CASE i \in a .. k - 1
      BY <2>3, <2>5, <2>6, <3>2
    <3> QED
      BY <2>5, <3>1, <3>2
  <2>9. f = [i \in a .. k |-> IF i = a THEN base ELSE step[i][f[i - 1]]]
    <3>1. f = [i \in a .. k |-> f[i]]
      BY <2>7 DEF f
    <3> QED
      BY <2>8, <3>1
  <2>10. step[k][g[k - 1]] \in X[k]
    BY <1>0, <2>2, <2>4
  <2>11. \A i \in a .. k : f[i] \in X[i]
    BY <2>4, <2>5, <2>6, <2>10
  <2>12. Runs(f, k)
    BY <2>9, <2>11 DEF Runs, RunOf, Within
  <2>13. k \in a .. b
    OBVIOUS
  <2> QED
    BY <2>12, <2>13
<1>3. b \in Y
  <2> HIDE DEF Y
  <2>1. b \in a .. b
    OBVIOUS
  <2> QED
    BY <1>1, <1>2, <2>1, EachIteration
<1> QED
  BY <1>3

(* What holds before the loop, and is kept by each iteration. *)
LEMMA LoopKeeps ==
  ASSUME NEW a \in Int, NEW b \in Int, NEW X, NEW f, f[a] \in X[a],
         Kept(f, X, a, b)
  PROVE  Within(f, X, a, b)
<1> DEFINE Y == {i \in Int : f[i] \in X[i]}
<1>1. a \in Y
  OBVIOUS
<1>2. ASSUME NEW i \in a + 1 .. b, i - 1 \in Y PROVE i \in Y
  BY <1>2 DEF Kept
<1>3. \A i \in a .. b : i \in Y
  <2> HIDE DEF Y
  <2> QED
    BY <1>1, <1>2, EachIteration
<1> QED
  BY <1>3 DEF Within

-----------------------------------------------------------------------------
(* The operations on the grid *)

Pt == Int \X Int

(* The points of batch b that AddPoint puts in cell d of g, and those that *)
(* lie in a cell within the radius of v: their positions in the batch.     *)
Hits(g, b, d) ==
  {i \in 1 .. Len(b) : Inside(g, b[i]) /\ CellIndex(g, b[i]) = d}

NearTo(g, b, v) ==
  {i \in 1 .. Len(b) :
     LET d == CellIndex(g, b[i])
     IN /\ Inside(g, b[i])
        /\ d[1] \in v[1] - SearchRadius .. v[1] + SearchRadius
        /\ d[2] \in v[2] - SearchRadius .. v[2] + SearchRadius}

(* AddPoints adds each point of the batch to its cell. *)
LEMMA PointsAdded ==
  ASSUME NEW g, DOMAIN g = GridFields, NEW C, Cells(g) = C,
         g.points \in [C -> Seq(Int \X Int)],
         NEW b \in Seq(Int \X Int)
  PROVE  LET h == AddPoints(g, b)
         IN /\ h.points \in [C -> Seq(Int \X Int)]
            /\ \A d \in C : Len(h.points[d]) =
                              Len(g.points[d]) + Cardinality(Hits(g, b, d))
<1> DEFINE n == Len(b)
           added[i \in 0 .. Len(b)] ==
             IF i = 0 THEN g.points
             ELSE IF Inside(g, b[i])
               THEN [added[i - 1] EXCEPT ![CellIndex(g, b[i])] =
                                           Append(@, b[i])]
             ELSE added[i - 1]
           S == Seq(Int \X Int)
           P == [C -> S]
           To(i, d) ==
             {j \in 1 .. i : Inside(g, b[j]) /\ CellIndex(g, b[j]) = d}
           X == [i \in 0 .. n |->
                   {x \in P : \A d \in C :
                      Len(x[d]) = Len(g.points[d]) + Cardinality(To(i, d))}]
           After(x, i) == IF Inside(g, b[i])
                            THEN [x EXCEPT ![CellIndex(g, b[i])] =
                                             Append(@, b[i])]
                          ELSE x
           step == [i \in 1 .. n |-> [x \in P |-> After(x, i)]]
<1>1. AddPoints(g, b).points = added[n]
  BY DEF AddPoints, GridFields
<1>2. added = CHOOSE f : f = [i \in 0 .. n |->
        IF i = 0 THEN g.points
        ELSE IF Inside(g, b[i])
          THEN [f[i - 1] EXCEPT ![CellIndex(g, b[i])] = Append(@, b[i])]
        ELSE f[i - 1]]
  BY DEF added
<1> HIDE DEF added
<1>3. n \in Nat /\ \A i \in 1 .. n : b[i] \in Int \X Int
  OBVIOUS
<1>4. \A i \in Nat : \A d :
        IsFiniteSet(To(i, d)) /\ Cardinality(To(i, d)) \in Nat
  <2> SUFFICES ASSUME NEW i \in Nat, NEW d
               PROVE  IsFiniteSet(To(i, d)) /\ Cardinality(To(i, d)) \in Nat
    OBVIOUS
  <2>1. IsFiniteSet(1 .. i)
    BY FS_Interval
  <2>2. To(i, d) \subseteq 1 .. i
    OBVIOUS
  <2> HIDE DEF To
  <2>3. IsFiniteSet(To(i, d))
    BY <2>1, <2>2, FS_Subset
  <2> QED
    BY <2>3, FS_CardinalityType
<1>5. g.points \in X[0]
  <2>1. \A d : To(0, d) = {}
    OBVIOUS
  <2>2. \A d : Cardinality(To(0, d)) = 0
    BY <2>1, FS_EmptySet
  <2>3. \A d \in C : Len(g.points[d]) \in Nat
    OBVIOUS
  <2>4. 0 \in 0 .. n
    BY <1>3
  <2> HIDE DEF To, n
  <2> QED
    BY <2>2, <2>3, <2>4
<1>6. ASSUME NEW i \in 1 .. n, NEW x \in X[i - 1]
      PROVE  x \in P /\ After(x, i) \in X[i]
  <2> DEFINE p == b[i]  e == CellIndex(g, p)  y == After(x, i)
  <2>1. i - 1 \in 0 .. n /\ i \in 0 .. n /\ i - 1 \in Nat /\ i \in Nat
    BY <1>3
  <2>2. /\ x \in P
        /\ \A d \in C :
             Len(x[d]) = Len(g.points[d]) + Cardinality(To(i - 1, d))
    <3> HIDE DEF To, n
    <3> QED
      BY <2>1
  <2>3. p \in Int \X Int
    BY <1>3
  <2>4. \A d : To(i, d) = IF Inside(g, p) /\ e = d THEN To(i - 1, d) \cup {i}
                          ELSE To(i - 1, d)
    <3>1. \A m \in 1 .. i : m = i \/ m \in 1 .. i - 1
      BY <2>1
    <3>2. i \in 1 .. i /\ \A m \in 1 .. i - 1 : m \in 1 .. i
      BY <2>1
    <3> QED
      BY <3>1, <3>2
  <2>5. \A d : i \notin To(i - 1, d)
    BY <2>1
  <2>6. \A d : Cardinality(To(i - 1, d) \cup {i})
                 = Cardinality(To(i - 1, d)) + 1
    <3> HIDE DEF To
    <3> QED
      BY <1>4, <2>1, <2>5, FS_AddElement
  <2> HIDE DEF To, p
  <2>7. \A d \in C : x[d] \in S
    <3> HIDE DEF S
    <3> QED
      BY <2>2
  <2>8. \A s \in S : Append(s, p) \in S /\ Len(Append(s, p)) = Len(s) + 1
    BY <2>3
  <2> HIDE DEF S, e, X
  <2>9. CASE ~Inside(g, p)
    <3>1. y = x
      BY <2>9 DEF p
    <3>2. \A d \in C :
            Len(y[d]) = Len(g.points[d]) + Cardinality(To(i, d))
      BY <2>2, <2>4, <2>9, <3>1
    <3> QED
      BY <2>1, <2>2, <3>1, <3>2 DEF X
  <2>10. CASE Inside(g, p)
    <3>1. y = [x EXCEPT ![e] = Append(x[e], p)]
      BY <2>10 DEF p, e
    <3> HIDE DEF y
    <3>2. /\ y \in P
          /\ \A d \in C : y[d] = IF d = e THEN Append(x[d], p) ELSE x[d]
      BY <2>2, <2>7, <2>8, <3>1
    <3>3. ASSUME NEW d \in C
          PROVE  Len(y[d]) = Len(g.points[d]) + Cardinality(To(i, d))
      <4>1. CASE d = e
        <5>1. Len(y[d]) = Len(x[d]) + 1
          BY <2>7, <2>8, <3>2, <4>1
        <5>2. Cardinality(To(i, d)) = Cardinality(To(i - 1, d)) + 1
          BY <2>4, <2>6, <2>10, <4>1
        <5>3. /\ Len(g.points[d]) \in Nat
              /\ Cardinality(To(i - 1, d)) \in Nat
          BY <1>4, <2>1
        <5> QED
          BY <2>2, <5>1, <5>2, <5>3
      <4>2. CASE d # e
        BY <2>2, <2>4, <3>2, <4>2
      <4> QED
        BY <4>1, <4>2
    <3> QED
      BY <2>1, <2>2, <3>2, <3>3 DEF X, y
  <2> QED
    BY <2>9, <2>10
<1> HIDE DEF X, P
<1>7. Stepwise(X, step, 0, n)
  <2> SUFFICES ASSUME NEW j \in 0 + 1 .. n, NEW x \in X[j - 1]
               PROVE  step[j][x] \in X[j]
    BY DEF Stepwise
  <2>1. j \in 1 .. n
    OBVIOUS
  <2>2. x \in P /\ After(x, j) \in X[j]
    BY <1>6, <2>1
  <2> HIDE DEF After
  <2> QED
    BY <2>1, <2>2
<1>8. PICK f : RunOf(f, g.points, step, 0, n) /\ Within(f, X, 0, n)
  <2> HIDE DEF step, n
  <2>1. 0 <= n /\ 0 \in Int /\ n \in Int
    BY <1>3
  <2> QED
    BY <1>5, <1>7, <2>1, LoopRuns
<1>9. f = [i \in 0 .. n |-> IF i = 0 THEN g.points ELSE After(f[i - 1], i)]
  <2>1. ASSUME NEW i \in 0 .. n, i # 0
        PROVE  step[i][f[i - 1]] = After(f[i - 1], i)
    <3>1. i \in 1 .. n /\ i - 1 \in 0 .. n
      BY <1>3, <2>1
    <3>2. f[i - 1] \in P
      BY <1>6, <1>8, <3>1 DEF Within
    <3> HIDE DEF After
    <3> QED
      BY <3>1, <3>2
  <2> HIDE DEF step, After
  <2> QED
    BY <1>8, <2>1 DEF RunOf
<1>10. added = [i \in 0 .. n |-> IF i = 0 THEN g.points
                                 ELSE After(added[i - 1], i)]
  BY <1>2, <1>9
<1> HIDE DEF After
<1>11. Within(added, X, 0, n)
  <2>1. added[0] \in X[0]
    BY <1>3, <1>5, <1>10
  <2>2. Kept(added, X, 0, n)
    <3> SUFFICES ASSUME NEW i \in 0 + 1 .. n, added[i - 1] \in X[i - 1]
                 PROVE  added[i] \in X[i]
      BY DEF Kept
    <3>1. i \in 1 .. n /\ i \in 0 .. n /\ i # 0
      BY <1>3
    <3>2. added[i] = After(added[i - 1], i)
      BY <1>10, <3>1
    <3> QED
      BY <1>6, <3>1, <3>2
  <2>3. 0 \in Int /\ n \in Int
    BY <1>3
  <2> QED
    BY <2>1, <2>2, <2>3, LoopKeeps
<1>12. added[n] \in X[n]
  BY <1>3, <1>11 DEF Within
<1>13. \A d : To(n, d) = Hits(g, b, d)
  BY DEF Hits
<1> HIDE DEF To, n
<1>14. /\ added[n] \in P
       /\ \A d \in C :
            Len(added[n][d]) = Len(g.points[d]) + Cardinality(To(n, d))
  BY <1>3, <1>12 DEF X
<1> QED
  BY <1>1, <1>13, <1>14 DEF P

LEMMA ExtentIsInt ==
  ASSUME NEW a \in Int, NEW b \in Int
  PROVE  Extent(a, b) \in Int
BY Sizes DEF Extent

LEMMA NewGrid ==
  ASSUME NEW a \in Int, NEW b \in Int, NEW c \in Int, NEW d \in Int
  PROVE  LET g == NewSpatialGrid(a, b, c, d)
         IN GridShape(g) /\ g.void = {} /\ g.filled = {}
<1> DEFINE g == NewSpatialGrid(a, b, c, d)
           n == Extent(a, c)
           m == Extent(b, d)
<1>1. n \in Int /\ m \in Int
  BY ExtentIsInt
<1>2. Cells(g) = (0 .. n - 1) \X (0 .. m - 1)
  BY DEF NewSpatialGrid, Cells, CellsFor
<1>3. IsFiniteSet(0 .. n - 1) /\ IsFiniteSet(0 .. m - 1)
  <2> HIDE DEF n, m
  <2> QED
    BY <1>1, FS_Interval
<1>4. IsFiniteSet(Cells(g))
  <2> HIDE DEF n, m, g
  <2> QED
    BY <1>2, <1>3, FS_Product
<1>5. Cells(g) \subseteq Nat \X Nat
  <2> HIDE DEF n, m, g
  <2> QED
    BY <1>1, <1>2
<1>6. /\ DOMAIN g = GridFields
      /\ g.points \in [Cells(g) -> Seq(Int \X Int)]
  <2>1. g.points = [x \in CellsFor(a, b, c, d) |-> <<>>]
    BY DEF NewSpatialGrid
  <2>2. Cells(g) = CellsFor(a, b, c, d)
    BY <2>1 DEF Cells
  <2>3. DOMAIN g = GridFields
    BY DEF NewSpatialGrid, GridFields
  <2>4. g.points \in [Cells(g) -> Seq(Int \X Int)]
    <3> HIDE DEF g
    <3> QED
      BY <2>1, <2>2
  <2> QED
    BY <2>3, <2>4
<1>7. /\ g.minX = a /\ g.minY = b /\ g.maxX = c /\ g.maxY = d
      /\ g.void = {} /\ g.filled = {}
  BY DEF NewSpatialGrid
<1> HIDE DEF g
<1>8. GridShape(g)
  BY <1>4, <1>5, <1>6, <1>7 DEF GridShape
<1> QED
  BY <1>7, <1>8 DEF g

LEMMA ResetGrid ==
  ASSUME NEW g, GridShape(g)
  PROVE  GridShape(Reset(g)) /\ Reset(g).void = {} /\ Reset(g).filled = {}
<1> DEFINE r == Reset(g)
<1>1. DOMAIN g = GridFields
  BY DEF GridShape
<1>2. DOMAIN r = GridFields
  BY <1>1 DEF Reset
<1>3. /\ r.minX = g.minX /\ r.minY = g.minY /\ r.maxX = g.maxX
      /\ r.maxY = g.maxY
  BY <1>1 DEF Reset, GridFields
<1>4. r.points = [c \in Cells(g) |-> <<>>] /\ r.void = {} /\ r.filled = {}
  BY <1>1 DEF Reset, GridFields
<1> HIDE DEF r
<1>5. Cells(r) = Cells(g)
  BY <1>4 DEF Cells
<1>6. GridShape(r)
  BY <1>2, <1>3, <1>4, <1>5 DEF GridShape
<1> QED
  BY <1>4, <1>6 DEF r

(* The grid of a batch, new or used again, is empty. *)
LEMMA GridForBatch ==
  ASSUME GridShape(grid), NEW points \in Batch
  PROVE  LET g == GridFor(points)
         IN GridShape(g) /\ g.void = {} /\ g.filled = {}
<1>1. points \in Seq(Int \X Int) /\ points # <<>>
  BY Sizes
<1> DEFINE n == Len(points)
           xs == [i \in 1 .. n |-> points[i][1]]
           ys == [i \in 1 .. n |-> points[i][2]]
<1>2. n \in Nat /\ n > 0 /\ \A i \in 1 .. n : points[i] \in Int \X Int
  BY <1>1
<1>3. xs \in [1 .. n -> Int] /\ ys \in [1 .. n -> Int]
  BY <1>2
<1>4. /\ Xs(points) = {xs[i] : i \in 1 .. n}
      /\ Ys(points) = {ys[i] : i \in 1 .. n}
  <2>1. ToSet(points) = {points[i] : i \in 1 .. n}
    BY <1>1 DEF ToSet
  <2> QED
    BY <2>1 DEF Xs, Ys
<1>5. /\ Min(Xs(points)) \in Int /\ Max(Xs(points)) \in Int
      /\ Min(Ys(points)) \in Int /\ Max(Ys(points)) \in Int
  <2> HIDE DEF n, xs, ys
  <2> QED
    BY <1>2, <1>3, <1>4, Bounds
<1>6. Padding \in Int
  BY Sizes DEF Padding
<1>7. CASE OutOfBounds(grid, points)
  <2> DEFINE a == Min(Xs(points)) - Padding  b == Min(Ys(points)) - Padding
             c == Max(Xs(points)) + Padding  d == Max(Ys(points)) + Padding
  <2>1. a \in Int /\ b \in Int /\ c \in Int /\ d \in Int
    BY <1>5, <1>6
  <2>2. GridFor(points) = NewSpatialGrid(a, b, c, d)
    BY <1>7 DEF GridFor
  <2> HIDE DEF a, b, c, d
  <2> QED
    BY <2>1, <2>2, NewGrid
<1>8. CASE ~OutOfBounds(grid, points)
  <2>1. GridFor(points) = Reset(grid)
    BY <1>8 DEF GridFor
  <2> QED
    BY <2>1, ResetGrid
<1> QED
  BY <1>7, <1>8

(* AddPoints and ComputeStatistics: the cells and their bounds stay, and   *)
(* the void cells are some of them.                                        *)
LEMMA MeasuredGrid ==
  ASSUME NEW g, GridShape(g), NEW points \in Seq(Int \X Int)
  PROVE  LET h == ComputeStatistics(AddPoints(g, points))
         IN GridShape(h) /\ h.filled = g.filled
<1> DEFINE a == AddPoints(g, points)
           h == ComputeStatistics(a)
<1>1. DOMAIN g = GridFields
  BY DEF GridShape
<1>2. DOMAIN a = GridFields
  BY <1>1 DEF AddPoints
<1>3. /\ a.minX = g.minX /\ a.minY = g.minY /\ a.maxX = g.maxX
      /\ a.maxY = g.maxY /\ a.filled = g.filled
  BY <1>1 DEF AddPoints, GridFields
<1>4. Cells(a) = Cells(g) /\ a.points \in [Cells(g) -> Seq(Int \X Int)]
  <2>1. g.points \in [Cells(g) -> Seq(Int \X Int)]
    BY DEF GridShape
  <2>2. a.points \in [Cells(g) -> Seq(Int \X Int)]
    BY <1>1, <2>1, PointsAdded
  <2> HIDE DEF a
  <2> QED
    BY <2>2 DEF Cells
<1> HIDE DEF a
<1>5. DOMAIN h = GridFields
  BY <1>2 DEF ComputeStatistics
<1>6. /\ h.minX = a.minX /\ h.minY = a.minY /\ h.maxX = a.maxX
      /\ h.maxY = a.maxY /\ h.filled = a.filled /\ h.points = a.points
  BY <1>2 DEF ComputeStatistics, GridFields
<1>7. h.void = Cells(a) \ DataCells(a)
  BY <1>2 DEF ComputeStatistics, GridFields
<1> HIDE DEF h
<1>8. Cells(h) = Cells(g)
  BY <1>4, <1>6 DEF Cells
<1>9. h.void \subseteq Cells(g)
  BY <1>4, <1>7
<1>10. GridShape(h)
  <2>1. h.points \in [Cells(h) -> Seq(Int \X Int)]
    BY <1>4, <1>6, <1>8
  <2> QED
    BY <1>3, <1>5, <1>6, <1>8, <1>9, <2>1 DEF GridShape
<1> QED
  BY <1>3, <1>6, <1>10 DEF h, a

(* The centre of a cell lies in this cell: fillVoidsLocked, which goes by  *)
(* the centre, finds the cell again.                                       *)
LEMMA SameCell ==
  ASSUME NEW g, GridShape(g), NEW v \in Nat \X Nat
  PROVE  CellIndex(g, CenterOf(g, v)) = v
<1> DEFINE h == CellSize \div 2
<1>1. CellSize \in Nat /\ CellSize > 0 /\ h \in Nat /\ h < CellSize
  BY Sizes
<1> HIDE DEF h
<1>2. ASSUME NEW i \in Nat PROVE (i * CellSize + h) \div CellSize = i
  <2> DEFINE n == i * CellSize + h
             q == n \div CellSize
  <2>1. i * CellSize \in Nat
    BY <1>1
  <2>2. n \in Nat /\ q \in Int /\ CellSize * q <= n /\ n < CellSize * (q + 1)
    BY <1>1, <2>1
  <2> HIDE DEF q
  <2>3. CellSize * i <= n /\ n < CellSize * (i + 1)
    BY <1>1, <2>1
  <2> HIDE DEF n
  <2>4. ~(q < i)
    <3> SUFFICES ASSUME q + 1 <= i PROVE FALSE
      BY <2>2
    <3>1. CellSize * (q + 1) <= CellSize * i
      BY <1>1, <2>2
    <3> QED
      BY <1>1, <2>2, <2>3, <3>1
  <2>5. ~(i < q)
    <3> SUFFICES ASSUME i + 1 <= q PROVE FALSE
      BY <2>2
    <3>1. CellSize * (i + 1) <= CellSize * q
      BY <1>1, <2>2
    <3> QED
      BY <1>1, <2>2, <2>3, <3>1
  <2> QED
    BY <2>2, <2>4, <2>5 DEF n, q
<1>3. ASSUME NEW a \in Int, NEW i \in Nat
      PROVE  (a + i * CellSize + h) - a = i * CellSize + h
  <2>1. i * CellSize \in Int
    BY <1>1
  <2> QED
    BY <1>1, <2>1
<1>4. g.minX \in Int /\ g.minY \in Int /\ v[1] \in Nat /\ v[2] \in Nat
      /\ v = <<v[1], v[2]>>
  BY DEF GridShape
<1>5. CenterOf(g, v) = <<g.minX + v[1] * CellSize + h,
                         g.minY + v[2] * CellSize + h>>
  BY DEF CenterOf, h
<1>6. CellIndex(g, CenterOf(g, v)) =
        <<(v[1] * CellSize + h) \div CellSize,
          (v[2] * CellSize + h) \div CellSize>>
  BY <1>3, <1>4, <1>5 DEF CellIndex
<1> QED
  BY <1>2, <1>4, <1>6

(* The centre of a cell is a point. *)
LEMMA CentreIsPoint ==
  ASSUME NEW g, GridShape(g), NEW v \in Nat \X Nat
  PROVE  CenterOf(g, v) \in Pt
<1> DEFINE x == v[1] * CellSize  y == v[2] * CellSize  e == CellSize \div 2
<1>1. x \in Int /\ y \in Int /\ e \in Int /\ g.minX \in Int /\ g.minY \in Int
  BY Sizes DEF GridShape
<1>2. CenterOf(g, v) = <<g.minX + x + e, g.minY + y + e>>
  BY DEF CenterOf
<1> HIDE DEF x, y, e
<1> QED
  BY <1>1, <1>2 DEF Pt

(* SetCellFilled on a void cell, which is not void after it. *)
LEMMA FilledGrid ==
  ASSUME NEW g, GridShape(g), NEW v \in g.void, g.void \cap g.filled = {}
  PROVE  LET h == SetCellFilled(g, v)
         IN /\ GridShape(h) /\ h.void = g.void \ {v}
            /\ h.void \cap h.filled = {}
            /\ Cardinality(h.void) = Cardinality(g.void) - 1
            /\ Cardinality(h.filled) = Cardinality(g.filled) + 1
<1> DEFINE h == SetCellFilled(g, v)
<1>1. DOMAIN g = GridFields /\ v \in Cells(g)
  BY DEF GridShape
<1>2. IsFiniteSet(g.void) /\ IsFiniteSet(g.filled)
  BY FS_Subset DEF GridShape
<1>3. DOMAIN h = GridFields
  BY <1>1 DEF SetCellFilled
<1>4. /\ h.minX = g.minX /\ h.minY = g.minY /\ h.maxX = g.maxX
      /\ h.maxY = g.maxY
  BY <1>1 DEF SetCellFilled, GridFields
<1>5. h.void = g.void \ {v} /\ h.filled = g.filled \cup {v}
  BY <1>1 DEF SetCellFilled, GridFields
<1>6. /\ Cells(h) = Cells(g)
      /\ h.points \in [Cells(g) -> Seq(Int \X Int)]
  <2>1. CenterOf(g, v) \in Int \X Int
    BY <1>1, CentreIsPoint DEF Pt, GridShape
  <2>2. h.points = [g.points EXCEPT ![v] = Append(@, CenterOf(g, v))]
    BY <1>1 DEF SetCellFilled, GridFields
  <2>3. g.points \in [Cells(g) -> Seq(Int \X Int)]
    BY DEF GridShape
  <2> HIDE DEF h
  <2>4. h.points \in [Cells(g) -> Seq(Int \X Int)]
    BY <1>1, <2>1, <2>2, <2>3
  <2> QED
    BY <2>4 DEF Cells
<1> HIDE DEF h
<1>7. GridShape(h)
  BY <1>1, <1>3, <1>4, <1>5, <1>6 DEF GridShape
<1>8. /\ Cardinality(h.void) = Cardinality(g.void) - 1
      /\ Cardinality(h.filled) = Cardinality(g.filled) + 1
  BY <1>2, <1>5, FS_AddElement, FS_RemoveElement
<1>9. h.void \cap h.filled = {}
  BY <1>5
<1> QED
  BY <1>5, <1>7, <1>8, <1>9 DEF h

-----------------------------------------------------------------------------
(* Cell indices *)

(* The quotient and the remainder of a division, by its bounds. *)
LEMMA DivBounds ==
  ASSUME NEW n \in Int, NEW m \in Nat, m > 0
  PROVE  /\ n \div m \in Int /\ n % m \in 0 .. m - 1
         /\ m * (n \div m) <= n /\ n < m * (n \div m) + m
         /\ n = m * (n \div m) + (n % m)
<1> DEFINE q == n \div m  r == n % m
<1>1. q \in Int /\ m * q <= n /\ n < m * (q + 1)
  OBVIOUS
<1>2. r \in Int /\ 0 <= r /\ r < m
  OBVIOUS
<1>3. n = m * q + r
  OBVIOUS
<1> HIDE DEF q, r
<1>4. m * q \in Int /\ m * (q + 1) = m * q + m
  BY <1>1
<1>5. r \in 0 .. m - 1 /\ m * q <= n /\ n < m * q + m
  BY <1>1, <1>2, <1>4
<1> QED
  BY <1>1, <1>3, <1>5 DEF q, r

(* A quotient is found by its bounds. *)
LEMMA DivUnique ==
  ASSUME NEW n \in Int, NEW m \in Nat, m > 0, NEW i \in Int,
         m * i <= n, n < m * i + m
  PROVE  n \div m = i /\ n % m = n - m * i
<1> DEFINE q == n \div m
<1>1. q \in Int /\ m * q <= n /\ n < m * q + m /\ n = m * q + (n % m)
      /\ n % m \in Int
  BY DivBounds
<1> HIDE DEF q
<1>2. ~(q < i)
  <2> SUFFICES ASSUME q + 1 <= i PROVE FALSE
    BY <1>1
  <2>1. m * (q + 1) <= m * i /\ m * (q + 1) = m * q + m
    BY <1>1
  <2> QED
    BY <1>1, <2>1
<1>3. ~(i < q)
  <2> SUFFICES ASSUME i + 1 <= q PROVE FALSE
    BY <1>1
  <2>1. m * (i + 1) <= m * q /\ m * (i + 1) = m * i + m
    BY <1>1
  <2> QED
    BY <1>1, <2>1
<1>4. q = i
  BY <1>1, <1>2, <1>3
<1>5. m * i \in Int
  OBVIOUS
<1>6. n % m = n - m * i
  BY <1>1, <1>4, <1>5
<1> QED
  BY <1>4, <1>6 DEF q

(* A greater number has no smaller quotient. *)
LEMMA DivMonotonic ==
  ASSUME NEW a \in Int, NEW b \in Int, a <= b, NEW m \in Nat, m > 0
  PROVE  a \div m <= b \div m
<1> DEFINE q == a \div m  r == b \div m
<1>1. q \in Int /\ m * q <= a /\ a < m * q + m
  BY DivBounds
<1>2. r \in Int /\ m * r <= b /\ b < m * r + m
  BY DivBounds
<1> HIDE DEF q, r
<1>3. ~(r < q)
  <2> SUFFICES ASSUME r + 1 <= q PROVE FALSE
    BY <1>1, <1>2
  <2>1. m * (r + 1) <= m * q /\ m * (r + 1) = m * r + m
    BY <1>1, <1>2
  <2>2. m * q \in Int /\ m * r \in Int
    BY <1>1, <1>2
  <2> QED
    BY <1>1, <1>2, <2>1, <2>2
<1> QED
  BY <1>1, <1>2, <1>3 DEF q, r

(* A grid has a cell in each direction. *)
LEMMA ExtentPositive ==
  ASSUME NEW a \in Int, NEW b \in Int
  PROVE  Extent(a, b) \in Nat /\ Extent(a, b) >= 1
<1> DEFINE range == IF b - a <= 0 THEN CellSize ELSE b - a
           m == range + CellSize - 1
<1>1. CellSize \in Nat /\ CellSize > 0
  BY Sizes
<1>2. m \in Int /\ 0 <= m
  BY <1>1
<1>3. Extent(a, b) = m \div CellSize + 1
  BY DEF Extent
<1> HIDE DEF m
<1>4. 0 \div CellSize = 0
  BY <1>1, DivUnique
<1>5. 0 \div CellSize <= m \div CellSize /\ m \div CellSize \in Int
  BY <1>1, <1>2, DivMonotonic, DivBounds
<1> QED
  BY <1>3, <1>4, <1>5

(* A coordinate within the bounds has an index below the extent. *)
LEMMA IndexBelowExtent ==
  ASSUME NEW a \in Int, NEW b \in Int, NEW x \in Int, a <= x, x < b
  PROVE  (x - a) \div CellSize \in 0 .. Extent(a, b) - 1
<1>1. CellSize \in Nat /\ CellSize > 0
  BY Sizes
<1> DEFINE m == (b - a) + CellSize - 1
<1>2. Extent(a, b) = m \div CellSize + 1
  BY DEF Extent
<1>3. m \in Int /\ x - a \in Int /\ 0 <= x - a /\ x - a <= m
  BY <1>1
<1> HIDE DEF m
<1>4. 0 \div CellSize = 0
  BY <1>1, DivUnique
<1>5. 0 \div CellSize <= (x - a) \div CellSize
  BY <1>1, <1>3, DivMonotonic
<1>6. (x - a) \div CellSize <= m \div CellSize
  BY <1>1, <1>3, DivMonotonic
<1>7. (x - a) \div CellSize \in Int /\ m \div CellSize \in Int
  BY <1>1, <1>3, DivBounds
<1> QED
  BY <1>2, <1>4, <1>5, <1>6, <1>7

(* The second check of cellIndex, of the index, never fails. *)
LEMMA InsideHasCell ==
  ASSUME NEW g, GridShape(g), NEW p \in Int \X Int, Inside(g, p),
         Cells(g) = CellsFor(g.minX, g.minY, g.maxX, g.maxY)
  PROVE  CellIndex(g, p) \in Cells(g)
<1>1. g.minX \in Int /\ g.minY \in Int /\ g.maxX \in Int /\ g.maxY \in Int
      /\ p[1] \in Int /\ p[2] \in Int
  BY DEF GridShape
<1>2. (p[1] - g.minX) \div CellSize \in 0 .. Extent(g.minX, g.maxX) - 1
  BY <1>1, IndexBelowExtent DEF Inside
<1>3. (p[2] - g.minY) \div CellSize \in 0 .. Extent(g.minY, g.maxY) - 1
  BY <1>1, IndexBelowExtent DEF Inside
<1> QED
  BY <1>2, <1>3 DEF CellIndex, CellsFor

(* The loops of GetNeighbors pass over every index within the radius. *)
LEMMA AroundCovers ==
  ASSUME NEW c \in Int \X Int, NEW radius \in Nat
  PROVE  \E n \in Nat :
           /\ Around(c, radius) \in [1 .. n -> Int \X Int]
           /\ \A x \in c[1] - radius .. c[1] + radius :
                \A y \in c[2] - radius .. c[2] + radius :
                  \E m \in 1 .. n : Around(c, radius)[m] = <<x, y>>
<1> DEFINE side == 2 * radius + 1
           n == side * side
           A == [i \in 1 .. n |-> <<c[1] - radius + (i - 1) \div side,
                                    c[2] - radius + ((i - 1) % side)>>]
<1>1. side \in Nat /\ side > 0 /\ side = 2 * radius + 1
  OBVIOUS
<1>2. Around(c, radius) = A
  BY DEF Around
<1> HIDE DEF side
<1>3. n \in Nat
  BY <1>1
<1>4. A \in [1 .. n -> Int \X Int]
  <2>1. ASSUME NEW i \in 1 .. n
        PROVE  <<c[1] - radius + (i - 1) \div side,
                 c[2] - radius + ((i - 1) % side)>> \in Int \X Int
    <3>1. i - 1 \in Int
      BY <1>3
    <3>2. (i - 1) \div side \in Int /\ (i - 1) % side \in 0 .. side - 1
      BY <1>1, <3>1, DivBounds
    <3>3. c[1] \in Int /\ c[2] \in Int
      OBVIOUS
    <3> QED
      BY <1>1, <3>2, <3>3
  <2> QED
    BY <2>1
<1>5. ASSUME NEW x \in c[1] - radius .. c[1] + radius,
             NEW y \in c[2] - radius .. c[2] + radius
      PROVE  \E m \in 1 .. n : A[m] = <<x, y>>
  <2> DEFINE i == x - c[1] + radius  j == y - c[2] + radius
             k == side * i + j
  <2>1. /\ i \in Int /\ j \in Int /\ 0 <= i /\ i <= side - 1
        /\ 0 <= j /\ j <= side - 1 /\ c[1] \in Int /\ c[2] \in Int
        /\ x = c[1] - radius + i /\ y = c[2] - radius + j
    BY <1>1
  <2> HIDE DEF i, j
  <2>2. /\ side * i \in Int /\ 0 <= side * i
        /\ side * i <= side * (side - 1)
        /\ side * (side - 1) = n - side
    BY <1>1, <2>1
  <2>3. k \in Int /\ k + 1 \in 1 .. n /\ (k + 1) - 1 = k
    BY <1>1, <1>3, <2>1, <2>2
  <2>4. k \div side = i /\ k % side = k - side * i
    BY <1>1, <2>1, <2>2, <2>3, DivUnique
  <2>5. k % side = j
    BY <2>1, <2>2, <2>4
  <2> HIDE DEF k
  <2>6. A[k + 1] = <<x, y>>
    BY <2>1, <2>3, <2>4, <2>5
  <2> QED
    BY <2>3, <2>6
<1> HIDE DEF n, A
<1> QED
  BY <1>2, <1>3, <1>4, <1>5

-----------------------------------------------------------------------------
(* The points of a batch on the grid *)

(* The loop of GetNeighbors. *)
LEMMA NeighborsCollected ==
  ASSUME NEW g, NEW c, NEW radius, NEW n \in Nat,
         NEW A \in [1 .. n -> Int \X Int], Around(c, radius) = A,
         \A d \in Cells(g) : g.points[d] \in Seq(Int \X Int),
         NEW b \in Seq(Int \X Int),
         \A i \in 1 .. Len(b) :
           Inside(g, b[i]) => CellIndex(g, b[i]) \in Cells(g),
         \A d \in Cells(g) : Cardinality(Hits(g, b, d)) <= Len(g.points[d])
  PROVE  /\ GetNeighbors(g, c, radius) \in Seq(Int \X Int)
         /\ Cardinality({i \in 1 .. Len(b) : /\ Inside(g, b[i])
                           /\ \E m \in 1 .. n : CellIndex(g, b[i]) = A[m]})
              <= Len(GetNeighbors(g, c, radius))
<1> DEFINE PointsAt(d) == IF d \in Cells(g) THEN g.points[d] ELSE <<>>
           upTo[i \in 0 .. Len(A)] ==
             IF i = 0 THEN <<>> ELSE upTo[i - 1] \o PointsAt(A[i])
           P == Seq(Int \X Int)
           Got(j) == {i \in 1 .. Len(b) : /\ Inside(g, b[i])
                        /\ \E m \in 1 .. j : CellIndex(g, b[i]) = A[m]}
           X == [j \in 0 .. n |-> {s \in P : Cardinality(Got(j)) <= Len(s)}]
           step == [i \in 1 .. n |-> [x \in P |-> x \o PointsAt(A[i])]]
<1>1. Len(A) = n
  OBVIOUS
<1>2. GetNeighbors(g, c, radius) = upTo[Len(A)]
  BY DEF GetNeighbors
<1>3. upTo = CHOOSE f : f = [i \in 0 .. Len(A) |-> IF i = 0 THEN <<>>
                               ELSE f[i - 1] \o PointsAt(A[i])]
  BY DEF upTo
<1> HIDE DEF upTo
<1>4. \A d : PointsAt(d) \in P
  OBVIOUS
<1>5. \A d : IsFiniteSet(Hits(g, b, d))
             /\ Cardinality(Hits(g, b, d)) <= Len(PointsAt(d))
  <2> SUFFICES ASSUME NEW d
               PROVE  IsFiniteSet(Hits(g, b, d))
                      /\ Cardinality(Hits(g, b, d)) <= Len(PointsAt(d))
    OBVIOUS
  <2>1. IsFiniteSet(1 .. Len(b))
    BY FS_Interval
  <2>2. Hits(g, b, d) \subseteq 1 .. Len(b)
    BY DEF Hits
  <2>3. IsFiniteSet(Hits(g, b, d))
    BY <2>1, <2>2, FS_Subset
  <2>4. CASE d \in Cells(g)
    BY <2>3, <2>4
  <2>5. CASE d \notin Cells(g)
    <3>1. Hits(g, b, d) = {}
      BY <2>5 DEF Hits
    <3> QED
      BY <2>3, <2>5, <3>1, FS_EmptySet
  <2> QED
    BY <2>4, <2>5
<1> HIDE DEF PointsAt
<1>6. <<>> \in X[0]
  <2>1. Got(0) = {}
    OBVIOUS
  <2>2. Cardinality(Got(0)) = 0
    BY <2>1, FS_EmptySet
  <2> HIDE DEF Got
  <2> QED
    BY <2>2
<1>7. ASSUME NEW j \in 1 .. n, NEW x \in X[j - 1]
      PROVE  x \in P /\ x \o PointsAt(A[j]) \in X[j]
  <2> DEFINE H == Hits(g, b, A[j])
  <2>1. Got(j) = Got(j - 1) \cup H
    <3>1. \A m \in 1 .. j : m = j \/ m \in 1 .. j - 1
      OBVIOUS
    <3>2. j \in 1 .. j /\ \A m \in 1 .. j - 1 : m \in 1 .. j
      OBVIOUS
    <3> QED
      BY <3>1, <3>2 DEF Hits
  <2>2. IsFiniteSet(1 .. Len(b))
    BY FS_Interval
  <2>3. IsFiniteSet(Got(j - 1)) /\ IsFiniteSet(H)
    <3>1. Got(j - 1) \subseteq 1 .. Len(b)
      OBVIOUS
    <3> HIDE DEF Got
    <3> QED
      BY <1>5, <2>2, <3>1, FS_Subset
  <2>4. x \in P /\ Cardinality(Got(j - 1)) <= Len(x)
    <3>1. j - 1 \in 0 .. n
      OBVIOUS
    <3> HIDE DEF Got
    <3> QED
      BY <3>1
  <2> HIDE DEF Got, X
  <2>5. Cardinality(Got(j)) <= Cardinality(Got(j - 1)) + Cardinality(H)
    <3>1. Cardinality(Got(j)) = Cardinality(Got(j - 1)) + Cardinality(H)
                                - Cardinality(Got(j - 1) \cap H)
      BY <2>1, <2>3, FS_Union
    <3>2. IsFiniteSet(Got(j - 1) \cap H)
      BY <2>3, FS_Intersection
    <3>3. Cardinality(Got(j - 1) \cap H) \in Nat
      BY <3>2, FS_CardinalityType
    <3>4. Cardinality(Got(j - 1)) \in Nat /\ Cardinality(H) \in Nat
      BY <2>3, FS_CardinalityType
    <3> QED
      BY <3>1, <3>3, <3>4
  <2>6. Cardinality(H) <= Len(PointsAt(A[j])) /\ PointsAt(A[j]) \in P
    BY <1>4, <1>5
  <2>7. /\ x \o PointsAt(A[j]) \in P
        /\ Len(x \o PointsAt(A[j])) = Len(x) + Len(PointsAt(A[j]))
    BY <2>4, <2>6
  <2>8. /\ Cardinality(Got(j)) \in Nat /\ Cardinality(Got(j - 1)) \in Nat
        /\ Cardinality(H) \in Nat
    <3>1. IsFiniteSet(Got(j - 1) \cup H)
      BY <2>3, FS_Union
    <3> HIDE DEF H
    <3>2. \A S : IsFiniteSet(S) => Cardinality(S) \in Nat
      BY FS_CardinalityType
    <3> QED
      BY <2>1, <2>3, <3>1, <3>2
  <2>9. Len(x) \in Nat /\ Len(PointsAt(A[j])) \in Nat
    BY <2>4, <2>6
  <2>10. Cardinality(Got(j)) <= Len(x \o PointsAt(A[j]))
    <3> HIDE DEF H
    <3> QED
      BY <2>4, <2>5, <2>6, <2>7, <2>8, <2>9
  <2>11. j \in 0 .. n
    OBVIOUS
  <2> QED
    BY <2>4, <2>7, <2>10, <2>11 DEF X
<1> HIDE DEF X
<1>8. Stepwise(X, step, 0, n)
  <2> SUFFICES ASSUME NEW j \in 0 + 1 .. n, NEW x \in X[j - 1]
               PROVE  step[j][x] \in X[j]
    BY DEF Stepwise
  <2>1. j \in 1 .. n
    OBVIOUS
  <2>2. x \in P /\ x \o PointsAt(A[j]) \in X[j]
    BY <1>7, <2>1
  <2> HIDE DEF P
  <2> QED
    BY <2>1, <2>2
<1>9. PICK f : RunOf(f, <<>>, step, 0, n) /\ Within(f, X, 0, n)
  <2> HIDE DEF step
  <2>1. 0 <= n /\ 0 \in Int /\ n \in Int
    OBVIOUS
  <2> QED
    BY <1>6, <1>8, <2>1, LoopRuns
<1>10. f = [i \in 0 .. n |-> IF i = 0 THEN <<>>
                              ELSE f[i - 1] \o PointsAt(A[i])]
  <2>1. ASSUME NEW i \in 0 .. n, i # 0
        PROVE  step[i][f[i - 1]] = f[i - 1] \o PointsAt(A[i])
    <3>1. i \in 1 .. n /\ i - 1 \in 0 .. n
      BY <2>1
    <3>2. f[i - 1] \in P
      BY <1>7, <1>9, <3>1 DEF Within
    <3> HIDE DEF P
    <3> QED
      BY <3>1, <3>2
  <2> HIDE DEF step
  <2> QED
    BY <1>9, <2>1 DEF RunOf
<1>11. upTo = [i \in 0 .. n |-> IF i = 0 THEN <<>>
                                ELSE upTo[i - 1] \o PointsAt(A[i])]
  BY <1>1, <1>3, <1>10
<1>12. Within(upTo, X, 0, n)
  <2>1. upTo[0] \in X[0]
    BY <1>6, <1>11
  <2>2. Kept(upTo, X, 0, n)
    <3> SUFFICES ASSUME NEW i \in 0 + 1 .. n, upTo[i - 1] \in X[i - 1]
                 PROVE  upTo[i] \in X[i]
      BY DEF Kept
    <3>1. i \in 1 .. n /\ i \in 0 .. n /\ i # 0
      OBVIOUS
    <3>2. upTo[i] = upTo[i - 1] \o PointsAt(A[i])
      BY <1>11, <3>1
    <3> QED
      BY <1>7, <3>1, <3>2
  <2>3. 0 \in Int /\ n \in Int
    OBVIOUS
  <2> QED
    BY <2>1, <2>2, <2>3, LoopKeeps
<1>13. upTo[n] \in X[n]
  BY <1>12 DEF Within
<1>14. X[n] = {s \in P : Cardinality(Got(n)) <= Len(s)}
  BY DEF X
<1> QED
  BY <1>1, <1>2, <1>13, <1>14

(* A grid that NewSpatialGrid has laid out. *)
Laid(g) ==
  Cells(g) = CellsFor(g.minX, g.minY, g.maxX, g.maxY) /\ Cells(g) # {}

GridLaid(g) == g = NoGrid \/ Laid(g)

(* The batch lies within the bounds of the grid, the upper ones included. *)
Fits(g, b) ==
  /\ Laid(g) /\ b \in Batch
  /\ \A i \in 1 .. Len(b) :
       /\ g.minX <= b[i][1] /\ b[i][1] <= g.maxX
       /\ g.minY <= b[i][2] /\ b[i][2] <= g.maxY

(* A grid without points. *)
Empty(g) == g.filled = {} /\ \A d \in Cells(g) : g.points[d] = <<>>

(* The cells with data are those with points of the batch and the filled   *)
(* ones; each cell has at least its points of the batch.                   *)
Measured(g, b) ==
  /\ g.void = Cells(g) \ DataCells(g)
  /\ \A d \in Cells(g) :
       HasData(g, d) <=> d \in g.filled \/ Hits(g, b, d) # {}
  /\ \A d \in g.filled : Hits(g, b, d) = {}
  /\ \A d \in Cells(g) : Cardinality(Hits(g, b, d)) <= Len(g.points[d])

(* h has the cells of g. *)
SameCells(g, h) ==
  /\ h.minX = g.minX /\ h.minY = g.minY /\ h.maxX = g.maxX /\ h.maxY = g.maxY
  /\ Cells(h) = Cells(g)

(* Points lie in the same cells of both. *)
LEMMA SameCellsSame ==
  ASSUME NEW g, NEW h, SameCells(g, h)
  PROVE  /\ Laid(g) => Laid(h)
         /\ \A b : Fits(g, b) => Fits(h, b)
         /\ \A b, d : Hits(h, b, d) = Hits(g, b, d)
         /\ \A b, v : NearTo(h, b, v) = NearTo(g, b, v)
<1>1. Laid(g) => Laid(h)
  BY DEF SameCells, Laid
<1>2. \A b : Fits(g, b) => Fits(h, b)
  BY <1>1 DEF SameCells, Fits
<1>3. \A p : Inside(h, p) <=> Inside(g, p)
  BY DEF SameCells, Inside
<1>4. \A p : CellIndex(h, p) = CellIndex(g, p)
  BY DEF SameCells, CellIndex
<1>5. \A b, d : Hits(h, b, d) = Hits(g, b, d)
  BY <1>3, <1>4 DEF Hits
<1>6. \A b, v : NearTo(h, b, v) = NearTo(g, b, v)
  BY <1>3, <1>4 DEF NearTo
<1> QED
  BY <1>1, <1>2, <1>5, <1>6

LEMMA HitsFinite ==
  ASSUME NEW g, NEW b \in Seq(Int \X Int), NEW d
  PROVE  /\ IsFiniteSet(Hits(g, b, d)) /\ Cardinality(Hits(g, b, d)) \in Nat
         /\ Cardinality(Hits(g, b, d)) = 0 <=> Hits(g, b, d) = {}
<1>1. IsFiniteSet(1 .. Len(b))
  BY FS_Interval
<1>2. Hits(g, b, d) \subseteq 1 .. Len(b)
  BY DEF Hits
<1>3. IsFiniteSet(Hits(g, b, d))
  BY <1>1, <1>2, FS_Subset
<1>4. Cardinality(Hits(g, b, d)) \in Nat
  BY <1>3, FS_CardinalityType
<1> QED
  BY <1>3, <1>4, FS_EmptySet

(* AddPoints and ComputeStatistics on an empty grid. *)
LEMMA MeasuredData ==
  ASSUME NEW g, GridShape(g), Laid(g), Empty(g),
         NEW b \in Seq(Int \X Int)
  PROVE  LET h == ComputeStatistics(AddPoints(g, b))
         IN SameCells(g, h) /\ GridLaid(h) /\ Measured(h, b)
<1> DEFINE a == AddPoints(g, b)
           h == ComputeStatistics(a)
           C == Cells(g)
<1>1. DOMAIN g = GridFields
  BY DEF GridShape
<1>2. DOMAIN a = GridFields
  BY <1>1 DEF AddPoints
<1>3. /\ a.minX = g.minX /\ a.minY = g.minY /\ a.maxX = g.maxX
      /\ a.maxY = g.maxY /\ a.filled = g.filled
  BY <1>1 DEF AddPoints, GridFields
<1>4. g.points \in [C -> Seq(Int \X Int)] /\ \A d \in C : g.points[d] = <<>>
  BY DEF GridShape, Empty
<1>5. /\ a.points \in [C -> Seq(Int \X Int)]
      /\ \A d \in C : Len(a.points[d]) = Cardinality(Hits(g, b, d))
  <2>1. /\ a.points \in [C -> Seq(Int \X Int)]
        /\ \A d \in C : Len(a.points[d]) =
                          Len(g.points[d]) + Cardinality(Hits(g, b, d))
    BY <1>1, <1>4, PointsAdded
  <2>2. \A d \in C : Len(g.points[d]) = 0
    BY <1>4
  <2>3. \A d \in C : Cardinality(Hits(g, b, d)) \in Nat
    BY HitsFinite
  <2>4. ASSUME NEW d \in C
        PROVE  Len(a.points[d]) = Cardinality(Hits(g, b, d))
    <3>1. /\ Len(a.points[d]) = Len(g.points[d]) + Cardinality(Hits(g, b, d))
          /\ Len(g.points[d]) = 0 /\ Cardinality(Hits(g, b, d)) \in Nat
      BY <2>1, <2>2, <2>3
    <3> DEFINE m == Cardinality(Hits(g, b, d))
    <3> HIDE DEF a, h, C, m
    <3> QED
      BY <3>1 DEF m
  <2> QED
    BY <2>1, <2>4
<1> HIDE DEF a
<1>6. /\ h.minX = a.minX /\ h.minY = a.minY /\ h.maxX = a.maxX
      /\ h.maxY = a.maxY /\ h.filled = a.filled /\ h.points = a.points
  BY <1>2 DEF ComputeStatistics, GridFields
<1>7. h.void = Cells(a) \ DataCells(a)
  BY <1>2 DEF ComputeStatistics, GridFields
<1> HIDE DEF h
<1>8. Cells(h) = C /\ Cells(a) = C
  <2> HIDE DEF C
  <2> QED
    BY <1>5, <1>6 DEF Cells
<1>9. SameCells(g, h)
  BY <1>3, <1>6, <1>8 DEF SameCells
<1>10. Laid(h) /\ \A d : Hits(h, b, d) = Hits(g, b, d)
  BY <1>9, SameCellsSame
<1>11. h.filled = {}
  BY <1>3, <1>6 DEF Empty
<1>12. DataCells(h) = DataCells(a)
  BY <1>6, <1>8 DEF DataCells, HasData
<1> HIDE DEF C
<1>13. ASSUME NEW d \in C
       PROVE  /\ HasData(h, d) <=> Hits(h, b, d) # {}
              /\ Cardinality(Hits(h, b, d)) <= Len(h.points[d])
  <2>1. h.points[d] \in Seq(Int \X Int)
    BY <1>5, <1>6
  <2>2. Len(h.points[d]) = Cardinality(Hits(h, b, d))
    BY <1>5, <1>6, <1>10
  <2>3. /\ Cardinality(Hits(h, b, d)) \in Nat
        /\ Cardinality(Hits(h, b, d)) = 0 <=> Hits(h, b, d) = {}
    BY HitsFinite
  <2>4. h.points[d] = <<>> <=> Len(h.points[d]) = 0
    BY <2>1
  <2> QED
    BY <2>2, <2>3, <2>4 DEF HasData
<1>14. Measured(h, b)
  BY <1>7, <1>8, <1>11, <1>12, <1>13 DEF Measured
<1>15. GridLaid(h)
  BY <1>5, <1>6, <1>8, <1>10 DEF GridLaid
<1> QED
  BY <1>9, <1>14, <1>15 DEF h, a

(* SetCellFilled on a void cell. *)
LEMMA FilledData ==
  ASSUME NEW g, GridShape(g), Laid(g), NEW v \in g.void,
         NEW b \in Seq(Int \X Int), Measured(g, b)
  PROVE  LET h == SetCellFilled(g, v)
         IN SameCells(g, h) /\ GridLaid(h) /\ Measured(h, b)
<1> DEFINE h == SetCellFilled(g, v)
           C == Cells(g)
           P == Seq(Int \X Int)
           p == CenterOf(g, v)
<1>1. DOMAIN g = GridFields /\ v \in C /\ v \in Nat \X Nat
      /\ g.void \subseteq C /\ g.filled \subseteq C
  BY DEF GridShape
<1>2. p \in Int \X Int
  BY <1>1, CentreIsPoint DEF Pt
<1> HIDE DEF p
<1>3. /\ h.minX = g.minX /\ h.minY = g.minY /\ h.maxX = g.maxX
      /\ h.maxY = g.maxY
  BY <1>1 DEF SetCellFilled, GridFields
<1>4. h.void = g.void \ {v} /\ h.filled = g.filled \cup {v}
  BY <1>1 DEF SetCellFilled, GridFields
<1>5. h.points = [g.points EXCEPT ![v] = Append(g.points[v], p)]
  BY <1>1 DEF SetCellFilled, GridFields, p
<1> HIDE DEF h
<1>6. g.points \in [C -> P]
  BY DEF GridShape
<1>7. \A s \in P : Append(s, p) \in P /\ Len(Append(s, p)) = Len(s) + 1
                   /\ Append(s, p) # <<>> /\ Len(s) \in Nat
  <2> SUFFICES ASSUME NEW s \in P
               PROVE  Append(s, p) \in P /\ Len(Append(s, p)) = Len(s) + 1
                      /\ Append(s, p) # <<>> /\ Len(s) \in Nat
    OBVIOUS
  <2>1. Append(s, p) \in P /\ Len(Append(s, p)) = Len(s) + 1 /\ Len(s) \in Nat
    BY <1>2
  <2>2. Append(s, p) # <<>>
    <3> SUFFICES ASSUME Append(s, p) = <<>> PROVE FALSE
      OBVIOUS
    <3>1. Len(Append(s, p)) = 0
      OBVIOUS
    <3> QED
      BY <2>1, <3>1
  <2> QED
    BY <2>1, <2>2
<1> HIDE DEF C, P
<1>8. /\ h.points \in [C -> P] /\ h.points[v] = Append(g.points[v], p)
      /\ \A d \in C : d # v => h.points[d] = g.points[d]
      /\ \A d \in C : g.points[d] \in P
  BY <1>1, <1>5, <1>6, <1>7
<1>9. Cells(h) = C
  BY <1>8 DEF Cells
<1>10. SameCells(g, h)
  BY <1>3, <1>9 DEF SameCells, C
<1>11. Laid(h) /\ \A d : Hits(h, b, d) = Hits(g, b, d)
  BY <1>10, SameCellsSame
<1>12. ~HasData(g, v) /\ v \notin g.filled
  <2>1. v \notin DataCells(g)
    BY DEF Measured
  <2>2. ~HasData(g, v)
    BY <1>1, <2>1 DEF DataCells, C
  <2> QED
    BY <1>1, <2>2 DEF Measured, C
<1>13. \A d \in C : HasData(h, d) <=> d = v \/ HasData(g, d)
  BY <1>1, <1>7, <1>8 DEF HasData
<1>14. \A d \in C : Cardinality(Hits(h, b, d)) <= Len(h.points[d])
  <2> SUFFICES ASSUME NEW d \in C
               PROVE  Cardinality(Hits(h, b, d)) <= Len(h.points[d])
    OBVIOUS
  <2>1. Cardinality(Hits(h, b, d)) <= Len(g.points[d])
    BY <1>11 DEF Measured, C
  <2>2. Len(g.points[d]) \in Nat /\ Len(g.points[d]) <= Len(h.points[d])
        /\ Len(h.points[d]) \in Nat
    <3>1. g.points[d] \in P /\ Len(g.points[d]) \in Nat
      BY <1>7, <1>8
    <3>2. CASE d = v
      <4>1. Len(h.points[d]) = Len(g.points[d]) + 1
        BY <1>7, <1>8, <3>1, <3>2
      <4> QED
        BY <3>1, <4>1
    <3>3. CASE d # v
      BY <1>8, <3>1, <3>3
    <3> QED
      BY <3>2, <3>3
  <2>3. Cardinality(Hits(h, b, d)) \in Nat
    BY HitsFinite
  <2> QED
    BY <2>1, <2>2, <2>3
<1>15. Hits(g, b, v) = {}
  BY <1>1, <1>12 DEF Measured, C
<1>16. Measured(h, b)
  <2>1. h.void = Cells(h) \ DataCells(h)
    BY <1>1, <1>4, <1>9, <1>13 DEF Measured, DataCells, C
  <2>2. \A d \in C : HasData(h, d) <=> d \in h.filled \/ Hits(h, b, d) # {}
    BY <1>4, <1>11, <1>13, <1>15 DEF Measured, C
  <2>3. \A d \in h.filled : Hits(h, b, d) = {}
    BY <1>4, <1>11, <1>15 DEF Measured
  <2> QED
    BY <1>9, <1>14, <2>1, <2>2, <2>3 DEF Measured
<1>17. GridLaid(h)
  BY <1>8, <1>9, <1>11 DEF GridLaid, P
<1> QED
  BY <1>10, <1>16, <1>17 DEF h

(* GetNeighbors finds at least the points of the batch within the radius.  *)
LEMMA NeighborsEnough ==
  ASSUME NEW g, GridShape(g), Laid(g),
         NEW b \in Seq(Int \X Int), Measured(g, b), NEW v \in Cells(g)
  PROVE  LET near == GetNeighbors(g, v, SearchRadius)
         IN /\ near \in Seq(Pt)
            /\ Cardinality(NearTo(g, b, v)) \in Nat
            /\ Cardinality(NearTo(g, b, v)) <= Len(near)
<1>1. v \in Int \X Int /\ SearchRadius \in Nat
  BY Sizes DEF GridShape
<1>2. PICK n \in Nat :
        /\ Around(v, SearchRadius) \in [1 .. n -> Int \X Int]
        /\ \A x \in v[1] - SearchRadius .. v[1] + SearchRadius :
             \A y \in v[2] - SearchRadius .. v[2] + SearchRadius :
               \E m \in 1 .. n : Around(v, SearchRadius)[m] = <<x, y>>
  BY <1>1, AroundCovers
<1> DEFINE A == Around(v, SearchRadius)
           near == GetNeighbors(g, v, SearchRadius)
           S == {i \in 1 .. Len(b) : /\ Inside(g, b[i])
                   /\ \E m \in 1 .. n : CellIndex(g, b[i]) = A[m]}
<1>3. \A d \in Cells(g) : g.points[d] \in Seq(Int \X Int)
  BY DEF GridShape
<1>4. \A i \in 1 .. Len(b) : b[i] \in Int \X Int
  OBVIOUS
<1>5. \A i \in 1 .. Len(b) : Inside(g, b[i]) => CellIndex(g, b[i]) \in Cells(g)
  BY <1>4, InsideHasCell DEF Laid
<1>6. \A d \in Cells(g) : Cardinality(Hits(g, b, d)) <= Len(g.points[d])
  BY DEF Measured
<1>7. near \in Seq(Int \X Int) /\ Cardinality(S) <= Len(near)
  BY <1>2, <1>3, <1>5, <1>6, NeighborsCollected
<1>8. NearTo(g, b, v) \subseteq S
  <2> SUFFICES ASSUME NEW i \in NearTo(g, b, v)
               PROVE  i \in S
    OBVIOUS
  <2> DEFINE d == CellIndex(g, b[i])
  <2>1. /\ i \in 1 .. Len(b) /\ Inside(g, b[i])
        /\ d[1] \in v[1] - SearchRadius .. v[1] + SearchRadius
        /\ d[2] \in v[2] - SearchRadius .. v[2] + SearchRadius
    BY DEF NearTo
  <2>2. d = <<d[1], d[2]>>
    BY DEF CellIndex
  <2> HIDE DEF d, A
  <2>3. PICK m \in 1 .. n : A[m] = <<d[1], d[2]>>
    BY <1>2, <2>1 DEF A
  <2>4. d = A[m]
    BY <2>2, <2>3
  <2> QED
    BY <2>1, <2>4 DEF d
<1>9. IsFiniteSet(1 .. Len(b))
  BY FS_Interval
<1>10. IsFiniteSet(S)
  <2>1. S \subseteq 1 .. Len(b)
    OBVIOUS
  <2> HIDE DEF S
  <2> QED
    BY <1>9, <2>1, FS_Subset
<1> HIDE DEF S, near
<1>11. IsFiniteSet(NearTo(g, b, v))
       /\ Cardinality(NearTo(g, b, v)) <= Cardinality(S)
  BY <1>8, <1>10, FS_Subset
<1>12. Cardinality(NearTo(g, b, v)) \in Nat /\ Cardinality(S) \in Nat
  BY <1>10, <1>11, FS_CardinalityType
<1>13. Len(near) \in Nat
  BY <1>7
<1> QED
  BY <1>7, <1>11, <1>12, <1>13 DEF near, Pt

(* The bounds that ProcessAndFill finds hold for every point. *)
LEMMA BoundsHold ==
  ASSUME NEW n \in Nat, n > 0, NEW s \in [1 .. n -> Int]
  PROVE  LET S == {s[i] : i \in 1 .. n}
         IN \A i \in 1 .. n : Min(S) <= s[i] /\ s[i] <= Max(S)
<1> DEFINE S == {s[i] : i \in 1 .. n}
<1>1. \A y \in S : Min(S) <= y
  <2>1. PICK m \in 1 .. n : \A i \in 1 .. n : s[m] <= s[i]
    BY LeastInSeq
  <2>2. s[m] \in S /\ \A y \in S : s[m] <= y
    BY <2>1
  <2> HIDE DEF S
  <2> QED
    BY <2>2 DEF Min
<1>2. \A y \in S : Max(S) >= y
  <2> DEFINE t == [i \in 1 .. n |-> 0 - s[i]]
  <2>1. t \in [1 .. n -> Int]
    OBVIOUS
  <2>2. \A i \in 1 .. n : t[i] = 0 - s[i] /\ s[i] \in Int
    OBVIOUS
  <2> HIDE DEF t
  <2>3. PICK m \in 1 .. n : \A i \in 1 .. n : t[m] <= t[i]
    BY <2>1, LeastInSeq
  <2>4. \A i \in 1 .. n : s[m] >= s[i]
    BY <2>2, <2>3
  <2>5. s[m] \in S /\ \A y \in S : s[m] >= y
    BY <2>4
  <2> HIDE DEF S
  <2> QED
    BY <2>5 DEF Max
<1>3. Min(S) \in Int /\ Max(S) \in Int
  BY Bounds
<1>4. \A i \in 1 .. n : s[i] \in S /\ s[i] \in Int
  OBVIOUS
<1> HIDE DEF S
<1>5. \A i \in 1 .. n : Min(S) <= s[i] /\ s[i] <= Max(S)
  BY <1>1, <1>2, <1>3, <1>4
<1> QED
  BY <1>5 DEF S

(* NewSpatialGrid lays out the cells for its bounds and leaves them empty. *)
LEMMA NewData ==
  ASSUME NEW a \in Int, NEW b \in Int, NEW c \in Int, NEW d \in Int
  PROVE  LET g == NewSpatialGrid(a, b, c, d)
         IN /\ GridLaid(g) /\ Laid(g) /\ Empty(g)
            /\ g.minX = a /\ g.minY = b /\ g.maxX = c /\ g.maxY = d
<1> DEFINE g == NewSpatialGrid(a, b, c, d)
           C == CellsFor(a, b, c, d)
<1>1. /\ g.minX = a /\ g.minY = b /\ g.maxX = c /\ g.maxY = d
      /\ g.filled = {} /\ g.points = [x \in C |-> <<>>]
  BY DEF NewSpatialGrid
<1>2. <<0, 0>> \in C
  <2>1. 0 \in 0 .. Extent(a, c) - 1 /\ 0 \in 0 .. Extent(b, d) - 1
    BY ExtentPositive
  <2> QED
    BY <2>1 DEF CellsFor
<1> HIDE DEF g, C
<1>3. Cells(g) = C
  BY <1>1 DEF Cells
<1>4. Laid(g)
  BY <1>1, <1>2, <1>3 DEF Laid, C
<1>5. g.points \in [C -> Seq(Int \X Int)] /\ \A x \in C : g.points[x] = <<>>
  BY <1>1
<1> QED
  BY <1>1, <1>3, <1>4, <1>5 DEF GridLaid, Empty, g

(* Reset empties the cells and leaves them where they are. *)
LEMMA ResetData ==
  ASSUME NEW g, GridShape(g), Laid(g)
  PROVE  SameCells(g, Reset(g)) /\ GridLaid(Reset(g)) /\ Empty(Reset(g))
<1> DEFINE r == Reset(g)
<1>1. DOMAIN g = GridFields
  BY DEF GridShape
<1>2. /\ r.minX = g.minX /\ r.minY = g.minY /\ r.maxX = g.maxX
      /\ r.maxY = g.maxY
  BY <1>1 DEF Reset, GridFields
<1>3. r.points = [c \in Cells(g) |-> <<>>] /\ r.filled = {}
  BY <1>1 DEF Reset, GridFields
<1> HIDE DEF r
<1>4. Cells(r) = Cells(g)
  BY <1>3 DEF Cells
<1>5. SameCells(g, r)
  BY <1>2, <1>4 DEF SameCells
<1>6. Laid(r)
  BY <1>5, SameCellsSame
<1>7. /\ r.points \in [Cells(r) -> Seq(Int \X Int)]
      /\ \A c \in Cells(r) : r.points[c] = <<>>
  BY <1>3, <1>4
<1> QED
  BY <1>3, <1>5, <1>6, <1>7 DEF GridLaid, Empty, r

(* outOfBounds leaves only grids that hold the batch. *)
LEMMA GridForData ==
  ASSUME GridShape(grid), GridLaid(grid), NEW points \in Batch
  PROVE  LET g == GridFor(points)
         IN GridLaid(g) /\ Empty(g) /\ Fits(g, points)
<1>1. points \in Seq(Int \X Int) /\ points # <<>>
  BY Sizes
<1> DEFINE n == Len(points)
           xs == [i \in 1 .. n |-> points[i][1]]
           ys == [i \in 1 .. n |-> points[i][2]]
<1>2. n \in Nat /\ n > 0 /\ \A i \in 1 .. n : points[i] \in Int \X Int
  BY <1>1
<1>3. /\ xs \in [1 .. n -> Int] /\ ys \in [1 .. n -> Int]
      /\ \A i \in 1 .. n : xs[i] = points[i][1] /\ ys[i] = points[i][2]
  BY <1>2
<1>4. /\ Xs(points) = {xs[i] : i \in 1 .. n}
      /\ Ys(points) = {ys[i] : i \in 1 .. n}
  <2>1. ToSet(points) = {points[i] : i \in 1 .. n}
    BY <1>1 DEF ToSet
  <2> QED
    BY <2>1 DEF Xs, Ys
<1> DEFINE x0 == Min(Xs(points))  x1 == Max(Xs(points))
           y0 == Min(Ys(points))  y1 == Max(Ys(points))
<1> HIDE DEF xs, ys
<1>5. x0 \in Int /\ x1 \in Int /\ y0 \in Int /\ y1 \in Int
  <2> HIDE DEF n
  <2> QED
    BY <1>2, <1>3, <1>4, Bounds
<1>6. ASSUME NEW i \in 1 .. n
      PROVE  /\ x0 <= points[i][1] /\ points[i][1] <= x1
             /\ y0 <= points[i][2] /\ points[i][2] <= y1
             /\ points[i][1] \in Int /\ points[i][2] \in Int
  <2> HIDE DEF n
  <2>1. x0 <= xs[i] /\ xs[i] <= x1
    BY <1>2, <1>3, <1>4, BoundsHold
  <2>2. y0 <= ys[i] /\ ys[i] <= y1
    BY <1>2, <1>3, <1>4, BoundsHold
  <2> QED
    BY <1>3, <2>1, <2>2
<1>7. Padding \in Int /\ Padding >= 0
  <2>1. CellSize \in Nat /\ SearchRadius + 1 \in Nat
    BY Sizes
  <2> QED
    BY <2>1 DEF Padding
<1>8. CASE OutOfBounds(grid, points)
  <2> DEFINE a == x0 - Padding  b == y0 - Padding
             c == x1 + Padding  d == y1 + Padding
             g == NewSpatialGrid(a, b, c, d)
  <2>1. a \in Int /\ b \in Int /\ c \in Int /\ d \in Int
        /\ a <= x0 /\ b <= y0 /\ x1 <= c /\ y1 <= d
    BY <1>5, <1>7
  <2>2. GridFor(points) = g
    BY <1>8 DEF GridFor
  <2> HIDE DEF a, b, c, d
  <2>3. /\ GridLaid(g) /\ Laid(g) /\ Empty(g)
        /\ g.minX = a /\ g.minY = b /\ g.maxX = c /\ g.maxY = d
    BY <2>1, NewData
  <2> HIDE DEF g, x0, x1, y0, y1
  <2>4. \A i \in 1 .. n :
          /\ g.minX <= points[i][1] /\ points[i][1] <= g.maxX
          /\ g.minY <= points[i][2] /\ points[i][2] <= g.maxY
    BY <1>5, <1>6, <2>1, <2>3
  <2>5. Fits(g, points)
    BY <2>3, <2>4 DEF Fits
  <2> QED
    BY <2>2, <2>3, <2>5
<1>9. CASE ~OutOfBounds(grid, points)
  <2>1. GridFor(points) = Reset(grid)
    BY <1>9 DEF GridFor
  <2>2. /\ ~(x0 < grid.minX) /\ ~(y0 < grid.minY)
        /\ ~(x1 > grid.maxX) /\ ~(y1 > grid.maxY)
    BY <1>9 DEF OutOfBounds
  <2> HIDE DEF x0, x1, y0, y1
  <2>3. /\ grid.minX \in Int /\ grid.minY \in Int
        /\ grid.maxX \in Int /\ grid.maxY \in Int
    BY DEF GridShape
  <2>4. grid # NoGrid
    <3> SUFFICES ASSUME grid = NoGrid PROVE FALSE
      OBVIOUS
    <3>1. grid.minX = 0 /\ grid.maxX = -1
      BY DEF NoGrid
    <3>2. 1 \in 1 .. n
      BY <1>2
    <3>3. x0 <= x1
      BY <1>5, <1>6, <3>2
    <3> QED
      BY <1>5, <2>2, <3>1, <3>3
  <2>5. Laid(grid)
    BY <2>4 DEF GridLaid
  <2>6. /\ SameCells(grid, Reset(grid)) /\ GridLaid(Reset(grid))
        /\ Empty(Reset(grid))
    BY <2>5, ResetData
  <2>7. \A i \in 1 .. n :
          /\ grid.minX <= points[i][1] /\ points[i][1] <= grid.maxX
          /\ grid.minY <= points[i][2] /\ points[i][2] <= grid.maxY
    <3> SUFFICES ASSUME NEW i \in 1 .. n
                 PROVE  /\ grid.minX <= points[i][1]
                        /\ points[i][1] <= grid.maxX
                        /\ grid.minY <= points[i][2]
                        /\ points[i][2] <= grid.maxY
      OBVIOUS
    <3>1. /\ x0 <= points[i][1] /\ points[i][1] <= x1
          /\ y0 <= points[i][2] /\ points[i][2] <= y1
          /\ points[i][1] \in Int /\ points[i][2] \in Int
      BY <1>6
    <3>2. grid.minX <= points[i][1] /\ points[i][1] <= grid.maxX
      BY <1>5, <2>2, <2>3, <3>1
    <3>3. grid.minY <= points[i][2] /\ points[i][2] <= grid.maxY
      BY <1>5, <2>2, <2>3, <3>1
    <3> QED
      BY <3>2, <3>3
  <2>8. Fits(grid, points)
    BY <2>5, <2>7 DEF Fits
  <2>9. Fits(Reset(grid), points)
    BY <2>6, <2>8, SameCellsSame
  <2> QED
    BY <2>1, <2>6, <2>9
<1> QED
  BY <1>8, <1>9

(* A point lies within half a cell of the centre of its cell. *)
LEMMA WithinHalf ==
  ASSUME NEW x \in Int, NEW min \in Int
  PROVE  LET i == (x - min) \div CellSize
         IN 2 * (x - (min + i * CellSize + CellSize \div 2))
              \in -CellSize .. CellSize - 1
<1> DEFINE i == (x - min) \div CellSize  h == CellSize \div 2
<1>1. CellSize \in Nat /\ CellSize > 0 /\ CellSize % 2 = 0
  BY Sizes
<1>2. h \in Int /\ CellSize = 2 * h
  BY <1>1
<1>3. i \in Int /\ CellSize * i <= x - min /\ x - min < CellSize * i + CellSize
  BY <1>1, DivBounds
<1> HIDE DEF i, h
<1> DEFINE m == CellSize * i
<1>4. m \in Int /\ i * CellSize = m
  BY <1>1, <1>3
<1> HIDE DEF m
<1>5. m <= x - min /\ x - min < m + CellSize
  BY <1>3 DEF m
<1>6. 2 * (x - (min + m + h)) \in -CellSize .. CellSize - 1
  BY <1>1, <1>2, <1>4, <1>5
<1> QED
  BY <1>4, <1>6 DEF i, h

-----------------------------------------------------------------------------
(* The choice of the samples *)

(* t has the items of s, those at lo..hi in another order.                 *)
Permutes(pi, s, t, n, lo, hi) ==
  /\ pi \in [1 .. n -> 1 .. n]
  /\ \A i, j \in 1 .. n : pi[i] = pi[j] => i = j
  /\ \A j \in 1 .. n : \E i \in 1 .. n : pi[i] = j
  /\ \A i \in 1 .. n : t[i] = s[pi[i]]
  /\ \A i \in 1 .. n : i \notin lo .. hi => pi[i] = i

Rearranged(s, t, n, lo, hi) == \E pi : Permutes(pi, s, t, n, lo, hi)

LEMMA SameOrder ==
  ASSUME NEW n \in Nat, NEW s, NEW lo, NEW hi
  PROVE  Rearranged(s, s, n, lo, hi)
<1> DEFINE pi == [i \in 1 .. n |-> i]
<1>1. Permutes(pi, s, s, n, lo, hi)
  BY DEF Permutes
<1> QED
  BY <1>1 DEF Rearranged

Swapped(s, t, i, j, n, lo, hi) ==
  /\ t \in [1 .. n -> Pt] /\ t[i] = s[j] /\ t[j] = s[i]
  /\ \A m \in 1 .. n : m # i /\ m # j => t[m] = s[m]
  /\ Rearranged(s, t, n, lo, hi)

(* Two items of a range exchanged. *)
LEMMA SwapRearranges ==
  ASSUME NEW n \in Nat, NEW s \in [1 .. n -> Pt],
         NEW lo \in Int, NEW hi \in Int,
         NEW i \in 1 .. n, NEW j \in 1 .. n, i \in lo .. hi, j \in lo .. hi
  PROVE  Swapped(s, Swap(s, i, j), i, j, n, lo, hi)
<1> DEFINE t == Swap(s, i, j)
           pi == [m \in 1 .. n |-> IF m = i THEN j ELSE IF m = j THEN i ELSE m]
<1>1. /\ t \in [1 .. n -> Pt] /\ t[i] = s[j] /\ t[j] = s[i]
      /\ \A m \in 1 .. n : m # i /\ m # j => t[m] = s[m]
  BY DEF Swap
<1> HIDE DEF t
<1>2. pi \in [1 .. n -> 1 .. n]
  OBVIOUS
<1>3. \A m \in 1 .. n : pi[m] = IF m = i THEN j ELSE IF m = j THEN i ELSE m
  OBVIOUS
<1> HIDE DEF pi
<1>4. \A k, m \in 1 .. n : pi[k] = pi[m] => k = m
  BY <1>3
<1>5. \A m \in 1 .. n : \E k \in 1 .. n : pi[k] = m
  <2> SUFFICES ASSUME NEW m \in 1 .. n PROVE pi[pi[m]] = m
    BY <1>2
  <2> QED
    BY <1>2, <1>3
<1>6. \A m \in 1 .. n : t[m] = s[pi[m]]
  BY <1>1, <1>3
<1>7. \A m \in 1 .. n : m \notin lo .. hi => pi[m] = m
  BY <1>3
<1>8. Permutes(pi, s, t, n, lo, hi)
  BY <1>2, <1>4, <1>5, <1>6, <1>7 DEF Permutes
<1> QED
  BY <1>1, <1>8 DEF Rearranged, Swapped, t

(* An exchange within a range that was already rearranged. *)
LEMMA RearrangedTwice ==
  ASSUME NEW n \in Nat, NEW r, NEW s, NEW t,
         NEW lo \in Int, NEW hi \in Int, NEW a \in Int, NEW b \in Int,
         a <= lo, hi <= b,
         Rearranged(r, s, n, a, b), Rearranged(s, t, n, lo, hi)
  PROVE  Rearranged(r, t, n, a, b)
<1>1. PICK pi : Permutes(pi, r, s, n, a, b)
  BY DEF Rearranged
<1>2. PICK rho : Permutes(rho, s, t, n, lo, hi)
  BY DEF Rearranged
<1> DEFINE tau == [i \in 1 .. n |-> pi[rho[i]]]
<1>3. pi \in [1 .. n -> 1 .. n] /\ rho \in [1 .. n -> 1 .. n]
  BY <1>1, <1>2 DEF Permutes
<1>4. tau \in [1 .. n -> 1 .. n] /\ \A i \in 1 .. n : tau[i] = pi[rho[i]]
  BY <1>3
<1> HIDE DEF tau
<1>5. ASSUME NEW i \in 1 .. n, NEW j \in 1 .. n, tau[i] = tau[j] PROVE i = j
  <2>1. rho[i] \in 1 .. n /\ rho[j] \in 1 .. n /\ pi[rho[i]] = pi[rho[j]]
    BY <1>3, <1>4, <1>5
  <2>2. rho[i] = rho[j]
    BY <1>1, <2>1 DEF Permutes
  <2> QED
    BY <1>2, <2>2 DEF Permutes
<1>6. \A j \in 1 .. n : \E i \in 1 .. n : tau[i] = j
  <2> SUFFICES ASSUME NEW j \in 1 .. n PROVE \E i \in 1 .. n : tau[i] = j
    OBVIOUS
  <2>1. PICK k \in 1 .. n : pi[k] = j
    BY <1>1 DEF Permutes
  <2>2. PICK i \in 1 .. n : rho[i] = k
    BY <1>2 DEF Permutes
  <2> QED
    BY <1>4, <2>1, <2>2
<1>7. \A i \in 1 .. n : t[i] = r[tau[i]]
  <2>1. \A i \in 1 .. n : t[i] = s[rho[i]]
    BY <1>2 DEF Permutes
  <2>2. \A i \in 1 .. n : s[i] = r[pi[i]]
    BY <1>1 DEF Permutes
  <2> QED
    BY <1>3, <1>4, <2>1, <2>2
<1>8. \A i \in 1 .. n : i \notin a .. b => tau[i] = i
  <2>1. \A i \in 1 .. n : i \notin a .. b => i \notin lo .. hi
    OBVIOUS
  <2> QED
    BY <1>1, <1>2, <1>4, <2>1 DEF Permutes
<1>9. Permutes(tau, r, t, n, a, b)
  BY <1>4, <1>5, <1>6, <1>7, <1>8 DEF Permutes
<1> QED
  BY <1>9 DEF Rearranged

(* Items at lo..hi come from there, the others stay. *)
LEMMA RearrangedWithin ==
  ASSUME NEW n \in Nat, NEW s, NEW t, NEW lo, NEW hi,
         Rearranged(s, t, n, lo, hi)
  PROVE  /\ \A i \in 1 .. n : i \notin lo .. hi => t[i] = s[i]
         /\ \A i \in 1 .. n : i \in lo .. hi =>
              \E j \in 1 .. n : j \in lo .. hi /\ t[i] = s[j]
<1>1. PICK pi : Permutes(pi, s, t, n, lo, hi)
  BY DEF Rearranged
<1>2. /\ pi \in [1 .. n -> 1 .. n]
      /\ \A i, j \in 1 .. n : pi[i] = pi[j] => i = j
      /\ \A i \in 1 .. n : t[i] = s[pi[i]]
      /\ \A i \in 1 .. n : i \notin lo .. hi => pi[i] = i
  BY <1>1 DEF Permutes
<1>3. ASSUME NEW i \in 1 .. n, i \in lo .. hi PROVE pi[i] \in lo .. hi
  <2> SUFFICES ASSUME pi[i] \notin lo .. hi PROVE FALSE
    OBVIOUS
  <2>1. pi[i] \in 1 .. n /\ pi[pi[i]] = pi[i]
    BY <1>2
  <2> QED
    BY <1>2, <1>3, <2>1
<1> QED
  BY <1>2, <1>3

(* How often an item occurs. *)
Times(s, n, p) == {i \in 1 .. n : s[i] = p}

(* No item is lost and none occurs twice that did not before. *)
LEMMA RearrangedCounts ==
  ASSUME NEW n \in Nat, NEW s, NEW t, NEW lo, NEW hi, NEW p,
         Rearranged(s, t, n, lo, hi)
  PROVE  Cardinality(Times(t, n, p)) = Cardinality(Times(s, n, p))
<1>1. PICK pi : Permutes(pi, s, t, n, lo, hi)
  BY DEF Rearranged
<1>2. /\ pi \in [1 .. n -> 1 .. n]
      /\ \A i, j \in 1 .. n : pi[i] = pi[j] => i = j
      /\ \A j \in 1 .. n : \E i \in 1 .. n : pi[i] = j
      /\ \A i \in 1 .. n : t[i] = s[pi[i]]
  BY <1>1 DEF Permutes
<1> DEFINE T == Times(t, n, p)  S == Times(s, n, p)
           f == [i \in T |-> pi[i]]
<1>3. T \subseteq 1 .. n /\ S \subseteq 1 .. n
  BY DEF Times
<1>4. \A i \in T : pi[i] \in S
  BY <1>2 DEF Times
<1>5. \A j \in S : \E i \in T : pi[i] = j
  <2> SUFFICES ASSUME NEW j \in S PROVE \E i \in T : pi[i] = j
    OBVIOUS
  <2>1. PICK i \in 1 .. n : pi[i] = j
    BY <1>2, <1>3
  <2>2. s[j] = p
    BY DEF Times
  <2> QED
    BY <1>2, <2>1, <2>2 DEF Times
<1>6. IsFiniteSet(1 .. n)
  BY FS_Interval
<1>7. IsFiniteSet(T)
  BY <1>3, <1>6, FS_Subset
<1> HIDE DEF T, S
<1>8. f \in [T -> S] /\ \A i \in T : f[i] = pi[i]
  BY <1>4
<1> HIDE DEF f
<1>9. f \in Bijection(T, S)
  BY <1>2, <1>3, <1>5, <1>8 DEF Bijection, Injection, Surjection, IsInjective
<1>10. ExistsBijection(T, S)
  BY <1>9 DEF ExistsBijection
<1> QED
  BY <1>7, <1>10, FS_Bijection DEF T, S

LEMMA DistIsInt ==
  ASSUME NEW p \in Pt, NEW q \in Pt
  PROVE  Dist(p, q) \in Int
<1>1. p[1] - q[1] \in Int /\ p[2] - q[2] \in Int
  BY DEF Pt
<1> QED
  BY <1>1 DEF Dist

(* What partitionItems leaves behind: around the pivot no item before it   *)
(* is farther, none behind it nearer.                                      *)
Parted(target, items, lo, hi, r, n) ==
  /\ r.items \in [1 .. n -> Pt] /\ r.at \in lo .. hi
  /\ Rearranged(items, r.items, n, lo, hi)
  /\ \A i \in lo .. r.at :
       Dist(r.items[i], target) <= Dist(r.items[r.at], target)
  /\ \A i \in r.at .. hi :
       Dist(r.items[r.at], target) <= Dist(r.items[i], target)

(* The loop of partitionItems and the exchange after it. *)
LEMMA PartitionParts ==
  ASSUME NEW n \in Nat, NEW target \in Pt, NEW items \in [1 .. n -> Pt],
         NEW lo \in 1 .. n, NEW hi \in 1 .. n, lo < hi
  PROVE  Parted(target, items, lo, hi,
                PartitionItems(target, items, lo, hi), n)
<1> DEFINE D(p) == Dist(p, target)
           pivot == D(items[hi])
           scan[j \in lo - 1 .. hi - 1] ==
             IF j = lo - 1 THEN [items |-> items, at |-> lo]
             ELSE LET s == scan[j - 1]
                  IN IF Dist(s.items[j], target) <= pivot
                       THEN [items |-> Swap(s.items, s.at, j), at |-> s.at + 1]
                       ELSE s
           base == [items |-> items, at |-> lo]
           a == lo - 1  b == hi - 1
           F == [1 .. n -> Pt]
           W == [items : F, at : Int]
           Ok(x, j) == /\ x.at \in lo .. j + 1
                       /\ Rearranged(items, x.items, n, lo, hi)
                       /\ x.items[hi] = items[hi]
                       /\ \A i \in lo .. x.at - 1 : D(x.items[i]) <= pivot
                       /\ \A i \in x.at .. j : pivot <= D(x.items[i])
           X == [j \in a .. b |-> {x \in W : Ok(x, j)}]
           After(x, j) == IF D(x.items[j]) <= pivot
                       THEN [items |-> Swap(x.items, x.at, j), at |-> x.at + 1]
                       ELSE x
           step == [j \in a + 1 .. b |-> [x \in W |-> After(x, j)]]
           end == scan[b]
<1>1. PartitionItems(target, items, lo, hi) =
        [end EXCEPT !.items = Swap(end.items, end.at, hi)]
  BY DEF PartitionItems
<1>2. scan = CHOOSE f : f = [j \in a .. b |->
        IF j = a THEN base
        ELSE IF Dist(f[j - 1].items[j], target) <= pivot
          THEN [items |-> Swap(f[j - 1].items, f[j - 1].at, j),
                at |-> f[j - 1].at + 1]
        ELSE f[j - 1]]
  BY DEF scan
<1> HIDE DEF scan
<1>3. \A p \in Pt : D(p) \in Int
  BY DistIsInt
<1>4. a \in Int /\ b \in Int /\ a <= b /\ a + 1 = lo /\ b + 1 = hi
      /\ lo \in Int /\ hi \in Int /\ a = lo - 1 /\ b = hi - 1
  OBVIOUS
<1>5. items[hi] \in Pt /\ pivot \in Int
  BY <1>3
<1> HIDE DEF D, pivot, a, b
<1>6. base \in X[a]
  <2>1. base \in W /\ base.items = items /\ base.at = lo
    OBVIOUS
  <2>2. Rearranged(items, items, n, lo, hi)
    BY SameOrder
  <2> HIDE DEF base, W, F
  <2>3. \A i \in lo .. base.at - 1 : FALSE
    BY <1>4, <2>1
  <2>4. \A i \in base.at .. a : FALSE
    BY <1>4, <2>1
  <2>5. base.at \in lo .. a + 1
    BY <1>4, <2>1
  <2>6. a \in a .. b
    BY <1>4
  <2> QED
    BY <2>1, <2>2, <2>3, <2>4, <2>5, <2>6
<1>7. ASSUME NEW j \in a + 1 .. b, NEW x \in X[j - 1]
      PROVE  x \in W /\ After(x, j) \in X[j]
  <2> DEFINE y == After(x, j)
  <2>1. /\ j - 1 \in a .. b /\ j \in a .. b /\ j \in Int
        /\ j \in lo .. hi /\ j # hi /\ j \in 1 .. n /\ (j - 1) + 1 = j
    BY <1>4
  <2>2. x \in W /\ Ok(x, j - 1)
    <3> HIDE DEF W, Ok
    <3> QED
      BY <2>1
  <2>3. x.items \in F /\ x.at \in Int
    BY <2>2
  <2>4. /\ x.at \in lo .. j
        /\ Rearranged(items, x.items, n, lo, hi)
        /\ x.items[hi] = items[hi]
        /\ \A i \in lo .. x.at - 1 : D(x.items[i]) <= pivot
        /\ \A i \in x.at .. j - 1 : pivot <= D(x.items[i])
    BY <2>1, <2>2
  <2>5. x.items[j] \in Pt /\ D(x.items[j]) \in Int
    BY <1>3, <2>1, <2>3
  <2> HIDE DEF X
  <2>6. CASE ~(D(x.items[j]) <= pivot)
    <3>1. y = x
      BY <2>6
    <3>2. \A i \in x.at .. j : pivot <= D(x.items[i])
      <4>1. \A i \in x.at .. j : i = j \/ i \in x.at .. j - 1
        BY <2>1, <2>3
      <4>2. pivot <= D(x.items[j])
        BY <1>5, <2>5, <2>6
      <4> QED
        BY <2>4, <4>1, <4>2
    <3>3. x.at \in lo .. j + 1
      BY <1>4, <2>1, <2>4
    <3>4. Ok(x, j)
      BY <2>4, <3>2, <3>3
    <3> HIDE DEF Ok
    <3> QED
      BY <2>1, <2>2, <3>1, <3>4 DEF X
  <2>7. CASE D(x.items[j]) <= pivot
    <3> DEFINE t == Swap(x.items, x.at, j)
    <3>1. y = [items |-> t, at |-> x.at + 1]
      BY <2>7
    <3>2. y.items = t /\ y.at = x.at + 1
      BY <3>1
    <3>3. x.at \in 1 .. n /\ x.at \in lo .. hi
      BY <1>4, <2>1, <2>4
    <3>4. /\ t \in F /\ t[x.at] = x.items[j] /\ t[j] = x.items[x.at]
          /\ \A m \in 1 .. n : m # x.at /\ m # j => t[m] = x.items[m]
          /\ Rearranged(x.items, t, n, lo, hi)
      <4>1. x.items \in [1 .. n -> Pt] /\ j \in 1 .. n /\ j \in lo .. hi
        BY <2>1, <2>3
      <4>2. Swapped(x.items, t, x.at, j, n, lo, hi)
        BY <1>4, <3>3, <4>1, SwapRearranges
      <4> QED
        BY <4>2 DEF Swapped
    <3>5. y \in W
      BY <2>3, <3>1, <3>4
    <3> HIDE DEF t, W, F, y
    <3>6. Rearranged(items, t, n, lo, hi)
      BY <1>4, <2>4, <3>4, RearrangedTwice
    <3>7. t[hi] = items[hi]
      <4>1. hi \in 1 .. n /\ hi # j /\ hi # x.at
        BY <1>4, <2>1, <2>4
      <4> QED
        BY <2>4, <3>4, <4>1
    <3>8. ASSUME NEW i \in lo .. (x.at + 1) - 1 PROVE D(t[i]) <= pivot
      <4>1. i = x.at \/ i \in lo .. x.at - 1
        BY <1>4, <2>3
      <4>2. CASE i = x.at
        BY <2>7, <3>4, <4>2
      <4>3. CASE i \in lo .. x.at - 1
        <5>1. i \in 1 .. n /\ i # x.at /\ i # j
          BY <1>4, <2>1, <2>3, <2>4, <4>3
        <5> QED
          BY <2>4, <3>4, <4>3, <5>1
      <4> QED
        BY <4>1, <4>2, <4>3
    <3>9. ASSUME NEW i \in x.at + 1 .. j PROVE pivot <= D(t[i])
      <4>1. i \in 1 .. n /\ i # x.at
        BY <1>4, <2>1, <2>3, <2>4
      <4>2. CASE i = j
        <5>1. x.at \in x.at .. j - 1
          BY <2>1, <2>3, <2>4, <4>1, <4>2
        <5> QED
          BY <2>4, <3>4, <4>2, <5>1
      <4>3. CASE i # j
        <5>1. i \in x.at .. j - 1
          BY <2>1, <2>3, <4>3
        <5> QED
          BY <2>4, <3>4, <4>1, <4>3, <5>1
      <4> QED
        BY <4>2, <4>3
    <3>10. x.at + 1 \in lo .. j + 1
      BY <1>4, <2>1, <2>3, <2>4
    <3>11. Ok(y, j)
      BY <3>2, <3>6, <3>7, <3>8, <3>9, <3>10
    <3> HIDE DEF Ok
    <3> QED
      BY <2>1, <2>2, <3>5, <3>11 DEF X, y
  <2> QED
    BY <2>6, <2>7
<1> HIDE DEF X, W, Ok, base
<1>8. Stepwise(X, step, a, b)
  <2> SUFFICES ASSUME NEW j \in a + 1 .. b, NEW x \in X[j - 1]
               PROVE  step[j][x] \in X[j]
    BY DEF Stepwise
  <2>1. x \in W /\ After(x, j) \in X[j]
    BY <1>7
  <2> HIDE DEF After
  <2> QED
    BY <2>1
<1>9. PICK f : RunOf(f, base, step, a, b) /\ Within(f, X, a, b)
  <2> HIDE DEF step
  <2> QED
    BY <1>4, <1>6, <1>8, LoopRuns
<1>10. f = [j \in a .. b |-> IF j = a THEN base ELSE After(f[j - 1], j)]
  <2>1. ASSUME NEW j \in a .. b, j # a
        PROVE  step[j][f[j - 1]] = After(f[j - 1], j)
    <3>1. j \in a + 1 .. b /\ j - 1 \in a .. b
      BY <1>4, <2>1
    <3>2. f[j - 1] \in W
      BY <1>7, <1>9, <3>1 DEF Within
    <3> HIDE DEF After
    <3> QED
      BY <3>1, <3>2
  <2> HIDE DEF step, After
  <2> QED
    BY <1>9, <2>1 DEF RunOf
<1>11. scan = [j \in a .. b |-> IF j = a THEN base ELSE After(scan[j - 1], j)]
  BY <1>2, <1>10 DEF D
<1> HIDE DEF After
<1>12. Within(scan, X, a, b)
  <2>1. scan[a] \in X[a]
    <3>1. a \in a .. b
      BY <1>4
    <3> QED
      BY <1>6, <1>11, <3>1
  <2>2. Kept(scan, X, a, b)
    <3> SUFFICES ASSUME NEW j \in a + 1 .. b, scan[j - 1] \in X[j - 1]
                 PROVE  scan[j] \in X[j]
      BY DEF Kept
    <3>1. j \in a .. b /\ j # a
      BY <1>4
    <3>2. scan[j] = After(scan[j - 1], j)
      BY <1>11, <3>1
    <3> QED
      BY <1>7, <3>2
  <2> QED
    BY <1>4, <2>1, <2>2, LoopKeeps
<1>13. end \in W /\ Ok(end, b)
  <2>1. end \in X[b]
    BY <1>4, <1>12 DEF Within
  <2> QED
    BY <1>4, <2>1 DEF X
<1> HIDE DEF end
<1>14. end.items \in F /\ end.at \in Int /\ DOMAIN end = {"items", "at"}
  BY <1>13 DEF W
<1>15. /\ end.at \in lo .. hi
       /\ Rearranged(items, end.items, n, lo, hi)
       /\ end.items[hi] = items[hi]
       /\ \A i \in lo .. end.at - 1 : D(end.items[i]) <= pivot
       /\ \A i \in end.at .. hi - 1 : pivot <= D(end.items[i])
  BY <1>4, <1>13 DEF Ok
<1> DEFINE t == Swap(end.items, end.at, hi)
           r == [end EXCEPT !.items = t]
<1>16. r.items = t /\ r.at = end.at
  BY <1>14
<1>17. end.at \in 1 .. n /\ hi \in lo .. hi
  BY <1>4, <1>15
<1>18. /\ t \in F /\ t[end.at] = end.items[hi] /\ t[hi] = end.items[end.at]
       /\ \A m \in 1 .. n : m # end.at /\ m # hi => t[m] = end.items[m]
       /\ Rearranged(end.items, t, n, lo, hi)
  <2>1. end.items \in [1 .. n -> Pt] /\ hi \in 1 .. n
    BY <1>14
  <2>2. Swapped(end.items, t, end.at, hi, n, lo, hi)
    BY <1>4, <1>15, <1>17, <2>1, SwapRearranges
  <2> QED
    BY <2>2 DEF Swapped
<1> HIDE DEF t, r, F
<1>19. Rearranged(items, t, n, lo, hi)
  BY <1>4, <1>15, <1>18, RearrangedTwice
<1>20. D(t[end.at]) = pivot
  BY <1>15, <1>18 DEF pivot
<1>21. ASSUME NEW i \in lo .. end.at PROVE D(t[i]) <= D(t[end.at])
  <2>1. CASE i = end.at
    BY <1>5, <1>20, <2>1
  <2>2. CASE i # end.at
    <3>1. i \in lo .. end.at - 1 /\ i \in 1 .. n /\ i # hi
      BY <1>4, <1>14, <1>15, <2>2
    <3> QED
      BY <1>15, <1>18, <1>20, <2>2, <3>1
  <2> QED
    BY <2>1, <2>2
<1>22. ASSUME NEW i \in end.at .. hi PROVE D(t[end.at]) <= D(t[i])
  <2>1. CASE i = end.at
    BY <1>5, <1>20, <2>1
  <2>2. CASE i # end.at /\ i = hi
    <3>1. end.at \in end.at .. hi - 1
      BY <1>4, <1>14, <1>15, <2>2
    <3> QED
      BY <1>15, <1>18, <1>20, <2>2, <3>1
  <2>3. CASE i # end.at /\ i # hi
    <3>1. i \in end.at .. hi - 1 /\ i \in 1 .. n
      BY <1>4, <1>14, <1>15, <2>3
    <3> QED
      BY <1>15, <1>18, <1>20, <2>3, <3>1
  <2> QED
    BY <2>1, <2>2, <2>3
<1>23. Parted(target, items, lo, hi, r, n)
  BY <1>15, <1>16, <1>18, <1>19, <1>21, <1>22 DEF Parted, D, F
<1> QED
  BY <1>1, <1>23 DEF r, t

(* None of the first m items is farther than one of the others. *)
Split(target, s, n, m) ==
  \A i \in 1 .. m : \A j \in m + 1 .. n :
    Dist(s[i], target) <= Dist(s[j], target)

(* A split outside lo..hi, or at its ends, stays one. *)
LEMMA SplitStays ==
  ASSUME NEW n \in Nat, NEW target, NEW s, NEW t,
         NEW lo \in Int, NEW hi \in Int, NEW m \in 0 .. n,
         m < lo \/ hi <= m,
         Rearranged(s, t, n, lo, hi), Split(target, s, n, m)
  PROVE  Split(target, t, n, m)
<1> SUFFICES ASSUME NEW i \in 1 .. m, NEW j \in m + 1 .. n
             PROVE  Dist(t[i], target) <= Dist(t[j], target)
  BY DEF Split
<1>1. /\ \A x \in 1 .. n : x \notin lo .. hi => t[x] = s[x]
      /\ \A x \in 1 .. n : x \in lo .. hi =>
           \E y \in 1 .. n : y \in lo .. hi /\ t[x] = s[y]
  BY RearrangedWithin
<1>2. PICK y \in 1 .. m : t[i] = s[y]
  <2>1. i \in 1 .. n
    OBVIOUS
  <2>2. CASE i \notin lo .. hi
    BY <1>1, <2>1, <2>2
  <2>3. CASE i \in lo .. hi
    <3>1. PICK y \in 1 .. n : y \in lo .. hi /\ t[i] = s[y]
      BY <1>1, <2>1, <2>3
    <3>2. y \in 1 .. m
      BY <2>3, <3>1
    <3> QED
      BY <3>1, <3>2
  <2> QED
    BY <2>2, <2>3
<1>3. PICK z \in m + 1 .. n : t[j] = s[z]
  <2>1. j \in 1 .. n
    OBVIOUS
  <2>2. CASE j \notin lo .. hi
    BY <1>1, <2>1, <2>2
  <2>3. CASE j \in lo .. hi
    <3>1. PICK z \in 1 .. n : z \in lo .. hi /\ t[j] = s[z]
      BY <1>1, <2>1, <2>3
    <3>2. z \in m + 1 .. n
      BY <2>3, <3>1
    <3> QED
      BY <3>1, <3>2
  <2> QED
    BY <2>2, <2>3
<1> QED
  BY <1>2, <1>3 DEF Split

(* partitionItems splits the items on either side of the pivot. *)
LEMMA PartitionSplits ==
  ASSUME NEW n \in Nat, NEW target \in Pt, NEW s \in [1 .. n -> Pt],
         NEW lo \in 1 .. n, NEW hi \in 1 .. n, lo < hi, NEW p,
         Parted(target, s, lo, hi, p, n),
         Split(target, s, n, lo - 1), Split(target, s, n, hi)
  PROVE  /\ Split(target, p.items, n, lo - 1)
         /\ Split(target, p.items, n, hi)
         /\ Split(target, p.items, n, p.at - 1)
         /\ Split(target, p.items, n, p.at)
<1> DEFINE t == p.items  at == p.at
           D(x) == Dist(t[x], target)
<1>1. /\ t \in [1 .. n -> Pt] /\ at \in lo .. hi
      /\ Rearranged(s, t, n, lo, hi)
      /\ \A i \in lo .. at : D(i) <= D(at)
      /\ \A i \in at .. hi : D(at) <= D(i)
  BY DEF Parted
<1>2. \A i \in 1 .. n : D(i) \in Int
  BY <1>1, DistIsInt
<1>3. /\ lo - 1 \in 0 .. n /\ hi \in 0 .. n /\ lo \in Int /\ hi \in Int
      /\ lo - 1 < lo /\ at \in Int
  BY <1>1
<1> HIDE DEF t, at
<1>4. Split(target, t, n, lo - 1)
  BY <1>1, <1>3, SplitStays
<1>5. Split(target, t, n, hi)
  BY <1>1, <1>3, SplitStays
<1>6. /\ \A i \in 1 .. lo - 1 : \A j \in (lo - 1) + 1 .. n : D(i) <= D(j)
      /\ \A i \in 1 .. hi : \A j \in hi + 1 .. n : D(i) <= D(j)
  BY <1>4, <1>5 DEF Split
<1> HIDE DEF D
<1>7. ASSUME NEW i \in 1 .. at, NEW j \in at .. n, i < j
      PROVE  D(i) <= D(j)
  <2>1. i \in 1 .. n /\ j \in 1 .. n /\ at \in 1 .. n
    BY <1>1, <1>3
  <2>2. CASE i < lo
    <3>1. i \in 1 .. lo - 1 /\ j \in (lo - 1) + 1 .. n
      BY <1>1, <1>3, <2>2
    <3> QED
      BY <1>6, <3>1
  <2>3. CASE hi < j
    <3>1. i \in 1 .. hi /\ j \in hi + 1 .. n
      BY <1>1, <1>3, <2>3
    <3> QED
      BY <1>6, <3>1
  <2>4. CASE lo <= i /\ j <= hi
    <3>1. i \in lo .. at /\ j \in at .. hi
      BY <1>1, <1>3, <2>4
    <3>2. D(i) <= D(at) /\ D(at) <= D(j)
      BY <1>1, <3>1
    <3>3. D(i) \in Int /\ D(at) \in Int /\ D(j) \in Int
      BY <1>2, <2>1
    <3> QED
      BY <3>2, <3>3
  <2> QED
    BY <1>3, <2>2, <2>3, <2>4
<1>8. Split(target, t, n, at)
  <2> SUFFICES ASSUME NEW i \in 1 .. at, NEW j \in at + 1 .. n
               PROVE  D(i) <= D(j)
    BY DEF Split, D
  <2>1. j \in at .. n /\ i < j
    BY <1>3
  <2> QED
    BY <1>7, <2>1
<1>9. Split(target, t, n, at - 1)
  <2> SUFFICES ASSUME NEW i \in 1 .. at - 1, NEW j \in (at - 1) + 1 .. n
               PROVE  D(i) <= D(j)
    BY DEF Split, D
  <2>1. i \in 1 .. at /\ j \in at .. n /\ i < j
    BY <1>3
  <2> QED
    BY <1>7, <2>1
<1> QED
  BY <1>4, <1>5, <1>8, <1>9 DEF t, at

(* What quickSelectItems leaves behind: the same items, the k nearest of   *)
(* them first.  After each iteration the items before lo and those up to   *)
(* hi are the nearest, k lies between, and the range is shorter by one at  *)
(* least, so as many iterations as there are items are enough.             *)
THEOREM QuickSelected ==
  ASSUME NEW n \in Nat, NEW target \in Pt, NEW items \in [1 .. n -> Pt],
         NEW k \in Nat, k < n
  PROVE  LET q == QuickSelectItems(target, items, k)
         IN /\ q \in [1 .. n -> Pt] /\ Rearranged(items, q, n, 1, n)
            /\ Split(target, q, n, k)
<1> DEFINE Part(x) == PartitionItems(target, x.items, x.lo, x.hi)
           After(x) ==
             IF x.lo >= x.hi THEN x
             ELSE [items |-> Part(x).items,
                   lo |-> IF Part(x).at < k + 1 THEN Part(x).at + 1
                          ELSE IF Part(x).at = k + 1 THEN Part(x).at ELSE x.lo,
                   hi |-> IF Part(x).at > k + 1 THEN Part(x).at - 1
                          ELSE IF Part(x).at = k + 1 THEN Part(x).at ELSE x.hi]
           base == [items |-> items, lo |-> 1, hi |-> Len(items)]
           loop[m \in 0 .. Len(items)] ==
             IF m = 0 THEN base
             ELSE LET s == loop[m - 1]
                      p == PartitionItems(target, s.items, s.lo, s.hi)
                  IN IF s.lo >= s.hi THEN s
                     ELSE [items |-> p.items,
                           lo |-> IF p.at < k + 1 THEN p.at + 1
                                  ELSE IF p.at = k + 1 THEN p.at ELSE s.lo,
                           hi |-> IF p.at > k + 1 THEN p.at - 1
                                  ELSE IF p.at = k + 1 THEN p.at ELSE s.hi]
           F == [1 .. n -> Pt]
           W == [items : F, lo : Int, hi : Int]
           Ok(x, m) == /\ Rearranged(items, x.items, n, 1, n)
                       /\ x.lo \in 1 .. k + 1 /\ x.hi \in k + 1 .. n
                       /\ x.lo = x.hi \/ x.hi - x.lo <= n - 1 - m
                       /\ Split(target, x.items, n, x.lo - 1)
                       /\ Split(target, x.items, n, x.hi)
           X == [m \in 0 .. n |-> {x \in W : Ok(x, m)}]
           step == [m \in 1 .. n |-> [x \in W |-> After(x)]]
<1>1. Len(items) = n
  OBVIOUS
<1>2. QuickSelectItems(target, items, k) = loop[n].items
  BY <1>1 DEF QuickSelectItems
<1>3. loop = CHOOSE f : f = [m \in 0 .. n |->
        IF m = 0 THEN base ELSE After(f[m - 1])]
  BY <1>1 DEF loop
<1> HIDE DEF loop
<1>4. base \in X[0]
  <2>1. base \in W /\ base.items = items /\ base.lo = 1 /\ base.hi = n
    BY <1>1
  <2>2. Rearranged(items, items, n, 1, n)
    BY SameOrder
  <2>3. Split(target, items, n, 0) /\ Split(target, items, n, n)
    BY DEF Split
  <2>4. 1 \in 1 .. k + 1 /\ n \in k + 1 .. n /\ n - 1 <= n - 1 - 0 /\ 1 - 1 = 0
        /\ 0 \in 0 .. n
    OBVIOUS
  <2> HIDE DEF base, W
  <2>5. Ok(base, 0)
    BY <2>1, <2>2, <2>3, <2>4
  <2> HIDE DEF Ok
  <2> QED
    BY <2>1, <2>4, <2>5
<1>5. ASSUME NEW m \in 1 .. n, NEW x \in X[m - 1]
      PROVE  x \in W /\ After(x) \in X[m]
  <2> DEFINE y == After(x)
  <2>1. m - 1 \in 0 .. n /\ m \in 0 .. n /\ m \in Int
    OBVIOUS
  <2>2. x \in W /\ Ok(x, m - 1)
    <3> HIDE DEF W, Ok
    <3> QED
      BY <2>1
  <2>3. x.items \in F /\ x.lo \in Int /\ x.hi \in Int
    BY <2>2
  <2>4. /\ Rearranged(items, x.items, n, 1, n)
        /\ x.lo \in 1 .. k + 1 /\ x.hi \in k + 1 .. n
        /\ x.lo = x.hi \/ x.hi - x.lo <= n - 1 - (m - 1)
        /\ Split(target, x.items, n, x.lo - 1)
        /\ Split(target, x.items, n, x.hi)
    BY <2>2
  <2> HIDE DEF X
  <2>5. CASE x.lo >= x.hi
    <3>1. y = x
      BY <2>5
    <3>2. x.lo = x.hi
      BY <2>4, <2>5
    <3>3. Ok(x, m)
      BY <2>4, <3>2
    <3> HIDE DEF Ok, W
    <3> QED
      BY <2>1, <2>2, <3>1, <3>3 DEF X
  <2>6. CASE x.lo < x.hi
    <3> DEFINE p == Part(x)
    <3>1. /\ y.items = p.items
          /\ y.lo = IF p.at < k + 1 THEN p.at + 1
                    ELSE IF p.at = k + 1 THEN p.at ELSE x.lo
          /\ y.hi = IF p.at > k + 1 THEN p.at - 1
                    ELSE IF p.at = k + 1 THEN p.at ELSE x.hi
          /\ y = [items |-> y.items, lo |-> y.lo, hi |-> y.hi]
      BY <2>3, <2>6
    <3> HIDE DEF y
    <3>2. x.lo \in 1 .. n /\ x.hi \in 1 .. n
      BY <2>4
    <3>3. Parted(target, x.items, x.lo, x.hi, p, n)
      BY <2>3, <2>6, <3>2, PartitionParts
    <3> HIDE DEF p
    <3>4. /\ Split(target, p.items, n, x.lo - 1)
          /\ Split(target, p.items, n, x.hi)
          /\ Split(target, p.items, n, p.at - 1)
          /\ Split(target, p.items, n, p.at)
      BY <2>3, <2>4, <2>6, <3>2, <3>3, PartitionSplits
    <3>5. p.items \in F /\ p.at \in x.lo .. x.hi
          /\ Rearranged(x.items, p.items, n, x.lo, x.hi)
      BY <3>3 DEF Parted
    <3>6. /\ p.at \in Int /\ x.lo <= p.at /\ p.at <= x.hi
          /\ x.hi - x.lo <= n - m /\ 1 <= x.lo /\ x.lo <= k + 1
          /\ k + 1 <= x.hi /\ x.hi <= n /\ m \in Int
      BY <2>1, <2>3, <2>4, <2>6, <3>5
    <3>7. Rearranged(items, p.items, n, 1, n)
      <4>1. 1 <= x.lo /\ x.hi <= n /\ 1 \in Int /\ n \in Int
        BY <2>4
      <4> QED
        BY <2>3, <2>4, <3>5, <4>1, RearrangedTwice
    <3>8. CASE p.at < k + 1
      <4>1. y.items = p.items /\ y.lo = p.at + 1 /\ y.hi = x.hi
        BY <2>3, <3>1, <3>5, <3>8
      <4>2. /\ y.lo \in Int /\ y.hi \in Int
            /\ y.lo \in 1 .. k + 1 /\ y.hi \in k + 1 .. n
            /\ y.hi - y.lo <= n - 1 - m /\ y.lo - 1 = p.at
        <5>1. y.lo \in 1 .. k + 1 /\ y.hi \in k + 1 .. n /\ y.lo - 1 = p.at
          BY <2>3, <3>6, <3>8, <4>1
        <5>2. x.hi - (p.at + 1) <= n - 1 - m
          BY <2>3, <3>6
        <5> QED
          BY <4>1, <5>1, <5>2
      <4>3. y \in W
        BY <3>1, <3>5, <4>1, <4>2
      <4> HIDE DEF W
      <4>4. Ok(y, m)
        BY <3>4, <3>7, <4>1, <4>2
      <4> HIDE DEF Ok
      <4> QED
        BY <2>1, <2>2, <4>3, <4>4 DEF X, y
    <3>9. CASE p.at > k + 1
      <4>1. y.items = p.items /\ y.lo = x.lo /\ y.hi = p.at - 1
        BY <2>3, <3>1, <3>5, <3>9
      <4>2. /\ y.lo \in Int /\ y.hi \in Int
            /\ y.lo \in 1 .. k + 1 /\ y.hi \in k + 1 .. n
            /\ y.hi - y.lo <= n - 1 - m
        BY <2>3, <3>6, <3>9, <4>1
      <4>3. y \in W
        BY <3>1, <3>5, <4>1, <4>2
      <4> HIDE DEF W
      <4>4. Ok(y, m)
        BY <3>4, <3>7, <4>1, <4>2
      <4> HIDE DEF Ok
      <4> QED
        BY <2>1, <2>2, <4>3, <4>4 DEF X, y
    <3>10. CASE p.at = k + 1
      <4>1. y.items = p.items /\ y.lo = p.at /\ y.hi = p.at
        BY <2>3, <3>1, <3>5, <3>10
      <4>2. /\ y.lo \in Int /\ y.hi \in Int
            /\ y.lo \in 1 .. k + 1 /\ y.hi \in k + 1 .. n /\ y.lo = y.hi
        BY <2>3, <3>6, <3>10, <4>1
      <4>3. y \in W
        BY <3>1, <3>5, <4>1, <4>2
      <4> HIDE DEF W
      <4>4. Ok(y, m)
        BY <3>4, <3>7, <4>1, <4>2
      <4> HIDE DEF Ok
      <4> QED
        BY <2>1, <2>2, <4>3, <4>4 DEF X, y
    <3> QED
      BY <2>3, <3>5, <3>8, <3>9, <3>10
  <2> QED
    BY <2>3, <2>5, <2>6
<1> HIDE DEF X, W, Ok, base, After
<1>6. Stepwise(X, step, 0, n)
  <2> SUFFICES ASSUME NEW j \in 0 + 1 .. n, NEW x \in X[j - 1]
               PROVE  step[j][x] \in X[j]
    BY DEF Stepwise
  <2>1. j \in 1 .. n
    OBVIOUS
  <2>2. x \in W /\ After(x) \in X[j]
    BY <1>5, <2>1
  <2> QED
    BY <2>1, <2>2
<1>7. PICK f : RunOf(f, base, step, 0, n) /\ Within(f, X, 0, n)
  <2> HIDE DEF step
  <2>1. 0 <= n /\ 0 \in Int /\ n \in Int
    OBVIOUS
  <2> QED
    BY <1>4, <1>6, <2>1, LoopRuns
<1>8. f = [m \in 0 .. n |-> IF m = 0 THEN base ELSE After(f[m - 1])]
  <2>1. ASSUME NEW m \in 0 .. n, m # 0
        PROVE  step[m][f[m - 1]] = After(f[m - 1])
    <3>1. m \in 1 .. n /\ m - 1 \in 0 .. n
      BY <2>1
    <3>2. f[m - 1] \in W
      BY <1>5, <1>7, <3>1 DEF Within
    <3> QED
      BY <3>1, <3>2
  <2> HIDE DEF step
  <2> QED
    BY <1>7, <2>1 DEF RunOf
<1>9. loop = [m \in 0 .. n |-> IF m = 0 THEN base ELSE After(loop[m - 1])]
  BY <1>3, <1>8
<1>10. Within(loop, X, 0, n)
  <2>1. loop[0] \in X[0]
    BY <1>4, <1>9
  <2>2. Kept(loop, X, 0, n)
    <3> SUFFICES ASSUME NEW m \in 0 + 1 .. n, loop[m - 1] \in X[m - 1]
                 PROVE  loop[m] \in X[m]
      BY DEF Kept
    <3>1. m \in 1 .. n /\ m \in 0 .. n /\ m # 0
      OBVIOUS
    <3>2. loop[m] = After(loop[m - 1])
      BY <1>9, <3>1
    <3> QED
      BY <1>5, <3>1, <3>2
  <2>3. 0 \in Int /\ n \in Int
    OBVIOUS
  <2> QED
    BY <2>1, <2>2, <2>3, LoopKeeps
<1> DEFINE e == loop[n]
<1>11. e \in W /\ Ok(e, n)
  <2>1. e \in X[n] /\ n \in 0 .. n
    BY <1>10 DEF Within
  <2> QED
    BY <2>1 DEF X
<1> HIDE DEF e
<1>12. e.items \in F /\ e.lo \in Int /\ e.hi \in Int
  BY <1>11 DEF W
<1>13. /\ Rearranged(items, e.items, n, 1, n)
       /\ e.lo \in 1 .. k + 1 /\ e.hi \in k + 1 .. n
       /\ e.lo = e.hi \/ e.hi - e.lo <= n - 1 - n
       /\ Split(target, e.items, n, e.lo - 1)
  BY <1>11 DEF Ok
<1>14. e.lo - 1 = k
  BY <1>12, <1>13
<1> QED
  BY <1>2, <1>12, <1>13, <1>14 DEF e

LEMMA TimesFinite ==
  ASSUME NEW n \in Nat, NEW s, NEW p
  PROVE  IsFiniteSet(Times(s, n, p)) /\ Cardinality(Times(s, n, p)) \in Nat
<1>1. IsFiniteSet(1 .. n)
  BY FS_Interval
<1>2. Times(s, n, p) \subseteq 1 .. n
  BY DEF Times
<1>3. IsFiniteSet(Times(s, n, p))
  BY <1>1, <1>2, FS_Subset
<1> QED
  BY <1>3, FS_CardinalityType

(* How often a point occurs among the samples or the neighbours. *)
Occurs(s, p) == Cardinality({j \in DOMAIN s : s[j] = p})

(* What NearestChosen says of one interpolation. *)
Nearest(target, neighbors) ==
  LET samples == Samples(target, neighbors)
      leftOut == {p \in ToSet(neighbors) :
                    Occurs(samples, p) < Occurs(neighbors, p)}
  IN /\ Len(samples) \in MinKrigingNeighbors .. MaxKrigingNeighbors
     /\ Len(samples) < MaxKrigingNeighbors => leftOut = {}
     /\ \A p \in ToSet(samples) :
          /\ Occurs(samples, p) <= Occurs(neighbors, p)
          /\ \A q \in leftOut : Dist(p, target) <= Dist(q, target)

(* Interpolate works with the nearest neighbours. *)
LEMMA SamplesNearest ==
  ASSUME NEW target \in Pt, NEW near \in Seq(Pt),
         Len(near) >= MinKrigingNeighbors
  PROVE  Nearest(target, near)
<1> DEFINE n == Len(near)  k == MaxKrigingNeighbors
           samples == Samples(target, near)
           leftOut == {p \in ToSet(near) :
                         Occurs(samples, p) < Occurs(near, p)}
<1>1. /\ MinKrigingNeighbors \in Nat /\ k \in Nat /\ MinKrigingNeighbors <= k
  BY VoidFillerAssumption DEF VoidFillerAssumption, KrigingAssumption
<1>2. n \in Nat /\ near \in [1 .. n -> Pt] /\ DOMAIN near = 1 .. n
  OBVIOUS
<1>3. \A p : Occurs(near, p) = Cardinality(Times(near, n, p))
  BY <1>2 DEF Occurs, Times
<1>4. \A p : Occurs(near, p) \in Nat
  BY <1>2, <1>3, TimesFinite
<1>5. CASE n <= k
  <2>1. samples = near
    BY <1>1, <1>2, <1>5 DEF Samples
  <2>2. \A p : /\ ~(Occurs(near, p) < Occurs(near, p))
               /\ Occurs(near, p) <= Occurs(near, p)
    BY <1>4
  <2>3. n \in MinKrigingNeighbors .. k
    BY <1>1, <1>2, <1>5
  <2> HIDE DEF n, k, samples
  <2>4. leftOut = {}
    BY <2>1, <2>2
  <2>5. Len(samples) = n
    BY <2>1 DEF n
  <2> QED
    BY <2>1, <2>2, <2>3, <2>4, <2>5 DEF Nearest, samples, k
<1>6. CASE n > k
  <2> DEFINE q == QuickSelectItems(target, near, k)
  <2>1. samples = SubSeq(q, 1, k)
    BY <1>6 DEF Samples, SelectNeighbors
  <2>2. /\ q \in [1 .. n -> Pt] /\ Rearranged(near, q, n, 1, n)
        /\ Split(target, q, n, k)
    <3> HIDE DEF n, k
    <3> QED
      BY <1>1, <1>2, <1>6, QuickSelected
  <2> HIDE DEF q, samples
  <2>3. q \in Seq(Pt) /\ Len(q) = n
    BY <1>2, <2>2
  <2>4. /\ samples \in Seq(Pt) /\ Len(samples) = k
        /\ \A j \in 1 .. k : samples[j] = q[j]
    BY <1>1, <1>2, <1>6, <2>1, <2>3
  <2>5. DOMAIN samples = 1 .. k
    BY <2>4
  <2> HIDE DEF n, k
  <2>6. \A p : Times(q, k, p) = {j \in DOMAIN samples : samples[j] = p}
    BY <2>4, <2>5 DEF Times
  <2>7. \A p : Occurs(samples, p) = Cardinality(Times(q, k, p))
    BY <2>6 DEF Occurs
  <2>8. \A p : Occurs(near, p) = Cardinality(Times(q, n, p))
    BY <1>2, <1>3, <2>2, RearrangedCounts
  <2>9. \A p : Times(q, k, p) \subseteq Times(q, n, p)
    BY <1>1, <1>2, <1>6 DEF Times
  <2>10. \A p : Occurs(samples, p) <= Occurs(near, p)
    <3> SUFFICES ASSUME NEW p PROVE Occurs(samples, p) <= Occurs(near, p)
      OBVIOUS
    <3>1. IsFiniteSet(Times(q, n, p))
      BY <1>2, TimesFinite
    <3>2. Cardinality(Times(q, k, p)) <= Cardinality(Times(q, n, p))
      BY <2>9, <3>1, FS_Subset
    <3> QED
      BY <2>7, <2>8, <3>2
  <2>11. ASSUME NEW x \in leftOut PROVE \E j \in k + 1 .. n : q[j] = x
    <3> SUFFICES ASSUME \A j \in k + 1 .. n : q[j] # x PROVE FALSE
      OBVIOUS
    <3>1. Times(q, n, x) = Times(q, k, x)
      <4>1. \A j \in 1 .. n : j \in 1 .. k \/ j \in k + 1 .. n
        BY <1>1, <1>2
      <4> QED
        BY <2>9, <4>1 DEF Times
    <3>2. Occurs(samples, x) = Occurs(near, x)
      BY <2>7, <2>8, <3>1
    <3> QED
      BY <1>4, <2>11, <3>2
  <2>12. ASSUME NEW p \in ToSet(samples), NEW x \in leftOut
         PROVE  Dist(p, target) <= Dist(x, target)
    <3>1. PICK i \in 1 .. k : p = q[i]
      BY <2>4, <2>5 DEF ToSet
    <3>2. PICK j \in k + 1 .. n : q[j] = x
      BY <2>11
    <3> QED
      BY <2>2, <3>1, <3>2 DEF Split
  <2>13. Len(samples) \in MinKrigingNeighbors .. k /\ ~(Len(samples) < k)
    BY <1>1, <2>4
  <2> QED
    BY <2>10, <2>12, <2>13 DEF Nearest, samples, k
<1> QED
  BY <1>1, <1>2, <1>5, <1>6

=============================================================================
