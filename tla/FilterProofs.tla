----------------------------- MODULE FilterProofs -----------------------------
(***************************************************************************)
(* That the covariance of the attitude filter is the one of the full       *)
(* products, and symmetric, for any prime, quaternions, rates, intervals,  *)
(* noise and number of updates.                                            *)
(*                                                                         *)
(* A sum is here Total(n, g), of the first n values of a function g: what  *)
(* a loop adds up, reducing after every term.  A short product is a full   *)
(* one because the terms it leaves out are zero, or all but one of them    *)
(* are.  The rest is the algebra of matrices over integers modulo a prime: *)
(* the product is associative and distributive, and transposing reverses   *)
(* it.  Of a covariance it is used that what is left out are the columns   *)
(* of the biases: zero in the Jacobians, those of the unit matrix in the   *)
(* transition, and never written in mat77, which is the invariant.         *)
(***************************************************************************)
EXTENDS AttitudeFilter, SequenceLemmas, FiniteSetTheorems, TLAPS

-----------------------------------------------------------------------------
(* The field *)

Field == 0 .. Modulus - 1

LEMMA Reduces ==
  /\ 0 \in Field /\ 1 \in Field /\ \A x \in Field : x \in Int /\ x + 0 = x
  /\ \A x \in Int : Reduced(x) \in Field
  /\ \A x \in Field : Reduced(x) = x
<1>1. Modulus \in Nat /\ Modulus > 1
  BY ModulusAssumption
<1>2. ASSUME NEW x \in Int PROVE x % Modulus \in 0 .. Modulus - 1
  BY <1>1
<1>3. ASSUME NEW x \in 0 .. Modulus - 1 PROVE x % Modulus = x
  BY <1>1
<1>4. QED
  BY <1>1, <1>2, <1>3 DEF Reduced, Field

-----------------------------------------------------------------------------
(* Sums *)

\* The partial sums of the first n values of g.
Adds(f, n, g) ==
  /\ f \in [0 .. n -> Field] /\ f[0] = 0
  /\ \A i \in 1 .. n : f[i] = Reduced(f[i - 1] + g[i - 1])

IsSum(n, g, v) == \E f : Adds(f, n, g) /\ v = f[n]

Total(n, g) == CHOOSE v : IsSum(n, g, v)

LEMMA SumsExist ==
  ASSUME NEW n \in Nat, NEW g, \A k \in 0 .. n - 1 : g[k] \in Int
  PROVE  \E f : Adds(f, n, g)
<1> DEFINE step == [p \in Nat \X Field |->
                      IF p[1] \in 1 .. n THEN Reduced(p[2] + g[p[1] - 1]) ELSE p[2]]
<1>1. ASSUME NEW p \in Nat \X Field
      PROVE  (IF p[1] \in 1 .. n THEN Reduced(p[2] + g[p[1] - 1]) ELSE p[2]) \in Field
  <2>1. p[2] \in Field /\ p[2] \in Int
    BY Reduces
  <2>2. CASE p[1] \in 1 .. n
    <3>1. p[1] - 1 \in 0 .. n - 1
      BY <2>2
    <3>2. p[2] + g[p[1] - 1] \in Int
      BY <2>1, <3>1
    <3>3. QED
      BY <2>2, <3>2, Reduces
  <2>3. QED
    BY <2>1, <2>2
<1>2. step \in [Nat \X Field -> Field]
  BY <1>1
<1>3. \A i \in 1 .. n, v \in Field : step[<<i, v>>] = Reduced(v + g[i - 1])
  <2> SUFFICES ASSUME NEW i \in 1 .. n, NEW v \in Field PROVE step[<<i, v>>] = Reduced(v + g[i - 1])
    OBVIOUS
  <2>1. <<i, v>> \in Nat \X Field /\ <<i, v>>[1] = i /\ <<i, v>>[2] = v
    OBVIOUS
  <2>2. QED
    BY <2>1
<1> HIDE DEF step
<1>4. PICK f \in [0 .. n -> Field] : Takes(f, n, 0, step)
  BY <1>2, Reduces, RecursionUpTo
<1>5. \A i \in 1 .. n : f[i] = Reduced(f[i - 1] + g[i - 1])
  <2> SUFFICES ASSUME NEW i \in 1 .. n PROVE f[i] = Reduced(f[i - 1] + g[i - 1])
    OBVIOUS
  <2>1. i - 1 \in 0 .. n
    OBVIOUS
  <2>2. QED
    BY <1>3, <1>4, <2>1 DEF Takes
<1>6. QED
  BY <1>4, <1>5 DEF Adds, Takes

LEMMA SumsAgree ==
  ASSUME NEW n \in Nat, NEW m \in Nat, n <= m, NEW f, NEW g, NEW h, NEW e,
         Adds(f, n, g), Adds(h, m, e), \A k \in 0 .. n - 1 : g[k] = e[k]
  PROVE  f[n] = h[n]
<1> DEFINE T == {i \in Nat : i <= n => f[i] = h[i]}
<1>1. 0 \in T
  BY DEF Adds
<1>2. ASSUME NEW i \in Nat, i \in T PROVE i + 1 \in T
  <2>1. CASE i + 1 <= n
    <3>1. f[i] = h[i] /\ i \in 0 .. n - 1 /\ i + 1 \in 1 .. n /\ i + 1 \in 1 .. m /\ (i + 1) - 1 = i
      BY <1>2, <2>1
    <3>2. f[i + 1] = Reduced(f[i] + g[i]) /\ h[i + 1] = Reduced(h[i] + e[i])
      BY <3>1 DEF Adds
    <3>3. QED
      BY <3>1, <3>2
  <2>2. QED
    BY <2>1
<1> HIDE DEF T
<1>3. \A i \in Nat : i \in T
  BY <1>1, <1>2, InductiveSet
<1>4. QED
  BY <1>3 DEF T

LEMMA TotalIs ==
  ASSUME NEW n \in Nat, NEW g, \A k \in 0 .. n - 1 : g[k] \in Int
  PROVE  /\ Total(n, g) \in Field
         /\ \E f : Adds(f, n, g) /\ Total(n, g) = f[n]
         /\ \A f : Adds(f, n, g) => Total(n, g) = f[n]
<1>1. PICK f : Adds(f, n, g)
  BY SumsExist
<1>2. IsSum(n, g, f[n])
  BY <1>1 DEF IsSum
<1>3. IsSum(n, g, Total(n, g))
  BY <1>2 DEF Total
<1>4. PICK h : Adds(h, n, g) /\ Total(n, g) = h[n]
  BY <1>3 DEF IsSum
<1>5. ASSUME NEW e, Adds(e, n, g) PROVE h[n] = e[n]
  BY <1>4, <1>5, SumsAgree
<1>6. h[n] \in Field
  BY <1>4 DEF Adds
<1>7. QED
  BY <1>4, <1>5, <1>6

\* Terms that are zero add nothing, but for one of them.
LEMMA TotalWithOne ==
  ASSUME NEW n \in Nat, NEW m \in Nat, NEW i \in n .. m - 1, NEW g, NEW h,
         \A k \in 0 .. n - 1 : g[k] \in Int /\ h[k] = g[k],
         h[i] \in Int, \A k \in n .. m - 1 : k = i \/ h[k] = 0
  PROVE  Total(m, h) = Reduced(Total(n, g) + h[i])
<1>1. \A k \in 0 .. m - 1 : h[k] \in Int
  <2> SUFFICES ASSUME NEW k \in 0 .. m - 1 PROVE h[k] \in Int
    OBVIOUS
  <2>1. k \in 0 .. n - 1 \/ k \in n .. m - 1
    OBVIOUS
  <2>2. QED
    BY <2>1
<1>2. PICK f : Adds(f, m, h) /\ Total(m, h) = f[m]
  BY <1>1, TotalIs
<1>3. PICK e : Adds(e, n, g) /\ Total(n, g) = e[n]
  BY TotalIs
<1>4. f[n] = Total(n, g) /\ f[n] \in Field
  <2>1. n <= m
    OBVIOUS
  <2>2. e[n] = f[n]
    BY <1>2, <1>3, <2>1, SumsAgree
  <2>3. QED
    BY <1>2, <1>3, <2>1, <2>2 DEF Adds
<1>5. /\ \A x \in Field : Reduced(x + 0) = x
      /\ Reduced(f[n] + h[i]) \in Field
  <2>1. \A x \in Field : Reduced(x + 0) = x
    BY Reduces
  <2>2. PICK v \in Int : v = f[n]
    BY <1>4, Reduces
  <2>3. PICK w \in Int : w = h[i]
    OBVIOUS
  <2>4. v + w \in Int
    OBVIOUS
  <2>5. QED
    BY <2>1, <2>2, <2>3, <2>4, Reduces
<1> DEFINE T == {d \in Nat : n + d <= m =>
                  f[n + d] = IF n + d <= i THEN f[n] ELSE Reduced(f[n] + h[i])}
<1>6. 0 \in T
  OBVIOUS
<1>7. ASSUME NEW d \in Nat, d \in T PROVE d + 1 \in T
  <2>1. CASE n + d + 1 <= m
    <3>1. f[n + d] = IF n + d <= i THEN f[n] ELSE Reduced(f[n] + h[i])
      BY <1>7, <2>1
    <3>2. PICK j \in n .. m - 1 : j = n + d
      BY <2>1
    <3>3. f[j + 1] = Reduced(f[j] + h[j])
      <4>1. j + 1 \in 1 .. m /\ (j + 1) - 1 = j
        OBVIOUS
      <4>2. QED
        BY <1>2, <4>1 DEF Adds
    <3>4. f[j] \in Field
      BY <1>4, <1>5, <3>1, <3>2
    <3>5. f[j + 1] = IF j + 1 <= i THEN f[n] ELSE Reduced(f[n] + h[i])
      <4>1. CASE j = i
        <5>1. f[j] = f[n] /\ ~ (j + 1 <= i)
          BY <3>1, <3>2, <4>1
        <5>2. QED
          BY <3>3, <4>1, <5>1
      <4>2. CASE j # i
        <5>1. f[j + 1] = f[j]
          BY <1>5, <3>3, <3>4, <4>2
        <5>2. j <= i <=> j + 1 <= i
          BY <4>2
        <5>3. QED
          BY <3>1, <3>2, <5>1, <5>2
      <4>3. QED
        BY <4>1, <4>2
    <3>6. n + (d + 1) = j + 1
      BY <3>2
    <3>7. QED
      BY <3>5, <3>6
  <2>2. CASE ~ (n + d + 1 <= m)
    <3>1. ~ (n + (d + 1) <= m)
      BY <2>2
    <3>2. QED
      BY <3>1
  <2>3. QED
    BY <2>1, <2>2
<1>8. \A d \in Nat : d \in T
  <2> HIDE DEF T
  <2>1. QED
    BY <1>6, <1>7, InductiveSet
<1>9. m - n \in Nat /\ n + (m - n) = m /\ ~ (m <= i)
  OBVIOUS
<1>10. f[m] = Reduced(f[n] + h[i])
  <2>1. m - n \in T
    BY <1>8, <1>9
  <2>2. QED
    BY <1>9, <2>1
<1>11. QED
  BY <1>2, <1>4, <1>10

LEMMA TotalExtends ==
  ASSUME NEW n \in Nat, NEW m \in Nat, n <= m, NEW g, NEW h,
         \A k \in 0 .. n - 1 : g[k] \in Int /\ h[k] = g[k],
         \A k \in n .. m - 1 : h[k] = 0
  PROVE  Total(m, h) = Total(n, g)
<1>1. Total(n, g) \in Field
  BY TotalIs
<1>2. CASE n = m
  <2>1. PICK f : Adds(f, m, h) /\ Total(m, h) = f[m]
    BY <1>2, TotalIs
  <2>2. PICK e : Adds(e, n, g) /\ Total(n, g) = e[n]
    BY TotalIs
  <2>3. e[n] = f[n]
    BY <2>1, <2>2, SumsAgree
  <2>4. QED
    BY <1>2, <2>1, <2>2, <2>3
<1>3. CASE n < m
  <2>1. n \in n .. m - 1 /\ h[n] = 0 /\ h[n] \in Int
    BY <1>3
  <2>2. Total(m, h) = Reduced(Total(n, g) + h[n])
    BY <2>1, TotalWithOne
  <2>3. Total(n, g) + 0 = Total(n, g)
    BY <1>1, Reduces
  <2>4. QED
    BY <1>1, <2>1, <2>2, <2>3, Reduces
<1>4. QED
  BY <1>2, <1>3

-----------------------------------------------------------------------------
(* Sums that the products of matrices are made of *)

Products(A, B, n, i, j) == [k \in 0 .. n - 1 |-> A[i][k] * B[k][j]]

RowProducts(A, B, n, i, j) == [k \in 0 .. n - 1 |-> A[i][k] * B[j][k]]

\* What the loop of SumBelow() adds up.
Looped(f, n, g) == f = [k \in 0 .. n |-> IF k = 0 THEN 0 ELSE Reduced(f[k - 1] + g[k - 1])]

LEMMA LoopedIs ==
  ASSUME NEW n \in Nat, NEW g, \A k \in 0 .. n - 1 : g[k] \in Int
  PROVE  /\ \E f : Looped(f, n, g)
         /\ \A f : Looped(f, n, g) => f[n] = Total(n, g)
<1>1. PICK f : Adds(f, n, g) /\ Total(n, g) = f[n]
  BY TotalIs
<1>2. Looped(f, n, g)
  <2>1. ASSUME NEW k \in 0 .. n
        PROVE  f[k] = IF k = 0 THEN 0 ELSE Reduced(f[k - 1] + g[k - 1])
    <3>1. k = 0 \/ k \in 1 .. n
      OBVIOUS
    <3>2. QED
      BY <1>1, <3>1 DEF Adds
  <2>2. f = [k \in 0 .. n |-> f[k]]
    BY <1>1 DEF Adds
  <2>3. QED
    BY <2>1, <2>2 DEF Looped
<1>3. ASSUME NEW h, Looped(h, n, g) PROVE h[n] = f[n]
  <2>1. \A k \in 0 .. n : h[k] = IF k = 0 THEN 0 ELSE Reduced(h[k - 1] + g[k - 1])
    BY <1>3 DEF Looped
  <2> DEFINE T == {k \in Nat : k <= n => h[k] = f[k]}
  <2>2. 0 \in T
    BY <1>1, <2>1 DEF Adds
  <2>3. ASSUME NEW k \in Nat, k \in T PROVE k + 1 \in T
    <3>1. CASE k + 1 <= n
      <4>1. k + 1 \in 0 .. n /\ k + 1 # 0 /\ (k + 1) - 1 = k /\ k + 1 \in 1 .. n
        BY <3>1
      <4>2. h[k + 1] = Reduced(h[k] + g[k]) /\ f[k + 1] = Reduced(f[k] + g[k])
        BY <1>1, <2>1, <4>1 DEF Adds
      <4>3. h[k] = f[k]
        BY <2>3, <3>1
      <4>4. QED
        BY <4>2, <4>3
    <3>2. QED
      BY <3>1
  <2> HIDE DEF T
  <2>4. \A k \in Nat : k \in T
    BY <2>2, <2>3, InductiveSet
  <2>5. QED
    BY <2>4 DEF T
<1>4. QED
  BY <1>1, <1>2, <1>3

LEMMA SumIsDot ==
  ASSUME NEW A, NEW B, NEW n \in Nat, NEW i, NEW j,
         \A k \in 0 .. n - 1 : A[i][k] * B[k][j] \in Int
  PROVE  /\ Dot(A, B, n, i, j) = Total(n, Products(A, B, n, i, j))
         /\ Dot(A, B, n, i, j) \in Field
<1> DEFINE g == [k \in 0 .. n - 1 |-> A[i][k] * B[k][j]]
           Def(f) == f = [k \in 0 .. n |-> IF k = 0 THEN 0
                                           ELSE Reduced(f[k - 1] + A[i][k - 1] * B[k - 1][j])]
           sum == CHOOSE f : Def(f)
<1>1. \A k \in 0 .. n - 1 : g[k] = A[i][k] * B[k][j] /\ g[k] \in Int
  OBVIOUS
<1>2. Dot(A, B, n, i, j) = sum[n]
  BY DEF Dot, SumBelow
<1> HIDE DEF g
<1>3. ASSUME NEW f PROVE Def(f) <=> Looped(f, n, g)
  <2>1. \A k \in 0 .. n : k # 0 => k - 1 \in 0 .. n - 1
    OBVIOUS
  <2>2. \A k \in 0 .. n : (IF k = 0 THEN 0 ELSE Reduced(f[k - 1] + A[i][k - 1] * B[k - 1][j]))
                         = IF k = 0 THEN 0 ELSE Reduced(f[k - 1] + g[k - 1])
    BY <1>1, <2>1
  <2>3. QED
    BY <2>2 DEF Looped
<1> HIDE DEF Def
<1>4. Def(sum)
  BY <1>1, <1>3, LoopedIs
<1> HIDE DEF sum
<1>5. sum[n] = Total(n, g) /\ Total(n, g) \in Field
  BY <1>1, <1>3, <1>4, LoopedIs, TotalIs
<1>6. Products(A, B, n, i, j) = g
  BY DEF Products, g
<1>7. QED
  BY <1>2, <1>5, <1>6

LEMMA SumIsDotRows ==
  ASSUME NEW A, NEW B, NEW n \in Nat, NEW i, NEW j,
         \A k \in 0 .. n - 1 : A[i][k] * B[j][k] \in Int
  PROVE  /\ DotRows(A, B, n, i, j) = Total(n, RowProducts(A, B, n, i, j))
         /\ DotRows(A, B, n, i, j) \in Field
<1> DEFINE g == [k \in 0 .. n - 1 |-> A[i][k] * B[j][k]]
           Def(f) == f = [k \in 0 .. n |-> IF k = 0 THEN 0
                                           ELSE Reduced(f[k - 1] + A[i][k - 1] * B[j][k - 1])]
           sum == CHOOSE f : Def(f)
<1>1. \A k \in 0 .. n - 1 : g[k] = A[i][k] * B[j][k] /\ g[k] \in Int
  OBVIOUS
<1>2. DotRows(A, B, n, i, j) = sum[n]
  BY DEF DotRows, SumBelow
<1> HIDE DEF g
<1>3. ASSUME NEW f PROVE Def(f) <=> Looped(f, n, g)
  <2>1. \A k \in 0 .. n : k # 0 => k - 1 \in 0 .. n - 1
    OBVIOUS
  <2>2. \A k \in 0 .. n : (IF k = 0 THEN 0 ELSE Reduced(f[k - 1] + A[i][k - 1] * B[j][k - 1]))
                         = IF k = 0 THEN 0 ELSE Reduced(f[k - 1] + g[k - 1])
    BY <1>1, <2>1
  <2>3. QED
    BY <2>2 DEF Looped
<1> HIDE DEF Def
<1>4. Def(sum)
  BY <1>1, <1>3, LoopedIs
<1> HIDE DEF sum
<1>5. sum[n] = Total(n, g) /\ Total(n, g) \in Field
  BY <1>1, <1>3, <1>4, LoopedIs, TotalIs
<1>6. RowProducts(A, B, n, i, j) = g
  BY DEF RowProducts, g
<1>7. QED
  BY <1>2, <1>5, <1>6

-----------------------------------------------------------------------------
(* Matrices *)

Positive == Nat \ {0}

\* A matrix over the field.
IsMat(A, r, c) == A \in [Idx(r) -> [Idx(c) -> Field]]

LEMMA EvaluatedIs == \A f : Evaluated(f) = f
BY DEF Evaluated

LEMMA ShapeIs ==
  ASSUME NEW r \in Positive, NEW c \in Positive, NEW A, IsMat(A, r, c)
  PROVE  /\ MatRow(A) = r /\ MatCol(A) = c
         /\ \A i \in Idx(r), j \in Idx(c) : A[i][j] \in Field /\ A[i][j] \in Int
<1>1. DOMAIN A = 0 .. r - 1 /\ \A i \in 0 .. r - 1 : A[i] \in [0 .. c - 1 -> Field]
  BY DEF IsMat, Idx
<1>2. 0 \in 0 .. r - 1
  BY DEF Positive
<1>3. DOMAIN A[0] = 0 .. c - 1
  BY <1>1, <1>2
<1>4. ASSUME NEW n \in Positive PROVE Cardinality(0 .. n - 1) = n
  <2>1. n - 1 \in Int /\ ~ (0 > n - 1) /\ (n - 1) - 0 + 1 = n
    BY DEF Positive
  <2>2. QED
    BY <2>1, FS_Interval
<1>5. MatRow(A) = r /\ MatCol(A) = c
  BY <1>1, <1>3, <1>4 DEF MatRow, MatCol
<1>6. \A i \in Idx(r), j \in Idx(c) : A[i][j] \in Field
  BY <1>1 DEF Idx
<1>7. QED
  BY <1>5, <1>6, Reduces

LEMMA SameMat ==
  ASSUME NEW r, NEW c, NEW A, NEW B, IsMat(A, r, c), IsMat(B, r, c),
         \A i \in Idx(r), j \in Idx(c) : A[i][j] = B[i][j]
  PROVE  A = B
BY DEF IsMat

LEMMA ProductIsInt ==
  ASSUME NEW x \in Int, NEW y \in Int
  PROVE  /\ x * y \in Int /\ x + y \in Int /\ x - y \in Int
         /\ 0 * x = 0 /\ x * 0 = 0 /\ 1 * x = x /\ 0 + x = x
OBVIOUS

IsDot(A, B, p, i, j, g) ==
  /\ Dot(A, B, p, i, j) = Total(p, g)
  /\ \A k \in 0 .. p - 1 : g[k] = A[i][k] * B[k][j] /\ A[i][k] * B[k][j] \in Int

LEMMA DotIs ==
  ASSUME NEW r \in Positive, NEW n \in Positive, NEW c \in Positive,
         NEW A, NEW B, IsMat(A, r, n), IsMat(B, n, c),
         NEW i \in Idx(r), NEW j \in Idx(c), NEW p \in 0 .. n
  PROVE  /\ p \in Nat /\ Dot(A, B, p, i, j) \in Field
         /\ IsDot(A, B, p, i, j, Products(A, B, p, i, j))
<1>1. p \in Nat /\ \A k \in 0 .. p - 1 : k \in Idx(n)
  BY DEF Positive, Idx
<1>2. \A k \in 0 .. p - 1 : A[i][k] \in Int /\ B[k][j] \in Int
  BY <1>1, ShapeIs
<1>3. \A k \in 0 .. p - 1 : A[i][k] * B[k][j] \in Int
  BY <1>2, ProductIsInt
<1>4. QED
  BY <1>1, <1>3, SumIsDot DEF Products, IsDot

\* The terms of the sum of a product from p on below n are zero.
ZeroTerms(A, B, i, j, p, n) == \A k \in p .. n - 1 : A[i][k] = 0 \/ B[k][j] = 0

LEMMA DotZeros ==
  ASSUME NEW r \in Positive, NEW n \in Positive, NEW c \in Positive,
         NEW A, NEW B, IsMat(A, r, n), IsMat(B, n, c),
         NEW i \in Idx(r), NEW j \in Idx(c), NEW p \in 0 .. n,
         ZeroTerms(A, B, i, j, p, n)
  PROVE  Dot(A, B, p, i, j) = Dot(A, B, n, i, j)
<1> USE DEF ZeroTerms
<1>1. n \in 0 .. n /\ p <= n /\ n \in Nat /\ \A k \in 0 .. p - 1 : k \in 0 .. n - 1
  BY DEF Positive
<1>2. PICK g : p \in Nat /\ IsDot(A, B, p, i, j, g)
  BY DotIs
<1>3. PICK h : IsDot(A, B, n, i, j, h)
  BY <1>1, DotIs
<1> USE DEF IsDot
<1>4. \A k \in p .. n - 1 : h[k] = 0
  <2> SUFFICES ASSUME NEW k \in p .. n - 1 PROVE h[k] = 0
    OBVIOUS
  <2>1. k \in 0 .. n - 1 /\ k \in Idx(n)
    BY <1>2 DEF Idx, Positive
  <2>2. A[i][k] \in Int /\ B[k][j] \in Int
    BY <2>1, ShapeIs
  <2>3. A[i][k] * B[k][j] = 0
    BY <2>2, ProductIsInt
  <2>4. QED
    BY <1>3, <2>1, <2>3
<1>5. Total(n, h) = Total(p, g)
  <2>1. \A k \in 0 .. p - 1 : g[k] \in Int /\ h[k] = g[k]
    BY <1>1, <1>2, <1>3
  <2>2. QED
    BY <1>1, <1>2, <1>4, <2>1, TotalExtends
<1>6. QED
  BY <1>2, <1>3, <1>5

\* Of the entries of row i of A, column j of B, from p on below n only that of q is not
\* zero, and is one.
OneInRow(A, i, p, n, q) ==
  q \in p .. n - 1 /\ A[i][q] = 1 /\ \A k \in p .. n - 1 : k = q \/ A[i][k] = 0

OneInColumn(B, j, p, n, q) ==
  q \in p .. n - 1 /\ B[q][j] = 1 /\ \A k \in p .. n - 1 : k = q \/ B[k][j] = 0

LEMMA DotOne ==
  ASSUME NEW r \in Positive, NEW n \in Positive, NEW c \in Positive,
         NEW A, NEW B, IsMat(A, r, n), IsMat(B, n, c),
         NEW i \in Idx(r), NEW j \in Idx(c), NEW p \in 0 .. n, NEW q,
         OneInRow(A, i, p, n, q)
  PROVE  Dot(A, B, n, i, j) = Reduced(Dot(A, B, p, i, j) + B[q][j])
<1>1. n \in 0 .. n /\ n \in Nat /\ \A k \in 0 .. p - 1 : k \in 0 .. n - 1
  BY DEF Positive
<1> USE DEF OneInRow
<1>2. PICK g : p \in Nat /\ IsDot(A, B, p, i, j, g)
  BY DotIs
<1>3. PICK h : IsDot(A, B, n, i, j, h)
  BY <1>1, DotIs
<1> USE DEF IsDot
<1>4. ASSUME NEW k \in p .. n - 1
      PROVE  /\ h[k] = A[i][k] * B[k][j]
             /\ k # q => h[k] = 0
             /\ k = q => h[k] = B[q][j] /\ h[k] \in Int
  <2>1. k \in 0 .. n - 1 /\ k \in Idx(n)
    BY <1>2 DEF Idx, Positive
  <2>2. A[i][k] \in Int /\ B[k][j] \in Int
    BY <2>1, ShapeIs
  <2>3. PICK y \in Int : y = B[k][j]
    BY <2>2
  <2>4. 0 * y = 0 /\ 1 * y = y
    OBVIOUS
  <2>5. QED
    BY <1>3, <2>1, <2>3, <2>4
<1>5. Total(n, h) = Reduced(Total(p, g) + h[q])
  <2>1. \A k \in 0 .. p - 1 : g[k] \in Int /\ h[k] = g[k]
    BY <1>1, <1>2, <1>3
  <2>2. h[q] \in Int /\ \A k \in p .. n - 1 : k = q \/ h[k] = 0
    BY <1>4
  <2>3. p \in Nat /\ n \in Nat /\ q \in p .. n - 1
    BY <1>1, <1>2
  <2> HIDE DEF IsDot, OneInRow, OneInColumn
  <2>4. QED
    BY <2>1, <2>2, <2>3, TotalWithOne
<1>6. QED
  BY <1>2, <1>3, <1>4, <1>5

LEMMA DotOneColumn ==
  ASSUME NEW r \in Positive, NEW n \in Positive, NEW c \in Positive,
         NEW A, NEW B, IsMat(A, r, n), IsMat(B, n, c),
         NEW i \in Idx(r), NEW j \in Idx(c), NEW p \in 0 .. n, NEW q,
         OneInColumn(B, j, p, n, q)
  PROVE  Dot(A, B, n, i, j) = Reduced(Dot(A, B, p, i, j) + A[i][q])
<1>1. n \in 0 .. n /\ n \in Nat /\ \A k \in 0 .. p - 1 : k \in 0 .. n - 1
  BY DEF Positive
<1> USE DEF OneInColumn
<1>2. PICK g : p \in Nat /\ IsDot(A, B, p, i, j, g)
  BY DotIs
<1>3. PICK h : IsDot(A, B, n, i, j, h)
  BY <1>1, DotIs
<1> USE DEF IsDot
<1>4. ASSUME NEW k \in p .. n - 1
      PROVE  /\ h[k] = A[i][k] * B[k][j]
             /\ k # q => h[k] = 0
             /\ k = q => h[k] = A[i][q] /\ h[k] \in Int
  <2>1. k \in 0 .. n - 1 /\ k \in Idx(n)
    BY <1>2 DEF Idx, Positive
  <2>2. A[i][k] \in Int /\ B[k][j] \in Int
    BY <2>1, ShapeIs
  <2>3. PICK y \in Int : y = A[i][k]
    BY <2>2
  <2>4. y * 0 = 0 /\ y * 1 = y
    OBVIOUS
  <2>5. QED
    BY <1>3, <2>1, <2>3, <2>4
<1>5. Total(n, h) = Reduced(Total(p, g) + h[q])
  <2>1. \A k \in 0 .. p - 1 : g[k] \in Int /\ h[k] = g[k]
    BY <1>1, <1>2, <1>3
  <2>2. h[q] \in Int /\ \A k \in p .. n - 1 : k = q \/ h[k] = 0
    BY <1>4
  <2>3. p \in Nat /\ n \in Nat /\ q \in p .. n - 1
    BY <1>1, <1>2
  <2> HIDE DEF IsDot, OneInRow, OneInColumn
  <2>4. QED
    BY <2>1, <2>2, <2>3, TotalWithOne
<1>6. QED
  BY <1>2, <1>3, <1>4, <1>5

LEMMA DotNone ==
  ASSUME NEW A, NEW B, NEW i, NEW j
  PROVE  Dot(A, B, 0, i, j) = 0
<1>1. Dot(A, B, 0, i, j) = Total(0, Products(A, B, 0, i, j))
  BY SumIsDot
<1>2. PICK f : Adds(f, 0, Products(A, B, 0, i, j)) /\ Total(0, Products(A, B, 0, i, j)) = f[0]
  BY TotalIs
<1>3. QED
  BY <1>1, <1>2 DEF Adds

-----------------------------------------------------------------------------
(* The functions of the matrix package, entry by entry *)

LEMMA MulIs ==
  ASSUME NEW r \in Positive, NEW n \in Positive, NEW c \in Positive,
         NEW A, NEW B, IsMat(A, r, n), IsMat(B, n, c)
  PROVE  /\ IsMat(mat_mul(A, B), r, c)
         /\ \A i \in Idx(r), j \in Idx(c) : mat_mul(A, B)[i][j] = Dot(A, B, n, i, j)
<1>1. MatRow(A) = r /\ MatCol(A) = n /\ MatCol(B) = c
  BY ShapeIs
<1>2. mat_mul(A, B) = [i \in Idx(r) |-> [j \in Idx(c) |-> Reduced(Dot(A, B, n, i, j))]]
  BY <1>1, EvaluatedIs DEF mat_mul, Matrix
<1>3. ASSUME NEW i \in Idx(r), NEW j \in Idx(c)
      PROVE  Dot(A, B, n, i, j) \in Field /\ Reduced(Dot(A, B, n, i, j)) = Dot(A, B, n, i, j)
  <2>1. n \in 0 .. n
    BY DEF Positive
  <2>2. QED
    BY <2>1, DotIs, Reduces
<1>4. QED
  BY <1>2, <1>3 DEF IsMat

LEMMA AddIs ==
  ASSUME NEW r \in Positive, NEW c \in Positive,
         NEW A, NEW B, IsMat(A, r, c), IsMat(B, r, c)
  PROVE  /\ IsMat(mat_add(A, B), r, c)
         /\ \A i \in Idx(r), j \in Idx(c) : mat_add(A, B)[i][j] = Reduced(A[i][j] + B[i][j])
<1>1. MatRow(A) = r /\ MatCol(A) = c
  BY ShapeIs
<1>2. mat_add(A, B) = [i \in Idx(r) |-> [j \in Idx(c) |-> Reduced(A[i][j] + B[i][j])]]
  BY <1>1, EvaluatedIs DEF mat_add, Matrix
<1>3. ASSUME NEW i \in Idx(r), NEW j \in Idx(c) PROVE Reduced(A[i][j] + B[i][j]) \in Field
  <2>1. A[i][j] \in Int /\ B[i][j] \in Int
    BY ShapeIs
  <2>2. A[i][j] + B[i][j] \in Int
    BY <2>1, ProductIsInt
  <2>3. QED
    BY <2>2, Reduces
<1>4. QED
  BY <1>2, <1>3 DEF IsMat

LEMMA SubIs ==
  ASSUME NEW r \in Positive, NEW c \in Positive,
         NEW A, NEW B, IsMat(A, r, c), IsMat(B, r, c)
  PROVE  /\ IsMat(mat_sub(A, B), r, c)
         /\ \A i \in Idx(r), j \in Idx(c) : mat_sub(A, B)[i][j] = Reduced(A[i][j] - B[i][j])
         /\ \A i \in Idx(r), j \in Idx(c) : B[i][j] = 0 => mat_sub(A, B)[i][j] = A[i][j]
<1>1. MatRow(A) = r /\ MatCol(A) = c
  BY ShapeIs
<1>2. mat_sub(A, B) = [i \in Idx(r) |-> [j \in Idx(c) |-> Reduced(A[i][j] - B[i][j])]]
  BY <1>1, EvaluatedIs DEF mat_sub, Matrix
<1>3. ASSUME NEW i \in Idx(r), NEW j \in Idx(c)
      PROVE  /\ Reduced(A[i][j] - B[i][j]) \in Field
             /\ B[i][j] = 0 => Reduced(A[i][j] - B[i][j]) = A[i][j]
  <2>1. A[i][j] \in Int /\ A[i][j] \in Field /\ B[i][j] \in Int
    BY ShapeIs
  <2>2. PICK x \in Int, y \in Int : x = A[i][j] /\ y = B[i][j]
    BY <2>1
  <2>3. x - y \in Int /\ (y = 0 => x - y = x)
    OBVIOUS
  <2>4. QED
    BY <2>1, <2>2, <2>3, Reduces
<1>4. QED
  BY <1>2, <1>3 DEF IsMat

LEMMA TranIs ==
  ASSUME NEW r \in Positive, NEW c \in Positive, NEW A, IsMat(A, r, c)
  PROVE  /\ IsMat(mat_tran(A), c, r)
         /\ \A i \in Idx(r), j \in Idx(c) : mat_tran(A)[j][i] = A[i][j]
<1>1. MatRow(A) = r /\ MatCol(A) = c
  BY ShapeIs
<1>2. mat_tran(A) = [j \in Idx(c) |-> [i \in Idx(r) |-> Reduced(A[i][j])]]
  BY <1>1, EvaluatedIs DEF mat_tran, Matrix
<1>3. \A i \in Idx(r), j \in Idx(c) : A[i][j] \in Field /\ Reduced(A[i][j]) = A[i][j]
  BY ShapeIs, Reduces
<1>4. QED
  BY <1>2, <1>3 DEF IsMat

\* Rows against rows are rows against the columns of the transposed matrix.
LEMMA DotRowsIs ==
  ASSUME NEW r \in Positive, NEW n \in Positive, NEW c \in Positive,
         NEW A, NEW B, IsMat(A, r, n), IsMat(B, c, n),
         NEW i \in Idx(r), NEW j \in Idx(c), NEW p \in 0 .. n
  PROVE  DotRows(A, B, p, i, j) = Dot(A, mat_tran(B), p, i, j)
<1>1. IsMat(mat_tran(B), n, c) /\ \A k \in Idx(n) : mat_tran(B)[k][j] = B[j][k]
  BY TranIs
<1>2. PICK C : C = mat_tran(B)
  OBVIOUS
<1>3. p \in Nat /\ \A k \in 0 .. p - 1 : k \in Idx(n)
  BY DEF Positive, Idx
<1>4. PICK g : /\ IsDot(A, C, p, i, j, g) /\ g = Products(A, C, p, i, j)
  BY <1>1, <1>2, DotIs
<1>5. RowProducts(A, B, p, i, j) = g
  BY <1>1, <1>2, <1>3, <1>4 DEF RowProducts, Products
<1>6. \A k \in 0 .. p - 1 : A[i][k] * B[j][k] \in Int
  BY <1>1, <1>2, <1>3, <1>4 DEF IsDot
<1>7. DotRows(A, B, p, i, j) = Total(p, g)
  BY <1>3, <1>5, <1>6, SumIsDotRows
<1>8. QED
  BY <1>2, <1>4, <1>7 DEF IsDot

-----------------------------------------------------------------------------
(* The short products are the full ones *)

\* The columns of the gyro biases are zero.
NoBias(M, r) == \A i \in Idx(r), j \in BiasIdx : M[i][j] = 0

\* The rows of the gyro biases are those of the unit matrix.
UnitBias(F) == \A i \in BiasIdx, k \in Idx(7) : F[i][k] = IF i = k THEN 1 ELSE 0

LEMMA SevenIs ==
  /\ 7 \in Positive /\ 7 \in 0 .. 7 /\ 4 \in 0 .. 7 /\ 7 - 3 = 4
  /\ BiasIdx = 4 .. 7 - 1 /\ BiasIdx \subseteq Idx(7) /\ QuatIdx \subseteq Idx(7)
  /\ \A i \in Idx(7) : i \in Nat /\ (i \in BiasIdx <=> ~ (i < 4)) /\ (i \in QuatIdx <=> i < 4)
BY DEF Positive, BiasIdx, QuatIdx, Idx

\* A row of the unit matrix times B is a row of B.
LEMMA UnitRowPicks ==
  ASSUME NEW r \in Positive, NEW n \in Positive, NEW c \in Positive,
         NEW F, NEW B, IsMat(F, r, n), IsMat(B, n, c),
         NEW i \in Idx(r), NEW q \in Idx(n), NEW j \in Idx(c),
         OneInRow(F, i, 0, n, q)
  PROVE  Dot(F, B, n, i, j) = B[q][j]
<1>1. 0 \in 0 .. n
  BY DEF Positive
<1>3. Dot(F, B, n, i, j) = Reduced(Dot(F, B, 0, i, j) + B[q][j])
  BY <1>1, DotOne
<1>4. B[q][j] \in Field /\ B[q][j] \in Int
  BY <1>1, ShapeIs
<1>5. 0 + B[q][j] = B[q][j]
  BY <1>4, ProductIsInt
<1>6. QED
  BY <1>3, <1>4, <1>5, DotNone, Reduces

\* A times a column of the unit matrix is a column of A.
LEMMA UnitColumnPicks ==
  ASSUME NEW r \in Positive, NEW n \in Positive, NEW c \in Positive,
         NEW A, NEW B, IsMat(A, r, n), IsMat(B, n, c),
         NEW i \in Idx(r), NEW q \in Idx(n), NEW j \in Idx(c),
         OneInColumn(B, j, 0, n, q)
  PROVE  Dot(A, B, n, i, j) = A[i][q]
<1>1. 0 \in 0 .. n
  BY DEF Positive
<1>3. Dot(A, B, n, i, j) = Reduced(Dot(A, B, 0, i, j) + A[i][q])
  BY <1>1, DotOneColumn
<1>4. A[i][q] \in Field /\ A[i][q] \in Int
  BY <1>1, ShapeIs
<1>5. 0 + A[i][q] = A[i][q]
  BY <1>4, ProductIsInt
<1>6. QED
  BY <1>3, <1>4, <1>5, DotNone, Reduces

LEMMA MyMul2IsMul ==
  ASSUME NEW F, NEW B, IsMat(F, 7, 7), IsMat(B, 7, 7), UnitBias(F)
  PROVE  mat_mymul2(F, B) = mat_mul(F, B)
<1>1. MatRow(F) = 7 /\ MatCol(F) = 7 /\ MatCol(B) = 7
  BY SevenIs, ShapeIs
<1>2. mat_mymul2(F, B) = [i \in Idx(7) |-> [j \in Idx(7) |->
          Reduced(IF i \in BiasIdx THEN B[i][j] ELSE Dot(F, B, 7, i, j))]]
  BY <1>1, EvaluatedIs DEF mat_mymul2, Matrix
<1>3. ASSUME NEW i \in Idx(7), NEW j \in Idx(7)
      PROVE  Reduced(IF i \in BiasIdx THEN B[i][j] ELSE Dot(F, B, 7, i, j)) = Dot(F, B, 7, i, j)
  <2>1. Dot(F, B, 7, i, j) \in Field
    BY SevenIs, DotIs
  <2>2. CASE i \in BiasIdx
    <3>1. Dot(F, B, 7, i, j) = B[i][j]
      <4>1. OneInRow(F, i, 0, 7, i)
        BY <2>2 DEF UnitBias, OneInRow, Idx
      <4>2. QED
        BY <4>1, SevenIs, UnitRowPicks
    <3>2. QED
      BY <2>1, <2>2, <3>1, Reduces
  <2>3. CASE i \notin BiasIdx
    BY <2>1, <2>3, Reduces
  <2>4. QED
    BY <2>2, <2>3
<1>4. /\ IsMat(mat_mul(F, B), 7, 7)
      /\ \A i \in Idx(7), j \in Idx(7) : mat_mul(F, B)[i][j] = Dot(F, B, 7, i, j)
  BY SevenIs, MulIs
<1>5. \A i \in Idx(7), j \in Idx(7) :
        mat_mymul2(F, B)[i][j] = mat_mul(F, B)[i][j] /\ mat_mymul2(F, B)[i][j] \in Field
  BY <1>2, <1>3, <1>4 DEF IsMat
<1>6. IsMat(mat_mymul2(F, B), 7, 7)
  BY <1>2, <1>5 DEF IsMat
<1>7. QED
  BY <1>4, <1>5, <1>6, SameMat

LEMMA MyMul3IsMul ==
  ASSUME NEW A, NEW F, IsMat(A, 7, 7), IsMat(F, 7, 7), UnitBias(F)
  PROVE  mat_mymul3(A, F) = mat_mul(A, mat_tran(F))
<1>1. MatRow(A) = 7 /\ MatCol(A) = 7 /\ MatCol(F) = 7
  BY SevenIs, ShapeIs
<1>2. mat_mymul3(A, F) = [i \in Idx(7) |-> [j \in Idx(7) |->
          Reduced(IF j \in BiasIdx THEN A[i][j] ELSE DotRows(A, F, 7, i, j))]]
  BY <1>1, EvaluatedIs DEF mat_mymul3, Matrix
<1>3. PICK G : G = mat_tran(F)
  OBVIOUS
<1>4. IsMat(G, 7, 7) /\ \A i \in Idx(7), j \in Idx(7) : G[j][i] = F[i][j]
  BY <1>3, SevenIs, TranIs
<1>5. ASSUME NEW i \in Idx(7), NEW j \in Idx(7)
      PROVE  /\ DotRows(A, F, 7, i, j) = Dot(A, G, 7, i, j) /\ Dot(A, G, 7, i, j) \in Field
             /\ j \in BiasIdx => Dot(A, G, 7, i, j) = A[i][j]
  <2>1. DotRows(A, F, 7, i, j) = Dot(A, G, 7, i, j)
    BY <1>3, SevenIs, DotRowsIs
  <2>2. Dot(A, G, 7, i, j) \in Field
    BY <1>4, SevenIs, DotIs
  <2>3. ASSUME j \in BiasIdx PROVE Dot(A, G, 7, i, j) = A[i][j]
    <3>1. OneInColumn(G, j, 0, 7, j)
      BY <1>4, <2>3 DEF UnitBias, OneInColumn, Idx
    <3>2. QED
      BY <1>4, <3>1, SevenIs, UnitColumnPicks
  <2>4. QED
    BY <2>1, <2>2, <2>3
<1>6. /\ IsMat(mat_mul(A, G), 7, 7)
      /\ \A i \in Idx(7), j \in Idx(7) : mat_mul(A, G)[i][j] = Dot(A, G, 7, i, j)
  BY <1>4, SevenIs, MulIs
<1>7. \A i \in Idx(7), j \in Idx(7) :
        Reduced(IF j \in BiasIdx THEN A[i][j] ELSE DotRows(A, F, 7, i, j)) = mat_mul(A, G)[i][j]
  BY <1>5, <1>6, Reduces
<1>8. \A i \in Idx(7), j \in Idx(7) :
        mat_mymul3(A, F)[i][j] = mat_mul(A, G)[i][j] /\ mat_mymul3(A, F)[i][j] \in Field
  BY <1>2, <1>6, <1>7 DEF IsMat
<1>9. IsMat(mat_mymul3(A, F), 7, 7)
  BY <1>2, <1>8 DEF IsMat
<1>10. QED
  BY <1>3, <1>6, <1>8, <1>9, SameMat

LEMMA MyMul4IsMul ==
  ASSUME NEW r \in Positive, NEW P, NEW H, IsMat(P, 7, 7), IsMat(H, r, 7), NoBias(H, r)
  PROVE  mat_mymul4(P, H, 3) = mat_mul(P, mat_tran(H))
<1>1. MatRow(P) = 7 /\ MatCol(P) = 7 /\ MatRow(H) = r
  BY SevenIs, ShapeIs
<1>2. mat_mymul4(P, H, 3) = [i \in Idx(7) |-> [j \in Idx(r) |-> Reduced(DotRows(P, H, 4, i, j))]]
  BY <1>1, SevenIs, EvaluatedIs DEF mat_mymul4, Matrix
<1>3. PICK G : G = mat_tran(H)
  OBVIOUS
<1>4. IsMat(G, 7, r) /\ \A i \in Idx(r), j \in Idx(7) : G[j][i] = H[i][j]
  BY <1>3, SevenIs, TranIs
<1>5. /\ IsMat(mat_mul(P, G), 7, r)
      /\ \A i \in Idx(7), j \in Idx(r) : mat_mul(P, G)[i][j] = Dot(P, G, 7, i, j)
  BY <1>4, SevenIs, MulIs
<1>6. ASSUME NEW i \in Idx(7), NEW j \in Idx(r)
      PROVE  Reduced(DotRows(P, H, 4, i, j)) = Dot(P, G, 7, i, j) /\ Dot(P, G, 7, i, j) \in Field
  <2>1. DotRows(P, H, 4, i, j) = Dot(P, G, 4, i, j)
    BY <1>3, SevenIs, DotRowsIs
  <2>2. ZeroTerms(P, G, i, j, 4, 7)
    BY <1>4, SevenIs DEF NoBias, ZeroTerms
  <2>3. Dot(P, G, 4, i, j) = Dot(P, G, 7, i, j)
    BY <1>4, <2>2, SevenIs, DotZeros
  <2>4. Dot(P, G, 7, i, j) \in Field
    BY <1>4, SevenIs, DotIs
  <2>5. QED
    BY <2>1, <2>3, <2>4, Reduces
<1>7. \A i \in Idx(7), j \in Idx(r) :
        mat_mymul4(P, H, 3)[i][j] = mat_mul(P, G)[i][j] /\ mat_mymul4(P, H, 3)[i][j] \in Field
  BY <1>2, <1>5, <1>6
<1>8. IsMat(mat_mymul4(P, H, 3), 7, r)
  BY <1>2, <1>7 DEF IsMat
<1>9. QED
  BY <1>3, <1>5, <1>7, <1>8, SameMat

LEMMA MyMulIsMul ==
  ASSUME NEW r \in Positive, NEW c \in Positive, NEW H, NEW B,
         IsMat(H, r, 7), IsMat(B, 7, c), NoBias(H, r)
  PROVE  /\ mat_mymul(H, B, 3) = mat_mul(H, B)
         /\ \A i \in Idx(r), j \in Idx(c) : mat_mul(H, B)[i][j] = Dot(H, B, 4, i, j)
<1>1. MatRow(H) = r /\ MatCol(H) = 7 /\ MatCol(B) = c
  BY SevenIs, ShapeIs
<1>2. mat_mymul(H, B, 3) = [i \in Idx(r) |-> [j \in Idx(c) |-> Reduced(Dot(H, B, 4, i, j))]]
  BY <1>1, SevenIs, EvaluatedIs DEF mat_mymul, Matrix
<1>3. /\ IsMat(mat_mul(H, B), r, c)
      /\ \A i \in Idx(r), j \in Idx(c) : mat_mul(H, B)[i][j] = Dot(H, B, 7, i, j)
  BY SevenIs, MulIs
<1>4. ASSUME NEW i \in Idx(r), NEW j \in Idx(c)
      PROVE  /\ Reduced(Dot(H, B, 4, i, j)) = Dot(H, B, 7, i, j) /\ Dot(H, B, 7, i, j) \in Field
             /\ Dot(H, B, 4, i, j) = Dot(H, B, 7, i, j)
  <2>1. ZeroTerms(H, B, i, j, 4, 7)
    BY SevenIs DEF NoBias, ZeroTerms
  <2>2. Dot(H, B, 4, i, j) = Dot(H, B, 7, i, j)
    BY <2>1, SevenIs, DotZeros
  <2>3. Dot(H, B, 7, i, j) \in Field
    BY SevenIs, DotIs
  <2>4. QED
    BY <2>2, <2>3, Reduces
<1>5. \A i \in Idx(r), j \in Idx(c) :
        mat_mymul(H, B, 3)[i][j] = mat_mul(H, B)[i][j] /\ mat_mymul(H, B, 3)[i][j] \in Field
  BY <1>2, <1>3, <1>4
<1>6. IsMat(mat_mymul(H, B, 3), r, c)
  BY <1>2, <1>5 DEF IsMat
<1>7. mat_mymul(H, B, 3) = mat_mul(H, B)
  BY <1>3, <1>5, <1>6, SameMat
<1>8. QED
  BY <1>3, <1>4, <1>7

LEMMA MyMul1IsMul ==
  ASSUME NEW r \in Positive, NEW K, NEW H, NEW M,
         IsMat(K, 7, r), IsMat(H, r, 7), NoBias(H, r), IsMat(M, 7, 7), NoBias(M, 7)
  PROVE  /\ mat_mymul1(K, H, M, 3) = mat_mul(K, H)
         /\ IsMat(mat_mymul1(K, H, M, 3), 7, 7) /\ NoBias(mat_mymul1(K, H, M, 3), 7)
<1>1. MatRow(M) = 7 /\ MatCol(M) = 7 /\ MatCol(H) = 7 /\ MatCol(K) = r
  BY SevenIs, ShapeIs
<1>2. mat_mymul1(K, H, M, 3) = [i \in Idx(7) |-> [j \in Idx(7) |->
          Reduced(IF j < 4 THEN Dot(K, H, r, i, j) ELSE M[i][j])]]
  BY <1>1, SevenIs, EvaluatedIs DEF mat_mymul1, Matrix
<1>3. /\ IsMat(mat_mul(K, H), 7, 7)
      /\ \A i \in Idx(7), j \in Idx(7) : mat_mul(K, H)[i][j] = Dot(K, H, r, i, j)
  BY SevenIs, MulIs
<1>4. ASSUME NEW i \in Idx(7), NEW j \in Idx(7)
      PROVE  /\ Reduced(IF j < 4 THEN Dot(K, H, r, i, j) ELSE M[i][j]) = Dot(K, H, r, i, j)
             /\ Dot(K, H, r, i, j) \in Field
             /\ j \in BiasIdx => Dot(K, H, r, i, j) = 0
  <2>1. r \in 0 .. r /\ 0 \in 0 .. r
    BY DEF Positive
  <2>2. Dot(K, H, r, i, j) \in Field
    BY <2>1, SevenIs, DotIs
  <2>3. ASSUME j \in BiasIdx PROVE Dot(K, H, r, i, j) = 0 /\ M[i][j] = 0
    <3>1. ZeroTerms(K, H, i, j, 0, r)
      BY <2>3 DEF NoBias, Idx, ZeroTerms
    <3>2. Dot(K, H, 0, i, j) = Dot(K, H, r, i, j)
      BY <2>1, <3>1, SevenIs, DotZeros
    <3>3. M[i][j] = 0
      BY <2>3 DEF NoBias
    <3>4. QED
      BY <3>2, <3>3, DotNone
  <2>4. QED
    BY <2>2, <2>3, SevenIs, Reduces
<1>5. \A i \in Idx(7), j \in Idx(7) :
        /\ mat_mymul1(K, H, M, 3)[i][j] = mat_mul(K, H)[i][j] /\ mat_mymul1(K, H, M, 3)[i][j] \in Field
        /\ j \in BiasIdx => mat_mymul1(K, H, M, 3)[i][j] = 0
  BY <1>2, <1>3, <1>4
<1>6. IsMat(mat_mymul1(K, H, M, 3), 7, 7)
  BY <1>2, <1>5 DEF IsMat
<1>7. mat_mymul1(K, H, M, 3) = mat_mul(K, H)
  BY <1>3, <1>5, <1>6, SameMat
<1>8. NoBias(mat_mymul1(K, H, M, 3), 7)
  BY <1>5, SevenIs DEF NoBias
<1>9. QED
  BY <1>6, <1>7, <1>8

\* The columns of the gyro biases are those of the unit matrix.
UnitColumns(A) == \A i \in Idx(7), k \in BiasIdx : A[i][k] = IF i = k THEN 1 ELSE 0

LEMMA MyMul5IsMul ==
  ASSUME NEW A, NEW P, IsMat(A, 7, 7), IsMat(P, 7, 7), UnitColumns(A)
  PROVE  mat_mymul5(A, P, 3) = mat_mul(A, P)
<1>1. MatRow(A) = 7 /\ MatCol(A) = 7 /\ MatCol(P) = 7
  BY SevenIs, ShapeIs
<1>2. mat_mymul5(A, P, 3) = [i \in Idx(7) |-> [j \in Idx(7) |->
          Reduced(Dot(A, P, 4, i, j) + (IF i > 3 THEN P[i][j] ELSE 0))]]
  BY <1>1, SevenIs, EvaluatedIs DEF mat_mymul5, Matrix
<1>3. /\ IsMat(mat_mul(A, P), 7, 7)
      /\ \A i \in Idx(7), j \in Idx(7) : mat_mul(A, P)[i][j] = Dot(A, P, 7, i, j)
  BY SevenIs, MulIs
<1>4. ASSUME NEW i \in Idx(7), NEW j \in Idx(7)
      PROVE  /\ Reduced(Dot(A, P, 4, i, j) + (IF i > 3 THEN P[i][j] ELSE 0)) = Dot(A, P, 7, i, j)
             /\ Dot(A, P, 7, i, j) \in Field
  <2>1. Dot(A, P, 7, i, j) \in Field /\ Dot(A, P, 4, i, j) \in Field
    BY SevenIs, DotIs
  <2>2. CASE i \in BiasIdx
    <3>1. OneInRow(A, i, 4, 7, i)
      BY <2>2, SevenIs DEF UnitColumns, OneInRow
    <3>2. Dot(A, P, 7, i, j) = Reduced(Dot(A, P, 4, i, j) + P[i][j])
      BY <3>1, SevenIs, DotOne
    <3>3. i > 3
      BY <2>2 DEF BiasIdx
    <3>4. QED
      BY <2>1, <3>2, <3>3
  <2>3. CASE i \notin BiasIdx
    <3>1. ZeroTerms(A, P, i, j, 4, 7)
      BY <2>3, SevenIs DEF UnitColumns, ZeroTerms
    <3>2. Dot(A, P, 4, i, j) = Dot(A, P, 7, i, j)
      BY <3>1, SevenIs, DotZeros
    <3>3. ~ (i > 3)
      BY <2>3 DEF BiasIdx, Idx
    <3>4. QED
      BY <2>1, <3>2, <3>3, Reduces
  <2>4. QED
    BY <2>2, <2>3
<1>5. \A i \in Idx(7), j \in Idx(7) :
        mat_mymul5(A, P, 3)[i][j] = mat_mul(A, P)[i][j] /\ mat_mymul5(A, P, 3)[i][j] \in Field
  BY <1>2, <1>3, <1>4
<1>6. IsMat(mat_mymul5(A, P, 3), 7, 7)
  BY <1>2, <1>5 DEF IsMat
<1>7. QED
  BY <1>3, <1>5, <1>6, SameMat

-----------------------------------------------------------------------------
(* Recursion over the values before *)

\* What comes at place e depends on what is before it only.
Local(next, n) ==
  /\ n \in Nat /\ next \in [(0 .. n) \X [0 .. n -> Field] -> Field]
  /\ \A e \in 0 .. n, f \in [0 .. n -> Field], g \in [0 .. n -> Field] :
       (\A k \in 0 .. n : k < e => f[k] = g[k]) => next[<<e, f>>] = next[<<e, g>>]

Solved(f, next, n) ==
  f \in [0 .. n -> Field] /\ \A e \in 0 .. n : f[e] = next[<<e, f>>]

LEMMA CourseOfValues ==
  ASSUME NEW n, NEW next, Local(next, n)
  PROVE  \E f : Solved(f, next, n)
<1>0. n \in Nat /\ next \in [(0 .. n) \X [0 .. n -> Field] -> Field] /\ 0 \in Field
  BY Reduces DEF Local
<1> DEFINE W == [0 .. n -> Field]
           step == [p \in Nat \X W |->
                      IF p[1] \in 1 .. n + 1
                      THEN [p[2] EXCEPT ![p[1] - 1] = next[<<p[1] - 1, p[2]>>]] ELSE p[2]]
           none == [e \in 0 .. n |-> 0]
<1>1. ASSUME NEW m \in 1 .. n + 1, NEW w \in W
      PROVE  /\ step[<<m, w>>] = [w EXCEPT ![m - 1] = next[<<m - 1, w>>]]
             /\ step[<<m, w>>] \in W
             /\ step[<<m, w>>][m - 1] = next[<<m - 1, w>>]
             /\ \A k \in 0 .. n : k # m - 1 => step[<<m, w>>][k] = w[k]
  <2>1. m - 1 \in 0 .. n
    BY <1>0
  <2>2. <<m, w>> \in Nat \X W
    OBVIOUS
  <2>3. step[<<m, w>>] = [w EXCEPT ![m - 1] = next[<<m - 1, w>>]]
    BY <2>2
  <2>4. next[<<m - 1, w>>] \in Field
    BY <1>0, <2>1
  <2>5. PICK v \in Field : v = next[<<m - 1, w>>]
    BY <2>4
  <2>6. PICK e \in 0 .. n : e = m - 1
    BY <2>1
  <2>7. [w EXCEPT ![e] = v] \in W
    BY <2>5, <2>6
  <2>8. [w EXCEPT ![e] = v][e] = v /\ \A k \in 0 .. n : k # e => [w EXCEPT ![e] = v][k] = w[k]
    OBVIOUS
  <2>9. QED
    BY <2>3, <2>5, <2>6, <2>7, <2>8, Zenon
<1>2. step \in [Nat \X W -> W]
  <2>1. ASSUME NEW p \in Nat \X W PROVE step[p] \in W
    <3>1. p = <<p[1], p[2]>> /\ p[1] \in Nat /\ p[2] \in W
      OBVIOUS
    <3>2. CASE p[1] \in 1 .. n + 1
      <4>1. step[<<p[1], p[2]>>] \in W
        BY <1>1, <3>1, <3>2
      <4>2. QED
        BY <3>1, <4>1
    <3>3. CASE p[1] \notin 1 .. n + 1
      BY <3>1, <3>3
    <3>4. QED
      BY <3>2, <3>3
  <2>2. QED
    BY <2>1
<1>3. none \in W
  BY <1>0
<1> HIDE DEF step, none
<1>4. n + 1 \in Nat
  BY <1>0
<1>5. PICK s \in [0 .. n + 1 -> W] : Takes(s, n + 1, none, step)
  BY <1>2, <1>3, <1>4, RecursionUpTo
<1> DEFINE T == {m \in Nat : m <= n + 1 => \A e \in 0 .. n : e < m => s[m][e] = next[<<e, s[m]>>]}
<1>6. 0 \in T
  OBVIOUS
<1>7. ASSUME NEW m \in Nat, m \in T PROVE m + 1 \in T
  <2>0. m + 1 \in Nat
    OBVIOUS
  <2> SUFFICES ASSUME m + 1 <= n + 1, NEW e \in 0 .. n, e < m + 1
               PROVE  s[m + 1][e] = next[<<e, s[m + 1]>>]
    BY <2>0, Zenon
  <2>1. m \in 0 .. n + 1 /\ m + 1 \in 1 .. n + 1 /\ (m + 1) - 1 = m /\ m \in 0 .. n /\ m + 1 \in 0 .. n + 1
    BY <1>0
  <2>2. s[m] \in W /\ s[m + 1] \in W /\ s[m + 1] = step[<<m + 1, s[m]>>]
    BY <1>5, <2>1 DEF Takes
  <2>3. s[m + 1][m] = next[<<m, s[m]>>] /\ \A k \in 0 .. n : k # m => s[m + 1][k] = s[m][k]
    <3>1. PICK j \in 1 .. n + 1 : j = m + 1 /\ j - 1 = m
      BY <2>1
    <3>2. step[<<j, s[m]>>][j - 1] = next[<<j - 1, s[m]>>]
      BY <1>1, <2>2, Zenon
    <3>3. \A k \in 0 .. n : k # j - 1 => step[<<j, s[m]>>][k] = s[m][k]
      BY <1>1, <2>2, Zenon
    <3>4. QED
      BY <2>2, <3>1, <3>2, <3>3, Zenon
  <2>4. s[m + 1][e] = next[<<e, s[m]>>]
    <3>1. CASE e = m
      BY <2>3, <3>1
    <3>2. CASE e # m
      <4>1. e < m /\ m <= n + 1
        BY <1>0, <3>2
      <4>2. s[m][e] = next[<<e, s[m]>>]
        BY <1>7, <4>1
      <4>3. QED
        BY <2>3, <3>2, <4>2
    <3>3. QED
      BY <3>1, <3>2
  <2>5. \A k \in 0 .. n : k < e => s[m][k] = s[m + 1][k]
    BY <2>3
  <2>6. next[<<e, s[m]>>] = next[<<e, s[m + 1]>>]
    BY <2>2, <2>5 DEF Local
  <2>7. QED
    BY <2>4, <2>6
<1>8. n + 1 \in T
  <2> HIDE DEF T
  <2>1. QED
    BY <1>4, <1>6, <1>7, InductiveSet
<1>9. s[n + 1] \in W /\ \A e \in 0 .. n : s[n + 1][e] = next[<<e, s[n + 1]>>]
  <2>1. n + 1 <= n + 1 /\ n + 1 \in 0 .. n + 1 /\ \A e \in 0 .. n : e < n + 1
    BY <1>0
  <2>2. QED
    BY <1>5, <1>8, <2>1, Zenon
<1>10. QED
  BY <1>9 DEF Solved

-----------------------------------------------------------------------------
(* Division *)

LEMMA HalfIs == \A e \in Nat \ {0} : Half(e) \in Nat /\ Half(e) < e
BY DEF Half

LEMMA PowerFromIs ==
  ASSUME NEW x \in Int, NEW half \in Field, NEW e
  PROVE  PowerFrom(x, half, e) \in Field
<1>1. half \in Int
  BY Reduces
<1>2. Reduced(half * half) \in Field /\ Reduced(half * half) \in Int
  BY <1>1, ProductIsInt, Reduces
<1>3. Reduced(Reduced(half * half) * x) \in Field
  BY <1>2, ProductIsInt, Reduces
<1>4. PowerFrom(x, half, e) = Reduced(half * half)
      \/ PowerFrom(x, half, e) = Reduced(Reduced(half * half) * x)
  BY DEF PowerFrom
<1>5. QED
  BY <1>2, <1>3, <1>4

LEMMA ReciprocalIs ==
  ASSUME NEW x \in Int
  PROVE  Reciprocal(x) \in Field
<1> DEFINE n == Modulus
           Def(f) == f = [e \in 0 .. n |-> IF e = 0 THEN 1 ELSE PowerFrom(x, f[Half(e)], e)]
           W == [0 .. n -> Field]
           next == [p \in (0 .. n) \X W |->
                      IF p[1] = 0 THEN 1 ELSE PowerFrom(x, p[2][Half(p[1])], p[1])]
<1>1. n \in Nat /\ n - 2 \in 0 .. n
  BY ModulusAssumption
<1>2. ASSUME NEW e \in 0 .. n, NEW w \in W
      PROVE  /\ next[<<e, w>>] = IF e = 0 THEN 1 ELSE PowerFrom(x, w[Half(e)], e)
             /\ next[<<e, w>>] \in Field
  <2>1. <<e, w>> \in (0 .. n) \X W
    OBVIOUS
  <2>2. next[<<e, w>>] = IF e = 0 THEN 1 ELSE PowerFrom(x, w[Half(e)], e)
    BY <2>1
  <2>3. CASE e = 0
    BY <2>2, <2>3, Reduces
  <2>4. CASE e # 0
    <3>1. Half(e) \in 0 .. n
      BY <1>1, <2>4, HalfIs
    <3>2. w[Half(e)] \in Field
      BY <3>1
    <3>3. QED
      BY <2>2, <2>4, <3>2, PowerFromIs
  <2>5. QED
    BY <2>2, <2>3, <2>4
<1>3. next \in [(0 .. n) \X W -> Field]
  <2>1. ASSUME NEW p \in (0 .. n) \X W PROVE next[p] \in Field
    <3>1. p = <<p[1], p[2]>> /\ p[1] \in 0 .. n /\ p[2] \in W
      OBVIOUS
    <3>2. next[<<p[1], p[2]>>] \in Field
      BY <1>2, <3>1
    <3>3. QED
      BY <3>1, <3>2
  <2>2. QED
    BY <2>1
<1> HIDE DEF next
<1>4. Local(next, n)
  <2> SUFFICES ASSUME NEW e \in 0 .. n, NEW f \in W, NEW g \in W,
                      \A k \in 0 .. n : k < e => f[k] = g[k]
               PROVE  next[<<e, f>>] = next[<<e, g>>]
    BY <1>1, <1>3 DEF Local
  <2>1. CASE e = 0
    BY <1>2, <2>1
  <2>2. CASE e # 0
    <3>1. Half(e) \in 0 .. n /\ Half(e) < e
      BY <1>1, <2>2, HalfIs
    <3>2. f[Half(e)] = g[Half(e)]
      BY <3>1
    <3>3. QED
      BY <1>2, <2>2, <3>2
  <2>3. QED
    BY <2>1, <2>2
<1>5. PICK f : Solved(f, next, n)
  BY <1>4, CourseOfValues
<1>6. Def(f)
  BY <1>2, <1>5 DEF Solved
<1> DEFINE power == CHOOSE g : Def(g)
<1>7. Def(power)
  BY <1>6
<1>8. Reciprocal(x) = power[n - 2]
  BY DEF Reciprocal
<1> HIDE DEF power
<1> DEFINE T == {m \in Nat : \A e \in 0 .. m : e <= n => power[e] \in Field}
<1>9. ASSUME NEW e \in 0 .. n PROVE power[e] = IF e = 0 THEN 1 ELSE PowerFrom(x, power[Half(e)], e)
  BY <1>7
<1> HIDE DEF Def
<1>10. 0 \in T
  <2>1. power[0] = 1
    BY <1>1, <1>9
  <2>2. power[0] \in Field /\ \A e \in 0 .. 0 : e = 0
    BY <2>1, Reduces
  <2>3. QED
    BY <2>2
<1>11. ASSUME NEW m \in Nat, m \in T PROVE m + 1 \in T
  <2> SUFFICES ASSUME NEW e \in 0 .. m + 1, e <= n PROVE power[e] \in Field
    OBVIOUS
  <2>1. CASE e \in 0 .. m
    BY <1>11, <2>1
  <2>2. CASE e = m + 1
    <3>1. e # 0 /\ e \in 0 .. n /\ Half(e) \in 0 .. m /\ Half(e) <= n
      BY <1>1, <2>2, HalfIs
    <3>2. power[Half(e)] \in Field
      BY <1>11, <3>1
    <3>3. QED
      BY <1>9, <3>1, <3>2, PowerFromIs
  <2>3. QED
    BY <2>1, <2>2
<1> HIDE DEF T
<1>12. n - 2 \in T
  <2>1. n - 2 \in Nat
    BY <1>1
  <2>2. QED
    BY <1>10, <1>11, <2>1, InductiveSet
<1>13. power[n - 2] \in Field
  BY <1>1, <1>12 DEF T
<1>14. QED
  BY <1>8, <1>13

LEMMA QuotientIs ==
  ASSUME NEW x \in Int, NEW y \in Int
  PROVE  Quotient(x, y) \in Field /\ Quotient(x, y) \in Int
<1>1. Reciprocal(y) \in Int
  BY ReciprocalIs, Reduces
<1>2. QED
  BY <1>1, ProductIsInt, Reduces DEF Quotient

-----------------------------------------------------------------------------
(* Linear equations keep to the field *)

\* Among values of the field the first largest one exists.
LEMMA FirstLargest ==
  ASSUME NEW n \in Positive, NEW k \in Idx(n), NEW col \in [k .. n - 1 -> Field]
  PROVE  \E q \in k .. n - 1 : /\ \A i \in k .. n - 1 : col[i] <= col[q]
                               /\ \A i \in k .. q - 1 : col[i] < col[q]
<1>1. k \in Nat /\ k \in k .. n - 1 /\ n \in Nat /\ Modulus \in Nat /\ k .. n - 1 \subseteq Nat
  BY ModulusAssumption DEF Positive, Idx
<1>2. \A i \in k .. n - 1 : col[i] \in Int /\ 0 <= col[i] /\ col[i] <= Modulus - 1
  BY <1>1 DEF Field
<1> DEFINE T1 == {Modulus - col[i] : i \in k .. n - 1}
<1>3. T1 \in SUBSET Nat
  <2>1. ASSUME NEW i \in k .. n - 1 PROVE Modulus - col[i] \in Nat
    BY <1>1, <1>2
  <2>2. QED
    BY <2>1
<1>4. T1 # {}
  BY <1>1
<1>5. PICK m \in T1 : \A y \in T1 : m <= y
  <2> HIDE DEF T1
  <2>1. QED
    BY <1>3, <1>4, LeastElement
<1>6. PICK p \in k .. n - 1 : m = Modulus - col[p]
  BY <1>5
<1>7. ASSUME NEW i \in k .. n - 1 PROVE col[i] <= col[p]
  <2>1. Modulus - col[p] <= Modulus - col[i]
    BY <1>5, <1>6
  <2>2. QED
    BY <1>1, <1>2, <2>1
<1> DEFINE T2 == {i \in k .. n - 1 : col[i] = col[p]}
<1>8. T2 \in SUBSET Nat /\ T2 # {}
  BY <1>1
<1>9. PICK q \in T2 : \A y \in T2 : q <= y
  <2> HIDE DEF T2
  <2>1. QED
    BY <1>8, LeastElement
<1>10. q \in k .. n - 1 /\ col[q] = col[p] /\ q \in Nat
  BY <1>1, <1>9
<1>11. ASSUME NEW i \in k .. q - 1 PROVE col[i] < col[q]
  <2>1. i \in k .. n - 1 /\ i \in Nat /\ ~ (q <= i)
    BY <1>1, <1>10
  <2>2. col[i] # col[q]
    BY <1>9, <1>10, <2>1
  <2>3. col[i] <= col[q] /\ col[i] \in Int /\ col[q] \in Int
    BY <1>2, <1>7, <1>10, <2>1
  <2>4. QED
    BY <2>2, <2>3
<1>12. QED
  BY <1>7, <1>10, <1>11

LEMMA PivotIs ==
  ASSUME NEW n \in Positive, NEW A, IsMat(A, n, n), NEW P \in [Idx(n) -> Idx(n)], NEW k \in Idx(n)
  PROVE  Pivot(A, P, k) \in k .. n - 1 /\ Pivot(A, P, k) \in Idx(n)
<1> DEFINE col == [i \in k .. n - 1 |-> A[P[i]][k]]
<1>1. k .. n - 1 \subseteq Idx(n)
  BY DEF Idx, Positive
<1>2. col \in [k .. n - 1 -> Field]
  <2>1. ASSUME NEW i \in k .. n - 1 PROVE A[P[i]][k] \in Field
    <3>1. P[i] \in Idx(n)
      BY <1>1
    <3>2. QED
      BY <3>1, ShapeIs
  <2>2. QED
    BY <2>1
<1>3. \A i \in k .. n - 1 : col[i] = A[P[i]][k]
  OBVIOUS
<1> HIDE DEF col
<1>4. PICK q \in k .. n - 1 : /\ \A i \in k .. n - 1 : col[i] <= col[q]
                              /\ \A i \in k .. q - 1 : col[i] < col[q]
  BY <1>2, FirstLargest
<1>5. \A i \in k .. q - 1 : i \in k .. n - 1
  BY DEF Idx, Positive
<1>6. /\ \A i \in k .. n - 1 : A[P[i]][k] <= A[P[q]][k]
      /\ \A i \in k .. q - 1 : A[P[i]][k] < A[P[q]][k]
  BY <1>3, <1>4, <1>5
<1>7. MatCol(A) = n
  BY ShapeIs
<1>8. Pivot(A, P, k) \in k .. n - 1
  BY <1>6, <1>7 DEF Pivot
<1>9. QED
  BY <1>1, <1>8

LEMMA EliminateIs ==
  ASSUME NEW n \in Positive, NEW A, IsMat(A, n, n), NEW P \in [Idx(n) -> Idx(n)], NEW k \in Idx(n)
  PROVE  IsMat(Eliminate(A, P, k), n, n)
<1>1. P[k] \in Idx(n) /\ DOMAIN A = Idx(n)
  BY DEF IsMat
<1>2. ASSUME NEW r \in Idx(n)
      PROVE  /\ DOMAIN A[r] = Idx(n) /\ A[r] \in [Idx(n) -> Field]
             /\ [j \in DOMAIN A[r] |->
                    IF j < k THEN A[r][j]
                    ELSE IF j = k THEN Quotient(A[r][k], A[P[k]][k])
                    ELSE Reduced(A[r][j] - Quotient(A[r][k], A[P[k]][k]) * A[P[k]][j])]
                   \in [Idx(n) -> Field]
  <2>1. DOMAIN A[r] = Idx(n) /\ A[r] \in [Idx(n) -> Field]
    BY DEF IsMat
  <2>2. PICK f \in Int : f = Quotient(A[r][k], A[P[k]][k]) /\ f \in Field
    BY <1>1, ShapeIs, QuotientIs
  <2>3. ASSUME NEW j \in Idx(n)
        PROVE  A[r][j] \in Field /\ Reduced(A[r][j] - f * A[P[k]][j]) \in Field
    <3>1. A[r][j] \in Field /\ A[r][j] \in Int /\ A[P[k]][j] \in Int
      BY <1>1, ShapeIs
    <3>2. A[r][j] - f * A[P[k]][j] \in Int
      BY <3>1, ProductIsInt
    <3>3. QED
      BY <3>1, <3>2, Reduces
  <2>4. QED
    BY <2>1, <2>2, <2>3
<1>3. Eliminate(A, P, k) =
        [r \in DOMAIN A |->
          IF \E i \in DOMAIN P : P[i] = r /\ i > k
          THEN [j \in DOMAIN A[r] |->
                    IF j < k THEN A[r][j]
                    ELSE IF j = k THEN Quotient(A[r][k], A[P[k]][k])
                    ELSE Reduced(A[r][j] - Quotient(A[r][k], A[P[k]][k]) * A[P[k]][j])]
          ELSE A[r]]
  BY EvaluatedIs DEF Eliminate
<1>4. QED
  BY <1>1, <1>2, <1>3 DEF IsMat

LuStates(n) ==
  [A : [Idx(n) -> [Idx(n) -> Field]], P : [Idx(n) -> Idx(n)], singular : BOOLEAN, exchanges : Int]

LEMMA LuStepIs ==
  ASSUME NEW n \in Positive, NEW s \in LuStates(n), NEW k \in Idx(n)
  PROVE  LuStep(s, k) \in LuStates(n)
<1>1. IsMat(s.A, n, n) /\ s.P \in [Idx(n) -> Idx(n)] /\ s.exchanges \in Int
  BY DEF LuStates, IsMat
<1>2. PICK q : q = Pivot(s.A, s.P, k)
  OBVIOUS
<1>3. q \in Idx(n)
  BY <1>1, <1>2, PivotIs
<1>4. PICK P : P = [s.P EXCEPT ![k] = s.P[q], ![q] = s.P[k]]
  OBVIOUS
<1>5. P \in [Idx(n) -> Idx(n)]
  BY <1>1, <1>3, <1>4
<1>6. PICK E : E = Eliminate(s.A, P, k)
  OBVIOUS
<1>7. E \in [Idx(n) -> [Idx(n) -> Field]]
  BY <1>1, <1>5, <1>6, EliminateIs DEF IsMat
<1>8. s.exchanges + (IF q = k THEN 0 ELSE 1) \in Int
  BY <1>1
<1>9. /\ [A |-> E, P |-> P, singular |-> FALSE,
            exchanges |-> s.exchanges + IF q = k THEN 0 ELSE 1] \in LuStates(n)
      /\ [s EXCEPT !.singular = TRUE] \in LuStates(n)
  BY <1>5, <1>7, <1>8 DEF LuStates
<1>10. LuStep(s, k) =
         IF s.singular THEN s
         ELSE IF s.A[P[k]][k] = 0 THEN [s EXCEPT !.singular = TRUE]
              ELSE [A |-> E, P |-> P, singular |-> FALSE,
                    exchanges |-> s.exchanges + IF q = k THEN 0 ELSE 1]
  BY <1>2, <1>4, <1>6 DEF LuStep
<1>11. QED
  BY <1>9, <1>10

LuFirst(A, n) == [A |-> A, P |-> [i \in Idx(n) |-> i], singular |-> FALSE, exchanges |-> 0]

LEMMA LuIs ==
  ASSUME NEW n \in Positive, NEW A, IsMat(A, n, n)
  PROVE  /\ mat_lu(A) \in LuStates(n)
         /\ n = 1 => mat_lu(A) = LuStep(LuFirst(A, n), 0)
<1> DEFINE first == LuFirst(A, n)
           Def(f) == f = [k \in 0 .. n |-> IF k = 0 THEN first ELSE LuStep(f[k - 1], k - 1)]
           after == CHOOSE f : Def(f)
           step == [p \in Nat \X LuStates(n) |-> IF p[1] \in 1 .. n THEN LuStep(p[2], p[1] - 1) ELSE p[2]]
<1>1. MatCol(A) = n /\ n \in Nat
  BY ShapeIs DEF Positive
<1>2. mat_lu(A) = after[n]
  BY <1>1, Zenon DEF mat_lu, LuFirst
<1>3. first \in LuStates(n)
  BY DEF LuStates, IsMat, LuFirst
<1>4. \A k \in 1 .. n : k - 1 \in Idx(n) /\ k - 1 \in 0 .. n
  BY <1>1 DEF Idx
<1> HIDE DEF first
<1>5. step \in [Nat \X LuStates(n) -> LuStates(n)]
  <2>1. ASSUME NEW p \in Nat \X LuStates(n) PROVE step[p] \in LuStates(n)
    <3>1. p[2] \in LuStates(n)
      OBVIOUS
    <3>2. ASSUME p[1] \in 1 .. n PROVE LuStep(p[2], p[1] - 1) \in LuStates(n)
      BY <1>4, <3>1, <3>2, LuStepIs
    <3>3. QED
      BY <3>1, <3>2
  <2>2. QED
    BY <2>1
<1>6. ASSUME NEW k \in 1 .. n, NEW s \in LuStates(n) PROVE step[<<k, s>>] = LuStep(s, k - 1)
  <2>1. <<k, s>> \in Nat \X LuStates(n)
    OBVIOUS
  <2>2. QED
    BY <2>1
<1> HIDE DEF step
<1>7. PICK f \in [0 .. n -> LuStates(n)] : Takes(f, n, first, step)
  BY <1>1, <1>3, <1>5, RecursionUpTo
<1>8. Def(f)
  <2>1. ASSUME NEW k \in 0 .. n PROVE f[k] = IF k = 0 THEN first ELSE LuStep(f[k - 1], k - 1)
    <3>1. CASE k = 0
      BY <1>7, <3>1 DEF Takes
    <3>2. CASE k # 0
      <4>1. k \in 1 .. n /\ k - 1 \in 0 .. n
        BY <1>1, <3>2
      <4>2. f[k] = step[<<k, f[k - 1]>>] /\ f[k - 1] \in LuStates(n)
        BY <1>7, <4>1 DEF Takes
      <4>3. QED
        BY <1>6, <3>2, <4>1, <4>2
    <3>3. QED
      BY <3>1, <3>2
  <2>2. QED
    BY <2>1
<1> HIDE DEF Def
<1>9. Def(after)
  BY <1>8
<1> HIDE DEF after
<1>10. \A k \in 0 .. n : after[k] = IF k = 0 THEN first ELSE LuStep(after[k - 1], k - 1)
  BY <1>9 DEF Def
<1> DEFINE T == {k \in Nat : k <= n => after[k] \in LuStates(n)}
<1>11. 0 \in T
  BY <1>1, <1>3, <1>10
<1>12. ASSUME NEW k \in Nat, k \in T PROVE k + 1 \in T
  <2>1. CASE k + 1 <= n
    <3>1. k + 1 \in 0 .. n /\ k + 1 # 0 /\ (k + 1) - 1 = k /\ k <= n /\ k \in Idx(n)
      BY <1>1, <2>1 DEF Idx
    <3>2. after[k] \in LuStates(n) /\ after[k + 1] = LuStep(after[k], k)
      BY <1>10, <1>12, <3>1
    <3>3. after[k + 1] \in LuStates(n)
      BY <3>1, <3>2, LuStepIs
    <3>4. QED
      BY <3>3
  <2>2. QED
    BY <2>1
<1> HIDE DEF T
<1>13. n \in T
  BY <1>1, <1>11, <1>12, InductiveSet
<1>14. n = 1 => after[n] = LuStep(first, 0)
  <2>1. ASSUME n = 1 PROVE 1 \in 0 .. n /\ 0 \in 0 .. n /\ 1 - 1 = 0 /\ 1 # 0
    BY <2>1
  <2>2. QED
    BY <1>10, <2>1
<1>15. QED
  BY <1>1, <1>2, <1>13, <1>14 DEF T, first

\* What Known() adds up.
KnownTerms(A, P, X, k, n) == [j \in 0 .. n - 1 |-> IF j > k THEN A[P[k]][j] * X[j] ELSE 0]

\* The unknowns after that of row k are in the field.
LaterIn(X, k, n) == \A j \in Idx(n) : j > k => X[j] \in Field

LEMMA KnownIs ==
  ASSUME NEW n \in Positive, NEW A, IsMat(A, n, n), NEW P \in [Idx(n) -> Idx(n)],
         NEW X, NEW k \in Idx(n), LaterIn(X, k, n)
  PROVE  /\ Known(A, P, X, k) = Total(n, KnownTerms(A, P, X, k, n))
         /\ Known(A, P, X, k) \in Field
<1> DEFINE g == [j \in 0 .. n - 1 |-> IF j > k THEN A[P[k]][j] * X[j] ELSE 0]
           Def(f) == f = [i \in 0 .. n |-> IF i = 0 THEN 0
                             ELSE Reduced(f[i - 1] + (IF i - 1 > k THEN A[P[k]][i - 1] * X[i - 1] ELSE 0))]
           sum == CHOOSE f : Def(f)
<1>1. MatCol(A) = n /\ n \in Nat
  BY ShapeIs DEF Positive
<1>2. \A j \in 0 .. n - 1 : g[j] = (IF j > k THEN A[P[k]][j] * X[j] ELSE 0) /\ g[j] \in Int
  <2> SUFFICES ASSUME NEW j \in 0 .. n - 1
               PROVE  g[j] = (IF j > k THEN A[P[k]][j] * X[j] ELSE 0) /\ g[j] \in Int
    OBVIOUS
  <2>1. ASSUME j > k PROVE A[P[k]][j] * X[j] \in Int
    <3>1. j \in Idx(n) /\ P[k] \in Idx(n)
      BY DEF Idx
    <3>2. A[P[k]][j] \in Int /\ X[j] \in Int
      BY <2>1, <3>1, ShapeIs, Reduces DEF LaterIn
    <3>3. QED
      BY <3>2, ProductIsInt
  <2>2. QED
    BY <2>1
<1>3. Known(A, P, X, k) = sum[n]
  BY <1>1 DEF Known, SumBelow
<1> HIDE DEF g
<1>4. ASSUME NEW f PROVE Def(f) <=> Looped(f, n, g)
  <2>1. \A i \in 0 .. n : i # 0 => i - 1 \in 0 .. n - 1
    BY <1>1
  <2>2. \A i \in 0 .. n : (IF i = 0 THEN 0
                           ELSE Reduced(f[i - 1] + (IF i - 1 > k THEN A[P[k]][i - 1] * X[i - 1] ELSE 0)))
                         = IF i = 0 THEN 0 ELSE Reduced(f[i - 1] + g[i - 1])
    BY <1>2, <2>1
  <2>3. QED
    BY <2>2 DEF Looped
<1> HIDE DEF Def
<1>5. Def(sum)
  BY <1>1, <1>2, <1>4, LoopedIs
<1> HIDE DEF sum
<1>6. sum[n] = Total(n, g) /\ Total(n, g) \in Field
  BY <1>1, <1>2, <1>4, <1>5, LoopedIs, TotalIs
<1>7. KnownTerms(A, P, X, k, n) = g
  BY DEF KnownTerms, g
<1>8. QED
  BY <1>3, <1>6, <1>7

\* What is known of an unknown depends on those after it only.
LEMMA KnownAgrees ==
  ASSUME NEW n \in Positive, NEW A, IsMat(A, n, n), NEW P \in [Idx(n) -> Idx(n)],
         NEW X, NEW Y, NEW k \in Idx(n), LaterIn(X, k, n), LaterIn(Y, k, n),
         \A j \in Idx(n) : j > k => X[j] = Y[j]
  PROVE  Known(A, P, X, k) = Known(A, P, Y, k)
<1>1. KnownTerms(A, P, X, k, n) = KnownTerms(A, P, Y, k, n)
  BY DEF KnownTerms, Idx
<1>2. QED
  BY <1>1, KnownIs

LEMMA ForwardedIs ==
  ASSUME NEW n \in Positive, NEW A, IsMat(A, n, n), NEW P \in [Idx(n) -> Idx(n)],
         NEW B \in [Idx(n) -> Field], NEW k \in 1 .. n
  PROVE  Forwarded(A, P, B, k) \in [Idx(n) -> Field]
<1>1. MatCol(A) = n
  BY ShapeIs
<1>2. k - 1 \in Idx(n)
  BY DEF Idx, Positive
<1>3. ASSUME NEW r \in Idx(n)
      PROVE  B[r] \in Field /\ Reduced(B[r] - A[r][k - 1] * B[P[k - 1]]) \in Field
  <2>1. B[r] \in Field /\ B[r] \in Int /\ A[r][k - 1] \in Int /\ B[P[k - 1]] \in Int
    <3>1. P[k - 1] \in Idx(n)
      BY <1>2
    <3>2. B[r] \in Field /\ B[P[k - 1]] \in Field
      BY <3>1
    <3>3. QED
      BY <1>2, <3>2, ShapeIs, Reduces
  <2>2. B[r] - A[r][k - 1] * B[P[k - 1]] \in Int
    BY <2>1, ProductIsInt
  <2>3. QED
    BY <2>1, <2>2, Reduces
<1>4. Forwarded(A, P, B, k) =
        [r \in Idx(n) |-> IF \E i \in k .. n - 1 : P[i] = r
                          THEN Reduced(B[r] - A[r][k - 1] * B[P[k - 1]]) ELSE B[r]]
  BY <1>1, EvaluatedIs DEF Forwarded
<1>5. QED
  BY <1>3, <1>4

\* The right hand sides after the forward substitution.
Forward(A, B, P, n) ==
  CHOOSE f : f = [k \in 0 .. n |-> IF k = 0 THEN [r \in Idx(n) |-> B[r][0]]
                                   ELSE Forwarded(A, P, f[k - 1], k)]

LEMMA ForwardIs ==
  ASSUME NEW n \in Positive, NEW A, IsMat(A, n, n), NEW P \in [Idx(n) -> Idx(n)],
         NEW B, IsMat(B, n, 1)
  PROVE  /\ Forward(A, B, P, n)[n] \in [Idx(n) -> Field]
         /\ Forward(A, B, P, n)[0] = [r \in Idx(n) |-> B[r][0]]
         /\ \A k \in 1 .. n : Forward(A, B, P, n)[k] = Forwarded(A, P, Forward(A, B, P, n)[k - 1], k)
<1> DEFINE first == [r \in Idx(n) |-> B[r][0]]
           V == [Idx(n) -> Field]
           Def(f) == f = [k \in 0 .. n |-> IF k = 0 THEN first ELSE Forwarded(A, P, f[k - 1], k)]
           after == CHOOSE f : Def(f)
           step == [p \in Nat \X V |-> IF p[1] \in 1 .. n THEN Forwarded(A, P, p[2], p[1]) ELSE p[2]]
<1>1. n \in Nat
  BY DEF Positive
<1>2. Forward(A, B, P, n) = after
  BY DEF Forward
<1>3. first \in V
  <2>1. 1 \in Positive /\ 0 \in Idx(1)
    BY DEF Positive, Idx
  <2>2. \A r \in Idx(n) : B[r][0] \in Field
    BY <2>1, ShapeIs
  <2>3. QED
    BY <2>2
<1> HIDE DEF first
<1>5. step \in [Nat \X V -> V]
  <2>1. ASSUME NEW p \in Nat \X V PROVE step[p] \in V
    <3>1. p[2] \in V
      OBVIOUS
    <3>2. ASSUME p[1] \in 1 .. n PROVE Forwarded(A, P, p[2], p[1]) \in V
      BY <3>1, <3>2, ForwardedIs
    <3>3. QED
      BY <3>1, <3>2
  <2>2. QED
    BY <2>1
<1>6. ASSUME NEW k \in 1 .. n, NEW s \in V PROVE step[<<k, s>>] = Forwarded(A, P, s, k)
  <2>1. <<k, s>> \in Nat \X V
    OBVIOUS
  <2>2. QED
    BY <2>1
<1> HIDE DEF step
<1>7. PICK f \in [0 .. n -> V] : Takes(f, n, first, step)
  BY <1>1, <1>3, <1>5, RecursionUpTo
<1>8. Def(f)
  <2>1. ASSUME NEW k \in 0 .. n PROVE f[k] = IF k = 0 THEN first ELSE Forwarded(A, P, f[k - 1], k)
    <3>1. CASE k = 0
      BY <1>7, <3>1 DEF Takes
    <3>2. CASE k # 0
      <4>1. k \in 1 .. n /\ k - 1 \in 0 .. n
        BY <1>1, <3>2
      <4>2. f[k] = step[<<k, f[k - 1]>>] /\ f[k - 1] \in V
        BY <1>7, <4>1 DEF Takes
      <4>3. QED
        BY <1>6, <3>2, <4>1, <4>2
    <3>3. QED
      BY <3>1, <3>2
  <2>2. QED
    BY <2>1
<1> HIDE DEF Def
<1>9. Def(after)
  BY <1>8
<1> HIDE DEF after
<1>10. \A k \in 0 .. n : after[k] = IF k = 0 THEN first ELSE Forwarded(A, P, after[k - 1], k)
  BY <1>9 DEF Def
<1> DEFINE T == {k \in Nat : k <= n => after[k] \in V}
<1>11. 0 \in T
  BY <1>1, <1>3, <1>10
<1>12. ASSUME NEW k \in Nat, k \in T PROVE k + 1 \in T
  <2>1. CASE k + 1 <= n
    <3>1. k + 1 \in 0 .. n /\ k + 1 # 0 /\ (k + 1) - 1 = k /\ k <= n /\ k + 1 \in 1 .. n
      BY <1>1, <2>1
    <3>2. after[k] \in V /\ after[k + 1] = Forwarded(A, P, after[k], k + 1)
      BY <1>10, <1>12, <3>1
    <3>3. after[k + 1] \in V
      BY <3>1, <3>2, ForwardedIs
    <3>4. QED
      BY <3>3
  <2>2. QED
    BY <2>1
<1> HIDE DEF T
<1>13. n \in T
  BY <1>1, <1>11, <1>12, InductiveSet
<1>14. after[n] \in V /\ after[0] = first /\ \A k \in 1 .. n : after[k] = Forwarded(A, P, after[k - 1], k)
  <2>1. 0 \in 0 .. n /\ n <= n /\ \A k \in 1 .. n : k \in 0 .. n /\ k # 0
    BY <1>1
  <2>2. QED
    BY <1>10, <1>13, <2>1 DEF T
<1>15. QED
  BY <1>2, <1>14 DEF first

\* X is what the backward substitution finds for the right hand sides S.
Backward(X, A, P, S, n) ==
  X = [k \in Idx(n) |-> Quotient(S[P[k]] - Known(A, P, X, k), A[P[k]][k])]

Unknowns(A, P, S, n) == CHOOSE X : Backward(X, A, P, S, n)

LEMMA UnknownIs ==
  ASSUME NEW n \in Positive, NEW A, IsMat(A, n, n), NEW P \in [Idx(n) -> Idx(n)],
         NEW S \in [Idx(n) -> Field], NEW X, NEW k \in Idx(n), LaterIn(X, k, n)
  PROVE  Quotient(S[P[k]] - Known(A, P, X, k), A[P[k]][k]) \in Field
<1>1. P[k] \in Idx(n) /\ S[P[k]] \in Field
  OBVIOUS
<1>2. S[P[k]] \in Int /\ A[P[k]][k] \in Int /\ Known(A, P, X, k) \in Int
  BY <1>1, KnownIs, ShapeIs, Reduces
<1>3. S[P[k]] - Known(A, P, X, k) \in Int
  BY <1>2, ProductIsInt
<1>4. QED
  BY <1>2, <1>3, QuotientIs

LEMMA BackwardIs ==
  ASSUME NEW n \in Positive, NEW A, IsMat(A, n, n), NEW P \in [Idx(n) -> Idx(n)],
         NEW S \in [Idx(n) -> Field]
  PROVE  /\ \E X : Backward(X, A, P, S, n)
         /\ \A X : Backward(X, A, P, S, n) => X \in [Idx(n) -> Field]
<1> DEFINE m == n - 1
           Value(X, k) == Quotient(S[P[k]] - Known(A, P, X, k), A[P[k]][k])
           W == [0 .. m -> Field]
           Turned(w) == [k \in Idx(n) |-> w[m - k]]
           next == [p \in (0 .. m) \X W |-> Value(Turned(p[2]), m - p[1])]
<1>1. m \in Nat /\ n \in Nat /\ Idx(n) = 0 .. m /\ \A k \in 0 .. m : m - k \in 0 .. m /\ m - (m - k) = k
  BY DEF Positive, Idx
<1> HIDE DEF m
<1>2. ASSUME NEW w \in W
      PROVE  Turned(w) \in [Idx(n) -> Field] /\ \A k \in Idx(n) : LaterIn(Turned(w), k, n)
  <2>1. \A k \in Idx(n) : w[m - k] \in Field
    BY <1>1
  <2>2. QED
    BY <2>1 DEF LaterIn
<1>3. ASSUME NEW w \in W, NEW k \in Idx(n) PROVE Value(Turned(w), k) \in Field
  BY <1>2, UnknownIs
<1>4. ASSUME NEW f \in W, NEW g \in W, NEW e \in 0 .. m, \A k \in 0 .. m : k < e => f[k] = g[k]
      PROVE  Value(Turned(f), m - e) = Value(Turned(g), m - e)
  <2>1. m - e \in Idx(n)
    BY <1>1
  <2>2. ASSUME NEW j \in Idx(n), j > m - e PROVE Turned(f)[j] = Turned(g)[j]
    <3>0. j \in 0 .. m
      BY <1>1
    <3>1. m - j \in 0 .. m /\ m - j < e
      <4>1. m \in Nat /\ j > m - e
        BY <1>1, <2>2
      <4>2. QED
        BY ONLY <3>0, <4>1, e \in 0 .. m
    <3>2. f[m - j] = g[m - j]
      BY <1>4, <3>1
    <3>3. QED
      BY <3>2
  <2>3. LaterIn(Turned(f), m - e, n) /\ LaterIn(Turned(g), m - e, n)
    BY <1>2, <2>1
  <2> HIDE DEF Turned
  <2>4. Known(A, P, Turned(f), m - e) = Known(A, P, Turned(g), m - e)
    BY <2>1, <2>2, <2>3, KnownAgrees
  <2>5. QED
    BY <2>4
<1>5. ASSUME NEW e \in 0 .. m, NEW w \in W
      PROVE  next[<<e, w>>] = Value(Turned(w), m - e) /\ next[<<e, w>>] \in Field
  <2>1. <<e, w>> \in (0 .. m) \X W
    OBVIOUS
  <2>2. m - e \in Idx(n)
    BY <1>1
  <2> HIDE DEF Value, Turned
  <2>3. QED
    BY <1>3, <2>1, <2>2
<1> HIDE DEF Value, Turned
<1>6. next \in [(0 .. m) \X W -> Field]
  <2>1. ASSUME NEW p \in (0 .. m) \X W PROVE next[p] \in Field
    <3>1. p = <<p[1], p[2]>> /\ p[1] \in 0 .. m /\ p[2] \in W
      OBVIOUS
    <3>2. next[<<p[1], p[2]>>] \in Field
      BY <1>5, <3>1
    <3>3. QED
      BY <3>1, <3>2
  <2>2. QED
    BY <2>1
<1> HIDE DEF next
<1>7. Local(next, m)
  <2> SUFFICES ASSUME NEW e \in 0 .. m, NEW f \in W, NEW g \in W, \A k \in 0 .. m : k < e => f[k] = g[k]
               PROVE  next[<<e, f>>] = next[<<e, g>>]
    BY <1>1, <1>6 DEF Local
  <2>1. Value(Turned(f), m - e) = Value(Turned(g), m - e)
    BY <1>4
  <2>2. QED
    BY <1>5, <2>1
<1>8. PICK f : Solved(f, next, m)
  BY <1>7, CourseOfValues
<1>9. f \in W /\ \A e \in 0 .. m : f[e] = Value(Turned(f), m - e)
  BY <1>5, <1>8 DEF Solved
<1>10. Backward(Turned(f), A, P, S, n)
  <2>1. ASSUME NEW k \in Idx(n) PROVE Turned(f)[k] = Value(Turned(f), k)
    <3>1. m - k \in 0 .. m /\ m - (m - k) = k
      BY <1>1
    <3>2. f[m - k] = Value(Turned(f), k)
      BY <1>9, <3>1
    <3>3. QED
      BY <3>2 DEF Turned
  <2>2. Turned(f) = [k \in Idx(n) |-> Turned(f)[k]]
    BY DEF Turned
  <2>3. QED
    BY <2>1, <2>2 DEF Backward, Value
<1>11. ASSUME NEW X, Backward(X, A, P, S, n) PROVE X \in [Idx(n) -> Field]
  <2>1. X = [k \in Idx(n) |-> X[k]] /\ \A k \in Idx(n) : X[k] = Quotient(S[P[k]] - Known(A, P, X, k), A[P[k]][k])
    BY <1>11 DEF Backward
  <2> DEFINE T == {e \in Nat : \A k \in 0 .. m : m - k <= e => X[k] \in Field}
  <2>2. ASSUME NEW k \in 0 .. m, \A j \in 0 .. m : j > k => X[j] \in Field PROVE X[k] \in Field
    <3>1. LaterIn(X, k, n) /\ k \in Idx(n)
      BY <1>1, <2>2 DEF LaterIn
    <3>2. QED
      BY <2>1, <3>1, UnknownIs
  <2>3. 0 \in T
    <3>1. ASSUME NEW k \in 0 .. m, m - k <= 0 PROVE X[k] \in Field
      <4>1. \A j \in 0 .. m : ~ (j > k)
        BY <1>1, <3>1
      <4>2. QED
        BY <2>2, <4>1
    <3>2. QED
      BY <3>1
  <2>4. ASSUME NEW e \in Nat, e \in T PROVE e + 1 \in T
    <3>1. ASSUME NEW k \in 0 .. m, m - k <= e + 1 PROVE X[k] \in Field
      <4>1. \A j \in 0 .. m : j > k => m - j <= e
        BY <1>1, <3>1
      <4>2. \A j \in 0 .. m : j > k => X[j] \in Field
        BY <2>4, <4>1
      <4>3. QED
        BY <2>2, <4>2
    <3>2. QED
      BY <3>1
  <2> HIDE DEF T
  <2>5. m \in T
    BY <1>1, <2>3, <2>4, InductiveSet
  <2>6. \A k \in Idx(n) : X[k] \in Field
    BY <1>1, <2>5 DEF T
  <2>7. QED
    BY <2>1, <2>6
<1>12. QED
  BY <1>10, <1>11

\* The solution of a system and the inverse of a matrix.
LEMMA BackSubsIs ==
  ASSUME NEW n \in Positive, NEW A, IsMat(A, n, n), NEW P \in [Idx(n) -> Idx(n)],
         NEW B, IsMat(B, n, 1)
  PROVE  /\ mat_backsubs1(A, B, P) \in [Idx(n) -> Field]
         /\ Backward(mat_backsubs1(A, B, P), A, P, Forward(A, B, P, n)[n], n)
<1> DEFINE S == Forward(A, B, P, n)[n]
           X == Unknowns(A, P, S, n)
<1>1. MatCol(A) = n
  BY ShapeIs
<1>2. mat_backsubs1(A, B, P) = X
  <2>1. mat_backsubs1(A, B, P)
          = Evaluated(Unknowns(A, P, Forward(A, B, P, MatCol(A))[MatCol(A)], MatCol(A)))
    BY Zenon DEF mat_backsubs1, Backward, Forward, Unknowns
  <2>2. QED
    BY <1>1, <2>1, EvaluatedIs
<1>3. S \in [Idx(n) -> Field]
  BY ForwardIs
<1> HIDE DEF S
<1>4. Backward(X, A, P, S, n) /\ X \in [Idx(n) -> Field]
  BY <1>3, BackwardIs DEF Unknowns
<1>5. QED
  BY <1>2, <1>4 DEF S

LEMMA UnitColumnIs ==
  ASSUME NEW n \in Positive, NEW j
  PROVE  /\ IsMat(UnitColumn(n, j), n, 1)
         /\ \A i \in Idx(n) : UnitColumn(n, j)[i][0] = IF i = j THEN 1 ELSE 0
<1>1. UnitColumn(n, j) = [i \in Idx(n) |-> [c \in Idx(1) |-> Reduced(IF i = j THEN 1 ELSE 0)]]
  BY EvaluatedIs DEF UnitColumn, Matrix
<1>2. Reduced(0) = 0 /\ Reduced(1) = 1 /\ 0 \in Field /\ 1 \in Field
  BY Reduces
<1>3. 0 \in Idx(1)
  BY DEF Idx
<1>4. QED
  BY <1>1, <1>2, <1>3 DEF IsMat

\* The columns of the inverse.
Columns(A, n) ==
  Evaluated([j \in Idx(n) |-> mat_backsubs1(mat_lu(A).A, UnitColumn(n, j), mat_lu(A).P)])

LEMMA InvIs ==
  ASSUME NEW n \in Positive, NEW A, IsMat(A, n, n)
  PROVE  /\ IsMat(mat_inv(A), n, n)
         /\ \A i \in Idx(n), j \in Idx(n) :
              mat_inv(A)[i][j] = mat_backsubs1(mat_lu(A).A, UnitColumn(n, j), mat_lu(A).P)[i]
<1> DEFINE L == mat_lu(A).A
           P == mat_lu(A).P
<1>1. MatCol(A) = n
  BY ShapeIs
<1>2. IsMat(L, n, n) /\ P \in [Idx(n) -> Idx(n)]
  BY LuIs DEF LuStates, IsMat
<1>3. mat_inv(A) = [i \in Idx(n) |-> [j \in Idx(n) |->
         Reduced([c \in Idx(n) |-> mat_backsubs1(L, UnitColumn(n, c), P)][j][i])]]
  <2>1. mat_inv(A) = Evaluated([i \in Idx(MatCol(A)) |-> [j \in Idx(MatCol(A)) |->
                                 Reduced(Columns(A, MatCol(A))[j][i])]])
    BY Zenon DEF mat_inv, Matrix, Columns
  <2>2. Columns(A, n) = [c \in Idx(n) |-> mat_backsubs1(L, UnitColumn(n, c), P)]
    BY EvaluatedIs DEF Columns
  <2>3. QED
    BY <1>1, <2>1, <2>2, EvaluatedIs
<1> HIDE DEF L, P
<1>4. ASSUME NEW i \in Idx(n), NEW j \in Idx(n)
      PROVE  /\ mat_backsubs1(L, UnitColumn(n, j), P)[i] \in Field
             /\ Reduced(mat_backsubs1(L, UnitColumn(n, j), P)[i]) = mat_backsubs1(L, UnitColumn(n, j), P)[i]
  <2>1. mat_backsubs1(L, UnitColumn(n, j), P) \in [Idx(n) -> Field]
    BY <1>2, BackSubsIs, UnitColumnIs
  <2>2. QED
    BY <2>1, Reduces
<1>5. \A i \in Idx(n), j \in Idx(n) :
        mat_inv(A)[i][j] = mat_backsubs1(L, UnitColumn(n, j), P)[i] /\ mat_inv(A)[i][j] \in Field
  BY <1>3, <1>4
<1>6. IsMat(mat_inv(A), n, n)
  BY <1>3, <1>5 DEF IsMat
<1>7. QED
  BY <1>5, <1>6 DEF L, P

-----------------------------------------------------------------------------
(* One equation *)

LEMMA OneIs == 1 \in Positive /\ 0 \in Idx(1) /\ \A i \in Idx(1) : i = 0
BY DEF Positive, Idx

LEMMA LuOfOne ==
  ASSUME NEW A, IsMat(A, 1, 1)
  PROVE  mat_lu(A).A = A
<1> DEFINE s == LuFirst(A, 1)
<1>1. s \in LuStates(1) /\ s.A = A /\ s.singular = FALSE
  BY OneIs DEF LuFirst, LuStates, IsMat
<1>2. mat_lu(A) = LuStep(s, 0)
  BY OneIs, LuIs
<1> HIDE DEF s
<1>3. PICK q : q = Pivot(s.A, s.P, 0)
  OBVIOUS
<1>4. PICK P : P = [s.P EXCEPT ![0] = s.P[q], ![q] = s.P[0]]
  OBVIOUS
<1>5. DOMAIN P = Idx(1)
  BY <1>1, <1>4 DEF LuStates
<1>6. Eliminate(A, P, 0) = A
  <2>1. ~ \E i \in DOMAIN P : i > 0
    BY <1>5, OneIs
  <2>2. Eliminate(A, P, 0) = [r \in DOMAIN A |-> A[r]]
    BY <2>1, EvaluatedIs DEF Eliminate
  <2>3. QED
    BY <2>2 DEF IsMat
<1>7. \/ LuStep(s, 0) = [s EXCEPT !.singular = TRUE]
      \/ LuStep(s, 0) = [A |-> Eliminate(s.A, P, 0), P |-> P, singular |-> FALSE,
                         exchanges |-> s.exchanges + IF q = 0 THEN 0 ELSE 1]
  BY <1>1, <1>3, <1>4 DEF LuStep
<1>8. [s EXCEPT !.singular = TRUE].A = A
  BY <1>1 DEF LuStates
<1>9. [A |-> Eliminate(s.A, P, 0), P |-> P, singular |-> FALSE,
       exchanges |-> s.exchanges + IF q = 0 THEN 0 ELSE 1].A = A
  BY <1>1, <1>6
<1>10. LuStep(s, 0).A = A
  BY ONLY <1>7, <1>8, <1>9, Zenon
<1>11. QED
  BY <1>2, <1>10

LEMMA InvOfOne ==
  ASSUME NEW A, IsMat(A, 1, 1)
  PROVE  mat_inv(A)[0][0] = Reciprocal(A[0][0]) /\ Reciprocal(A[0][0]) \in Field
<1> DEFINE P == mat_lu(A).P
           B == UnitColumn(1, 0)
           S == Forward(A, B, P, 1)
           X == mat_backsubs1(A, B, P)
<1>1. mat_inv(A)[0][0] = X[0]
  BY OneIs, InvIs, LuOfOne
<1>2. P \in [Idx(1) -> Idx(1)] /\ P[0] = 0
  BY OneIs, LuIs DEF LuStates
<1>3. IsMat(B, 1, 1) /\ B[0][0] = 1
  BY OneIs, UnitColumnIs
<1> HIDE DEF P, B
<1>4. X \in [Idx(1) -> Field] /\ Backward(X, A, P, S[1], 1)
  BY <1>2, <1>3, OneIs, BackSubsIs
<1>5. S[1] = Forwarded(A, P, S[0], 1) /\ S[0] = [r \in Idx(1) |-> B[r][0]]
  <2>1. 1 \in 1 .. 1 /\ 1 - 1 = 0
    OBVIOUS
  <2>2. QED
    BY <1>2, <1>3, <2>1, OneIs, ForwardIs
<1>6. S[1][0] = 1
  <2>1. MatCol(A) = 1 /\ ~ \E i \in 1 .. 1 - 1 : P[i] = 0
    BY OneIs, ShapeIs
  <2>2. Forwarded(A, P, S[0], 1)[0] = S[0][0]
    BY <2>1, OneIs, EvaluatedIs DEF Forwarded
  <2>3. QED
    BY <1>3, <1>5, <2>2, OneIs
<1> HIDE DEF S, X
<1>7. Known(A, P, X, 0) = 0
  <2> DEFINE g == KnownTerms(A, P, X, 0, 1)
  <2>1. LaterIn(X, 0, 1)
    BY OneIs DEF LaterIn
  <2>2. Known(A, P, X, 0) = Total(1, g)
    BY <1>2, <2>1, OneIs, KnownIs
  <2>3. g[0] = 0 /\ \A k \in 0 .. 1 - 1 : g[k] \in Int
    BY DEF KnownTerms
  <2> HIDE DEF g
  <2>4. PICK f : Adds(f, 1, g) /\ Total(1, g) = f[1]
    BY <2>3, TotalIs
  <2>5. f[1] = Reduced(0 + 0)
    <3>1. 1 \in 1 .. 1 /\ 1 - 1 = 0
      OBVIOUS
    <3>2. QED
      BY <2>3, <2>4, <3>1 DEF Adds
  <2>6. QED
    BY <2>2, <2>4, <2>5, Reduces
<1>8. X[0] = Quotient(1 - 0, A[0][0])
  BY <1>2, <1>4, <1>6, <1>7, OneIs DEF Backward
<1>9. Reciprocal(A[0][0]) \in Field /\ Reciprocal(A[0][0]) \in Int
  BY OneIs, ShapeIs, ReciprocalIs, Reduces
<1>10. Quotient(1 - 0, A[0][0]) = Reciprocal(A[0][0])
  <2>1. 1 - 0 = 1 /\ 1 * Reciprocal(A[0][0]) = Reciprocal(A[0][0])
    BY <1>9, ProductIsInt
  <2>2. QED
    BY <1>9, <2>1, Reduces DEF Quotient
<1>11. QED
  BY <1>1, <1>8, <1>9, <1>10 DEF X

-----------------------------------------------------------------------------
(* The matrices of the filter *)

LEMMA NoiseIs ==
  /\ Noise.quat \in Int /\ Noise.bias \in Int /\ Noise.accel \in Int
  /\ Noise.heading \in Int /\ Noise.g2 \in Int
BY AttitudeAssumption

LEMMA ThreeIs == 3 \in Positive /\ 1 \in Positive /\ 7 \in Positive
BY DEF Positive

LEMMA IdenIs ==
  /\ IsMat(Iden, 7, 7)
  /\ \A i, j \in Idx(7) : Iden[i][j] = IF i = j THEN 1 ELSE 0
<1>1. Iden = [i \in Idx(7) |-> [j \in Idx(7) |-> Reduced(IF i = j THEN 1 ELSE 0)]]
  BY EvaluatedIs DEF Iden, UNIT_MATRIX, Matrix, States
<1>2. Reduced(0) = 0 /\ Reduced(1) = 1 /\ 0 \in Field /\ 1 \in Field
  BY Reduces
<1>3. QED
  BY <1>1, <1>2 DEF IsMat

LEMMA ZeroIs ==
  IsMat(ZERO_MATRIX(States, States), 7, 7) /\ NoBias(ZERO_MATRIX(States, States), 7)
<1>1. ZERO_MATRIX(States, States) = [i \in Idx(7) |-> [j \in Idx(7) |-> Reduced(0)]]
  BY EvaluatedIs DEF ZERO_MATRIX, Matrix, States
<1>2. Reduced(0) = 0 /\ 0 \in Field
  BY Reduces
<1>3. QED
  BY <1>1, <1>2, SevenIs DEF IsMat, NoBias

LEMMA QIs == IsMat(aQ, 7, 7)
<1>1. aQ = [i \in Idx(7) |-> [j \in Idx(7) |->
              Reduced(IF i = j THEN (IF i \in QuatIdx THEN Noise.quat ELSE Noise.bias) ELSE 0)]]
  BY EvaluatedIs DEF aQ, Diagonal, Matrix, States
<1>2. Reduced(Noise.quat) \in Field /\ Reduced(Noise.bias) \in Field /\ Reduced(0) \in Field
  BY NoiseIs, Reduces
<1>3. QED
  BY <1>1, <1>2 DEF IsMat

LEMMA RIs == IsMat(aR, 3, 3)
<1>1. aR = [i \in Idx(3) |-> [j \in Idx(3) |-> Reduced(IF i = j THEN Noise.accel ELSE 0)]]
  BY EvaluatedIs DEF aR, Diagonal, Matrix
<1>2. Reduced(Noise.accel) \in Field /\ Reduced(0) \in Field
  BY NoiseIs, Reduces
<1>3. QED
  BY <1>1, <1>2 DEF IsMat

\* The noise of the heading as a matrix.
HeadingR == Diagonal(1, LAMBDA i : Noise.heading)

LEMMA HeadingRIs == IsMat(HeadingR, 1, 1) /\ HeadingR[0][0] = Reduced(Noise.heading)
<1>1. HeadingR = [i \in Idx(1) |-> [j \in Idx(1) |-> Reduced(IF i = j THEN Noise.heading ELSE 0)]]
  BY EvaluatedIs DEF HeadingR, Diagonal, Matrix
<1>2. Reduced(Noise.heading) \in Field /\ Reduced(0) \in Field
  BY NoiseIs, Reduces
<1>3. QED
  BY <1>1, <1>2, OneIs DEF IsMat

LEMMA FsysIs ==
  ASSUME NEW x \in Quaternions, NEW rate \in Rates, NEW Hdt \in HalfSteps
  PROVE  IsMat(Fsys(x, rate, Hdt), 7, 7) /\ UnitBias(Fsys(x, rate, Hdt))
<1>1. /\ x[0] \in Int /\ x[1] \in Int /\ x[2] \in Int /\ x[3] \in Int
      /\ rate.p \in Int /\ rate.q \in Int /\ rate.r \in Int /\ Hdt \in Int
  BY AttitudeAssumption DEF QuatIdx
<1> DEFINE p == rate.p
           q == rate.q
           r == rate.r
           r1 == <<0, -p, -q, -r, x[1], x[2], x[3]>>
           r2 == <<p, 0, r, -q, -x[0], x[3], -x[2]>>
           r3 == <<q, -r, 0, p, -x[3], -x[0], x[1]>>
           r4 == <<r, q, -p, 0, x[2], -x[1], -x[0]>>
           rows == <<r1, r2, r3, r4>>
<1>2. \A j \in 1 .. 7 : r1[j] \in Int /\ r2[j] \in Int /\ r3[j] \in Int /\ r4[j] \in Int
  BY <1>1
<1>3. Fsys(x, rate, Hdt) = [i \in Idx(7) |-> [j \in Idx(7) |->
         Reduced(IF i = j THEN 1 ELSE IF i \in QuatIdx THEN rows[i + 1][j + 1] * Hdt ELSE 0)]]
  BY EvaluatedIs DEF Fsys, Matrix, States
<1>4. \A i \in 1 .. 4, j \in 1 .. 7 : rows[i][j] \in Int
  <2>1. rows[1] = r1 /\ rows[2] = r2 /\ rows[3] = r3 /\ rows[4] = r4 /\ \A i \in 1 .. 4 : i \in {1, 2, 3, 4}
    OBVIOUS
  <2> HIDE DEF rows, r1, r2, r3, r4
  <2>2. QED
    BY <1>2, <2>1
<1> HIDE DEF rows
<1>5. ASSUME NEW i \in Idx(7), NEW j \in Idx(7), i \in QuatIdx
      PROVE  Reduced(rows[i + 1][j + 1] * Hdt) \in Field
  <2>1. i + 1 \in 1 .. 4 /\ j + 1 \in 1 .. 7
    BY <1>5 DEF Idx, QuatIdx
  <2>2. rows[i + 1][j + 1] * Hdt \in Int
    BY <1>1, <1>4, <2>1, ProductIsInt
  <2>3. QED
    BY <2>2, Reduces
<1>6. Reduced(0) = 0 /\ Reduced(1) = 1 /\ 0 \in Field /\ 1 \in Field
  BY Reduces
<1>7. IsMat(Fsys(x, rate, Hdt), 7, 7)
  BY <1>3, <1>5, <1>6 DEF IsMat
<1>8. UnitBias(Fsys(x, rate, Hdt))
  <2>1. \A i \in BiasIdx : i \in Idx(7) /\ i \notin QuatIdx
    BY DEF BiasIdx, QuatIdx, Idx
  <2>2. QED
    BY <1>3, <1>6, <2>1 DEF UnitBias
<1>9. QED
  BY <1>7, <1>8

LEMMA HjIs ==
  ASSUME NEW x \in Quaternions
  PROVE  IsMat(Hj(x), 3, 7) /\ NoBias(Hj(x), 3)
<1>1. x[0] \in Int /\ x[1] \in Int /\ x[2] \in Int /\ x[3] \in Int
  BY AttitudeAssumption DEF QuatIdx
<1> DEFINE r1 == <<x[2], -x[3], x[0], -x[1]>>
           r2 == <<-x[1], -x[0], -x[3], -x[2]>>
           r3 == <<-x[0], x[1], x[2], -x[3]>>
           rows == <<r1, r2, r3>>
<1>2. \A j \in 1 .. 4 : r1[j] \in Int /\ r2[j] \in Int /\ r3[j] \in Int
  BY <1>1
<1>3. Hj(x) = [i \in Idx(3) |-> [j \in Idx(7) |->
         Reduced(IF j \in QuatIdx THEN Noise.g2 * rows[i + 1][j + 1] ELSE 0)]]
  BY EvaluatedIs DEF Hj, Matrix, States
<1>4. \A i \in 1 .. 3, j \in 1 .. 4 : rows[i][j] \in Int
  <2>1. rows[1] = r1 /\ rows[2] = r2 /\ rows[3] = r3 /\ \A i \in 1 .. 3 : i \in {1, 2, 3}
    OBVIOUS
  <2> HIDE DEF rows, r1, r2, r3
  <2>2. QED
    BY <1>2, <2>1
<1> HIDE DEF rows
<1>5. ASSUME NEW i \in Idx(3), NEW j \in Idx(7), j \in QuatIdx
      PROVE  Reduced(Noise.g2 * rows[i + 1][j + 1]) \in Field
  <2>1. i + 1 \in 1 .. 3 /\ j + 1 \in 1 .. 4
    BY <1>5 DEF Idx, QuatIdx
  <2>2. Noise.g2 * rows[i + 1][j + 1] \in Int
    BY <1>4, <2>1, NoiseIs, ProductIsInt
  <2>3. QED
    BY <2>2, Reduces
<1>6. Reduced(0) = 0 /\ 0 \in Field
  BY Reduces
<1>7. IsMat(Hj(x), 3, 7)
  BY <1>3, <1>5, <1>6 DEF IsMat
<1>8. NoBias(Hj(x), 3)
  <2>1. \A j \in BiasIdx : j \in Idx(7) /\ j \notin QuatIdx
    BY DEF BiasIdx, QuatIdx, Idx
  <2>2. QED
    BY <1>3, <1>6, <2>1 DEF NoBias
<1>9. QED
  BY <1>7, <1>8

LEMMA HpsiIs ==
  ASSUME NEW x \in Quaternions
  PROVE  IsMat(Hpsi(x), 1, 7) /\ NoBias(Hpsi(x), 1)
<1>1. x[0] \in Int /\ x[1] \in Int /\ x[2] \in Int /\ x[3] \in Int
  BY AttitudeAssumption DEF QuatIdx
<1> DEFINE coeff0 == 2 * (x[1] * x[2] + x[0] * x[3])
           coeff1 == 1 - 2 * (x[2] * x[2] + x[3] * x[3])
           scale  == Quotient(2, Reduced(coeff0 * coeff0 + coeff1 * coeff1))
           t0     == Reduced(coeff1 * scale)
           t1     == Reduced(coeff0 * scale)
           row    == <<x[3] * t0, x[2] * t0, x[1] * t0 + 2 * x[2] * t1,
                       x[0] * t0 + 2 * x[3] * t1>>
<1>2. coeff0 \in Int /\ coeff1 \in Int
  BY <1>1
<1>3. Hpsi(x) = [i \in Idx(1) |-> [j \in Idx(7) |->
         Reduced(IF j \in QuatIdx THEN row[j + 1] ELSE 0)]]
  BY EvaluatedIs DEF Hpsi, Matrix, States
<1> HIDE DEF coeff0, coeff1
<1>4. scale \in Int
  <2>1. Reduced(coeff0 * coeff0 + coeff1 * coeff1) \in Int
    BY <1>2, ProductIsInt, Reduces
  <2>2. QED
    BY <2>1, QuotientIs
<1> HIDE DEF scale
<1>5. t0 \in Int /\ t1 \in Int
  BY <1>2, <1>4, ProductIsInt, Reduces
<1> HIDE DEF t0, t1
<1>6. \A j \in 1 .. 4 : row[j] \in Int
  <2>1. x[3] * t0 \in Int /\ x[2] * t0 \in Int /\ x[1] * t0 \in Int /\ x[0] * t0 \in Int
    BY <1>1, <1>5, ProductIsInt
  <2>2. 2 * x[2] \in Int /\ 2 * x[3] \in Int
    BY <1>1
  <2>3. 2 * x[2] * t1 \in Int /\ 2 * x[3] * t1 \in Int
    BY <1>5, <2>2, ProductIsInt
  <2>4. x[1] * t0 + 2 * x[2] * t1 \in Int /\ x[0] * t0 + 2 * x[3] * t1 \in Int
    BY <2>1, <2>3, ProductIsInt
  <2>5. ASSUME NEW a \in Int, NEW b \in Int, NEW c \in Int, NEW d \in Int
        PROVE  \A j \in 1 .. 4 : <<a, b, c, d>>[j] \in Int
    OBVIOUS
  <2>6. QED
    BY <2>1, <2>4, <2>5
<1> HIDE DEF row
<1>7. ASSUME NEW j \in QuatIdx PROVE Reduced(row[j + 1]) \in Field
  <2>1. j + 1 \in 1 .. 4
    BY DEF QuatIdx
  <2>2. QED
    BY <1>6, <2>1, Reduces
<1>8. Reduced(0) = 0 /\ 0 \in Field
  BY Reduces
<1>9. IsMat(Hpsi(x), 1, 7)
  BY <1>3, <1>7, <1>8 DEF IsMat
<1>10. NoBias(Hpsi(x), 1)
  <2>1. \A j \in BiasIdx : j \in Idx(7) /\ j \notin QuatIdx
    BY DEF BiasIdx, QuatIdx, Idx
  <2>2. QED
    BY <1>3, <1>8, <2>1 DEF NoBias
<1>11. QED
  BY <1>9, <1>10

-----------------------------------------------------------------------------
(* The parts of an update *)

LEMMA PredictedIs ==
  ASSUME NEW P, NEW F, IsMat(P, 7, 7), IsMat(F, 7, 7), UnitBias(F)
  PROVE  /\ Predicted(P, F) = TextbookPredicted(P, F)
         /\ IsMat(Predicted(P, F), 7, 7)
<1>1. IsMat(mat_mul(F, P), 7, 7) /\ mat_mymul2(F, P) = mat_mul(F, P)
  BY ThreeIs, MulIs, MyMul2IsMul
<1>2. PICK A : A = mat_mul(F, P)
  OBVIOUS
<1>3. mat_mymul3(A, F) = mat_mul(A, mat_tran(F))
  BY <1>1, <1>2, MyMul3IsMul
<1>4. IsMat(mat_tran(F), 7, 7)
  BY ThreeIs, TranIs
<1>5. IsMat(mat_mul(A, mat_tran(F)), 7, 7)
  BY <1>1, <1>2, <1>4, ThreeIs, MulIs
<1>6. IsMat(mat_add(mat_mul(A, mat_tran(F)), aQ), 7, 7)
  BY <1>5, ThreeIs, QIs, AddIs
<1>7. QED
  BY <1>1, <1>2, <1>3, <1>6 DEF Predicted, TextbookPredicted

\* The covariance of the measurement errors of r measurements, and the gain.
TextbookS(P, H, R) == mat_add(mat_mul(H, mat_mul(P, mat_tran(H))), R)

TextbookGain(P, H, R) == mat_mul(mat_mul(P, mat_tran(H)), mat_inv(TextbookS(P, H, R)))

LEMMA TextbookGainIs ==
  ASSUME NEW r \in Positive, NEW P, NEW H, NEW R, IsMat(P, 7, 7), IsMat(H, r, 7), IsMat(R, r, r)
  PROVE  /\ IsMat(mat_mul(P, mat_tran(H)), 7, r)
         /\ IsMat(TextbookS(P, H, R), r, r)
         /\ IsMat(mat_inv(TextbookS(P, H, R)), r, r)
         /\ IsMat(TextbookGain(P, H, R), 7, r)
<1>1. IsMat(mat_tran(H), 7, r)
  BY ThreeIs, TranIs
<1>2. PICK A : A = mat_mul(P, mat_tran(H))
  OBVIOUS
<1>3. IsMat(A, 7, r)
  BY <1>1, <1>2, ThreeIs, MulIs
<1>4. IsMat(mat_mul(H, A), r, r)
  BY <1>3, ThreeIs, MulIs
<1>5. PICK S : S = TextbookS(P, H, R)
  OBVIOUS
<1>6. IsMat(S, r, r)
  BY <1>2, <1>4, <1>5, AddIs DEF TextbookS
<1>7. IsMat(mat_inv(S), r, r)
  BY <1>6, InvIs
<1>8. IsMat(mat_mul(A, mat_inv(S)), 7, r)
  BY <1>3, <1>7, ThreeIs, MulIs
<1>9. QED
  BY <1>2, <1>3, <1>5, <1>6, <1>7, <1>8 DEF TextbookGain

LEMMA GravityGainIs ==
  ASSUME NEW P, NEW H, IsMat(P, 7, 7), IsMat(H, 3, 7), NoBias(H, 3)
  PROVE  GravityGain(P, H) = TextbookGain(P, H, aR)
<1>1. PICK A : A = mat_mul(P, mat_tran(H))
  OBVIOUS
<1>2. mat_mymul4(P, H, 3) = A /\ IsMat(A, 7, 3)
  BY <1>1, ThreeIs, RIs, MyMul4IsMul, TextbookGainIs
<1>3. mat_mymul(H, A, 3) = mat_mul(H, A)
  BY <1>2, ThreeIs, MyMulIsMul
<1>4. QED
  BY <1>1, <1>2, <1>3 DEF GravityGain, TextbookGain, TextbookS

\* Numbers that differ by a multiple of the modulus have the same remainder.
LEMMA SameRemainder ==
  ASSUME NEW x \in Int, NEW y \in Int, NEW a \in Int, x = y + Modulus * a
  PROVE  Reduced(x) = Reduced(y)
<1> DEFINE M == Modulus
<1>1. M \in Nat /\ M > 1
  BY ModulusAssumption
<1>2. ASSUME NEW z \in Int
      PROVE  \E q \in Int : z = M * q + (z % M) /\ z % M \in 0 .. M - 1
  <2>1. z = M * (z \div M) + (z % M)
    BY <1>1
  <2>2. z \div M \in Int /\ z % M \in 0 .. M - 1
    BY <1>1
  <2>3. QED
    BY <2>1, <2>2
<1>3. \A z \in Int : Reduced(z) = z % M
  BY DEF Reduced
<1>4. x = y + M * a
  OBVIOUS
<1> HIDE DEF M
<1>5. \A z \in Int : Reduced(z) \in 0 .. M - 1 /\ \E q \in Int : z = M * q + Reduced(z)
  BY <1>2, <1>3
<1>6. PICK v \in 0 .. M - 1, b \in Int : v = Reduced(x) /\ x = M * b + v
  BY <1>5
<1>7. PICK w \in 0 .. M - 1, c \in Int : w = Reduced(y) /\ y = M * c + w
  BY <1>5
<1>8. PICK d \in Int : d = c + a - b
  OBVIOUS
<1>9. v - w = M * d
  <2>1. M * d = M * c + M * a - M * b /\ M \in Int
    BY <1>1, <1>8
  <2>2. y = M * c + w /\ x = M * b + v /\ x = y + M * a
    BY <1>4, <1>6, <1>7
  <2>3. v \in Int /\ w \in Int
    BY <1>1
  <2>4. v - w = M * c + M * a - M * b
    BY ONLY <2>1, <2>2, <2>3, x \in Int, y \in Int, a \in Int, b \in Int, c \in Int
  <2>5. QED
    BY <2>1, <2>4
<1>10. d = 0
  <2>1. ASSUME d >= 1 PROVE FALSE
    <3>1. M * d >= M
      BY <1>1, <2>1
    <3>2. QED
      BY <1>1, <1>9, <3>1
  <2>2. ASSUME d <= -1 PROVE FALSE
    <3>1. M * d <= -M
      BY <1>1, <2>2
    <3>2. QED
      BY <1>1, <1>9, <3>1
  <2>3. QED
    BY <2>1, <2>2
<1>11. v = w
  BY <1>1, <1>9, <1>10
<1>12. QED
  BY <1>6, <1>7, <1>11

LEMMA RemainderOf ==
  ASSUME NEW x \in Int
  PROVE  \E a \in Int : x = Reduced(x) + Modulus * a
<1>1. Modulus \in Nat /\ Modulus > 1
  BY ModulusAssumption
<1>2. x = Modulus * (x \div Modulus) + (x % Modulus)
  BY <1>1
<1>3. x \div Modulus \in Int /\ x % Modulus \in Int
  BY <1>1
<1>4. x % Modulus = Reduced(x)
  BY DEF Reduced
<1>5. PICK m \in Int, q \in Int, r \in Int : m = Modulus /\ q = x \div Modulus /\ r = x % Modulus
  BY <1>1, <1>3
<1>6. x = r + m * q
  BY <1>2, <1>5
<1>7. QED
  BY <1>4, <1>5, <1>6, Zenon

\* A remainder may be taken before an addition or a multiplication as well as after it.
LEMMA ReducedTwice ==
  ASSUME NEW x \in Int, NEW y \in Int
  PROVE  /\ Reduced(x + Reduced(y)) = Reduced(x + y)
         /\ Reduced(x * Reduced(y)) = Reduced(x * y)
<1>1. PICK r \in Int : r = Reduced(y)
  BY Reduces
<1>2. PICK a \in Int : y = r + Modulus * a
  BY <1>1, RemainderOf
<1>3. PICK m \in Int : m = Modulus
  BY ModulusAssumption
<1>4. x + y = (x + r) + m * a /\ x + y \in Int /\ x + r \in Int
  BY <1>2, <1>3
<1>5. x * y = x * r + m * (x * a) /\ x * y \in Int /\ x * r \in Int /\ x * a \in Int
  <2>1. y = r + m * a
    BY <1>2, <1>3
  <2>2. x * (r + m * a) = x * r + m * (x * a)
    OBVIOUS
  <2>3. QED
    BY <2>1, <2>2
<1>6. Reduced(x + y) = Reduced(x + r)
  BY <1>3, <1>4, SameRemainder
<1>7. Reduced(x * y) = Reduced(x * r)
  BY <1>3, <1>5, SameRemainder
<1>8. QED
  BY <1>1, <1>6, <1>7

\* The product of a column and one number.
LEMMA DotSingle ==
  ASSUME NEW A, NEW B, IsMat(A, 7, 1), IsMat(B, 1, 1), NEW i \in Idx(7)
  PROVE  Dot(A, B, 1, i, 0) = Reduced(A[i][0] * B[0][0])
<1> DEFINE g == Products(A, B, 1, i, 0)
<1>1. 1 \in 0 .. 1
  OBVIOUS
<1>2. IsDot(A, B, 1, i, 0, g)
  BY <1>1, ThreeIs, OneIs, DotIs
<1> HIDE DEF g
<1>3. /\ Dot(A, B, 1, i, 0) = Total(1, g)
      /\ \A k \in 0 .. 1 - 1 : g[k] = A[i][k] * B[k][0] /\ g[k] \in Int
  BY <1>2 DEF IsDot
<1>4. g[0] = A[i][0] * B[0][0] /\ g[0] \in Int
  BY <1>3
<1>5. PICK f : Adds(f, 1, g) /\ Total(1, g) = f[1]
  BY <1>3, TotalIs
<1>6. f[1] = Reduced(0 + g[0])
  <2>1. 1 \in 1 .. 1 /\ 1 - 1 = 0
    OBVIOUS
  <2>2. QED
    BY <1>5, <2>1 DEF Adds
<1>7. QED
  BY <1>3, <1>4, <1>5, <1>6, ProductIsInt

LEMMA HeadingGainIs ==
  ASSUME NEW P, NEW H, IsMat(P, 7, 7), IsMat(H, 1, 7), NoBias(H, 1)
  PROVE  HeadingGain(P, H) = TextbookGain(P, H, HeadingR)
<1>1. PICK A : A = mat_mul(P, mat_tran(H))
  OBVIOUS
<1>2. PICK S : S = TextbookS(P, H, HeadingR)
  OBVIOUS
<1>3. mat_mymul4(P, H, 3) = A /\ IsMat(A, 7, 1) /\ IsMat(S, 1, 1) /\ IsMat(mat_inv(S), 1, 1)
  BY <1>1, <1>2, ThreeIs, HeadingRIs, MyMul4IsMul, TextbookGainIs
<1>4. PICK s : s = Dot(H, A, 4, 0, 0) + Noise.heading
  OBVIOUS
<1>5. S[0][0] = Reduced(s)
  <2>1. IsMat(mat_mul(H, A), 1, 1)
    BY <1>3, ThreeIs, MulIs
  <2>2. mat_mul(H, A)[0][0] = Dot(H, A, 4, 0, 0)
    BY <1>3, ThreeIs, OneIs, MyMulIsMul
  <2>3. mat_mul(H, A)[0][0] \in Int
    BY <2>1, OneIs, ShapeIs
  <2>4. S[0][0] = Reduced(mat_mul(H, A)[0][0] + HeadingR[0][0])
    BY <1>1, <1>2, <2>1, HeadingRIs, OneIs, AddIs DEF TextbookS
  <2>5. QED
    BY <1>4, <2>2, <2>3, <2>4, HeadingRIs, NoiseIs, ReducedTwice
<1>6. PICK a : a = Reciprocal(Reduced(s))
  OBVIOUS
<1>7. mat_inv(S)[0][0] = a
  BY <1>3, <1>5, <1>6, InvOfOne
<1>8. MatRow(A) = 7 /\ MatCol(A) = 1
  BY <1>3, ThreeIs, ShapeIs
<1>9. HeadingGain(P, H) = [i \in Idx(7) |-> [j \in Idx(1) |-> Reduced(A[i][j] * a)]]
  <2>1. HeadingGain(P, H) = mat_scalMul(A, a)
    BY <1>3, <1>4, <1>6 DEF HeadingGain
  <2>2. QED
    BY <1>8, <2>1, EvaluatedIs DEF mat_scalMul, Matrix
<1>10. PICK B : B = mat_inv(S)
  OBVIOUS
<1>11. /\ IsMat(mat_mul(A, B), 7, 1)
       /\ \A i \in Idx(7), j \in Idx(1) : mat_mul(A, B)[i][j] = Dot(A, B, 1, i, j)
  BY <1>3, <1>10, ThreeIs, MulIs
<1>12. ASSUME NEW i \in Idx(7), NEW j \in Idx(1)
       PROVE  mat_mul(A, B)[i][j] = HeadingGain(P, H)[i][j] /\ mat_mul(A, B)[i][j] \in Field
  <2>1. j = 0
    BY OneIs
  <2>2. Dot(A, B, 1, i, 0) = Reduced(A[i][0] * a)
    BY <1>3, <1>7, <1>10, DotSingle
  <2>3. mat_mul(A, B)[i][j] \in Field
    BY <1>11, ThreeIs, ShapeIs
  <2>4. QED
    BY <1>9, <1>11, <2>1, <2>2, <2>3
<1>13. IsMat(HeadingGain(P, H), 7, 1)
  BY <1>9, <1>12 DEF IsMat
<1>14. HeadingGain(P, H) = mat_mul(A, B)
  BY <1>11, <1>12, <1>13, SameMat
<1>15. QED
  BY <1>1, <1>2, <1>10, <1>14 DEF TextbookGain

\* A correction with the gain of the full products is the correction of the full products,
\* and leaves the last three columns of the scratch matrix zero.
LEMMA CorrectionIs ==
  ASSUME NEW r \in Positive, NEW P, NEW H, NEW R, NEW M,
         IsMat(P, 7, 7), IsMat(H, r, 7), NoBias(H, r), IsMat(R, r, r),
         IsMat(M, 7, 7), NoBias(M, 7)
  PROVE  LET KH == GainTimesJacobian(TextbookGain(P, H, R), H, M)
         IN  /\ IsMat(KH, 7, 7) /\ NoBias(KH, 7)
             /\ Corrected(P, KH) = TextbookCorrected(P, H, R)
             /\ IsMat(Corrected(P, KH), 7, 7)
<1>1. PICK K : K = TextbookGain(P, H, R)
  OBVIOUS
<1>2. IsMat(K, 7, r)
  BY <1>1, TextbookGainIs
<1>3. PICK KH : KH = mat_mymul1(K, H, M, 3)
  OBVIOUS
<1>4. IsMat(KH, 7, 7) /\ NoBias(KH, 7) /\ KH = mat_mul(K, H)
  BY <1>2, <1>3, MyMul1IsMul
<1>5. PICK A : A = mat_sub(Iden, KH)
  OBVIOUS
<1>6. /\ IsMat(A, 7, 7)
      /\ \A i \in Idx(7), j \in Idx(7) : KH[i][j] = 0 => A[i][j] = Iden[i][j]
  BY <1>4, <1>5, ThreeIs, IdenIs, SubIs
<1>7. UnitColumns(A)
  <2>1. \A j \in BiasIdx : j \in Idx(7)
    BY SevenIs
  <2>2. QED
    BY <1>4, <1>6, <2>1, IdenIs DEF UnitColumns, NoBias
<1>8. mat_mymul5(A, P, 3) = mat_mul(A, P) /\ IsMat(mat_mul(A, P), 7, 7)
  BY <1>6, <1>7, ThreeIs, MyMul5IsMul, MulIs
<1>9. TextbookCorrected(P, H, R) = mat_mul(A, P)
  BY <1>1, <1>4, <1>5 DEF TextbookCorrected, TextbookGain, TextbookS
<1>10. QED
  BY <1>1, <1>3, <1>4, <1>5, <1>8, <1>9 DEF GainTimesJacobian, Corrected

-----------------------------------------------------------------------------
(* The covariance *)

\* The inductive invariant: the last three columns of mat77, which no update writes, are
\* the zeros they were made with.
CovarianceInv ==
  /\ IsMat(aP, 7, 7)
  /\ IsMat(mat77, 7, 7) /\ NoBias(mat77, 7)
  /\ CovarianceIsTextbook

LEMMA UpdateKeeps ==
  ASSUME CovarianceInv,
         NEW x \in Quaternions, NEW y \in Quaternions, NEW z \in Quaternions,
         NEW rate \in Rates, NEW Hdt \in HalfSteps, AhrsUpdate(x, y, z, rate, Hdt)
  PROVE  CovarianceInv'
<1> USE DEF CovarianceInv, CovarianceIsTextbook
<1>1. PICK F : F = Fsys(x, rate, Hdt)
  OBVIOUS
<1>2. IsMat(F, 7, 7) /\ UnitBias(F)
  BY <1>1, FsysIs
<1>3. PICK P1 : P1 = Predicted(aP, F)
  OBVIOUS
<1>4. IsMat(P1, 7, 7) /\ P1 = TextbookPredicted(textbook, F)
  BY <1>2, <1>3, PredictedIs
<1>5. PICK M1 : M1 = GainTimesJacobian(GravityGain(P1, Hj(y)), Hj(y), mat77)
  OBVIOUS
<1>6. PICK P2 : P2 = Corrected(P1, M1)
  OBVIOUS
<1>7. PICK T2 : T2 = TextbookCorrected(TextbookPredicted(textbook, F), Hj(y), aR)
  OBVIOUS
<1>8. IsMat(M1, 7, 7) /\ NoBias(M1, 7) /\ IsMat(P2, 7, 7) /\ P2 = T2
  <2>1. IsMat(Hj(y), 3, 7) /\ NoBias(Hj(y), 3)
    BY HjIs
  <2>2. GravityGain(P1, Hj(y)) = TextbookGain(P1, Hj(y), aR)
    BY <1>4, <2>1, GravityGainIs
  <2>3. QED
    BY <1>4, <1>5, <1>6, <1>7, <2>1, <2>2, ThreeIs, RIs, CorrectionIs
<1>9. PICK M2 : M2 = GainTimesJacobian(HeadingGain(P2, Hpsi(z)), Hpsi(z), M1)
  OBVIOUS
<1>10. PICK P3 : P3 = Corrected(P2, M2)
  OBVIOUS
<1>11. PICK T3 : T3 = TextbookCorrected(T2, Hpsi(z), HeadingR)
  OBVIOUS
<1>12. IsMat(M2, 7, 7) /\ NoBias(M2, 7) /\ IsMat(P3, 7, 7) /\ P3 = T3
  <2>1. IsMat(Hpsi(z), 1, 7) /\ NoBias(Hpsi(z), 1)
    BY HpsiIs
  <2>2. HeadingGain(P2, Hpsi(z)) = TextbookGain(P2, Hpsi(z), HeadingR)
    BY <1>8, <2>1, HeadingGainIs
  <2>3. QED
    BY <1>8, <1>9, <1>10, <1>11, <2>1, <2>2, ThreeIs, HeadingRIs, CorrectionIs
<1>13. /\ mat77' = M2 \/ mat77' = M1
       /\ \/ aP' = P3 /\ textbook' = T3
          \/ aP' = P2 /\ textbook' = T2
  BY <1>1, <1>3, <1>5, <1>6, <1>7, <1>9, <1>10, <1>11 DEF AhrsUpdate, HeadingR
<1>14. QED
  BY <1>8, <1>12, <1>13

\* The short products, the scratch matrix that is never cleared and the division by a number
\* in place of an inverse give the covariance of the full products, whatever the prime, the
\* quaternions, the rates, the intervals and the noise, and for any number of updates.
THEOREM Covariance_IsTextbook == AttitudeSpec => []CovarianceIsTextbook
<1>1. AttitudeInit => CovarianceInv
  <2> SUFFICES ASSUME AttitudeInit PROVE CovarianceInv
    OBVIOUS
  <2>1. aP = Iden /\ mat77 = ZERO_MATRIX(States, States) /\ textbook = aP
    BY DEF AttitudeInit
  <2>2. QED
    BY <2>1, IdenIs, ZeroIs DEF CovarianceInv, CovarianceIsTextbook
<1>2. CovarianceInv /\ [AttitudeNext]_attitudeVars => CovarianceInv'
  <2> SUFFICES ASSUME CovarianceInv, [AttitudeNext]_attitudeVars PROVE CovarianceInv'
    OBVIOUS
  <2>1. CASE AttitudeNext
    BY <2>1, UpdateKeeps DEF AttitudeNext
  <2>2. CASE UNCHANGED attitudeVars
    BY <2>2 DEF attitudeVars, CovarianceInv, CovarianceIsTextbook
  <2>3. QED
    BY <2>1, <2>2
<1>3. CovarianceInv => CovarianceIsTextbook
  BY DEF CovarianceInv
<1>4. QED
  BY <1>1, <1>2, <1>3, PTL DEF AttitudeSpec

-----------------------------------------------------------------------------
(* Sums of sums *)

\* The first n values of g are integers.
Summands(g, n) == \A k \in 0 .. n - 1 : g[k] \in Int

LEMMA TotalNext ==
  ASSUME NEW n \in Nat, NEW g, Summands(g, n + 1)
  PROVE  /\ Summands(g, n) /\ g[n] \in Int
         /\ Total(n + 1, g) = Reduced(Total(n, g) + g[n])
         /\ Total(n, g) \in Int /\ Total(n, g) \in Field /\ Total(n + 1, g) \in Field
<1>1. n \in n .. (n + 1) - 1 /\ n + 1 \in Nat /\ \A k \in n .. (n + 1) - 1 : k = n
  OBVIOUS
<1>2. \A k \in 0 .. n - 1 : g[k] \in Int
  BY DEF Summands
<1>3. g[n] \in Int
  BY DEF Summands
<1>4. Total(n + 1, g) = Reduced(Total(n, g) + g[n])
  BY <1>1, <1>2, <1>3, TotalWithOne
<1>5. Total(n, g) \in Field /\ Total(n + 1, g) \in Field
  BY <1>1, <1>2, TotalIs DEF Summands
<1>6. QED
  BY <1>2, <1>3, <1>4, <1>5, Reduces DEF Summands

LEMMA TotalNone == ASSUME NEW g PROVE Total(0, g) = 0
<1>1. PICK f : Adds(f, 0, g) /\ Total(0, g) = f[0]
  BY TotalIs
<1>2. QED
  BY <1>1 DEF Adds

\* h is f and c times g, but for what the remainders leave out.
Combines(h, f, c, g, n) ==
  /\ c \in Int /\ Summands(h, n) /\ Summands(f, n) /\ Summands(g, n)
  /\ \A k \in 0 .. n - 1 : Reduced(h[k]) = Reduced(f[k] + c * g[k])

LEMMA SumOfRemainders ==
  ASSUME NEW x \in Int, NEW y \in Int
  PROVE  Reduced(x + y) = Reduced(Reduced(x) + Reduced(y))
<1>1. Reduced(x) \in Int /\ Reduced(y) \in Int
  BY Reduces
<1>2. Reduced(x + Reduced(y)) = Reduced(x + y)
  BY ReducedTwice
<1>3. Reduced(Reduced(y) + Reduced(x)) = Reduced(Reduced(y) + x)
  BY <1>1, ReducedTwice
<1>4. Reduced(y) + x = x + Reduced(y) /\ Reduced(y) + Reduced(x) = Reduced(x) + Reduced(y)
  BY <1>1
<1>5. QED
  BY <1>2, <1>3, <1>4

\* The sums s, t and u, to which x, y and z are added.
Linked(s, t, u, x, y, z, c) ==
  /\ s \in Int /\ t \in Int /\ u \in Int /\ x \in Int /\ y \in Int /\ z \in Int /\ c \in Int
  /\ Reduced(x) = Reduced(y + c * z) /\ s = Reduced(t + c * u)

LEMMA CombinesStep ==
  ASSUME NEW s, NEW t, NEW u, NEW x, NEW y, NEW z, NEW c, Linked(s, t, u, x, y, z, c)
  PROVE  Reduced(s + x) = Reduced(Reduced(t + y) + c * Reduced(u + z))
<1> USE DEF Linked
<1>1. PICK v \in Int, w \in Int : v = c * u /\ w = c * z
  OBVIOUS
<1>2. Reduced(s + x) = Reduced((t + v) + (y + w))
  <2>1. t + v \in Int /\ y + w \in Int
    OBVIOUS
  <2>2. Reduced(s + x) = Reduced(Reduced(s) + Reduced(x))
    BY SumOfRemainders
  <2>3. Reduced(s) = s
    BY <1>1, <2>1, Reduces
  <2>4. Reduced((t + v) + (y + w)) = Reduced(Reduced(t + v) + Reduced(y + w))
    BY <2>1, SumOfRemainders
  <2>5. QED
    BY <1>1, <2>2, <2>3, <2>4
<1>3. PICK a \in Int, b \in Int : a = Reduced(t + y) /\ b = Reduced(u + z)
  <2>1. t + y \in Int /\ u + z \in Int
    OBVIOUS
  <2>2. QED
    BY <2>1, Reduces
<1>4. Reduced(a + c * b) = Reduced((t + y) + c * (u + z))
  <2>1. t + y \in Int /\ u + z \in Int /\ c * (u + z) \in Int /\ c * b \in Int
    OBVIOUS
  <2>2. Reduced(c * b) = Reduced(c * (u + z))
    BY <1>3, <2>1, ReducedTwice
  <2>3. Reduced(a) = Reduced(t + y)
    BY <1>3, <2>1, Reduces
  <2>4. QED
    BY <2>1, <2>2, <2>3, SumOfRemainders
<1>5. (t + v) + (y + w) = (t + y) + c * (u + z)
  <2>1. c * (u + z) = c * u + c * z
    OBVIOUS
  <2>2. QED
    BY <1>1, <2>1
<1>6. QED
  BY <1>2, <1>3, <1>4, <1>5

LEMMA TotalCombines ==
  ASSUME NEW n \in Nat, NEW h, NEW f, NEW c, NEW g, Combines(h, f, c, g, n)
  PROVE  Total(n, h) = Reduced(Total(n, f) + c * Total(n, g))
<1> USE DEF Combines
<1> DEFINE T == {m \in Nat : m <= n => Total(m, h) = Reduced(Total(m, f) + c * Total(m, g))}
<1>1. 0 \in T
  <2>1. 0 + c * 0 = 0
    OBVIOUS
  <2>2. QED
    BY <2>1, TotalNone, Reduces
<1>2. ASSUME NEW m \in Nat, m \in T PROVE m + 1 \in T
  <2>1. CASE m + 1 <= n
    <3>1. Summands(h, m + 1) /\ Summands(f, m + 1) /\ Summands(g, m + 1) /\ m \in 0 .. n - 1
      BY <2>1 DEF Summands
    <3>2. Total(m, h) = Reduced(Total(m, f) + c * Total(m, g))
      BY <1>2, <2>1
    <3>3. Reduced(h[m]) = Reduced(f[m] + c * g[m])
      BY <3>1
    <3>4. /\ Total(m, h) \in Int /\ h[m] \in Int /\ Total(m + 1, h) = Reduced(Total(m, h) + h[m])
          /\ Total(m, f) \in Int /\ f[m] \in Int /\ Total(m + 1, f) = Reduced(Total(m, f) + f[m])
          /\ Total(m, g) \in Int /\ g[m] \in Int /\ Total(m + 1, g) = Reduced(Total(m, g) + g[m])
      BY <3>1, TotalNext
    <3>5. Total(m + 1, h) = Reduced(Total(m + 1, f) + c * Total(m + 1, g))
      <4>1. PICK s \in Int, t \in Int, u \in Int : s = Total(m, h) /\ t = Total(m, f) /\ u = Total(m, g)
        BY <3>4
      <4>2. PICK x \in Int, y \in Int, z \in Int : x = h[m] /\ y = f[m] /\ z = g[m]
        BY <3>4
      <4>3. Linked(s, t, u, x, y, z, c)
        BY <3>2, <3>3, <4>1, <4>2 DEF Linked
      <4>4. Reduced(s + x) = Reduced(Reduced(t + y) + c * Reduced(u + z))
        BY <4>3, CombinesStep
      <4>5. QED
        BY <3>4, <4>1, <4>2, <4>4
    <3>6. QED
      BY <3>5
  <2>2. QED
    BY <2>1
<1> HIDE DEF T
<1>3. n \in T
  BY <1>1, <1>2, InductiveSet
<1>4. QED
  BY <1>3 DEF T

\* Terms with the same remainders have the same sum.
LEMMA TotalSame ==
  ASSUME NEW n \in Nat, NEW h, NEW f, Summands(h, n), Summands(f, n),
         \A k \in 0 .. n - 1 : Reduced(h[k]) = Reduced(f[k])
  PROVE  Total(n, h) = Total(n, f)
<1>1. ASSUME NEW k \in 0 .. n - 1 PROVE Reduced(h[k]) = Reduced(f[k] + 0 * f[k])
  <2>1. f[k] \in Int
    BY DEF Summands
  <2>2. f[k] + 0 * f[k] = f[k]
    BY <2>1
  <2>3. QED
    BY <2>2
<1>2. Combines(h, f, 0, f, n)
  BY <1>1 DEF Combines
<1>3. Total(n, h) = Reduced(Total(n, f) + 0 * Total(n, f))
  BY <1>2, TotalCombines
<1>4. Total(n, f) \in Field
  BY TotalIs DEF Summands
<1>5. Total(n, f) + 0 * Total(n, f) = Total(n, f)
  BY <1>4, Reduces
<1>6. QED
  BY <1>3, <1>4, <1>5, Reduces

\* A factor of every term is a factor of the sum.
LEMMA TotalScales ==
  ASSUME NEW n \in Nat, NEW h, NEW c \in Int, NEW g, Summands(h, n), Summands(g, n),
         \A k \in 0 .. n - 1 : Reduced(h[k]) = Reduced(c * g[k])
  PROVE  Total(n, h) = Reduced(c * Total(n, g))
<1> DEFINE f == [k \in 0 .. n - 1 |-> 0]
<1>1. \A k \in 0 .. n - 1 : f[k] = 0 /\ f[k] \in Int
  OBVIOUS
<1> HIDE DEF f
<1>2. ASSUME NEW k \in 0 .. n - 1 PROVE Reduced(h[k]) = Reduced(f[k] + c * g[k])
  <2>1. g[k] \in Int
    BY DEF Summands
  <2>2. f[k] + c * g[k] = c * g[k]
    BY <1>1, <2>1
  <2>3. QED
    BY <2>2
<1>3. Combines(h, f, c, g, n)
  BY <1>1, <1>2 DEF Combines, Summands
<1>4. Total(n, f) = 0
  <2>1. \A k \in 0 .. n - 1 : k \in 0 .. n - 1 => f[k] = 0
    BY <1>1
  <2>2. Total(n, f) = Total(0, f)
    <3>1. 0 \in Nat /\ 0 <= n /\ \A k \in 0 .. 0 - 1 : f[k] \in Int
      OBVIOUS
    <3>2. QED
      BY <1>1, <3>1, TotalExtends
  <2>3. QED
    BY <2>2, TotalNone
<1>5. Total(n, h) = Reduced(Total(n, f) + c * Total(n, g))
  BY <1>3, TotalCombines
<1>6. Total(n, g) \in Int
  BY TotalIs, Reduces DEF Summands
<1>7. 0 + c * Total(n, g) = c * Total(n, g)
  BY <1>6
<1>8. QED
  BY <1>4, <1>5, <1>7

\* The sums of the rows of G, and of its columns.
RowTotals(G, n, m) == [k \in 0 .. n - 1 |-> Total(m, [l \in 0 .. m - 1 |-> G[<<k, l>>]])]
ColumnTotals(G, n, m) == [l \in 0 .. m - 1 |-> Total(n, [k \in 0 .. n - 1 |-> G[<<k, l>>]])]

Table(G, n, m) == \A k \in 0 .. n - 1, l \in 0 .. m - 1 : G[<<k, l>>] \in Int

LEMMA RowTotalIs ==
  ASSUME NEW n \in Nat, NEW m \in Nat, NEW G, Table(G, n, m), NEW k \in 0 .. n - 1
  PROVE  Summands([l \in 0 .. m - 1 |-> G[<<k, l>>]], m)
         /\ Total(m, [l \in 0 .. m - 1 |-> G[<<k, l>>]]) \in Int
<1> DEFINE g == [l \in 0 .. m - 1 |-> G[<<k, l>>]]
<1>1. \A l \in 0 .. m - 1 : g[l] \in Int
  BY DEF Table
<1> HIDE DEF g
<1>2. Total(m, g) \in Int
  BY <1>1, TotalIs, Reduces
<1>3. QED
  BY <1>1, <1>2 DEF g, Summands

LEMMA ColumnTotalIs ==
  ASSUME NEW n \in Nat, NEW m \in Nat, NEW G, Table(G, n, m), NEW l \in 0 .. m - 1
  PROVE  Summands([k \in 0 .. n - 1 |-> G[<<k, l>>]], n)
         /\ Total(n, [k \in 0 .. n - 1 |-> G[<<k, l>>]]) \in Int
         /\ Total(n, [k \in 0 .. n - 1 |-> G[<<k, l>>]]) \in Field
<1> DEFINE g == [k \in 0 .. n - 1 |-> G[<<k, l>>]]
<1>1. \A k \in 0 .. n - 1 : g[k] \in Int
  BY DEF Table
<1> HIDE DEF g
<1>2. Total(n, g) \in Int /\ Total(n, g) \in Field
  BY <1>1, TotalIs, Reduces
<1>3. QED
  BY <1>1, <1>2 DEF g, Summands

\* The sums may be exchanged.
LEMMA TotalsExchange ==
  ASSUME NEW m \in Nat, NEW N \in Nat, NEW G, Table(G, N, m)
  PROVE  Total(N, RowTotals(G, N, m)) = Total(m, ColumnTotals(G, N, m))
<1> DEFINE T == {n \in Nat : n <= N => Total(n, RowTotals(G, n, m)) = Total(m, ColumnTotals(G, n, m))}
<1>1. 0 \in T
  <2> DEFINE c == ColumnTotals(G, 0, m)
  <2>1. ASSUME NEW l \in 0 .. m - 1 PROVE c[l] = 0
    BY TotalNone DEF ColumnTotals
  <2> HIDE DEF c
  <2>2. Total(m, c) = Total(0, c)
    <3>1. 0 \in Nat /\ 0 <= m /\ \A k \in 0 .. 0 - 1 : c[k] \in Int
      OBVIOUS
    <3>2. QED
      BY <2>1, <3>1, TotalExtends
  <2>3. Total(m, c) = 0 /\ Total(0, RowTotals(G, 0, m)) = 0
    BY <2>2, TotalNone
  <2>4. QED
    BY <2>3 DEF c
<1>2. ASSUME NEW n \in Nat, n \in T PROVE n + 1 \in T
  <2> SUFFICES ASSUME n + 1 <= N
               PROVE  Total(n + 1, RowTotals(G, n + 1, m)) = Total(m, ColumnTotals(G, n + 1, m))
    OBVIOUS
  <2>1. Table(G, n, m) /\ Table(G, n + 1, m) /\ n \in 0 .. (n + 1) - 1 /\ n + 1 \in Nat
    BY DEF Table
  <2> DEFINE R == RowTotals(G, n + 1, m)
             Q == RowTotals(G, n, m)
             C == ColumnTotals(G, n + 1, m)
             B == ColumnTotals(G, n, m)
             g == [l \in 0 .. m - 1 |-> G[<<n, l>>]]
  <2>2. Summands(R, n + 1) /\ R[n] = Total(m, g)
    BY <2>1, RowTotalIs DEF RowTotals, Summands
  <2>3. Total(n, R) = Total(n, Q)
    <3>1. \A k \in 0 .. n - 1 : R[k] = Q[k]
      BY DEF RowTotals
    <3>2. Summands(R, n) /\ Summands(Q, n)
      BY <2>1, <2>2, <3>1, TotalNext DEF Summands
    <3> HIDE DEF R, Q
    <3>3. QED
      BY <3>1, <3>2, TotalSame
  <2>4. Summands(g, m)
    BY <2>1, RowTotalIs
  <2>5. Combines(C, B, 1, g, m)
    <3>1. ASSUME NEW l \in 0 .. m - 1
          PROVE  C[l] \in Int /\ B[l] \in Int /\ Reduced(C[l]) = Reduced(B[l] + 1 * g[l])
      <4> DEFINE tall == [k \in 0 .. (n + 1) - 1 |-> G[<<k, l>>]]
                 low == [k \in 0 .. n - 1 |-> G[<<k, l>>]]
      <4>1. C[l] = Total(n + 1, tall) /\ B[l] = Total(n, low)
        BY DEF ColumnTotals
      <4>2. Summands(tall, n + 1) /\ Summands(low, n)
        BY <2>1, ColumnTotalIs
      <4>3. tall[n] = g[l] /\ \A k \in 0 .. n - 1 : tall[k] = low[k]
        BY <2>1
      <4> HIDE DEF tall, low, g, C, B
      <4>4. /\ Summands(tall, n) /\ tall[n] \in Int
            /\ Total(n + 1, tall) = Reduced(Total(n, tall) + tall[n])
            /\ Total(n, tall) \in Int /\ Total(n + 1, tall) \in Field /\ Total(n + 1, tall) \in Int
        BY <4>2, TotalNext, Reduces
      <4>5. Total(n, tall) = Total(n, low)
        BY <4>2, <4>3, <4>4, TotalSame
      <4>6. 1 * g[l] = g[l]
        BY <4>3, <4>4
      <4>7. QED
        BY <4>1, <4>3, <4>4, <4>5, <4>6, Reduces
    <3> HIDE DEF C, B, g
    <3>2. QED
      BY <2>4, <3>1 DEF Combines, Summands
  <2>6. Total(n, Q) = Total(m, B)
    BY <1>2
  <2> HIDE DEF R, Q, C, B, g
  <2>7. Total(n + 1, R) = Reduced(Total(n, R) + Total(m, g))
    BY <2>2, TotalNext
  <2>8. Total(m, C) = Reduced(Total(m, B) + 1 * Total(m, g))
    BY <2>5, TotalCombines
  <2>9. Total(m, g) \in Int
    BY <2>4, TotalIs, Reduces DEF Summands
  <2>10. 1 * Total(m, g) = Total(m, g)
    BY <2>9
  <2>11. QED
    BY <2>3, <2>6, <2>7, <2>8, <2>10 DEF R, C
<1> HIDE DEF T
<1>3. N \in T
  BY <1>1, <1>2, InductiveSet
<1>4. QED
  BY <1>3 DEF T

-----------------------------------------------------------------------------
(* The product is associative *)

\* The terms of entry i, j of the product of A and B.
Terms(A, B, n, i, j, g) ==
  Summands(g, n) /\ \A k \in 0 .. n - 1 : g[k] = A[i][k] * B[k][j]

\* A and B have a product with an entry i, j.
Factors(A, B, r, n, c, i, j) ==
  /\ r \in Positive /\ n \in Positive /\ c \in Positive
  /\ IsMat(A, r, n) /\ IsMat(B, n, c) /\ i \in Idx(r) /\ j \in Idx(c)

LEMMA EntryIs ==
  ASSUME NEW r, NEW n, NEW c, NEW A, NEW B, NEW i, NEW j, Factors(A, B, r, n, c, i, j)
  PROVE  \E g : Terms(A, B, n, i, j, g) /\ mat_mul(A, B)[i][j] = Total(n, g)
<1> USE DEF Factors
<1>1. n \in 0 .. n
  BY DEF Positive
<1>2. PICK g : IsDot(A, B, n, i, j, g)
  BY <1>1, DotIs
<1>3. mat_mul(A, B)[i][j] = Total(n, g)
  BY <1>2, MulIs DEF IsDot
<1>4. Terms(A, B, n, i, j, g)
  BY <1>2 DEF IsDot, Terms, Summands
<1>5. QED
  BY <1>3, <1>4

\* Column l of G is c times g, row k of G is c times g.
ColumnOf(G, n, m, l, c, g) ==
  /\ Table(G, n, m) /\ l \in 0 .. m - 1 /\ c \in Int /\ Summands(g, n)
  /\ \A k \in 0 .. n - 1 : G[<<k, l>>] = c * g[k]

RowOf(G, n, m, k, c, g) ==
  /\ Table(G, n, m) /\ k \in 0 .. n - 1 /\ c \in Int /\ Summands(g, m)
  /\ \A l \in 0 .. m - 1 : G[<<k, l>>] = c * g[l]

LEMMA ColumnOfIs ==
  ASSUME NEW n \in Nat, NEW m \in Nat, NEW G, NEW l, NEW c, NEW g, ColumnOf(G, n, m, l, c, g)
  PROVE  ColumnTotals(G, n, m)[l] = Reduced(c * Total(n, g))
<1> USE DEF ColumnOf
<1> DEFINE h == [k \in 0 .. n - 1 |-> G[<<k, l>>]]
<1>1. Summands(h, n)
  BY ColumnTotalIs
<1>2. \A k \in 0 .. n - 1 : h[k] = c * g[k]
  OBVIOUS
<1>3. ColumnTotals(G, n, m)[l] = Total(n, h)
  BY DEF ColumnTotals
<1> HIDE DEF h
<1>4. QED
  BY <1>1, <1>2, <1>3, TotalScales

LEMMA RowOfIs ==
  ASSUME NEW n \in Nat, NEW m \in Nat, NEW G, NEW k, NEW c, NEW g, RowOf(G, n, m, k, c, g)
  PROVE  RowTotals(G, n, m)[k] = Reduced(c * Total(m, g))
<1> USE DEF RowOf
<1> DEFINE h == [l \in 0 .. m - 1 |-> G[<<k, l>>]]
<1>1. Summands(h, m)
  BY RowTotalIs
<1>2. \A l \in 0 .. m - 1 : h[l] = c * g[l]
  OBVIOUS
<1>3. RowTotals(G, n, m)[k] = Total(m, h)
  BY DEF RowTotals
<1> HIDE DEF h
<1>4. QED
  BY <1>1, <1>2, <1>3, TotalScales

LEMMA Associative ==
  ASSUME NEW r \in Positive, NEW n \in Positive, NEW m \in Positive, NEW c \in Positive,
         NEW A, NEW B, NEW C, IsMat(A, r, n), IsMat(B, n, m), IsMat(C, m, c)
  PROVE  mat_mul(mat_mul(A, B), C) = mat_mul(A, mat_mul(B, C))
<1>1. PICK D : D = mat_mul(A, B)
  OBVIOUS
<1>2. PICK E : E = mat_mul(B, C)
  OBVIOUS
<1>3. IsMat(D, r, m) /\ IsMat(E, n, c)
  BY <1>1, <1>2, MulIs
<1>4. IsMat(mat_mul(D, C), r, c) /\ IsMat(mat_mul(A, E), r, c)
  BY <1>3, MulIs
<1>5. ASSUME NEW i \in Idx(r), NEW j \in Idx(c)
      PROVE  mat_mul(D, C)[i][j] = mat_mul(A, E)[i][j]
  <2> DEFINE G == [p \in (0 .. n - 1) \X (0 .. m - 1) |-> A[i][p[1]] * (B[p[1]][p[2]] * C[p[2]][j])]
  <2>1. n \in Nat /\ m \in Nat /\ 0 .. n - 1 = Idx(n) /\ 0 .. m - 1 = Idx(m)
    BY DEF Positive, Idx
  <2>2. ASSUME NEW k \in 0 .. n - 1, NEW l \in 0 .. m - 1
        PROVE  /\ G[<<k, l>>] = A[i][k] * (B[k][l] * C[l][j])
               /\ G[<<k, l>>] = C[l][j] * (A[i][k] * B[k][l])
               /\ A[i][k] \in Int /\ B[k][l] \in Int /\ C[l][j] \in Int /\ G[<<k, l>>] \in Int
               /\ D[i][l] \in Int /\ E[k][j] \in Int
    <3>1. G[<<k, l>>] = A[i][k] * (B[k][l] * C[l][j])
      OBVIOUS
    <3>2. k \in Idx(n) /\ l \in Idx(m)
      BY <2>1
    <3>3. A[i][k] \in Int /\ B[k][l] \in Int /\ C[l][j] \in Int
      BY <3>2, ShapeIs
    <3>4. D[i][l] \in Int /\ E[k][j] \in Int
      BY <1>3, <3>2, ShapeIs
    <3>5. PICK x \in Int, y \in Int, z \in Int : x = A[i][k] /\ y = B[k][l] /\ z = C[l][j]
      BY <3>3
    <3>6. x * (y * z) \in Int /\ x * (y * z) = z * (x * y)
      OBVIOUS
    <3>7. QED
      BY <3>1, <3>3, <3>4, <3>5, <3>6
  <2> HIDE DEF G
  <2>3. Table(G, n, m)
    BY <2>2 DEF Table
  <2>4. PICK h : Terms(D, C, m, i, j, h) /\ mat_mul(D, C)[i][j] = Total(m, h)
    <3>1. Factors(D, C, r, m, c, i, j)
      BY <1>3 DEF Factors
    <3>2. QED
      BY <3>1, EntryIs
  <2>5. ASSUME NEW l \in 0 .. m - 1
        PROVE  ColumnTotals(G, n, m)[l] = Reduced(h[l]) /\ ColumnTotals(G, n, m)[l] \in Field
    <3>1. PICK g : Terms(A, B, n, i, l, g) /\ mat_mul(A, B)[i][l] = Total(n, g)
      <4>1. Factors(A, B, r, n, m, i, l)
        BY <2>1 DEF Factors
      <4>2. QED
        BY <4>1, EntryIs
    <3>2. C[l][j] \in Int /\ D[i][l] \in Int
      <4>1. 0 \in 0 .. n - 1
        BY DEF Positive
      <4>2. QED
        BY <2>2, <4>1
    <3>3. ColumnOf(G, n, m, l, C[l][j], g)
      BY <2>2, <2>3, <3>1, <3>2 DEF ColumnOf, Terms
    <3>4. ColumnTotals(G, n, m)[l] = Reduced(C[l][j] * D[i][l])
      BY <1>1, <2>1, <3>1, <3>3, ColumnOfIs
    <3>5. h[l] = C[l][j] * D[i][l] /\ h[l] \in Int
      <4>1. h[l] = D[i][l] * C[l][j]
        BY <2>4 DEF Terms
      <4>2. QED
        BY <3>2, <4>1
    <3>6. QED
      BY <3>4, <3>5, Reduces
  <2>6. PICK e : Terms(A, E, n, i, j, e) /\ mat_mul(A, E)[i][j] = Total(n, e)
    <3>1. Factors(A, E, r, n, c, i, j)
      BY <1>3 DEF Factors
    <3>2. QED
      BY <3>1, EntryIs
  <2>7. ASSUME NEW k \in 0 .. n - 1
        PROVE  RowTotals(G, n, m)[k] = Reduced(e[k]) /\ RowTotals(G, n, m)[k] \in Field
    <3>1. PICK g : Terms(B, C, m, k, j, g) /\ mat_mul(B, C)[k][j] = Total(m, g)
      <4>1. Factors(B, C, n, m, c, k, j)
        BY <2>1 DEF Factors
      <4>2. QED
        BY <4>1, EntryIs
    <3>2. A[i][k] \in Int /\ E[k][j] \in Int
      <4>1. 0 \in 0 .. m - 1
        BY DEF Positive
      <4>2. QED
        BY <2>2, <4>1
    <3>3. RowOf(G, n, m, k, A[i][k], g)
      BY <2>2, <2>3, <3>1, <3>2 DEF RowOf, Terms
    <3>4. RowTotals(G, n, m)[k] = Reduced(A[i][k] * E[k][j])
      BY <1>2, <2>1, <3>1, <3>3, RowOfIs
    <3>5. e[k] = A[i][k] * E[k][j] /\ e[k] \in Int
      BY <2>6, <3>2 DEF Terms, Summands
    <3>6. QED
      BY <3>4, <3>5, Reduces
  <2>8. Total(m, h) = Total(m, ColumnTotals(G, n, m))
    <3>1. PICK t : t = ColumnTotals(G, n, m)
      OBVIOUS
    <3>2. Summands(t, m) /\ Summands(h, m) /\ \A l \in 0 .. m - 1 : Reduced(h[l]) = Reduced(t[l])
      BY <2>4, <2>5, <3>1, Reduces DEF Summands, Terms
    <3>3. QED
      BY <2>1, <3>1, <3>2, TotalSame
  <2>9. Total(n, e) = Total(n, RowTotals(G, n, m))
    <3>1. PICK t : t = RowTotals(G, n, m)
      OBVIOUS
    <3>2. Summands(t, n) /\ Summands(e, n) /\ \A k \in 0 .. n - 1 : Reduced(e[k]) = Reduced(t[k])
      BY <2>6, <2>7, <3>1, Reduces DEF Summands, Terms
    <3>3. QED
      BY <2>1, <3>1, <3>2, TotalSame
  <2>10. QED
    BY <2>1, <2>3, <2>4, <2>6, <2>8, <2>9, TotalsExchange
<1>6. mat_mul(D, C) = mat_mul(A, E)
  BY <1>4, <1>5, SameMat
<1>7. QED
  BY <1>1, <1>2, <1>6

-----------------------------------------------------------------------------
(* Transposed matrices *)

LEMMA TranTran ==
  ASSUME NEW r \in Positive, NEW c \in Positive, NEW A, IsMat(A, r, c)
  PROVE  mat_tran(mat_tran(A)) = A
<1>1. PICK B : B = mat_tran(A)
  OBVIOUS
<1>2. IsMat(B, c, r) /\ \A i \in Idx(r), j \in Idx(c) : B[j][i] = A[i][j]
  BY <1>1, TranIs
<1>3. IsMat(mat_tran(B), r, c) /\ \A i \in Idx(r), j \in Idx(c) : mat_tran(B)[i][j] = B[j][i]
  BY <1>2, TranIs
<1>4. mat_tran(B) = A
  BY <1>2, <1>3, SameMat
<1>5. QED
  BY <1>1, <1>4

LEMMA TranMul ==
  ASSUME NEW r \in Positive, NEW n \in Positive, NEW c \in Positive,
         NEW A, NEW B, IsMat(A, r, n), IsMat(B, n, c)
  PROVE  mat_tran(mat_mul(A, B)) = mat_mul(mat_tran(B), mat_tran(A))
<1>1. PICK M : M = mat_mul(A, B)
  OBVIOUS
<1>2. PICK X : X = mat_tran(A)
  OBVIOUS
<1>3. PICK Y : Y = mat_tran(B)
  OBVIOUS
<1>4. IsMat(M, r, c) /\ IsMat(X, n, r) /\ IsMat(Y, c, n)
  BY <1>1, <1>2, <1>3, MulIs, TranIs
<1>5. IsMat(mat_tran(M), c, r) /\ \A i \in Idx(r), j \in Idx(c) : mat_tran(M)[j][i] = M[i][j]
  BY <1>4, TranIs
<1>6. IsMat(mat_mul(Y, X), c, r)
  BY <1>4, MulIs
<1>7. ASSUME NEW j \in Idx(c), NEW i \in Idx(r) PROVE mat_tran(M)[j][i] = mat_mul(Y, X)[j][i]
  <2>1. PICK g : Terms(A, B, n, i, j, g) /\ mat_mul(A, B)[i][j] = Total(n, g)
    <3>1. Factors(A, B, r, n, c, i, j)
      BY DEF Factors
    <3>2. QED
      BY <3>1, EntryIs
  <2>2. PICK h : Terms(Y, X, n, j, i, h) /\ mat_mul(Y, X)[j][i] = Total(n, h)
    <3>1. Factors(Y, X, c, n, r, j, i)
      BY <1>4 DEF Factors
    <3>2. QED
      BY <3>1, EntryIs
  <2>3. ASSUME NEW k \in 0 .. n - 1 PROVE Reduced(g[k]) = Reduced(h[k])
    <3>1. k \in Idx(n)
      BY DEF Idx
    <3>2. X[k][i] = A[i][k] /\ Y[j][k] = B[k][j]
      BY <1>2, <1>3, <3>1, TranIs
    <3>3. PICK x \in Int, y \in Int : x = A[i][k] /\ y = B[k][j]
      BY <3>1, ShapeIs
    <3>4. x * y = y * x
      OBVIOUS
    <3>5. QED
      BY <2>1, <2>2, <3>2, <3>3, <3>4 DEF Terms
  <2>4. n \in Nat /\ Summands(g, n) /\ Summands(h, n)
    BY <2>1, <2>2 DEF Terms, Positive
  <2>5. Total(n, g) = Total(n, h)
    BY <2>3, <2>4, TotalSame
  <2>6. QED
    BY <1>1, <1>5, <2>1, <2>2, <2>5
<1>8. mat_tran(M) = mat_mul(Y, X)
  BY <1>5, <1>6, <1>7, SameMat
<1>9. QED
  BY <1>1, <1>2, <1>3, <1>8

-----------------------------------------------------------------------------
(* Symmetric matrices *)

Symmetric(A, n) == IsMat(A, n, n) /\ mat_tran(A) = A

LEMMA SymmetricIs ==
  ASSUME NEW n \in Positive, NEW A, IsMat(A, n, n)
  PROVE  Symmetric(A, n) <=> \A i \in Idx(n), j \in Idx(n) : A[i][j] = A[j][i]
<1>1. PICK B : B = mat_tran(A)
  OBVIOUS
<1>2. IsMat(B, n, n) /\ \A i \in Idx(n), j \in Idx(n) : B[j][i] = A[i][j]
  BY <1>1, TranIs
<1>3. ASSUME B = A PROVE \A i \in Idx(n), j \in Idx(n) : A[i][j] = A[j][i]
  BY <1>2, <1>3
<1>4. ASSUME \A i \in Idx(n), j \in Idx(n) : A[i][j] = A[j][i] PROVE B = A
  BY <1>2, <1>4, SameMat
<1>5. QED
  BY <1>1, <1>3, <1>4 DEF Symmetric

LEMMA SymmetricAdd ==
  ASSUME NEW n \in Positive, NEW A, NEW B, Symmetric(A, n), Symmetric(B, n)
  PROVE  Symmetric(mat_add(A, B), n)
<1>1. PICK C : C = mat_add(A, B)
  OBVIOUS
<1>2. IsMat(A, n, n) /\ IsMat(B, n, n)
  BY DEF Symmetric
<1>3. IsMat(C, n, n) /\ \A i \in Idx(n), j \in Idx(n) : C[i][j] = Reduced(A[i][j] + B[i][j])
  BY <1>1, <1>2, AddIs
<1>4. /\ \A i \in Idx(n), j \in Idx(n) : A[i][j] = A[j][i]
      /\ \A i \in Idx(n), j \in Idx(n) : B[i][j] = B[j][i]
  BY <1>2, SymmetricIs
<1>5. \A i \in Idx(n), j \in Idx(n) : C[i][j] = C[j][i]
  BY <1>3, <1>4
<1>6. QED
  BY <1>1, <1>3, <1>5, SymmetricIs

LEMMA SymmetricSub ==
  ASSUME NEW n \in Positive, NEW A, NEW B, Symmetric(A, n), Symmetric(B, n)
  PROVE  Symmetric(mat_sub(A, B), n)
<1>1. PICK C : C = mat_sub(A, B)
  OBVIOUS
<1>2. IsMat(A, n, n) /\ IsMat(B, n, n)
  BY DEF Symmetric
<1>3. IsMat(C, n, n) /\ \A i \in Idx(n), j \in Idx(n) : C[i][j] = Reduced(A[i][j] - B[i][j])
  BY <1>1, <1>2, SubIs
<1>4. /\ \A i \in Idx(n), j \in Idx(n) : A[i][j] = A[j][i]
      /\ \A i \in Idx(n), j \in Idx(n) : B[i][j] = B[j][i]
  BY <1>2, SymmetricIs
<1>5. \A i \in Idx(n), j \in Idx(n) : C[i][j] = C[j][i]
  BY <1>3, <1>4
<1>6. QED
  BY <1>1, <1>3, <1>5, SymmetricIs

\* A*V*A' is symmetric when V is.
LEMMA SymmetricBetween ==
  ASSUME NEW n \in Positive, NEW r \in Positive, NEW A, NEW V, IsMat(A, n, r), Symmetric(V, r)
  PROVE  Symmetric(mat_mul(mat_mul(A, V), mat_tran(A)), n)
<1>1. IsMat(V, r, r) /\ mat_tran(V) = V
  BY DEF Symmetric
<1>2. PICK B : B = mat_tran(A)
  OBVIOUS
<1>3. PICK C : C = mat_mul(A, V)
  OBVIOUS
<1>4. IsMat(B, r, n) /\ mat_tran(B) = A /\ IsMat(C, n, r)
  BY <1>1, <1>2, <1>3, TranIs, TranTran, MulIs
<1>5. mat_tran(C) = mat_mul(V, B)
  BY <1>1, <1>2, <1>3, TranMul
<1>6. mat_tran(mat_mul(C, B)) = mat_mul(A, mat_tran(C))
  BY <1>4, TranMul
<1>7. mat_mul(A, mat_mul(V, B)) = mat_mul(C, B)
  BY <1>1, <1>3, <1>4, Associative
<1>8. IsMat(mat_mul(C, B), n, n)
  BY <1>4, MulIs
<1>9. QED
  BY <1>2, <1>3, <1>5, <1>6, <1>7, <1>8 DEF Symmetric

-----------------------------------------------------------------------------
(* The unit matrix *)

LEMMA UnitIs ==
  ASSUME NEW n \in Positive
  PROVE  /\ Symmetric(UNIT_MATRIX(n), n)
         /\ \A i \in Idx(n), j \in Idx(n) : UNIT_MATRIX(n)[i][j] = IF i = j THEN 1 ELSE 0
<1>1. PICK U : U = UNIT_MATRIX(n)
  OBVIOUS
<1>2. U = [i \in Idx(n) |-> [j \in Idx(n) |-> Reduced(IF i = j THEN 1 ELSE 0)]]
  BY <1>1, EvaluatedIs DEF UNIT_MATRIX, Matrix
<1>3. Reduced(0) = 0 /\ Reduced(1) = 1 /\ 0 \in Field /\ 1 \in Field
  BY Reduces
<1>4. IsMat(U, n, n) /\ \A i \in Idx(n), j \in Idx(n) : U[i][j] = IF i = j THEN 1 ELSE 0
  BY <1>2, <1>3 DEF IsMat
<1>5. Symmetric(U, n)
  BY <1>4, SymmetricIs
<1>6. QED
  BY <1>1, <1>4, <1>5

LEMMA UnitTimes ==
  ASSUME NEW n \in Positive, NEW c \in Positive, NEW A, IsMat(A, n, c)
  PROVE  mat_mul(UNIT_MATRIX(n), A) = A
<1>1. PICK U : U = UNIT_MATRIX(n)
  OBVIOUS
<1>2. IsMat(U, n, n) /\ \A i \in Idx(n), j \in Idx(n) : U[i][j] = IF i = j THEN 1 ELSE 0
  BY <1>1, UnitIs DEF Symmetric
<1>3. IsMat(mat_mul(U, A), n, c) /\ \A i \in Idx(n), j \in Idx(c) : mat_mul(U, A)[i][j] = Dot(U, A, n, i, j)
  BY <1>2, MulIs
<1>4. ASSUME NEW i \in Idx(n), NEW j \in Idx(c) PROVE mat_mul(U, A)[i][j] = A[i][j]
  <2>1. OneInRow(U, i, 0, n, i)
    BY <1>2 DEF OneInRow, Idx
  <2>2. Dot(U, A, n, i, j) = A[i][j]
    BY <1>2, <2>1, UnitRowPicks
  <2>3. QED
    BY <1>3, <2>2
<1>5. QED
  BY <1>1, <1>3, <1>4, SameMat

LEMMA TimesUnit ==
  ASSUME NEW n \in Positive, NEW r \in Positive, NEW A, IsMat(A, r, n)
  PROVE  mat_mul(A, UNIT_MATRIX(n)) = A
<1>1. PICK U : U = UNIT_MATRIX(n)
  OBVIOUS
<1>2. IsMat(U, n, n) /\ \A i \in Idx(n), j \in Idx(n) : U[i][j] = IF i = j THEN 1 ELSE 0
  BY <1>1, UnitIs DEF Symmetric
<1>3. IsMat(mat_mul(A, U), r, n) /\ \A i \in Idx(r), j \in Idx(n) : mat_mul(A, U)[i][j] = Dot(A, U, n, i, j)
  BY <1>2, MulIs
<1>4. ASSUME NEW i \in Idx(r), NEW j \in Idx(n) PROVE mat_mul(A, U)[i][j] = A[i][j]
  <2>1. OneInColumn(U, j, 0, n, j)
    BY <1>2 DEF OneInColumn, Idx
  <2>2. Dot(A, U, n, i, j) = A[i][j]
    BY <1>2, <2>1, UnitColumnPicks
  <2>3. QED
    BY <1>3, <2>2
<1>5. QED
  BY <1>1, <1>3, <1>4, SameMat

\* What inverts a symmetric matrix is symmetric.
LEMMA SymmetricInverse ==
  ASSUME NEW n \in Positive, NEW S, NEW V, Symmetric(S, n), IsMat(V, n, n),
         mat_mul(S, V) = UNIT_MATRIX(n)
  PROVE  Symmetric(V, n)
<1>1. PICK U : U = UNIT_MATRIX(n)
  OBVIOUS
<1>2. PICK W : W = mat_tran(V)
  OBVIOUS
<1>3. IsMat(S, n, n) /\ mat_tran(S) = S /\ IsMat(W, n, n) /\ mat_tran(U) = U
  BY <1>1, <1>2, TranIs, UnitIs DEF Symmetric
<1>4. mat_mul(W, S) = U
  BY <1>1, <1>2, <1>3, TranMul
<1>5. mat_mul(mat_mul(W, S), V) = mat_mul(W, mat_mul(S, V))
  BY <1>3, Associative
<1>6. mat_mul(U, V) = V /\ mat_mul(W, U) = W
  BY <1>1, <1>3, UnitTimes, TimesUnit
<1>7. W = V
  BY <1>1, <1>4, <1>5, <1>6
<1>8. QED
  BY <1>2, <1>7 DEF Symmetric

-----------------------------------------------------------------------------
(* A product is distributive *)

LEMMA DifferenceTimes ==
  ASSUME NEW r \in Positive, NEW n \in Positive, NEW c \in Positive,
         NEW A, NEW B, NEW C, IsMat(A, r, n), IsMat(B, r, n), IsMat(C, n, c)
  PROVE  mat_mul(mat_sub(A, B), C) = mat_sub(mat_mul(A, C), mat_mul(B, C))
<1>1. PICK M : M = mat_sub(A, B)
  OBVIOUS
<1>2. PICK X : X = mat_mul(A, C)
  OBVIOUS
<1>3. PICK Y : Y = mat_mul(B, C)
  OBVIOUS
<1>4. IsMat(X, r, c) /\ IsMat(Y, r, c)
  BY <1>2, <1>3, MulIs
<1>5. /\ IsMat(M, r, n)
      /\ \A i \in Idx(r), k \in Idx(n) : M[i][k] = Reduced(A[i][k] - B[i][k])
  BY <1>1, SubIs
<1>6. /\ IsMat(mat_sub(X, Y), r, c)
      /\ \A i \in Idx(r), j \in Idx(c) : mat_sub(X, Y)[i][j] = Reduced(X[i][j] - Y[i][j])
  BY <1>4, SubIs
<1>7. IsMat(mat_mul(M, C), r, c)
  BY <1>5, MulIs
<1>8. ASSUME NEW i \in Idx(r), NEW j \in Idx(c) PROVE mat_mul(M, C)[i][j] = mat_sub(X, Y)[i][j]
  <2>1. PICK h : Terms(M, C, n, i, j, h) /\ mat_mul(M, C)[i][j] = Total(n, h)
    <3>1. Factors(M, C, r, n, c, i, j)
      BY <1>5 DEF Factors
    <3>2. QED
      BY <3>1, EntryIs
  <2>2. PICK f : Terms(A, C, n, i, j, f) /\ mat_mul(A, C)[i][j] = Total(n, f)
    <3>1. Factors(A, C, r, n, c, i, j)
      BY DEF Factors
    <3>2. QED
      BY <3>1, EntryIs
  <2>3. PICK g : Terms(B, C, n, i, j, g) /\ mat_mul(B, C)[i][j] = Total(n, g)
    <3>1. Factors(B, C, r, n, c, i, j)
      BY DEF Factors
    <3>2. QED
      BY <3>1, EntryIs
  <2>4. ASSUME NEW k \in 0 .. n - 1 PROVE Reduced(h[k]) = Reduced(f[k] + (-1) * g[k])
    <3>1. k \in Idx(n)
      BY DEF Idx
    <3>2. PICK x \in Int, y \in Int, z \in Int : x = A[i][k] /\ y = B[i][k] /\ z = C[k][j]
      BY <3>1, ShapeIs
    <3>3. M[i][k] = Reduced(x - y)
      BY <1>5, <3>1, <3>2
    <3>4. h[k] = Reduced(x - y) * z /\ f[k] = x * z /\ g[k] = y * z
      BY <2>1, <2>2, <2>3, <3>2, <3>3 DEF Terms
    <3>5. PICK d \in Int : d = x - y
      OBVIOUS
    <3>6. Reduced(d) \in Int /\ Reduced(z * Reduced(d)) = Reduced(z * d)
      BY Reduces, ReducedTwice
    <3>7. Reduced(d) * z = z * Reduced(d)
      BY <3>6
    <3>8. z * d = x * z + (-1) * (y * z)
      BY <3>5
    <3>9. QED
      BY <3>4, <3>5, <3>6, <3>7, <3>8
  <2>5. n \in Nat /\ Combines(h, f, -1, g, n)
    BY <2>1, <2>2, <2>3, <2>4 DEF Terms, Combines, Positive
  <2>6. Total(n, h) = Reduced(Total(n, f) + (-1) * Total(n, g))
    BY <2>5, TotalCombines
  <2>7. PICK x \in Int, y \in Int : x = X[i][j] /\ y = Y[i][j]
    BY <1>4, ShapeIs
  <2>8. x + (-1) * y = x - y
    OBVIOUS
  <2>9. QED
    BY <1>2, <1>3, <1>6, <2>1, <2>2, <2>3, <2>6, <2>7, <2>8
<1>9. QED
  BY <1>1, <1>2, <1>3, <1>6, <1>7, <1>8, SameMat

-----------------------------------------------------------------------------
(* The covariance is symmetric *)

LEMMA DiagonalsAreSymmetric == Symmetric(aQ, 7) /\ Symmetric(aR, 3) /\ Symmetric(HeadingR, 1)
<1>1. aQ = [i \in Idx(7) |-> [j \in Idx(7) |->
              Reduced(IF i = j THEN (IF i \in QuatIdx THEN Noise.quat ELSE Noise.bias) ELSE 0)]]
  BY EvaluatedIs DEF aQ, Diagonal, Matrix, States
<1>2. \A i \in Idx(7), j \in Idx(7) : aQ[i][j] = aQ[j][i]
  BY <1>1
<1>3. aR = [i \in Idx(3) |-> [j \in Idx(3) |-> Reduced(IF i = j THEN Noise.accel ELSE 0)]]
  BY EvaluatedIs DEF aR, Diagonal, Matrix
<1>4. \A i \in Idx(3), j \in Idx(3) : aR[i][j] = aR[j][i]
  BY <1>3
<1>5. \A i \in Idx(1), j \in Idx(1) : HeadingR[i][j] = HeadingR[j][i]
  BY OneIs
<1>6. QED
  BY <1>2, <1>4, <1>5, ThreeIs, QIs, RIs, HeadingRIs, SymmetricIs

LEMMA PredictedIsSymmetric ==
  ASSUME NEW P, NEW F, Symmetric(P, 7), IsMat(F, 7, 7)
  PROVE  Symmetric(TextbookPredicted(P, F), 7)
<1>1. Symmetric(mat_mul(mat_mul(F, P), mat_tran(F)), 7)
  BY ThreeIs, SymmetricBetween
<1>2. QED
  BY <1>1, ThreeIs, DiagonalsAreSymmetric, SymmetricAdd DEF TextbookPredicted

\* The covariance of the measurements is symmetric too, and H*P is the transposed P*H'.
LEMMA InnovationIs ==
  ASSUME NEW r \in Positive, NEW P, NEW H, NEW R,
         Symmetric(P, 7), IsMat(H, r, 7), Symmetric(R, r)
  PROVE  /\ Symmetric(TextbookS(P, H, R), r)
         /\ mat_mul(H, P) = mat_tran(mat_mul(P, mat_tran(H)))
<1>1. IsMat(P, 7, 7) /\ mat_tran(P) = P /\ 7 \in Positive
  BY ThreeIs DEF Symmetric
<1>2. PICK B : B = mat_tran(H)
  OBVIOUS
<1>3. IsMat(B, 7, r) /\ mat_tran(B) = H
  BY <1>1, <1>2, TranIs, TranTran
<1>4. Symmetric(mat_mul(mat_mul(H, P), B), r)
  BY <1>1, <1>2, SymmetricBetween
<1>5. mat_mul(mat_mul(H, P), B) = mat_mul(H, mat_mul(P, B))
  BY <1>1, <1>3, Associative
<1>6. mat_tran(mat_mul(P, B)) = mat_mul(H, P)
  BY <1>1, <1>3, TranMul
<1>7. Symmetric(mat_add(mat_mul(H, mat_mul(P, B)), R), r)
  BY <1>4, <1>5, SymmetricAdd
<1>8. QED
  BY <1>2, <1>6, <1>7 DEF TextbookS

\* (I - K*H)*P is P - A*V*A' for the A = P*H' and the V that K = A*V is made of.
LEMMA CorrectedIsSymmetric ==
  ASSUME NEW r \in Positive, NEW P, NEW H, NEW R,
         Symmetric(P, 7), IsMat(H, r, 7), Symmetric(R, r),
         Symmetric(mat_inv(TextbookS(P, H, R)), r)
  PROVE  Symmetric(TextbookCorrected(P, H, R), 7)
<1>1. IsMat(P, 7, 7) /\ IsMat(R, r, r) /\ 7 \in Positive
  BY ThreeIs DEF Symmetric
<1>2. PICK A : A = mat_mul(P, mat_tran(H))
  OBVIOUS
<1>3. PICK V : V = mat_inv(TextbookS(P, H, R))
  OBVIOUS
<1>4. PICK K : K = mat_mul(A, V)
  OBVIOUS
<1>5. IsMat(A, 7, r) /\ IsMat(V, r, r) /\ IsMat(K, 7, r)
  <2>1. K = TextbookGain(P, H, R)
    BY <1>2, <1>3, <1>4 DEF TextbookGain
  <2>2. QED
    BY <1>1, <1>2, <1>3, <2>1, TextbookGainIs
<1>6. mat_mul(H, P) = mat_tran(A)
  BY <1>2, InnovationIs
<1>7. PICK D : D = mat_mul(K, H)
  OBVIOUS
<1>8. IsMat(D, 7, 7)
  BY <1>1, <1>5, <1>7, MulIs
<1>9. mat_mul(D, P) = mat_mul(K, mat_tran(A))
  BY <1>1, <1>5, <1>6, <1>7, Associative
<1>10. Symmetric(mat_mul(K, mat_tran(A)), 7)
  BY <1>1, <1>3, <1>4, <1>5, SymmetricBetween
<1>11. mat_mul(Iden, P) = P
  BY <1>1, UnitTimes DEF Iden, States
<1>12. mat_mul(mat_sub(Iden, D), P) = mat_sub(mat_mul(Iden, P), mat_mul(D, P))
  BY <1>1, <1>8, IdenIs, DifferenceTimes
<1>13. Symmetric(mat_sub(P, mat_mul(D, P)), 7)
  BY <1>1, <1>9, <1>10, SymmetricSub
<1>14. TextbookCorrected(P, H, R) = mat_mul(mat_sub(Iden, D), P)
  BY <1>2, <1>3, <1>4, <1>7 DEF TextbookCorrected, TextbookS
<1>15. QED
  BY <1>11, <1>12, <1>13, <1>14

\* mat_inv() inverts the matrix of the next correction for pitch and roll: the code
\* goes on with what mat_inv() leaves of a singular one.
GainsInverted ==
  updates < MaxUpdates =>
    \A x, y \in Quaternions, rate \in Rates, Hdt \in HalfSteps :
      LET S == TextbookS(TextbookPredicted(aP, Fsys(x, rate, Hdt)), Hj(y), aR)
      IN  mat_mul(S, mat_inv(S)) = UNIT_MATRIX(3)

SymmetryInv == CovarianceInv /\ Symmetric(aP, 7)

LEMMA UpdateKeepsSymmetry ==
  ASSUME SymmetryInv, GainsInverted,
         NEW x \in Quaternions, NEW y \in Quaternions, NEW z \in Quaternions,
         NEW rate \in Rates, NEW Hdt \in HalfSteps, AhrsUpdate(x, y, z, rate, Hdt)
  PROVE  SymmetryInv'
<1>1. CovarianceInv /\ Symmetric(aP, 7) /\ textbook = aP
  BY DEF SymmetryInv, CovarianceInv, CovarianceIsTextbook
<1>2. CovarianceInv'
  BY <1>1, UpdateKeeps
<1>3. aP' = textbook'
  BY <1>2 DEF CovarianceInv, CovarianceIsTextbook
<1>4. PICK P1 : P1 = TextbookPredicted(aP, Fsys(x, rate, Hdt))
  OBVIOUS
<1>5. Symmetric(P1, 7)
  BY <1>1, <1>4, FsysIs, PredictedIsSymmetric
<1>6. PICK S : S = TextbookS(P1, Hj(y), aR)
  OBVIOUS
<1>7. Symmetric(S, 3) /\ IsMat(S, 3, 3) /\ 3 \in Positive
  BY <1>5, <1>6, HjIs, ThreeIs, DiagonalsAreSymmetric, InnovationIs DEF Symmetric
<1>8. mat_mul(S, mat_inv(S)) = UNIT_MATRIX(3)
  <2>1. updates < MaxUpdates
    BY DEF AhrsUpdate
  <2>2. QED
    BY <1>4, <1>6, <2>1 DEF GainsInverted
<1>9. Symmetric(mat_inv(S), 3)
  <2>1. IsMat(mat_inv(S), 3, 3)
    BY <1>7, InvIs
  <2>2. QED
    BY <1>7, <1>8, <2>1, SymmetricInverse
<1>10. PICK P2 : P2 = TextbookCorrected(P1, Hj(y), aR)
  OBVIOUS
<1>11. Symmetric(P2, 7)
  BY <1>5, <1>6, <1>7, <1>9, <1>10, HjIs, DiagonalsAreSymmetric, CorrectedIsSymmetric
<1>12. PICK P3 : P3 = TextbookCorrected(P2, Hpsi(z), HeadingR)
  OBVIOUS
<1>13. Symmetric(P3, 7)
  <2>1. IsMat(Hpsi(z), 1, 7) /\ 1 \in Positive /\ Symmetric(HeadingR, 1)
    BY HpsiIs, ThreeIs, DiagonalsAreSymmetric
  <2>2. PICK V : V = mat_inv(TextbookS(P2, Hpsi(z), HeadingR))
    OBVIOUS
  <2>3. IsMat(V, 1, 1)
    <3>1. IsMat(P2, 7, 7) /\ IsMat(HeadingR, 1, 1)
      BY <1>11, <2>1 DEF Symmetric
    <3>2. QED
      BY <2>1, <2>2, <3>1, TextbookGainIs
  <2>4. \A i \in Idx(1), j \in Idx(1) : V[i][j] = V[j][i]
    BY OneIs
  <2>5. Symmetric(V, 1)
    BY <2>1, <2>3, <2>4, SymmetricIs
  <2>6. QED
    BY <1>11, <1>12, <2>1, <2>2, <2>5, CorrectedIsSymmetric
<1>14. textbook' = P2 \/ textbook' = P3
  BY <1>1, <1>4, <1>10, <1>12 DEF AhrsUpdate, HeadingR
<1>15. QED
  BY <1>2, <1>3, <1>11, <1>13, <1>14 DEF SymmetryInv

\* The covariance is the one of the full products and is symmetric, as the products that
\* read the rows of a matrix for its columns take it to be, as long as mat_inv() inverts
\* what it is given.
THEOREM Covariance_AsWritten == AttitudeSpec /\ []GainsInverted => []CovarianceAsWritten
<1>1. AttitudeInit => SymmetryInv
  <2> SUFFICES ASSUME AttitudeInit PROVE SymmetryInv
    OBVIOUS
  <2>1. aP = Iden /\ mat77 = ZERO_MATRIX(States, States) /\ textbook = aP
    BY DEF AttitudeInit
  <2>2. Symmetric(Iden, 7)
    BY ThreeIs, UnitIs DEF Iden, States
  <2>3. QED
    BY <2>1, <2>2, IdenIs, ZeroIs DEF SymmetryInv, CovarianceInv, CovarianceIsTextbook
<1>2. SymmetryInv /\ GainsInverted /\ [AttitudeNext]_attitudeVars => SymmetryInv'
  <2> SUFFICES ASSUME SymmetryInv, GainsInverted, [AttitudeNext]_attitudeVars PROVE SymmetryInv'
    OBVIOUS
  <2>1. CASE AttitudeNext
    BY <2>1, UpdateKeepsSymmetry DEF AttitudeNext
  <2>2. CASE UNCHANGED attitudeVars
    BY <2>2 DEF attitudeVars, SymmetryInv, CovarianceInv, CovarianceIsTextbook, Symmetric
  <2>3. QED
    BY <2>1, <2>2
<1>3. SymmetryInv => CovarianceAsWritten
  BY DEF SymmetryInv, CovarianceInv, Symmetric, CovarianceAsWritten
<1>4. QED
  BY <1>1, <1>2, <1>3, PTL DEF AttitudeSpec
===============================================================================
