------------------------------- MODULE Matrix -------------------------------
(***************************************************************************)
(* The matrix package of the filters (src/filters/mnav/matrix.c) and the   *)
(* rotations of src/filters/mnav/navfunc.cpp, over the integers modulo a   *)
(* prime instead of doubles: a field without rounding, in which a product  *)
(* taken short, a wrong index or a stale entry shows, and nothing else     *)
(* does.  An angle is a pair of a cosine and a sine whose squares add up   *)
(* to one.                                                                 *)
(*                                                                         *)
(* A matrix is a function of rows of columns, counted from 0 as in the     *)
(* code.  What the code writes through its last parameter is a value here; *)
(* where it leaves entries of it as they were, it is a parameter.          *)
(***************************************************************************)
EXTENDS Integers, FiniteSets

CONSTANT Modulus   \* the arithmetic is modulo this prime

ASSUME ModulusAssumption ==
    /\ Modulus \in Nat \ {0, 1}
    /\ \A d \in 2..(Modulus - 1) : Modulus % d # 0

-----------------------------------------------------------------------------
(* The field *)

Reduced(x) == x % Modulus

\* The sum of term(k) over the k below n, which a loop adds up.
SumBelow(n, term(_)) ==
    LET sum[k \in 0..n] ==
          IF k = 0 THEN 0 ELSE Reduced(sum[k - 1] + term(k - 1))
    IN  sum[n]

Half(e) == e \div 2

\* x to the power of e, from that of half of e.
PowerFrom(x, half, e) ==
    LET square == Reduced(half * half)
    IN  IF e % 2 = 0 THEN square ELSE Reduced(square * x)

Reciprocal(x) ==   \* x to the power of Modulus - 2
    LET power[e \in 0..Modulus] ==
          IF e = 0 THEN 1 ELSE PowerFrom(x, power[Half(e)], e)
    IN  power[Modulus - 2]

Quotient(x, y) == Reduced(x * Reciprocal(y))

-----------------------------------------------------------------------------
(* Matrices *)

Idx(n) == 0..(n - 1)
MatRow(A) == Cardinality(DOMAIN A)
MatCol(A) == Cardinality(DOMAIN A[0])

\* f itself; TLC, which puts off the values of a function, finds them here.
Evaluated(f) == CHOOSE g \in {f} : g = f

Matrix(rows, cols, entry(_, _)) ==
    Evaluated([i \in Idx(rows) |-> [j \in Idx(cols) |-> Reduced(entry(i, j))]])

ZERO_MATRIX(rows, cols) == Matrix(rows, cols, LAMBDA i, j : 0)
UNIT_MATRIX(n) == Matrix(n, n, LAMBDA i, j : IF i = j THEN 1 ELSE 0)

mat_add(A, B) == Matrix(MatRow(A), MatCol(A), LAMBDA i, j : A[i][j] + B[i][j])
mat_sub(A, B) == Matrix(MatRow(A), MatCol(A), LAMBDA i, j : A[i][j] - B[i][j])
mat_tran(A) == Matrix(MatCol(A), MatRow(A), LAMBDA i, j : A[j][i])
mat_scalMul(X, a) == Matrix(MatRow(X), MatCol(X), LAMBDA i, j : X[i][j] * a)
mat_submat(A, m, p) ==
    Matrix(MatRow(A) - 1, MatCol(A) - 1,
           LAMBDA i, j : A[IF i < m THEN i ELSE i + 1][IF j < p THEN j ELSE j + 1])
mat_SymToeplz(R) ==
    Matrix(MatRow(R), MatRow(R),
           LAMBDA i, j : R[IF i < j THEN j - i ELSE i - j][0])

\* B with the first rows and columns of A.
mat_subcopy(A, rows, cols, B) ==
    Matrix(MatRow(B), MatCol(B),
           LAMBDA i, j : IF i < rows /\ j < cols THEN A[i][j] ELSE B[i][j])

mat_diagmul(A) ==
    LET product[n \in 0..MatRow(A)] ==
          IF n = 0 THEN 1 ELSE Reduced(product[n - 1] * A[n - 1][n - 1])
    IN  product[MatRow(A)]

-----------------------------------------------------------------------------
(* Products.  The last six are short for matrices of a known shape: m is   *)
(* the number of columns of zeros, or of rows of the unit matrix, that     *)
(* need not be multiplied.  mat_mymul2 and mat_mymul3 have the numbers of  *)
(* the attitude filter, four of seven, written into them; m is always 3.   *)

QuatIdx == 0..3    \* of the attitude filter's states, the quaternion
BiasIdx == 4..6    \* and the gyro biases

\* The first n terms of row i of A times column j of B, or times its row j.
Dot(A, B, n, i, j) == SumBelow(n, LAMBDA k : A[i][k] * B[k][j])
DotRows(A, B, n, i, j) == SumBelow(n, LAMBDA k : A[i][k] * B[j][k])

mat_mul(A, B) ==
    Matrix(MatRow(A), MatCol(B),
           LAMBDA i, j : Dot(A, B, MatCol(A), i, j))

mat_mymul(A, B, m) ==
    Matrix(MatRow(A), MatCol(B),
           LAMBDA i, j : Dot(A, B, MatCol(A) - m, i, j))

mat_mymul1(A, B, C, m) ==
    Matrix(MatRow(C), MatCol(C),
           LAMBDA i, j : IF j < MatCol(B) - m
                         THEN Dot(A, B, MatCol(A), i, j)
                         ELSE C[i][j])

mat_mymul2(A, B) ==
    Matrix(MatRow(A), MatCol(B),
           LAMBDA i, j : IF i \in BiasIdx THEN B[i][j]
                         ELSE Dot(A, B, MatCol(A), i, j))

mat_mymul3(A, B) ==
    Matrix(MatRow(A), MatCol(B),
           LAMBDA i, j : IF j \in BiasIdx THEN A[i][j]
                         ELSE DotRows(A, B, MatCol(A), i, j))

mat_mymul4(A, B, m) ==
    Matrix(MatRow(A), MatRow(B),
           LAMBDA i, j : DotRows(A, B, MatCol(A) - m, i, j))

\* Mutant: the rows of the unit matrix begin at row m.
mat_mymul5FromM(A, B, m) ==
    Matrix(MatRow(A), MatCol(B),
           LAMBDA i, j : Dot(A, B, MatCol(A) - m, i, j)
                         + (IF i >= m THEN B[i][j] ELSE 0))

mat_mymul5(A, B, m) ==
    Matrix(MatRow(A), MatCol(B),
           LAMBDA i, j : Dot(A, B, MatCol(A) - m, i, j)
                         + (IF i > m THEN B[i][j] ELSE 0))

-----------------------------------------------------------------------------
(* Linear equations.  mat_lu leaves L and U in one matrix whose rows are   *)
(* read in the order P.                                                    *)

\* The row to eliminate column k with, of those not used yet: the first one
\* of the largest entry.
Pivot(A, P, k) ==
    LET n == MatCol(A)
    IN  CHOOSE q \in k..(n - 1) :
          /\ \A i \in k..(n - 1) : A[P[i]][k] <= A[P[q]][k]
          /\ \A i \in k..(q - 1) : A[P[i]][k] < A[P[q]][k]

\* A without what is below the pivot of column k; the factors stay there.
Eliminate(A, P, k) ==
    Evaluated([r \in DOMAIN A |->
        IF \E i \in DOMAIN P : P[i] = r /\ i > k
        THEN LET factor == Quotient(A[r][k], A[P[k]][k])
             IN  [j \in DOMAIN A[r] |->
                    IF j < k THEN A[r][j]
                    ELSE IF j = k THEN factor
                    ELSE Reduced(A[r][j] - factor * A[P[k]][j])]
        ELSE A[r]])

\* Mutant: the exchange is counted but the permutation is not changed.
LuStepUnexchanged(s, k) ==
    IF s.singular THEN s
    ELSE LET q == Pivot(s.A, s.P, k)
         IN  IF s.A[s.P[q]][k] = 0 THEN [s EXCEPT !.singular = TRUE]
             ELSE [A |-> Eliminate(s.A, s.P, k), P |-> s.P, singular |-> FALSE,
                   exchanges |-> s.exchanges + IF q = k THEN 0 ELSE 1]

LuStep(s, k) ==
    IF s.singular THEN s
    ELSE LET q == Pivot(s.A, s.P, k)
             P == [s.P EXCEPT ![k] = s.P[q], ![q] = s.P[k]]
         IN  IF s.A[P[k]][k] = 0 THEN [s EXCEPT !.singular = TRUE]
             ELSE [A |-> Eliminate(s.A, P, k), P |-> P, singular |-> FALSE,
                   exchanges |-> s.exchanges + IF q = k THEN 0 ELSE 1]

mat_lu(A) ==
    LET after[k \in 0..MatCol(A)] ==
          IF k = 0 THEN [A |-> A, P |-> [i \in Idx(MatCol(A)) |-> i],
                         singular |-> FALSE, exchanges |-> 0]
          ELSE LuStep(after[k - 1], k - 1)
    IN  after[MatCol(A)]

\* What the unknowns after the one of row k, which are in X, contribute to it.
Known(A, P, X, k) ==
    SumBelow(MatCol(A), LAMBDA j : IF j > k THEN A[P[k]][j] * X[j] ELSE 0)

\* The right hand sides B without what the unknown of row k - 1 of L contributes.
Forwarded(A, P, B, k) ==
    LET n == MatCol(A)
    IN  Evaluated([r \in Idx(n) |->
            IF \E i \in k..(n - 1) : P[i] = r
            THEN Reduced(B[r] - A[r][k - 1] * B[P[k - 1]])
            ELSE B[r]])

\* The solution of L*U*X = B as a function of rows.
mat_backsubs1(A, B, P) ==
    LET n == MatCol(A)
        forward[k \in 0..n] ==
          IF k = 0 THEN [r \in Idx(n) |-> B[r][0]] ELSE Forwarded(A, P, forward[k - 1], k)
        solved == forward[n]
        X[k \in Idx(n)] == Quotient(solved[P[k]] - Known(A, P, X, k), A[P[k]][k])
    IN  Evaluated(X)

mat_lsolve(A, B) ==
    LET lu == mat_lu(A)
        X  == mat_backsubs1(lu.A, B, lu.P)
    IN  Matrix(MatCol(A), 1, LAMBDA i, j : X[i])

\* Column j of the unit matrix.
UnitColumn(n, j) == Matrix(n, 1, LAMBDA i, c : IF i = j THEN 1 ELSE 0)

\* For a matrix that mat_lu calls singular there is no value: the code prints an error, frees
\* the matrix that the caller gave for the output and returns NULL (matrix.c:607-613).  What
\* the callers do with the freed one afterwards (ahrs.cpp:209, nav.cpp:348) is not modelled.
mat_inv(A) ==
    LET n      == MatCol(A)
        lu     == mat_lu(A)
        column == Evaluated([j \in Idx(n) |->
                     mat_backsubs1(lu.A, UnitColumn(n, j), lu.P)])
    IN  Matrix(n, n, LAMBDA i, j : column[j][i])

signa(i) == IF i % 2 = 0 THEN 1 ELSE -1

mat_det(A) ==
    LET lu == mat_lu(A)
    IN  IF lu.singular THEN 0
        ELSE Reduced(signa(lu.exchanges) * mat_diagmul([i \in DOMAIN A |-> lu.A[lu.P[i]]]))

mat_minor(A, i, j) == mat_det(mat_submat(A, i, j))
mat_cofact(A, i, j) == Reduced(signa(i + j) * Reduced(A[i][j] * mat_minor(A, i, j)))

\* One round of the recursion of Levinson and Durbin: e is the error, w the
\* correlation left over, a the coefficients of order i.
DurbinStep(R, p, s, i) ==
    LET K == Quotient(s.w, s.e)
        a == [j \in 1..i |-> IF j = i THEN Reduced(-K)
                             ELSE Reduced(s.a[j] - K * s.a[i - j])]
    IN  [e |-> Reduced(s.e * Reduced(1 - K * K)), a |-> a,
         w |-> IF i = p THEN s.w
               ELSE Reduced(R[i + 1][0]
                            + SumBelow(i, LAMBDA j : a[j + 1] * R[i - j][0]))]

mat_durbin(R) ==
    LET p == MatRow(R) - 1
        after[i \in 0..p] ==
          IF i = 0 THEN [e |-> R[0][0], w |-> R[1][0], a |-> [j \in {} |-> 0]]
          ELSE DurbinStep(R, p, after[i - 1], i)
    IN  Matrix(p, 1, LAMBDA i, j : -after[p].a[i + 1])

mat_lsolve_durbin(A, B) ==
    LET n == MatRow(A)
    IN  mat_durbin(Matrix(n + 1, 1, LAMBDA i, j : IF i < n THEN A[i][0] ELSE B[n - 1][0]))

-----------------------------------------------------------------------------
(* Rotations.  c and s are the cosine and the sine of an angle. *)

FromRows(rows) == Matrix(3, 3, LAMBDA i, j : rows[i + 1][j + 1])

mat_T321(pitch, roll, yaw) ==
    LET TI2 == FromRows(<< <<yaw.s, yaw.c, 0>>, <<yaw.c, -yaw.s, 0>>, <<0, 0, -1>> >>)
        T23 == FromRows(<< <<pitch.c, 0, -pitch.s>>, <<0, 1, 0>>, <<pitch.s, 0, pitch.c>> >>)
        T3B == FromRows(<< <<1, 0, 0>>, <<0, roll.c, roll.s>>, <<0, -roll.s, roll.c>> >>)
    IN  mat_mul(T3B, mat_mul(T23, TI2))

lCbtrans(yaw, pitch, roll) ==
    FromRows(<< <<pitch.c * yaw.c,
                  Reduced(roll.s * pitch.s) * yaw.c - roll.c * yaw.s,
                  Reduced(roll.c * pitch.s) * yaw.c + roll.s * yaw.s>>,
                <<pitch.c * yaw.s,
                  Reduced(roll.s * pitch.s) * yaw.s + roll.c * yaw.c,
                  Reduced(roll.c * pitch.s) * yaw.s - roll.s * yaw.c>>,
                <<-pitch.s, roll.s * pitch.c, roll.c * pitch.c>> >>)

\* The same matrix, turned by the declination.
EulerToDcm(yaw, pitch, roll, decA) ==
    mat_mul(FromRows(<< <<decA.c, -decA.s, 0>>, <<decA.s, decA.c, 0>>, <<0, 0, 1>> >>),
            lCbtrans(yaw, pitch, roll))

nCltrans(magdec) ==
    FromRows(<< <<-magdec.s, magdec.c, 0>>, <<magdec.c, magdec.s, 0>>, <<0, 0, -1>> >>)

\* The matrix of EcefToEnu(): from the earth to east, north and up.
EcefToEnuMatrix(lat, lon) ==
    FromRows(<< <<-lon.s, lon.c, 0>>,
                <<-lat.s * lon.c, -lat.s * lon.s, lat.c>>,
                <<lat.c * lon.c, lat.c * lon.s, lat.s>> >>)
=============================================================================
