----------------------------- MODULE MatrixLaws -----------------------------
(***************************************************************************)
(* What the functions of Matrix are to compute, stated without their       *)
(* algorithms, for a matrix and three angles that are given.               *)
(***************************************************************************)
EXTENDS Matrix

CONSTANTS
    Given,        \* square matrices
    RightSides,   \* columns of the same height
    Turns         \* cosines and sines

VARIABLES
    given,   \* the matrix, or <<>> before there is one
    side,    \* a right side
    turn     \* three angles

lawVars == <<given, side, turn>>

LawsInit == given = <<>> /\ side = <<>> /\ turn = <<>>

Give ==
    /\ given = <<>>
    /\ given' \in Given
    /\ side' \in RightSides
    /\ \E a, b, c \in Turns : turn' = <<a, b, c>>

-----------------------------------------------------------------------------
Arrangements(n) == {p \in [Idx(n) -> Idx(n)] : \A i, j \in Idx(n) : p[i] = p[j] => i = j}

Inversions(p) == Cardinality({ij \in (DOMAIN p) \X (DOMAIN p) : ij[1] < ij[2] /\ p[ij[1]] > p[ij[2]]})

\* The determinant by its definition, one product for every permutation.
Leibniz(A) ==
    LET n == MatRow(A)
        term(p) == signa(Inversions(p)) * mat_diagmul([i \in Idx(n) |-> [j \in Idx(n) |-> A[i][p[i]]]])
        sum[S \in SUBSET Arrangements(n)] ==
          IF S = {} THEN 0
          ELSE LET p == CHOOSE q \in S : TRUE IN Reduced(sum[S \ {p}] + term(p))
    IN  sum[Arrangements(n)]

Leading(A, n) == mat_subcopy(A, n, n, ZERO_MATRIX(n, n))

\* mat_det(), mat_cofact(), mat_inv(), mat_lsolve(): elimination with exchanges
\* of rows gives the determinant of the definition, in the expansion by any row
\* too, zero exactly for the matrices it calls singular, and otherwise the
\* inverse from both sides and the solution of the equations.
EliminationIsRight ==
    LET n == MatRow(given)
        d == Leibniz(given)
    IN  /\ mat_det(given) = d
        /\ \A i \in Idx(n) : SumBelow(n, LAMBDA j : mat_cofact(given, i, j)) = d
        /\ mat_lu(given).singular = (d = 0)
        /\ d # 0 => /\ mat_mul(given, mat_inv(given)) = UNIT_MATRIX(n)
                    /\ mat_mul(mat_inv(given), given) = UNIT_MATRIX(n)
                    /\ mat_mul(given, mat_lsolve(given, side)) = side

\* mat_durbin(): for a symmetric Toeplitz matrix whose leading determinants are
\* not zero, the same solution as by elimination.
LevinsonIsRight ==
    LET n == MatRow(given)
        T == mat_SymToeplz(mat_subcopy(given, n, 1, ZERO_MATRIX(n, 1)))
        R == Matrix(n + 1, 1, LAMBDA i, j : IF i < n THEN T[i][0] ELSE side[0][0])
        B == Matrix(n, 1, LAMBDA i, j : R[i + 1][0])
    IN  (\A k \in 1..n : mat_det(Leading(T, k)) # 0)
        => /\ mat_mul(T, mat_lsolve_durbin(T, B)) = B
           /\ mat_lsolve_durbin(T, B) = mat_lsolve(T, B)

\* mat_T321(), EulerToDcm(), nCltrans(): the rows of a rotation are of length
\* one and at right angles, and the three rotations turn one after the other as
\* their product does.
RotationsAreRight ==
    LET yaw == turn[1]
        pitch == turn[2]
        roll == turn[3]
        Orthogonal(C) == mat_mul(C, mat_tran(C)) = UNIT_MATRIX(3)
        level == [c |-> 1, s |-> 0]
    IN  /\ Orthogonal(mat_T321(pitch, roll, yaw))
        /\ Orthogonal(EulerToDcm(yaw, pitch, roll, yaw))
        /\ Orthogonal(EcefToEnuMatrix(pitch, yaw))
        /\ mat_mul(nCltrans(yaw), nCltrans(yaw)) = UNIT_MATRIX(3)
        /\ lCbtrans(yaw, pitch, roll)
             = mat_mul(lCbtrans(yaw, level, level),
                       mat_mul(lCbtrans(level, pitch, level), lCbtrans(level, level, roll)))

\* The matrix package computes what it says.
MatricesAreRight ==
    given # <<>> => EliminationIsRight /\ LevinsonIsRight /\ RotationsAreRight
=============================================================================
