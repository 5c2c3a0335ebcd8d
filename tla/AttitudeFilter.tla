--------------------------- MODULE AttitudeFilter ---------------------------
(***************************************************************************)
(* The covariance of the attitude filter, src/filters/mnav/ahrs.cpp.  The  *)
(* filter estimates a quaternion and three gyro biases; its seven by seven *)
(* covariance is what the gains come from.  ahrs_algorithm() computes it   *)
(* with products that leave out what the shape of the matrices makes zero  *)
(* or one (mat_mymul1 to mat_mymul5), in matrices that live as long as the *)
(* program.                                                                *)
(*                                                                         *)
(* The arithmetic is that of Matrix.  The state xs is not kept: the        *)
(* quaternion that each half of an update reads is any of Quaternions.     *)
(***************************************************************************)
EXTENDS Matrix

CONSTANTS
    Quaternions,   \* values of xs[0] to xs[3], functions of QuatIdx
    Rates,         \* values of pc, qc and rc, the gyro rates less the biases
    HalfSteps,     \* values of Hdt, half the time since the last update
    Noise,         \* the entries of aQ, aR and var_psi, and g2
    MaxUpdates     \* bounds the number of updates

ASSUME AttitudeAssumption ==
    /\ \A x \in Quaternions : x \in [QuatIdx -> Int]
    /\ \A r \in Rates : r \in [{"p", "q", "r"} -> Int]
    /\ HalfSteps \subseteq Int
    /\ Noise \in [{"quat", "bias", "accel", "heading", "g2"} -> Int]
    /\ MaxUpdates \in Nat

VARIABLES
    aP,         \* the covariance
    mat77,      \* a matrix whose last three columns are never written
    magCheck,   \* updates since the last correction of the heading
    updates,    \* the number of updates, bounded
    textbook    \* history: the covariance from full products

attitudeVars == <<aP, mat77, magCheck, updates, textbook>>

States == 7
Iden == UNIT_MATRIX(States)
Diagonal(n, d(_)) == Matrix(n, n, LAMBDA i, j : IF i = j THEN d(i) ELSE 0)
aQ == Diagonal(States, LAMBDA i : IF i \in QuatIdx THEN Noise.quat ELSE Noise.bias)
aR == Diagonal(3, LAMBDA i : Noise.accel)

\* The state transition matrix for the quaternion x.
Fsys(x, rate, Hdt) ==
    LET p == rate.p
        q == rate.q
        r == rate.r
        rows == << <<0, -p, -q, -r, x[1], x[2], x[3]>>,
                   <<p, 0, r, -q, -x[0], x[3], -x[2]>>,
                   <<q, -r, 0, p, -x[3], -x[0], x[1]>>,
                   <<r, q, -p, 0, x[2], -x[1], -x[0]>> >>
    IN  Matrix(States, States, LAMBDA i, j :
            IF i = j THEN 1
            ELSE IF i \in QuatIdx THEN rows[i + 1][j + 1] * Hdt
            ELSE 0)

\* The Jacobian matrix of the gravity as the accelerometers see it.
Hj(x) ==
    LET rows == << <<x[2], -x[3], x[0], -x[1]>>,
                   <<-x[1], -x[0], -x[3], -x[2]>>,
                   <<-x[0], x[1], x[2], -x[3]>> >>
    IN  Matrix(3, States, LAMBDA i, j :
            IF j \in QuatIdx THEN Noise.g2 * rows[i + 1][j + 1] ELSE 0)

\* The Jacobian matrix of the heading.
Hpsi(x) ==
    LET coeff0 == 2 * (x[1] * x[2] + x[0] * x[3])
        coeff1 == 1 - 2 * (x[2] * x[2] + x[3] * x[3])
        scale  == Quotient(2, Reduced(coeff0 * coeff0 + coeff1 * coeff1))
        t0     == Reduced(coeff1 * scale)
        t1     == Reduced(coeff0 * scale)
        row    == <<x[3] * t0, x[2] * t0, x[1] * t0 + 2 * x[2] * t1,
                    x[0] * t0 + 2 * x[3] * t1>>
    IN  Matrix(1, States, LAMBDA i, j : IF j \in QuatIdx THEN row[j + 1] ELSE 0)

-----------------------------------------------------------------------------
(* The covariance as ahrs_algorithm() computes it *)

Predicted(P, F) == mat_add(mat_mymul3(mat_mymul2(F, P), F), aQ)

GravityGain(P, H) ==
    LET PHt == mat_mymul4(P, H, 3)
        S   == mat_add(mat_mymul(H, PHt, 3), aR)
    IN  mat_mul(PHt, mat_inv(S))

HeadingGain(P, H) ==
    LET PHt == mat_mymul4(P, H, 3)
        S   == Dot(H, PHt, 4, 0, 0) + Noise.heading
    IN  mat_scalMul(PHt, Reciprocal(Reduced(S)))

\* K*H, over what mat77 was.
GainTimesJacobian(K, H, M) == mat_mymul1(K, H, M, 3)

Corrected(P, KH) == mat_mymul5(mat_sub(Iden, KH), P, 3)

-----------------------------------------------------------------------------
(* The same from full products, as the comments of the code state it:      *)
(* P = F*P*F' + Q, K = P*H'*inv(H*P*H' + R) and P = (I - K*H)*P            *)

TextbookPredicted(P, F) == mat_add(mat_mul(mat_mul(F, P), mat_tran(F)), aQ)

TextbookCorrected(P, H, R) ==
    LET PHt == mat_mul(P, mat_tran(H))
        K   == mat_mul(PHt, mat_inv(mat_add(mat_mul(H, PHt), R)))
    IN  mat_mul(mat_sub(Iden, mat_mul(K, H)), P)

-----------------------------------------------------------------------------
AttitudeInit ==   \* mnav_ahrs_init()
    /\ aP = Iden    \* all its diagonal is the same number
    /\ mat77 = ZERO_MATRIX(States, States)
    /\ magCheck = 0
    /\ updates = 0
    /\ textbook = aP

\* One call of ahrs_algorithm().  The quaternion is x before and y after the
\* prediction, and z after the correction for pitch and roll.
AhrsUpdate(x, y, z, rate, Hdt) ==
    LET F   == Fsys(x, rate, Hdt)
        P1  == Predicted(aP, F)
        M1  == GainTimesJacobian(GravityGain(P1, Hj(y)), Hj(y), mat77)
        P2  == Corrected(P1, M1)
        M2  == GainTimesJacobian(HeadingGain(P2, Hpsi(z)), Hpsi(z), M1)
        T2  == TextbookCorrected(TextbookPredicted(textbook, F), Hj(y), aR)
        headingDue == magCheck + 1 >= 2
    IN  /\ updates < MaxUpdates
        /\ updates' = updates + 1
        /\ magCheck' = IF headingDue THEN 0 ELSE magCheck + 1
        /\ mat77' = IF headingDue THEN M2 ELSE M1
        /\ aP' = IF headingDue THEN Corrected(P2, M2) ELSE P2
        /\ textbook' = IF headingDue
                       THEN TextbookCorrected(T2, Hpsi(z), Diagonal(1, LAMBDA i : Noise.heading))
                       ELSE T2

AttitudeNext ==
    \E x, y, z \in Quaternions, rate \in Rates, Hdt \in HalfSteps :
        AhrsUpdate(x, y, z, rate, Hdt)

AttitudeSpec == AttitudeInit /\ [][AttitudeNext]_attitudeVars

-----------------------------------------------------------------------------
\* After any sequence of updates the covariance is the one that the full
\* products give ("error covriance propagation: P = Fsys*P*Fsys' + Q",
\* "aP = (I - aK*Hj)*aP", ahrs.cpp:186 and 219).
CovarianceIsTextbook == aP = textbook

\* It is also symmetric, which the products that leave entries out rely on
\* without a check: they read only the rows of a matrix that also has columns.
CovarianceAsWritten ==
    /\ CovarianceIsTextbook
    /\ aP = mat_tran(aP)
=============================================================================
