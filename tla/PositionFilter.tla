--------------------------- MODULE PositionFilter ---------------------------
(***************************************************************************)
(* The covariance of the position filter, nav_algorithm() of               *)
(* src/filters/mnav/nav.cpp: nine states, latitude, longitude, altitude,   *)
(* three velocities and three accelerometer biases, corrected by the six   *)
(* numbers of a GPS fix.  The matrices are global; ntmp99 holds one thing  *)
(* after the other.                                                        *)
(*                                                                         *)
(* The arithmetic is that of Matrix.  The state nxs is not kept: what of   *)
(* it reaches the covariance, the two entries of nF that depend on the     *)
(* place, is any of Curvatures.                                            *)
(***************************************************************************)
EXTENDS Matrix

CONSTANTS
    Angles,       \* cosines and sines of yaw, pitch and roll
    Curvatures,   \* 1/(Rns + alt) and 1/((Rew + alt)*cos(lat))
    Intervals,    \* values of dt
    FixNoise,     \* the diagonal of nRn, a function of 0..5
    DriftNoise,   \* the diagonal of nQn, a function of 0..8
    MaxRounds     \* bounds the number of updates

ASSUME PositionAssumption ==
    /\ \A a \in Angles : a \in [{"c", "s"} -> Int] /\ Reduced(a.c * a.c + a.s * a.s) = 1
    /\ \A c \in Curvatures : c \in [{"ns", "ew"} -> Int]
    /\ Intervals \subseteq Int
    /\ FixNoise \in [0..5 -> Int]
    /\ DriftNoise \in [0..8 -> Int]
    /\ MaxRounds \in Nat

VARIABLES
    nPn,        \* the covariance
    ntmp99,     \* a matrix that keeps what the last step left in it
    rounds,     \* the number of updates, bounded
    expected    \* history: the covariance that the comments promise

positionVars == <<nPn, ntmp99, rounds, expected>>

NavStates == 9
nIden == UNIT_MATRIX(NavStates)
NoDeclination == [c |-> 1, s |-> 0]

\* The transition matrix: nF with its unit diagonal, as discretised.
nF(yaw, pitch, roll, curve, dt) ==
    LET dcm == mat_scalMul(EulerToDcm(yaw, pitch, roll, NoDeclination), dt)
    IN  Matrix(NavStates, NavStates, LAMBDA i, j :
            IF i = j THEN 1
            ELSE IF i = 0 /\ j = 3 THEN dt * curve.ns
            ELSE IF i = 1 /\ j = 4 THEN dt * curve.ew
            ELSE IF i = 2 /\ j = 5 THEN -dt
            ELSE IF i \in 3..5 /\ j \in 6..8 THEN -dcm[i - 3][j - 6]
            ELSE 0)

PropagatedBy(P, F) ==
    Matrix(NavStates, NavStates, LAMBDA i, j :
        mat_mul(mat_mul(F, P), mat_tran(F))[i][j] + (IF i = j THEN DriftNoise[i] ELSE 0))

\* The gain, nine by six: the rows of P that belong to the fix, as H is the
\* unit matrix with three columns of zeros, by the inverse of H*P*H' + R.
nKn(P) ==
    LET none == ZERO_MATRIX(6, 6)
        S == mat_add(mat_subcopy(P, 6, 6, none),
                     Matrix(6, 6, LAMBDA i, j : IF i = j THEN FixNoise[i] ELSE 0))
    IN  mat_mul(mat_subcopy(P, 9, 6, ZERO_MATRIX(9, 6)), mat_inv(S))

\* K*H, made in M of the gain and of zeros in the last three columns: the loop
\* that writes them begins with the second row.
GainInto(K, M) ==
    LET copied == mat_subcopy(K, 9, 6, M)
    IN  Matrix(NavStates, NavStates, LAMBDA i, j :
            IF i \in 1..8 /\ j \in 6..8 THEN 0 ELSE copied[i][j])

GainTimesH(K) ==
    Matrix(NavStates, NavStates, LAMBDA i, j : IF j < 6 THEN K[i][j] ELSE 0)

-----------------------------------------------------------------------------
PositionInit ==   \* mnav_nav_init()
    /\ nPn = nIden
    /\ ntmp99 = ZERO_MATRIX(NavStates, NavStates)
    /\ rounds = 0
    /\ expected = nPn

\* One call of nav_algorithm(), with or without a new fix.
NavUpdate(yaw, pitch, roll, curve, dt, fix) ==
    LET F    == nF(yaw, pitch, roll, curve, dt)
        P    == PropagatedBy(nPn, F)
        left == mat_mul(F, nPn)   \* in ntmp99 after the propagation
        KH   == GainInto(nKn(P), left)
        next == mat_mul(mat_sub(nIden, KH), P)
        Pe   == PropagatedBy(expected, F)
    IN  /\ rounds < MaxRounds
        /\ rounds' = rounds + 1
        /\ nPn' = IF fix THEN next ELSE P
        /\ ntmp99' = IF fix THEN next ELSE left
        /\ expected' = IF fix THEN mat_mul(mat_sub(nIden, GainTimesH(nKn(Pe))), Pe) ELSE Pe

PositionNext ==
    \E yaw, pitch, roll \in Angles, curve \in Curvatures, dt \in Intervals, fix \in BOOLEAN :
        NavUpdate(yaw, pitch, roll, curve, dt, fix)

-----------------------------------------------------------------------------
\* The covariance is what the comments of nav_algorithm() say of it: "error
\* covriance propagation: P = Fd*P*Fd' + Q" (nav.cpp:331) and "P = (I - K*H)*P"
\* (nav.cpp:353).
PositionCovariance == nPn = expected
=============================================================================
