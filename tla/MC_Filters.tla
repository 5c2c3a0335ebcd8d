----------------------------- MODULE MC_Filters -----------------------------
(* The matrix package and the two filters of the MNAV, one of which moves   *)
(* in a behaviour while the others stay as they were made.                  *)
EXTENDS MatrixLaws, AttitudeFilter, PositionFilter

VARIABLE filter   \* which of them moves, if any

filtersVars == <<filter, lawVars, attitudeVars, positionVars>>

\* Columns of these rows: entries that are equal, zero on the diagonal, a
\* multiple of another row.
RowsOfThree == {<<0, 0, 1>>, <<0, 2, 1>>, <<1, 2, 3>>, <<2, 4, 1>>, <<3, 1, 2>>}
MCGiven ==
    {[i \in 0..2 |-> [j \in 0..2 |-> rows[i + 1][j + 1]]] : rows \in [1..3 -> RowsOfThree]}
MCRightSides == {[i \in 0..2 |-> [j \in {0} |-> i * i + 2]]}

\* Three fifths and four fifths modulo 10007.
MCTurns == {[c |-> 1, s |-> 0], [c |-> 2002, s |-> 6005]}
MCAngles == {[c |-> 2002, s |-> 6005]}

MCQuaternions == {[i \in 0..3 |-> <<2, 1, -1, 3>>[i + 1]]}
MCRates == {[p |-> 1, q |-> -2, r |-> 3], [p |-> 0, q |-> 4, r |-> 1]}
MCHalfSteps == {1, -3}
MCNoise == [quat |-> 2, bias |-> 5, accel |-> 7, heading |-> 11, g2 |-> 6]

MCCurvatures == {[ns |-> 13, ew |-> 17]}
MCIntervals == {1, 4}
MCFixNoise == [i \in 0..5 |-> i + 2]
MCDriftNoise == [i \in 0..8 |-> 3 * i]

FiltersInit ==
    /\ filter \in {"matrix", "attitude", "position", "none"}
    /\ LawsInit
    /\ AttitudeInit
    /\ PositionInit

FiltersNext ==
    \/ /\ filter = "matrix"
       /\ Give
       /\ UNCHANGED <<filter, attitudeVars, positionVars>>
    \/ /\ filter = "attitude"
       /\ AttitudeNext
       /\ UNCHANGED <<filter, lawVars, positionVars>>
    \/ /\ filter = "position"
       /\ PositionNext
       /\ UNCHANGED <<filter, lawVars, attitudeVars>>

FiltersSpec == FiltersInit /\ [][FiltersNext]_filtersVars
=============================================================================
