-------------------------- MODULE MC_FlightControl --------------------------
(* A short flight with one throttle setting of each kind, or the arithmetic  *)
(* of the autopilot's stages: one part moves in a behaviour while the other  *)
(* stays as it began.                                                        *)
EXTENDS FlightControl, Stages

VARIABLE part   \* which of them moves

MCLockNames == {"heading", "roll", "speed"}
MCErrors == {1}
MCLevels == {0, 50, 100}

MCReadings == {-1, 2}
MCSteps == {-1, 1, 2}
MCPositions == {0, 5}
MCMin == -3

AutopilotInit ==
    /\ part \in {"control", "stages"}
    /\ Init /\ (part = "stages" => fcs_mode = "route")
    /\ StagesInit

AutopilotNext ==
    \/ part = "control" /\ Next /\ UNCHANGED <<part, stageVars>>
    \/ part = "stages" /\ StagesNext /\ UNCHANGED <<part, vars>>

AutopilotSpec == AutopilotInit /\ [][AutopilotNext]_<<part, vars, stageVars>>
=============================================================================
