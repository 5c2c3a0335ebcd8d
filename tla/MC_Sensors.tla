----------------------------- MODULE MC_Sensors -----------------------------
(* The drivers, what their data goes through and the MNAV's filters share no *)
(* state here: one of them moves in a behaviour, the others stay as they     *)
(* began.                                                                    *)
EXTENDS FrameParser, AirData, Navigation, GyroBias, ImuText, Mnav, MC_Filters

VARIABLE machine  \* the one that moves

\* Messages with the sync bytes of either driver in their payload; for the third one
\* read_ublox5() has no room, and looks for frames in it.
MCMessages ==
  {[id |-> 10, payload |-> <<181, 98, 181>>],
   [id |-> 33, payload |-> <<147, 224, 147>>],
   [id |-> 12, payload |-> <<1, 181, 98, 1>>]}

MCFixAge == [m \in Modules |-> IF m = "mnav" THEN 2 ELSE 1]

\* Two samples of the same sum and length.
MCName    == <<86>>
MCSamples == {<< <<86>>, <<49, 50>> >>, << <<86>>, <<50, 49>> >>}
MCFields  == [d \in Devices |-> 2]

\* Payloads with a sync byte in them, and a mark of GPS data or none.
MCPayloads ==
  [t \in {83, 110} |->
     IF t = 83 THEN {<<1>>, <<85>>} ELSE {<<2, 71, 85>>, <<85, 71, 3>>}]

SensorsInit ==
  /\ machine \in {"frames", "airdata", "navigation", "bias", "text", "mnav", "servo", "filters"}
  /\ FiltersInit /\ (machine = "filters" <=> filter # "none")
  /\ Init /\ ClockInit /\ AirInit /\ NavInit /\ BiasInit /\ TextInit /\ MnavInit
  /\ machine # "frames" => driver = "ublox5" /\ out = << >>
  /\ machine # "navigation" => module = "mnav"
  /\ machine # "text" => device = "vn100"

sensorsVars == <<vars, clock, airVars, navVars, biasVars, textVars, mnavVars>>

SensorsNext ==
  /\ UNCHANGED machine
  /\ \/ /\ machine = "frames" /\ Next
        /\ UNCHANGED <<clock, airVars, navVars, biasVars, textVars, mnavVars, filtersVars>>
     \/ /\ machine = "airdata" /\ AirNext
        /\ UNCHANGED <<vars, navVars, biasVars, textVars, mnavVars, filtersVars>>
     \/ /\ machine = "navigation" /\ NavNext
        /\ UNCHANGED <<vars, airVars, biasVars, textVars, mnavVars, filtersVars>>
     \/ /\ machine = "bias" /\ BiasNext
        /\ UNCHANGED <<vars, airVars, navVars, textVars, mnavVars, filtersVars>>
     \/ /\ machine = "text" /\ TextNext
        /\ UNCHANGED <<vars, clock, airVars, navVars, biasVars, mnavVars, filtersVars>>
     \/ /\ machine = "mnav" /\ ReadNext
        /\ UNCHANGED <<vars, clock, airVars, navVars, biasVars, textVars, filtersVars>>
     \/ /\ machine = "servo" /\ SendServo
        /\ UNCHANGED <<vars, clock, airVars, navVars, biasVars, textVars, filtersVars>>
     \/ /\ machine = "filters" /\ FiltersNext
        /\ UNCHANGED sensorsVars

SensorsSpec == SensorsInit /\ [][SensorsNext]_<<machine, sensorsVars, filtersVars>>

=============================================================================
