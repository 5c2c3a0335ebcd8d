------------------------------- MODULE AirData -------------------------------
(***************************************************************************)
(* Pressure readings from the ardupilot to the altitude above ground by    *)
(* pressure: ardupilot_update(), ardupilot_pilot_update() and              *)
(* ardupilot_airdata_update() of src/sensors/ardupilot.cxx,                *)
(* AirData_update() and update_pressure_helpers() of                       *)
(* src/sensors/airdata_mgr.cpp.                                            *)
(*                                                                         *)
(* It is published as /position/altitude-pressure-agl-ft                   *)
(* (airdata_mgr.cpp:91, 238).  No other code and no configuration reads    *)
(* that property, telnet can.  The throttle safety is told which altitude  *)
(* to look at: /position/altitude-filter-agl-ft in data/config/main.xml:75,*)
(* which filter_mgr.cpp:213-214 writes from the altitude of the filter, or *)
(* /position/altitude-agl-ft (act_mgr.cpp:89, 297), which nothing writes.  *)
(*                                                                         *)
(* A reading is known by the tick it was taken in.  An average is the set  *)
(* of the readings that have a weight in it.                               *)
(***************************************************************************)
EXTENDS SensorClock, FiniteSets

CONSTANTS
  MaxDt,      \* "keep dt smallish": 1.0 s
  GroundTime  \* how long the ground altitude is averaged: 30 s

ASSUME AirDataAssumption == MaxDt \in Nat \ {0} /\ GroundTime \in Nat

VARIABLES
  analog,             \* the newest reading; 0 when there was none
  data_in_timestamp,  \* when it came
  fresh_pilot_data,
  pilot_stamp,        \* /sensors/pilot/time-stamp
  driver_last_time,   \* last_time of ardupilot_airdata_update()
  airdata_stamp,      \* /sensors/air-data/time-stamp
  airdata_altitude,   \* /sensors/air-data/altitude-m
  helpers_called,     \* update_pressure_helpers() has initialised its statics
  start_time,         \* of update_pressure_helpers(), as is
  last_time,
  altitude_filt,      \* the newest reading in the filtered altitude
  ground_alt_filter,  \* the readings in the ground altitude
  agl,                \* of the published altitude above ground by pressure: its newest reading
  \* History:
  readings            \* all there were

driverVars == <<analog, data_in_timestamp, fresh_pilot_data, pilot_stamp>>
helperVars == <<helpers_called, start_time, last_time, altitude_filt, ground_alt_filter, agl>>
airVars    == <<driverVars, driver_last_time, airdata_stamp, airdata_altitude, helperVars, readings>>

Readings == 0 .. MaxTick
Stamps   == 0 .. MaxTick

AirTypeOK ==
  /\ ClockTypeOK
  /\ {analog, airdata_altitude, altitude_filt, agl} \subseteq Readings
  /\ ground_alt_filter \subseteq Readings /\ readings \subseteq Readings
  /\ {data_in_timestamp, pilot_stamp, driver_last_time, airdata_stamp,
      start_time, last_time} \subseteq Stamps
  /\ fresh_pilot_data \in BOOLEAN /\ helpers_called \in BOOLEAN

AirInit ==
  /\ analog = 0 /\ data_in_timestamp = 0 /\ fresh_pilot_data = FALSE
  /\ pilot_stamp = 0 /\ driver_last_time = 0
  /\ airdata_stamp = 0 /\ airdata_altitude = 0
  /\ helpers_called = FALSE /\ start_time = 0 /\ last_time = 0
  /\ altitude_filt = 0 /\ ground_alt_filter = {} /\ agl = 0
  /\ readings = {}

-----------------------------------------------------------------------------
(* Actuator_update() reads the ardupilot, PilotInput_update() publishes. *)

\* The messages that have come; the last one counts.
ReadArdupilot ==
  /\ Runs("actuators") /\ NextSection
  /\ \/ /\ analog' = now
        /\ data_in_timestamp' = Time
        /\ fresh_pilot_data' = TRUE
        /\ readings' = readings \cup {now}
     \/ UNCHANGED <<analog, data_in_timestamp, fresh_pilot_data, readings>>
  /\ UNCHANGED <<pilot_stamp, driver_last_time, airdata_stamp, airdata_altitude, helperVars>>

PilotInput_update ==
  /\ Runs("pilot") /\ NextSection
  /\ pilot_stamp' = IF fresh_pilot_data THEN data_in_timestamp ELSE pilot_stamp
  /\ fresh_pilot_data' = FALSE
  /\ UNCHANGED <<analog, data_in_timestamp, driver_last_time, airdata_stamp,
                 airdata_altitude, helperVars, readings>>

-----------------------------------------------------------------------------
(* AirData_update() *)

\* Mutant: the time of the call instead of that of the data.
TimeOfCall(cur_time) == Time

LastTime(cur_time) == cur_time

\* ardupilot_airdata_update() takes the time stamp from the pilot's inputs.
NoAirData ==
  /\ Runs("airdata") /\ NextSection
  /\ pilot_stamp <= driver_last_time
  /\ driver_last_time' = LastTime(pilot_stamp)
  /\ UNCHANGED <<driverVars, airdata_stamp, airdata_altitude, helperVars, readings>>

Smaller(a, b) == IF a < b THEN a ELSE b

\* Mutant: the average goes on for ever.
GroundIsAveraged(elapsed_time, dt) == elapsed_time >= dt /\ elapsed_time > 0

Averaging(elapsed_time, dt) ==
  elapsed_time >= dt /\ elapsed_time > 0 /\ elapsed_time <= GroundTime

\* update_pressure_helpers(): a time that is not later than the last one is skipped,
\* and last_time with it.  When the whole time elapsed is dt, what was averaged
\* before has no weight.
UpdatePressureHelpers(cur_time, reading) ==
  LET start == IF helpers_called THEN start_time ELSE cur_time
      held  == IF helpers_called /\ ground_alt_filter # {} THEN ground_alt_filter ELSE {reading}
      dt    == Smaller(cur_time - last_time, MaxDt)
      elapsed_time == cur_time - start
  IN  IF dt <= 0
      THEN /\ helpers_called' = TRUE /\ start_time' = start
           /\ UNCHANGED <<last_time, altitude_filt, ground_alt_filter, agl, readings>>
      ELSE /\ helpers_called' = TRUE /\ start_time' = start
           /\ altitude_filt' = reading
           /\ ground_alt_filter' =
                IF Averaging(elapsed_time, dt)
                THEN {reading} \cup (IF elapsed_time > dt THEN held ELSE {})
                ELSE held
           /\ last_time' = cur_time
           /\ agl' = reading

FreshAirData ==
  /\ Runs("airdata") /\ NextSection
  /\ pilot_stamp > driver_last_time
  /\ airdata_stamp' = pilot_stamp
  /\ airdata_altitude' = analog
  /\ driver_last_time' = LastTime(pilot_stamp)
  /\ UpdatePressureHelpers(pilot_stamp, analog)
  /\ UNCHANGED <<driverVars, readings>>

-----------------------------------------------------------------------------

OtherSection ==
  /\ Runs("imu") \/ Runs("gps") \/ Runs("filter")
  /\ NextSection \/ ResetClock
  /\ UNCHANGED airVars

AirNext ==
  ReadArdupilot \/ PilotInput_update \/ NoAirData \/ FreshAirData \/ OtherSection

AirSpec == ClockInit /\ AirInit /\ [][AirNext]_<<clock, airVars>>

-----------------------------------------------------------------------------
(* Properties *)

\* The published altitude above ground by pressure takes in a reading by the third tick after
\* it was taken, through every gap in the readings, but for those of the time that the ended
\* epoch took: until the clock has caught up it stands still (airdata_mgr.cpp:150-152,
\* ardupilot.cxx:583-633).  It is not the altitude that the throttle safety is configured
\* to look at (see above).
AglFollows ==
  \A r \in readings : r - epoch > Ended /\ now - r > 2 => agl >= r

\* The ground altitude is an average over readings of the start, and of the time when
\* the clock passes the start again: "first 30 seconds the filter becomes active"
\* (airdata_mgr.cpp:201-202) holds by a clock that is reset.
GroundFromStart ==
  \A r \in ground_alt_filter :
    \/ r - start_time <= GroundTime + 2
    \/ set_system_time /\ r - epoch - start_time <= GroundTime + 2

=============================================================================
