----------------------------- MODULE SensorClock -----------------------------
(***************************************************************************)
(* The clock of src/util/timing.cpp as the sensors and filters see it, and *)
(* the order in which timer_handler() calls them, once per tick:           *)
(* IMU_update(), AirData_update(), GPS_update(), PilotInput_update(),      *)
(* Filter_update() and, last, Actuator_update() with its read of the       *)
(* ardupilot.  The clock is set back to zero once, within GPS_update().    *)
(***************************************************************************)
EXTENDS Integers, Sequences

CONSTANT MaxTick  \* bound on the length of a flight

ASSUME MaxTickAssumption == MaxTick \in Nat \ {0}

VARIABLES
  now,              \* ticks since the start
  epoch,            \* the tick at which get_Time() was zero
  set_system_time,  \* the clock has been reset
  section           \* of timer_handler() that runs next

clock == <<now, epoch, set_system_time, section>>

Sections == <<"imu", "airdata", "gps", "pilot", "filter", "actuators">>

ClockTypeOK ==
  /\ now \in 0 .. MaxTick /\ epoch \in 0 .. now
  /\ set_system_time \in BOOLEAN
  /\ section \in 1 .. Len(Sections)

\* The first tick's time is not zero.
ClockInit ==
  /\ now = 1 /\ epoch = 0
  /\ set_system_time = FALSE
  /\ section = 1

Time == now - epoch

\* How long the epoch was that the reset ended.
Ended == IF set_system_time THEN epoch ELSE 0

Runs(s) == Sections[section] = s

NextSection ==
  /\ IF section < Len(Sections)
     THEN section' = section + 1 /\ UNCHANGED now
     ELSE now < MaxTick /\ now' = now + 1 /\ section' = 1
  /\ UNCHANGED <<epoch, set_system_time>>

\* The first NAV-TIMEUTC message of the receiver.
ResetClock ==
  /\ Runs("gps") /\ ~set_system_time
  /\ set_system_time' = TRUE
  /\ epoch' = now
  /\ section' = section + 1 /\ UNCHANGED now

=============================================================================
