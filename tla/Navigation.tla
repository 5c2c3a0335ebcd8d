----------------------------- MODULE Navigation -----------------------------
(***************************************************************************)
(* When the navigation filters run, what they are given and what they say  *)
(* of themselves: IMU_update(), GPS_update() as far as the filters read    *)
(* it, Filter_update() of src/filters/filter_mgr.cpp,                      *)
(* mnav_nav_update() and nav_algorithm() of src/filters/mnav/nav.cpp,      *)
(* uggnss_adns_update() of src/filters/gnss/gnss_interface.cpp, and the    *)
(* check of the GPS age in timer_handler().                                *)
(*                                                                         *)
(* What the filters estimate is left out.  A fix is known by the tick it   *)
(* came in.                                                                *)
(***************************************************************************)
EXTENDS SensorClock, FiniteSets

CONSTANTS
  FixAge,       \* FixAge[m]: m is initialised from a fix younger than this
  GpsTimeout,   \* gps_timeout_sec
  LongAgo       \* how old the GPS data is before there is any

Modules == {"mnav", "umn"}

ASSUME NavigationAssumption ==
  /\ FixAge \in [Modules -> Nat] /\ GpsTimeout \in Nat
  /\ LongAgo \in Nat /\ LongAgo > GpsTimeout
  /\ \A m \in Modules : LongAgo >= FixAge[m]

VARIABLES
  module,          \* the filter configured: "mnav" or "umn"
  imu_stamp,       \* /sensors/imu/time-stamp
  fresh_imu_data,
  gps_stamp,       \* /sensors/gps/time-stamp
  gps_settled,     \* gps_state of gps_mgr.cpp
  gps_last_time,   \* of gps_mgr.cpp, what GPS_age() counts from
  initialised,     \* gps_state of nav.cpp, umn_init_pos of gnss_interface.cpp
  mnav_nav_counter,
  last_gps_time,   \* of nav_algorithm()
  filter_stamp,    \* /filters/filter[0]/time-stamp
  health,          \* /health/navigation, an alias of /filters/filter[0]/navigation
  status,          \* /status/navigation
  \* History:
  fix_at,          \* the tick of the last fix; 0 when there was none
  used             \* the last fix that a correction took in

sensorVars == <<imu_stamp, fresh_imu_data, gps_stamp, gps_settled, gps_last_time, fix_at>>
filterVars == <<initialised, mnav_nav_counter, last_gps_time, filter_stamp, health, used>>
navVars == <<module, sensorVars, filterVars, status>>

Ticks == 0 .. MaxTick

NavTypeOK ==
  /\ ClockTypeOK
  /\ module \in Modules
  /\ {imu_stamp, gps_stamp, last_gps_time, filter_stamp, fix_at, used} \subseteq Ticks
  /\ fresh_imu_data \in BOOLEAN /\ gps_settled \in BOOLEAN /\ initialised \in BOOLEAN
  /\ gps_last_time \in Ticks \cup {-LongAgo}
  /\ mnav_nav_counter \in {0, 1}
  /\ {health, status} \subseteq {"", "invalid", "valid"}

NavInit ==
  /\ module \in Modules
  /\ imu_stamp = 0 /\ fresh_imu_data = FALSE
  /\ gps_stamp = 0 /\ gps_settled = FALSE /\ gps_last_time = -LongAgo
  /\ initialised = FALSE /\ mnav_nav_counter = 0 /\ last_gps_time = 0
  /\ filter_stamp = 0
  /\ health = "invalid" /\ status = ""
  /\ fix_at = 0 /\ used = 0

GPS_age == Time - gps_last_time

-----------------------------------------------------------------------------
(* Sensors *)

IMU_update ==
  /\ Runs("imu") /\ NextSection
  /\ fresh_imu_data' \in BOOLEAN
  /\ imu_stamp' = IF fresh_imu_data' THEN Time ELSE imu_stamp
  /\ UNCHANGED <<module, gps_stamp, gps_settled, gps_last_time, fix_at, filterVars, status>>

\* The time stamp is that of every fix, GPS_age() counts from those of a receiver that
\* has settled.
GPS_fix ==
  /\ Runs("gps") /\ NextSection
  /\ gps_stamp' = Time /\ fix_at' = now
  /\ IF gps_settled
     THEN gps_last_time' = Time /\ UNCHANGED gps_settled
     ELSE gps_settled' \in BOOLEAN /\ UNCHANGED gps_last_time
  /\ UNCHANGED <<module, imu_stamp, fresh_imu_data, filterVars, status>>

-----------------------------------------------------------------------------
(* Filter_update() *)

\* Mutant: a fix is looked at only when the filter says that it is not valid.
LaterWhenInvalid(gps_time) == gps_time > last_gps_time /\ health # "valid"

LaterFix(gps_time) == gps_time > last_gps_time

\* nav_algorithm() predicts, and corrects by a fix that is later than the last one.
NavAlgorithm ==
  IF LaterFix(gps_stamp)
  THEN last_gps_time' = gps_stamp /\ used' = fix_at
  ELSE UNCHANGED <<last_gps_time, used>>

\* mnav_nav_update() on every second call; nobody writes the time stamp of this filter.
MnavUpdate ==
  /\ module = "mnav"
  /\ mnav_nav_counter' = 1 - mnav_nav_counter
  /\ UNCHANGED filter_stamp
  /\ IF mnav_nav_counter = 0
     THEN UNCHANGED <<initialised, last_gps_time, used, health>>
     ELSE IF initialised
     THEN NavAlgorithm /\ health' = "valid" /\ UNCHANGED initialised
     ELSE initialised' = (GPS_age < FixAge[module]) /\ UNCHANGED <<last_gps_time, used, health>>

\* uggnss_adns_update(): umn_adns_update() is not in the repository; it is given every fix.
UmnUpdate ==
  /\ module = "umn"
  /\ initialised' = (initialised \/ GPS_age < FixAge[module])
  /\ IF initialised'
     THEN filter_stamp' = imu_stamp /\ health' = "valid" /\ used' = fix_at
     ELSE UNCHANGED <<filter_stamp, health, used>>
  /\ UNCHANGED <<mnav_nav_counter, last_gps_time>>

\* The check of timer_handler() after the filter.
MarkNotValid == status' = IF GPS_age > GpsTimeout THEN "invalid" ELSE status

Filter_update ==
  /\ Runs("filter") /\ NextSection
  /\ fresh_imu_data
  /\ MnavUpdate \/ UmnUpdate
  /\ MarkNotValid
  /\ UNCHANGED <<module, sensorVars>>

NoFilter_update ==
  /\ Runs("filter") /\ NextSection
  /\ ~fresh_imu_data
  /\ MarkNotValid
  /\ UNCHANGED <<module, sensorVars, filterVars>>

-----------------------------------------------------------------------------

NavOther ==
  /\ Runs("airdata") \/ Runs("gps") \/ Runs("pilot") \/ Runs("actuators")
  /\ NextSection \/ ResetClock
  /\ UNCHANGED navVars

NavNext == IMU_update \/ GPS_fix \/ Filter_update \/ NoFilter_update \/ NavOther

NavSpec == ClockInit /\ NavInit /\ [][NavNext]_<<clock, navVars>>

-----------------------------------------------------------------------------
(* Properties *)

\* A run of the navigation algorithm leaves the newest fix unused only if it was stamped
\* before the clock caught up with the epoch that ended (nav.cpp:338-343); and a fix that
\* corrects is never older than one that did.
FixesAreUsed ==
  [][ /\ used' >= used
      /\ mnav_nav_counter = 1 /\ mnav_nav_counter' = 0 /\ initialised
           => used' = fix_at \/ fix_at - epoch <= Ended ]_<<clock, navVars>>

=============================================================================
