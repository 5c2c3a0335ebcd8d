------------------------------ MODULE GyroBias ------------------------------
(***************************************************************************)
(* The bias of the gyros that imu_vn100_parse_msg() of                     *)
(* src/sensors/imu_vn100.cxx averages while the aircraft stands still.  A  *)
(* sample is known by the tick it was taken in, the bias by the samples    *)
(* that it averages.                                                       *)
(***************************************************************************)
EXTENDS SensorClock

CONSTANT BiasTime  \* how long the bias is averaged: 15 s

ASSUME BiasTimeAssumption == BiasTime \in Nat \ {0}

VARIABLES
  bias_ready,
  bias_start,  \* start_time; -1 before the first message
  bias,        \* the samples averaged
  rate_bias,   \* those that the published rates were corrected by
  exited       \* the program has ended

biasVars == <<bias_ready, bias_start, bias, rate_bias, exited>>

BiasTypeOK ==
  /\ bias_ready \in BOOLEAN /\ exited \in BOOLEAN
  /\ bias_start \in 0 .. MaxTick \cup {-1}
  /\ bias \subseteq 1 .. MaxTick /\ rate_bias \subseteq bias

BiasInit ==
  /\ bias_ready = FALSE /\ bias_start = -1
  /\ bias = {} /\ rate_bias = {}
  /\ exited = FALSE

\* Mutant: off by one tick.
StillTooLong(elapsed) == elapsed <= BiasTime

Still(elapsed) == elapsed < BiasTime

\* A message of the IMU.  The rates are published before the bias takes the sample in.
Sample ==
  /\ Runs("imu") /\ NextSection /\ ~exited
  /\ rate_bias' = bias
  /\ LET start == IF bias_start < 0 THEN Time ELSE bias_start
     IN  IF bias_ready
         THEN UNCHANGED <<bias_ready, bias_start, bias, exited>>
         ELSE /\ bias_start' = start
              /\ IF Still(Time - start)
                 THEN bias' = bias \cup {now} /\ UNCHANGED <<bias_ready, exited>>
                 ELSE /\ bias_ready' = TRUE
                      /\ exited' \in BOOLEAN  \* a bias above one radian a second
                      /\ UNCHANGED bias

NoSample ==
  /\ ~exited
  /\ NextSection \/ ResetClock
  /\ UNCHANGED biasVars

BiasNext == Sample \/ NoSample

BiasSpec == ClockInit /\ BiasInit /\ [][BiasNext]_<<clock, biasVars>>

-----------------------------------------------------------------------------

\* "average first 15 seconds of steady state gyro values" (imu_vn100.cxx:334): every
\* sample in the bias is of the first BiasTime ticks, or of as many of the new epoch as
\* the first sample was late in the old one; what comes later, in flight, is never
\* averaged, and the bias is complete before it is called ready.
BiasFromStart ==
  /\ \A t \in bias : t < BiasTime + bias_start + Ended
  /\ bias_ready => bias # {} /\ \A t \in bias : now > t

=============================================================================
