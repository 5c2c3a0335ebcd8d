---------------------------- MODULE SensorProofs ----------------------------
(***************************************************************************)
(* Proofs about the three modules that stand on SensorClock, for a flight  *)
(* of any length and any limits: the gyro bias, the air data and the       *)
(* navigation filters.  Each has an inductive invariant that says what a   *)
(* time stamp can be, before and after the clock was reset.  And about the *)
(* byte parsers and the MNAV board, for any messages and losses: what the  *)
(* first invariant says is where in a frame the parser is, the second from *)
(* which of the packets sent a node has its data.  And about the texts of  *)
(* two IMUs on a line that loses nothing: where in a message a call is.    *)
(***************************************************************************)
EXTENDS AirData, Navigation, GyroBias, FrameParser, Mnav, ImuText, SequenceLemmas, TLAPS

-----------------------------------------------------------------------------
(* The clock *)

\* Time begins at one, the epoch is in the past and is the first one until the reset.
ClockOK ==
  /\ ClockTypeOK
  /\ now > 0
  /\ ~set_system_time => epoch = 0

\* What a section does to the clock, as one fact.
Advances ==
  /\ UNCHANGED <<epoch, set_system_time>>
  /\ \/ section < 6 /\ section' = section + 1 /\ now' = now
     \/ section = 6 /\ section' = 1 /\ now' = now + 1 /\ now < MaxTick

LEMMA SectionAdvances ==
  ASSUME ClockTypeOK, NextSection
  PROVE  Advances
BY DEF ClockTypeOK, NextSection, Advances, Sections

LEMMA SectionsInOrder ==
  ASSUME ClockTypeOK
  PROVE  /\ Runs("imu") <=> section = 1
         /\ Runs("airdata") <=> section = 2
         /\ Runs("gps") <=> section = 3
         /\ Runs("pilot") <=> section = 4
         /\ Runs("filter") <=> section = 5
         /\ Runs("actuators") <=> section = 6
<1>1. section \in 1 .. 6
  BY DEF ClockTypeOK, Sections
<1>2. CASE section = 1
  BY <1>2 DEF Runs, Sections
<1>3. CASE section = 2
  BY <1>3 DEF Runs, Sections
<1>4. CASE section = 3
  BY <1>4 DEF Runs, Sections
<1>5. CASE section = 4
  BY <1>5 DEF Runs, Sections
<1>6. CASE section = 5
  BY <1>6 DEF Runs, Sections
<1>7. CASE section = 6
  BY <1>7 DEF Runs, Sections
<1>8. QED
  BY <1>1, <1>2, <1>3, <1>4, <1>5, <1>6, <1>7

LEMMA ClockStarts ==
  ASSUME ClockInit
  PROVE  ClockOK
<1>1. Len(Sections) = 6
  BY DEF Sections
<1>2. now = 1 /\ epoch = 0 /\ set_system_time = FALSE /\ section = 1
  BY DEF ClockInit
<1>3. ClockTypeOK
  <2>1. set_system_time \in BOOLEAN
    BY <1>2
  <2>2. now \in 0 .. MaxTick /\ epoch \in 0 .. now /\ section \in 1 .. 6
    BY <1>2, MaxTickAssumption
  <2>3. QED
    BY <1>1, <2>1, <2>2 DEF ClockTypeOK
<1>4. QED
  BY <1>2, <1>3 DEF ClockOK

LEMMA SectionKeepsClock ==
  ASSUME ClockOK, NextSection
  PROVE  ClockOK'
<1>1. Advances /\ Len(Sections) = 6
  BY SectionAdvances DEF ClockOK, Sections
<1>2. QED
  BY <1>1, MaxTickAssumption DEF ClockOK, ClockTypeOK, Advances

LEMMA ResetKeepsClock ==
  ASSUME ClockOK, ResetClock
  PROVE  ClockOK' /\ section = 3 /\ section' = 4 /\ now' = now /\ epoch' = now
         /\ set_system_time' = TRUE /\ set_system_time = FALSE
BY SectionsInOrder, MaxTickAssumption DEF ClockOK, ClockTypeOK, ResetClock, Sections

-----------------------------------------------------------------------------
(* The gyro bias *)

\* BiasFromStart with what makes it inductive: a sample of this tick is in the bias only
\* after the section that takes it, and no bias is without its first sample.
BiasInv ==
  /\ ClockOK /\ BiasTypeOK
  /\ BiasFromStart
  /\ \A t \in bias : t < now \/ (t = now /\ section > 1)
  /\ bias_start >= 0 => bias # {}
  /\ bias_start < 0 => bias = {} /\ ~bias_ready

LEMMA BiasStarts ==
  ASSUME ClockInit, BiasInit
  PROVE  BiasInv
<1>1. ClockOK
  BY ClockStarts
<1>2. bias_ready = FALSE /\ bias_start = -1 /\ bias = {} /\ rate_bias = {} /\ exited = FALSE
  BY DEF BiasInit
<1>3. BiasTypeOK
  BY <1>2 DEF BiasTypeOK
<1>4. BiasFromStart
  BY <1>2 DEF BiasFromStart
<1>5. QED
  BY <1>1, <1>2, <1>3, <1>4 DEF BiasInv

LEMMA BiasSample ==
  ASSUME BiasInv, Sample
  PROVE  BiasInv'
<1>1. ClockOK' /\ Advances /\ section = 1 /\ ClockOK
  BY SectionKeepsClock, SectionAdvances, SectionsInOrder DEF BiasInv, ClockOK, Sample
<1>2. section' = 2 /\ now' = now /\ epoch' = epoch /\ set_system_time' = set_system_time
  BY <1>1 DEF Advances
<1>3. now \in Nat /\ epoch \in Nat /\ epoch <= now /\ now > 0 /\ now <= MaxTick
      /\ (~set_system_time => epoch = 0)
  BY <1>1, MaxTickAssumption DEF ClockOK, ClockTypeOK
<1> DEFINE start == IF bias_start < 0 THEN Time ELSE bias_start
<1>4. start \in 0 .. MaxTick /\ (bias_start >= 0 => start = bias_start)
  BY <1>3, MaxTickAssumption DEF BiasInv, BiasTypeOK, Time
<1>5. rate_bias' = bias
  BY DEF Sample
<1>6. CASE bias_ready
  <2>1. UNCHANGED <<bias_ready, bias_start, bias, exited>>
    BY <1>6 DEF Sample
  <2>2. QED
    BY <2>1, <1>1, <1>2, <1>3, <1>5 DEF BiasInv, BiasTypeOK, BiasFromStart, Ended
<1>7. CASE ~bias_ready /\ Still(Time - start)
  <2>1. /\ bias_start' = start /\ bias' = bias \cup {now}
        /\ bias_ready' = bias_ready /\ exited' = exited
    BY <1>7 DEF Sample
  <2>2. now < BiasTime + start + Ended
    <3>1. start \in Int /\ BiasTime \in Int /\ (now - epoch) - start < BiasTime
      BY <1>4, <1>7, BiasTimeAssumption, MaxTickAssumption DEF Still, Time
    <3>2. epoch <= Ended /\ Ended \in Int
      BY <1>3 DEF Ended
    <3> HIDE DEF start
    <3>3. QED
      BY <1>3, <3>1, <3>2
  <2>3. BiasTypeOK'
    BY <2>1, <1>3, <1>4, <1>5 DEF BiasInv, BiasTypeOK
  <2>4. BiasFromStart'
    BY <2>1, <2>2, <1>2, <1>4, <1>7 DEF BiasInv, BiasTypeOK, BiasFromStart, Ended
  <2>5. QED
    BY <2>1, <2>3, <2>4, <1>1, <1>2, <1>3, <1>4 DEF BiasInv
<1>8. CASE ~bias_ready /\ ~Still(Time - start)
  <2>1. /\ bias_start' = start /\ bias' = bias
        /\ bias_ready' = TRUE /\ exited' \in BOOLEAN
    BY <1>8 DEF Sample
  <2>2. bias_start >= 0
    BY <1>3, <1>8, BiasTimeAssumption DEF Still, Time, BiasInv, BiasTypeOK
  <2>3. bias # {} /\ \A t \in bias : now > t
    BY <2>2, <1>1 DEF BiasInv
  <2>4. BiasTypeOK'
    BY <2>1, <1>4, <1>5 DEF BiasInv, BiasTypeOK
  <2>5. BiasFromStart'
    BY <2>1, <2>2, <2>3, <1>2, <1>4 DEF BiasInv, BiasFromStart, Ended
  <2>6. QED
    BY <2>1, <2>2, <2>3, <2>4, <2>5, <1>1, <1>2, <1>3, <1>4 DEF BiasInv
<1>9. QED
  BY <1>6, <1>7, <1>8

LEMMA BiasNoSample ==
  ASSUME BiasInv, NoSample
  PROVE  BiasInv'
<1>1. UNCHANGED biasVars /\ (NextSection \/ ResetClock)
  BY DEF NoSample
<1>2. BiasTypeOK'
  BY <1>1 DEF BiasInv, BiasTypeOK, biasVars
<1>3. CASE NextSection
  <2>1. ClockOK' /\ Advances
    BY <1>3, SectionKeepsClock, SectionAdvances DEF BiasInv, ClockOK
  <2>2. BiasFromStart'
    BY <2>1, <1>1 DEF BiasInv, BiasFromStart, biasVars, Advances, Ended, ClockOK, ClockTypeOK, BiasTypeOK
  <2>3. bias' = bias /\ bias \subseteq Int /\ now \in Int /\ section \in Int
    BY <1>1 DEF BiasInv, biasVars, BiasTypeOK, ClockOK, ClockTypeOK
  <2>4. \A t \in bias' : t < now' \/ (t = now' /\ section' > 1)
    <3>1. SUFFICES ASSUME NEW t \in bias PROVE t < now' \/ (t = now' /\ section' > 1)
      BY <2>3
    <3>2. t < now \/ (t = now /\ section > 1)
      BY DEF BiasInv
    <3>3. QED
      BY <2>1, <2>3, <3>2 DEF Advances
  <2>5. QED
    BY <2>1, <2>2, <2>4, <1>1, <1>2 DEF BiasInv, biasVars
<1>4. CASE ResetClock
  <2>1. ClockOK' /\ section = 3 /\ section' = 4 /\ now' = now /\ epoch' = now
        /\ set_system_time' = TRUE /\ set_system_time = FALSE
    BY <1>4, ResetKeepsClock DEF BiasInv
  <2>2. now \in Nat
    BY DEF BiasInv, ClockOK, ClockTypeOK
  <2>3. BiasFromStart'
    BY <2>1, <2>2, <1>1, BiasTimeAssumption DEF BiasInv, BiasFromStart, biasVars, Ended, BiasTypeOK
  <2>4. QED
    BY <2>1, <2>2, <2>3, <1>1, <1>2 DEF BiasInv, biasVars, BiasTypeOK
<1>5. QED
  BY <1>1, <1>3, <1>4

\* The gyro bias is an average over samples of the first seconds, and complete
\* before it is used as ready.
THEOREM Bias_FromStart == BiasSpec => []BiasFromStart
<1>1. ClockInit /\ BiasInit => BiasInv
  BY BiasStarts
<1>2. BiasInv /\ [BiasNext]_<<clock, biasVars>> => BiasInv'
  <2>1. SUFFICES ASSUME BiasInv, [BiasNext]_<<clock, biasVars>> PROVE BiasInv'
    OBVIOUS
  <2>2. CASE UNCHANGED <<clock, biasVars>>
    BY <2>1, <2>2 DEF BiasInv, ClockOK, ClockTypeOK, BiasTypeOK, BiasFromStart, Ended, clock, biasVars
  <2>3. QED
    BY <2>1, <2>2, BiasSample, BiasNoSample DEF BiasNext
<1>3. BiasInv => BiasFromStart
  BY DEF BiasInv
<1>4. QED
  BY <1>1, <1>2, <1>3, PTL DEF BiasSpec

-----------------------------------------------------------------------------
(* The navigation filters *)

\* A time stamp of the tick t, of this epoch or of the one that ended.
StampOf(stamp, t) ==
  \/ stamp = t - epoch
  \/ set_system_time /\ stamp = t /\ t <= epoch

\* The numbers that the filters go by, and what they stand for: the stamps are those of
\* the last fix and of the last one used, which is no later.
NavInv ==
  /\ ClockOK
  /\ module \in Modules
  /\ fix_at \in Nat /\ fix_at <= now
  /\ used \in Nat /\ used <= fix_at
  /\ mnav_nav_counter \in {0, 1}
  /\ StampOf(gps_stamp, fix_at)
  /\ module = "mnav" => StampOf(last_gps_time, used)
  /\ module = "umn" => mnav_nav_counter = 0

\* What one step promises: FixesAreUsed is that every step does.
FixUsed ==
  /\ used' >= used
  /\ mnav_nav_counter = 1 /\ mnav_nav_counter' = 0 /\ initialised
       => used' = fix_at \/ fix_at - epoch <= Ended

LEMMA NavStarts ==
  ASSUME ClockInit, NavInit
  PROVE  NavInv
<1>1. ClockOK /\ now = 1 /\ epoch = 0
  BY ClockStarts DEF ClockInit
<1>2. /\ module \in Modules /\ fix_at = 0 /\ used = 0 /\ mnav_nav_counter = 0
      /\ gps_stamp = 0 /\ last_gps_time = 0
  BY DEF NavInit
<1>3. StampOf(gps_stamp, fix_at) /\ StampOf(last_gps_time, used)
  BY <1>1, <1>2 DEF StampOf
<1>4. QED
  BY <1>1, <1>2, <1>3 DEF NavInv

\* A stamp stays one of its tick in a section that sets no clock.
LEMMA StampStays ==
  ASSUME Advances, NEW stamp, NEW t, StampOf(stamp, t)
  PROVE  StampOf(stamp, t)'
BY DEF Advances, StampOf

\* The reset makes every stamp one of the epoch that it ends.
LEMMA StampEnds ==
  ASSUME ClockOK, ResetClock, NEW stamp, NEW t \in Nat, t <= now, StampOf(stamp, t)
  PROVE  StampOf(stamp, t)'
<1>1. epoch' = now /\ set_system_time' = TRUE /\ set_system_time = FALSE /\ epoch = 0
  BY ResetKeepsClock DEF ClockOK
<1>2. stamp = t
  BY <1>1 DEF StampOf
<1>3. QED
  BY <1>1, <1>2 DEF StampOf

\* A section that leaves fixes and filter alone.
LEMMA NavRests ==
  ASSUME NavInv, NextSection \/ ResetClock,
         module' = module, fix_at' = fix_at, used' = used,
         mnav_nav_counter' = mnav_nav_counter,
         gps_stamp' = gps_stamp, last_gps_time' = last_gps_time
  PROVE  NavInv' /\ FixUsed
<1>1. ClockOK' /\ now' >= now /\ now \in Nat /\ now' \in Nat
  <2>1. CASE NextSection
    BY <2>1, SectionKeepsClock, SectionAdvances DEF NavInv, ClockOK, ClockTypeOK, Advances
  <2>2. CASE ResetClock
    <3>1. ClockOK' /\ now' = now
      BY <2>2, ResetKeepsClock DEF NavInv
    <3>2. now \in Nat
      BY DEF NavInv, ClockOK, ClockTypeOK
    <3>3. QED
      BY <3>1, <3>2
  <2>3. QED
    BY <2>1, <2>2
<1>2. StampOf(gps_stamp, fix_at)'
  <2>1. CASE NextSection
    BY <2>1, SectionAdvances, StampStays DEF NavInv, ClockOK, StampOf
  <2>2. CASE ResetClock
    BY <2>2, StampEnds DEF NavInv, StampOf
  <2>3. QED
    BY <2>1, <2>2
<1>3. ASSUME module = "mnav" PROVE StampOf(last_gps_time, used)'
  <2>1. used \in Nat /\ used <= now
    BY <1>1 DEF NavInv
  <2>2. CASE NextSection
    BY <1>3, <2>2, SectionAdvances, StampStays DEF NavInv, ClockOK, StampOf
  <2>3. CASE ResetClock
    BY <1>3, <2>1, <2>3, StampEnds DEF NavInv, StampOf
  <2>4. QED
    BY <2>2, <2>3
<1>4. NavInv'
  BY <1>1, <1>2, <1>3 DEF NavInv
<1>5. FixUsed
  BY DEF FixUsed, NavInv
<1>6. QED
  BY <1>4, <1>5

LEMMA NavFix ==
  ASSUME NavInv, GPS_fix
  PROVE  NavInv' /\ FixUsed
<1>1. ClockOK' /\ Advances /\ section = 3
  BY SectionKeepsClock, SectionAdvances, SectionsInOrder DEF NavInv, ClockOK, GPS_fix
<1>2. now' = now /\ epoch' = epoch /\ now \in Nat /\ epoch \in Nat
  BY <1>1 DEF Advances, NavInv, ClockOK, ClockTypeOK
<1>3. /\ gps_stamp' = now - epoch /\ fix_at' = now /\ module' = module
      /\ used' = used /\ mnav_nav_counter' = mnav_nav_counter /\ last_gps_time' = last_gps_time
  BY DEF GPS_fix, filterVars, Time
<1>4. StampOf(gps_stamp, fix_at)'
  BY <1>2, <1>3 DEF StampOf
<1>5. ASSUME module = "mnav" PROVE StampOf(last_gps_time, used)'
  BY <1>1, <1>3, <1>5, StampStays DEF NavInv, StampOf
<1>6. NavInv'
  BY <1>1, <1>2, <1>3, <1>4, <1>5 DEF NavInv
<1>7. FixUsed
  BY <1>3 DEF FixUsed, NavInv
<1>8. QED
  BY <1>6, <1>7

\* The comparison of stamps finds a later fix, but for those of the time that the
\* ended epoch took.
LEMMA LaterFixFound ==
  ASSUME NavInv, module = "mnav", NavAlgorithm
  PROVE  /\ used' \in Nat /\ used' >= used /\ used' <= fix_at
         /\ used' = fix_at \/ fix_at - epoch <= Ended
         /\ StampOf(last_gps_time', used')
<1>1. /\ fix_at \in Nat /\ used \in Nat /\ used <= fix_at
      /\ epoch \in Nat /\ (~set_system_time => epoch = 0)
      /\ StampOf(gps_stamp, fix_at) /\ StampOf(last_gps_time, used)
  BY DEF NavInv, ClockOK, ClockTypeOK
<1>2. CASE LaterFix(gps_stamp)
  BY <1>1, <1>2 DEF NavAlgorithm
<1>3. CASE ~LaterFix(gps_stamp)
  <2>1. last_gps_time' = last_gps_time /\ used' = used
    BY <1>3 DEF NavAlgorithm
  <2>2. gps_stamp <= last_gps_time
    BY <1>1, <1>3 DEF LaterFix, StampOf
  <2>3. used = fix_at \/ fix_at - epoch <= Ended
    BY <1>1, <2>2 DEF StampOf, Ended
  <2>4. QED
    BY <1>1, <2>1, <2>3
<1>4. QED
  BY <1>2, <1>3

LEMMA NavFilter ==
  ASSUME NavInv, Filter_update
  PROVE  NavInv' /\ FixUsed
<1>1. ClockOK' /\ Advances
  BY SectionKeepsClock, SectionAdvances DEF NavInv, ClockOK, Filter_update
<1>2. /\ now' >= now /\ epoch' = epoch /\ set_system_time' = set_system_time
      /\ now \in Nat /\ now' \in Nat
  BY <1>1 DEF Advances, NavInv, ClockOK, ClockTypeOK
<1>3. module' = module /\ fix_at' = fix_at /\ gps_stamp' = gps_stamp
  BY DEF Filter_update, sensorVars
<1>4. StampOf(gps_stamp, fix_at)'
  BY <1>1, <1>3, StampStays DEF NavInv, StampOf
<1>5. CASE MnavUpdate
  <2>1. module = "mnav" /\ mnav_nav_counter' = 1 - mnav_nav_counter
    BY <1>5 DEF MnavUpdate
  <2>2. mnav_nav_counter' \in {0, 1}
    BY <2>1 DEF NavInv
  <2>3. CASE mnav_nav_counter # 0 /\ initialised
    <3>1. NavAlgorithm
      BY <1>5, <2>3 DEF MnavUpdate
    <3>2. /\ used' \in Nat /\ used' >= used /\ used' <= fix_at
          /\ used' = fix_at \/ fix_at - epoch <= Ended
          /\ StampOf(last_gps_time', used')
      BY <2>1, <3>1, LaterFixFound
    <3>3. StampOf(last_gps_time, used)'
      BY <1>2, <3>2 DEF StampOf
    <3>4. NavInv'
      BY <1>1, <1>2, <1>3, <1>4, <2>1, <2>2, <3>2, <3>3 DEF NavInv
    <3>5. FixUsed
      BY <3>2 DEF FixUsed
    <3>6. QED
      BY <3>4, <3>5
  <2>4. CASE ~(mnav_nav_counter # 0 /\ initialised)
    <3>1. used' = used /\ last_gps_time' = last_gps_time
      BY <1>5, <2>4 DEF MnavUpdate
    <3>2. StampOf(last_gps_time, used)'
      BY <1>1, <2>1, <3>1, StampStays DEF NavInv, StampOf
    <3>3. NavInv'
      BY <1>1, <1>2, <1>3, <1>4, <2>1, <2>2, <3>1, <3>2 DEF NavInv
    <3>4. FixUsed
      BY <2>4, <3>1 DEF FixUsed, NavInv
    <3>5. QED
      BY <3>3, <3>4
  <2>5. QED
    BY <2>3, <2>4
<1>6. CASE UmnUpdate
  <2>1. module = "umn" /\ mnav_nav_counter' = mnav_nav_counter
    BY <1>6 DEF UmnUpdate
  <2>2. used' = fix_at \/ used' = used
    BY <1>6 DEF UmnUpdate
  <2>3. used' \in Nat /\ used' >= used /\ used' <= fix_at
    BY <2>2 DEF NavInv
  <2>4. NavInv'
    BY <1>1, <1>2, <1>3, <1>4, <2>1, <2>3 DEF NavInv
  <2>5. FixUsed
    BY <2>1, <2>3 DEF FixUsed, NavInv
  <2>6. QED
    BY <2>4, <2>5
<1>7. QED
  BY <1>5, <1>6 DEF Filter_update

LEMMA NavStep ==
  ASSUME NavInv, NavNext
  PROVE  NavInv' /\ FixUsed
<1>1. CASE GPS_fix
  BY <1>1, NavFix
<1>2. CASE Filter_update
  BY <1>2, NavFilter
<1>3. CASE IMU_update
  BY <1>3, NavRests DEF IMU_update, filterVars
<1>4. CASE NoFilter_update
  BY <1>4, NavRests DEF NoFilter_update, sensorVars, filterVars
<1>5. CASE NavOther
  BY <1>5, NavRests DEF NavOther, navVars, sensorVars, filterVars
<1>6. QED
  BY <1>1, <1>2, <1>3, <1>4, <1>5 DEF NavNext

LEMMA NavStutters ==
  ASSUME NavInv, UNCHANGED <<clock, navVars>>
  PROVE  NavInv' /\ FixUsed
<1>1. NavInv'
  BY DEF NavInv, ClockOK, ClockTypeOK, StampOf, clock, navVars, sensorVars, filterVars
<1>2. used' = used /\ mnav_nav_counter' = mnav_nav_counter
  BY DEF navVars, filterVars
<1>3. FixUsed
  BY <1>2 DEF FixUsed, NavInv
<1>4. QED
  BY <1>1, <1>3

\* A fix is left out of the estimates only while the clock catches up with the epoch
\* that ended, and no correction is made by an older fix than one before.
THEOREM Fixes_AreUsed == NavSpec => FixesAreUsed
<1>1. ClockInit /\ NavInit => NavInv
  BY NavStarts
<1>2. NavInv /\ [NavNext]_<<clock, navVars>> => NavInv' /\ FixUsed
  BY NavStep, NavStutters
<1>3. QED
  BY <1>1, <1>2, PTL DEF NavSpec, FixesAreUsed, FixUsed

-----------------------------------------------------------------------------
(* The air data *)

AirNumbers ==
  /\ readings \subseteq Nat /\ ground_alt_filter \subseteq Nat
  /\ analog \in Nat /\ agl \in Nat
  /\ data_in_timestamp \in Int /\ pilot_stamp \in Int /\ driver_last_time \in Int
  /\ last_time \in Int /\ start_time \in Int
  /\ fresh_pilot_data \in BOOLEAN /\ helpers_called \in BOOLEAN

\* A time that is past, or one of the epoch that ended.
Past(stamp) == stamp <= Ended \/ stamp < now - epoch

\* A reading that is stamped later than any stamp of the epoch that ended.
Late(r) == r - epoch > Ended

\* What is on its way to the altitude: the readings have been taken in, published as
\* the pilot's and handed to the helpers up to the section that runs next.
PipelineInv ==
  /\ analog < now /\ \A r \in readings : r <= analog
  /\ Past(data_in_timestamp) /\ Past(pilot_stamp) /\ Past(last_time)
  /\ driver_last_time <= last_time
  /\ ~fresh_pilot_data => pilot_stamp = data_in_timestamp
  /\ \A r \in readings : Late(r) => r - epoch <= data_in_timestamp
  /\ \A r \in readings :
       Late(r) /\ (r < now - 1 \/ section > 4) => r - epoch <= pilot_stamp
  /\ \A r \in readings : Late(r) /\ r - epoch <= last_time => agl >= r
  /\ \A r \in readings :
       Late(r) /\ (r < now - 2 \/ (r < now - 1 /\ section > 2)) => agl >= r

\* When the readings that are not published, or not handed on, were taken.
Stamped(stamp, t) == stamp = t - epoch \/ (set_system_time /\ stamp = t)

FreshInv ==
  /\ 0 <= data_in_timestamp /\ 0 <= pilot_stamp /\ 0 <= driver_last_time
  /\ fresh_pilot_data =>
       section <= 4 /\ analog = now - 1 /\ Stamped(data_in_timestamp, now - 1)
  /\ pilot_stamp > driver_last_time =>
       \/ section <= 2 /\ Stamped(pilot_stamp, now - 2)
       \/ section > 4 /\ Stamped(pilot_stamp, now - 1)

\* The ground altitude is of the start once there is one.
GroundInv ==
  /\ GroundFromStart
  /\ helpers_called <=> ground_alt_filter # {}
  /\ ~helpers_called => last_time = 0

AirInv == ClockOK /\ AirNumbers /\ PipelineInv /\ FreshInv /\ GroundInv

LEMMA AirStarts ==
  ASSUME ClockInit, AirInit
  PROVE  AirInv
<1>1. ClockOK /\ now = 1 /\ epoch = 0 /\ set_system_time = FALSE /\ section = 1
  BY ClockStarts DEF ClockInit
<1>2. /\ analog = 0 /\ data_in_timestamp = 0 /\ fresh_pilot_data = FALSE
      /\ pilot_stamp = 0 /\ driver_last_time = 0 /\ helpers_called = FALSE
      /\ start_time = 0 /\ last_time = 0
      /\ ground_alt_filter = {} /\ agl = 0 /\ readings = {}
  BY DEF AirInit
<1>3. fresh_pilot_data \in BOOLEAN /\ helpers_called \in BOOLEAN
  BY <1>2
<1>4. AirNumbers
  BY <1>2, <1>3 DEF AirNumbers
<1>5. PipelineInv
  BY <1>1, <1>2 DEF PipelineInv, Past, Ended
<1>6. FreshInv
  BY <1>1, <1>2 DEF FreshInv
<1>7. GroundInv
  BY <1>2 DEF GroundInv, GroundFromStart
<1>8. QED
  BY <1>1, <1>4, <1>5, <1>6, <1>7 DEF AirInv

\* The numbers of the clock, for the steps below.
LEMMA ClockNumbers ==
  ASSUME ClockOK
  PROVE  /\ now \in Nat /\ now > 0 /\ epoch \in Nat /\ epoch <= now /\ section \in 1 .. 6
         /\ Ended \in Nat /\ Ended <= epoch
         /\ ~set_system_time => epoch = 0 /\ Ended = 0
         /\ set_system_time => Ended = epoch
<1>1. Len(Sections) = 6
  BY DEF Sections
<1>2. QED
  BY <1>1 DEF ClockOK, ClockTypeOK, Ended

LEMMA EndedStays ==
  ASSUME Advances
  PROVE  Ended' = Ended /\ epoch' = epoch /\ set_system_time' = set_system_time
BY DEF Advances, Ended

\* Time alone keeps the readings' way, in a section behind which no reading is due.
LEMMA AirRests ==
  ASSUME AirInv, Advances, section \in {1, 3, 5}, ClockOK', UNCHANGED airVars
  PROVE  AirInv'
<1>1. /\ epoch' = epoch /\ set_system_time' = set_system_time /\ Ended' = Ended
      /\ section' = section + 1 /\ now' = now
  BY EndedStays DEF Advances
<1>2. /\ analog' = analog /\ data_in_timestamp' = data_in_timestamp
      /\ fresh_pilot_data' = fresh_pilot_data
      /\ pilot_stamp' = pilot_stamp /\ driver_last_time' = driver_last_time
      /\ helpers_called' = helpers_called /\ start_time' = start_time
      /\ last_time' = last_time /\ ground_alt_filter' = ground_alt_filter
      /\ agl' = agl /\ readings' = readings
  BY DEF airVars, driverVars, helperVars
<1>3. AirNumbers'
  BY <1>2 DEF AirInv, AirNumbers
<1>4. PipelineInv'
  BY <1>1, <1>2, ClockNumbers DEF AirInv, AirNumbers, PipelineInv, Past, Late
<1>5. FreshInv'
  BY <1>1, <1>2, ClockNumbers DEF AirInv, AirNumbers, FreshInv, Stamped
<1>6. GroundInv'
  BY <1>1, <1>2 DEF AirInv, GroundInv, GroundFromStart
<1>7. QED
  BY <1>3, <1>4, <1>5, <1>6 DEF AirInv

\* The reset makes all stamps old and no reading late.
LEMMA AirReset ==
  ASSUME AirInv, ResetClock, UNCHANGED airVars
  PROVE  AirInv'
<1>1. /\ ClockOK' /\ section = 3 /\ section' = 4 /\ now' = now /\ epoch' = now
      /\ set_system_time' = TRUE /\ set_system_time = FALSE
  BY ResetKeepsClock DEF AirInv
<1>2. /\ analog' = analog /\ data_in_timestamp' = data_in_timestamp
      /\ fresh_pilot_data' = fresh_pilot_data
      /\ pilot_stamp' = pilot_stamp /\ driver_last_time' = driver_last_time
      /\ helpers_called' = helpers_called /\ start_time' = start_time
      /\ last_time' = last_time /\ ground_alt_filter' = ground_alt_filter
      /\ agl' = agl /\ readings' = readings
  BY DEF airVars, driverVars, helperVars
<1>3. AirNumbers'
  BY <1>2 DEF AirInv, AirNumbers
<1>4. Ended' = now /\ Ended = 0 /\ epoch = 0 /\ now \in Nat
  BY <1>1, ClockNumbers DEF AirInv, Ended
<1>5. \A r \in readings' : ~Late(r)'
  BY <1>1, <1>2, <1>4 DEF AirInv, AirNumbers, PipelineInv, Late
<1>6. Past(data_in_timestamp)' /\ Past(pilot_stamp)' /\ Past(last_time)'
  BY <1>1, <1>2, <1>4 DEF AirInv, AirNumbers, PipelineInv, Past
<1>7. PipelineInv'
  BY <1>1, <1>2, <1>5, <1>6 DEF AirInv, PipelineInv
<1>8. FreshInv'
  BY <1>1, <1>2, <1>4 DEF AirInv, AirNumbers, FreshInv, Stamped
<1>9. GroundInv'
  BY <1>1, <1>2 DEF AirInv, GroundInv, GroundFromStart
<1>10. QED
  BY <1>1, <1>3, <1>7, <1>8, <1>9 DEF AirInv

LEMMA AirRead ==
  ASSUME AirInv, ReadArdupilot
  PROVE  AirInv'
<1>1. ClockOK' /\ Advances /\ section = 6
  BY SectionKeepsClock, SectionAdvances, SectionsInOrder DEF AirInv, ClockOK, ReadArdupilot
<1>2. /\ epoch' = epoch /\ set_system_time' = set_system_time /\ Ended' = Ended
      /\ section' = 1 /\ now' = now + 1
  BY <1>1, EndedStays DEF Advances
<1>3. /\ pilot_stamp' = pilot_stamp /\ driver_last_time' = driver_last_time
      /\ helpers_called' = helpers_called /\ start_time' = start_time
      /\ last_time' = last_time /\ ground_alt_filter' = ground_alt_filter
      /\ agl' = agl
  BY DEF ReadArdupilot, helperVars
<1>4. GroundInv'
  BY <1>2, <1>3 DEF AirInv, GroundInv, GroundFromStart
<1>5. CASE /\ analog' = now /\ data_in_timestamp' = Time
           /\ fresh_pilot_data' = TRUE /\ readings' = readings \cup {now}
  <2>1. AirNumbers'
    <3>1. now \in Nat /\ Time \in Int
      BY ClockNumbers DEF AirInv, Time
    <3>2. fresh_pilot_data' \in BOOLEAN
      BY <1>5
    <3>3. QED
      BY <1>3, <1>5, <3>1, <3>2 DEF AirInv, AirNumbers
  <2>2. PipelineInv'
    BY <1>1, <1>2, <1>3, <1>5, ClockNumbers DEF AirInv, AirNumbers, PipelineInv, Past, Late, Time
  <2>3. FreshInv'
    BY <1>1, <1>2, <1>3, <1>5, ClockNumbers DEF AirInv, AirNumbers, FreshInv, Stamped, Time
  <2>4. QED
    BY <1>1, <1>4, <2>1, <2>2, <2>3 DEF AirInv
<1>6. CASE UNCHANGED <<analog, data_in_timestamp, fresh_pilot_data, readings>>
  <2>1. AirNumbers'
    BY <1>3, <1>6 DEF AirInv, AirNumbers
  <2>2. PipelineInv'
    BY <1>1, <1>2, <1>3, <1>6, ClockNumbers DEF AirInv, AirNumbers, PipelineInv, Past, Late
  <2>3. FreshInv'
    BY <1>1, <1>2, <1>3, <1>6, ClockNumbers DEF AirInv, AirNumbers, FreshInv, Stamped
  <2>4. QED
    BY <1>1, <1>4, <2>1, <2>2, <2>3 DEF AirInv
<1>7. QED
  BY <1>5, <1>6 DEF ReadArdupilot

LEMMA AirPilot ==
  ASSUME AirInv, PilotInput_update
  PROVE  AirInv'
<1>1. ClockOK' /\ Advances /\ section = 4
  BY SectionKeepsClock, SectionAdvances, SectionsInOrder DEF AirInv, ClockOK, PilotInput_update
<1>2. /\ epoch' = epoch /\ set_system_time' = set_system_time /\ Ended' = Ended
      /\ section' = 5 /\ now' = now
  BY <1>1, EndedStays DEF Advances
<1>3. /\ analog' = analog /\ data_in_timestamp' = data_in_timestamp
      /\ driver_last_time' = driver_last_time
      /\ helpers_called' = helpers_called /\ start_time' = start_time
      /\ last_time' = last_time /\ ground_alt_filter' = ground_alt_filter
      /\ agl' = agl /\ readings' = readings /\ fresh_pilot_data' = FALSE
  BY DEF PilotInput_update, helperVars
<1>4. pilot_stamp' = data_in_timestamp
  BY DEF PilotInput_update, AirInv, PipelineInv
<1>5. AirNumbers'
  <2>1. fresh_pilot_data' \in BOOLEAN
    BY <1>3
  <2>2. QED
    BY <1>3, <1>4, <2>1 DEF AirInv, AirNumbers
<1>6. PipelineInv'
  BY <1>1, <1>2, <1>3, <1>4, ClockNumbers DEF AirInv, AirNumbers, PipelineInv, Past, Late
<1>7. FreshInv'
  <2>1. CASE fresh_pilot_data
    BY <1>1, <1>2, <1>3, <1>4, <2>1, ClockNumbers DEF AirInv, AirNumbers, FreshInv, Stamped
  <2>2. CASE ~fresh_pilot_data
    <3>1. pilot_stamp' = pilot_stamp
      BY <1>4, <2>2 DEF AirInv, PipelineInv
    <3>2. pilot_stamp <= driver_last_time
      BY <1>1 DEF AirInv, AirNumbers, FreshInv
    <3>3. QED
      BY <1>3, <3>1, <3>2 DEF AirInv, AirNumbers, FreshInv
  <2>3. QED
    BY <2>1, <2>2
<1>8. GroundInv'
  BY <1>2, <1>3 DEF AirInv, GroundInv, GroundFromStart
<1>9. QED
  BY <1>1, <1>5, <1>6, <1>7, <1>8 DEF AirInv

LEMMA AirOld ==
  ASSUME AirInv, NoAirData
  PROVE  AirInv'
<1>1. ClockOK' /\ Advances /\ section = 2
  BY SectionKeepsClock, SectionAdvances, SectionsInOrder DEF AirInv, ClockOK, NoAirData
<1>2. /\ epoch' = epoch /\ set_system_time' = set_system_time /\ Ended' = Ended
      /\ section' = 3 /\ now' = now
  BY <1>1, EndedStays DEF Advances
<1>3. /\ analog' = analog /\ data_in_timestamp' = data_in_timestamp
      /\ fresh_pilot_data' = fresh_pilot_data
      /\ pilot_stamp' = pilot_stamp /\ driver_last_time' = pilot_stamp
      /\ helpers_called' = helpers_called /\ start_time' = start_time
      /\ last_time' = last_time /\ ground_alt_filter' = ground_alt_filter
      /\ agl' = agl /\ readings' = readings /\ pilot_stamp <= driver_last_time
  BY DEF NoAirData, driverVars, helperVars, LastTime
<1>4. AirNumbers'
  BY <1>3 DEF AirInv, AirNumbers
<1>5. PipelineInv'
  BY <1>1, <1>2, <1>3, ClockNumbers DEF AirInv, AirNumbers, PipelineInv, Past, Late
<1>6. FreshInv'
  BY <1>1, <1>2, <1>3, ClockNumbers DEF AirInv, AirNumbers, FreshInv, Stamped
<1>7. GroundInv'
  BY <1>2, <1>3 DEF AirInv, GroundInv, GroundFromStart
<1>8. QED
  BY <1>1, <1>4, <1>5, <1>6, <1>7 DEF AirInv

LEMMA AirFresh ==
  ASSUME AirInv, FreshAirData
  PROVE  AirInv'
<1> DEFINE start == IF helpers_called THEN start_time ELSE pilot_stamp
           dt == Smaller(pilot_stamp - last_time, MaxDt)
           held == IF helpers_called /\ ground_alt_filter # {} THEN ground_alt_filter ELSE {analog}
           elapsed == pilot_stamp - start
<1>1. ClockOK' /\ Advances /\ section = 2
  BY SectionKeepsClock, SectionAdvances, SectionsInOrder DEF AirInv, ClockOK, FreshAirData
<1>2. /\ epoch' = epoch /\ set_system_time' = set_system_time /\ Ended' = Ended
      /\ section' = 3 /\ now' = now
  BY <1>1, EndedStays DEF Advances
<1>3. /\ analog' = analog /\ data_in_timestamp' = data_in_timestamp
      /\ fresh_pilot_data' = fresh_pilot_data /\ readings' = readings
      /\ pilot_stamp' = pilot_stamp /\ driver_last_time' = pilot_stamp
      /\ pilot_stamp > driver_last_time
      /\ UpdatePressureHelpers(pilot_stamp, analog)
  BY DEF FreshAirData, driverVars, LastTime
<1>4. helpers_called' = TRUE /\ start_time' = start
  BY <1>3 DEF UpdatePressureHelpers
<1>5. Stamped(pilot_stamp, now - 2) /\ analog < now
  BY <1>1, <1>3 DEF AirInv, FreshInv, PipelineInv
<1>6. /\ analog \in Nat /\ pilot_stamp \in Int /\ start \in Int /\ last_time \in Int
      /\ start_time \in Int /\ MaxDt \in Nat \ {0} /\ GroundTime \in Nat
  BY AirDataAssumption DEF AirInv, AirNumbers
<1>7. CASE dt <= 0
  <2>1. /\ last_time' = last_time /\ ground_alt_filter' = ground_alt_filter /\ agl' = agl
    BY <1>3, <1>7 DEF UpdatePressureHelpers
  <2>2. pilot_stamp <= last_time
    BY <1>6, <1>7 DEF Smaller
  <2>3. helpers_called
    BY <1>3, <2>2 DEF AirInv, AirNumbers, GroundInv, FreshInv
  <2>4. start_time' = start_time
    BY <1>4, <2>3
  <2>5. AirNumbers'
    <3>1. helpers_called' \in BOOLEAN
      BY <1>4
    <3>2. QED
      BY <1>3, <2>1, <2>4, <3>1 DEF AirInv, AirNumbers
  <2>6. PipelineInv'
    BY <1>1, <1>2, <1>3, <2>1, <2>2, ClockNumbers DEF AirInv, AirNumbers, PipelineInv, Past, Late
  <2>7. FreshInv'
    BY <1>1, <1>2, <1>3, ClockNumbers DEF AirInv, AirNumbers, FreshInv, Stamped
  <2>8. GroundInv'
    <3>1. GroundFromStart'
      BY <1>2, <2>1, <2>4 DEF AirInv, GroundInv, GroundFromStart
    <3>2. helpers_called' <=> ground_alt_filter' # {}
      BY <1>4, <2>1, <2>3 DEF AirInv, GroundInv
    <3>3. QED
      BY <1>4, <3>1, <3>2 DEF GroundInv
  <2>9. QED
    BY <1>1, <2>5, <2>6, <2>7, <2>8 DEF AirInv
<1>8. CASE ~(dt <= 0)
  <2>1. last_time' = pilot_stamp /\ agl' = analog
    BY <1>3, <1>8 DEF UpdatePressureHelpers
  <2>2. \/ ground_alt_filter' = held
        \/ /\ elapsed <= GroundTime
           /\ ground_alt_filter' = {analog} \cup held \/ ground_alt_filter' = {analog}
    <3>1. CASE Averaging(elapsed, dt)
      <4>1. ground_alt_filter' = {analog} \cup (IF elapsed > dt THEN held ELSE {})
        BY <1>3, <1>8, <3>1 DEF UpdatePressureHelpers
      <4>2. elapsed <= GroundTime
        BY <3>1 DEF Averaging
      <4>3. CASE elapsed > dt
        BY <4>1, <4>2, <4>3
      <4>4. CASE ~(elapsed > dt)
        BY <4>1, <4>2, <4>4
      <4>5. QED
        BY <4>3, <4>4
    <3>2. CASE ~Averaging(elapsed, dt)
      BY <1>3, <1>8, <3>2 DEF UpdatePressureHelpers
    <3>3. QED
      BY <3>1, <3>2
  <2>3. held \subseteq Nat /\ held # {}
    BY <1>6 DEF AirInv, AirNumbers
  <2>4. ground_alt_filter' \subseteq Nat /\ ground_alt_filter' # {}
    BY <1>6, <2>2, <2>3
  <2>5. AirNumbers'
    <3>1. helpers_called' \in BOOLEAN
      BY <1>4
    <3>2. QED
      BY <1>3, <1>4, <1>6, <2>1, <2>4, <3>1 DEF AirInv, AirNumbers
  <2>6. PipelineInv'
    BY <1>1, <1>2, <1>3, <2>1, ClockNumbers DEF AirInv, AirNumbers, PipelineInv, Past, Late
  <2>7. FreshInv'
    BY <1>1, <1>2, <1>3, ClockNumbers DEF AirInv, AirNumbers, FreshInv, Stamped
  <2>8. ASSUME elapsed <= GroundTime
        PROVE  \/ analog - start <= GroundTime + 2
               \/ set_system_time /\ analog - epoch - start <= GroundTime + 2
    BY <1>5, <1>6, <2>8, ClockNumbers DEF AirInv, Stamped
  <2>9. \A r \in held : \/ r - start <= GroundTime + 2
                        \/ set_system_time /\ r - epoch - start <= GroundTime + 2
    <3>1. CASE helpers_called /\ ground_alt_filter # {}
      BY <3>1 DEF AirInv, GroundInv, GroundFromStart
    <3>2. CASE ~(helpers_called /\ ground_alt_filter # {})
      <4>1. ~helpers_called
        BY <3>2 DEF AirInv, GroundInv
      <4>2. elapsed <= GroundTime
        BY <1>6, <4>1
      <4>3. QED
        BY <2>8, <3>2, <4>2
    <3>3. QED
      BY <3>1, <3>2
  <2>10. GroundFromStart'
    <3>1. SUFFICES ASSUME NEW r \in ground_alt_filter'
                   PROVE  \/ r - start_time' <= GroundTime + 2
                          \/ set_system_time' /\ r - epoch' - start_time' <= GroundTime + 2
      BY DEF GroundFromStart
    <3>2. r \in held \/ (r = analog /\ elapsed <= GroundTime)
      BY <2>2
    <3>3. QED
      BY <1>2, <1>4, <2>8, <2>9, <3>2
  <2>11. GroundInv'
    BY <1>4, <2>4, <2>10 DEF GroundInv
  <2>12. QED
    BY <1>1, <2>5, <2>6, <2>7, <2>11 DEF AirInv
<1>9. QED
  BY <1>7, <1>8

LEMMA AirStep ==
  ASSUME AirInv, AirNext
  PROVE  AirInv'
<1>1. CASE OtherSection
  <2>1. CASE NextSection
    BY <1>1, <2>1, AirRests, SectionKeepsClock, SectionAdvances, SectionsInOrder
    DEF OtherSection, AirInv, ClockOK
  <2>2. CASE ResetClock
    BY <1>1, <2>2, AirReset DEF OtherSection
  <2>3. QED
    BY <1>1, <2>1, <2>2 DEF OtherSection
<1>2. QED
  BY <1>1, AirRead, AirPilot, AirOld, AirFresh DEF AirNext

LEMMA AirStutters ==
  ASSUME AirInv, UNCHANGED <<clock, airVars>>
  PROVE  AirInv'
<1>1. /\ now' = now /\ epoch' = epoch /\ set_system_time' = set_system_time
      /\ section' = section
  BY DEF clock
<1>2. /\ analog' = analog /\ data_in_timestamp' = data_in_timestamp
      /\ fresh_pilot_data' = fresh_pilot_data
      /\ pilot_stamp' = pilot_stamp /\ driver_last_time' = driver_last_time
      /\ helpers_called' = helpers_called /\ start_time' = start_time
      /\ last_time' = last_time /\ ground_alt_filter' = ground_alt_filter
      /\ agl' = agl /\ readings' = readings
  BY DEF airVars, driverVars, helperVars
<1>3. ClockOK' /\ Ended' = Ended
  BY <1>1 DEF AirInv, ClockOK, ClockTypeOK, Ended
<1>4. AirNumbers'
  BY <1>2 DEF AirInv, AirNumbers
<1>5. PipelineInv'
  BY <1>1, <1>2, <1>3 DEF AirInv, PipelineInv, Past, Late
<1>6. FreshInv'
  BY <1>1, <1>2 DEF AirInv, FreshInv, Stamped
<1>7. GroundInv'
  BY <1>1, <1>2 DEF AirInv, GroundInv, GroundFromStart
<1>8. QED
  BY <1>3, <1>4, <1>5, <1>6, <1>7 DEF AirInv

\* At any moment every reading on its way through the sections carries a stamp of the epoch it
\* was taken in, and what is taken in afresh was taken within the last ticks.
THEOREM Air_Invariant == AirSpec => []AirInv
BY AirStarts, AirStep, AirStutters, PTL DEF AirSpec

LEMMA PipelineDelivers ==
  ASSUME AirInv
  PROVE  AglFollows
BY ClockNumbers DEF AirInv, AirNumbers, PipelineInv, Late, AglFollows

\* The altitude above ground by pressure takes in every reading by its third tick, but for those of
\* the time in which the clock catches up with the ended epoch.
THEOREM Agl_Follows == AirSpec => []AglFollows
BY Air_Invariant, PipelineDelivers, PTL

\* The ground altitude averages readings of the start, by the clock of either epoch.
THEOREM Ground_FromStart == AirSpec => []GroundFromStart
<1>1. AirInv => GroundFromStart
  BY DEF AirInv, GroundInv
<1>2. QED
  BY <1>1, Air_Invariant, PTL

-----------------------------------------------------------------------------
(* The byte parsers: the bytes of a frame *)

Sums == Byte \X Byte

\* Both parts of a joined sequence.
LEMMA JoinedIs ==
  ASSUME NEW S, NEW x \in Seq(S), NEW y \in Seq(S)
  PROVE  /\ x \o y \in Seq(S) /\ Len(x \o y) = Len(x) + Len(y)
         /\ \A i \in 1 .. Len(x) : (x \o y)[i] = x[i]
         /\ \A i \in 1 .. Len(y) : (x \o y)[Len(x) + i] = y[i]
<1>1. /\ x \o y \in Seq(S) /\ Len(x \o y) = Len(x) + Len(y)
      /\ \A i \in 1 .. Len(x) + Len(y) : (x \o y)[i] = IF i <= Len(x) THEN x[i] ELSE y[i - Len(x)]
  BY ConcatProperties
<1>2. Len(x) \in Nat /\ Len(y) \in Nat
  OBVIOUS
<1>3. ASSUME NEW i \in 1 .. Len(y) PROVE (x \o y)[Len(x) + i] = y[i]
  <2>1. Len(x) + i \in 1 .. Len(x) + Len(y) /\ ~ (Len(x) + i <= Len(x)) /\ (Len(x) + i) - Len(x) = i
    BY <1>2
  <2>2. QED
    BY <1>1, <2>1
<1>4. ASSUME NEW i \in 1 .. Len(x) PROVE (x \o y)[i] = x[i]
  <2>1. i \in 1 .. Len(x) + Len(y) /\ i <= Len(x)
    BY <1>2
  <2>2. QED
    BY <1>1, <2>1
<1>5. QED
  BY <1>1, <1>3, <1>4

LEMMA PairIs ==
  ASSUME NEW S, NEW a \in S, NEW b \in S
  PROVE  <<a, b>> \in Seq(S) /\ Len(<<a, b>>) = 2 /\ <<a, b>>[1] = a /\ <<a, b>>[2] = b
OBVIOUS

LEMMA SingleIs ==
  ASSUME NEW S, NEW a \in S
  PROVE  <<a>> \in Seq(S) /\ Len(<<a>>) = 1 /\ <<a>>[1] = a
OBVIOUS

\* A payload that is too long by a round is reduced to the same.
LEMMA ReducedOnce ==
  ASSUME NEW x \in Nat
  PROVE  /\ (x + 256) % 256 = x % 256
         /\ x < 256 => x % 256 = x
         /\ x % 256 \in 0 .. 255
         /\ ((x \div 256) * 256) + (x % 256) = x
OBVIOUS

\* The parser adds up what the device does, one reduction more or less.
LEMMA SumIsDeviceSum ==
  ASSUME NEW c \in Sums, NEW b \in Byte
  PROVE  /\ Sum(c, b) = DeviceSum(c, b)
         /\ DeviceSum(c, b) \in Sums
<1>1. PICK x \in 0 .. 255, y \in 0 .. 255, z \in 0 .. 255 : c = <<x, y>> /\ b = z
  <2>1. c[1] \in Byte /\ c[2] \in Byte /\ c = <<c[1], c[2]>>
    BY DEF Sums
  <2>2. c[1] \in 0 .. 255 /\ c[2] \in 0 .. 255 /\ b \in 0 .. 255
    BY <2>1 DEF Byte
  <2>3. QED
    BY <2>1, <2>2, Zenon
<1>2. (y + ((x + z) % 256)) % 256 = (y + x + z) % 256
  <2>1. PICK a \in Nat : a = x + z
    OBVIOUS
  <2>2. PICK b1 \in Nat : b1 = y + (a % 256)
    BY <2>1, ReducedOnce
  <2>3. PICK c1 \in Nat : c1 = y + x + z
    OBVIOUS
  <2>4. CASE a < 256
    BY <2>1, <2>2, <2>3, <2>4, ReducedOnce
  <2>5. CASE a >= 256
    <3>1. PICK a1 \in Nat : a = a1 + 256 /\ a1 < 256
      <4>1. a - 256 \in Nat /\ a - 256 < 256
        BY <2>1, <2>5
      <4>2. QED
        BY <2>1, <4>1
    <3>2. a % 256 = a1
      BY <3>1, ReducedOnce
    <3>3. c1 = b1 + 256
      BY <2>1, <2>2, <2>3, <3>1, <3>2
    <3>4. c1 % 256 = b1 % 256
      BY <3>3, ReducedOnce
    <3>5. QED
      BY <2>1, <2>2, <2>3, <3>4
  <2>6. QED
    BY <2>1, <2>4, <2>5
<1>3. (x + z) % 256 \in 0 .. 255 /\ (y + x + z) % 256 \in 0 .. 255
  <2>1. x + z \in Nat /\ y + x + z \in Nat
    OBVIOUS
  <2>2. QED
    BY <2>1, ReducedOnce
<1>4. c[1] = x /\ c[2] = y
  BY <1>1
<1>5. Sum(c, b) = <<(x + z) % 256, (y + ((x + z) % 256)) % 256>>
  BY <1>1, <1>4 DEF Sum
<1>6. DeviceSum(c, b) = <<(x + z) % 256, (y + x + z) % 256>>
  BY <1>1, <1>4 DEF DeviceSum
<1>7. QED
  BY <1>2, <1>3, <1>5, <1>6 DEF Sums, Byte

\* The step of DeviceSums().
Summing(bytes) ==
  [p \in Nat \X Sums |-> IF p[1] \in 1 .. Len(bytes) THEN DeviceSum(p[2], bytes[p[1]]) ELSE p[2]]

\* DeviceSums() exists, and is the sums after each byte.
LEMMA DeviceSumsAre ==
  ASSUME NEW bytes \in Seq(Byte)
  PROVE  /\ DeviceSums(bytes)[0] = <<0, 0>>
         /\ \A i \in 1 .. Len(bytes) :
              DeviceSums(bytes)[i] = DeviceSum(DeviceSums(bytes)[i - 1], bytes[i])
         /\ \A i \in 0 .. Len(bytes) : DeviceSums(bytes)[i] \in Sums
<1> DEFINE n == Len(bytes)
           Def(g) == g = [i \in 0 .. n |-> IF i = 0 THEN <<0, 0>> ELSE DeviceSum(g[i - 1], bytes[i])]
<1>1. n \in Nat /\ \A i \in 1 .. n : bytes[i] \in Byte
  OBVIOUS
<1>2. <<0, 0>> \in Sums
  BY DEF Sums, Byte
<1>3. Summing(bytes) \in [Nat \X Sums -> Sums]
  <2>1. ASSUME NEW p \in Nat \X Sums
        PROVE  (IF p[1] \in 1 .. n THEN DeviceSum(p[2], bytes[p[1]]) ELSE p[2]) \in Sums
    BY <1>1, SumIsDeviceSum
  <2>2. QED
    BY <2>1 DEF Summing
<1>4. PICK f \in [0 .. n -> Sums] : Takes(f, n, <<0, 0>>, Summing(bytes))
  BY <1>1, <1>2, <1>3, RecursionUpTo
<1>5. f[0] = <<0, 0>> /\ \A i \in 1 .. n : f[i] = DeviceSum(f[i - 1], bytes[i])
  <2>1. ASSUME NEW i \in 1 .. n PROVE f[i] = DeviceSum(f[i - 1], bytes[i])
    <3>1. i - 1 \in 0 .. n /\ i \in Nat
      OBVIOUS
    <3>2. <<i, f[i - 1]>> \in Nat \X Sums /\ <<i, f[i - 1]>>[1] = i /\ <<i, f[i - 1]>>[2] = f[i - 1]
      BY <3>1
    <3>3. Summing(bytes)[<<i, f[i - 1]>>] = DeviceSum(f[i - 1], bytes[i])
      BY <3>2 DEF Summing
    <3>4. QED
      BY <1>4, <3>3 DEF Takes
  <2>2. QED
    BY <1>4, <2>1 DEF Takes
<1>6. Def(f)
  <2>1. ASSUME NEW i \in 0 .. n
        PROVE  f[i] = IF i = 0 THEN <<0, 0>> ELSE DeviceSum(f[i - 1], bytes[i])
    <3>1. CASE i = 0
      BY <3>1, <1>5
    <3>2. CASE i # 0
      <4>1. i \in 1 .. n
        BY <3>2
      <4>2. QED
        BY <3>2, <4>1, <1>5
    <3>3. QED
      BY <3>1, <3>2
  <2>2. f = [i \in 0 .. n |-> f[i]]
    OBVIOUS
  <2>3. QED
    BY <2>1, <2>2
<1> DEFINE g == CHOOSE g : Def(g)
<1>7. Def(g)
  <2> HIDE DEF Def
  <2>1. QED
    BY <1>6
<1>8. DeviceSums(bytes) = g
  BY DEF DeviceSums
<1>9. g[0] = <<0, 0>> /\ \A i \in 1 .. n : g[i] = DeviceSum(g[i - 1], bytes[i])
  <2>1. ASSUME NEW h, h = [i \in 0 .. n |-> IF i = 0 THEN <<0, 0>> ELSE DeviceSum(h[i - 1], bytes[i])]
        PROVE  h[0] = <<0, 0>> /\ \A i \in 1 .. n : h[i] = DeviceSum(h[i - 1], bytes[i])
    <3>1. \A i \in 0 .. n : h[i] = IF i = 0 THEN <<0, 0>> ELSE DeviceSum(h[i - 1], bytes[i])
      BY <2>1
    <3>2. 0 \in 0 .. n /\ \A i \in 1 .. n : i \in 0 .. n /\ i # 0
      BY <1>1
    <3> HIDE DEF n
    <3>3. QED
      BY <3>1, <3>2
  <2> HIDE DEF g
  <2>2. QED
    BY <1>7, <2>1
<1> HIDE DEF g, Def
<1> DEFINE T == {i \in Nat : i <= n => g[i] \in Sums}
<1>10. 0 \in T
  BY <1>2, <1>9
<1>11. ASSUME NEW i \in Nat, i \in T PROVE i + 1 \in T
  <2>1. CASE i + 1 <= n
    <3>1. g[i] \in Sums
      BY <1>11, <2>1
    <3>2. i + 1 \in 1 .. n /\ (i + 1) - 1 = i
      BY <2>1
    <3>3. g[i + 1] = DeviceSum(g[i], bytes[i + 1]) /\ bytes[i + 1] \in Byte
      BY <1>1, <1>9, <3>2
    <3>4. QED
      BY <3>1, <3>3, SumIsDeviceSum
  <2>2. QED
    BY <2>1
<1>12. \A i \in Nat : i \in T
  <2> HIDE DEF T
  <2>1. QED
    BY <1>10, <1>11, InductiveSet
<1>13. \A i \in 0 .. n : g[i] \in Sums
  BY <1>12
<1>14. QED
  BY <1>8, <1>9, <1>13

\* The two bytes of a length.
LowByte(n)  == n % 256
HighByte(n) == n \div 256

LEMMA LengthIsItsBytes ==
  ASSUME NEW n \in Nat
  PROVE  /\ HighByte(n) * 256 + LowByte(n) = n
         /\ n < 65536 => LowByte(n) \in Byte /\ HighByte(n) \in Byte
<1>1. PICK low \in 0 .. 255, high \in Nat : low = n % 256 /\ high = n \div 256 /\ high * 256 + low = n
  BY ReducedOnce
<1>2. n < 65536 => high \in 0 .. 255
  BY <1>1
<1>3. QED
  BY <1>1, <1>2 DEF LowByte, HighByte, Byte

\* Id and length of a frame.
IsHead(head, d, id, n) ==
  /\ head \in Seq(Byte) /\ Len(head) = HeaderLength(d)
  /\ d = "ublox5" => head[2] = id /\ head[3] = LowByte(n) /\ head[4] = HighByte(n)
  /\ d = "ardupilot" => head[1] = id /\ head[2] = n

LEMMA HeadIs ==
  ASSUME NEW d \in Drivers, NEW id \in Byte, NEW n \in Nat, n < LengthLimit(d),
         NEW head, head = IdBytes(d, id) \o LengthBytes(d, n)
  PROVE  IsHead(head, d, id, n)
<1>1. CASE d = "ublox5"
  <2>1. PICK low \in Byte, high \in Byte : low = LowByte(n) /\ high = HighByte(n)
    BY <1>1, LengthIsItsBytes DEF LengthLimit
  <2>2. IdBytes(d, id) = <<1, id>> /\ LengthBytes(d, n) = <<low, high>> /\ HeaderLength(d) = 4
    BY <1>1, <2>1 DEF IdBytes, LengthBytes, HeaderLength, LowByte, HighByte
  <2>3. PICK x \in Seq(Byte) : x = <<1, id>> /\ Len(x) = 2 /\ x[2] = id
    <3>1. 1 \in Byte
      BY DEF Byte
    <3>2. <<1, id>> \in Seq(Byte) /\ Len(<<1, id>>) = 2 /\ <<1, id>>[1] = 1 /\ <<1, id>>[2] = id
      BY <3>1, PairIs, Zenon
    <3>3. QED
      BY <3>2, Zenon
  <2>4. PICK y \in Seq(Byte) : y = <<low, high>> /\ Len(y) = 2 /\ y[1] = low /\ y[2] = high
    <3>1. /\ <<low, high>> \in Seq(Byte) /\ Len(<<low, high>>) = 2
          /\ <<low, high>>[1] = low /\ <<low, high>>[2] = high
      BY PairIs, Zenon
    <3>2. QED
      BY <3>1, Zenon
  <2>5. /\ x \o y \in Seq(Byte) /\ Len(x \o y) = Len(x) + Len(y)
        /\ \A i \in 1 .. Len(x) : (x \o y)[i] = x[i]
        /\ \A i \in 1 .. Len(y) : (x \o y)[Len(x) + i] = y[i]
    BY JoinedIs
  <2>6. head = x \o y
    BY <2>2, <2>3, <2>4
  <2>7. head[2] = x[2] /\ head[3] = y[1] /\ head[4] = y[2] /\ Len(head) = 4
    BY <2>3, <2>4, <2>5, <2>6
  <2>8. QED
    BY <1>1, <2>1, <2>2, <2>3, <2>4, <2>5, <2>6, <2>7 DEF IsHead
<1>2. CASE d = "ardupilot"
  <2>1. n \in Byte
    BY <1>2 DEF Byte, LengthLimit
  <2>2. IdBytes(d, id) = <<id>> /\ LengthBytes(d, n) = <<n>> /\ HeaderLength(d) = 2
    BY <1>2 DEF IdBytes, LengthBytes, HeaderLength
  <2>3. PICK x \in Seq(Byte) : x = <<id>> /\ Len(x) = 1 /\ x[1] = id
    BY SingleIs
  <2>4. PICK y \in Seq(Byte) : y = <<n>> /\ Len(y) = 1 /\ y[1] = n
    BY <2>1, SingleIs
  <2>5. /\ x \o y \in Seq(Byte) /\ Len(x \o y) = Len(x) + Len(y)
        /\ \A i \in 1 .. Len(x) : (x \o y)[i] = x[i]
        /\ \A i \in 1 .. Len(y) : (x \o y)[Len(x) + i] = y[i]
    BY JoinedIs
  <2>6. head = x \o y
    BY <2>2, <2>3, <2>4
  <2>7. head[1] = x[1] /\ head[2] = y[1] /\ Len(head) = 2
    BY <2>3, <2>4, <2>5, <2>6
  <2>8. QED
    BY <1>2, <2>2, <2>3, <2>4, <2>5, <2>6, <2>7 DEF IsHead
<1>3. QED
  BY <1>1, <1>2 DEF Drivers, IsHead

\* What a frame consists of: m.payload has n bytes, the head h.
IsFrame(m, d, h, n, covered, f) ==
  /\ h \in {2, 4} /\ n \in Nat \ {0} /\ m.payload \in Seq(Byte)
  /\ covered \in Seq(Byte) /\ Len(covered) = h + n
  /\ f \in Seq(Byte) /\ Len(f) = h + n + 4
  /\ f[1] = Sync(d)[1] /\ f[2] = Sync(d)[2]
  /\ \A i \in 1 .. h + n : f[i + 2] = covered[i]
  /\ f[h + n + 3] = DeviceSums(covered)[h + n][1]
  /\ f[h + n + 4] = DeviceSums(covered)[h + n][2]
  /\ \A i \in 1 .. n : covered[h + i] = m.payload[i]

LEMMA FrameIs ==
  ASSUME NEW d \in Drivers, NEW m \in Sendable(d),
         NEW h, h = HeaderLength(d), NEW n, n = Len(m.payload),
         NEW covered, covered = Covered(d, m), NEW f, f = Encode(d, m)
  PROVE  IsFrame(m, d, h, n, covered, f)
<1> DEFINE head == IdBytes(d, m.id) \o LengthBytes(d, n)
           s == DeviceSums(covered)[h + n]
           last == <<s[1], s[2]>>
<1>1. m.id \in Byte /\ m.payload \in Seq(Byte) /\ m.payload # << >> /\ n < LengthLimit(d)
  BY MessagesAssumption DEF Sendable
<1>2. n \in Nat \ {0} /\ h \in {2, 4}
  BY <1>1 DEF HeaderLength
<1>3. head \in Seq(Byte) /\ Len(head) = h
  <2>1. n \in Nat /\ head = IdBytes(d, m.id) \o LengthBytes(d, n)
    BY <1>2
  <2> HIDE DEF head
  <2>2. QED
    <3>1. IsHead(head, d, m.id, n)
      BY <1>1, <2>1, HeadIs
    <3>2. QED
      BY <3>1 DEF IsHead
<1>4. covered = head \o m.payload
  BY DEF Covered
<1> HIDE DEF head
<1>5. /\ covered \in Seq(Byte) /\ Len(covered) = h + n
      /\ \A i \in 1 .. n : covered[h + i] = m.payload[i]
  <2>1. /\ covered \in Seq(Byte) /\ Len(covered) = Len(head) + Len(m.payload)
        /\ \A i \in 1 .. Len(m.payload) : covered[Len(head) + i] = m.payload[i]
    <3>1. /\ head \o m.payload \in Seq(Byte)
          /\ Len(head \o m.payload) = Len(head) + Len(m.payload)
          /\ \A i \in 1 .. Len(m.payload) : (head \o m.payload)[Len(head) + i] = m.payload[i]
      <4>1. head \in Seq(Byte) /\ m.payload \in Seq(Byte)
        BY <1>1, <1>3
      <4>2. QED
        BY <4>1, JoinedIs
    <3>2. QED
      BY <1>4, <3>1
  <2>2. QED
    BY <1>3, <2>1
<1>6. s \in Sums
  <2>1. h + n \in 0 .. Len(covered)
    BY <1>2, <1>5
  <2>2. QED
    BY <1>5, <2>1, DeviceSumsAre
<1>7. f = Sync(d) \o covered \o last
  BY <1>5 DEF Encode
<1>8. PICK sync \in Seq(Byte) : sync = Sync(d) /\ Len(sync) = 2
  <2>1. <<181, 98>> \in Seq(Byte) /\ <<147, 224>> \in Seq(Byte)
    BY DEF Byte
  <2>2. Sync(d) \in Seq(Byte) /\ Len(Sync(d)) = 2
    BY <2>1 DEF Sync
  <2>3. QED
    BY <2>2
<1>9. last \in Seq(Byte) /\ Len(last) = 2 /\ last[1] = s[1] /\ last[2] = s[2]
  BY <1>6 DEF Sums
<1> HIDE DEF s, last
<1>10. PICK y : y = sync \o covered
  OBVIOUS
<1>11. /\ y \in Seq(Byte) /\ Len(y) = 2 + (h + n) /\ \A i \in 1 .. 2 : y[i] = sync[i]
       /\ \A i \in 1 .. h + n : y[2 + i] = covered[i]
  <2>1. /\ y \in Seq(Byte) /\ Len(y) = Len(sync) + Len(covered)
        /\ \A i \in 1 .. Len(sync) : y[i] = sync[i]
        /\ \A i \in 1 .. Len(covered) : y[Len(sync) + i] = covered[i]
    BY <1>5, <1>10, JoinedIs
  <2>2. QED
    BY <1>5, <1>8, <2>1
<1>12. /\ f \in Seq(Byte) /\ Len(f) = (2 + (h + n)) + 2
       /\ \A i \in 1 .. 2 + (h + n) : f[i] = y[i]
       /\ \A i \in 1 .. 2 : f[(2 + (h + n)) + i] = last[i]
  <2>1. f = y \o last
    BY <1>7, <1>8, <1>10
  <2>2. /\ f \in Seq(Byte) /\ Len(f) = Len(y) + Len(last)
        /\ \A i \in 1 .. Len(y) : f[i] = y[i]
        /\ \A i \in 1 .. Len(last) : f[Len(y) + i] = last[i]
    <3>1. y \in Seq(Byte) /\ last \in Seq(Byte)
      BY <1>9, <1>11
    <3>2. QED
      BY <2>1, <3>1, JoinedIs
  <2>3. QED
    BY <1>9, <1>11, <2>2
<1>13. f[(2 + (h + n)) + 1] = last[1] /\ f[(2 + (h + n)) + 2] = last[2]
  BY <1>12
<1>14. f[1] = sync[1] /\ f[2] = sync[2] /\ \A i \in 1 .. h + n : f[i + 2] = covered[i]
  <2>1. ASSUME NEW i \in 1 .. h + n PROVE f[i + 2] = covered[i]
    <3>1. 2 + i \in 1 .. 2 + (h + n) /\ i + 2 = 2 + i
      BY <1>2
    <3>2. f[2 + i] = y[2 + i]
      BY <1>12, <3>1
    <3>3. QED
      BY <1>11, <3>1, <3>2
  <2>2. 1 \in 1 .. 2 + (h + n) /\ 2 \in 1 .. 2 + (h + n)
    BY <1>2
  <2>3. QED
    BY <1>11, <1>12, <2>1, <2>2
<1>15. /\ Len(f) = h + n + 4 /\ f[h + n + 3] = s[1] /\ f[h + n + 4] = s[2]
  <2>1. (2 + (h + n)) + 2 = h + n + 4 /\ (2 + (h + n)) + 1 = h + n + 3
    BY <1>2
  <2>2. QED
    BY <1>9, <1>12, <1>13, <2>1
<1>16. QED
  BY <1>1, <1>2, <1>5, <1>8, <1>12, <1>14, <1>15 DEF s, IsFrame

\* What the header of a frame says.
LEMMA HeaderSays ==
  ASSUME driver \in Drivers, NEW m \in Sendable(driver), NEW hd \in Seq(Byte),
         Len(hd) = HeaderLength(driver),
         \A i \in DOMAIN hd : hd[i] = Covered(driver, m)[i]
  PROVE  Id(hd) = m.id /\ PayloadLength(hd) = Len(m.payload)
<1> DEFINE n == Len(m.payload)
           head == IdBytes(driver, m.id) \o LengthBytes(driver, n)
<1>1. m.id \in Byte /\ m.payload \in Seq(Byte) /\ n \in Nat
  BY MessagesAssumption DEF Sendable
<1>2. Covered(driver, m) = head \o m.payload
  BY DEF Covered
<1> HIDE DEF n
<1>3. /\ head \in Seq(Byte) /\ Len(head) = HeaderLength(driver)
      /\ driver = "ublox5" => head[2] = m.id /\ head[3] = LowByte(n) /\ head[4] = HighByte(n)
      /\ driver = "ardupilot" => head[1] = m.id /\ head[2] = n
  <2>1. n < LengthLimit(driver)
    BY DEF Sendable, n
  <2>2. QED
    <3>1. head = IdBytes(driver, m.id) \o LengthBytes(driver, n)
      OBVIOUS
    <3> HIDE DEF head
    <3>2. QED
      <4>1. IsHead(head, driver, m.id, n)
        BY <1>1, <2>1, <3>1, HeadIs
      <4>2. QED
        BY <4>1 DEF IsHead
<1> HIDE DEF head
<1>4. \A i \in 1 .. HeaderLength(driver) : hd[i] = head[i]
  <2>1. PICK k \in Nat : k = HeaderLength(driver)
    BY DEF HeaderLength
  <2>2. \A i \in 1 .. k : Covered(driver, m)[i] = head[i]
    <3>1. \A i \in 1 .. Len(head) : (head \o m.payload)[i] = head[i]
      BY <1>1, <1>3, JoinedIs
    <3>2. QED
      BY <1>2, <1>3, <2>1, <3>1
  <2>3. DOMAIN hd = 1 .. k
    BY <2>1
  <2>4. QED
    BY <2>1, <2>2, <2>3
<1>5. CASE driver = "ublox5"
  <2>1. hd[2] = m.id /\ hd[3] = LowByte(n) /\ hd[4] = HighByte(n)
    BY <1>3, <1>4, <1>5 DEF HeaderLength
  <2>2. HighByte(n) * 256 + LowByte(n) = n
    BY <1>1, LengthIsItsBytes
  <2>3. QED
    BY <1>5, <2>1, <2>2 DEF Id, PayloadLength, n
<1>6. CASE driver = "ardupilot"
  <2>1. hd[1] = m.id /\ hd[2] = n
    BY <1>3, <1>4, <1>6 DEF HeaderLength
  <2>2. QED
    BY <1>6, <2>1 DEF Id, PayloadLength, n
<1>7. QED
  BY <1>5, <1>6 DEF Drivers

\* What was read of the header and the payload is the message's; an array on the stack
\* may have lost it.
HeaderIsOf(m) == \A i \in DOMAIN header : header[i] = Covered(driver, m)[i]

PayloadIsOf(m) ==
  \/ driver = "ublox5" /\ split
  \/ \A i \in DOMAIN payload : payload[i] = m.payload[i]

\* The parser has read p bytes of the frame of m, and knows it.
StageAt(m, p) ==
  LET h == HeaderLength(driver)
      n == Len(m.payload)
      sums == DeviceSums(Covered(driver, m))
  IN
  \/ p = 0 /\ state \in {"sync0", "sync1"}
  \/ p = 1 /\ state = "sync1"
  \/ /\ p \in 2 .. h + 1 /\ state = "header"
     /\ Len(header) = p - 2 /\ HeaderIsOf(m) /\ cksum = sums[p - 2]
  \/ /\ p \in h + 2 .. h + n + 1 /\ state = "payload"
     /\ Len(header) = h /\ HeaderIsOf(m) /\ cksum = sums[p - 2]
     /\ Len(payload) = p - 2 - h /\ PayloadIsOf(m)
  \/ /\ \/ p = h + n + 2 /\ state = "cksum_A"
        \/ p = h + n + 3 /\ state = "cksum_B" /\ cksum_lo = sums[h + n][1]
     /\ Len(header) = h /\ HeaderIsOf(m) /\ cksum = sums[h + n]
     /\ Len(payload) = n /\ PayloadIsOf(m)

\* What is left on the line is the rest of the frame, and the parser knows where it is.
InStep(m) ==
  IF out = << >> THEN state = "sync0"
  ELSE LET f == Encode(driver, m)
           p == Len(f) - Len(out)
       IN  /\ \A i \in DOMAIN out : out[i] = f[p + i]
           /\ StageAt(m, p)

\* What was not read yet is not there.
Clean ==
  /\ state \in {"sync0", "sync1"} => header = << >> /\ cksum = <<0, 0>>
  /\ state \in {"sync0", "sync1", "header"} => payload = << >>
  /\ state = "header" => Len(header) < HeaderLength(driver)

Whole == sent # << >> /\ Len(sent) \notin Spoilt \cup out_of_step

\* Until a frame has come it is not parsed.
InThePast ==
  out # << >> => \A i \in DOMAIN accepted : accepted[i].place = 0 \/ accepted[i].place < Len(sent)

FrameInv ==
  /\ TypeOK
  /\ Clean
  /\ sent = << >> /\ hurt = {} => out = << >> /\ state = "sync0"
  /\ Whole => InStep(sent[Len(sent)])
  /\ \A k \in out_of_step : \E j \in Spoilt : j < k
  /\ FramesArrive
  /\ InThePast

-----------------------------------------------------------------------------
(* The byte parsers: the line and the parser agree *)

LEMMA HeaderLengthIs ==
  HeaderLength(driver) \in {2, 4}
BY DEF HeaderLength

\* The messages sent and the places of their frames.
LEMMA SentIs ==
  ASSUME TypeOK
  PROVE  /\ driver \in Drivers
         /\ Len(sent) \in Nat
         /\ \A k \in 1 .. Len(sent) : sent[k] \in Sendable(driver)
         /\ sent # << >> => Len(sent) \in 1 .. Len(sent)
         /\ hurt \subseteq 0 .. Len(sent)
         /\ Spoilt \subseteq 0 .. Len(sent)
         /\ out_of_step \subseteq 1 .. Len(sent)
<1>1. driver \in Drivers /\ sent \in Seq(Sendable(driver)) /\ hurt \subseteq 0 .. Len(sent)
      /\ out_of_step \subseteq 1 .. Len(sent)
  BY DEF TypeOK
<1>2. Len(sent) \in Nat /\ DOMAIN sent = 1 .. Len(sent)
      /\ \A k \in 1 .. Len(sent) : sent[k] \in Sendable(driver)
  BY <1>1
<1>3. sent # << >> => Len(sent) \in 1 .. Len(sent)
  BY <1>1
<1>4. \A k \in 1 .. Len(sent) : k \in 0 .. Len(sent)
  BY <1>2
<1>5. Spoilt \subseteq 0 .. Len(sent)
  BY <1>1, <1>2, <1>4 DEF Spoilt
<1>6. QED
  BY <1>1, <1>2, <1>3, <1>5

\* A byte is read.
LEMMA ReadIs ==
  ASSUME TypeOK, Read
  PROVE  /\ out \in Seq(Byte) /\ Len(out) \in Nat \ {0}
         /\ Input = out[1] /\ Input \in Byte
         /\ out' \in Seq(Byte) /\ Len(out') = Len(out) - 1
         /\ \A i \in DOMAIN out' : i + 1 \in DOMAIN out /\ out'[i] = out[i + 1]
         /\ out' = << >> <=> Len(out) = 1
<1>1. out \in Seq(Byte) /\ out # << >> /\ out' = Tail(out)
  BY DEF TypeOK, Read
<1>2. Len(out) \in Nat \ {0} /\ 1 \in DOMAIN out
  BY <1>1
<1>3. out' \in Seq(Byte) /\ Len(out') = Len(out) - 1
  BY <1>1
<1>4. \A i \in 1 .. Len(out) - 1 : out'[i] = out[i + 1]
  BY <1>1
<1>5. DOMAIN out' = 1 .. Len(out) - 1 /\ DOMAIN out = 1 .. Len(out)
  BY <1>1, <1>3
<1>6. ASSUME NEW i \in DOMAIN out' PROVE i + 1 \in DOMAIN out /\ out'[i] = out[i + 1]
  BY <1>2, <1>4, <1>5
<1>7. out' = << >> <=> Len(out) = 1
  BY <1>2, <1>3
<1>8. Input = out[1] /\ Input \in Byte
  BY <1>1, <1>2 DEF Input
<1>9. QED
  BY <1>1, <1>2, <1>3, <1>6, <1>7, <1>8

\* What stays when only bytes are read and frames are handed on.
LEMMA ReadKeeps ==
  ASSUME FrameInv, Read, TypeOK', Clean',
         Len(accepted) <= Len(accepted'), \A i \in DOMAIN accepted : accepted'[i] = accepted[i],
         InThePast',
         Whole => InStep(sent[Len(sent)])' /\ (out' = << >> => Parsed(Len(sent))')
  PROVE  FrameInv'
<1>1. /\ driver' = driver /\ sent' = sent /\ hurt' = hurt /\ out_of_step' = out_of_step
      /\ out # << >> /\ TypeOK
  BY DEF Read, FrameInv
<1>2. Spoilt' = Spoilt
  BY <1>1 DEF Spoilt, Oversize
<1>3. Whole' <=> Whole
  BY <1>1, <1>2 DEF Whole
<1>4. (sent = << >> /\ hurt = {} => out = << >> /\ state = "sync0")'
  BY <1>1 DEF FrameInv
<1>5. (Whole => InStep(sent[Len(sent)]))'
  BY <1>3
<1>6. (\A k \in out_of_step : \E j \in Spoilt : j < k)'
  BY <1>1, <1>2 DEF FrameInv
<1>7. \A i \in DOMAIN accepted : i \in DOMAIN accepted'
  BY DEF TypeOK, FrameInv
<1>8. \A k : Parsed(k) => Parsed(k)'
  BY <1>1, <1>7 DEF Parsed, Answers
<1>9. FramesArrive'
  <2>1. SUFFICES ASSUME NEW k \in Gone'
        PROVE  (Parsed(k) \/ k \in Spoilt \/ (k \in out_of_step /\ \E j \in Spoilt : j < k))'
    BY DEF FramesArrive
  <2>2. Len(sent) \in Nat
    BY <1>1, SentIs
  <2>3. k \in Gone \/ (out' = << >> /\ k = Len(sent) /\ sent # << >>)
    BY <1>1, <2>2 DEF Gone
  <2>4. CASE k \in Gone
    <3>1. Parsed(k) \/ k \in Spoilt \/ (k \in out_of_step /\ \E j \in Spoilt : j < k)
      BY <2>4 DEF FrameInv, FramesArrive
    <3>2. QED
      BY <1>1, <1>2, <1>8, <3>1
  <2>5. CASE out' = << >> /\ k = Len(sent) /\ sent # << >>
    <3>1. CASE Whole
      BY <1>1, <2>5, <3>1
    <3>2. CASE ~ Whole
      BY <1>1, <1>2, <2>5, <3>2 DEF Whole, FrameInv
    <3>3. QED
      BY <3>1, <3>2
  <2>6. QED
    BY <2>3, <2>4, <2>5
<1>10. QED
  BY <1>4, <1>5, <1>6, <1>9 DEF FrameInv

\* A sequence is one of any larger set.
LEMMA SeqOfMore ==
  ASSUME NEW S, NEW T, S \subseteq T, NEW s \in Seq(S)
  PROVE  s \in Seq(T)
OBVIOUS

LEMMA FrameHas ==
  ASSUME NEW d \in Drivers, NEW m \in Sendable(d)
  PROVE  IsFrame(m, d, HeaderLength(d), Len(m.payload), Covered(d, m), Encode(d, m))
BY FrameIs

LEMMA EncodeIs ==
  ASSUME NEW d \in Drivers, NEW m \in Sendable(d)
  PROVE  Encode(d, m) \in Seq(Byte) /\ Encode(d, m) # << >> /\ Len(Encode(d, m)) \in Nat \ {0}
<1>1. PICK h, n, covered, f : h = HeaderLength(d) /\ n = Len(m.payload) /\ covered = Covered(d, m)
                              /\ f = Encode(d, m)
  OBVIOUS
<1>2. IsFrame(m, d, h, n, covered, f)
  BY <1>1, FrameHas
<1>3. h \in {2, 4} /\ n \in Nat \ {0} /\ f \in Seq(Byte) /\ Len(f) = h + n + 4
  BY <1>2 DEF IsFrame
<1>4. f # << >> /\ Len(f) \in Nat \ {0}
  BY <1>3
<1>5. QED
  BY <1>1, <1>3, <1>4

LEMMA AcceptedIs ==
  ASSUME TypeOK
  PROVE  \A i \in DOMAIN accepted :
           /\ accepted[i].place \in 0 .. Len(sent) /\ accepted[i].split \in BOOLEAN
           /\ accepted[i].payload \in Seq(Byte \cup {Garbage})
<1> DEFINE Records == [place : 0 .. Len(sent), payload : Seq(Byte \cup {Garbage}), split : BOOLEAN]
<1>1. accepted \in Seq(Records)
  BY DEF TypeOK
<1>2. ASSUME NEW i \in DOMAIN accepted PROVE accepted[i] \in Records
  <2> HIDE DEF Records
  <2>1. QED
    BY <1>1
<1>3. QED
  BY <1>2

\* The line at rest: what is parsed stays, and no frame comes or goes.
LEMMA LineKeeps ==
  ASSUME FrameInv, UNCHANGED lineVars, UNCHANGED accepted, TypeOK', Clean',
         state = "sync0" => state' = "sync0",
         Whole => InStep(sent[Len(sent)])'
  PROVE  FrameInv'
<1>1. /\ driver' = driver /\ sent' = sent /\ hurt' = hurt /\ out_of_step' = out_of_step
      /\ out' = out /\ accepted' = accepted
  BY DEF lineVars
<1>2. Spoilt' = Spoilt /\ Gone' = Gone
  BY <1>1 DEF Spoilt, Oversize, Gone
<1>3. Whole' <=> Whole
  BY <1>1, <1>2 DEF Whole
<1>4. (sent = << >> /\ hurt = {} => out = << >> /\ state = "sync0")'
  BY <1>1 DEF FrameInv
<1>5. (Whole => InStep(sent[Len(sent)]))'
  BY <1>3
<1>6. (\A k \in out_of_step : \E j \in Spoilt : j < k)'
  BY <1>1, <1>2 DEF FrameInv
<1>7. FramesArrive'
  BY <1>1, <1>2 DEF FrameInv, FramesArrive, Parsed, Answers
<1>8. InThePast'
  BY <1>1 DEF FrameInv, InThePast
<1>9. QED
  BY <1>4, <1>5, <1>6, <1>7, <1>8 DEF FrameInv

LEMMA InitHolds ==
  ASSUME Init
  PROVE  FrameInv
<1>1. /\ sent = << >> /\ accepted = << >> /\ out_of_step = {} /\ state = "sync0"
      /\ header = << >> /\ payload = << >> /\ cksum = <<0, 0>> /\ cksum_lo = 0
      /\ driver \in Drivers /\ split = FALSE /\ calling = FALSE /\ losses = 0
      /\ hurt = IF out = << >> THEN {} ELSE {0}
  BY DEF Init
<1>2. out \in Seq(Byte)
  <2>1. PICK m \in Sendable(driver) : out \in Suffixes(Tail(Encode(driver, m)))
    BY DEF Init
  <2>2. PICK f \in Seq(Byte) : f = Encode(driver, m) /\ f # << >>
    BY <1>1, <2>1, EncodeIs
  <2>3. PICK t \in Seq(Byte) : t = Tail(f)
    <3>1. Tail(f) \in Seq(Byte)
      BY <2>2
    <3>2. QED
      BY <3>1
  <2>4. out \in Suffixes(t)
    BY <2>1, <2>2, <2>3
  <2>5. << >> \in Seq(Byte) /\ \A l \in 1 .. Len(t) : SubSeq(t, l, Len(t)) \in Seq(Byte)
    OBVIOUS
  <2>6. QED
    BY <2>4, <2>5 DEF Suffixes
<1>3. TypeOK
  <2>1. << >> \in Seq(Sendable(driver)) /\ << >> \in Seq(Byte) /\ << >> \in Seq(Byte \cup {Garbage})
        /\ << >> \in Seq([place : 0 .. 0, payload : Seq(Byte \cup {Garbage}), split : BOOLEAN])
        /\ Len(<< >>) = 0
    OBVIOUS
  <2>2. MaxFrames \in Nat /\ MaxLosses \in Nat
    BY BoundsAssumption
  <2>3. HeaderLength(driver) \in {2, 4}
    BY HeaderLengthIs
  <2>4. <<0, 0>> \in Byte \X Byte /\ 0 \in Byte
    BY DEF Byte
  <2>5. 0 <= MaxFrames /\ 0 \in 0 .. MaxLosses /\ 0 <= HeaderLength(driver)
    BY <2>2, <2>3
  <2>6. hurt \subseteq 0 .. 0 /\ {} \subseteq 1 .. 0
    BY <1>1
  <2>7. sent \in Seq(Sendable(driver)) /\ Len(sent) = 0 /\ Len(header) = 0
        /\ header \in Seq(Byte) /\ payload \in Seq(Byte \cup {Garbage})
        /\ accepted \in Seq([place : 0 .. Len(sent), payload : Seq(Byte \cup {Garbage}), split : BOOLEAN])
    BY <1>1, <2>1
  <2>8. QED
    BY <1>1, <1>2, <2>2, <2>4, <2>5, <2>6, <2>7 DEF TypeOK, ParserStates
<1>4. Clean
  <2>1. Len(<< >>) = 0
    OBVIOUS
  <2>2. QED
    BY <1>1, HeaderLengthIs DEF Clean
<1>5. ~ Whole
  BY <1>1 DEF Whole
<1>6. FramesArrive
  <2>1. Gone = {}
    BY <1>1 DEF Gone
  <2>2. QED
    BY <2>1 DEF FramesArrive
<1>7. InThePast
  BY <1>1 DEF InThePast
<1>8. QED
  BY <1>1, <1>3, <1>4, <1>5, <1>6, <1>7 DEF FrameInv

LEMMA SendKeeps ==
  ASSUME FrameInv, NEW m \in Sendable(driver), Send(m)
  PROVE  FrameInv'
<1> DEFINE L == Len(sent)
<1>1. /\ out = << >> /\ L < MaxFrames /\ sent' = Append(sent, m) /\ out' = Encode(driver, m)
      /\ driver' = driver /\ losses' = losses /\ hurt' = hurt /\ calling' = calling
      /\ accepted' = accepted
      /\ state' = state /\ header' = header /\ cksum' = cksum /\ cksum_lo' = cksum_lo
      /\ payload' = payload /\ split' = split
  BY DEF Send, parserVars
<1>2. out_of_step' = IF state \in {"sync0", "sync1"} THEN out_of_step
                     ELSE out_of_step \cup {Len(sent')}
  BY DEF Send
<1>3. TypeOK /\ driver \in Drivers /\ L \in Nat /\ sent \in Seq(Sendable(driver))
      /\ hurt \subseteq 0 .. L /\ out_of_step \subseteq 1 .. L /\ Spoilt \subseteq 0 .. L
  BY SentIs DEF FrameInv, TypeOK
<1>4. /\ sent' \in Seq(Sendable(driver)) /\ Len(sent') = L + 1 /\ sent'[L + 1] = m
      /\ \A k \in 1 .. L : sent'[k] = sent[k]
      /\ DOMAIN sent = 1 .. L /\ DOMAIN sent' = 1 .. L + 1
      /\ sent' # << >> /\ (sent = << >> => L = 0)
  BY <1>1, <1>3
<1>5. out' \in Seq(Byte) /\ Len(out') \in Nat \ {0} /\ out' # << >>
  BY <1>1, <1>3, EncodeIs
<1>6. \A k \in Spoilt : k \in Spoilt'
  BY <1>1, <1>4 DEF Spoilt, Oversize
<1>7. TypeOK'
  <2>1. accepted \in Seq([place : 0 .. L, payload : Seq(Byte \cup {Garbage}), split : BOOLEAN])
    BY <1>3 DEF TypeOK
  <2>2. [place : 0 .. L, payload : Seq(Byte \cup {Garbage}), split : BOOLEAN] \subseteq
          [place : 0 .. L + 1, payload : Seq(Byte \cup {Garbage}), split : BOOLEAN]
    <3>1. 0 .. L \subseteq 0 .. L + 1
      BY <1>3
    <3>2. QED
      BY <3>1
  <2>3. accepted' \in Seq([place : 0 .. L + 1, payload : Seq(Byte \cup {Garbage}), split : BOOLEAN])
    BY <1>1, <2>1, <2>2, SeqOfMore
  <2>4. L + 1 <= MaxFrames
    BY <1>1, <1>3, BoundsAssumption
  <2>5. hurt \subseteq 0 .. L + 1 /\ out_of_step' \subseteq 1 .. L + 1
    <3>1. 0 .. L \subseteq 0 .. L + 1 /\ 1 .. L \subseteq 1 .. L + 1 /\ L + 1 \in 1 .. L + 1
      BY <1>3
    <3>2. QED
      BY <1>2, <1>3, <1>4, <3>1
  <2>6. Sendable(driver)' = Sendable(driver) /\ HeaderLength(driver)' = HeaderLength(driver)
    BY <1>1
  <2>7. /\ losses \in 0 .. MaxLosses /\ calling \in BOOLEAN /\ state \in ParserStates
        /\ header \in Seq(Byte) /\ Len(header) <= HeaderLength(driver)
        /\ cksum \in Byte \X Byte /\ cksum_lo \in Byte
        /\ payload \in Seq(Byte \cup {Garbage}) /\ split \in BOOLEAN
    BY <1>3 DEF TypeOK
  <2>8. QED
    BY <1>1, <1>3, <1>4, <1>5, <2>3, <2>4, <2>5, <2>6, <2>7 DEF TypeOK
<1>8. Clean'
  BY <1>1 DEF FrameInv, Clean
<1>9. (sent = << >> /\ hurt = {} => out = << >> /\ state = "sync0")'
  BY <1>4
<1>10. (Whole => InStep(sent[Len(sent)]))'
  <2>1. SUFFICES ASSUME Whole' PROVE InStep(m)'
    BY <1>4
  <2>2. state \in {"sync0", "sync1"}
    BY <1>2, <2>1 DEF Whole
  <2>3. Len(out') - Len(out') = 0
    BY <1>5
  <2>4. \A i \in DOMAIN out' : 0 + i = i
    BY <1>5
  <2>5. StageAt(m, 0)'
    BY <1>1, <2>2 DEF StageAt
  <2>6. Encode(driver, m)' = out'
    BY <1>1
  <2>7. QED
    BY <1>5, <2>3, <2>4, <2>5, <2>6 DEF InStep
<1>11. (\A k \in out_of_step : \E j \in Spoilt : j < k)'
  <2>1. SUFFICES ASSUME NEW k \in out_of_step' PROVE \E j \in Spoilt' : j < k
    OBVIOUS
  <2>2. CASE k \in out_of_step
    BY <1>6, <2>2 DEF FrameInv
  <2>3. CASE k \notin out_of_step
    <3>1. k = L + 1 /\ state # "sync0"
      BY <1>2, <1>4, <2>3
    <3>2. \E j \in Spoilt : j < L + 1
      <4>1. CASE sent = << >>
        <5>1. hurt # {}
          BY <1>3, <3>1, <4>1 DEF FrameInv
        <5>2. PICK j \in hurt : TRUE
          BY <5>1
        <5>3. j \in Spoilt
          BY DEF Spoilt
        <5>4. QED
          BY <1>3, <5>3
      <4>2. CASE sent # << >> /\ Whole
        BY <1>1, <3>1, <4>2 DEF FrameInv, InStep
      <4>3. CASE sent # << >> /\ L \in Spoilt
        BY <1>3, <4>3
      <4>4. CASE sent # << >> /\ L \in out_of_step
        <5>1. PICK j \in Spoilt : j < L
          BY <4>4 DEF FrameInv
        <5>2. j \in 0 .. L
          BY <1>3
        <5>3. QED
          BY <1>3, <5>1, <5>2
      <4>5. QED
        BY <4>1, <4>2, <4>3, <4>4 DEF Whole
    <3>3. QED
      BY <1>6, <3>1, <3>2
  <2>4. QED
    BY <2>2, <2>3
<1>12. FramesArrive'
  <2>1. Gone' = 1 .. L /\ Gone = 1 .. L
    BY <1>1, <1>3, <1>4, <1>5 DEF Gone
  <2>2. SUFFICES ASSUME NEW k \in 1 .. L
        PROVE  (Parsed(k) \/ k \in Spoilt \/ (k \in out_of_step /\ \E j \in Spoilt : j < k))'
    BY <2>1 DEF FramesArrive
  <2>3. Parsed(k) \/ k \in Spoilt \/ (k \in out_of_step /\ \E j \in Spoilt : j < k)
    BY <2>1 DEF FrameInv, FramesArrive
  <2>4. Parsed(k) => Parsed(k)'
    BY <1>1, <1>4 DEF Parsed, Answers
  <2>5. k \in out_of_step => k \in out_of_step'
    BY <1>2
  <2>6. QED
    BY <1>6, <2>3, <2>4, <2>5
<1>13. InThePast'
  <2>1. \A i \in DOMAIN accepted : accepted[i].place \in 0 .. L
    BY <1>3, AcceptedIs
  <2>2. QED
    BY <1>1, <1>3, <1>4, <2>1 DEF InThePast
<1>14. QED
  BY <1>7, <1>8, <1>9, <1>10, <1>11, <1>12, <1>13 DEF FrameInv

LEMMA LoseKeeps ==
  ASSUME FrameInv, Lose
  PROVE  FrameInv'
<1> DEFINE L == Len(sent)
<1>1. /\ out # << >> /\ losses < MaxLosses /\ out' = Tail(out) /\ losses' = losses + 1
      /\ hurt' = hurt \cup {L} /\ driver' = driver /\ sent' = sent /\ out_of_step' = out_of_step
      /\ calling' = calling /\ accepted' = accepted
      /\ state' = state /\ header' = header /\ cksum' = cksum /\ cksum_lo' = cksum_lo
      /\ payload' = payload /\ split' = split
  BY DEF Lose, parserVars
<1>2. TypeOK /\ L \in Nat /\ hurt \subseteq 0 .. L
  BY SentIs DEF FrameInv
<1>3. L \in Spoilt' /\ \A k \in Spoilt : k \in Spoilt'
  BY <1>1 DEF Spoilt, Oversize
<1>4. TypeOK'
  <2>1. out' \in Seq(Byte)
    <3>1. out \in Seq(Byte)
      BY <1>2 DEF TypeOK
    <3>2. QED
      BY <1>1, <3>1
  <2>2. losses' \in 0 .. MaxLosses
    BY <1>1, <1>2, BoundsAssumption DEF TypeOK
  <2>3. hurt' \subseteq 0 .. L
    <3>1. L \in 0 .. L
      BY <1>2
    <3>2. QED
      BY <1>1, <1>2, <3>1
  <2>4. Sendable(driver)' = Sendable(driver) /\ HeaderLength(driver)' = HeaderLength(driver)
    BY <1>1
  <2>5. QED
    BY <1>1, <1>2, <2>1, <2>2, <2>3, <2>4 DEF TypeOK
<1>5. Clean'
  BY <1>1 DEF FrameInv, Clean
<1>6. hurt' # {} /\ ~ Whole'
  BY <1>1, <1>3 DEF Whole
<1>7. (\A k \in out_of_step : \E j \in Spoilt : j < k)'
  BY <1>1, <1>3 DEF FrameInv
<1>8. FramesArrive'
  <2>1. SUFFICES ASSUME NEW k \in Gone'
        PROVE  (Parsed(k) \/ k \in Spoilt \/ (k \in out_of_step /\ \E j \in Spoilt : j < k))'
    BY DEF FramesArrive
  <2>2. k \in Gone \/ k = L
    BY <1>1, <1>2 DEF Gone
  <2>3. Parsed(k) => Parsed(k)'
    BY <1>1 DEF Parsed, Answers
  <2>4. CASE k \in Gone
    <3>1. Parsed(k) \/ k \in Spoilt \/ (k \in out_of_step /\ \E j \in Spoilt : j < k)
      BY <2>4 DEF FrameInv, FramesArrive
    <3>2. QED
      BY <1>1, <1>3, <2>3, <3>1
  <2>5. QED
    BY <1>3, <2>2, <2>4
<1>9. InThePast'
  BY <1>1 DEF FrameInv, InThePast
<1>10. QED
  BY <1>4, <1>5, <1>6, <1>7, <1>8, <1>9 DEF FrameInv

LEMMA BeginCallKeeps ==
  ASSUME FrameInv, BeginCall
  PROVE  FrameInv'
<1>1. /\ UNCHANGED lineVars /\ UNCHANGED accepted /\ calling' = TRUE
      /\ state' = state /\ header' = header /\ cksum' = cksum /\ cksum_lo' = cksum_lo
      /\ split' = (split \/ payload # << >>)
      /\ payload' = payload \/ (driver = "ublox5" /\ payload' = [i \in DOMAIN payload |-> Garbage])
  BY DEF BeginCall
<1>2. /\ driver' = driver /\ sent' = sent /\ out' = out /\ losses' = losses /\ hurt' = hurt
      /\ out_of_step' = out_of_step /\ accepted' = accepted
  BY <1>1 DEF lineVars
<1>3. TypeOK /\ payload \in Seq(Byte \cup {Garbage}) /\ Len(payload) \in Nat
  BY DEF FrameInv, TypeOK
<1>4. payload' \in Seq(Byte \cup {Garbage}) /\ Len(payload') = Len(payload)
  <2>1. CASE payload' = payload
    BY <1>3, <2>1
  <2>2. CASE payload' = [i \in DOMAIN payload |-> Garbage]
    <3>1. DOMAIN payload = 1 .. Len(payload)
      BY <1>3
    <3>2. QED
      BY <1>3, <2>2, <3>1
  <2>3. QED
    BY <1>1, <2>1, <2>2
<1>5. payload = << >> => payload' = << >>
  BY <1>3, <1>4
<1>6. TypeOK'
  <2>1. split' \in BOOLEAN /\ calling' \in BOOLEAN
    BY <1>1, <1>3 DEF TypeOK
  <2>2. Sendable(driver)' = Sendable(driver) /\ HeaderLength(driver)' = HeaderLength(driver)
    BY <1>2
  <2>3. QED
    BY <1>1, <1>2, <1>3, <1>4, <2>1, <2>2 DEF TypeOK
<1>7. Clean'
  BY <1>1, <1>2, <1>5 DEF FrameInv, Clean
<1>8. ASSUME Whole PROVE InStep(sent[Len(sent)])'
  <2>1. PICK m : m = sent[Len(sent)] /\ InStep(m)
    BY <1>8 DEF FrameInv
  <2>2. PayloadIsOf(m) => PayloadIsOf(m)'
    <3>1. CASE payload' = payload
      BY <1>1, <1>2, <3>1 DEF PayloadIsOf
    <3>2. CASE driver = "ublox5" /\ payload # << >>
      BY <1>1, <1>2, <3>2 DEF PayloadIsOf
    <3>3. QED
      BY <1>1, <1>5, <3>1, <3>2
  <2>3. \A p : StageAt(m, p) => StageAt(m, p)'
    BY <1>1, <1>2, <1>4, <2>2 DEF StageAt, HeaderIsOf
  <2>4. InStep(m)'
    BY <1>1, <1>2, <2>1, <2>3 DEF InStep
  <2>5. QED
    BY <1>2, <2>1, <2>4
<1>9. QED
  BY <1>1, <1>6, <1>7, <1>8, LineKeeps

LEMMA EndCallKeeps ==
  ASSUME FrameInv, EndCall
  PROVE  FrameInv'
<1>1. /\ UNCHANGED lineVars /\ UNCHANGED accepted /\ calling' = FALSE
      /\ header' = header /\ cksum' = cksum /\ cksum_lo' = cksum_lo
      /\ payload' = payload /\ split' = split
      /\ state' = IF state = "payload" /\ Len(payload) >= PayloadLength(header) THEN "cksum_A" ELSE state
  BY DEF EndCall
<1>2. /\ driver' = driver /\ sent' = sent /\ out' = out /\ losses' = losses /\ hurt' = hurt
      /\ out_of_step' = out_of_step /\ accepted' = accepted
  BY <1>1 DEF lineVars
<1>3. TypeOK
  BY DEF FrameInv
<1>4. TypeOK'
  <2>1. Sendable(driver)' = Sendable(driver) /\ HeaderLength(driver)' = HeaderLength(driver)
    BY <1>2
  <2>2. state' \in ParserStates /\ calling' \in BOOLEAN
    BY <1>1, <1>3 DEF TypeOK, ParserStates
  <2>3. QED
    BY <1>1, <1>2, <1>3, <2>1, <2>2 DEF TypeOK
<1>5. Clean'
  BY <1>1, <1>2 DEF FrameInv, Clean
<1>6. state = "sync0" => state' = "sync0"
  BY <1>1
<1>7. ASSUME Whole PROVE InStep(sent[Len(sent)])'
  <2>1. PICK m : m = sent[Len(sent)] /\ InStep(m)
    BY <1>7 DEF FrameInv
  <2>2. m \in Sendable(driver) /\ driver \in Drivers
    BY <1>3, <1>7, <2>1, SentIs DEF Whole
  <2>3. CASE state' = state
    <3>1. \A p : StageAt(m, p) => StageAt(m, p)'
      BY <1>1, <1>2, <2>3 DEF StageAt, HeaderIsOf, PayloadIsOf
    <3>2. InStep(m)'
      BY <1>1, <1>2, <2>1, <2>3, <3>1 DEF InStep
    <3>3. QED
      BY <1>2, <2>1, <3>2
  <2>4. CASE state' # state
    <3>1. state = "payload" /\ Len(payload) >= PayloadLength(header)
      BY <1>1, <2>4
    <3>2. PICK h, n, covered, f : h = HeaderLength(driver) /\ n = Len(m.payload)
                                  /\ covered = Covered(driver, m) /\ f = Encode(driver, m)
      OBVIOUS
    <3>3. IsFrame(m, driver, h, n, covered, f)
      BY <2>2, <3>2, FrameHas
    <3>4. h \in {2, 4} /\ n \in Nat /\ Len(f) = h + n + 4
      BY <3>3 DEF IsFrame
    <3>5. StageAt(m, Len(f) - Len(out))
      BY <2>1, <3>1, <3>2 DEF InStep
    <3>6. PICK p : /\ p \in h + 2 .. h + n + 1
                   /\ Len(header) = h /\ HeaderIsOf(m) /\ Len(payload) = p - 2 - h
      BY <3>1, <3>2, <3>5 DEF StageAt
    <3>7. PayloadLength(header) = n
      <4>1. header \in Seq(Byte) /\ Len(header) = HeaderLength(driver)
            /\ \A i \in DOMAIN header : header[i] = Covered(driver, m)[i]
        BY <1>3, <3>2, <3>6 DEF TypeOK, HeaderIsOf
      <4>2. Id(header) = m.id /\ PayloadLength(header) = Len(m.payload)
        BY <2>2, <4>1, HeaderSays
      <4>3. QED
        BY <3>2, <4>2
    <3>8. QED
      BY <3>1, <3>4, <3>6, <3>7
  <2>5. QED
    BY <2>3, <2>4
<1>8. QED
  BY <1>1, <1>4, <1>5, <1>6, <1>7, LineKeeps

\* A byte of a whole frame is read: the one after the p that were, by a parser that knows.
Reading(m, h, n, covered, f, p) ==
  /\ driver \in Drivers /\ m \in Sendable(driver) /\ m = sent[Len(sent)]
  /\ h = HeaderLength(driver) /\ n = Len(m.payload) /\ covered = Covered(driver, m)
  /\ f = Encode(driver, m)
  /\ h \in {2, 4} /\ n \in Nat \ {0} /\ p \in 0 .. h + n + 3
  /\ IsFrame(m, driver, h, n, covered, f)
  /\ Input = f[p + 1]
  /\ StageAt(m, p)
  /\ ~ Oversize(n)

LEMMA ReadingIs ==
  ASSUME FrameInv, Read, Whole
  PROVE  \E m, h, n, covered, f, p :
           /\ Reading(m, h, n, covered, f, p)
           /\ out' = << >> <=> p = h + n + 3
           /\ out' # << >> /\ StageAt(m, p + 1)' => InStep(m)'
<1>1. PICK m : m = sent[Len(sent)]
  OBVIOUS
<1>2. /\ driver \in Drivers /\ m \in Sendable(driver) /\ InStep(m) /\ Len(sent) \in Nat
      /\ Len(sent) \in DOMAIN sent /\ out # << >> /\ driver' = driver
  <2>1. TypeOK /\ InStep(m)
    BY <1>1 DEF FrameInv
  <2>2. Len(sent) \in Nat /\ Len(sent) \in 1 .. Len(sent)
    BY <2>1, SentIs DEF Whole
  <2>3. DOMAIN sent = 1 .. Len(sent)
    BY <2>1 DEF TypeOK
  <2>4. QED
    BY <1>1, <2>1, <2>2, <2>3, SentIs DEF Whole, Read
<1>3. PICK h, n, covered, f : h = HeaderLength(driver) /\ n = Len(m.payload)
                              /\ covered = Covered(driver, m) /\ f = Encode(driver, m)
  OBVIOUS
<1>4. IsFrame(m, driver, h, n, covered, f)
  BY <1>2, <1>3, FrameHas
<1>5. h \in {2, 4} /\ n \in Nat \ {0} /\ f \in Seq(Byte) /\ Len(f) = h + n + 4
  BY <1>4 DEF IsFrame
<1>6. PICK p : p = Len(f) - Len(out)
  OBVIOUS
<1>7. (\A i \in DOMAIN out : out[i] = f[p + i]) /\ StageAt(m, p)
  BY <1>2, <1>3, <1>6 DEF InStep
<1>8. /\ out \in Seq(Byte) /\ Len(out) \in Nat \ {0} /\ Input = out[1]
      /\ out' \in Seq(Byte) /\ Len(out') = Len(out) - 1
      /\ \A i \in DOMAIN out' : i + 1 \in DOMAIN out /\ out'[i] = out[i + 1]
      /\ out' = << >> <=> Len(out) = 1
  BY ReadIs DEF FrameInv
<1>9. Len(out) <= Len(f)
  <2>1. p >= 0
    <3>1. p = 0 \/ p = 1 \/ p \in 2 .. h + 1 \/ p \in h + 2 .. h + n + 1 \/ p = h + n + 2 \/ p = h + n + 3
      BY <1>3, <1>7 DEF StageAt
    <3>2. QED
      BY <1>5, <3>1
  <2>2. QED
    BY <1>5, <1>6, <1>8, <2>1
<1>10. p \in 0 .. h + n + 3 /\ (out' = << >> <=> p = h + n + 3)
  BY <1>5, <1>6, <1>8, <1>9
<1>11. Input = f[p + 1]
  BY <1>7, <1>8
<1>12. ~ Oversize(n)
  BY <1>1, <1>2, <1>3 DEF Whole, Spoilt
<1>13. ASSUME out' # << >>, StageAt(m, p + 1)' PROVE InStep(m)'
  <2>1. Len(f) - Len(out') = p + 1
    BY <1>5, <1>6, <1>8
  <2>2. ASSUME NEW i \in DOMAIN out' PROVE out'[i] = f[p + 1 + i]
    <3>1. p + (i + 1) = p + 1 + i
      BY <1>8, <1>10
    <3>2. QED
      BY <1>7, <1>8, <3>1
  <2>3. f = Encode(driver, m)'
    BY <1>2, <1>3
  <2>4. QED
    BY <1>13, <2>1, <2>2, <2>3 DEF InStep
<1>14. Reading(m, h, n, covered, f, p)
  BY <1>1, <1>2, <1>3, <1>4, <1>5, <1>7, <1>10, <1>11, <1>12 DEF Reading
<1>15. QED
  BY <1>10, <1>13, <1>14

\* The sums over what was covered up to the byte read.
LEMMA SumsGoOn ==
  ASSUME NEW covered \in Seq(Byte), NEW i \in 1 .. Len(covered),
         NEW c, c = DeviceSums(covered)[i - 1]
  PROVE  c \in Sums /\ Sum(c, covered[i]) = DeviceSums(covered)[i]
<1>1. covered[i] \in Byte /\ i - 1 \in 0 .. Len(covered)
  OBVIOUS
<1>2. /\ DeviceSums(covered)[i] = DeviceSum(DeviceSums(covered)[i - 1], covered[i])
      /\ DeviceSums(covered)[i - 1] \in Sums
  BY <1>1, DeviceSumsAre
<1>3. Sum(c, covered[i]) = DeviceSum(c, covered[i])
  BY <1>1, <1>2, SumIsDeviceSum
<1>4. QED
  BY <1>2, <1>3

LEMMA ReadTypeOK ==
  ASSUME TypeOK, Read, calling' \in BOOLEAN, state' \in ParserStates,
         header' \in Seq(Byte), Len(header') <= HeaderLength(driver),
         cksum' \in Byte \X Byte, cksum_lo' \in Byte,
         payload' \in Seq(Byte \cup {Garbage}), split' \in BOOLEAN,
         accepted' \in Seq([place : 0 .. Len(sent), payload : Seq(Byte \cup {Garbage}), split : BOOLEAN])
  PROVE  TypeOK'
<1>1. /\ driver' = driver /\ sent' = sent /\ losses' = losses /\ hurt' = hurt
      /\ out_of_step' = out_of_step
  BY DEF Read
<1>2. out' \in Seq(Byte)
  BY ReadIs
<1>3. Sendable(driver)' = Sendable(driver) /\ HeaderLength(driver)' = HeaderLength(driver)
  BY <1>1
<1>4. QED
  BY <1>1, <1>2, <1>3 DEF TypeOK

\* Nothing is handed on.
LEMMA AcceptedKeeps ==
  ASSUME FrameInv, Read, accepted' = accepted
  PROVE  /\ InThePast' /\ Len(accepted) <= Len(accepted')
         /\ \A i \in DOMAIN accepted : accepted'[i] = accepted[i]
<1>1. out # << >> /\ sent' = sent
  BY DEF Read
<1>2. Len(accepted) \in Nat
  BY DEF FrameInv, TypeOK
<1>3. QED
  BY <1>1, <1>2 DEF FrameInv, InThePast

\* In Rescan everything is cleared.
LEMMA RescanIs ==
  ASSUME TypeOK, Rescan
  PROVE  /\ calling' \in BOOLEAN /\ state' \in ParserStates /\ state' = "sync0"
         /\ header' \in Seq(Byte) /\ Len(header') <= HeaderLength(driver)
         /\ cksum' \in Byte \X Byte /\ cksum_lo' \in Byte
         /\ payload' \in Seq(Byte \cup {Garbage}) /\ split' \in BOOLEAN
         /\ Clean'
<1>1. /\ state' = "sync0" /\ calling' = FALSE /\ header' = << >> /\ payload' = << >>
      /\ cksum' = <<0, 0>> /\ split' = FALSE /\ cksum_lo' = cksum_lo
  BY DEF Rescan
<1>2. << >> \in Seq(Byte) /\ Len(<< >>) = 0 /\ << >> \in Seq(Byte \cup {Garbage})
  OBVIOUS
<1>3. <<0, 0>> \in Byte \X Byte
  BY DEF Byte
<1>4. cksum_lo \in Byte
  BY DEF TypeOK
<1>5. HeaderLength(driver) \in {2, 4}
  BY HeaderLengthIs
<1>6. Clean'
  BY <1>1 DEF Clean
<1>7. header' \in Seq(Byte) /\ Len(header') <= HeaderLength(driver)
      /\ payload' \in Seq(Byte \cup {Garbage})
  BY <1>1, <1>2, <1>5
<1>8. calling' \in BOOLEAN /\ state' \in ParserStates /\ split' \in BOOLEAN
      /\ cksum' \in Byte \X Byte /\ cksum_lo' \in Byte
  BY <1>1, <1>3, <1>4 DEF ParserStates
<1>9. QED
  BY <1>1, <1>6, <1>7, <1>8

LEMMA ReadSync0Keeps ==
  ASSUME FrameInv, ReadSync0
  PROVE  FrameInv'
<1>1. /\ Read /\ state = "sync0" /\ state' = IF Input = Sync(driver)[1] THEN "sync1" ELSE "sync0"
      /\ calling' = calling /\ header' = header /\ cksum' = cksum /\ cksum_lo' = cksum_lo
      /\ payload' = payload /\ split' = split /\ accepted' = accepted
  BY DEF ReadSync0
<1>2. TypeOK /\ driver' = driver
  BY <1>1 DEF FrameInv, Read
<1>3. TypeOK'
  <2>1. state' \in ParserStates
    BY <1>1 DEF ParserStates
  <2>2. QED
    BY <1>1, <1>2, <2>1, ReadTypeOK DEF TypeOK
<1>4. Clean'
  BY <1>1, <1>2 DEF FrameInv, Clean
<1>5. ASSUME Whole PROVE InStep(sent[Len(sent)])' /\ out' # << >>
  <2>1. PICK m, h, n, covered, f, p :
          /\ Reading(m, h, n, covered, f, p)
          /\ out' = << >> <=> p = h + n + 3
          /\ out' # << >> /\ StageAt(m, p + 1)' => InStep(m)'
    BY <1>1, <1>5, ReadingIs
  <2>2. h \in {2, 4} /\ n \in Nat /\ StageAt(m, p) /\ Input = f[p + 1] /\ m = sent[Len(sent)]
        /\ IsFrame(m, driver, h, n, covered, f)
    BY <2>1 DEF Reading
  <2>3. p = 0
    BY <1>1, <2>2 DEF StageAt
  <2>4. Input = Sync(driver)[1]
    BY <2>2, <2>3 DEF IsFrame
  <2>5. StageAt(m, p + 1)'
    BY <1>1, <2>3, <2>4 DEF StageAt
  <2>6. out' # << >>
    BY <2>1, <2>2, <2>3
  <2>7. sent' = sent
    BY <1>1 DEF Read
  <2>8. QED
    BY <2>1, <2>2, <2>5, <2>6, <2>7
<1>6. QED
  BY <1>1, <1>3, <1>4, <1>5, ReadKeeps, AcceptedKeeps

LEMMA ReadSync1Keeps ==
  ASSUME FrameInv, ReadSync1
  PROVE  FrameInv'
<1>1. Read /\ state = "sync1" /\ accepted' = accepted /\ TypeOK /\ driver' = driver /\ sent' = sent
      /\ Clean
  BY DEF ReadSync1, FrameInv, Read
<1>2. \/ /\ Input = Sync(driver)[2] /\ state' = "header"
         /\ calling' = calling /\ header' = header /\ cksum' = cksum /\ cksum_lo' = cksum_lo
         /\ payload' = payload /\ split' = split
      \/ /\ Input = Sync(driver)[1] /\ Input # Sync(driver)[2] /\ calling' = FALSE
         /\ state' = state /\ header' = header /\ cksum' = cksum /\ cksum_lo' = cksum_lo
         /\ payload' = payload /\ split' = split
      \/ Input # Sync(driver)[1] /\ Input # Sync(driver)[2] /\ Rescan
  <2>1. Sync(driver)[1] # Sync(driver)[2]
    BY DEF Sync
  <2>2. CASE Input = Sync(driver)[2]
    BY <2>1, <2>2 DEF ReadSync1
  <2>3. CASE Input = Sync(driver)[1]
    BY <2>1, <2>3 DEF ReadSync1, parserVars
  <2>4. CASE Input # Sync(driver)[1] /\ Input # Sync(driver)[2]
    BY <2>4 DEF ReadSync1
  <2>5. QED
    BY <2>2, <2>3, <2>4
<1>3. TypeOK'
  <2>1. CASE Rescan
    BY <1>1, <2>1, RescanIs, ReadTypeOK DEF TypeOK
  <2>2. CASE ~ Rescan
    <3>1. state' \in ParserStates /\ calling' \in BOOLEAN
      BY <1>1, <1>2, <2>2 DEF ParserStates, TypeOK
    <3>2. QED
      BY <1>1, <1>2, <2>2, <3>1, ReadTypeOK DEF TypeOK
  <2>3. QED
    BY <2>1, <2>2
<1>4. Clean'
  <2>1. CASE Rescan
    BY <1>1, <2>1, RescanIs
  <2>2. CASE ~ Rescan
    <3>1. header = << >> /\ cksum = <<0, 0>> /\ payload = << >>
      BY <1>1 DEF Clean
    <3>2. Len(<< >>) < HeaderLength(driver)
      BY HeaderLengthIs
    <3>3. QED
      BY <1>1, <1>2, <2>2, <3>1, <3>2 DEF Clean
  <2>3. QED
    BY <2>1, <2>2
<1>5. ASSUME Whole PROVE InStep(sent[Len(sent)])' /\ out' # << >>
  <2>1. PICK m, h, n, covered, f, p :
          /\ Reading(m, h, n, covered, f, p)
          /\ out' = << >> <=> p = h + n + 3
          /\ out' # << >> /\ StageAt(m, p + 1)' => InStep(m)'
    BY <1>1, <1>5, ReadingIs
  <2>2. h \in {2, 4} /\ n \in Nat \ {0} /\ StageAt(m, p) /\ Input = f[p + 1] /\ m = sent[Len(sent)]
        /\ IsFrame(m, driver, h, n, covered, f)
        /\ h = HeaderLength(driver) /\ n = Len(m.payload) /\ covered = Covered(driver, m)
    BY <2>1 DEF Reading
  <2>3. p \in {0, 1}
    BY <1>1, <2>2 DEF StageAt
  <2>4. Sync(driver)[1] # Sync(driver)[2]
    BY DEF Sync
  <2>5. f[1] = Sync(driver)[1] /\ f[2] = Sync(driver)[2] /\ covered \in Seq(Byte) /\ Len(covered) = h + n
    BY <2>2 DEF IsFrame
  <2>6. StageAt(m, p + 1)'
    <3>1. CASE p = 0
      <4>1. Input = Sync(driver)[1]
        BY <2>2, <2>5, <3>1
      <4>2. state' = "sync1"
        BY <1>1, <1>2, <2>4, <4>1
      <4>3. QED
        BY <3>1, <4>2 DEF StageAt
    <3>2. CASE p = 1
      <4>1. Input = Sync(driver)[2]
        BY <2>2, <2>5, <3>2
      <4>2. state' = "header" /\ header' = << >> /\ cksum' = <<0, 0>>
        BY <1>1, <1>2, <2>4, <4>1 DEF Clean
      <4>3. DeviceSums(covered)[0] = <<0, 0>>
        BY <2>5, DeviceSumsAre
      <4>4. Len(header') = 0 /\ HeaderIsOf(m)'
        BY <4>2 DEF HeaderIsOf
      <4>5. p + 1 = 2 /\ 2 \in 2 .. h + 1 /\ 2 - 2 = 0
        BY <2>2, <3>2
      <4>6. h = HeaderLength(driver)' /\ DeviceSums(Covered(driver, m))'[0] = <<0, 0>>
        BY <1>1, <2>2, <4>3
      <4>7. QED
        BY <4>2, <4>4, <4>5, <4>6 DEF StageAt
    <3>3. QED
      BY <2>3, <3>1, <3>2
  <2>7. out' # << >>
    <3>1. h \in {2, 4} /\ n \in Nat
      BY <2>2
    <3>2. p # h + n + 3
      BY <2>3, <3>1
    <3>3. QED
      BY <2>1, <3>2
  <2>8. QED
    BY <1>1, <2>1, <2>2, <2>6, <2>7
<1>6. QED
  BY <1>1, <1>3, <1>4, <1>5, ReadKeeps, AcceptedKeeps

\* One more at the end.
LEMMA AppendedIs ==
  ASSUME NEW S, NEW s \in Seq(S), NEW x \in S
  PROVE  /\ Append(s, x) \in Seq(S) /\ Len(Append(s, x)) = Len(s) + 1 /\ Len(s) \in Nat
         /\ \A i \in DOMAIN s : i \in DOMAIN Append(s, x) /\ Append(s, x)[i] = s[i]
         /\ Append(s, x)[Len(s) + 1] = x
         /\ \A i \in DOMAIN Append(s, x) : i \in DOMAIN s \/ i = Len(s) + 1
OBVIOUS

\* Both parts of the sums are bytes.
LEMMA SummedIs ==
  ASSUME NEW c \in Byte \X Byte, NEW b \in Byte
  PROVE  Sum(c, b) \in Byte \X Byte
BY SumIsDeviceSum DEF Sums

LEMMA ReadHeaderKeeps ==
  ASSUME FrameInv, ReadHeader
  PROVE  FrameInv'
<1>1. PICK hd : hd = Append(header, Input)
  OBVIOUS
<1>2. Read /\ state = "header" /\ accepted' = accepted /\ TypeOK /\ driver' = driver /\ sent' = sent
      /\ Clean /\ header \in Seq(Byte) /\ Len(header) < HeaderLength(driver)
      /\ payload = << >> /\ cksum \in Byte \X Byte /\ Input \in Byte
  <2>1. Read /\ state = "header" /\ accepted' = accepted
    BY DEF ReadHeader
  <2>2. QED
    BY <2>1, ReadIs DEF FrameInv, Read, Clean, TypeOK
<1>3. \/ Len(hd) = HeaderLength(driver) /\ Oversize(PayloadLength(hd)) /\ Rescan
      \/ /\ ~ (Len(hd) = HeaderLength(driver) /\ Oversize(PayloadLength(hd)))
         /\ header' = hd /\ cksum' = Sum(cksum, Input)
         /\ state' = IF Len(hd) = HeaderLength(driver) THEN "payload" ELSE "header"
         /\ calling' = calling /\ cksum_lo' = cksum_lo /\ payload' = payload /\ split' = split
  BY <1>1 DEF ReadHeader
<1>4. /\ hd \in Seq(Byte) /\ Len(hd) = Len(header) + 1 /\ Len(header) \in Nat
      /\ \A i \in DOMAIN header : i \in DOMAIN hd /\ hd[i] = header[i]
      /\ hd[Len(header) + 1] = Input
      /\ \A i \in DOMAIN hd : i \in DOMAIN header \/ i = Len(header) + 1
  BY <1>1, <1>2, AppendedIs
<1>5. Len(hd) <= HeaderLength(driver) /\ HeaderLength(driver) \in {2, 4}
  BY <1>2, <1>4, HeaderLengthIs
<1>6. TypeOK'
  <2>1. CASE Rescan
    BY <1>2, <2>1, RescanIs, ReadTypeOK DEF TypeOK
  <2>2. CASE ~ Rescan
    <3>1. state' \in ParserStates
      BY <1>3, <2>2 DEF ParserStates
    <3>2. cksum' \in Byte \X Byte
      BY <1>2, <1>3, <2>2, SummedIs
    <3>3. QED
      BY <1>2, <1>3, <1>4, <1>5, <2>2, <3>1, <3>2, ReadTypeOK DEF TypeOK
  <2>3. QED
    BY <2>1, <2>2
<1>7. Clean'
  <2>1. CASE Rescan
    BY <1>2, <2>1, RescanIs
  <2>2. CASE ~ Rescan
    <3>1. state' = "header" => Len(header') < HeaderLength(driver)'
      BY <1>2, <1>3, <1>5, <1>4, <2>2
    <3>2. QED
      BY <1>2, <1>3, <2>2, <3>1 DEF Clean
  <2>3. QED
    BY <2>1, <2>2
<1>8. ASSUME Whole PROVE InStep(sent[Len(sent)])' /\ out' # << >>
  <2>1. PICK m, h, n, covered, f, p :
          /\ Reading(m, h, n, covered, f, p)
          /\ out' = << >> <=> p = h + n + 3
          /\ out' # << >> /\ StageAt(m, p + 1)' => InStep(m)'
    BY <1>2, <1>8, ReadingIs
  <2>2. h \in {2, 4} /\ n \in Nat \ {0} /\ StageAt(m, p) /\ Input = f[p + 1] /\ m = sent[Len(sent)]
        /\ IsFrame(m, driver, h, n, covered, f) /\ m \in Sendable(driver) /\ driver \in Drivers
        /\ h = HeaderLength(driver) /\ n = Len(m.payload) /\ covered = Covered(driver, m)
        /\ ~ Oversize(n)
    BY <2>1 DEF Reading
  <2>3. p \in 2 .. h + 1 /\ Len(header) = p - 2 /\ HeaderIsOf(m) /\ cksum = DeviceSums(covered)[p - 2]
    BY <1>2, <2>2 DEF StageAt
  <2>4. /\ covered \in Seq(Byte) /\ Len(covered) = h + n
        /\ \A i \in 1 .. h + n : f[i + 2] = covered[i]
    BY <2>2 DEF IsFrame
  <2>5. /\ p - 1 \in 1 .. Len(covered) /\ (p - 1) + 2 = p + 1 /\ (p - 1) - 1 = p - 2
        /\ p # h + n + 3
    <3>1. h \in {2, 4} /\ n \in Nat \ {0} /\ p \in 2 .. h + 1 /\ Len(covered) = h + n
      BY <2>2, <2>3, <2>4
    <3>2. QED
      BY <3>1
  <2>6. Input = covered[p - 1]
    BY <2>2, <2>4, <2>5
  <2>7. Sum(cksum, Input) = DeviceSums(covered)[p - 1]
    BY <2>3, <2>4, <2>5, <2>6, SumsGoOn
  <2>8. \A i \in DOMAIN hd : hd[i] = covered[i]
    <3>1. \A i \in DOMAIN header : header[i] = covered[i]
      BY <2>2, <2>3 DEF HeaderIsOf
    <3>2. Len(header) + 1 = p - 1
      BY <2>3
    <3>3. QED
      BY <1>4, <2>6, <3>1, <3>2
  <2>9. Len(hd) = p - 1 /\ (Len(hd) = h <=> p = h + 1)
    BY <1>4, <2>2, <2>3
  <2>10. ~ (Len(hd) = HeaderLength(driver) /\ Oversize(PayloadLength(hd)))
    <3>1. SUFFICES ASSUME Len(hd) = HeaderLength(driver) PROVE ~ Oversize(PayloadLength(hd))
      OBVIOUS
    <3>2. Id(hd) = m.id /\ PayloadLength(hd) = Len(m.payload)
      BY <1>4, <2>2, <2>8, <3>1, HeaderSays
    <3>3. QED
      BY <2>2, <3>2
  <2>11. /\ header' = hd /\ cksum' = DeviceSums(covered)[p - 1] /\ payload' = << >>
         /\ state' = IF Len(hd) = h THEN "payload" ELSE "header"
    BY <1>2, <1>3, <2>2, <2>7, <2>10
  <2>12. HeaderIsOf(m)' /\ PayloadIsOf(m)'
    BY <1>2, <2>2, <2>8, <2>11 DEF HeaderIsOf, PayloadIsOf
  <2>13. h = HeaderLength(driver)' /\ covered = Covered(driver, m)' /\ (p + 1) - 2 = p - 1
    BY <1>2, <2>2, <2>3
  <2>14. StageAt(m, p + 1)'
    <3>1. CASE p = h + 1
      <4>1. p + 1 \in h + 2 .. h + n + 1 /\ Len(payload') = (p + 1) - 2 - h
        <5>1. Len(<< >>) = 0
          OBVIOUS
        <5>2. h \in {2, 4} /\ n \in Nat \ {0} /\ payload' = << >>
          BY <2>2, <2>11
        <5>3. QED
          BY <3>1, <5>1, <5>2
      <4>2. state' = "payload" /\ Len(header') = h /\ cksum' = DeviceSums(covered)[(p + 1) - 2]
        BY <2>9, <2>11, <2>13, <3>1
      <4>3. QED
        BY <2>2, <2>12, <2>13, <4>1, <4>2 DEF StageAt
    <3>2. CASE p # h + 1
      <4>1. p + 1 \in 2 .. h + 1
        BY <2>2, <2>3, <3>2
      <4>2. /\ state' = "header" /\ Len(header') = (p + 1) - 2
            /\ cksum' = DeviceSums(covered)[(p + 1) - 2]
        BY <2>9, <2>11, <2>13, <3>2
      <4>3. QED
        BY <2>2, <2>12, <2>13, <4>1, <4>2 DEF StageAt
    <3>3. QED
      BY <3>1, <3>2
  <2>15. out' # << >>
    BY <2>1, <2>5
  <2>16. QED
    BY <1>2, <2>1, <2>2, <2>14, <2>15
<1>9. QED
  BY <1>2, <1>6, <1>7, <1>8, ReadKeeps, AcceptedKeeps

LEMMA ReadPayloadKeeps ==
  ASSUME FrameInv, ReadPayload
  PROVE  FrameInv'
<1>1. /\ Read /\ state = "payload" /\ payload' = Append(payload, Input) /\ cksum' = Sum(cksum, Input)
      /\ state' = IF Len(payload') >= PayloadLength(header) THEN "cksum_A" ELSE "payload"
      /\ calling' = calling /\ header' = header /\ cksum_lo' = cksum_lo /\ split' = split
      /\ accepted' = accepted
  BY DEF ReadPayload
<1>2. TypeOK /\ driver' = driver /\ sent' = sent /\ Clean /\ header \in Seq(Byte)
      /\ cksum \in Byte \X Byte /\ Input \in Byte /\ payload \in Seq(Byte \cup {Garbage})
  BY <1>1, ReadIs DEF FrameInv, Read, Clean, TypeOK
<1>3. /\ payload' \in Seq(Byte \cup {Garbage}) /\ Len(payload') = Len(payload) + 1
      /\ Len(payload) \in Nat
      /\ \A i \in DOMAIN payload : i \in DOMAIN payload' /\ payload'[i] = payload[i]
      /\ payload'[Len(payload) + 1] = Input
      /\ \A i \in DOMAIN payload' : i \in DOMAIN payload \/ i = Len(payload) + 1
  <2>1. Input \in Byte \cup {Garbage}
    BY <1>2
  <2>2. QED
    BY <1>1, <1>2, <2>1, AppendedIs
<1>4. TypeOK'
  <2>1. state' \in ParserStates
    BY <1>1 DEF ParserStates
  <2>2. cksum' \in Byte \X Byte
    BY <1>1, <1>2, SummedIs
  <2>3. QED
    BY <1>1, <1>2, <1>3, <2>1, <2>2, ReadTypeOK DEF TypeOK
<1>5. Clean'
  BY <1>1 DEF Clean
<1>6. ASSUME Whole PROVE InStep(sent[Len(sent)])' /\ out' # << >>
  <2>1. PICK m, h, n, covered, f, p :
          /\ Reading(m, h, n, covered, f, p)
          /\ out' = << >> <=> p = h + n + 3
          /\ out' # << >> /\ StageAt(m, p + 1)' => InStep(m)'
    BY <1>1, <1>6, ReadingIs
  <2>2. h \in {2, 4} /\ n \in Nat \ {0} /\ StageAt(m, p) /\ Input = f[p + 1] /\ m = sent[Len(sent)]
        /\ IsFrame(m, driver, h, n, covered, f) /\ m \in Sendable(driver) /\ driver \in Drivers
        /\ h = HeaderLength(driver) /\ n = Len(m.payload) /\ covered = Covered(driver, m)
    BY <2>1 DEF Reading
  <2>3. /\ p \in h + 2 .. h + n + 1 /\ Len(header) = h /\ HeaderIsOf(m)
        /\ cksum = DeviceSums(covered)[p - 2] /\ Len(payload) = p - 2 - h /\ PayloadIsOf(m)
    BY <1>1, <2>2 DEF StageAt
  <2>4. /\ covered \in Seq(Byte) /\ Len(covered) = h + n
        /\ \A i \in 1 .. h + n : f[i + 2] = covered[i]
        /\ \A i \in 1 .. n : covered[h + i] = m.payload[i]
    BY <2>2 DEF IsFrame
  <2>5. /\ p - 1 \in 1 .. Len(covered) /\ (p - 1) + 2 = p + 1 /\ (p - 1) - 1 = p - 2
        /\ p - 1 - h \in 1 .. n /\ h + (p - 1 - h) = p - 1 /\ Len(payload) + 1 = p - 1 - h
        /\ p # h + n + 3 /\ (p + 1) - 2 = p - 1
        /\ p = h + n + 1 => p - 1 = h + n /\ p - 1 - h = n /\ p + 1 = h + n + 2
        /\ p # h + n + 1 => p + 1 \in h + 2 .. h + n + 1 /\ ~ (p - 1 - h >= n)
                             /\ (p + 1) - 2 - h = p - 1 - h
    <3>1. /\ h \in {2, 4} /\ n \in Nat \ {0} /\ p \in h + 2 .. h + n + 1 /\ Len(covered) = h + n
          /\ Len(payload) = p - 2 - h
      BY <2>2, <2>3, <2>4
    <3>2. QED
      BY <3>1
  <2>6. Input = covered[p - 1] /\ Input = m.payload[p - 1 - h]
    <3>1. f[(p - 1) + 2] = covered[p - 1]
      BY <2>4, <2>5
    <3>2. covered[h + (p - 1 - h)] = m.payload[p - 1 - h]
      BY <2>4, <2>5
    <3>3. QED
      BY <2>2, <2>5, <3>1, <3>2
  <2>7. cksum' = DeviceSums(covered)[p - 1]
    <3>1. cksum = DeviceSums(covered)[(p - 1) - 1]
      BY <2>3, <2>5
    <3>2. Sum(cksum, covered[p - 1]) = DeviceSums(covered)[p - 1]
      BY <2>4, <2>5, <3>1, SumsGoOn
    <3>3. QED
      BY <1>1, <2>6, <3>2
  <2>8. HeaderIsOf(m)'
    BY <1>1, <1>2, <2>3 DEF HeaderIsOf
  <2>9. PayloadIsOf(m)'
    <3>1. CASE driver = "ublox5" /\ split
      BY <1>1, <1>2, <3>1 DEF PayloadIsOf
    <3>2. CASE \A i \in DOMAIN payload : payload[i] = m.payload[i]
      <4>1. \A i \in DOMAIN payload' : payload'[i] = m.payload[i]
        BY <1>3, <2>5, <2>6, <3>2
      <4>2. QED
        BY <4>1 DEF PayloadIsOf
    <3>3. QED
      BY <2>3, <3>1, <3>2 DEF PayloadIsOf
  <2>10. PayloadLength(header) = n
    <3>1. header \in Seq(Byte) /\ Len(header) = HeaderLength(driver)
          /\ \A i \in DOMAIN header : header[i] = Covered(driver, m)[i]
      BY <1>2, <2>2, <2>3 DEF HeaderIsOf
    <3>2. Id(header) = m.id /\ PayloadLength(header) = Len(m.payload)
      BY <2>2, <3>1, HeaderSays
    <3>3. QED
      BY <2>2, <3>2
  <2>11. h = HeaderLength(driver)' /\ covered = Covered(driver, m)'
    BY <1>2, <2>2
  <2>12. StageAt(m, p + 1)'
    <3>1. CASE p = h + n + 1
      <4>1. p - 1 = h + n /\ Len(payload') = n /\ p + 1 = h + n + 2 /\ n >= n
        BY <1>3, <2>2, <2>5, <3>1
      <4>2. state' = "cksum_A"
        BY <1>1, <2>10, <4>1
      <4>3. Len(header') = h /\ cksum' = DeviceSums(covered)[h + n]
        BY <1>1, <2>3, <2>7, <4>1
      <4>4. QED
        BY <2>2, <2>8, <2>9, <2>11, <4>1, <4>2, <4>3 DEF StageAt
    <3>2. CASE p # h + n + 1
      <4>1. p + 1 \in h + 2 .. h + n + 1 /\ Len(payload') = (p + 1) - 2 - h /\ ~ (Len(payload') >= n)
        BY <1>3, <2>5, <3>2
      <4>2. state' = "payload"
        BY <1>1, <2>10, <4>1
      <4>3. Len(header') = h /\ cksum' = DeviceSums(covered)[(p + 1) - 2]
        BY <1>1, <2>3, <2>5, <2>7
      <4>4. QED
        BY <2>2, <2>8, <2>9, <2>11, <4>1, <4>2, <4>3 DEF StageAt
    <3>3. QED
      BY <3>1, <3>2
  <2>13. out' # << >>
    BY <2>1, <2>5
  <2>14. QED
    BY <1>2, <2>1, <2>2, <2>12, <2>13
<1>7. QED
  BY <1>1, <1>4, <1>5, <1>6, ReadKeeps, AcceptedKeeps

LEMMA ReadCksumAKeeps ==
  ASSUME FrameInv, ReadCksumA
  PROVE  FrameInv'
<1>1. /\ Read /\ state = "cksum_A" /\ cksum_lo' = Input /\ state' = "cksum_B"
      /\ calling' = calling /\ header' = header /\ cksum' = cksum /\ payload' = payload
      /\ split' = split /\ accepted' = accepted
  BY DEF ReadCksumA
<1>2. TypeOK /\ driver' = driver /\ sent' = sent /\ Input \in Byte
  BY <1>1, ReadIs DEF FrameInv, Read
<1>3. TypeOK'
  <2>1. state' \in ParserStates
    BY <1>1 DEF ParserStates
  <2>2. QED
    BY <1>1, <1>2, <2>1, ReadTypeOK DEF TypeOK
<1>4. Clean'
  BY <1>1 DEF Clean
<1>5. ASSUME Whole PROVE InStep(sent[Len(sent)])' /\ out' # << >>
  <2>1. PICK m, h, n, covered, f, p :
          /\ Reading(m, h, n, covered, f, p)
          /\ out' = << >> <=> p = h + n + 3
          /\ out' # << >> /\ StageAt(m, p + 1)' => InStep(m)'
    BY <1>1, <1>5, ReadingIs
  <2>2. h \in {2, 4} /\ n \in Nat \ {0} /\ StageAt(m, p) /\ Input = f[p + 1] /\ m = sent[Len(sent)]
        /\ IsFrame(m, driver, h, n, covered, f)
        /\ h = HeaderLength(driver) /\ n = Len(m.payload) /\ covered = Covered(driver, m)
    BY <2>1 DEF Reading
  <2>3. /\ p = h + n + 2 /\ Len(header) = h /\ HeaderIsOf(m) /\ cksum = DeviceSums(covered)[h + n]
        /\ Len(payload) = n /\ PayloadIsOf(m)
    BY <1>1, <2>2 DEF StageAt
  <2>4. p + 1 = h + n + 3 /\ p # h + n + 3
    <3>1. h \in {2, 4} /\ n \in Nat
      BY <2>2
    <3>2. QED
      BY <2>3, <3>1
  <2>5. Input = DeviceSums(covered)[h + n][1]
    BY <2>2, <2>4 DEF IsFrame
  <2>6. HeaderIsOf(m)' /\ PayloadIsOf(m)'
    BY <1>1, <1>2, <2>3 DEF HeaderIsOf, PayloadIsOf
  <2>7. h = HeaderLength(driver)' /\ covered = Covered(driver, m)'
    BY <1>2, <2>2
  <2>8. StageAt(m, p + 1)'
    BY <1>1, <2>2, <2>3, <2>4, <2>5, <2>6, <2>7 DEF StageAt
  <2>9. QED
    BY <1>2, <2>1, <2>2, <2>4, <2>8
<1>6. QED
  BY <1>1, <1>3, <1>4, <1>5, ReadKeeps, AcceptedKeeps

\* The last byte of a whole frame: it passes, and what is handed on is that frame's.
LEMMA WholeFramePasses ==
  ASSUME FrameInv, ReadCksumB, Whole
  PROVE  /\ out' = << >> /\ Passes(Input) /\ PlaceOf(header) = Len(sent)
         /\ (driver = "ublox5" /\ split) \/ payload = sent[Len(sent)].payload
<1>1. Read /\ state = "cksum_B" /\ sent' = sent
  BY DEF ReadCksumB, Read
<1>2. PICK m, h, n, covered, f, p :
        /\ Reading(m, h, n, covered, f, p)
        /\ out' = << >> <=> p = h + n + 3
        /\ out' # << >> /\ StageAt(m, p + 1)' => InStep(m)'
  BY <1>1, ReadingIs
<1>3. h \in {2, 4} /\ n \in Nat \ {0} /\ StageAt(m, p) /\ Input = f[p + 1] /\ m = sent[Len(sent)]
      /\ IsFrame(m, driver, h, n, covered, f) /\ m \in Sendable(driver) /\ driver \in Drivers
      /\ h = HeaderLength(driver) /\ n = Len(m.payload) /\ covered = Covered(driver, m)
  BY <1>2 DEF Reading
<1>4. /\ p = h + n + 3 /\ cksum_lo = DeviceSums(covered)[h + n][1]
      /\ Len(header) = h /\ HeaderIsOf(m) /\ cksum = DeviceSums(covered)[h + n]
      /\ Len(payload) = n /\ PayloadIsOf(m)
  BY <1>1, <1>3 DEF StageAt
<1>5. out' = << >>
  BY <1>2, <1>4
<1>6. p + 1 = h + n + 4
  <2>1. h \in {2, 4} /\ n \in Nat
    BY <1>3
  <2>2. QED
    BY <1>4, <2>1
<1>7. Passes(Input)
  BY <1>3, <1>4, <1>6 DEF IsFrame, Passes
<1>8. header \in Seq(Byte) /\ payload \in Seq(Byte \cup {Garbage}) /\ m.payload \in Seq(Byte)
  BY <1>3 DEF FrameInv, TypeOK, IsFrame
<1>9. PlaceOf(header) = Len(sent)
  <2>1. header \in Seq(Byte) /\ Len(header) = HeaderLength(driver)
        /\ \A i \in DOMAIN header : header[i] = Covered(driver, m)[i]
    BY <1>3, <1>4, <1>8 DEF HeaderIsOf
  <2>2. Id(header) = m.id /\ PayloadLength(header) = Len(m.payload)
    BY <1>3, <2>1, HeaderSays
  <2>3. QED
    BY <1>3, <1>5, <2>2 DEF PlaceOf, Whole
<1>10. (driver = "ublox5" /\ split) \/ payload = m.payload
  <2>1. SUFFICES ASSUME \A i \in DOMAIN payload : payload[i] = m.payload[i]
        PROVE  payload = m.payload
    BY <1>4 DEF PayloadIsOf
  <2>2. Len(payload) = Len(m.payload)
    BY <1>3, <1>4
  <2>3. QED
    BY <1>8, <2>1, <2>2
<1>11. QED
  BY <1>3, <1>5, <1>7, <1>9, <1>10

\* What the end of a record leaves: one record more, or none.
LEMMA HandedOn ==
  ASSUME FrameInv, ReadCksumB
  PROVE  \/ accepted' = accepted /\ ~ Passes(Input)
         \/ /\ Passes(Input)
            /\ \E r \in [place : 0 .. Len(sent), payload : Seq(Byte \cup {Garbage}), split : BOOLEAN] :
                 /\ r.place = PlaceOf(header) /\ r.payload = payload /\ r.split = split
                 /\ r.place # 0 => out' = << >> /\ r.place = Len(sent)
                 /\ accepted' = Append(accepted, r)
<1>1. CASE ~ Passes(Input)
  BY <1>1 DEF ReadCksumB
<1>2. CASE Passes(Input)
  <2>1. PICK r : r = [place |-> PlaceOf(header), payload |-> payload, split |-> split]
    OBVIOUS
  <2>2. accepted' = Append(accepted, r)
    BY <1>2, <2>1 DEF ReadCksumB, Accept
  <2>3. sent' = sent /\ Len(sent) \in Nat
    BY SentIs DEF ReadCksumB, Read, FrameInv
  <2>4. PlaceOf(header) \in 0 .. Len(sent) /\ (PlaceOf(header) # 0 => out' = << >> /\ PlaceOf(header) = Len(sent))
    BY <2>3 DEF PlaceOf
  <2>5. payload \in Seq(Byte \cup {Garbage}) /\ split \in BOOLEAN
    BY DEF FrameInv, TypeOK
  <2>6. r \in [place : 0 .. Len(sent), payload : Seq(Byte \cup {Garbage}), split : BOOLEAN]
        /\ r.place = PlaceOf(header) /\ r.payload = payload /\ r.split = split
    BY <2>1, <2>4, <2>5
  <2>7. QED
    BY <1>2, <2>2, <2>4, <2>6
<1>3. QED
  BY <1>1, <1>2

LEMMA ReadCksumBKeeps ==
  ASSUME FrameInv, ReadCksumB
  PROVE  FrameInv'
<1> DEFINE Records == [place : 0 .. Len(sent), payload : Seq(Byte \cup {Garbage}), split : BOOLEAN]
<1>1. Read /\ state = "cksum_B" /\ Rescan /\ TypeOK /\ driver' = driver /\ sent' = sent
      /\ out # << >>
  BY DEF ReadCksumB, FrameInv, Read
<1>2. Clean' /\ state' = "sync0"
  BY <1>1, RescanIs
<1>3. accepted \in Seq(Records) /\ Len(accepted) \in Nat
  BY <1>1 DEF TypeOK
<1>4. CASE accepted' = accepted /\ ~ Passes(Input)
  <2>1. TypeOK'
    BY <1>1, <1>3, <1>4, RescanIs, ReadTypeOK
  <2>2. ~ Whole
    BY <1>4, WholeFramePasses
  <2>3. QED
    BY <1>1, <1>2, <1>4, <2>1, <2>2, ReadKeeps, AcceptedKeeps
<1>5. ASSUME NEW r \in Records,
             r.place = PlaceOf(header), r.payload = payload, r.split = split,
             r.place # 0 => out' = << >> /\ r.place = Len(sent), accepted' = Append(accepted, r), Passes(Input)
      PROVE  FrameInv'
  <2>1. /\ accepted' \in Seq(Records) /\ Len(accepted') = Len(accepted) + 1
        /\ \A i \in DOMAIN accepted : i \in DOMAIN accepted' /\ accepted'[i] = accepted[i]
        /\ accepted'[Len(accepted) + 1] = r
        /\ \A i \in DOMAIN accepted' : i \in DOMAIN accepted \/ i = Len(accepted) + 1
        /\ Len(accepted) + 1 \in DOMAIN accepted'
    <3> HIDE DEF Records
    <3>1. /\ Append(accepted, r) \in Seq(Records) /\ Len(Append(accepted, r)) = Len(accepted) + 1
          /\ \A i \in DOMAIN accepted : i \in DOMAIN Append(accepted, r) /\ Append(accepted, r)[i] = accepted[i]
          /\ Append(accepted, r)[Len(accepted) + 1] = r
          /\ \A i \in DOMAIN Append(accepted, r) : i \in DOMAIN accepted \/ i = Len(accepted) + 1
      BY <1>3, <1>5, AppendedIs
    <3>2. DOMAIN Append(accepted, r) = 1 .. Len(accepted) + 1
      BY <1>3, <3>1
    <3>3. Len(accepted) + 1 \in 1 .. Len(accepted) + 1
      BY <1>3
    <3>4. QED
      BY <1>5, <3>1, <3>2, <3>3
  <2>2. TypeOK'
    BY <1>1, <2>1, RescanIs, ReadTypeOK
  <2>3. InThePast'
    BY <1>1, <1>5, <2>1 DEF FrameInv, InThePast
  <2>4. ASSUME Whole PROVE InStep(sent[Len(sent)])' /\ Parsed(Len(sent))'
    <3>1. /\ out' = << >> /\ r.place = Len(sent)
          /\ (driver = "ublox5" /\ r.split) \/ r.payload = sent[Len(sent)].payload
      BY <1>5, <2>4, WholeFramePasses
    <3>2. InStep(sent[Len(sent)])'
      BY <1>2, <3>1 DEF InStep
    <3>3. driver \in Drivers
      BY <1>1 DEF TypeOK
    <3>4. Parsed(Len(sent))'
      BY <1>1, <2>1, <3>1, <3>3 DEF Parsed, Answers, Drivers
    <3>5. QED
      BY <3>2, <3>4
  <2>5. Len(accepted) <= Len(accepted')
    BY <1>3, <2>1
  <2>6. QED
    BY <1>1, <1>2, <2>1, <2>2, <2>3, <2>4, <2>5, ReadKeeps
<1>6. QED
  BY <1>4, <1>5, HandedOn

\* Nothing moves.
LEMMA FrameStutterKeeps ==
  ASSUME FrameInv, UNCHANGED vars
  PROVE  FrameInv'
<1>1. /\ UNCHANGED lineVars /\ accepted' = accepted /\ calling' = calling
      /\ state' = state /\ header' = header /\ cksum' = cksum /\ cksum_lo' = cksum_lo
      /\ payload' = payload /\ split' = split
  BY DEF vars, parserVars
<1>2. /\ driver' = driver /\ sent' = sent /\ out' = out /\ losses' = losses /\ hurt' = hurt
      /\ out_of_step' = out_of_step
  BY <1>1 DEF lineVars
<1>3. TypeOK'
  <2>1. Sendable(driver)' = Sendable(driver) /\ HeaderLength(driver)' = HeaderLength(driver)
    BY <1>2
  <2>2. QED
    BY <1>1, <1>2, <2>1 DEF FrameInv, TypeOK
<1>4. Clean'
  BY <1>1, <1>2 DEF FrameInv, Clean
<1>5. ASSUME Whole PROVE InStep(sent[Len(sent)])'
  <2>1. PICK m : m = sent[Len(sent)] /\ InStep(m)
    BY <1>5 DEF FrameInv
  <2>2. \A p : StageAt(m, p) => StageAt(m, p)'
    BY <1>1, <1>2 DEF StageAt, HeaderIsOf, PayloadIsOf
  <2>3. InStep(m)'
    BY <1>1, <1>2, <2>1, <2>2 DEF InStep
  <2>4. QED
    BY <1>2, <2>1, <2>3
<1>6. QED
  BY <1>1, <1>3, <1>4, <1>5, LineKeeps

\* The line and the parser agree, whatever bytes are lost and wherever the line was opened.
THEOREM Frames_Invariant == Spec => []FrameInv
<1>1. ASSUME FrameInv, [Next]_vars PROVE FrameInv'
  <2>1. ASSUME NEW m \in Sendable(driver), Send(m) PROVE FrameInv'
    BY <1>1, <2>1, SendKeeps
  <2>2. QED
    BY <1>1, <2>1, LoseKeeps, BeginCallKeeps, EndCallKeeps, ReadSync0Keeps, ReadSync1Keeps,
       ReadHeaderKeeps, ReadPayloadKeeps, ReadCksumAKeeps, ReadCksumBKeeps, FrameStutterKeeps DEF Next
<1>2. QED
  BY <1>1, InitHolds, PTL DEF Spec

\* No frame that comes to a parser looking for one is missed: for all messages, any room
\* and any losses.
THEOREM Frames_Arrive == Spec => []FramesArrive
<1>1. FrameInv => FramesArrive
  BY DEF FrameInv
<1>2. QED
  BY <1>1, Frames_Invariant, PTL

-----------------------------------------------------------------------------
(* The byte parsers implement FrameDelivery *)

\* Nothing passes for a frame that is none: what is handed on is the frame whose last byte
\* was read, as it was sent where the driver answers for it.
SumsTell ==
  \A i \in DOMAIN accepted :
    /\ accepted[i].place # 0
    /\ Answers(accepted[i]) => accepted[i].payload = sent[accepted[i].place].payload

\* What FrameDelivery sees, where the sums tell.
Seen == [i \in DOMAIN accepted |->
           [place |-> accepted[i].place,
            payload |-> IF accepted[i].place = 0 \/ Answers(accepted[i]) THEN accepted[i].payload
                        ELSE sent[accepted[i].place].payload]]

\* What is handed on is in the past, and as it was sent.
SeenIsSent ==
  /\ Seen = [i \in DOMAIN accepted |->
               [place |-> accepted[i].place, payload |-> sent[accepted[i].place].payload]]
  /\ Len(accepted) \in Nat /\ DOMAIN accepted = 1 .. Len(accepted)
  /\ Len(sent) \in Nat /\ sent \in Seq(Messages)
  /\ \A i \in DOMAIN accepted : accepted[i].place \in 1 .. Len(sent)

LEMMA SeenIs ==
  ASSUME TypeOK, SumsTell
  PROVE  SeenIsSent
<1>1. \A i \in DOMAIN accepted :
        (IF accepted[i].place = 0 \/ Answers(accepted[i]) THEN accepted[i].payload
         ELSE sent[accepted[i].place].payload) = sent[accepted[i].place].payload
  BY DEF SumsTell
<1>2. Seen = [i \in DOMAIN accepted |->
                [place |-> accepted[i].place, payload |-> sent[accepted[i].place].payload]]
  BY <1>1 DEF Seen
<1>3. Len(accepted) \in Nat /\ DOMAIN accepted = 1 .. Len(accepted)
  BY DEF TypeOK
<1>4. Len(sent) \in Nat
  BY SentIs
<1>5. \A i \in DOMAIN accepted : accepted[i].place \in 1 .. Len(sent)
  BY <1>4, AcceptedIs DEF SumsTell
<1>6. sent \in Seq(Messages)
  <2>1. sent \in Seq(Sendable(driver)) /\ Sendable(driver) \subseteq Messages
    BY DEF TypeOK, Sendable
  <2>2. QED
    BY <2>1, SeqOfMore
<1>7. QED
  BY <1>2, <1>3, <1>4, <1>5, <1>6 DEF SeenIsSent

\* A step hands on the last frame sent, sends one, or shows nothing.
LEMMA FrameStep ==
  ASSUME FrameInv, [Next]_vars
  PROVE  \/ sent' = sent /\ accepted' = accepted
         \/ \E m \in Messages : sent' = Append(sent, m) /\ accepted' = accepted
         \/ /\ sent' = sent
            /\ \E r \in [place : 0 .. Len(sent), payload : Seq(Byte \cup {Garbage}), split : BOOLEAN] :
                 (r.place # 0 => r.place = Len(sent)) /\ accepted' = Append(accepted, r)
            /\ ReadCksumB /\ out # << >>
<1>1. CASE \E m \in Sendable(driver) : Send(m)
  BY <1>1 DEF Send, Sendable
<1>2. CASE Lose \/ BeginCall \/ EndCall \/ UNCHANGED vars
  BY <1>2 DEF Lose, BeginCall, EndCall, vars, lineVars
<1>3. CASE ReadSync0 \/ ReadSync1 \/ ReadHeader \/ ReadPayload \/ ReadCksumA
  BY <1>3 DEF ReadSync0, ReadSync1, ReadHeader, ReadPayload, ReadCksumA, Read
<1>4. CASE ReadCksumB
  <2>1. sent' = sent /\ out # << >>
    BY <1>4 DEF ReadCksumB, Read
  <2>2. QED
    BY <1>4, <2>1, HandedOn
<1>5. QED
  BY <1>1, <1>2, <1>3, <1>4 DEF Next

LEMMA DeliveryStep ==
  ASSUME FrameInv, SeenIsSent, SeenIsSent', [Next]_vars
  PROVE  [Delivery!Next]_<<sent, Seen>>
<1> DEFINE n == Len(accepted)
           Sent(a, s) == [place |-> a.place, payload |-> s[a.place].payload]
<1>1. /\ Seen = [i \in DOMAIN accepted |-> Sent(accepted[i], sent)]
      /\ n \in Nat /\ DOMAIN accepted = 1 .. n /\ Len(sent) \in Nat /\ sent \in Seq(Messages)
      /\ \A i \in DOMAIN accepted : accepted[i].place \in 1 .. Len(sent)
  BY DEF SeenIsSent
<1>2. /\ Seen' = [i \in DOMAIN accepted' |-> Sent(accepted'[i], sent')]
      /\ \A i \in DOMAIN accepted' : accepted'[i].place \in 1 .. Len(sent')
  BY DEF SeenIsSent
<1>3. CASE sent' = sent /\ accepted' = accepted
  BY <1>1, <1>2, <1>3
<1>4. ASSUME NEW m \in Messages, sent' = Append(sent, m), accepted' = accepted
      PROVE  Delivery!Send
  <2>1. \A k \in 1 .. Len(sent) : sent'[k] = sent[k]
    BY <1>1, <1>4
  <2>2. \A i \in DOMAIN accepted : Sent(accepted[i], sent) = Sent(accepted[i], sent')
    BY <1>1, <2>1
  <2>3. Seen' = Seen
    BY <1>1, <1>2, <1>4, <2>2
  <2>4. Delivery!Send <=> (\E s \in Messages : sent' = Append(sent, s)) /\ Seen' = Seen
    BY Zenon DEF Delivery!Send, Seen
  <2>5. QED
    BY <1>4, <2>3, <2>4
<1>5. ASSUME sent' = sent, out # << >>,
             NEW r \in [place : 0 .. Len(sent), payload : Seq(Byte \cup {Garbage}), split : BOOLEAN],
             r.place # 0 => r.place = Len(sent), accepted' = Append(accepted, r)
      PROVE  Delivery!Deliver
  <2>1. /\ DOMAIN accepted' = 1 .. n + 1 /\ n + 1 \in DOMAIN accepted'
        /\ \A i \in 1 .. n : accepted'[i] = accepted[i]
        /\ accepted'[n + 1] = r
    <3>1. accepted \in Seq([place : 0 .. Len(sent), payload : Seq(Byte \cup {Garbage}), split : BOOLEAN])
      BY DEF FrameInv, TypeOK
    <3>2. QED
      BY <1>1, <1>5, <3>1
  <2>2. r.place = Len(sent) /\ Len(sent) \in DOMAIN sent
    BY <1>1, <1>2, <1>5, <2>1
  <2>3. \A i \in DOMAIN accepted : accepted[i].place < Len(sent)
    BY <1>1, <1>5 DEF FrameInv, InThePast
  <2>4. PICK x : x = Sent(r, sent)
    OBVIOUS
  <2>5. Seen' = Append(Seen, x)
    <3>1. Len(Seen) = n /\ DOMAIN Seen = 1 .. n /\ \A i \in 1 .. n : Seen[i] = Sent(accepted[i], sent)
      BY <1>1
    <3>2. Append(Seen, x) = [i \in 1 .. n + 1 |-> IF i = n + 1 THEN x ELSE Seen[i]]
      <4>1. PICK S : S = {Seen[i] : i \in 1 .. n} \cup {x}
        OBVIOUS
      <4>2. Seen = [i \in 1 .. n |-> Seen[i]]
        BY <1>1
      <4>3. \A i \in 1 .. n : Seen[i] \in S
        BY <4>1
      <4>4. Seen \in Seq(S) /\ x \in S
        BY <1>1, <4>1, <4>2, <4>3
      <4>5. QED
        BY <1>1, <3>1, <4>4
    <3>3. \A i \in 1 .. n + 1 : Sent(accepted'[i], sent') = IF i = n + 1 THEN x ELSE Seen[i]
      BY <1>5, <2>1, <2>4, <3>1
    <3>4. QED
      BY <1>2, <2>1, <3>2, <3>3
  <2>6. \A i \in DOMAIN Seen : Seen[i].place < Len(sent)
    BY <1>1, <2>3
  <2>7. x = [place |-> Len(sent), payload |-> sent[Len(sent)].payload]
    BY <2>2, <2>4
  <2>8. Delivery!Deliver <=>
          /\ \E k \in DOMAIN sent :
               /\ \A i \in DOMAIN Seen : Seen[i].place < k
               /\ Seen' = Append(Seen, [place |-> k, payload |-> sent[k].payload])
          /\ sent' = sent
    BY Zenon DEF Delivery!Deliver, Seen
  <2>9. QED
    BY <1>5, <2>2, <2>5, <2>6, <2>7, <2>8
<1>6. QED
  BY <1>3, <1>4, <1>5, FrameStep DEF Delivery!Next, Seen

\* Where the sums tell, the frames are handed on in the order they were sent, each at most
\* once: the parsers implement FrameDelivery.
THEOREM Frames_Delivery == Spec /\ []SumsTell => ParsedInOrder
<1>1. Init => Delivery!Init
  <2> SUFFICES ASSUME Init PROVE Delivery!Init
    OBVIOUS
  <2>1. sent = << >> /\ accepted = << >>
    BY DEF Init
  <2>2. Seen = << >>
    BY <2>1 DEF Seen
  <2>3. QED
    BY <2>1, <2>2 DEF Delivery!Init, Seen
<1>2. FrameInv /\ SumsTell => SeenIsSent
  BY SeenIs DEF FrameInv
<1>3. FrameInv /\ SeenIsSent /\ SeenIsSent' /\ [Next]_vars => [Delivery!Next]_<<sent, Seen>>
  BY DeliveryStep
<1>4. QED
  BY <1>1, <1>2, <1>3, Frames_Invariant, PTL DEF Spec, ParsedInOrder, Delivery!Spec, Seen

LEMMA UndisturbedTells ==
  ASSUME FrameInv, SumsTell, Spoilt = {}, [Next]_vars
  PROVE  SumsTell'
<1> DEFINE n == Len(accepted)
           Tells(a, s) == a.place # 0 /\ (driver = "ardupilot" \/ ~a.split => a.payload = s[a.place].payload)
<1>1. /\ TypeOK /\ n \in Nat /\ DOMAIN accepted = 1 .. n /\ Len(sent) \in Nat /\ driver \in Drivers
      /\ sent \in Seq(Messages)
      /\ \A i \in DOMAIN accepted : accepted[i].place \in 1 .. Len(sent)
  BY SeenIs, SentIs DEF FrameInv, SeenIsSent
<1>2. \A i \in DOMAIN accepted : Tells(accepted[i], sent)
  BY DEF SumsTell, Answers
<1>3. driver' = driver
  BY DEF Next, Send, Lose, BeginCall, EndCall, ReadSync0, ReadSync1, ReadHeader, ReadPayload,
     ReadCksumA, ReadCksumB, Read, vars, lineVars
<1>4. SUFFICES \A i \in DOMAIN accepted' : Tells(accepted'[i], sent')
  BY <1>3 DEF SumsTell, Answers
<1>5. CASE sent' = sent /\ accepted' = accepted
  BY <1>2, <1>5
<1>6. ASSUME NEW m \in Messages, sent' = Append(sent, m), accepted' = accepted
      PROVE  \A i \in DOMAIN accepted' : Tells(accepted'[i], sent')
  <2>1. \A k \in 1 .. Len(sent) : sent'[k] = sent[k]
    BY <1>1, <1>6
  <2>2. QED
    BY <1>1, <1>2, <1>6, <2>1
<1>7. CASE ReadCksumB /\ sent' = sent /\ out # << >>
  <2>1. Whole
    <3>1. hurt = {} /\ sent # << >>
      BY <1>7 DEF FrameInv, Spoilt
    <3>2. out_of_step = {}
      BY DEF FrameInv
    <3>3. QED
      BY <3>1, <3>2 DEF Whole
  <2>2. /\ PlaceOf(header) = Len(sent) /\ Passes(Input)
        /\ (driver = "ublox5" /\ split) \/ payload = sent[Len(sent)].payload
    BY <1>7, <2>1, WholeFramePasses
  <2>3. PICK r \in [place : 0 .. Len(sent), payload : Seq(Byte \cup {Garbage}), split : BOOLEAN] :
          /\ r.place = PlaceOf(header) /\ r.payload = payload /\ r.split = split
          /\ accepted' = Append(accepted, r)
    BY <1>7, <2>2, HandedOn
  <2>4. Len(sent) # 0
    BY <1>1, <2>1 DEF Whole
  <2>5. Tells(r, sent)
    BY <1>1, <2>2, <2>3, <2>4 DEF Drivers
  <2>6. \A i \in DOMAIN accepted' : accepted'[i] = r \/ (i \in DOMAIN accepted /\ accepted'[i] = accepted[i])
    <3>1. PICK R : accepted \in Seq(R) /\ r \in R
      BY <1>1 DEF TypeOK
    <3>2. /\ \A i \in DOMAIN accepted : Append(accepted, r)[i] = accepted[i]
          /\ Append(accepted, r)[n + 1] = r
          /\ \A i \in DOMAIN Append(accepted, r) : i \in DOMAIN accepted \/ i = n + 1
      BY <3>1, AppendedIs
    <3>3. QED
      BY <2>3, <3>2
  <2>7. QED
    BY <1>2, <1>7, <2>5, <2>6
<1>8. QED
  BY <1>5, <1>6, <1>7, FrameStep

\* On a line that loses nothing, opened between two frames, of a receiver whose frames
\* have room, nothing at all has to be said of the sums.
THEOREM Frames_Undisturbed == Spec /\ [](Spoilt = {}) => ParsedInOrder
<1>1. Init => SumsTell
  <2> SUFFICES ASSUME Init PROVE SumsTell
    OBVIOUS
  <2>1. accepted = << >>
    BY DEF Init
  <2>2. QED
    BY <2>1 DEF SumsTell
<1>2. FrameInv /\ SumsTell /\ Spoilt = {} /\ [Next]_vars => SumsTell'
  BY UndisturbedTells
<1>3. Spec /\ [](Spoilt = {}) => []SumsTell
  BY <1>1, <1>2, Frames_Invariant, PTL DEF Spec
<1>4. QED
  BY <1>3, Frames_Delivery, PTL

-----------------------------------------------------------------------------
(* The MNAV board: the packets sent *)

SentPackets == UNION {{Packet(t, p) : p \in Payloads[t]} : t \in DOMAIN Payloads}

\* They are of the first n packets of ps, in order.
FromFirst(ps, n, seq) ==
  \E places \in [DOMAIN seq -> 1 .. n] :
    /\ \A i, j \in DOMAIN seq : i < j => places[i] < places[j]
    /\ \A i \in DOMAIN seq : seq[i] = ps[places[i]]

LEMMA FromFirstStays ==
  ASSUME NEW S, NEW ps \in Seq(S), NEW x \in S, NEW n \in Nat, NEW m \in Nat, n <= m, n <= Len(ps),
         NEW seq, FromFirst(ps, n, seq)
  PROVE  FromFirst(ps, m, seq) /\ FromFirst(Append(ps, x), n, seq)
<1>1. PICK places \in [DOMAIN seq -> 1 .. n] :
        /\ \A i, j \in DOMAIN seq : i < j => places[i] < places[j]
        /\ \A i \in DOMAIN seq : seq[i] = ps[places[i]]
  BY DEF FromFirst
<1>2. places \in [DOMAIN seq -> 1 .. m]
  OBVIOUS
<1>3. FromFirst(ps, m, seq)
  BY <1>1, <1>2 DEF FromFirst
<1>4. \A k \in 1 .. n : Append(ps, x)[k] = ps[k]
  OBVIOUS
<1>5. FromFirst(Append(ps, x), n, seq)
  BY <1>1, <1>4 DEF FromFirst
<1>6. QED
  BY <1>3, <1>5

LEMMA FromFirstAppend ==
  ASSUME NEW S, NEW ps \in Seq(S), NEW k \in 1 .. Len(ps), NEW seq \in Seq(S),
         FromFirst(ps, k - 1, seq)
  PROVE  FromFirst(ps, k, Append(seq, ps[k]))
<1> DEFINE n == Len(seq)
           next == Append(seq, ps[k])
<1>1. PICK places \in [DOMAIN seq -> 1 .. k - 1] :
        /\ \A i, j \in DOMAIN seq : i < j => places[i] < places[j]
        /\ \A i \in DOMAIN seq : seq[i] = ps[places[i]]
  BY DEF FromFirst
<1>2. /\ n \in Nat /\ DOMAIN seq = 1 .. n /\ DOMAIN next = 1 .. n + 1
      /\ next[n + 1] = ps[k] /\ \A i \in 1 .. n : next[i] = seq[i]
  OBVIOUS
<1> HIDE DEF next, n
<1> DEFINE more == [i \in 1 .. n + 1 |-> IF i = n + 1 THEN k ELSE places[i]]
<1>3. \A i \in 1 .. n : places[i] \in 1 .. k - 1
  BY <1>2
<1>4. more \in [1 .. n + 1 -> 1 .. k]
  BY <1>2, <1>3
<1>5. /\ more[n + 1] = k
      /\ \A i \in 1 .. n : more[i] = places[i]
  BY <1>2
<1>6. \A i \in 1 .. n + 1 : i = n + 1 \/ i \in 1 .. n
  BY <1>2
<1> HIDE DEF more
<1>7. \A i, j \in 1 .. n + 1 : i < j => more[i] < more[j]
  <2> SUFFICES ASSUME NEW i \in 1 .. n + 1, NEW j \in 1 .. n + 1, i < j PROVE more[i] < more[j]
    OBVIOUS
  <2>1. i \in 1 .. n
    BY <1>2
  <2>2. CASE j = n + 1
    BY <1>3, <1>5, <2>1, <2>2
  <2>3. CASE j # n + 1
    <3>1. j \in 1 .. n
      BY <1>6, <2>3
    <3>2. places[i] < places[j]
      BY <1>1, <1>2, <2>1, <3>1
    <3>3. QED
      BY <1>5, <2>1, <3>1, <3>2
  <2>4. QED
    BY <2>2, <2>3
<1>8. \A i \in 1 .. n + 1 : next[i] = ps[more[i]]
  BY <1>1, <1>2, <1>5, <1>6
<1>9. QED
  BY <1>2, <1>4, <1>7, <1>8 DEF FromFirst, next

-----------------------------------------------------------------------------
(* The MNAV board: what is published was sent *)

\* How many packets have come and gone.
Over == IF line = << >> THEN Len(packets) ELSE Len(packets) - 1

\* Before the call that decoded data ends, the node has packets that are earlier.
Pending(node, valid, data) ==
  IF reading /\ valid
  THEN \E k \in 1 .. Over : data = packets[k] /\ FromFirst(packets, k - 1, node)
  ELSE FromFirst(packets, Over, node)

MnavInv ==
  /\ packets \in Seq(SentPackets)
  /\ line # << >> => packets # << >>
  /\ imu_node \in Seq(SentPackets) /\ Pending(imu_node, imu_data_valid, imu_data)
  /\ gps_node \in Seq(SentPackets) /\ Pending(gps_node, gps_data_valid, gps_data)
  /\ gps_data_valid => gps_data[3] \in FullTypes
  /\ \A i \in DOMAIN gps_node : gps_node[i][3] \in FullTypes

\* The sum of 16 bits tells a packet from other bytes: what passes is the packet that is
\* being sent, at its end.
MnavSumsTell ==
  reading /\ line # << >> /\ input_buffer # << >> =>
    LET p == Append(input_buffer, Head(line))
    IN  ~ (Len(p) < LengthOf(p[3])) /\ checksum(p) => p = packets[Len(packets)] /\ Tail(line) = << >>

\* What has come and gone leaves Pending as it was, unless the call is over.
LEMMA PendingFirst ==
  ASSUME NEW node, NEW valid, NEW data, packets \in Seq(SentPackets),
         line # << >> => packets # << >>, Pending(node, valid, data)
  PROVE  FromFirst(packets, Over, node) /\ Over \in 0 .. Len(packets)
<1>1. Over \in 0 .. Len(packets) /\ Over \in Nat
  BY DEF Over
<1>2. CASE reading /\ valid
  <2>1. PICK k \in 1 .. Over : FromFirst(packets, k - 1, node)
    BY <1>2 DEF Pending
  <2>2. k - 1 \in Nat /\ k - 1 <= Over /\ k - 1 <= Len(packets) /\ k \in 1 .. Len(packets)
    BY <1>1
  <2>3. PICK x : x \in SentPackets
    BY <2>2
  <2>4. QED
    BY <1>1, <2>1, <2>2, <2>3, FromFirstStays
<1>3. CASE ~ (reading /\ valid)
  BY <1>1, <1>3 DEF Pending
<1>4. QED
  BY <1>2, <1>3

\* The line, the nodes and what is pending of them after a step that neither sends a packet
\* nor decodes one.
LEMMA MnavKeeps ==
  ASSUME MnavInv, packets' = packets, Over' >= Over, Over' \in Nat, line' # << >> => line # << >>,
         UNCHANGED <<reading, imu_data, gps_data, imu_data_valid, gps_data_valid, imu_node, gps_node>>
  PROVE  MnavInv'
<1>1. Over \in 0 .. Len(packets) /\ Over' \in 0 .. Len(packets)
  <2>1. Over' <= Len(packets')
    BY DEF MnavInv, Over
  <2>2. QED
    BY <2>1 DEF MnavInv, Over
<1>2. ASSUME NEW node, NEW valid, NEW data, Pending(node, valid, data)
      PROVE  IF reading /\ valid
             THEN \E k \in 1 .. Over' : data = packets[k] /\ FromFirst(packets, k - 1, node)
             ELSE FromFirst(packets, Over', node)
  <2>1. CASE reading /\ valid
    BY <1>1, <1>2, <2>1 DEF Pending
  <2>2. CASE ~ (reading /\ valid)
    <3>1. FromFirst(packets, Over, node)
      BY <1>2, <2>2 DEF Pending
    <3>2. CASE Over' = Over
      BY <2>2, <3>1, <3>2
    <3>3. CASE Over' # Over
      <4>1. PICK x : x \in SentPackets
        BY <1>1, <3>3 DEF MnavInv
      <4>2. FromFirst(packets, Over', node)
        BY <1>1, <3>1, <4>1, FromFirstStays DEF MnavInv
      <4>3. QED
        BY <2>2, <4>2
    <3>4. QED
      BY <3>2, <3>3
  <2>3. QED
    BY <2>1, <2>2
<1>3. Pending(imu_node, imu_data_valid, imu_data)' /\ Pending(gps_node, gps_data_valid, gps_data)'
  BY <1>2 DEF MnavInv, Pending
<1>4. QED
  BY <1>3 DEF MnavInv

LEMMA SendKeepsMnav ==
  ASSUME MnavInv, NEW t \in DOMAIN Payloads, NEW p \in Payloads[t], SendPacket(t, p)
  PROVE  MnavInv'
<1>1. Packet(t, p) \in SentPackets
  BY DEF SentPackets
<1>2. PICK x \in SentPackets : packets' = Append(packets, x) /\ line' = x /\ line = << >>
  BY <1>1 DEF SendPacket
<1>3. UNCHANGED <<reading, imu_data, gps_data, imu_data_valid, gps_data_valid, imu_node, gps_node>>
  BY DEF SendPacket, readVars, dataVars, nodeVars
<1>4. /\ packets \in Seq(SentPackets) /\ packets' \in Seq(SentPackets) /\ packets' # << >>
      /\ Len(packets') = Len(packets) + 1 /\ Len(packets) \in Nat
      /\ \A k \in 1 .. Len(packets) : packets'[k] = packets[k]
  BY <1>2 DEF MnavInv
<1>5. Over = Len(packets) /\ Over' \in {Over, Over + 1}
  BY <1>2, <1>4 DEF Over
<1>6. ASSUME NEW node, NEW valid, NEW data, Pending(node, valid, data)
      PROVE  IF reading /\ valid
             THEN \E k \in 1 .. Over' : data = packets'[k] /\ FromFirst(packets', k - 1, node)
             ELSE FromFirst(packets', Over', node)
  <2>1. CASE reading /\ valid
    <3>1. PICK k \in 1 .. Over : data = packets[k] /\ FromFirst(packets, k - 1, node)
      BY <1>6, <2>1 DEF Pending
    <3>2. k - 1 \in Nat /\ k - 1 <= Len(packets) /\ k \in 1 .. Over' /\ k \in 1 .. Len(packets)
      BY <1>4, <1>5
    <3>3. FromFirst(packets', k - 1, node)
      BY <1>2, <1>4, <3>1, <3>2, FromFirstStays
    <3>4. QED
      BY <1>4, <2>1, <3>1, <3>2, <3>3
  <2>2. CASE ~ (reading /\ valid)
    <3>1. FromFirst(packets, Over, node)
      BY <1>6, <2>2 DEF Pending
    <3>2. FromFirst(packets', Over, node)
      BY <1>2, <1>4, <1>5, <3>1, FromFirstStays
    <3>3. FromFirst(packets', Over', node)
      <4>1. Over \in Nat /\ Over' \in Nat /\ Over <= Over' /\ Over <= Len(packets')
        BY <1>4, <1>5
      <4>2. QED
        BY <1>2, <1>4, <3>2, <4>1, FromFirstStays
    <3>4. QED
      BY <2>2, <3>3
  <2>3. QED
    BY <2>1, <2>2
<1>7. Pending(imu_node, imu_data_valid, imu_data)' /\ Pending(gps_node, gps_data_valid, gps_data)'
  BY <1>3, <1>6 DEF MnavInv, Pending
<1>8. QED
  BY <1>3, <1>4, <1>7 DEF MnavInv

LEMMA BeginKeepsMnav ==
  ASSUME MnavInv, BeginRead
  PROVE  MnavInv'
<1>1. /\ UNCHANGED <<packets, line, imu_node, gps_node>> /\ ~imu_data_valid' /\ ~gps_data_valid'
      /\ ~reading
  BY DEF BeginRead, nodeVars
<1>2. FromFirst(packets, Over, imu_node) /\ FromFirst(packets, Over, gps_node) /\ Over' = Over
  BY <1>1 DEF MnavInv, Pending, Over
<1>3. Pending(imu_node, imu_data_valid, imu_data)' /\ Pending(gps_node, gps_data_valid, gps_data)'
  BY <1>1, <1>2 DEF Pending
<1>4. QED
  BY <1>1, <1>3 DEF MnavInv

\* What the end of a call gives a node.
LEMMA PublishedIs ==
  ASSUME NEW node \in Seq(SentPackets), NEW valid, NEW data, Pending(node, valid, data),
         packets \in Seq(SentPackets), line # << >> => packets # << >>, reading, valid
  PROVE  /\ Append(node, data) \in Seq(SentPackets)
         /\ FromFirst(packets, Over, Append(node, data))
<1>1. PICK k \in 1 .. Over : data = packets[k] /\ FromFirst(packets, k - 1, node)
  BY DEF Pending
<1>2. Over \in Nat /\ Over <= Len(packets) /\ k \in 1 .. Len(packets) /\ data \in SentPackets
  <2>1. Over \in 0 .. Len(packets)
    BY PendingFirst
  <2>2. QED
    BY <1>1, <2>1
<1>3. FromFirst(packets, k, Append(node, data))
  BY <1>1, <1>2, FromFirstAppend
<1>4. FromFirst(packets, Over, Append(node, data))
  BY <1>2, <1>3, FromFirstStays
<1>5. QED
  BY <1>2, <1>4

LEMMA EndKeepsMnav ==
  ASSUME MnavInv, EndRead
  PROVE  MnavInv'
<1>1. /\ UNCHANGED <<packets, line, imu_data, gps_data, imu_data_valid, gps_data_valid>>
      /\ reading /\ ~reading'
      /\ imu_node' = IF imu_data_valid THEN Append(imu_node, imu_data) ELSE imu_node
      /\ gps_node' = IF gps_data_valid THEN Append(gps_node, gps_data) ELSE gps_node
  BY DEF EndRead, dataVars
<1>2. Over' = Over
  BY <1>1 DEF Over
<1>3. imu_node' \in Seq(SentPackets) /\ FromFirst(packets, Over, imu_node')
  <2>1. CASE imu_data_valid
    BY <1>1, <2>1, PublishedIs DEF MnavInv
  <2>2. CASE ~imu_data_valid
    BY <1>1, <2>2 DEF MnavInv, Pending
  <2>3. QED
    BY <2>1, <2>2
<1>4. /\ gps_node' \in Seq(SentPackets) /\ FromFirst(packets, Over, gps_node')
      /\ \A i \in DOMAIN gps_node' : gps_node'[i][3] \in FullTypes
  <2>1. CASE gps_data_valid
    <3>1. gps_node' = Append(gps_node, gps_data) /\ gps_data[3] \in FullTypes
      BY <1>1, <2>1 DEF MnavInv
    <3>2. gps_node' \in Seq(SentPackets) /\ FromFirst(packets, Over, gps_node')
      BY <1>1, <2>1, <3>1, PublishedIs DEF MnavInv
    <3>3. \A i \in DOMAIN gps_node' : gps_node'[i] = gps_data \/ (i \in DOMAIN gps_node /\ gps_node'[i] = gps_node[i])
      BY <3>1 DEF MnavInv
    <3>4. QED
      BY <3>1, <3>2, <3>3 DEF MnavInv
  <2>2. CASE ~gps_data_valid
    BY <1>1, <2>2 DEF MnavInv, Pending
  <2>3. QED
    BY <2>1, <2>2
<1>5. Pending(imu_node, imu_data_valid, imu_data)' /\ Pending(gps_node, gps_data_valid, gps_data)'
  BY <1>1, <1>2, <1>3, <1>4 DEF Pending
<1>6. QED
  BY <1>1, <1>3, <1>4, <1>5 DEF MnavInv

LEMMA DataKeepsMnav ==
  ASSUME MnavInv, MnavSumsTell, ReadData
  PROVE  MnavInv'
<1> DEFINE p == Append(input_buffer, Head(line))
           n == Len(packets)
<1>1. /\ reading /\ line # << >> /\ line' = Tail(line) /\ input_buffer # << >>
      /\ UNCHANGED <<packets, reading, imu_node, gps_node>>
      /\ \/ UNCHANGED <<imu_data, gps_data, imu_data_valid, gps_data_valid>>
         \/ ~ (Len(p) < LengthOf(p[3])) /\ checksum(p) /\ Decode(p)
  BY DEF ReadData, NextByte, nodeVars, dataVars
<1>2. packets \in Seq(SentPackets) /\ packets # << >> /\ n \in Nat \ {0} /\ Over = n - 1
  BY <1>1 DEF MnavInv, Over
<1>3. Over' \in {n - 1, n}
  BY <1>1, <1>2 DEF Over
<1>4. CASE UNCHANGED <<imu_data, gps_data, imu_data_valid, gps_data_valid>>
  BY <1>1, <1>2, <1>3, <1>4, MnavKeeps
<1>5. CASE ~ (Len(p) < LengthOf(p[3])) /\ checksum(p) /\ Decode(p)
  <2>1. p = packets[n] /\ line' = << >>
    BY <1>1, <1>5 DEF MnavSumsTell
  <2>2. Over' = n
    BY <1>1, <2>1 DEF Over
  <2>3. FromFirst(packets, n - 1, imu_node) /\ FromFirst(packets, n - 1, gps_node)
    BY <1>2, PendingFirst DEF MnavInv
  <2>4. PICK q : q = p
    OBVIOUS
  <2>5. n \in 1 .. n /\ q = packets[n]
    BY <1>2, <2>1, <2>4
  <2>6. imu_data' = q /\ imu_data_valid'
    BY <1>5, <2>4 DEF Decode
  <2>7. Pending(imu_node, imu_data_valid, imu_data)'
    BY <1>1, <2>2, <2>3, <2>5, <2>6 DEF Pending
  <2>8. /\ Pending(gps_node, gps_data_valid, gps_data)'
        /\ gps_data_valid' => gps_data'[3] \in FullTypes
    <3>1. CASE q[3] \in FullTypes /\ gps_data' = q /\ gps_data_valid'
      BY <1>1, <2>2, <2>3, <2>5, <3>1 DEF Pending
    <3>2. CASE UNCHANGED <<gps_data, gps_data_valid>>
      <4>1. gps_data_valid' => gps_data'[3] \in FullTypes
        BY <3>2 DEF MnavInv
      <4>2. CASE gps_data_valid
        <5>1. PICK k \in 1 .. Over : gps_data = packets[k] /\ FromFirst(packets, k - 1, gps_node)
          BY <1>1, <4>2 DEF MnavInv, Pending
        <5>2. k \in 1 .. n
          BY <1>2
        <5>3. QED
          BY <1>1, <2>2, <3>2, <4>1, <4>2, <5>1, <5>2 DEF Pending
      <4>3. CASE ~gps_data_valid
        <5>1. FromFirst(packets, n, gps_node)
          <6>1. n - 1 \in Nat /\ n \in Nat /\ n - 1 <= n /\ n - 1 <= Len(packets) /\ q \in SentPackets
            BY <1>2, <2>5
          <6>2. QED
            BY <1>2, <2>3, <6>1, FromFirstStays
        <5>2. QED
          BY <1>1, <2>2, <3>2, <4>1, <4>3, <5>1 DEF Pending
      <4>4. QED
        BY <4>2, <4>3
    <3>3. QED
      BY <1>5, <2>4, <3>1, <3>2 DEF Decode
  <2>9. QED
    BY <1>1, <2>1, <2>7, <2>8 DEF MnavInv
<1>6. QED
  BY <1>1, <1>4, <1>5

LEMMA MnavStep ==
  ASSUME MnavInv, MnavSumsTell, [MnavNext]_mnavVars
  PROVE  MnavInv'
<1>1. CASE UNCHANGED mnavVars
  <2>1. Over' = Over /\ Over \in Nat
    BY <1>1 DEF mnavVars, Over, MnavInv
  <2>2. QED
    BY <1>1, <2>1, MnavKeeps DEF mnavVars, readVars, dataVars, nodeVars
<1>2. ASSUME NEW t \in DOMAIN Payloads, NEW p \in Payloads[t], SendPacket(t, p)
      PROVE  MnavInv'
  BY <1>2, SendKeepsMnav
<1>3. ASSUME UNCHANGED <<packets, reading, nodeVars, imu_data, gps_data, imu_data_valid, gps_data_valid>>,
             line' = line \/ (line # << >> /\ line' = Tail(line))
      PROVE  MnavInv'
  <2>1. Over \in Nat /\ Over' \in Nat /\ Over' >= Over
    BY <1>3 DEF MnavInv, Over
  <2>2. line' # << >> => line # << >>
    BY <1>3
  <2>3. QED
    BY <1>3, <2>1, <2>2, MnavKeeps DEF nodeVars
<1>4. CASE DropByte
  BY <1>3, <1>4 DEF DropByte, readVars, dataVars
<1>5. CASE BeginRead
  BY <1>5, BeginKeepsMnav
<1>6. CASE ReadSync
  BY <1>3, <1>6 DEF ReadSync, NextByte, dataVars
<1>7. CASE ReadType
  BY <1>3, <1>7 DEF ReadType, NextByte, dataVars
<1>8. CASE ReadData
  BY <1>8, DataKeepsMnav
<1>9. CASE EndRead
  BY <1>9, EndKeepsMnav
<1>10. CASE SendServo
  BY <1>3, <1>10 DEF SendServo, readVars, dataVars
<1>11. QED
  BY <1>1, <1>2, <1>4, <1>5, <1>6, <1>7, <1>8, <1>9, <1>10 DEF MnavNext, ReadNext

\* Where the sum tells, what the MNAV board's nodes are given was sent, whole, in order and
\* each packet at most once, whatever the line drops and wherever the calls end.
THEOREM Mnav_AsSent == MnavSpec /\ []MnavSumsTell => []MnavAsSent
<1>1. MnavInit => MnavInv
  <2> SUFFICES ASSUME MnavInit PROVE MnavInv
    OBVIOUS
  <2>1. /\ packets = << >> /\ line = << >> /\ imu_node = << >> /\ gps_node = << >>
        /\ ~imu_data_valid /\ ~gps_data_valid
    BY DEF MnavInit
  <2>2. \A n : FromFirst(packets, n, << >>)
    <3>1. << >> \in [{} -> {}] /\ DOMAIN << >> = {}
      OBVIOUS
    <3>2. \A n : << >> \in [DOMAIN << >> -> 1 .. n]
      OBVIOUS
    <3>3. QED
      BY <3>1, <3>2 DEF FromFirst
  <2>3. QED
    BY <2>1, <2>2 DEF MnavInv, Pending
<1>2. MnavInv /\ MnavSumsTell /\ [MnavNext]_mnavVars => MnavInv'
  BY MnavStep
<1>3. MnavInv => MnavAsSent
  <2> SUFFICES ASSUME MnavInv PROVE MnavAsSent
    OBVIOUS
  <2>1. /\ FromFirst(packets, Over, imu_node) /\ FromFirst(packets, Over, gps_node)
        /\ Over \in 0 .. Len(packets)
    BY PendingFirst DEF MnavInv
  <2>2. ASSUME NEW node, FromFirst(packets, Over, node) PROVE WereSent(node)
    <3>1. PICK places \in [DOMAIN node -> 1 .. Over] :
            /\ \A i, j \in DOMAIN node : i < j => places[i] < places[j]
            /\ \A i \in DOMAIN node : node[i] = packets[places[i]]
      BY <2>2 DEF FromFirst
    <3>2. DOMAIN packets = 1 .. Len(packets)
      BY DEF MnavInv
    <3>3. places \in [DOMAIN node -> DOMAIN packets]
      BY <2>1, <3>2
    <3>4. QED
      BY <3>1, <3>3 DEF WereSent
  <2>3. QED
    BY <2>1, <2>2 DEF MnavAsSent, MnavInv
<1>4. QED
  BY <1>1, <1>2, <1>3, PTL DEF MnavSpec

-----------------------------------------------------------------------------
(* The MNAV board: a line that loses nothing *)

\* The bytes after the first n of a packet.
LEMMA RestOf ==
  ASSUME NEW S, NEW q \in Seq(S), NEW n \in 0 .. Len(q) - 1
  PROVE  /\ Head(SubSeq(q, n + 1, Len(q))) = q[n + 1]
         /\ Tail(SubSeq(q, n + 1, Len(q))) = SubSeq(q, n + 2, Len(q))
         /\ Append(SubSeq(q, 1, n), q[n + 1]) = SubSeq(q, 1, n + 1)
         /\ SubSeq(q, n + 2, Len(q)) = << >> <=> n + 1 = Len(q)
         /\ n + 1 = Len(q) => SubSeq(q, 1, n + 1) = q
<1> DEFINE m == Len(q)
           r == SubSeq(q, n + 1, m)
<1>1. /\ m \in Nat /\ n \in Nat /\ n + 1 <= m /\ DOMAIN q = 1 .. m
      /\ r \in Seq(S) /\ Len(r) = m - n /\ \A i \in 1 .. m - n : r[i] = q[n + i]
  OBVIOUS
<1>2. Head(r) = q[n + 1] /\ r # << >>
  <2>1. PICK u : u = r
    OBVIOUS
  <2> HIDE DEF r
  <2>2. Len(u) > 0 /\ u[1] = q[n + 1]
    BY <1>1, <2>1
  <2>3. QED
    BY <1>1, <2>1, <2>2
<1>3. Tail(r) = SubSeq(q, n + 2, m)
  <2>1. Tail(r) \in Seq(S) /\ Len(Tail(r)) = m - n - 1 /\ \A i \in 1 .. m - n - 1 : Tail(r)[i] = r[i + 1]
    BY <1>1, <1>2
  <2>2. /\ SubSeq(q, n + 2, m) \in Seq(S) /\ Len(SubSeq(q, n + 2, m)) = m - n - 1
        /\ \A i \in 1 .. m - n - 1 : SubSeq(q, n + 2, m)[i] = q[n + i + 1]
    OBVIOUS
  <2> HIDE DEF r, m
  <2>3. ASSUME NEW i \in 1 .. m - n - 1 PROVE Tail(r)[i] = SubSeq(q, n + 2, m)[i]
    <3>1. i + 1 \in 1 .. m - n /\ n + (i + 1) = n + i + 1
      BY <1>1
    <3>2. r[i + 1] = q[n + i + 1]
      BY <1>1, <3>1
    <3>3. QED
      BY <2>1, <2>2, <3>2
  <2>4. QED
    BY <2>1, <2>2, <2>3, SeqEqual
<1>4. /\ Append(SubSeq(q, 1, n), q[n + 1]) \in Seq(S) /\ Len(Append(SubSeq(q, 1, n), q[n + 1])) = n + 1
      /\ \A i \in 1 .. n + 1 : Append(SubSeq(q, 1, n), q[n + 1])[i] = q[i]
  BY <1>1
<1>5. /\ SubSeq(q, 1, n + 1) \in Seq(S) /\ Len(SubSeq(q, 1, n + 1)) = n + 1
      /\ \A i \in 1 .. n + 1 : SubSeq(q, 1, n + 1)[i] = q[i]
  BY <1>1
<1>6. Append(SubSeq(q, 1, n), q[n + 1]) = SubSeq(q, 1, n + 1)
  BY <1>4, <1>5, SeqEqual
<1>7. SubSeq(q, n + 2, m) = << >> <=> n + 1 = m
  <2>1. SubSeq(q, n + 2, m) \in Seq(S) /\ Len(SubSeq(q, n + 2, m)) = m - n - 1
    OBVIOUS
  <2>2. PICK u : u = SubSeq(q, n + 2, m)
    OBVIOUS
  <2> HIDE DEF m
  <2>3. u = << >> <=> m - n - 1 = 0
    <3>1. u \in Seq(S) /\ Len(u) = m - n - 1
      BY <2>1, <2>2
    <3>2. QED
      BY <3>1, EmptySeq
  <2>4. QED
    BY <1>1, <2>2, <2>3
<1>8. n + 1 = m => SubSeq(q, 1, n + 1) = q
  BY SubSeqFull
<1>9. QED
  BY <1>2, <1>3, <1>6, <1>7, <1>8

LEMMA PacketIs ==
  ASSUME NEW q \in SentPackets
  PROVE  \E S : /\ q \in Seq(S) /\ q[1] = SyncByte /\ q[2] = SyncByte /\ q[3] \in Types
                /\ Len(q) = LengthOf(q[3]) /\ Len(q) > 5
<1>1. PICK t \in DOMAIN Payloads : \E p \in Payloads[t] : q = Packet(t, p)
  BY DEF SentPackets
<1>2. PICK p \in Payloads[t] : q = Packet(t, p)
  BY <1>1
<1>3. PICK a, b : q = <<SyncByte, SyncByte, t>> \o p \o <<a, b>>
  BY <1>2 DEF Packet
<1>4. t \in Types /\ p \in Seq(0 .. 255) /\ Len(p) = LengthOf(t) - 5
  <2>1. DOMAIN Payloads \subseteq Types
    BY PayloadAssumption
  <2>2. \A u \in DOMAIN Payloads : \A x \in Payloads[u] : x \in Seq(0 .. 255) /\ Len(x) = LengthOf(u) - 5
    BY PayloadAssumption
  <2>3. QED
    BY <2>1, <2>2
<1>5. LengthOf(t) \in Int /\ LengthOf(t) > 5
  <2>1. SensorLength \in Nat /\ FullLength \in Nat /\ 5 < SensorLength /\ SensorLength < FullLength
    BY LengthAssumption
  <2>2. QED
    BY <2>1 DEF LengthOf
<1> DEFINE S == (0 .. 255) \cup {SyncByte, t, a, b}
<1>6. p \in Seq(S) /\ <<SyncByte, SyncByte, t>> \in Seq(S) /\ <<a, b>> \in Seq(S)
  BY <1>4
<1> HIDE DEF S
<1>7. q \in Seq(S) /\ Len(q) = LengthOf(t) /\ q[1] = SyncByte /\ q[2] = SyncByte /\ q[3] = t
  BY <1>3, <1>4, <1>5, <1>6
<1>8. QED
  BY <1>4, <1>5, <1>7

\* The parser has the first n bytes of the packet that the line has the rest of.
InPacket(q, n) ==
  /\ line = SubSeq(q, n + 1, Len(q))
  /\ IF n < 3 THEN input_buffer = << >> /\ headerOK = n
     ELSE input_buffer = SubSeq(q, 1, n) /\ headerOK = 0

MnavInStep ==
  /\ packets \in Seq(SentPackets)
  /\ ~reading => headerOK = 0
  /\ IF line = << >> THEN input_buffer = << >> /\ headerOK = 0
     ELSE packets # << >> /\ \E n \in 0 .. Len(packets[Len(packets)]) - 1 : InPacket(packets[Len(packets)], n)

LEMMA InStepTells ==
  ASSUME MnavInStep
  PROVE  MnavSumsTell
<1> SUFFICES ASSUME line # << >>, input_buffer # << >>,
                    ~ (Len(Append(input_buffer, Head(line))) < LengthOf(Append(input_buffer, Head(line))[3]))
             PROVE  Append(input_buffer, Head(line)) = packets[Len(packets)] /\ Tail(line) = << >>
  BY DEF MnavSumsTell
<1>1. PICK q : q = packets[Len(packets)] /\ q \in SentPackets
  BY DEF MnavInStep
<1>2. PICK n \in 0 .. Len(q) - 1 : InPacket(q, n)
  BY <1>1 DEF MnavInStep
<1>3. PICK S : /\ q \in Seq(S) /\ Len(q) = LengthOf(q[3]) /\ Len(q) > 5
  BY <1>1, PacketIs
<1>4. n >= 3 /\ line = SubSeq(q, n + 1, Len(q)) /\ input_buffer = SubSeq(q, 1, n)
  BY <1>2 DEF InPacket
<1>5. Append(input_buffer, Head(line)) = SubSeq(q, 1, n + 1) /\ Tail(line) = SubSeq(q, n + 2, Len(q))
  BY <1>3, <1>4, RestOf
<1>6. Len(SubSeq(q, 1, n + 1)) = n + 1 /\ SubSeq(q, 1, n + 1)[3] = q[3]
  BY <1>3, <1>4
<1>7. n + 1 = Len(q)
  <2>1. ~ (n + 1 < LengthOf(q[3]))
    BY <1>5, <1>6
  <2>2. QED
    BY <1>3, <2>1
<1>8. QED
  BY <1>1, <1>3, <1>5, <1>7, RestOf

\* A call that ends has no sync byte of a packet whose type it has not read.
EndsOutsideSync == reading /\ ~reading' => headerOK = 0

LEMMA InStepStep ==
  ASSUME MnavInStep, dropped_bytes = 0, (dropped_bytes = 0)', EndsOutsideSync, [MnavNext]_mnavVars
  PROVE  MnavInStep'
<1>1. CASE UNCHANGED <<packets, line, input_buffer, headerOK>> /\ (~reading' => headerOK' = 0)
  BY <1>1 DEF MnavInStep, InPacket
<1>2. CASE UNCHANGED mnavVars \/ BeginRead \/ EndRead \/ SendServo
  <2>1. UNCHANGED <<packets, line, input_buffer>>
    BY <1>2 DEF mnavVars, BeginRead, EndRead, SendServo, readVars
  <2>2. headerOK' = headerOK /\ (~reading' => headerOK' = 0)
    <3>1. CASE BeginRead
      BY <3>1 DEF BeginRead, MnavInStep
    <3>2. CASE EndRead
      BY <3>2 DEF EndRead, EndsOutsideSync
    <3>3. CASE UNCHANGED mnavVars \/ SendServo
      BY <3>3 DEF mnavVars, SendServo, readVars, MnavInStep
    <3>4. QED
      BY <1>2, <3>1, <3>2, <3>3
  <2>3. QED
    BY <1>1, <2>1, <2>2
<1>3. ASSUME NEW t \in DOMAIN Payloads, NEW p \in Payloads[t], SendPacket(t, p)
      PROVE  MnavInStep'
  <2>1. PICK q \in SentPackets : q = Packet(t, p)
    BY DEF SentPackets
  <2>2. /\ line = << >> /\ packets' = Append(packets, q) /\ line' = q
        /\ input_buffer' = input_buffer /\ headerOK' = headerOK
    BY <1>3, <2>1 DEF SendPacket, readVars
  <2>3. packets \in Seq(SentPackets) /\ input_buffer = << >> /\ headerOK = 0
    BY <2>2 DEF MnavInStep
  <2>4. packets' \in Seq(SentPackets) /\ packets' # << >> /\ packets'[Len(packets')] = q
    BY <2>2, <2>3
  <2>5. PICK S : q \in Seq(S) /\ Len(q) > 5
    BY PacketIs
  <2>6. SubSeq(q, 1, Len(q)) = q /\ 0 \in 0 .. Len(q) - 1 /\ q # << >> /\ 0 + 1 = 1
    BY <2>5, SubSeqFull
  <2>7. InPacket(q, 0)'
    BY <2>2, <2>3, <2>6 DEF InPacket
  <2>8. QED
    BY <2>2, <2>4, <2>6, <2>7 DEF MnavInStep
<1>4. CASE DropByte
  BY <1>4 DEF DropByte
<1>5. CASE ReadSync \/ ReadType \/ ReadData
  <2>1. line # << >> /\ line' = Tail(line) /\ packets' = packets /\ reading'
    BY <1>5 DEF ReadSync, ReadType, ReadData, NextByte
  <2>2. PICK q \in SentPackets : q = packets[Len(packets)]
    BY <2>1 DEF MnavInStep
  <2>3. PICK n \in 0 .. Len(q) - 1 : InPacket(q, n)
    BY <2>1, <2>2 DEF MnavInStep
  <2>4. PICK S : /\ q \in Seq(S) /\ q[1] = SyncByte /\ q[2] = SyncByte /\ q[3] \in Types
                 /\ Len(q) = LengthOf(q[3]) /\ Len(q) > 5
    BY PacketIs
  <2>5. /\ Head(line) = q[n + 1] /\ line' = SubSeq(q, n + 2, Len(q))
        /\ n < 3 => input_buffer = << >> /\ headerOK = n
        /\ n >= 3 => input_buffer = SubSeq(q, 1, n) /\ headerOK = 0 /\ input_buffer # << >>
    <3>1. n >= 3 => SubSeq(q, 1, n) # << >>
      <4>1. Len(SubSeq(q, 1, n)) = n
        BY <2>4
      <4>2. QED
        BY <4>1
    <3>2. /\ Head(SubSeq(q, n + 1, Len(q))) = q[n + 1]
          /\ Tail(SubSeq(q, n + 1, Len(q))) = SubSeq(q, n + 2, Len(q))
      BY <2>4, RestOf
    <3>3. ~ (n >= 3 /\ n < 3) /\ (n < 3 \/ n >= 3)
      OBVIOUS
    <3>4. QED
      BY <2>1, <2>3, <3>1, <3>2, <3>3 DEF InPacket
  <2>6. SUFFICES IF line' = << >> THEN input_buffer' = << >> /\ headerOK' = 0
                 ELSE n + 1 \in 0 .. Len(q) - 1 /\ InPacket(q, n + 1)'
    BY <2>1, <2>2 DEF MnavInStep
  <2>7. line' = << >> <=> n + 1 = Len(q)
    BY <2>4, <2>5, RestOf
  <2>8. (n + 1) + 1 = n + 2 /\ (n + 1 # Len(q) => n + 1 \in 0 .. Len(q) - 1)
    BY <2>4
  <2>9. CASE n < 2
    <3>1. Head(line) = SyncByte /\ n + 1 # Len(q) /\ n + 1 < 3 /\ n # 2
      BY <2>4, <2>5, <2>9
    <3>2. input_buffer' = << >> /\ headerOK' = n + 1
      BY <1>5, <2>5, <2>9, <3>1 DEF ReadSync, ReadType, ReadData
    <3>3. QED
      BY <2>5, <2>7, <2>8, <3>1, <3>2 DEF InPacket
  <2>10. CASE n = 2
    <3>1. Head(line) = q[3] /\ 3 # Len(q) /\ q[3] \in Types
      BY <2>4, <2>5, <2>10
    <3>2. input_buffer' = <<SyncByte, SyncByte, q[3]>> /\ headerOK' = 0
      BY <1>5, <2>5, <2>10, <3>1 DEF ReadSync, ReadType, ReadData
    <3>3. SubSeq(q, 1, 3) = <<q[1], q[2], q[3]>>
      <4>1. /\ SubSeq(q, 1, 3) \in Seq(S) /\ Len(SubSeq(q, 1, 3)) = 3
            /\ \A i \in 1 .. 3 : SubSeq(q, 1, 3)[i] = q[i]
        BY <2>4
      <4>2. PICK a \in S, b \in S, c \in S : a = q[1] /\ b = q[2] /\ c = q[3]
        BY <2>4
      <4>3. <<a, b, c>> \in Seq(S) /\ Len(<<a, b, c>>) = 3
        OBVIOUS
      <4>4. \A i \in 1 .. 3 : SubSeq(q, 1, 3)[i] = <<a, b, c>>[i]
        BY <4>1, <4>2
      <4>5. SubSeq(q, 1, 3) = <<a, b, c>>
        BY <4>1, <4>3, <4>4, SeqEqual
      <4>6. QED
        BY <4>2, <4>5
    <3>4. QED
      BY <2>4, <2>5, <2>7, <2>8, <2>10, <3>1, <3>2, <3>3 DEF InPacket
  <2>11. CASE n >= 3
    <3>1. ReadData
      BY <1>5, <2>5, <2>11 DEF ReadSync, ReadType
    <3>2. Append(input_buffer, Head(line)) = SubSeq(q, 1, n + 1)
      BY <2>4, <2>5, <2>11, RestOf
    <3>3. Len(SubSeq(q, 1, n + 1)) = n + 1 /\ SubSeq(q, 1, n + 1)[3] = q[3] /\ n + 1 <= Len(q)
      BY <2>4, <2>11
    <3>4. /\ headerOK' = 0
          /\ input_buffer' = IF n + 1 < Len(q) THEN SubSeq(q, 1, n + 1) ELSE << >>
      BY <2>4, <2>5, <2>11, <3>1, <3>2, <3>3 DEF ReadData
    <3>5. CASE n + 1 = Len(q)
      BY <2>7, <3>4, <3>5
    <3>6. CASE n + 1 < Len(q)
      <4>1. ~ (n + 1 < 3) /\ n + 1 # Len(q)
        BY <2>11, <3>6, <2>4
      <4>2. QED
        BY <2>5, <2>7, <2>8, <3>4, <3>6, <4>1 DEF InPacket
    <3>7. QED
      BY <3>3, <3>5, <3>6, <2>4
  <2>12. QED
    BY <2>9, <2>10, <2>11
<1>6. QED
  BY <1>2, <1>3, <1>4, <1>5 DEF MnavNext, ReadNext

\* On a line that drops nothing, with calls that do not end inside the sync bytes, nothing
\* has to be said of the sum.
THEOREM Mnav_Undisturbed ==
  MnavSpec /\ [](dropped_bytes = 0) /\ [][EndsOutsideSync]_mnavVars => []MnavAsSent
<1>1. MnavInit => MnavInStep
  BY DEF MnavInit, MnavInStep
<1>2. MnavInStep /\ dropped_bytes = 0 /\ (dropped_bytes = 0)' /\ [EndsOutsideSync]_mnavVars
        /\ [MnavNext]_mnavVars => MnavInStep'
  <2> SUFFICES ASSUME MnavInStep, dropped_bytes = 0, (dropped_bytes = 0)', [EndsOutsideSync]_mnavVars,
                      [MnavNext]_mnavVars
               PROVE  MnavInStep'
    OBVIOUS
  <2>1. EndsOutsideSync
    BY DEF mnavVars, readVars, EndsOutsideSync
  <2>2. QED
    BY <2>1, InStepStep
<1>3. MnavInStep => MnavSumsTell
  BY InStepTells
<1>4. QED
  BY <1>1, <1>2, <1>3, Mnav_AsSent, PTL DEF MnavSpec

-----------------------------------------------------------------------------
(* The text messages of two IMUs: what was joined can be taken apart *)

\* At least one part.
Some(S) == Seq(Seq(S)) \ {<< >>}

LEMMA PartedIs ==
  ASSUME NEW S, NEW parts \in Some(S), NEW c \in S
  PROVE  Parted(parts, c) \in Some(S)
<1>1. Len(parts) \in DOMAIN parts /\ parts[Len(parts)] \in Seq(S) /\ parts \in Seq(Seq(S))
  BY DEF Some
<1>2. Append(parts, << >>) \in Some(S)
  <2>1. << >> \in Seq(S)
    OBVIOUS
  <2>2. Append(parts, << >>) \in Seq(Seq(S)) /\ Len(Append(parts, << >>)) = Len(parts) + 1
    BY <1>1, <2>1
  <2>3. Len(parts) + 1 # 0
    BY <1>1
  <2>4. QED
    BY <2>2, <2>3 DEF Some
<1>3. [parts EXCEPT ![Len(parts)] = Append(@, c)] \in Some(S)
  <2> DEFINE last == Append(parts[Len(parts)], c)
             more == [parts EXCEPT ![Len(parts)] = last]
  <2>1. last \in Seq(S)
    BY <1>1
  <2> HIDE DEF last
  <2>2. more \in Seq(Seq(S)) /\ Len(more) = Len(parts)
    BY <1>1, <2>1
  <2>3. Len(parts) # 0
    BY <1>1 DEF Some
  <2>4. more \in Some(S)
    BY <2>2, <2>3 DEF Some
  <2>5. QED
    BY <2>4 DEF last
<1>4. QED
  BY <1>2, <1>3 DEF Parted

\* The parts after each character.
PartsOf(S, text, f) ==
  /\ f \in [0 .. Len(text) -> Some(S)] /\ f[0] = << << >> >>
  /\ \A i \in 1 .. Len(text) : f[i] = Parted(f[i - 1], text[i])

LEMMA PartsAre ==
  ASSUME NEW S, NEW text \in Seq(S)
  PROVE  \E f : PartsOf(S, text, f) /\ Parts(text) = f[Len(text)]
<1> DEFINE V == Some(S)
           len == Len(text)
           none == << << >> >>
           step == [p \in Nat \X V |-> IF p[1] \in 1 .. len THEN Parted(p[2], text[p[1]]) ELSE p[2]]
           Def(g) == g = [i \in 0 .. len |-> IF i = 0 THEN none ELSE Parted(g[i - 1], text[i])]
           h == CHOOSE g : Def(g)
<1>1. len \in Nat /\ \A i \in 1 .. len : text[i] \in S
  OBVIOUS
<1>2. none \in V
  BY DEF Some
<1>3. Parts(text) = h[len]
  BY DEF Parts
<1> HIDE DEF V, len, none
<1>4. ASSUME NEW p \in Nat \X V
      PROVE  (IF p[1] \in 1 .. len THEN Parted(p[2], text[p[1]]) ELSE p[2]) \in V
  BY <1>1, PartedIs DEF V
<1>5. step \in [Nat \X V -> V]
  BY <1>4
<1>6. \A i \in 1 .. len, v \in V : step[<<i, v>>] = Parted(v, text[i])
  <2> SUFFICES ASSUME NEW i \in 1 .. len, NEW v \in V PROVE step[<<i, v>>] = Parted(v, text[i])
    OBVIOUS
  <2>1. <<i, v>> \in Nat \X V /\ <<i, v>>[1] = i /\ <<i, v>>[2] = v
    BY <1>1
  <2>2. QED
    BY <2>1
<1> HIDE DEF step
<1>7. PICK f \in [0 .. len -> V] : Takes(f, len, none, step)
  BY <1>1, <1>2, <1>5, RecursionUpTo
<1>8. f[0] = none /\ \A i \in 1 .. len : f[i] = Parted(f[i - 1], text[i])
  <2>1. ASSUME NEW i \in 1 .. len PROVE f[i] = Parted(f[i - 1], text[i])
    <3>1. f[i - 1] \in V /\ f[i] = step[<<i, f[i - 1]>>]
      BY <1>1, <1>7 DEF Takes
    <3>2. QED
      BY <1>6, <3>1
  <2>2. QED
    BY <1>7, <2>1 DEF Takes
<1>9. Def(f)
  <2>1. \A i \in 0 .. len : f[i] = IF i = 0 THEN none ELSE Parted(f[i - 1], text[i])
    BY <1>1, <1>8
  <2>2. QED
    BY <2>1
<1>10. Def(h)
  <2> HIDE DEF Def
  <2>1. QED
    BY <1>9
<1> HIDE DEF h
<1>11. ASSUME NEW i \in 0 .. len PROVE h[i] = IF i = 0 THEN none ELSE Parted(h[i - 1], text[i])
  BY ONLY <1>10, <1>11
<1>12. h = [i \in 0 .. len |-> h[i]]
  BY ONLY <1>10
<1> HIDE DEF Def
<1>13. \A i \in Nat : i \in {j \in Nat : j <= len => h[j] \in V}
  <2> DEFINE T == {j \in Nat : j <= len => h[j] \in V}
  <2>1. 0 \in T
    BY <1>1, <1>2, <1>11
  <2>2. ASSUME NEW i \in Nat, i \in T PROVE i + 1 \in T
    <3>1. CASE i + 1 <= len
      <4>1. i + 1 \in 0 .. len /\ i + 1 # 0 /\ i + 1 \in 1 .. len /\ (i + 1) - 1 = i /\ h[i] \in V
        BY <1>1, <2>2, <3>1
      <4>2. h[i + 1] = Parted(h[(i + 1) - 1], text[i + 1])
        BY <1>11, <4>1
      <4>3. QED
        BY <1>1, <4>1, <4>2, PartedIs DEF V
    <3>2. QED
      BY <3>1
  <2> HIDE DEF T
  <2>3. QED
    BY <2>1, <2>2, InductiveSet DEF T
<1>14. h \in [0 .. len -> V]
  <2>1. \A i \in 0 .. len : h[i] \in V
    BY <1>1, <1>13
  <2>2. QED
    BY ONLY <1>12, <2>1
<1>15. \A i \in 1 .. len : h[i] = Parted(h[i - 1], text[i])
  BY <1>1, <1>11
<1>16. h[0] = none
  BY <1>1, <1>11
<1>17. PartsOf(S, text, h)
  BY <1>14, <1>15, <1>16 DEF PartsOf, V, len, none
<1>18. QED
  BY <1>3, <1>17 DEF len

\* One character more is one more step.
LEMMA PartsAppend ==
  ASSUME NEW S
  PROVE  /\ Parts(<< >>) = << << >> >>
         /\ \A text \in Seq(S) : Parts(text) \in Some(S)
         /\ \A text \in Seq(S), c \in S : Parts(Append(text, c)) = Parted(Parts(text), c)
<1>1. Parts(<< >>) = << << >> >>
  <2>1. PICK f : PartsOf(S, << >>, f) /\ Parts(<< >>) = f[Len(<< >>)]
    BY PartsAre, << >> \in Seq(S)
  <2>2. QED
    BY <2>1 DEF PartsOf
<1>2. ASSUME NEW text \in Seq(S) PROVE Parts(text) \in Some(S)
  <2>1. PICK f : PartsOf(S, text, f) /\ Parts(text) = f[Len(text)]
    BY PartsAre
  <2>2. Len(text) \in 0 .. Len(text)
    OBVIOUS
  <2>3. QED
    BY <2>1, <2>2 DEF PartsOf
<1>3. ASSUME NEW text \in Seq(S), NEW c \in S
      PROVE  Parts(Append(text, c)) = Parted(Parts(text), c)
  <2> DEFINE n == Len(text)
             more == Append(text, c)
  <2>1. /\ more \in Seq(S) /\ Len(more) = n + 1 /\ more[n + 1] = c
        /\ \A i \in 1 .. n : more[i] = text[i]
        /\ n \in Nat
    OBVIOUS
  <2> HIDE DEF more
  <2>2. PICK f : PartsOf(S, text, f) /\ Parts(text) = f[n]
    BY PartsAre
  <2>3. PICK g : PartsOf(S, more, g) /\ Parts(more) = g[n + 1]
    BY <2>1, PartsAre
  <2> HIDE DEF n
  <2> DEFINE T == {i \in Nat : i <= n => g[i] = f[i]}
  <2>4. /\ f[0] = g[0]
        /\ \A i \in 1 .. n : f[i] = Parted(f[i - 1], text[i])
        /\ \A i \in 1 .. n + 1 : g[i] = Parted(g[i - 1], more[i])
    BY <2>1, <2>2, <2>3 DEF PartsOf, n
  <2>5. 0 \in T
    BY <2>4
  <2>6. ASSUME NEW i \in Nat, i \in T PROVE i + 1 \in T
    <3>1. CASE i + 1 <= n
      <4>1. i + 1 \in 1 .. n /\ i + 1 \in 1 .. n + 1 /\ (i + 1) - 1 = i /\ g[i] = f[i]
        BY <2>1, <2>6, <3>1
      <4>2. f[i + 1] = Parted(f[(i + 1) - 1], text[i + 1]) /\ g[i + 1] = Parted(g[(i + 1) - 1], more[i + 1])
        BY <2>4, <4>1
      <4>3. more[i + 1] = text[i + 1]
        BY <2>1, <4>1
      <4>4. QED
        BY <4>1, <4>2, <4>3
    <3>2. QED
      BY <3>1
  <2> HIDE DEF T
  <2>7. n \in T
    BY <2>1, <2>5, <2>6, InductiveSet
  <2>8. g[n] = f[n]
    BY <2>1, <2>7 DEF T
  <2>9. n + 1 \in 1 .. n + 1 /\ (n + 1) - 1 = n
    BY <2>1
  <2>10. g[n + 1] = Parted(g[(n + 1) - 1], more[n + 1])
    BY <2>4, <2>9
  <2>11. QED
    BY <2>1, <2>2, <2>3, <2>8, <2>9, <2>10 DEF more
<1>4. QED
  BY <1>1, <1>2, <1>3

AppendsBehind(a, b, c) == a \o Append(b, c) = Append(a \o b, c)

LEMMA BehindAppends ==
  ASSUME NEW S, NEW a \in Seq(S), NEW b \in Seq(S), NEW c \in S
  PROVE  AppendsBehind(a, b, c)
BY DEF AppendsBehind

\* The last part goes on until a separator comes.
LEMMA PartsGoOn ==
  ASSUME NEW S, NEW u \in Seq(S), NEW ps \in Seq(Seq(S)), NEW last \in Seq(S), NEW t \in Seq(S),
         Parts(u) = Append(ps, last), \A i \in 1 .. Len(t) : t[i] # Separator
  PROVE  Parts(u \o t) = Append(ps, last \o t)
<1> DEFINE n == Len(t)
           T == {i \in Nat : i <= n => Parts(u \o SubSeq(t, 1, i)) = Append(ps, last \o SubSeq(t, 1, i))}
<1>1. 0 \in T
  <2>1. SubSeq(t, 1, 0) = << >> /\ u \o << >> = u /\ last \o << >> = last
    OBVIOUS
  <2>2. QED
    BY <2>1
<1>2. ASSUME NEW i \in Nat, i \in T PROVE i + 1 \in T
  <2>1. CASE i + 1 <= n
    <3> DEFINE v == SubSeq(t, 1, i)
               w == SubSeq(t, 1, i + 1)
               c == t[i + 1]
               all == last \o v
    <3>1. i + 1 \in 1 .. n /\ i <= n /\ c \in S /\ c # Separator
      BY <2>1
    <3>2. v \in Seq(S) /\ w = Append(v, c)
      BY <3>1
    <3>3. Parts(u \o v) = Append(ps, last \o v)
      BY <1>2, <3>1
    <3> HIDE DEF v, w, c, T, n
    <3>4. /\ u \o w = Append(u \o v, c) /\ u \o v \in Seq(S)
          /\ last \o w = Append(all, c) /\ all \in Seq(S)
      <4>1. AppendsBehind(u, v, c) /\ AppendsBehind(last, v, c)
        BY <3>1, <3>2, BehindAppends
      <4>2. u \o v \in Seq(S) /\ all \in Seq(S)
        BY <3>2
      <4>3. QED
        BY <3>2, <4>1, <4>2 DEF AppendsBehind
    <3>5. Parts(u \o w) = Parted(Append(ps, all), c)
      BY <3>1, <3>3, <3>4, PartsAppend
    <3> HIDE DEF all
    <3>6. Parted(Append(ps, all), c) = Append(ps, Append(all, c))
      <4> DEFINE more == Append(ps, all)
                 k == Len(ps) + 1
      <4>1. /\ more \in Seq(Seq(S)) /\ Len(more) = k /\ more[k] = all /\ DOMAIN more = 1 .. k
            /\ \A j \in 1 .. Len(ps) : more[j] = ps[j]
        BY <3>4
      <4>2. Parted(more, c) = [more EXCEPT ![k] = Append(all, c)]
        BY <3>1, <4>1 DEF Parted
      <4> DEFINE x == Append(all, c)
      <4>3. x \in Seq(S)
        BY <3>1, <3>4
      <4> HIDE DEF more, x
      <4>4. /\ [more EXCEPT ![k] = x] \in Seq(Seq(S)) /\ Len([more EXCEPT ![k] = x]) = k
            /\ [more EXCEPT ![k] = x][k] = x
            /\ \A j \in 1 .. Len(ps) : [more EXCEPT ![k] = x][j] = ps[j]
        BY <4>1, <4>3
      <4>5. /\ Append(ps, x) \in Seq(Seq(S)) /\ Len(Append(ps, x)) = k /\ Append(ps, x)[k] = x
            /\ \A j \in 1 .. Len(ps) : Append(ps, x)[j] = ps[j]
        BY <4>3
      <4>6. \A j \in 1 .. k : [more EXCEPT ![k] = x][j] = Append(ps, x)[j]
        <5>1. \A j \in 1 .. k : j = k \/ j \in 1 .. Len(ps)
          OBVIOUS
        <5>2. QED
          BY <4>4, <4>5, <5>1
      <4>7. [more EXCEPT ![k] = x] = Append(ps, x)
        <5> DEFINE one == [more EXCEPT ![k] = x]
                   other == Append(ps, x)
        <5>1. one \in Seq(Seq(S)) /\ other \in Seq(Seq(S)) /\ Len(one) = Len(other)
          BY <4>4, <4>5
        <5>2. \A j \in 1 .. Len(one) : one[j] = other[j]
          BY <4>4, <4>6
        <5> HIDE DEF one, other
        <5>3. one = other
          BY <5>1, <5>2, SeqEqual
        <5>4. QED
          BY <5>3 DEF one, other
      <4>8. QED
        BY <4>2, <4>7 DEF more, x
    <3>7. Parts(u \o w) = Append(ps, last \o w)
      BY <3>4, <3>5, <3>6
    <3>8. QED
      BY <3>7 DEF T, w
  <2>2. QED
    BY <2>1
<1> HIDE DEF T
<1>3. n \in Nat
  OBVIOUS
<1>4. SubSeq(t, 1, n) = t
  BY SubSeqFull
<1> HIDE DEF n
<1>5. n \in T
  BY <1>1, <1>2, <1>3, InductiveSet
<1>6. n <= n
  BY <1>3
<1>7. QED
  BY <1>4, <1>5, <1>6 DEF T

\* What is joined of the texts with a separator before each.
LEMMA JoinAppend ==
  ASSUME NEW S, NEW texts \in Seq(Seq(S)), NEW t \in Seq(S), Separator \in S
  PROVE  /\ texts = << >> => Join(Append(texts, t)) = t
         /\ texts # << >> => /\ Join(texts) \in Seq(S)
                            /\ Join(Append(texts, t)) = Append(Join(texts), Separator) \o t
<1> DEFINE marked(ts) == [i \in DOMAIN ts |-> <<Separator>> \o ts[i]]
           one == <<Separator>> \o t
<1>1. ASSUME NEW ts \in Seq(Seq(S))
      PROVE  /\ marked(ts) \in Seq(Seq(S)) /\ Len(marked(ts)) = Len(ts)
             /\ \A i \in 1 .. Len(ts) : marked(ts)[i] = <<Separator>> \o ts[i]
  <2> DEFINE k == Len(ts)
             part(i) == <<Separator>> \o ts[i]
  <2>1. \A i \in 1 .. k : part(i) \in Seq(S)
    <3>1. \A i \in 1 .. k : ts[i] \in Seq(S)
      OBVIOUS
    <3>2. QED
      BY <3>1
  <2>2. k \in Nat /\ DOMAIN ts = 1 .. k
    OBVIOUS
  <2> HIDE DEF k, part
  <2>3. /\ [i \in 1 .. k |-> part(i)] \in Seq(Seq(S)) /\ Len([i \in 1 .. k |-> part(i)]) = k
        /\ \A i \in 1 .. k : [j \in 1 .. k |-> part(j)][i] = part(i)
    BY <2>1, <2>2
  <2>4. QED
    BY <2>2, <2>3 DEF part, k
<1>2. one \in Seq(S) /\ one # << >> /\ Tail(one) = t
  <2>1. /\ one \in Seq(S) /\ Len(one) = Len(t) + 1 /\ Len(Tail(one)) = Len(t) /\ Tail(one) \in Seq(S)
        /\ \A i \in 1 .. Len(t) : Tail(one)[i] = t[i]
    OBVIOUS
  <2>2. Len(one) # 0
    BY <2>1
  <2>3. QED
    BY <2>1, <2>2, SeqEqual
<1>3. marked(Append(texts, t)) = Append(marked(texts), one)
  <2> DEFINE more == Append(texts, t)
             n == Len(texts)
  <2>1. /\ more \in Seq(Seq(S)) /\ Len(more) = n + 1 /\ more[n + 1] = t
        /\ \A i \in 1 .. n : more[i] = texts[i]
        /\ n \in Nat /\ n + 1 \in 1 .. n + 1 /\ \A i \in 1 .. n : i \in 1 .. n + 1
    OBVIOUS
  <2> HIDE DEF more
  <2>2. /\ marked(more) \in Seq(Seq(S)) /\ Len(marked(more)) = n + 1
        /\ \A i \in 1 .. n + 1 : marked(more)[i] = <<Separator>> \o more[i]
    BY <1>1, <2>1
  <2>3. /\ marked(texts) \in Seq(Seq(S)) /\ Len(marked(texts)) = n
        /\ \A i \in 1 .. n : marked(texts)[i] = <<Separator>> \o texts[i]
    BY <1>1
  <2> HIDE DEF marked, one, n
  <2>4. /\ Append(marked(texts), one) \in Seq(Seq(S)) /\ Len(Append(marked(texts), one)) = n + 1
        /\ Append(marked(texts), one)[n + 1] = one
        /\ \A i \in 1 .. n : Append(marked(texts), one)[i] = marked(texts)[i]
    BY <1>2, <2>3
  <2>5. \A i \in 1 .. n + 1 : marked(more)[i] = Append(marked(texts), one)[i]
    <3>1. \A i \in 1 .. n + 1 : i = n + 1 \/ i \in 1 .. n
      BY <2>1
    <3>2. marked(more)[n + 1] = one
      BY <2>1, <2>2 DEF one
    <3>3. \A i \in 1 .. n : marked(more)[i] = marked(texts)[i]
      BY <2>1, <2>2, <2>3
    <3>4. QED
      BY <2>4, <3>1, <3>2, <3>3
  <2>6. marked(more) = Append(marked(texts), one)
    BY <2>2, <2>4, <2>5, SeqEqual
  <2>7. QED
    BY <2>6 DEF more
<1>4. /\ Join(Append(texts, t)) = Tail(FlattenSeq(marked(Append(texts, t))))
      /\ Join(texts) = Tail(FlattenSeq(marked(texts)))
  BY DEF Join
<1>5. marked(texts) \in Seq(Seq(S)) /\ Len(marked(texts)) = Len(texts)
  BY <1>1
<1>6. CASE texts = << >>
  <2>1. marked(texts) = << >>
    BY <1>5, <1>6
  <2> HIDE DEF marked, one
  <2>2. /\ FlattenSeq(Append(marked(texts), one)) = FlattenSeq(marked(texts)) \o one
    BY <1>2, <1>5, FlattenAppend
  <2>3. << >> \o one = one
    BY <1>2
  <2>4. QED
    BY <1>2, <1>3, <1>4, <1>6, <2>1, <2>2, <2>3, FlattenNone
<1>7. CASE texts # << >>
  <2> DEFINE flat == FlattenSeq(marked(texts))
  <2>1. flat \in Seq(S) /\ FlattenSeq(Append(marked(texts), one)) = flat \o one
    <3> HIDE DEF marked, one
    <3>1. QED
      BY <1>2, <1>5, FlattenAppend
  <2>2. flat # << >>
    <3>1. marked(texts) # << >>
      BY <1>5, <1>7
    <3>2. Head(marked(texts)) = <<Separator>> \o texts[1] /\ Tail(marked(texts)) \in Seq(Seq(S))
      BY <1>1, <1>5, <1>7
    <3>3. flat = Head(marked(texts)) \o FlattenSeq(Tail(marked(texts)))
      <4> HIDE DEF marked
      <4>1. QED
        BY <1>5, <3>1, FlattenTail
    <3>4. FlattenSeq(Tail(marked(texts))) \in Seq(S)
      <4> HIDE DEF marked
      <4>1. QED
        BY <1>2, <3>2, FlattenAppend
    <3>5. texts[1] \in Seq(S)
      BY <1>7
    <3> HIDE DEF marked, flat
    <3>6. PICK rest \in Seq(S), first \in Seq(S) : flat = (<<Separator>> \o first) \o rest
      BY <3>2, <3>3, <3>4, <3>5
    <3>7. Len((<<Separator>> \o first) \o rest) = 1 + Len(first) + Len(rest)
      OBVIOUS
    <3>8. QED
      BY <3>6, <3>7
  <2> HIDE DEF marked, flat
  <2>3. Tail(flat \o one) = Append(Tail(flat), Separator) \o t
    <3> HIDE DEF one
    <3>1. Tail(flat) \in Seq(S) /\ Tail(flat \o one) = Tail(flat) \o one
      <4>1. /\ flat \o one \in Seq(S) /\ Len(flat \o one) = Len(flat) + Len(one) /\ Len(flat) > 0
            /\ Tail(flat) \in Seq(S) /\ Len(Tail(flat)) = Len(flat) - 1
        BY <1>2, <2>1, <2>2
      <4>2. /\ Tail(flat \o one) \in Seq(S) /\ Tail(flat) \o one \in Seq(S)
            /\ Len(Tail(flat \o one)) = Len(Tail(flat) \o one)
        BY <1>2, <2>1, <4>1
      <4>3. \A i \in 1 .. Len(Tail(flat \o one)) : Tail(flat \o one)[i] = (Tail(flat) \o one)[i]
        BY <1>2, <2>1, <4>1
      <4>4. QED
        BY <4>1, <4>2, <4>3, SeqEqual
    <3>2. QED
      BY <3>1 DEF one
  <2>4. Tail(flat) \in Seq(S)
    BY <2>1, <2>2
  <2>5. QED
    BY <1>3, <1>4, <1>7, <2>1, <2>3, <2>4 DEF flat
<1>8. QED
  BY <1>6, <1>7

\* Splitting takes apart what was joined, when no text has a separator in it.
LEMMA PartsOfJoin ==
  ASSUME NEW S, NEW texts \in Some(S), Separator \in S,
         \A i \in 1 .. Len(texts) : \A j \in 1 .. Len(texts[i]) : texts[i][j] # Separator
  PROVE  Join(texts) \in Seq(S) /\ Parts(Join(texts)) = texts
<1> DEFINE n == Len(texts)
           upto(i) == SubSeq(texts, 1, i)
           T == {i \in Nat : i + 1 <= n => /\ Join(upto(i + 1)) \in Seq(S)
                                           /\ Parts(Join(upto(i + 1))) = upto(i + 1)}
<1>1. texts \in Seq(Seq(S)) /\ n \in Nat /\ n > 0
  BY DEF Some
<1>2. ASSUME NEW i \in 0 .. n - 1
      PROVE  /\ upto(i) \in Seq(Seq(S)) /\ Len(upto(i)) = i /\ texts[i + 1] \in Seq(S)
             /\ upto(i + 1) = Append(upto(i), texts[i + 1])
             /\ \A j \in 1 .. Len(texts[i + 1]) : texts[i + 1][j] # Separator
  <2>1. i + 1 \in 1 .. n /\ i \in Nat /\ i <= n
    BY <1>1
  <2>2. QED
    BY <1>1, <2>1
<1> HIDE DEF n, upto
<1>3. 0 \in T
  <2> DEFINE t == texts[1]
  <2>1. /\ upto(0) = << >> /\ upto(0 + 1) = Append(upto(0), t) /\ t \in Seq(S)
        /\ \A j \in 1 .. Len(t) : t[j] # Separator
    <3>1. 0 \in 0 .. n - 1 /\ 0 + 1 = 1
      BY <1>1
    <3>2. QED
      BY <1>2, <3>1
  <2> HIDE DEF t
  <2>2. Join(upto(0 + 1)) = t /\ upto(0 + 1) = <<t>>
    <3>1. << >> \in Seq(Seq(S)) /\ Append(<< >>, t) = <<t>>
      OBVIOUS
    <3>2. Join(Append(<< >>, t)) = t
      BY <2>1, <3>1, JoinAppend
    <3>3. QED
      BY <2>1, <3>1, <3>2
  <2>3. Parts(t) = <<t>>
    <3>1. Parts(<< >>) = Append(<< >>, << >>) /\ << >> \in Seq(S) /\ << >> \in Seq(Seq(S))
      BY PartsAppend
    <3>2. Parts(<< >> \o t) = Append(<< >>, << >> \o t)
      BY <2>1, <3>1, PartsGoOn
    <3>3. << >> \o t = t
      BY <2>1
    <3>4. QED
      BY <3>2, <3>3
  <2>4. QED
    BY <2>1, <2>2, <2>3
<1>4. ASSUME NEW i \in Nat, i \in T PROVE i + 1 \in T
  <2>1. CASE (i + 1) + 1 <= n
    <3> DEFINE t == texts[(i + 1) + 1]
               before == upto(i + 1)
               next == upto((i + 1) + 1)
    <3>1. /\ before \in Seq(Seq(S)) /\ before # << >> /\ next = Append(before, t) /\ t \in Seq(S)
          /\ \A j \in 1 .. Len(t) : t[j] # Separator
      <4>1. i + 1 \in 0 .. n - 1 /\ i + 1 # 0
        BY <1>1, <2>1
      <4>2. QED
        BY <1>2, <4>1
    <3>2. Join(before) \in Seq(S) /\ Parts(Join(before)) = before
      BY <1>4, <2>1, <1>1
    <3> HIDE DEF t, before, next, T
    <3>3. Join(next) = Append(Join(before), Separator) \o t
      BY <3>1, JoinAppend
    <3>4. Append(Join(before), Separator) \in Seq(S) /\ Append(Join(before), Separator) \o t \in Seq(S)
      BY <3>1, <3>2
    <3>5. Parts(Append(Join(before), Separator)) = Append(before, << >>)
      <4>1. Parts(Append(Join(before), Separator)) = Parted(before, Separator)
        BY <3>2, PartsAppend
      <4>2. QED
        BY <4>1 DEF Parted
    <3>6. Parts(Append(Join(before), Separator) \o t) = Append(before, << >> \o t)
      <4>1. << >> \in Seq(S)
        OBVIOUS
      <4>2. QED
        BY <3>1, <3>4, <3>5, <4>1, PartsGoOn
    <3>7. << >> \o t = t
      BY <3>1
    <3>8. Join(next) \in Seq(S) /\ Parts(Join(next)) = next
      BY <3>1, <3>3, <3>4, <3>6, <3>7
    <3>9. QED
      BY <3>8 DEF T, next
  <2>2. QED
    BY <2>1
<1> HIDE DEF T
<1>5. n - 1 \in T
  <2>1. n - 1 \in Nat
    BY <1>1
  <2>2. QED
    BY <1>3, <1>4, <2>1, InductiveSet
<1>6. upto(n) = texts
  BY <1>1, SubSeqFull DEF upto, n
<1>7. (n - 1) + 1 = n
  BY <1>1
<1>8. QED
  BY <1>1, <1>5, <1>6, <1>7 DEF T

\* Without an empty part among them the parts are the words.
LEMMA AllAreWords ==
  ASSUME NEW S, NEW parts \in Seq(Seq(S)), \A i \in 1 .. Len(parts) : parts[i] # << >>
  PROVE  Words(parts) = parts
<1> DEFINE P == Seq(S)
           n == Len(parts)
           single == [i \in 1 .. n |-> <<parts[i]>>]
           T == {i \in Nat : i <= n => FlattenSeq(SubSeq(single, 1, i)) = SubSeq(parts, 1, i)}
<1>1. n \in Nat /\ DOMAIN parts = 1 .. n
  OBVIOUS
<1>2. Words(parts) = FlattenSeq(single)
  <2>1. [i \in DOMAIN parts |-> IF parts[i] = << >> THEN << >> ELSE <<parts[i]>>] = single
    BY <1>1
  <2>2. QED
    BY <2>1 DEF Words
<1>3. /\ single \in Seq(Seq(P)) /\ Len(single) = n
      /\ \A i \in 1 .. n : single[i] = <<parts[i]>> /\ parts[i] \in P
  <2>1. \A i \in 1 .. n : <<parts[i]>> \in Seq(P)
    <3>1. \A i \in 1 .. n : parts[i] \in P
      OBVIOUS
    <3> HIDE DEF P
    <3>2. QED
      BY <3>1
  <2>2. \A i \in 1 .. n : parts[i] \in P
    OBVIOUS
  <2> HIDE DEF P, n
  <2>3. QED
    BY <1>1, <2>1, <2>2
<1>4. parts \in Seq(P)
  OBVIOUS
<1> HIDE DEF P, single
<1>5. 0 \in T
  <2>1. SubSeq(single, 1, 0) = << >> /\ SubSeq(parts, 1, 0) = << >>
    BY <1>3, <1>4
  <2>2. QED
    BY <2>1, FlattenNone
<1>6. ASSUME NEW i \in Nat, i \in T PROVE i + 1 \in T
  <2>1. CASE i + 1 <= n
    <3> DEFINE ss == SubSeq(single, 1, i)
               ps == SubSeq(parts, 1, i)
               p == parts[i + 1]
    <3>1. i + 1 \in 1 .. n /\ i <= n
      BY <2>1
    <3>2. /\ ss \in Seq(Seq(P)) /\ SubSeq(single, 1, i + 1) = Append(ss, <<p>>)
      BY <1>3, <3>1
    <3>3. ps \in Seq(P) /\ SubSeq(parts, 1, i + 1) = Append(ps, p) /\ p \in P
      BY <1>4, <3>1
    <3>4. FlattenSeq(ss) = ps
      BY <1>6, <3>1
    <3> HIDE DEF ss, ps, p, T, n
    <3>5. <<p>> \in Seq(P) /\ ps \o <<p>> = Append(ps, p)
      BY <3>3
    <3>6. FlattenSeq(Append(ss, <<p>>)) = ps \o <<p>>
      BY <3>2, <3>4, <3>5, FlattenAppend
    <3>7. FlattenSeq(SubSeq(single, 1, i + 1)) = SubSeq(parts, 1, i + 1)
      BY <3>2, <3>3, <3>5, <3>6, Zenon
    <3>8. i + 1 \in Nat
      OBVIOUS
    <3>9. QED
      BY <3>7, <3>8 DEF T
  <2>2. QED
    BY <2>1
<1> HIDE DEF T
<1>7. n \in T
  BY <1>1, <1>5, <1>6, InductiveSet
<1>8. SubSeq(single, 1, n) = single /\ SubSeq(parts, 1, n) = parts
  BY <1>3, <1>4, SubSeqFull
<1>9. n <= n
  BY <1>1
<1>10. QED
  BY <1>2, <1>7, <1>8, <1>9 DEF T

-----------------------------------------------------------------------------
(* The messages of the two devices *)

\* The characters on the line.
Chars == 0 .. 127 \cup {SumDigits(t)[i] : t \in Text, i \in 1 .. 2}

\* Of a device: what its messages do not have in them, and that the buffer holds them.
TextsArePlain ==
  \A m \in Samples :
    /\ Len(Body(m)) <= MaxLength
    /\ \A i \in 1 .. Len(Body(m)) : Body(m)[i] # End
    /\ \A i \in 1 .. Len(m) :
         /\ \A j \in 1 .. Len(m[i]) : m[i][j] # Separator
         /\ device = "vn100" \/ m[i] # << >>

LEMMA Controls ==
  /\ Begin \in Chars /\ End \in Chars /\ Separator \in 0 .. 127 /\ End # Begin
  /\ \E rest \in Seq(Chars) : /\ Ending = <<End>> \o rest
                              /\ \A i \in 1 .. Len(rest) : rest[i] # Begin
<1>1. 0 .. 127 \subseteq Chars
  BY DEF Chars
<1>2. /\ Begin \in 0 .. 127 /\ End \in 0 .. 127 /\ Separator \in 0 .. 127 /\ End # Begin
      /\ LF \in 0 .. 127 /\ LF # Begin
  BY DEF Begin, End, Separator, LF
<1>3. \E rest \in Seq(Chars) : /\ Ending = <<End>> \o rest
                              /\ \A i \in 1 .. Len(rest) : rest[i] # Begin
  <2>1. LF \in Chars
    BY <1>1, <1>2
  <2>2. CASE device = "vn100"
    <3> DEFINE rest == <<LF>>
    <3>1. rest \in Seq(Chars) /\ \A i \in 1 .. Len(rest) : rest[i] # Begin
      BY <1>2, <2>1
    <3>2. Ending = <<End>> \o rest
      BY <2>2 DEF Ending
    <3>3. QED
      BY <3>1, <3>2
  <2>3. CASE device # "vn100"
    <3>1. << >> \in Seq(Chars) /\ Len(<< >>) = 0 /\ \A i \in 1 .. 0 : FALSE
      OBVIOUS
    <3>2. Ending = <<End>> \o << >>
      BY <2>3 DEF Ending
    <3>3. QED
      BY <3>1, <3>2
  <2>4. QED
    BY <2>2, <2>3
<1>4. QED
  BY <1>1, <1>2, <1>3

LEMMA BeginsWith ==
  ASSUME NEW S, NEW a \in Seq(S), NEW b \in Seq(S)
  PROVE  /\ a \o b \in Seq(S) /\ Len(a \o b) = Len(a) + Len(b)
         /\ \A i \in 1 .. Len(a) : (a \o b)[i] = a[i]
         /\ \A i \in 1 .. Len(b) : (a \o b)[Len(a) + i] = b[i]
OBVIOUS

LEMMA CoreIs ==
  ASSUME NEW S, NEW text \in Seq(S), NEW star \in Seq(S), NEW sum \in Seq(S), Len(star) = 1, Len(sum) = 2
  PROVE  text \o star \o sum \in Seq(S) /\ Core(text \o star \o sum) = text
<1> DEFINE both == text \o star
           all == both \o sum
<1>0. text \in Seq(S) /\ star \in Seq(S) /\ sum \in Seq(S)
  OBVIOUS
<1>1. both \in Seq(S) /\ Len(both) = Len(text) + Len(star) /\ \A i \in 1 .. Len(text) : both[i] = text[i]
  BY ONLY <1>0, BeginsWith
<1> HIDE DEF both
<1>2. all \in Seq(S) /\ Len(all) = Len(both) + Len(sum) /\ \A i \in 1 .. Len(both) : all[i] = both[i]
  BY ONLY <1>0, <1>1, BeginsWith
<1> HIDE DEF all
<1>3. /\ Len(text) \in Nat /\ Len(all) - 3 = Len(text) /\ Len(text) <= Len(all)
      /\ \A i \in 1 .. Len(text) : all[i] = text[i]
  <2>1. Len(text) \in Nat /\ Len(both) = Len(text) + 1 /\ Len(all) = Len(both) + 2
    BY <1>1, <1>2
  <2>2. ASSUME NEW i \in 1 .. Len(text) PROVE all[i] = text[i]
    <3>1. i \in 1 .. Len(both)
      BY <2>1
    <3>2. QED
      BY <1>1, <1>2, <3>1
  <2>3. QED
    BY <2>1, <2>2
<1>4. /\ SubSeq(all, 1, Len(text)) \in Seq(S) /\ Len(SubSeq(all, 1, Len(text))) = Len(text)
      /\ \A i \in 1 .. Len(text) : SubSeq(all, 1, Len(text))[i] = text[i]
  BY <1>2, <1>3
<1>5. SubSeq(all, 1, Len(text)) = text
  BY <1>4, SeqEqual
<1>6. QED
  BY <1>2, <1>3, <1>5 DEF Core, all, both

LEMMA BodyIs ==
  ASSUME TextsArePlain, NEW m \in Samples
  PROVE  /\ Body(m) \in Seq(Chars) /\ Len(Body(m)) <= MaxLength
         /\ \A i \in 1 .. Len(Body(m)) : Body(m)[i] # End
         /\ Published(Body(m)) = m
<1> DEFINE C == 0 .. 127
           text == Join(m)
<1>1. m \in Some(C)
  BY SamplesAssumption DEF Some, Text
<1>2. text \in Seq(C) /\ Parts(text) = m
  <2>1. Separator \in C
    BY Controls
  <2>2. \A i \in 1 .. Len(m) : \A j \in 1 .. Len(m[i]) : m[i][j] # Separator
    BY DEF TextsArePlain
  <2> HIDE DEF C
  <2>3. QED
    BY <1>1, <2>1, <2>2, PartsOfJoin
<1>3. text \in Seq(Chars)
  <2>1. C \subseteq Chars
    BY DEF Chars
  <2> HIDE DEF C, text
  <2>2. QED
    BY <1>2, <2>1
<1>4. CASE device = "vn100"
  <2> DEFINE sum == SumDigits(text)
  <2>1. sum \in Seq(Chars) /\ Len(sum) = 2
    <3>1. Len(sum) = 2 /\ sum = <<sum[1], sum[2]>>
      BY DEF SumDigits
    <3>2. sum[1] \in Chars /\ sum[2] \in Chars
      <4>1. text \in Text /\ 1 \in 1 .. 2 /\ 2 \in 1 .. 2
        BY <1>2 DEF Text
      <4> HIDE DEF text
      <4>2. QED
        BY <4>1 DEF Chars
    <3> HIDE DEF sum
    <3>3. PICK a \in Chars, b \in Chars : sum = <<a, b>>
      BY <3>1, <3>2
    <3>4. QED
      BY <3>3
  <2>2. Body(m) = text \o <<Star>> \o sum
    BY <1>4 DEF Body
  <2>3. <<Star>> \in Seq(Chars) /\ Len(<<Star>>) = 1
    BY DEF Star, Chars
  <2> HIDE DEF text, sum
  <2>4. Body(m) \in Seq(Chars) /\ Core(Body(m)) = text
    <3> DEFINE star == <<Star>>
    <3>1. star \in Seq(Chars) /\ Len(star) = 1
      BY <2>3
    <3> HIDE DEF star
    <3>2. text \o star \o sum \in Seq(Chars) /\ Core(text \o star \o sum) = text
      BY <1>3, <2>1, <3>1, CoreIs
    <3>3. QED
      BY <2>2, <3>2 DEF star
  <2>5. Published(Body(m)) = m
    BY <1>2, <1>4, <2>4 DEF Published, Split, text
  <2>6. QED
    BY <2>4, <2>5 DEF TextsArePlain
<1>5. CASE device # "vn100"
  <2>1. Body(m) = text
    BY <1>5 DEF Body
  <2>2. Words(m) = m
    <3>1. m \in Seq(Seq(C)) /\ \A i \in 1 .. Len(m) : m[i] # << >>
      BY <1>1, <1>5 DEF Some, TextsArePlain
    <3> HIDE DEF C
    <3>2. QED
      BY <3>1, AllAreWords
  <2>3. Published(Body(m)) = m
    BY <1>2, <1>5, <2>1, <2>2 DEF Published, Split
  <2>4. QED
    BY <1>3, <2>1, <2>3 DEF TextsArePlain
<1>6. QED
  BY <1>4, <1>5

-----------------------------------------------------------------------------
(* What the line has not delivered yet *)

\* The samples as they are sent: how a line begins and ends, and the texts between.
Sent == [begin |-> Begin, ending |-> Ending, bodies |-> [i \in DOMAIN samples |-> Body(samples[i])]]

IsSent(d) ==
  /\ d = [begin |-> d.begin, ending |-> d.ending, bodies |-> d.bodies]
  /\ d.begin \in Chars /\ d.ending \in Seq(Chars) /\ d.bodies \in Seq(Seq(Chars))

LineOf(d, body) == <<d.begin>> \o body \o d.ending

LinesAfter(d, k) == [i \in 1 .. Len(d.bodies) - k |-> LineOf(d, d.bodies[k + i])]

Ahead(d, k) == FlattenSeq(LinesAfter(d, k))

LEMMA LinesAfterIs ==
  ASSUME NEW d, IsSent(d), NEW k \in 0 .. Len(d.bodies)
  PROVE  /\ LinesAfter(d, k) \in Seq(Seq(Chars)) /\ Len(LinesAfter(d, k)) = Len(d.bodies) - k
         /\ \A i \in 1 .. Len(d.bodies) - k : /\ LinesAfter(d, k)[i] = LineOf(d, d.bodies[k + i])
                                              /\ k + i \in 1 .. Len(d.bodies)
         /\ \A body \in Seq(Chars) : LineOf(d, body) \in Seq(Chars)
<1> DEFINE n == Len(d.bodies)
           m == n - k
           added(i) == LineOf(d, d.bodies[k + i])
<1>1. /\ n \in Nat /\ m \in Nat /\ \A i \in 1 .. m : k + i \in 1 .. n
      /\ \A i \in 1 .. n : d.bodies[i] \in Seq(Chars)
  BY DEF IsSent
<1>2. ASSUME NEW body \in Seq(Chars) PROVE LineOf(d, body) \in Seq(Chars)
  <2>1. <<d.begin>> \in Seq(Chars) /\ d.ending \in Seq(Chars)
    BY DEF IsSent
  <2>2. QED
    BY <2>1 DEF LineOf
<1>3. \A i \in 1 .. m : added(i) \in Seq(Chars)
  BY <1>1, <1>2
<1>4. LinesAfter(d, k) = [i \in 1 .. m |-> added(i)]
  BY DEF LinesAfter
<1> HIDE DEF m, added
<1>5. /\ [i \in 1 .. m |-> added(i)] \in Seq(Seq(Chars)) /\ Len([i \in 1 .. m |-> added(i)]) = m
      /\ \A i \in 1 .. m : [j \in 1 .. m |-> added(j)][i] = added(i)
  BY <1>1, <1>3
<1>6. QED
  BY <1>1, <1>2, <1>4, <1>5 DEF m, added

FourJoin(w, x, y, z) == (w \o x \o y) \o z = w \o (x \o y \o z)

LEMMA FourParts ==
  ASSUME NEW S, NEW w \in Seq(S), NEW x \in Seq(S), NEW y \in Seq(S), NEW z \in Seq(S)
  PROVE  FourJoin(w, x, y, z)
<1>1. w \o x \in Seq(S) /\ y \o z \in Seq(S)
  OBVIOUS
<1>2. Associate(w \o x, y, z) /\ Associate(w, x, y \o z) /\ Associate(x, y, z)
  BY <1>1, PartsAssociate
<1>3. QED
  BY <1>2 DEF Associate, FourJoin

LEMMA AheadIs ==
  ASSUME NEW d, IsSent(d), NEW k \in 0 .. Len(d.bodies)
  PROVE  /\ Ahead(d, k) \in Seq(Chars)
         /\ k = Len(d.bodies) => Ahead(d, k) = << >>
         /\ k < Len(d.bodies) =>
              Ahead(d, k) = <<d.begin>> \o (d.bodies[k + 1] \o d.ending \o Ahead(d, k + 1))
<1> DEFINE lines == LinesAfter(d, k)
           n == Len(d.bodies)
<1>1. n \in Nat
  BY DEF IsSent
<1>2. lines \in Seq(Seq(Chars)) /\ Len(lines) = n - k
  BY LinesAfterIs
<1>3. Ahead(d, k) \in Seq(Chars)
  <2> HIDE DEF lines
  <2>1. << >> \in Seq(Chars)
    OBVIOUS
  <2>2. FlattenSeq(lines) \in Seq(Chars)
    BY <1>2, <2>1, FlattenAppend
  <2>3. QED
    BY <2>2 DEF Ahead, lines
<1>4. ASSUME k = n PROVE Ahead(d, k) = << >>
  <2>1. lines = << >>
    BY <1>1, <1>2, <1>4
  <2>2. QED
    BY <2>1, FlattenNone DEF Ahead
<1>5. ASSUME k < n
      PROVE  Ahead(d, k) = <<d.begin>> \o (d.bodies[k + 1] \o d.ending \o Ahead(d, k + 1))
  <2> DEFINE rest == LinesAfter(d, k + 1)
  <2>1. k + 1 \in 0 .. n
    BY <1>1, <1>5
  <2>2. rest \in Seq(Seq(Chars)) /\ Len(rest) = n - (k + 1)
    BY <2>1, LinesAfterIs
  <2>3. lines # << >> /\ lines[1] = LineOf(d, d.bodies[k + 1]) /\ d.bodies[k + 1] \in Seq(Chars)
    <3>1. 1 \in 1 .. n - k /\ n - k # 0 /\ k + 1 \in 1 .. n
      BY <1>1, <1>5
    <3>2. lines # << >>
      BY <1>2, <3>1
    <3>3. lines[1] = LineOf(d, d.bodies[k + 1])
      BY <3>1, LinesAfterIs
    <3>4. d.bodies[k + 1] \in Seq(Chars)
      BY <3>1 DEF IsSent
    <3>5. QED
      BY <3>2, <3>3, <3>4
  <2>4. Tail(lines) = rest
    <3>1. /\ Tail(lines) \in Seq(Seq(Chars)) /\ Len(Tail(lines)) = Len(rest)
          /\ \A i \in 1 .. Len(rest) : Tail(lines)[i] = lines[i + 1]
      <4> HIDE DEF lines, rest, n
      <4>1. Len(lines) \in Nat /\ Len(lines) > 0
        BY <1>2, <2>3
      <4>2. Tail(lines) \in Seq(Seq(Chars)) /\ Len(Tail(lines)) = Len(lines) - 1
        BY <1>2, <2>3
      <4>3. Len(rest) = Len(lines) - 1
        BY <1>1, <1>2, <2>2
      <4>4. \A i \in 1 .. Len(lines) - 1 : Tail(lines)[i] = lines[i + 1]
        BY <1>2, <2>3
      <4>5. QED
        BY <4>2, <4>3, <4>4
    <3>2. \A i \in 1 .. Len(rest) : lines[i + 1] = rest[i]
      <4> SUFFICES ASSUME NEW i \in 1 .. n - (k + 1) PROVE lines[i + 1] = rest[i]
        BY <2>2
      <4>1. i + 1 \in 1 .. n - k /\ k + (i + 1) = (k + 1) + i
        BY <1>1
      <4>2. lines[i + 1] = LineOf(d, d.bodies[k + (i + 1)])
        BY <4>1, LinesAfterIs
      <4>3. rest[i] = LineOf(d, d.bodies[(k + 1) + i])
        BY <2>1, LinesAfterIs
      <4>4. QED
        BY <4>1, <4>2, <4>3
    <3> HIDE DEF lines, rest
    <3>3. QED
      BY <2>2, <3>1, <3>2, SeqEqual
  <2>5. FlattenSeq(lines) = lines[1] \o FlattenSeq(rest)
    <3> HIDE DEF lines, rest
    <3>1. Head(lines) = lines[1]
      BY <1>2, <2>3
    <3>2. FlattenSeq(lines) = Head(lines) \o FlattenSeq(Tail(lines))
      BY <1>2, <2>3, FlattenTail
    <3>3. QED
      BY <2>4, <3>1, <3>2
  <2>6. FlattenSeq(rest) \in Seq(Chars)
    <3> HIDE DEF rest
    <3>1. << >> \in Seq(Chars)
      OBVIOUS
    <3>2. QED
      BY <2>2, <3>1, FlattenAppend
  <2> DEFINE first == <<d.begin>>
             body == d.bodies[k + 1]
             flat == FlattenSeq(rest)
  <2>7. first \in Seq(Chars) /\ body \in Seq(Chars) /\ d.ending \in Seq(Chars)
    BY <2>3 DEF IsSent
  <2> HIDE DEF first, body, flat
  <2>8. (first \o body \o d.ending) \o flat = first \o (body \o d.ending \o flat)
    <3>1. flat \in Seq(Chars)
      BY <2>6 DEF flat
    <3>2. QED
      <4>1. FourJoin(first, body, d.ending, flat)
        BY <2>7, <3>1, FourParts
      <4>2. QED
        BY <4>1 DEF FourJoin
  <2>9. QED
    BY <2>3, <2>5, <2>8 DEF Ahead, LineOf, first, body, flat
<1>6. QED
  BY <1>3, <1>4, <1>5

\* A message more is one line more at the end.
Longer(d, body) == [begin |-> d.begin, ending |-> d.ending, bodies |-> Append(d.bodies, body)]

AheadGrows(d, k, body) == Ahead(Longer(d, body), k) = Ahead(d, k) \o LineOf(d, body)

LEMMA AheadMore ==
  ASSUME NEW d, IsSent(d), NEW k \in 0 .. Len(d.bodies), NEW body \in Seq(Chars)
  PROVE  /\ IsSent(Longer(d, body)) /\ Len(Longer(d, body).bodies) = Len(d.bodies) + 1
         /\ \A i \in 1 .. Len(d.bodies) : Longer(d, body).bodies[i] = d.bodies[i]
         /\ AheadGrows(d, k, body)
<1> DEFINE e == Longer(d, body)
           n == Len(d.bodies)
           more == Append(d.bodies, body)
<1>1. /\ n \in Nat /\ k \in 0 .. n /\ more \in Seq(Seq(Chars)) /\ Len(more) = n + 1 /\ more[n + 1] = body
      /\ \A i \in 1 .. n : more[i] = d.bodies[i]
  BY DEF IsSent
<1>2. e.begin = d.begin /\ e.ending = d.ending /\ e.bodies = more
      /\ e = [begin |-> d.begin, ending |-> d.ending, bodies |-> more]
  BY DEF Longer
<1> HIDE DEF more, e
<1>3. IsSent(e)
  BY <1>1, <1>2 DEF IsSent
<1>4. \A x : LineOf(e, x) = LineOf(d, x)
  BY <1>2 DEF LineOf
<1> DEFINE lines == LinesAfter(d, k)
           longer == LinesAfter(e, k)
           added == LineOf(d, body)
<1>5. k \in 0 .. n + 1
  BY <1>1
<1>6. /\ lines \in Seq(Seq(Chars)) /\ Len(lines) = n - k /\ added \in Seq(Chars)
      /\ \A i \in 1 .. n - k : lines[i] = LineOf(d, d.bodies[k + i]) /\ k + i \in 1 .. n
  BY LinesAfterIs
<1>7. /\ longer \in Seq(Seq(Chars)) /\ Len(longer) = (n + 1) - k
      /\ \A i \in 1 .. (n + 1) - k : longer[i] = LineOf(d, more[k + i])
  <2>1. Len(e.bodies) = n + 1 /\ k \in 0 .. Len(e.bodies)
    BY <1>1, <1>2, <1>5
  <2>2. /\ longer \in Seq(Seq(Chars)) /\ Len(longer) = Len(e.bodies) - k
        /\ \A i \in 1 .. Len(e.bodies) - k : longer[i] = LineOf(e, e.bodies[k + i])
    BY <1>3, <2>1, LinesAfterIs
  <2>3. QED
    BY <1>2, <1>4, <2>1, <2>2
<1> HIDE DEF lines, longer, added, n
<1>8. longer = Append(lines, added)
  <2> DEFINE m == n - k
  <2>1. m \in Nat /\ (n + 1) - k = m + 1 /\ k + (m + 1) = n + 1
    BY <1>1, <1>5
  <2> HIDE DEF m
  <2>2. /\ Append(lines, added) \in Seq(Seq(Chars)) /\ Len(Append(lines, added)) = m + 1
        /\ Append(lines, added)[m + 1] = added
        /\ \A i \in 1 .. m : Append(lines, added)[i] = lines[i]
    BY <1>6, <2>1 DEF m
  <2>3. ASSUME NEW i \in 1 .. m + 1 PROVE longer[i] = Append(lines, added)[i]
    <3>1. longer[i] = LineOf(d, more[k + i])
      BY <1>7, <2>1
    <3>2. CASE i = m + 1
      BY <1>1, <2>1, <2>2, <3>1, <3>2 DEF added
    <3>3. CASE i # m + 1
      <4>1. i \in 1 .. m
        BY <2>1, <3>3
      <4>2. lines[i] = LineOf(d, d.bodies[k + i]) /\ k + i \in 1 .. n
        BY <1>6, <4>1 DEF m
      <4>3. more[k + i] = d.bodies[k + i]
        BY <1>1, <4>2 DEF n
      <4>4. QED
        BY <2>2, <3>1, <4>1, <4>2, <4>3
    <3>4. QED
      BY <3>2, <3>3
  <2>4. QED
    BY <1>7, <2>1, <2>2, <2>3, SeqEqual
<1>9. FlattenSeq(longer) = FlattenSeq(lines) \o added
  BY <1>6, <1>8, FlattenAppend
<1>10. QED
  BY <1>1, <1>2, <1>3, <1>9 DEF Ahead, AheadGrows, lines, longer, added, n, e

-----------------------------------------------------------------------------
(* Where in the lines a call is *)

Without(t, c) == \A i \in 1 .. Len(t) : t[i] # c

\* Before line k + 1, behind what is left of another.
Between(d, rest, k) == \E t \in Seq(Chars) : Without(t, d.begin) /\ rest = t \o Ahead(d, k)

\* In it: a part of its text was read.
Inside(d, part, rest, k) ==
  /\ k < Len(d.bodies)
  /\ \E u \in Seq(Chars) : /\ d.bodies[k + 1] = part \o u
                           /\ rest = u \o (d.ending \o Ahead(d, k + 1))

\* The first character of two parts is the first of the first, if it has any.
Opens(a, b, c, rest) == a \o b = <<c>> \o rest

Opened(a, b, c, rest) ==
  /\ a = << >> => b = <<c>> \o rest
  /\ a # << >> => /\ a[1] = c /\ rest = Tail(a) \o b
                  /\ Len(Tail(a)) = Len(a) - 1 /\ \A i \in 1 .. Len(a) - 1 : Tail(a)[i] = a[i + 1]

LEMMA FirstOf ==
  ASSUME NEW S, NEW a \in Seq(S), NEW b \in Seq(S), NEW c \in S, NEW rest \in Seq(S), Opens(a, b, c, rest)
  PROVE  Opened(a, b, c, rest) /\ (a # << >> => Tail(a) \in Seq(S))
<1>0. a \in Seq(S) /\ b \in Seq(S)
  OBVIOUS
<1> DEFINE all == <<c>> \o rest
<1>1. all \in Seq(S) /\ all[1] = c /\ Len(all) = 1 + Len(rest) /\ all # << >>
      /\ \A i \in 1 .. Len(rest) : all[i + 1] = rest[i]
  OBVIOUS
<1>2. CASE a = << >>
  <2>1. << >> \o b = b
    OBVIOUS
  <2>2. QED
    BY <1>2, <2>1 DEF Opens, Opened
<1>3. CASE a # << >>
  <2>1. Len(a) > 0 /\ Tail(a) \in Seq(S) /\ Len(Tail(a)) = Len(a) - 1
        /\ \A i \in 1 .. Len(a) - 1 : Tail(a)[i] = a[i + 1]
    BY <1>3
  <2> DEFINE both == a \o b
  <2>0. both = all
    BY DEF Opens
  <2>2. /\ both \in Seq(S) /\ Len(both) = Len(a) + Len(b)
        /\ \A i \in 1 .. Len(a) : both[i] = a[i]
        /\ \A i \in 1 .. Len(b) : both[Len(a) + i] = b[i]
    BY ONLY <1>0, BeginsWith
  <2> DEFINE after == Tail(a) \o b
  <2>3. /\ after \in Seq(S) /\ Len(after) = Len(Tail(a)) + Len(b)
        /\ \A i \in 1 .. Len(Tail(a)) : after[i] = Tail(a)[i]
        /\ \A i \in 1 .. Len(b) : after[Len(Tail(a)) + i] = b[i]
    BY ONLY <1>0, <2>1, BeginsWith
  <2> HIDE DEF both, all, after
  <2>4. Len(rest) = Len(after)
    BY <1>1, <2>0, <2>1, <2>2, <2>3
  <2>5. ASSUME NEW i \in 1 .. Len(rest) PROVE after[i] = rest[i]
    <3>1. rest[i] = both[i + 1]
      BY <1>1, <2>0
    <3>2. CASE i <= Len(a) - 1
      <4>1. i \in 1 .. Len(Tail(a)) /\ i \in 1 .. Len(a) - 1 /\ i + 1 \in 1 .. Len(a)
        BY <2>1, <3>2
      <4>2. QED
        BY <2>1, <2>2, <2>3, <3>1, <4>1
    <3>3. CASE i > Len(a) - 1
      <4> DEFINE j == i - (Len(a) - 1)
      <4>1. j \in 1 .. Len(b) /\ i + 1 = Len(a) + j /\ i = Len(Tail(a)) + j
        BY <1>1, <2>1, <2>2, <2>4, <2>3, <3>3
      <4> HIDE DEF j
      <4>2. QED
        BY <2>2, <2>3, <3>1, <4>1
    <3>4. QED
      BY <2>1, <3>2, <3>3
  <2>6. rest = after
    BY <2>3, <2>4, <2>5, SeqEqual
  <2>7. a[1] = c
    BY <1>1, <2>0, <2>1, <2>2
  <2>8. QED
    BY <1>3, <2>1, <2>6, <2>7 DEF after, Opened
<1>4. QED
  BY <1>2, <1>3

\* Before a line: the character begins it, or is left of the one before.
LEMMA BetweenReads ==
  ASSUME NEW d, IsSent(d), NEW k \in 0 .. Len(d.bodies), NEW c \in Chars, NEW rest \in Seq(Chars),
         Between(d, <<c>> \o rest, k)
  PROVE  \/ c # d.begin /\ Between(d, rest, k)
         \/ c = d.begin /\ Inside(d, << >>, rest, k)
<1>1. PICK t \in Seq(Chars) : Without(t, d.begin) /\ <<c>> \o rest = t \o Ahead(d, k)
  BY DEF Between
<1>2. Ahead(d, k) \in Seq(Chars)
  BY AheadIs
<1>3. CASE t # << >>
  <2>1. /\ t[1] = c /\ Tail(t) \in Seq(Chars) /\ rest = Tail(t) \o Ahead(d, k)
        /\ Len(Tail(t)) = Len(t) - 1 /\ \A i \in 1 .. Len(t) - 1 : Tail(t)[i] = t[i + 1]
    <3>1. Opens(t, Ahead(d, k), c, rest)
      BY <1>1 DEF Opens
    <3>2. Opened(t, Ahead(d, k), c, rest) /\ Tail(t) \in Seq(Chars)
      BY <1>2, <1>3, <3>1, FirstOf
    <3>3. QED
      BY <1>3, <3>2 DEF Opened
  <2>2. Len(t) \in Nat /\ Len(t) > 0 /\ \A i \in 1 .. Len(t) - 1 : i + 1 \in 1 .. Len(t)
    BY <1>3
  <2>3. Without(Tail(t), d.begin)
    BY <1>1, <2>1, <2>2 DEF Without
  <2>4. c # d.begin
    BY <1>1, <2>1, <2>2 DEF Without
  <2>5. QED
    BY <2>1, <2>3, <2>4 DEF Between
<1>4. CASE t = << >>
  <2>1. Ahead(d, k) = <<c>> \o rest
    <3>1. Opens(t, Ahead(d, k), c, rest)
      BY <1>1 DEF Opens
    <3>2. Opened(t, Ahead(d, k), c, rest)
      BY <1>2, <3>1, FirstOf
    <3>3. QED
      BY <1>4, <3>2 DEF Opened
  <2>2. k < Len(d.bodies)
    <3>1. <<c>> \o rest # << >>
      <4>1. Len(<<c>> \o rest) = 1 + Len(rest)
        OBVIOUS
      <4>2. QED
        BY <4>1
    <3>2. Len(d.bodies) \in Nat
      BY DEF IsSent
    <3>3. k # Len(d.bodies)
      BY <2>1, <3>1, AheadIs
    <3>4. QED
      BY <3>2, <3>3
  <2> DEFINE body == d.bodies[k + 1]
             later == Ahead(d, k + 1)
  <2>3. body \in Seq(Chars) /\ d.ending \in Seq(Chars) /\ later \in Seq(Chars) /\ d.begin \in Chars
    <3>1. k + 1 \in 0 .. Len(d.bodies) /\ k + 1 \in 1 .. Len(d.bodies)
      BY <2>2 DEF IsSent
    <3>2. later \in Seq(Chars)
      BY <3>1, AheadIs
    <3>3. QED
      BY <3>1, <3>2 DEF IsSent
  <2>4. Ahead(d, k) = <<d.begin>> \o (body \o d.ending \o later)
    BY <2>2, AheadIs
  <2> HIDE DEF body, later
  <2>5. c = d.begin /\ rest = body \o d.ending \o later
    <3> DEFINE a == <<d.begin>>
               b == body \o d.ending \o later
    <3>1. a \in Seq(Chars) /\ b \in Seq(Chars) /\ a # << >> /\ a[1] = d.begin /\ Tail(a) = << >>
      BY <2>3
    <3>2. a \o b = <<c>> \o rest
      BY <2>1, <2>4
    <3> HIDE DEF a, b
    <3>3. c = a[1] /\ rest = Tail(a) \o b
      <4>1. Opens(a, b, c, rest)
        BY <3>2 DEF Opens
      <4>2. Opened(a, b, c, rest)
        BY <3>1, <4>1, FirstOf
      <4>3. QED
        BY <3>1, <4>2 DEF Opened
    <3>4. << >> \o b = b
      BY <3>1
    <3>5. QED
      BY <3>1, <3>3, <3>4 DEF b
  <2>6. Associate(body, d.ending, later)
    BY <2>3, PartsAssociate
  <2>7. rest = body \o (d.ending \o later)
    BY <2>5, <2>6 DEF Associate
  <2>8. d.bodies[k + 1] = << >> \o body
    BY <2>3 DEF body
  <2>9. QED
    BY <2>2, <2>3, <2>5, <2>7, <2>8 DEF Inside, later
<1>5. QED
  BY <1>3, <1>4

\* The end of a line is not empty and does not begin another.
EndsLine(d) == d.ending # << >> /\ Without(d.ending, d.begin)

\* In a line: the character is the next of its text, or ends it.
LEMMA InsideReads ==
  ASSUME NEW d, IsSent(d), EndsLine(d), NEW k \in 0 .. Len(d.bodies), NEW c \in Chars,
         NEW rest \in Seq(Chars), NEW part \in Seq(Chars), Inside(d, part, <<c>> \o rest, k)
  PROVE  /\ k + 1 \in 1 .. Len(d.bodies)
         /\ \/ /\ Len(part) < Len(d.bodies[k + 1]) /\ c = d.bodies[k + 1][Len(part) + 1]
               /\ Inside(d, Append(part, c), rest, k)
            \/ part = d.bodies[k + 1] /\ c = d.ending[1] /\ Between(d, rest, k + 1)
<1> DEFINE body == d.bodies[k + 1]
           later == Ahead(d, k + 1)
<1>1. PICK u \in Seq(Chars) : body = part \o u /\ <<c>> \o rest = u \o (d.ending \o later)
  BY DEF Inside
<1>2. k + 1 \in 1 .. Len(d.bodies) /\ k + 1 \in 0 .. Len(d.bodies) /\ k < Len(d.bodies)
  BY DEF Inside, IsSent
<1>3. d.ending \in Seq(Chars) /\ later \in Seq(Chars) /\ body \in Seq(Chars)
  <2>1. later \in Seq(Chars)
    BY <1>2, AheadIs
  <2>2. QED
    BY <1>2, <2>1 DEF IsSent
<1> DEFINE after == d.ending \o later
<1>4. after \in Seq(Chars)
  BY <1>3
<1> HIDE DEF body, later, after
<1>5. Opened(u, after, c, rest) /\ (u # << >> => Tail(u) \in Seq(Chars))
  <2>1. Opens(u, after, c, rest)
    BY <1>1 DEF after, Opens
  <2>2. QED
    BY <1>4, <2>1, FirstOf
<1>6. CASE u # << >>
  <2>1. u[1] = c /\ Tail(u) \in Seq(Chars) /\ rest = Tail(u) \o after
    BY <1>5, <1>6 DEF Opened
  <2>2. u = <<c>> \o Tail(u)
    BY <1>6, <2>1
  <2>3. Append(part, c) = part \o <<c>>
    OBVIOUS
  <2>4. Associate(part, <<c>>, Tail(u))
    BY <2>1, PartsAssociate, <<c>> \in Seq(Chars)
  <2>5. body = Append(part, c) \o Tail(u)
    BY <1>1, <2>2, <2>3, <2>4 DEF Associate
  <2>6. Inside(d, Append(part, c), rest, k)
    BY <1>2, <2>1, <2>5 DEF Inside, body, later, after
  <2>7. Len(part) < Len(body) /\ c = body[Len(part) + 1]
    <3>1. Len(u) > 0 /\ Len(part \o u) = Len(part) + Len(u) /\ (part \o u)[Len(part) + 1] = u[1]
      BY <1>6
    <3>2. QED
      BY <1>1, <2>1, <3>1
  <2>8. QED
    BY <1>2, <2>6, <2>7 DEF body
<1>7. CASE u = << >>
  <2>1. part = body
    <3>1. part \o << >> = part
      OBVIOUS
    <3>2. QED
      BY <1>1, <1>7, <3>1
  <2>2. after = <<c>> \o rest
    BY <1>5, <1>7 DEF Opened
  <2> DEFINE e == d.ending
  <2>3. e \in Seq(Chars) /\ e # << >> /\ e \o later = <<c>> \o rest
    BY <1>3, <2>2 DEF EndsLine, after
  <2> HIDE DEF e
  <2>4. /\ e[1] = c /\ Tail(e) \in Seq(Chars) /\ rest = Tail(e) \o later
        /\ Len(Tail(e)) = Len(e) - 1 /\ \A i \in 1 .. Len(e) - 1 : Tail(e)[i] = e[i + 1]
    <3>1. Opens(e, later, c, rest)
      BY <2>3 DEF Opens
    <3>2. Opened(e, later, c, rest) /\ Tail(e) \in Seq(Chars)
      BY <1>3, <2>3, <3>1, FirstOf
    <3>3. QED
      BY <2>3, <3>2 DEF Opened
  <2>5. Without(Tail(e), d.begin)
    <3>1. \A i \in 1 .. Len(e) - 1 : i + 1 \in 1 .. Len(e)
      BY <2>3
    <3>2. QED
      BY <2>4, <3>1 DEF EndsLine, Without, e
  <2>6. Between(d, rest, k + 1)
    BY <2>4, <2>5 DEF Between, later
  <2>7. QED
    BY <1>2, <2>1, <2>4, <2>6 DEF body, e
<1>8. QED
  BY <1>6, <1>7

\* A text as long as the longest is a whole one.
LEMMA InsideFull ==
  ASSUME NEW d, IsSent(d), EndsLine(d), NEW k \in 0 .. Len(d.bodies),
         NEW rest \in Seq(Chars), NEW part \in Seq(Chars), Inside(d, part, rest, k),
         Len(d.bodies[k + 1]) <= Len(part)
  PROVE  k + 1 \in 1 .. Len(d.bodies) /\ part = d.bodies[k + 1] /\ Between(d, rest, k + 1)
<1>1. PICK u \in Seq(Chars) : d.bodies[k + 1] = part \o u /\ rest = u \o (d.ending \o Ahead(d, k + 1))
  BY DEF Inside
<1>2. k + 1 \in 1 .. Len(d.bodies) /\ k + 1 \in 0 .. Len(d.bodies)
  BY DEF Inside, IsSent
<1>3. d.ending \in Seq(Chars) /\ Ahead(d, k + 1) \in Seq(Chars)
  BY <1>2, AheadIs DEF IsSent
<1>4. u = << >>
  <2>1. Len(part \o u) = Len(part) + Len(u) /\ Len(part) \in Nat /\ Len(u) \in Nat
    OBVIOUS
  <2>2. Len(u) = 0
    BY <1>1, <2>1
  <2>3. QED
    BY <2>2
<1>5. part \o << >> = part
  OBVIOUS
<1> DEFINE after == d.ending \o Ahead(d, k + 1)
<1>6. << >> \o after = after
  BY <1>3
<1> HIDE DEF after
<1>7. rest = after /\ part = d.bodies[k + 1]
  BY <1>1, <1>4, <1>5, <1>6 DEF after
<1>8. Between(d, rest, k + 1)
  BY <1>3, <1>7 DEF Between, EndsLine, after
<1>9. QED
  BY <1>2, <1>7, <1>8

-----------------------------------------------------------------------------
(* A call reads what there is. *)

Texts == Seq(Chars)

Heard == {Published(t) : t \in Texts}

Calls == [mode : {0, 1}, msg : Texts, got : Seq(Heard), over : BOOLEAN, left : Texts]

LEMMA LinesAre ==
  ASSUME TextsArePlain, samples \in Seq(Samples)
  PROVE  /\ IsSent(Sent) /\ EndsLine(Sent) /\ Sent.begin = Begin /\ Sent.ending[1] = End
         /\ Len(Sent.bodies) = Len(samples) /\ Samples \subseteq Heard
         /\ \A i \in 1 .. Len(samples) :
              /\ samples[i] \in Samples /\ Sent.bodies[i] = Body(samples[i])
              /\ Body(samples[i]) \in Texts /\ Len(Body(samples[i])) <= MaxLength
              /\ \A j \in 1 .. Len(Body(samples[i])) : Body(samples[i])[j] # End
              /\ Published(Body(samples[i])) = samples[i]
<1> DEFINE n == Len(samples)
           text(i) == Body(samples[i])
<1>1. n \in Nat /\ DOMAIN samples = 1 .. n /\ \A i \in 1 .. n : samples[i] \in Samples
  OBVIOUS
<1>2. \A i \in 1 .. n : /\ text(i) \in Texts /\ Len(text(i)) <= MaxLength
                        /\ \A j \in 1 .. Len(text(i)) : text(i)[j] # End
                        /\ Published(text(i)) = samples[i]
  BY <1>1, BodyIs DEF Texts
<1>3. /\ Sent = [begin |-> Sent.begin, ending |-> Sent.ending, bodies |-> Sent.bodies]
      /\ Sent.begin = Begin /\ Sent.ending = Ending /\ Sent.bodies = [i \in 1 .. n |-> text(i)]
  BY <1>1 DEF Sent
<1>4. Samples \subseteq Heard
  <2>1. \A m \in Samples : Body(m) \in Texts /\ Published(Body(m)) = m
    BY BodyIs DEF Texts
  <2>2. QED
    BY <2>1 DEF Heard
<1>5. /\ Begin \in Chars /\ Ending \in Seq(Chars) /\ Ending # << >> /\ Ending[1] = End
      /\ Without(Ending, Begin)
  <2>1. PICK rest \in Seq(Chars) : Ending = <<End>> \o rest /\ \A i \in 1 .. Len(rest) : rest[i] # Begin
    BY Controls
  <2>2. Begin \in Chars /\ End \in Chars /\ End # Begin
    BY Controls
  <2> DEFINE all == <<End>> \o rest
  <2>3. all \in Seq(Chars) /\ Len(all) = 1 + Len(rest) /\ all[1] = End
        /\ \A i \in 1 .. Len(rest) : all[i + 1] = rest[i]
    BY <2>2
  <2>4. Ending = all
    BY <2>1
  <2> HIDE DEF all
  <2>5. \A i \in 1 .. Len(all) : i = 1 \/ (i - 1 \in 1 .. Len(rest) /\ (i - 1) + 1 = i)
    BY <2>3
  <2>6. Without(all, Begin)
    <3> SUFFICES ASSUME NEW i \in 1 .. Len(all) PROVE all[i] # Begin
      BY DEF Without
    <3>1. CASE i = 1
      BY <2>2, <2>3, <3>1
    <3>2. CASE i - 1 \in 1 .. Len(rest) /\ (i - 1) + 1 = i
      <4>1. all[(i - 1) + 1] = rest[i - 1] /\ rest[i - 1] # Begin
        BY <2>1, <2>3, <3>2
      <4>2. QED
        BY <3>2, <4>1
    <3>3. QED
      BY <2>5, <3>1, <3>2
  <2>7. all # << >>
    BY <2>3
  <2>8. QED
    BY <2>2, <2>3, <2>4, <2>6, <2>7
<1> HIDE DEF n, text
<1>6. /\ [i \in 1 .. n |-> text(i)] \in Seq(Texts) /\ Len([i \in 1 .. n |-> text(i)]) = n
      /\ \A i \in 1 .. n : [j \in 1 .. n |-> text(j)][i] = text(i)
  BY <1>1, <1>2
<1>7. Sent.bodies \in Seq(Seq(Chars)) /\ Len(Sent.bodies) = n /\ \A i \in 1 .. n : Sent.bodies[i] = text(i)
  BY <1>3, <1>6 DEF Texts
<1>8. IsSent(Sent) /\ EndsLine(Sent)
  BY <1>3, <1>5, <1>7 DEF IsSent, EndsLine
<1>9. QED
  BY <1>1, <1>2, <1>3, <1>4, <1>5, <1>7, <1>8 DEF n, text

\* Where the call stands in what is still to come.
At(d, md, part, rest, k) == IF md = 0 THEN Between(d, rest, k) ELSE Inside(d, part, rest, k)

\* The messages heard before and in the call are of those sent before where it stands.
Tells(call, heard, rest) ==
  /\ call.over => call.mode = 0
  /\ ~call.over => call.left = << >>
  /\ heard \o call.got \in Seq(Samples)
  /\ \E k \in 0 .. Len(samples) :
       /\ FromFirst(samples, k, heard \o call.got)
       /\ At(Sent, call.mode, call.msg, call.left \o rest, k)

LEMMA FinishIs ==
  ASSUME NEW call \in Calls
  PROVE  /\ Finish(call) \in Calls /\ Finish(call).mode = 0 /\ Finish(call).left = call.left
         /\ Accepted(call.msg) => /\ Finish(call).got = Append(call.got, Published(call.msg))
                                  /\ Finish(call).over = call.over
         /\ ~Accepted(call.msg) => Finish(call).got = call.got /\ Finish(call).over
<1> DEFINE x == Published(call.msg)
<1>1. x \in Heard
  BY DEF Heard, Calls
<1> HIDE DEF x
<1>2. CASE Accepted(call.msg)
  <2>1. Finish(call) = [call EXCEPT !.mode = 0, !.got = Append(@, x)]
    BY <1>2 DEF Finish, x
  <2>2. Append(call.got, x) \in Seq(Heard)
    BY <1>1 DEF Calls
  <2>3. QED
    BY <1>2, <2>1, <2>2 DEF Calls, x
<1>3. CASE ~Accepted(call.msg)
  BY <1>3 DEF Finish, Calls
<1>4. QED
  BY <1>2, <1>3

\* A whole text was read: it is published, or the call is over.
LEMMA FinishTells ==
  ASSUME TextsArePlain, samples \in Seq(Samples), NEW call \in Calls, NEW heard \in Seq(Samples),
         NEW rest \in Texts, NEW k \in 0 .. Len(samples), k + 1 \in 1 .. Len(samples),
         ~call.over, call.left = << >>, call.msg = Body(samples[k + 1]),
         heard \o call.got \in Seq(Samples), FromFirst(samples, k, heard \o call.got),
         Between(Sent, rest, k + 1)
  PROVE  Tells(Finish(call), heard, rest)
<1> DEFINE seq == heard \o call.got
           x == samples[k + 1]
           done == Finish(call)
<1>1. x \in Samples /\ Published(call.msg) = x /\ Samples \subseteq Heard
  BY LinesAre
<1>2. done.mode = 0 /\ done.left = << >>
  BY FinishIs
<1>3. << >> \o rest = rest
  BY DEF Texts
<1>4. /\ k \in Nat /\ k + 1 \in Nat /\ k <= k + 1 /\ (k + 1) - 1 = k
      /\ k <= Len(samples) /\ k + 1 \in 0 .. Len(samples)
  OBVIOUS
<1>5. At(Sent, done.mode, done.msg, done.left \o rest, k + 1)
  BY <1>2, <1>3 DEF At
<1>6. CASE Accepted(call.msg)
  <2>1. done.got = Append(call.got, x) /\ ~done.over
    BY <1>1, <1>6, FinishIs
  <2>2. heard \o Append(call.got, x) = Append(seq, x)
    <3>1. call.got \in Seq(Heard) /\ heard \in Seq(Heard) /\ x \in Heard
      BY <1>1 DEF Calls
    <3>2. QED
      BY <3>1
  <2> HIDE DEF seq, done
  <2>3. FromFirst(samples, k + 1, Append(seq, x))
    BY <1>4, FromFirstAppend DEF seq
  <2>4. Append(seq, x) \in Seq(Samples)
    BY <1>1 DEF seq
  <2> HIDE DEF x
  <2>5. Tells(done, heard, rest)
    BY <1>2, <1>4, <1>5, <2>1, <2>2, <2>3, <2>4 DEF Tells
  <2>6. QED
    BY <2>5 DEF done
<1>7. CASE ~Accepted(call.msg)
  <2>1. done.got = call.got /\ done.over
    BY <1>7, FinishIs
  <2> HIDE DEF done
  <2>2. FromFirst(samples, k + 1, seq)
    BY <1>1, <1>4, FromFirstStays
  <2>3. Tells(done, heard, rest)
    BY <1>2, <1>4, <1>5, <2>1, <2>2 DEF Tells
  <2>4. QED
    BY <2>3 DEF done
<1>8. QED
  BY <1>6, <1>7

LEMMA ReadCharIs ==
  ASSUME NEW call \in Calls, NEW c \in Chars
  PROVE  ReadChar(call, c) \in Calls
<1>1. CASE call.over
  <2>1. Append(call.left, c) \in Texts
    BY DEF Calls, Texts
  <2>2. ReadChar(call, c) = [call EXCEPT !.left = Append(call.left, c)]
    BY <1>1 DEF ReadChar
  <2>3. QED
    BY <2>1, <2>2 DEF Calls
<1>2. CASE ~call.over /\ call.mode = 0
  <2>1. << >> \in Texts
    BY DEF Texts
  <2>2. ReadChar(call, c) = IF c = Begin THEN [call EXCEPT !.mode = 1, !.msg = << >>] ELSE call
    BY <1>2 DEF ReadChar
  <2>3. QED
    BY <2>1, <2>2 DEF Calls
<1>3. CASE ~call.over /\ call.mode = 1
  <2>1. Append(call.msg, c) \in Texts
    BY DEF Calls, Texts
  <2>2. ReadChar(call, c) = IF c = End \/ Full(call) THEN Finish(call)
                            ELSE [call EXCEPT !.msg = Append(call.msg, c)]
    BY <1>3 DEF ReadChar
  <2>3. CASE c = End \/ Full(call)
    BY <2>2, <2>3, FinishIs
  <2>4. CASE ~ (c = End \/ Full(call))
    BY <2>1, <2>2, <2>4 DEF Calls
  <2>5. QED
    BY <2>3, <2>4
<1>4. QED
  BY <1>1, <1>2, <1>3 DEF Calls

LEMMA AppendIs ==
  ASSUME NEW S, NEW s \in Seq(S), NEW c \in S
  PROVE  Append(s, c) = s \o <<c>> /\ <<c>> \in Seq(S)
OBVIOUS

\* One character read.
LEMMA ReadCharTells ==
  ASSUME TextsArePlain, samples \in Seq(Samples), NEW call \in Calls, NEW heard \in Seq(Samples),
         NEW c \in Chars, NEW rest \in Texts, Tells(call, heard, <<c>> \o rest)
  PROVE  Tells(ReadChar(call, c), heard, rest)
<1> DEFINE one == <<c>> \o rest
<1>0. Tells(call, heard, one)
  OBVIOUS
<1>1. /\ one \in Texts /\ call.left \in Texts /\ call.msg \in Texts
      /\ call.mode \in {0, 1} /\ call.over \in BOOLEAN
      /\ << >> \o one = one /\ << >> \o rest = rest
  BY DEF Texts, Calls
<1> HIDE DEF one
<1>2. PICK k \in 0 .. Len(samples) :
        /\ FromFirst(samples, k, heard \o call.got)
        /\ At(Sent, call.mode, call.msg, call.left \o one, k)
  BY <1>0 DEF Tells
<1>3. /\ call.over => call.mode = 0
      /\ ~call.over => call.left = << >>
      /\ heard \o call.got \in Seq(Samples)
  BY DEF Tells
<1>4. /\ IsSent(Sent) /\ EndsLine(Sent) /\ Sent.begin = Begin /\ Sent.ending[1] = End
      /\ Len(Sent.bodies) = Len(samples) /\ k \in 0 .. Len(Sent.bodies)
  BY LinesAre
<1>5. CASE call.over
  <2> DEFINE next == ReadChar(call, c)
  <2>1. next = [call EXCEPT !.left = Append(call.left, c)]
    BY <1>5 DEF ReadChar
  <2>2. /\ next.over = call.over /\ next.mode = call.mode /\ next.msg = call.msg /\ next.got = call.got
        /\ next.left = Append(call.left, c)
    BY <2>1 DEF Calls
  <2>3. Append(call.left, c) \o rest = call.left \o one
    <3>1. Append(call.left, c) = call.left \o <<c>> /\ <<c>> \in Seq(Chars)
      BY <1>1, AppendIs DEF Texts
    <3>2. Associate(call.left, <<c>>, rest)
      BY <1>1, <3>1, PartsAssociate DEF Texts
    <3>3. QED
      BY <3>1, <3>2 DEF Associate, one
  <2> HIDE DEF next
  <2>4. Tells(next, heard, rest)
    BY <1>2, <1>3, <1>5, <2>2, <2>3 DEF Tells
  <2>5. QED
    BY <2>4 DEF next
<1>6. CASE ~call.over /\ call.mode = 0
  <2>1. Between(Sent, one, k)
    BY <1>1, <1>2, <1>3, <1>6 DEF At
  <2>2. \/ c # Begin /\ Between(Sent, rest, k)
        \/ c = Begin /\ Inside(Sent, << >>, rest, k)
    BY <1>4, <2>1, BetweenReads DEF Texts, one
  <2>3. CASE c # Begin /\ Between(Sent, rest, k)
    <3>1. ReadChar(call, c) = call
      BY <1>6, <2>3 DEF ReadChar
    <3>2. At(Sent, call.mode, call.msg, call.left \o rest, k)
      BY <1>1, <1>3, <1>6, <2>3 DEF At
    <3>3. Tells(call, heard, rest)
      BY <1>2, <1>3, <3>2 DEF Tells
    <3>4. QED
      BY <3>1, <3>3
  <2>4. CASE c = Begin /\ Inside(Sent, << >>, rest, k)
    <3> DEFINE next == ReadChar(call, c)
    <3>1. next = [call EXCEPT !.mode = 1, !.msg = << >>]
      BY <1>6, <2>4 DEF ReadChar
    <3>2. /\ next.over = call.over /\ next.left = call.left /\ next.got = call.got
          /\ next.mode = 1 /\ next.msg = << >>
      BY <3>1 DEF Calls
    <3> HIDE DEF next
    <3>3. At(Sent, next.mode, next.msg, next.left \o rest, k)
      <4>0. next.left = << >> /\ next.mode # 0
        BY <1>3, <1>6, <3>2
      <4>1. next.left \o rest = rest /\ next.mode # 0
        BY ONLY <1>1, <4>0, Zenon
      <4>2. QED
        BY <2>4, <3>2, <4>1 DEF At
    <3>4. Tells(next, heard, rest)
      BY <1>2, <1>3, <1>6, <3>2, <3>3 DEF Tells
    <3>5. QED
      BY <3>4 DEF next
  <2>5. QED
    BY <2>2, <2>3, <2>4
<1>7. CASE ~call.over /\ call.mode = 1
  <2>1. Inside(Sent, call.msg, one, k)
    <3>0. call.left = << >> /\ call.mode # 0
      BY <1>3, <1>7
    <3>1. call.left \o one = one /\ call.mode # 0
      BY ONLY <1>1, <3>0, Zenon
    <3>2. QED
      BY <1>2, <3>1 DEF At
  <2> DEFINE part == call.msg
             body == Sent.bodies[k + 1]
  <2>2. /\ k + 1 \in 1 .. Len(samples)
        /\ \/ Len(part) < Len(body) /\ c = body[Len(part) + 1] /\ Inside(Sent, Append(part, c), rest, k)
           \/ part = body /\ c = End /\ Between(Sent, rest, k + 1)
    BY <1>1, <1>4, <2>1, InsideReads DEF Texts, one
  <2>3. /\ body = Body(samples[k + 1]) /\ body \in Texts /\ Len(body) <= MaxLength
        /\ \A j \in 1 .. Len(body) : body[j] # End
    BY <2>2, LinesAre
  <2>4. CASE Len(part) < Len(body) /\ c = body[Len(part) + 1] /\ Inside(Sent, Append(part, c), rest, k)
    <3>1. Len(part) + 1 \in 1 .. Len(body) /\ Len(part) # MaxLength
      <4>1. Len(part) \in Nat /\ Len(body) \in Nat
        BY <1>1, <2>3 DEF Texts
      <4>2. QED
        BY <2>3, <2>4, <4>1
    <3>2. c # End /\ ~Full(call)
      BY <2>3, <2>4, <3>1 DEF Full
    <3> DEFINE next == ReadChar(call, c)
    <3>3. next = [call EXCEPT !.msg = Append(call.msg, c)]
      BY <1>7, <3>2 DEF ReadChar
    <3>4. /\ next.over = call.over /\ next.left = call.left /\ next.got = call.got
          /\ next.mode = 1 /\ next.msg = Append(part, c)
      BY <1>7, <3>3 DEF Calls
    <3> HIDE DEF next
    <3>5. At(Sent, next.mode, next.msg, next.left \o rest, k)
      <4>0. next.left = << >> /\ next.mode # 0
        BY <1>3, <1>7, <3>4
      <4>1. next.left \o rest = rest /\ next.mode # 0
        BY ONLY <1>1, <4>0, Zenon
      <4>2. QED
        BY <2>4, <3>4, <4>1 DEF At
    <3>6. Tells(next, heard, rest)
      BY <1>2, <1>3, <1>7, <3>4, <3>5 DEF Tells
    <3>7. QED
      BY <3>6 DEF next
  <2>5. CASE part = body /\ c = End /\ Between(Sent, rest, k + 1)
    <3>1. ReadChar(call, c) = Finish(call)
      BY <1>7, <2>5 DEF ReadChar
    <3>2. Tells(Finish(call), heard, rest)
      BY <1>2, <1>3, <1>7, <2>2, <2>3, <2>5, FinishTells
    <3>3. QED
      BY <3>1, <3>2
  <2>6. QED
    BY <2>2, <2>4, <2>5
<1>8. QED
  BY <1>1, <1>5, <1>6, <1>7

\* The end of what there is.
LEMMA AtEndTells ==
  ASSUME TextsArePlain, samples \in Seq(Samples), NEW call \in Calls, NEW heard \in Seq(Samples),
         NEW rest \in Texts, Tells(call, heard, rest)
  PROVE  AtEnd(call) \in Calls /\ Tells(AtEnd(call), heard, rest)
<1>1. CASE ~ (~call.over /\ Full(call))
  BY <1>1 DEF AtEnd
<1>2. CASE ~call.over /\ Full(call)
  <2>1. call.msg \in Texts /\ call.mode = 1 /\ Len(call.msg) = MaxLength /\ << >> \o rest = rest
    BY <1>2 DEF Texts, Calls, Full
  <2>2. PICK k \in 0 .. Len(samples) :
          /\ FromFirst(samples, k, heard \o call.got)
          /\ At(Sent, call.mode, call.msg, call.left \o rest, k)
    BY DEF Tells
  <2>3. call.left = << >> /\ heard \o call.got \in Seq(Samples)
    BY <1>2 DEF Tells
  <2>4. IsSent(Sent) /\ EndsLine(Sent) /\ Len(Sent.bodies) = Len(samples) /\ k \in 0 .. Len(Sent.bodies)
    BY LinesAre
  <2>5. Inside(Sent, call.msg, rest, k)
    BY <2>1, <2>2, <2>3 DEF At
  <2>6. k + 1 \in 1 .. Len(samples)
    BY <2>4, <2>5 DEF Inside
  <2>7. Sent.bodies[k + 1] = Body(samples[k + 1]) /\ Len(Sent.bodies[k + 1]) <= Len(call.msg)
    BY <2>1, <2>6, LinesAre
  <2>8. call.msg = Sent.bodies[k + 1] /\ Between(Sent, rest, k + 1)
    BY <2>1, <2>4, <2>5, <2>7, InsideFull DEF Texts
  <2>9. Tells(Finish(call), heard, rest)
    BY <1>2, <2>2, <2>3, <2>6, <2>7, <2>8, FinishTells
  <2>10. AtEnd(call) = Finish(call)
    BY <1>2 DEF AtEnd
  <2>11. QED
    BY <2>9, <2>10, FinishIs
<1>3. QED
  BY <1>1, <1>2

\* The call after each character.
ReadsOf(f) ==
  /\ f \in [0 .. Len(port) -> Calls] /\ f[0] = Call
  /\ \A i \in 1 .. Len(port) : f[i] = ReadChar(f[i - 1], port[i])

LEMMA ReadsAre ==
  ASSUME port \in Texts, Call \in Calls
  PROVE  \E f : ReadsOf(f) /\ ReadAll = f[Len(port)]
<1> DEFINE len == Len(port)
           step == [p \in Nat \X Calls |-> IF p[1] \in 1 .. len THEN ReadChar(p[2], port[p[1]]) ELSE p[2]]
           Def(g) == g = [i \in 0 .. len |-> IF i = 0 THEN Call ELSE ReadChar(g[i - 1], port[i])]
           h == CHOOSE g : Def(g)
<1>1. len \in Nat /\ \A i \in 1 .. len : port[i] \in Chars
  BY DEF Texts
<1>2. ReadAll = h[len]
  BY DEF ReadAll
<1> HIDE DEF len
<1>3. ASSUME NEW p \in Nat \X Calls
      PROVE  (IF p[1] \in 1 .. len THEN ReadChar(p[2], port[p[1]]) ELSE p[2]) \in Calls
  BY <1>1, ReadCharIs
<1>4. step \in [Nat \X Calls -> Calls]
  BY <1>3
<1>5. \A i \in 1 .. len, v \in Calls : step[<<i, v>>] = ReadChar(v, port[i])
  <2> SUFFICES ASSUME NEW i \in 1 .. len, NEW v \in Calls PROVE step[<<i, v>>] = ReadChar(v, port[i])
    OBVIOUS
  <2>1. <<i, v>> \in Nat \X Calls /\ <<i, v>>[1] = i /\ <<i, v>>[2] = v
    BY <1>1
  <2>2. QED
    BY <2>1
<1> HIDE DEF step
<1>6. PICK f \in [0 .. len -> Calls] : Takes(f, len, Call, step)
  BY <1>1, <1>4, RecursionUpTo
<1>7. f[0] = Call /\ \A i \in 1 .. len : f[i] = ReadChar(f[i - 1], port[i])
  <2>1. ASSUME NEW i \in 1 .. len PROVE f[i] = ReadChar(f[i - 1], port[i])
    <3>1. f[i - 1] \in Calls /\ f[i] = step[<<i, f[i - 1]>>]
      BY <1>1, <1>6 DEF Takes
    <3>2. QED
      BY <1>5, <3>1
  <2>2. QED
    BY <1>6, <2>1 DEF Takes
<1>8. Def(f)
  <2>1. \A i \in 0 .. len : f[i] = IF i = 0 THEN Call ELSE ReadChar(f[i - 1], port[i])
    BY <1>1, <1>7
  <2>2. QED
    BY <2>1
<1>9. Def(h)
  <2> HIDE DEF Def
  <2>1. QED
    BY <1>8
<1> HIDE DEF h
<1>10. ASSUME NEW i \in 0 .. len PROVE h[i] = IF i = 0 THEN Call ELSE ReadChar(h[i - 1], port[i])
  BY ONLY <1>9, <1>10
<1>11. h = [i \in 0 .. len |-> h[i]]
  BY ONLY <1>9
<1> HIDE DEF Def
<1>12. \A i \in Nat : i \in {j \in Nat : j <= len => h[j] \in Calls}
  <2> DEFINE T == {j \in Nat : j <= len => h[j] \in Calls}
  <2>1. 0 \in T
    BY <1>1, <1>10
  <2>2. ASSUME NEW i \in Nat, i \in T PROVE i + 1 \in T
    <3>1. CASE i + 1 <= len
      <4>1. i + 1 \in 0 .. len /\ i + 1 # 0 /\ i + 1 \in 1 .. len /\ (i + 1) - 1 = i /\ h[i] \in Calls
        BY <1>1, <2>2, <3>1
      <4>2. h[i + 1] = ReadChar(h[(i + 1) - 1], port[i + 1])
        BY <1>10, <4>1
      <4>3. QED
        BY <1>1, <4>1, <4>2, ReadCharIs
    <3>2. QED
      BY <3>1
  <2> HIDE DEF T
  <2>3. QED
    BY <2>1, <2>2, InductiveSet DEF T
<1>13. h \in [0 .. len -> Calls]
  <2>1. \A i \in 0 .. len : h[i] \in Calls
    BY <1>1, <1>12
  <2>2. QED
    BY ONLY <1>11, <2>1
<1>14. (\A i \in 1 .. len : h[i] = ReadChar(h[i - 1], port[i])) /\ h[0] = Call
  BY <1>1, <1>10
<1>15. ReadsOf(h)
  BY <1>13, <1>14 DEF ReadsOf, len
<1>16. QED
  BY <1>2, <1>15 DEF len

\* All that there is.
LEMMA ReadAllTells ==
  ASSUME TextsArePlain, samples \in Seq(Samples), port \in Texts, way \in Texts, NEW heard \in Seq(Samples),
         Call \in Calls, Tells(Call, heard, port \o way)
  PROVE  ReadAll \in Calls /\ Tells(ReadAll, heard, way)
<1> DEFINE n == Len(port)
           rest(i) == SubSeq(port, i + 1, n) \o way
<1>1. PICK f : ReadsOf(f) /\ ReadAll = f[n]
  BY ReadsAre
<1>2. n \in Nat /\ \A i \in 1 .. n : port[i] \in Chars
  BY DEF Texts
<1>3. rest(0) = port \o way /\ rest(n) = way
  <2>1. SubSeq(port, 0 + 1, n) = port
    BY SubSeqFull DEF Texts
  <2>2. SubSeq(port, n + 1, n) = << >>
    BY DEF Texts
  <2>3. << >> \o way = way
    BY DEF Texts
  <2>4. QED
    BY <2>1, <2>2, <2>3
<1>4. ASSUME NEW i \in 0 .. n - 1
      PROVE  /\ port[i + 1] \in Chars /\ rest(i + 1) \in Texts
             /\ rest(i) = <<port[i + 1]>> \o rest(i + 1)
  <2> DEFINE tail == SubSeq(port, (i + 1) + 1, n)
             c == port[i + 1]
  <2>1. c \in Chars /\ tail \in Seq(Chars) /\ way \in Seq(Chars)
    BY <1>2 DEF Texts
  <2>2. SubSeq(port, i + 1, n) = <<c>> \o tail
    <3> DEFINE whole == SubSeq(port, i + 1, n)
               one == <<c>>
               later == one \o tail
    <3>1. /\ whole \in Seq(Chars) /\ Len(whole) = n - i /\ Len(tail) = n - (i + 1)
          /\ \A j \in 1 .. n - i : whole[j] = port[i + j]
          /\ \A j \in 1 .. n - (i + 1) : tail[j] = port[(i + 1) + j]
      BY <1>2 DEF Texts
    <3>0. one \in Seq(Chars)
      BY <2>1
    <3>2. one \in Seq(Chars) /\ Len(one) = 1 /\ one[1] = c
      BY <2>1
    <3> HIDE DEF one, tail
    <3>3. /\ later \in Seq(Chars) /\ Len(later) = Len(one) + Len(tail)
          /\ \A j \in 1 .. Len(one) : later[j] = one[j]
          /\ \A j \in 1 .. Len(tail) : later[Len(one) + j] = tail[j]
      BY ONLY <2>1, <3>0, BeginsWith
    <3> HIDE DEF whole, later, n
    <3>4. Len(whole) = Len(later)
      BY <1>2, <3>1, <3>2, <3>3
    <3>5. ASSUME NEW j \in 1 .. Len(whole) PROVE whole[j] = later[j]
      <4>1. j \in 1 .. n - i /\ whole[j] = port[i + j]
        BY <3>1
      <4>2. CASE j = 1
        <5>1. later[1] = c
          BY <3>2, <3>3
        <5>2. QED
          BY <4>1, <4>2, <5>1 DEF c
      <4>3. CASE j # 1
        <5>1. j - 1 \in 1 .. n - (i + 1) /\ 1 + (j - 1) = j /\ (i + 1) + (j - 1) = i + j
          BY <1>2, <4>1, <4>3
        <5>2. later[1 + (j - 1)] = tail[j - 1] /\ tail[j - 1] = port[(i + 1) + (j - 1)]
          BY <3>1, <3>2, <3>3, <5>1
        <5>3. QED
          BY <4>1, <5>1, <5>2
      <4>4. QED
        BY <4>2, <4>3
    <3>6. whole = later
      BY <3>1, <3>3, <3>4, <3>5, SeqEqual
    <3>7. QED
      BY <3>6 DEF whole, later, one, n
  <2> HIDE DEF tail, c
  <2>3. Associate(<<c>>, tail, way)
    BY <2>1, PartsAssociate, <<c>> \in Seq(Chars)
  <2>4. rest(i) = <<c>> \o (tail \o way)
    BY <2>2, <2>3 DEF Associate, tail, c
  <2>5. tail \o way \in Texts
    BY <2>1 DEF Texts
  <2>6. QED
    BY <2>1, <2>4, <2>5 DEF tail, c
<1> HIDE DEF n, rest
<1>5. f[0] = Call /\ \A i \in 0 .. n : f[i] \in Calls
  BY <1>1 DEF ReadsOf, n
<1> DEFINE T == {i \in Nat : i <= n => Tells(f[i], heard, rest(i))}
<1>6. 0 \in T
  <2>1. Tells(f[0], heard, rest(0))
    BY <1>3, <1>5
  <2>2. QED
    BY <2>1
<1>7. ASSUME NEW i \in Nat, i \in T PROVE i + 1 \in T
  <2>1. CASE i + 1 <= n
    <3> DEFINE call == f[i]
               c == port[i + 1]
               later == rest(i + 1)
    <3>1. i \in 0 .. n - 1 /\ i \in 0 .. n /\ i + 1 \in 1 .. n /\ (i + 1) - 1 = i
      BY <1>2, <2>1
    <3>2. c \in Chars /\ later \in Texts /\ rest(i) = <<c>> \o later
      BY <1>4, <3>1
    <3>3. call \in Calls
      BY <1>5, <3>1
    <3>4. Tells(call, heard, rest(i))
      BY <1>2, <1>7, <2>1
    <3>5. f[i + 1] = ReadChar(f[(i + 1) - 1], port[i + 1])
      BY <1>1, <3>1 DEF ReadsOf, n
    <3> HIDE DEF call, c, later, T
    <3>6. Tells(call, heard, <<c>> \o later)
      BY <3>2, <3>4
    <3>7. Tells(ReadChar(call, c), heard, later)
      BY <3>2, <3>3, <3>6, ReadCharTells
    <3>8. f[i + 1] = ReadChar(call, c)
      BY <3>1, <3>5 DEF call, c
    <3>9. QED
      BY <3>7, <3>8 DEF T, later
  <2>2. QED
    BY <2>1
<1> HIDE DEF T
<1>8. n \in T
  BY <1>2, <1>6, <1>7, InductiveSet
<1>9. Tells(f[n], heard, rest(n))
  BY <1>2, <1>8 DEF T
<1>10. f[n] \in Calls
  BY <1>2, <1>5
<1>11. QED
  BY <1>1, <1>3, <1>9, <1>10

-----------------------------------------------------------------------------
(* The IMU on a line that loses nothing *)

TextInv ==
  /\ TextsArePlain
  /\ samples \in Seq(Samples) /\ got \in Seq(Samples)
  /\ mode \in {0, 1} /\ msg \in Texts /\ port \in Texts /\ way \in Texts
  /\ \E k \in 0 .. Len(samples) :
       FromFirst(samples, k, got) /\ At(Sent, mode, msg, port \o way, k)

LEMMA SameDevice ==
  ASSUME UNCHANGED device
  PROVE  /\ Begin' = Begin /\ Ending' = Ending /\ \A m : Body(m)' = Body(m)
         /\ TextsArePlain' = TextsArePlain
<1>1. /\ Begin' = Begin /\ Ending' = Ending /\ End' = End /\ Separator' = Separator
  BY DEF Begin, Ending, End, Separator
<1>2. \A m : Body(m)' = Body(m)
  BY <1>1 DEF Body, Join
<1>3. TextsArePlain' = TextsArePlain
  BY <1>1, <1>2 DEF TextsArePlain
<1>4. QED
  BY <1>1, <1>2, <1>3

LEMMA SameSent ==
  ASSUME UNCHANGED <<device, samples>>
  PROVE  Sent' = Sent /\ TextsArePlain' = TextsArePlain
BY SameDevice DEF Sent

LEMMA TextStarts ==
  ASSUME TextInit, TextsArePlain
  PROVE  TextInv
<1>1. /\ samples = << >> /\ way = << >> /\ port = << >> /\ mode = 0 /\ msg = << >> /\ got = << >>
      /\ << >> \in Texts /\ << >> \in Seq(Samples) /\ Len(samples) = 0 /\ << >> \o << >> = << >>
  BY DEF TextInit, Texts
<1>2. FromFirst(samples, 0, got)
  <2> DEFINE places == [i \in DOMAIN << >> |-> 0]
  <2>1. DOMAIN << >> = {}
    OBVIOUS
  <2>2. places \in [DOMAIN << >> -> 1 .. 0]
    BY <2>1
  <2>3. QED
    BY <1>1, <2>1, <2>2 DEF FromFirst
<1>3. Between(Sent, port \o way, 0)
  <2>1. IsSent(Sent) /\ Len(Sent.bodies) = 0
    BY <1>1, LinesAre
  <2>2. Ahead(Sent, 0) = << >>
    <3>1. 0 \in 0 .. Len(Sent.bodies) /\ 0 = Len(Sent.bodies)
      BY <2>1
    <3>2. QED
      BY <2>1, <3>1, AheadIs
  <2>3. Without(<< >>, Sent.begin)
    BY DEF Without
  <2>4. QED
    BY <1>1, <2>2, <2>3 DEF Between, Texts
<1>4. 0 \in 0 .. Len(samples)
  BY <1>1
<1>5. At(Sent, mode, msg, port \o way, 0)
  BY <1>1, <1>3 DEF At
<1>6. QED
  BY <1>1, <1>2, <1>4, <1>5 DEF TextInv

LEMMA SendKeepsText ==
  ASSUME TextInv, NEW m \in Samples, SendSample(m)
  PROVE  TextInv'
<1> DEFINE n == Len(samples)
           body == Body(m)
<1>1. /\ way = << >> /\ samples' = Append(samples, m) /\ way' = Line(m)
      /\ UNCHANGED <<device, port, lost, mode, msg, got>>
  BY DEF SendSample
<1>2. /\ TextsArePlain /\ samples \in Seq(Samples) /\ got \in Seq(Samples) /\ mode \in {0, 1}
      /\ msg \in Texts /\ port \in Texts
  BY DEF TextInv
<1>3. PICK k \in 0 .. n : FromFirst(samples, k, got) /\ At(Sent, mode, msg, port \o way, k)
  BY DEF TextInv
<1>4. /\ IsSent(Sent) /\ Len(Sent.bodies) = n /\ Sent.begin = Begin
      /\ Sent = [begin |-> Begin, ending |-> Ending, bodies |-> [i \in DOMAIN samples |-> Body(samples[i])]]
  BY <1>2, LinesAre DEF Sent
<1>5. Begin' = Begin /\ Ending' = Ending
  BY <1>1, SameDevice
<1>6. \A x : Body(x)' = Body(x)
  BY <1>1, SameDevice
<1>7. TextsArePlain'
  BY <1>1, <1>2, SameDevice
<1>8. body \in Seq(Chars)
  BY <1>2, BodyIs
<1>9. /\ samples' \in Seq(Samples) /\ Len(samples') = n + 1 /\ DOMAIN samples' = 1 .. n + 1
      /\ DOMAIN samples = 1 .. n /\ n \in Nat
      /\ samples'[n + 1] = m /\ \A i \in 1 .. n : samples'[i] = samples[i]
  BY <1>1, <1>2
<1> DEFINE after == Longer(Sent, body)
<1>10. Sent' = after
  <2> DEFINE texts == [i \in 1 .. n |-> Body(samples[i])]
             more == [i \in 1 .. n + 1 |-> Body(samples'[i])]
  <2>1. texts = Sent.bodies /\ texts \in Seq(Seq(Chars)) /\ Len(texts) = n
    BY <1>4, <1>9 DEF IsSent
  <2>2. Sent' = [begin |-> Begin, ending |-> Ending, bodies |-> more]
    BY <1>5, <1>6, <1>9 DEF Sent
  <2>3. Append(texts, body) = more
    <3>1. /\ Append(texts, body) \in Seq(Seq(Chars)) /\ Len(Append(texts, body)) = n + 1
          /\ Append(texts, body)[n + 1] = body
          /\ \A i \in 1 .. n : Append(texts, body)[i] = texts[i]
      <4> HIDE DEF texts, body
      <4>1. QED
        BY <1>8, <2>1
    <3>2. \A i \in 1 .. n : texts[i] = Body(samples[i]) /\ Body(samples[i]) \in Seq(Chars)
      BY <2>1
    <3>3. \A i \in 1 .. n + 1 : i = n + 1 \/ i \in 1 .. n
      BY <1>9
    <3>4. more[n + 1] = body /\ \A i \in 1 .. n : more[i] = Body(samples[i])
      BY <1>9
    <3>5. \A i \in 1 .. n + 1 : more[i] = Append(texts, body)[i] /\ more[i] \in Seq(Chars)
      <4> HIDE DEF more, texts, body, n
      <4>1. QED
        BY <1>8, <3>1, <3>2, <3>3, <3>4
    <3>6. more \in Seq(Seq(Chars)) /\ Len(more) = n + 1
      <4> DEFINE text(i) == Body(samples'[i])
      <4>1. \A i \in 1 .. n + 1 : text(i) \in Seq(Chars)
        BY <3>5
      <4>2. more = [i \in 1 .. n + 1 |-> text(i)]
        OBVIOUS
      <4> HIDE DEF text, more, n
      <4>3. QED
        BY <1>9, <4>1, <4>2
    <3> HIDE DEF more, texts, body, n
    <3>7. QED
      BY <3>1, <3>5, <3>6, SeqEqual
  <2>4. after = [begin |-> Begin, ending |-> Ending, bodies |-> Append(Sent.bodies, body)]
    BY <1>4 DEF Longer
  <2>5. QED
    BY <2>1, <2>2, <2>3, <2>4
<1>11. /\ IsSent(after) /\ Len(after.bodies) = n + 1
       /\ \A i \in 1 .. n : after.bodies[i] = Sent.bodies[i]
       /\ \A j \in 0 .. n : Ahead(after, j) = Ahead(Sent, j) \o LineOf(Sent, body)
  <2> HIDE DEF body, n
  <2>2. QED
    <3>1. ASSUME NEW j \in 0 .. n PROVE Ahead(after, j) = Ahead(Sent, j) \o LineOf(Sent, body)
      <4>1. j \in 0 .. Len(Sent.bodies)
        BY <1>4
      <4>2. QED
        BY <1>4, <1>8, <4>1, AheadMore DEF AheadGrows
    <3>2. k \in 0 .. Len(Sent.bodies)
      BY <1>3, <1>4
    <3>3. /\ IsSent(after) /\ Len(after.bodies) = Len(Sent.bodies) + 1
          /\ \A i \in 1 .. Len(Sent.bodies) : after.bodies[i] = Sent.bodies[i]
      BY <1>4, <1>8, <3>2, AheadMore
    <3>4. QED
      BY <1>4, <3>1, <3>3
<1>12. way' = LineOf(Sent, body) /\ way' \in Seq(Chars)
  <2>1. way' = LineOf(Sent, body)
    BY <1>1, <1>4 DEF Line, LineOf
  <2>2. LineOf(Sent, body) \in Seq(Chars)
    BY <1>3, <1>4, <1>8, LinesAfterIs
  <2>3. QED
    BY <2>1, <2>2
<1>13. after.begin = Sent.begin /\ after.ending = Sent.ending
  BY DEF Longer
<1> DEFINE added == way'
           rest == port \o way
<1>14. rest = port /\ port \in Seq(Chars)
  BY <1>1, <1>2 DEF Texts
<1> HIDE DEF after, body, added, rest
<1>15. At(after, mode, msg, port \o added, k)
  <2>1. Ahead(after, k) = Ahead(Sent, k) \o added /\ Ahead(Sent, k) \in Seq(Chars) /\ added \in Seq(Chars)
    BY <1>3, <1>4, <1>11, <1>12, AheadIs DEF added
  <2>2. CASE mode = 0
    <3>1. PICK t \in Seq(Chars) : Without(t, Sent.begin) /\ rest = t \o Ahead(Sent, k)
      BY <1>3, <2>2 DEF At, Between, rest
    <3>2. Associate(t, Ahead(Sent, k), added)
      BY <2>1, PartsAssociate
    <3>3. port \o added = t \o Ahead(after, k)
      BY <1>14, <2>1, <3>1, <3>2 DEF Associate
    <3>4. QED
      BY <1>13, <2>2, <3>1, <3>3 DEF At, Between
  <2>3. CASE mode # 0
    <3> DEFINE later == Ahead(Sent, k + 1)
    <3>1. k < n /\ Inside(Sent, msg, rest, k)
      BY <1>3, <1>4, <2>3 DEF At, Inside, rest
    <3>2. PICK u \in Seq(Chars) : Sent.bodies[k + 1] = msg \o u /\ rest = u \o (Sent.ending \o later)
      BY <3>1 DEF Inside
    <3>3. k + 1 \in 0 .. n /\ k + 1 \in 1 .. n
      BY <1>9, <3>1
    <3>4. Ahead(after, k + 1) = later \o added /\ later \in Seq(Chars) /\ Sent.ending \in Seq(Chars)
      <4>1. later \in Seq(Chars)
        BY <1>4, <3>3, AheadIs
      <4>2. QED
        BY <1>4, <1>11, <1>12, <3>3, <4>1 DEF added, IsSent
    <3>5. after.bodies[k + 1] = msg \o u
      BY <1>11, <3>2, <3>3
    <3> DEFINE end == Sent.ending
    <3> HIDE DEF later, end
    <3>6. port \o added = u \o (end \o (later \o added))
      <4>1. end \in Seq(Chars) /\ later \in Seq(Chars) /\ end \o later \in Seq(Chars)
        BY <3>4 DEF end
      <4>2. Associate(u, end \o later, added) /\ Associate(end, later, added)
        BY <2>1, <4>1, PartsAssociate
      <4>3. port = u \o (end \o later)
        BY <1>14, <3>2 DEF end
      <4>4. QED
        BY <4>2, <4>3 DEF Associate
    <3>7. port \o added = u \o (after.ending \o Ahead(after, k + 1))
      BY <1>13, <3>4, <3>6 DEF end
    <3>8. k < Len(after.bodies)
      BY <1>9, <1>11, <3>1
    <3>9. Inside(after, msg, port \o added, k)
      BY <3>5, <3>7, <3>8 DEF Inside
    <3>10. QED
      BY <2>3, <3>9 DEF At
  <2>4. QED
    BY <2>2, <2>3
<1>16. FromFirst(samples', k, got)
  <2>1. k \in Nat /\ k <= n
    BY <1>9
  <2>2. QED
    BY <1>1, <1>2, <1>3, <2>1, FromFirstStays
<1>17. k \in 0 .. Len(samples')
  BY <1>9
<1>18. \E j \in 0 .. Len(samples') : FromFirst(samples', j, got') /\ At(Sent', mode', msg', port' \o way', j)
  <2>1. got' = got /\ mode' = mode /\ msg' = msg /\ port' = port
    BY <1>1
  <2>2. QED
    BY <1>10, <1>15, <1>16, <1>17, <2>1 DEF added
<1>19. way' \in Texts
  BY <1>12 DEF Texts
<1>20. QED
  BY <1>1, <1>2, <1>7, <1>9, <1>18, <1>19 DEF TextInv

LEMMA DeliverKeepsText ==
  ASSUME TextInv, Deliver
  PROVE  TextInv'
<1>1. PICK n \in 1 .. Len(way) :
        port' = port \o SubSeq(way, 1, n) /\ way' = SubSeq(way, n + 1, Len(way))
  BY DEF Deliver
<1>2. UNCHANGED <<device, samples, lost, mode, msg, got>>
  BY DEF Deliver
<1> DEFINE a == SubSeq(way, 1, n)
           b == SubSeq(way, n + 1, Len(way))
<1>3. way \in Seq(Chars) /\ port \in Seq(Chars)
  BY DEF TextInv, Texts
<1>4. a \in Seq(Chars) /\ b \in Seq(Chars) /\ a \o b = way
  <2>1. /\ a \in Seq(Chars) /\ b \in Seq(Chars) /\ Len(a) = n /\ Len(b) = Len(way) - n
        /\ \A i \in 1 .. n : a[i] = way[i]
        /\ \A i \in 1 .. Len(way) - n : b[i] = way[n + i]
        /\ Len(way) \in Nat
    BY <1>3
  <2>0. a \in Seq(Chars) /\ b \in Seq(Chars)
    BY <2>1
  <2> DEFINE all == a \o b
  <2> HIDE DEF a, b
  <2>2. /\ all \in Seq(Chars) /\ Len(all) = Len(a) + Len(b)
        /\ \A i \in 1 .. Len(a) : all[i] = a[i]
        /\ \A i \in 1 .. Len(b) : all[Len(a) + i] = b[i]
    BY ONLY <2>0, BeginsWith
  <2> HIDE DEF all
  <2>3. ASSUME NEW i \in 1 .. Len(way) PROVE all[i] = way[i]
    <3>1. CASE i <= n
      BY <2>1, <2>2, <3>1
    <3>2. CASE i > n
      <4> DEFINE j == i - n
      <4>1. j \in 1 .. Len(way) - n /\ n + j = i
        BY <2>1, <3>2
      <4> HIDE DEF j
      <4>2. QED
        BY <2>1, <2>2, <4>1
    <3>3. QED
      BY <2>1, <3>1, <3>2
  <2>4. Len(all) = Len(way)
    BY <2>1, <2>2
  <2>5. all = way
    BY <1>3, <2>2, <2>3, <2>4, SeqEqual
  <2>6. QED
    BY <2>1, <2>5 DEF all
<1> HIDE DEF a, b
<1>5. Associate(port, a, b)
  BY <1>3, <1>4, PartsAssociate
<1>6. port' \o way' = port \o way /\ port' \in Seq(Chars) /\ way' \in Seq(Chars)
  <2>1. port' = port \o a /\ way' = b
    BY <1>1 DEF a, b
  <2>2. QED
    BY <1>3, <1>4, <1>5, <2>1 DEF Associate
<1>7. Sent' = Sent /\ TextsArePlain' = TextsArePlain
  BY <1>2, SameSent
<1>8. \E k \in 0 .. Len(samples') : FromFirst(samples', k, got') /\ At(Sent', mode', msg', port' \o way', k)
  BY <1>2, <1>6, <1>7 DEF TextInv
<1>9. QED
  BY <1>2, <1>6, <1>7, <1>8 DEF TextInv, Texts

LEMMA GetKeepsText ==
  ASSUME TextInv, get_imu
  PROVE  TextInv'
<1> DEFINE call == AtEnd(ReadAll)
<1>1. /\ TextsArePlain /\ samples \in Seq(Samples) /\ got \in Seq(Samples) /\ mode \in {0, 1}
      /\ msg \in Texts /\ port \in Texts /\ way \in Texts
  BY DEF TextInv
<1>2. /\ Call \in Calls /\ Call.mode = mode /\ Call.msg = msg
      /\ Call.got = << >> /\ ~Call.over /\ Call.left = << >>
  <2>1. << >> \in Texts /\ << >> \in Seq(Heard)
    BY DEF Texts
  <2>2. QED
    BY <1>1, <2>1 DEF Call, Calls
<1>3. Tells(Call, got, port \o way)
  <2> DEFINE rest == port \o way
  <2>1. got \o << >> = got /\ << >> \o rest = rest
    BY <1>1 DEF Texts
  <2>2. PICK k \in 0 .. Len(samples) : FromFirst(samples, k, got) /\ At(Sent, mode, msg, rest, k)
    BY DEF TextInv
  <2> HIDE DEF rest
  <2>3. got \o Call.got = got /\ Call.left \o rest = rest
    BY <1>2, <2>1
  <2>4. Tells(Call, got, rest)
    BY <1>1, <1>2, <2>2, <2>3 DEF Tells
  <2>5. QED
    BY <2>4 DEF rest
<1>4. ReadAll \in Calls /\ Tells(ReadAll, got, way)
  BY <1>1, <1>2, <1>3, ReadAllTells
<1>5. call \in Calls /\ Tells(call, got, way)
  <2> DEFINE all == ReadAll
  <2>1. all \in Calls /\ Tells(all, got, way)
    BY <1>4
  <2> HIDE DEF all
  <2>2. AtEnd(all) \in Calls /\ Tells(AtEnd(all), got, way)
    BY <1>1, <2>1, AtEndTells
  <2>3. QED
    BY <2>2 DEF all
<1>6. /\ mode' = call.mode /\ msg' = (IF call.mode = 1 THEN call.msg ELSE << >>)
      /\ port' = call.left /\ got' = got \o call.got
      /\ UNCHANGED <<device, samples, way, lost>>
  BY DEF get_imu
<1> HIDE DEF call
<1>7. PICK k \in 0 .. Len(samples) :
        FromFirst(samples, k, got \o call.got) /\ At(Sent, call.mode, call.msg, call.left \o way, k)
  BY <1>5 DEF Tells
<1>8. At(Sent, mode', msg', port' \o way, k)
  <2>1. CASE call.mode = 1
    BY <1>6, <1>7, <2>1
  <2>2. CASE call.mode # 1
    <3>1. call.mode = 0
      BY <1>5, <2>2 DEF Calls
    <3>2. Between(Sent, port' \o way, k)
      BY <1>6, <1>7, <3>1 DEF At
    <3>3. QED
      BY <1>6, <3>1, <3>2 DEF At
  <2>3. QED
    BY <2>1, <2>2
<1>9. got' \in Seq(Samples) /\ mode' \in {0, 1} /\ msg' \in Texts /\ port' \in Texts
  <2>1. << >> \in Texts
    BY DEF Texts
  <2>2. QED
    BY <1>5, <1>6, <2>1 DEF Tells, Calls
<1>10. Sent' = Sent /\ TextsArePlain' = TextsArePlain
  BY <1>6, SameSent
<1>11. \E j \in 0 .. Len(samples') : FromFirst(samples', j, got') /\ At(Sent', mode', msg', port' \o way', j)
  BY <1>6, <1>7, <1>8, <1>10
<1>12. QED
  BY <1>1, <1>6, <1>9, <1>10, <1>11 DEF TextInv

LEMMA TextStep ==
  ASSUME TextInv, lost = 0, (lost = 0)', [TextNext]_textVars
  PROVE  TextInv'
<1>1. CASE \E m \in Samples : SendSample(m)
  BY <1>1, SendKeepsText
<1>2. CASE LoseChar
  BY <1>2 DEF LoseChar
<1>3. CASE Deliver
  BY <1>3, DeliverKeepsText
<1>4. CASE get_imu
  BY <1>4, GetKeepsText
<1>5. CASE UNCHANGED textVars
  <2>1. UNCHANGED <<device, samples, way, port, lost, mode, msg, got>>
    BY <1>5 DEF textVars
  <2>2. Sent' = Sent /\ TextsArePlain' = TextsArePlain
    BY <2>1, SameSent
  <2>3. \E k \in 0 .. Len(samples') : FromFirst(samples', k, got') /\ At(Sent', mode', msg', port' \o way', k)
    BY <2>1, <2>2 DEF TextInv
  <2>4. QED
    BY <2>1, <2>2, <2>3 DEF TextInv
<1>6. QED
  BY <1>1, <1>2, <1>3, <1>4, <1>5 DEF TextNext

\* On a line that loses nothing, what either IMU publishes was sent, whole and in order,
\* however the text comes and the calls end: for any messages the buffer has room for.
THEOREM Samples_Undisturbed ==
  TextSpec /\ TextsArePlain /\ [](lost = 0) => []SamplesAsSent
<1>1. TextInit /\ TextsArePlain => TextInv
  BY TextStarts
<1>2. TextInv /\ lost = 0 /\ (lost = 0)' /\ [TextNext]_textVars => TextInv'
  BY TextStep
<1>3. TextInv => SamplesAsSent
  <2> SUFFICES ASSUME TextInv PROVE SamplesAsSent
    OBVIOUS
  <2>1. PICK k \in 0 .. Len(samples) : FromFirst(samples, k, got)
    BY DEF TextInv
  <2>2. PICK places \in [DOMAIN got -> 1 .. k] :
          /\ \A i, j \in DOMAIN got : i < j => places[i] < places[j]
          /\ \A i \in DOMAIN got : got[i] = samples[places[i]]
    BY <2>1 DEF FromFirst
  <2>3. DOMAIN samples = 1 .. Len(samples) /\ 1 .. k \subseteq 1 .. Len(samples)
    BY DEF TextInv
  <2>4. places \in [DOMAIN got -> DOMAIN samples]
    BY <2>2, <2>3
  <2>5. QED
    BY <2>2, <2>4 DEF SamplesAsSent
<1>4. QED
  BY <1>1, <1>2, <1>3, PTL DEF TextSpec

=============================================================================
