--------------------------- MODULE MainLoopProofs ---------------------------
(***************************************************************************)
(* MainLoop's inductive invariant, for every route, every set of places    *)
(* and every choice of the periods and limits, and the properties that     *)
(* follow from it; then the stages of the autopilot, which the loop        *)
(* updates.                                                                *)
(***************************************************************************)
EXTENDS MainLoop, Stages, SequenceLemmas, TLAPS

-----------------------------------------------------------------------------
(* Operators of the route manager *)

\* Absolute waypoints are waypoints.
LEMMA AbsoluteType ==
  ASSUME NEW p \in Places \cup {Origin}
  PROVE  Absolute(p) \in Waypoints /\ Absolute(p).offset = 0
BY CoursesAssumption, OffsetsAssumption DEF Absolute, Waypoints, Refs

\* Refreshing keeps the list's type and moves exactly the relative waypoints.
LEMMA RefreshFollows ==
  ASSUME NEW r \in [WptIndex -> Waypoints], NEW h \in Refs
  PROVE  /\ RefreshOffsetPositions(r, h) \in [WptIndex -> Waypoints]
         /\ \A i \in WptIndex :
              /\ RefreshOffsetPositions(r, h)[i].offset = r[i].offset
              /\ Relative(r[i]) => RefreshOffsetPositions(r, h)[i].ref = h
BY DEF RefreshOffsetPositions, Relative, Waypoints

\* The next waypoint is a waypoint, unless the list is empty.
LEMMA IncrementStays ==
  ASSUME NEW n \in WptIndex \cup {0}
  PROVE  /\ IncrementCurrent(n) \in WptIndex \cup {0}
         /\ NumWaypoints > 0 => /\ IncrementCurrent(n) \in WptIndex
                                /\ \/ IncrementCurrent(n) = n + 1
                                   \/ IncrementCurrent(n) = 0 /\ n = NumWaypoints - 1
BY NumWaypointsAssumption DEF IncrementCurrent, WptIndex

\* What the list gives as the current waypoint has a waypoint's type.
LEMMA CurrentType ==
  ASSUME RouteTypeOK
  PROVE  GetCurrent \in Waypoints
BY AbsoluteType DEF GetCurrent, RouteTypeOK

\* update_home() keeps the types.
LEMMA UpdateHomeType ==
  ASSUME RouteTypeOK, NEW h \in Refs, UpdateHome(h, TRUE)
  PROVE  /\ home' \in Refs /\ home_set' \in BOOLEAN
         /\ route' \in [WptIndex -> Waypoints]
<1>1. CASE HomeAccepted(h, TRUE)
  <2>1. RefreshOffsetPositions(route, h) \in [WptIndex -> Waypoints]
    BY RefreshFollows DEF RouteTypeOK
  <2>2. QED
    BY <1>1, <2>1 DEF UpdateHome
<1>2. CASE ~HomeAccepted(h, TRUE)
  BY <1>2 DEF UpdateHome, RouteTypeOK
<1>3. QED
  BY <1>1, <1>2

\* update_home() leaves every relative waypoint where the home in force puts it.
LEMMA UpdateHomeFollows ==
  ASSUME RouteTypeOK, RelativeFollowHome, NEW h \in Refs, UpdateHome(h, TRUE)
  PROVE  RelativeFollowHome'
<1>1. CASE HomeAccepted(h, TRUE)
  BY <1>1, RefreshFollows DEF UpdateHome, RouteTypeOK, RelativeFollowHome, Relative
<1>2. CASE ~HomeAccepted(h, TRUE)
  BY <1>2 DEF UpdateHome, RelativeFollowHome, Relative
<1>3. QED
  BY <1>1, <1>2

-----------------------------------------------------------------------------
(* Types *)

LEMMA InitType == Init => TypeOK
<1> SUFFICES ASSUME Init PROVE TypeOK
  OBVIOUS
<1>1. OriginRef \in Refs
  BY CoursesAssumption DEF OriginRef, Refs
<1>2. RouteTypeOK
  BY <1>1, RouteConfigAssumption DEF Init, RouteInit, RouteTypeOK, Modes
<1>3. Never \in Int
  BY TimesAssumption DEF Never
<1>4. /\ set_system_time \in BOOLEAN
      /\ initial_home \in BOOLEAN
      /\ read_command \in BOOLEAN
  BY Zenon DEF Init
<1>5. QED
  BY <1>2, <1>3, <1>4, PeriodsAssumption DEF Init, TypeOK, Phases, NoTick, NoOrder

LEMMA NextType ==
  ASSUME TypeOK, CountersInv, [Next]_vars
  PROVE  TypeOK'
<1> USE PeriodsAssumption DEF TypeOK, routeVars, clockVars, gpsVars, linkVars, counterVars,
            Phases, NoTick, NoOrder
<1>1. CASE StartTick
  BY <1>1 DEF StartTick, CountersInv, RouteTypeOK
<1>2. CASE GpsQuiet
  BY <1>2 DEF GpsQuiet, RouteTypeOK
<1>3. ASSUME NEW p \in Places, GpsFix(p)
      PROVE  TypeOK'
  BY <1>3 DEF GpsFix, RouteTypeOK, Time, SettledBy
<1>4. CASE GpsTimeUtc
  BY <1>4 DEF GpsTimeUtc, RouteTypeOK
<1>5. CASE InitialHome
  <2>1. CASE ~initial_home /\ FixIsRecent
    <3>1. GpsHome \in Refs
      BY CoursesAssumption DEF GpsHome, Refs
    <3>2. UpdateHome(GpsHome, TRUE)
      BY <1>5, <2>1 DEF InitialHome
    <3>3. home' \in Refs /\ home_set' \in BOOLEAN /\ route' \in [WptIndex -> Waypoints]
      BY <3>1, <3>2, UpdateHomeType
    <3>4. UNCHANGED <<initial_home>> \/ initial_home' \in BOOLEAN
      BY <1>5 DEF InitialHome
    <3>5. QED
      BY <1>5, <3>3, <3>4 DEF InitialHome, RouteTypeOK
  <2>2. CASE ~(~initial_home /\ FixIsRecent)
    <3>1. initial_home' = initial_home
      BY <1>5, <2>2, Zenon DEF InitialHome
    <3>2. UNCHANGED <<home, home_set, route>>
      BY <1>5, <2>2, Zenon DEF InitialHome
    <3>3. QED
      BY <1>5, <3>1, <3>2 DEF InitialHome, RouteTypeOK
  <2>3. QED
    BY <2>1, <2>2
<1>6. CASE LinkNotDue
  BY <1>6 DEF LinkNotDue, RouteTypeOK
<1>7. CASE Command
  <2> USE DEF ReadLink, RegisterCommand, SetRouteMode, Modes
  <2>1. CASE NoCommand
    BY <2>1 DEF NoCommand, RouteTypeOK
  <2>2. CASE HeartBeat
    BY <2>2 DEF HeartBeat, RouteTypeOK
  <2>3. ASSUME NEW p \in Places, NEW c \in Courses,
               HomeCommand([place |-> p, course |-> c])
        PROVE  TypeOK'
    <3>1. [place |-> p, course |-> c] \in Refs
      BY DEF Refs
    <3>2. home' \in Refs /\ home_set' \in BOOLEAN /\ route' \in [WptIndex -> Waypoints]
      BY <2>3, <3>1, UpdateHomeType DEF HomeCommand
    <3>3. QED
      BY <2>3, <3>2 DEF HomeCommand, RouteTypeOK
  <2>4. ASSUME NEW m \in Modes, GoCommand(m)
        PROVE  TypeOK'
    BY <2>4 DEF GoCommand, RouteTypeOK
  <2>5. ASSUME NEW p \in Places, NEW n \in 0 .. NumWaypoints, WaypointCommand(p, n)
        PROVE  TypeOK'
    BY <2>5, AbsoluteType DEF WaypointCommand, ReplaceWaypoint, RouteTypeOK
  <2>6. QED
    BY <1>7, <2>1, <2>2, <2>3, <2>4, <2>5 DEF Command
<1>8. CASE Failsafe
  BY <1>8 DEF Failsafe, RouteTypeOK, SetHomeMode, Modes
<1>9. CASE RouteNotDue
  BY <1>9 DEF RouteNotDue, RouteTypeOK
<1>10. ASSUME NEW near \in BOOLEAN, RouteUpdate(near)
       PROVE  TypeOK'
  <2>1. RouteTypeOK'
    <3>1. CASE TrackHome
      <4>1. HomePoint(home) \in Waypoints
        BY AbsoluteType DEF HomePoint, RouteTypeOK, Refs
      <4>2. QED
        BY <3>1, <4>1 DEF TrackHome, RouteTypeOK
    <3>2. CASE TrackWaypoint(GPS_age < RouteAge, near)
      BY <3>2, CurrentType, IncrementStays DEF TrackWaypoint, RouteTypeOK
    <3>3. CASE TrackNothing(GPS_age < RouteAge)
      BY <3>3 DEF TrackNothing, RouteTypeOK
    <3>4. QED
      BY <1>10, <3>1, <3>2, <3>3 DEF RouteUpdate
  <2>2. QED
    BY <1>10, <2>1 DEF RouteUpdate
<1>11. CASE UNCHANGED vars
  BY <1>11 DEF vars, RouteTypeOK
<1>12. QED
  BY <1>1, <1>2, <1>3, <1>4, <1>5, <1>6, <1>7, <1>8, <1>9, <1>10, <1>11 DEF Next

-----------------------------------------------------------------------------
(* The parts of the invariant *)

\* What every outcome of reading the link has in common.
LEMMA CommandFrame ==
  ASSUME Command
  PROVE  /\ phase = "link" /\ phase' = "failsafe"
         /\ command_counter >= CommandPeriod /\ command_counter' = 0
         /\ UNCHANGED <<current_wp, steer, clockVars, gpsVars, route_counter, initial_home>>
         /\ UNCHANGED linkVars \/ RegisterCommand
<1>1. CASE NoCommand
  BY <1>1 DEF NoCommand, ReadLink
<1>2. CASE ~NoCommand
  BY <1>2 DEF Command, HeartBeat, HomeCommand, GoCommand, WaypointCommand, ReadLink
<1>3. QED
  BY <1>1, <1>2

\* Each section leaves the counters as the next ones expect them.
LEMMA NextCounters ==
  ASSUME TypeOK, CountersInv, [Next]_vars
  PROVE  CountersInv'
<1> USE PeriodsAssumption DEF TypeOK, CountersInv, counterVars, Phases
<1>1. CASE StartTick
  BY <1>1 DEF StartTick
<1>2. CASE GpsQuiet
  BY <1>2 DEF GpsQuiet
<1>3. ASSUME NEW p \in Places, GpsFix(p)
      PROVE  CountersInv'
  BY <1>3 DEF GpsFix
<1>4. CASE GpsTimeUtc
  BY <1>4 DEF GpsTimeUtc
<1>5. CASE InitialHome
  BY <1>5 DEF InitialHome
<1>6. CASE LinkNotDue
  BY <1>6 DEF LinkNotDue
<1>7. CASE Command
  BY <1>7, CommandFrame
<1>8. CASE Failsafe
  BY <1>8 DEF Failsafe
<1>9. CASE RouteNotDue
  BY <1>9 DEF RouteNotDue
<1>10. ASSUME NEW near \in BOOLEAN, RouteUpdate(near)
       PROVE  CountersInv'
  BY <1>10 DEF RouteUpdate
<1>11. CASE UNCHANGED vars
  BY <1>11 DEF vars
<1>12. QED
  BY <1>1, <1>2, <1>3, <1>4, <1>5, <1>6, <1>7, <1>8, <1>9, <1>10, <1>11 DEF Next

\* Only the first UTC message resets the clock, and then the epoch was 0.
LEMMA NextClock ==
  ASSUME TypeOK, ClockInv, [Next]_vars
  PROVE  ClockInv'
<1> USE DEF TypeOK, ClockInv, Time, clockVars, Phases
<1>1. CASE StartTick
  BY <1>1 DEF StartTick
<1>2. CASE GpsQuiet
  BY <1>2 DEF GpsQuiet
<1>3. ASSUME NEW p \in Places, GpsFix(p)
      PROVE  ClockInv'
  BY <1>3 DEF GpsFix
<1>4. CASE GpsTimeUtc
  BY <1>4 DEF GpsTimeUtc
<1>5. CASE InitialHome
  BY <1>5 DEF InitialHome
<1>6. CASE LinkNotDue
  BY <1>6 DEF LinkNotDue
<1>7. CASE Command
  BY <1>7, CommandFrame
<1>8. CASE Failsafe
  BY <1>8 DEF Failsafe
<1>9. CASE RouteNotDue
  BY <1>9 DEF RouteNotDue
<1>10. ASSUME NEW near \in BOOLEAN, RouteUpdate(near)
       PROVE  ClockInv'
  BY <1>10 DEF RouteUpdate
<1>11. CASE UNCHANGED vars
  BY <1>11 DEF vars
<1>12. QED
  BY <1>1, <1>2, <1>3, <1>4, <1>5, <1>6, <1>7, <1>8, <1>9, <1>10, <1>11 DEF Next

\* A stamp in get_Time() never exceeds the tick it was taken at.
LEMMA NextStamps ==
  ASSUME TypeOK, ClockInv, StampsInv, [Next]_vars
  PROVE  StampsInv'
<1> USE DEF TypeOK, ClockInv, StampsInv, Time, clockVars, gpsVars, linkVars, NoTick
<1>1. CASE StartTick
  BY <1>1 DEF StartTick
<1>2. CASE GpsQuiet
  BY <1>2 DEF GpsQuiet
<1>3. ASSUME NEW p \in Places, GpsFix(p)
      PROVE  StampsInv'
  BY <1>3, TimesAssumption DEF GpsFix, SettledBy
<1>4. CASE GpsTimeUtc
  BY <1>4 DEF GpsTimeUtc
<1>5. CASE InitialHome
  BY <1>5 DEF InitialHome
<1>6. CASE LinkNotDue
  BY <1>6 DEF LinkNotDue
<1>7. CASE Command
  <2>1. CASE UNCHANGED linkVars
    BY <1>7, <2>1, CommandFrame
  <2>2. CASE RegisterCommand
    BY <1>7, <2>2, CommandFrame DEF RegisterCommand
  <2>3. QED
    BY <1>7, <2>1, <2>2, CommandFrame
<1>8. CASE Failsafe
  BY <1>8 DEF Failsafe
<1>9. CASE RouteNotDue
  BY <1>9 DEF RouteNotDue
<1>10. ASSUME NEW near \in BOOLEAN, RouteUpdate(near)
       PROVE  StampsInv'
  BY <1>10 DEF RouteUpdate
<1>11. CASE UNCHANGED vars
  BY <1>11 DEF vars
<1>12. QED
  BY <1>1, <1>2, <1>3, <1>4, <1>5, <1>6, <1>7, <1>8, <1>9, <1>10, <1>11 DEF Next

\* Between the failsafe and the end of its tick nothing ends GoHome mode.
LEMMA NextFailsafe ==
  ASSUME TypeOK, ClockInv, StampsInv, FailsafeInv, [Next]_vars
  PROVE  FailsafeInv'
<1> USE TimesAssumption DEF TypeOK, FailsafeInv, clockVars, linkVars, routeVars, Phases
<1>1. CASE StartTick
  BY <1>1 DEF StartTick
<1>2. CASE GpsQuiet
  BY <1>2 DEF GpsQuiet
<1>3. ASSUME NEW p \in Places, GpsFix(p)
      PROVE  FailsafeInv'
  BY <1>3 DEF GpsFix
<1>4. CASE GpsTimeUtc
  BY <1>4 DEF GpsTimeUtc
<1>5. CASE InitialHome
  BY <1>5 DEF InitialHome
<1>6. CASE LinkNotDue
  BY <1>6 DEF LinkNotDue
<1>7. CASE Command
  BY <1>7, CommandFrame
<1>8. CASE Failsafe
  BY <1>8 DEF Failsafe, SetHomeMode, LinkIsLost, ClockInv, StampsInv, Time
<1>9. CASE RouteNotDue
  BY <1>9 DEF RouteNotDue
<1>10. ASSUME NEW near \in BOOLEAN, RouteUpdate(near)
       PROVE  FailsafeInv'
  BY <1>10 DEF RouteUpdate, TrackHome, TrackWaypoint, TrackNothing
<1>11. CASE UNCHANGED vars
  BY <1>11 DEF vars
<1>12. QED
  BY <1>1, <1>2, <1>3, <1>4, <1>5, <1>6, <1>7, <1>8, <1>9, <1>10, <1>11 DEF Next

\* Relative waypoints move exactly when the home does.
LEMMA NextRelative ==
  ASSUME TypeOK, RelativeFollowHome, [Next]_vars
  PROVE  RelativeFollowHome'
<1>1. CASE UNCHANGED <<home, home_set, route>>
  BY <1>1 DEF RelativeFollowHome, Relative
<1>2. ASSUME NEW h \in Refs, UpdateHome(h, TRUE)
      PROVE  RelativeFollowHome'
  BY <1>2, UpdateHomeFollows DEF TypeOK
<1>3. CASE InitialHome
  <2>1. GpsHome \in Refs
    BY CoursesAssumption DEF GpsHome, Refs, TypeOK
  <2>2. QED
    BY <1>1, <1>2, <1>3, <2>1 DEF InitialHome
<1>4. CASE Command
  <2>1. CASE NoCommand \/ HeartBeat \/ \E m \in Modes : GoCommand(m)
    BY <1>1, <2>1 DEF NoCommand, HeartBeat, GoCommand
  <2>2. ASSUME NEW q \in Places, NEW c \in Courses,
               HomeCommand([place |-> q, course |-> c])
        PROVE  RelativeFollowHome'
    <3>1. [place |-> q, course |-> c] \in Refs
      BY DEF Refs
    <3>2. QED
      BY <1>2, <2>2, <3>1 DEF HomeCommand
  <2>3. ASSUME NEW q \in Places, NEW n \in 0 .. NumWaypoints, WaypointCommand(q, n)
        PROVE  RelativeFollowHome'
    BY <2>3, AbsoluteType
      DEF WaypointCommand, ReplaceWaypoint, RelativeFollowHome, Relative, TypeOK, RouteTypeOK
  <2>4. QED
    BY <1>4, <2>1, <2>2, <2>3 DEF Command
<1>5. CASE UNCHANGED vars
  BY <1>1, <1>5 DEF vars, routeVars
<1>6. QED
  BY <1>1, <1>3, <1>4, <1>5
    DEF Next, StartTick, GpsQuiet, GpsFix, GpsTimeUtc, LinkNotDue, Failsafe, RouteNotDue,
        RouteUpdate, TrackHome, TrackWaypoint, TrackNothing, routeVars

\* Only a route update ends a tick with its counter at zero, and it has just
\* turned the ground track.
LEMMA NextGroundtrack ==
  ASSUME TypeOK, CountersInv, GroundtrackFollowsMode, [Next]_vars
  PROVE  GroundtrackFollowsMode'
<1>1. CASE phase' # "idle"
  BY <1>1 DEF GroundtrackFollowsMode
<1>2. CASE UNCHANGED vars
  BY <1>2 DEF GroundtrackFollowsMode, vars, routeVars, clockVars, gpsVars, counterVars,
              GPS_age, Time
<1>3. CASE RouteNotDue
  BY <1>3 DEF RouteNotDue, GroundtrackFollowsMode, CountersInv, TypeOK, counterVars
<1>4. ASSUME NEW near \in BOOLEAN, RouteUpdate(near)
      PROVE  GroundtrackFollowsMode'
  <2> USE DEF RouteUpdate, GroundtrackFollowsMode
  <2>1. GPS_age' = GPS_age
    BY <1>4 DEF GPS_age, Time, clockVars, gpsVars
  <2>2. CASE TrackHome
    BY <2>2 DEF TrackHome, HomePoint, Absolute
  <2>3. CASE TrackWaypoint(GPS_age < RouteAge, near)
    <3>1. current_wp \in WptIndex
      BY <2>3, NumWaypointsAssumption DEF TrackWaypoint, TypeOK, RouteTypeOK, WptIndex
    <3>2. /\ steer' = route'[current_wp]
          /\ current_wp' \in {current_wp, IncrementCurrent(current_wp)}
          /\ mode' = "FollowRoute"
      BY <2>3, <3>1 DEF TrackWaypoint, GetCurrent
    <3>3. QED
      BY <3>1, <3>2 DEF IncrementCurrent
  <2>4. CASE TrackNothing(GPS_age < RouteAge)
    BY <2>1, <2>4, NumWaypointsAssumption DEF TrackNothing, routeVars
  <2>5. QED
    BY <1>4, <2>2, <2>3, <2>4
<1>5. QED
  BY <1>1, <1>2, <1>3, <1>4, CommandFrame
    DEF Next, StartTick, GpsQuiet, GpsFix, GpsTimeUtc, InitialHome, LinkNotDue, Failsafe

-----------------------------------------------------------------------------
(* Theorems *)

LEMMA InitInvariant == Init => IInv
<1> SUFFICES ASSUME Init PROVE IInv
  OBVIOUS
<1>1. TypeOK
  BY InitType
<1>2. RelativeFollowHome
  BY RouteConfigAssumption DEF Init, RouteInit, RelativeFollowHome, Relative
<1>3. CountersInv /\ ClockInv
  BY PeriodsAssumption DEF Init, CountersInv, ClockInv
<1>4. StampsInv /\ FailsafeInv /\ GroundtrackFollowsMode
  BY DEF Init, StampsInv, FailsafeInv, GroundtrackFollowsMode, NoTick
<1>5. QED
  BY <1>1, <1>2, <1>3, <1>4 DEF IInv

LEMMA NextInvariant == IInv /\ [Next]_vars => IInv'
BY NextType, NextCounters, NextClock, NextStamps, NextFailsafe, NextRelative,
   NextGroundtrack DEF IInv

\* IInv is inductive: it holds in every reachable state of every configuration.
THEOREM Invariant == Spec => []IInv
BY InitInvariant, NextInvariant, PTL DEF Spec

\* Every variable keeps the type of what it stands for in the code.
THEOREM TypeCorrect == Spec => []TypeOK
<1>1. IInv => TypeOK
  BY DEF IInv
<1>2. QED
  BY <1>1, Invariant, PTL

\* A lost link takes the aircraft home, late by the length of the clock's first
\* epoch at most.
THEOREM LostLink_Home == Spec => []LostLinkGoesHome
<1>1. IInv => LostLinkGoesHome
  BY DEF IInv, FailsafeInv, LostLinkGoesHome
<1>2. QED
  BY <1>1, Invariant, PTL

\* Relative waypoints are always where the home in force puts them.
THEOREM Relative_FollowHome == Spec => []RelativeFollowHome
<1>1. IInv => RelativeFollowHome
  BY DEF IInv
<1>2. QED
  BY <1>1, Invariant, PTL

\* The ground track points where the mode says.
THEOREM Groundtrack_FollowsMode == Spec => []GroundtrackFollowsMode
<1>1. IInv => GroundtrackFollowsMode
  BY DEF IInv
<1>2. QED
  BY <1>1, Invariant, PTL

\* A time stamp of the last used fix that passes for young is one.
LEMMA AgeIsTrue ==
  ASSUME IInv, NEW limit \in 0 .. Year, GPS_age < limit
  PROVE  /\ now - last_fix < limit + epoch
         /\ last_fix - first_fix >= Settle
<1>1. gps_last_time # Never
  BY TimesAssumption DEF IInv, TypeOK, ClockInv, GPS_age, Time, Never
<1>2. QED
  BY <1>1, TimesAssumption DEF IInv, TypeOK, StampsInv, GPS_age, Time, NoTick

\* The initial home comes from a recent fix of a settled receiver.
THEOREM Home_FromSettledFix == Spec => HomeFromSettledFix
<1>1. ASSUME IInv, [Next]_vars, ~initial_home, initial_home'
      PROVE  /\ home'.place = fix_place
             /\ now - last_fix < HomeAge + epoch
             /\ last_fix - first_fix >= Settle
  <2>1. InitialHome /\ FixIsRecent /\ HomeAccepted(GpsHome, TRUE)
    BY <1>1, CommandFrame, Zenon
      DEF Next, vars, StartTick, GpsQuiet, GpsFix, GpsTimeUtc, LinkNotDue, Failsafe,
          RouteNotDue, RouteUpdate, InitialHome
  <2>2. home' = GpsHome
    BY <1>1, <2>1, Zenon DEF InitialHome, UpdateHome
  <2>3. QED
    BY <1>1, <2>1, <2>2, AgeIsTrue, TimesAssumption DEF FixIsRecent, GpsHome
<1>2. IInv /\ [Next]_vars =>
        [~initial_home /\ initial_home' => /\ home'.place = fix_place
                                          /\ now - last_fix < HomeAge + epoch
                                          /\ last_fix - first_fix >= Settle]_vars
  BY <1>1, Zenon
<1>3. QED
  BY <1>2, Invariant, PTL DEF Spec, HomeFromSettledFix

\* The place on the route survives every flight home and every stale fix.
THEOREM Route_KeepsItsPlace == Spec => RouteKeepsItsPlace
<1>1. ASSUME IInv, [Next]_vars, current_wp' # current_wp
      PROVE  /\ mode = "FollowRoute"
             /\ now - last_fix < RouteAge + epoch
             /\ current_wp' \in WptIndex
             /\ \/ current_wp' = current_wp + 1
                \/ current_wp' = 0 /\ current_wp = NumWaypoints - 1
  <2>1. PICK near \in BOOLEAN : TrackWaypoint(GPS_age < RouteAge, near)
    BY <1>1, CommandFrame
      DEF Next, vars, routeVars, StartTick, GpsQuiet, GpsFix, GpsTimeUtc, LinkNotDue,
          Failsafe, RouteNotDue, RouteUpdate, InitialHome, TrackHome, TrackNothing
  <2>2. NumWaypoints > 0 /\ current_wp' = IncrementCurrent(current_wp)
    BY <1>1, <2>1 DEF TrackWaypoint
  <2>3. current_wp \in WptIndex \cup {0}
    BY <1>1 DEF IInv, TypeOK, RouteTypeOK
  <2>4. QED
    BY <1>1, <2>1, <2>2, <2>3, IncrementStays, AgeIsTrue, TimesAssumption DEF TrackWaypoint
<1>2. IInv /\ [Next]_vars =>
        [current_wp' # current_wp =>
           /\ mode = "FollowRoute"
           /\ now - last_fix < RouteAge + epoch
           /\ current_wp' \in WptIndex
           /\ \/ current_wp' = current_wp + 1
              \/ current_wp' = 0 /\ current_wp = NumWaypoints - 1]_vars
  BY <1>1, Zenon
<1>3. QED
  BY <1>2, Invariant, PTL DEF Spec, RouteKeepsItsPlace

-----------------------------------------------------------------------------
(* The autopilot's stages: the PID controller and its copy *)

PidStages == [enabled : BOOLEAN, u_n_1 : Int, ep_n_1 : Int, elapsedTime : Int]
Histories == [seed : Int, sum : Int, cut : Int]

\* What holds of one copy: a stage that is off has no error of before, one that is on has
\* the sum of the textbook and is within the limits.
PidRight(pid, was) ==
  /\ pid \in PidStages /\ was \in Histories
  /\ ~pid.enabled => pid.ep_n_1 = 0
  /\ pid.enabled =>
       /\ pid.u_n_1 = was.seed + pid.ep_n_1 + was.sum + was.cut
       /\ pid.u_n_1 \in u_min .. u_max

LEMMA Limits ==
  /\ \A u \in Int : Clipped(u) \in u_min .. u_max
  /\ \A u \in u_min .. u_max, delta \in Int :
       AntiWindup(delta, u) \in Int /\ u + AntiWindup(delta, u) \in u_min .. u_max
<1>1. u_min \in Int /\ u_max \in Int /\ u_min <= u_max
  BY StagesAssumption
<1>2. \A u \in Int : Clipped(u) \in u_min .. u_max
  BY <1>1 DEF Clipped
<1>3. \A u \in u_min .. u_max, delta \in Int :
        AntiWindup(delta, u) \in Int /\ u + AntiWindup(delta, u) \in u_min .. u_max
  BY <1>1 DEF AntiWindup
<1>4. QED
  BY <1>2, <1>3

Stage(pid, u, was) == [stage |-> pid, output |-> u, engaged |-> was]

\* A copy that computes adds its increment up.
LEMMA ComputedRight ==
  ASSUME NEW pid, NEW was, PidRight(pid, was), NEW u \in Int, NEW Ts \in Int, NEW y \in Int
  PROVE  LET c == Computed(Stage(pid, u, was), Ts, y)
         IN  /\ PidRight(c.stage, c.engaged)
             /\ c.stage.enabled /\ c.stage.elapsedTime = pid.elapsedTime
             /\ c.stage.ep_n_1 = Reference - y
             /\ c.engaged.sum = (IF pid.enabled THEN was.sum ELSE 0) + Ts * (Reference - y)
             /\ c.output = c.stage.u_n_1
<1> DEFINE s == Stage(pid, u, was)
           c == Computed(s, Ts, y)
<1>1. s.stage = pid /\ s.output = u /\ s.engaged = was
  BY DEF Stage
<1>2. Reference \in Int /\ u_min \in Int /\ u_max \in Int
  BY StagesAssumption
<1>3. PICK p \in Int : p = Ts * (Reference - y)
  BY <1>2
<1>4. PICK e \in Int : e = Reference - y
  BY <1>2
<1>5. PICK u0 : u0 = IF ~pid.enabled THEN Clipped(u) ELSE pid.u_n_1
  OBVIOUS
<1>6. u0 \in u_min .. u_max
  BY <1>5, Limits DEF PidRight
<1>7. PICK wish \in Int : wish = (e - pid.ep_n_1) + p
  BY DEF PidRight, PidStages
<1>8. PICK delta : delta = AntiWindup(wish, u0)
  OBVIOUS
<1>9. delta \in Int /\ u0 + delta \in u_min .. u_max
  BY <1>6, <1>8, Limits
<1>10. PICK old : old = IF ~pid.enabled THEN [seed |-> u0, sum |-> 0, cut |-> 0] ELSE was
  OBVIOUS
<1>11. c = [stage   |-> [enabled |-> TRUE, u_n_1 |-> u0 + delta, ep_n_1 |-> e,
                         elapsedTime |-> pid.elapsedTime],
            output  |-> u0 + delta,
            engaged |-> [old EXCEPT !.sum = @ + p, !.cut = @ + delta - wish]]
  BY <1>1, <1>3, <1>4, <1>5, <1>7, <1>8, <1>10 DEF Computed
<1>12. old \in Histories /\ u0 = old.seed + pid.ep_n_1 + old.sum + old.cut
  <2>1. CASE pid.enabled
    BY <1>5, <1>10, <2>1 DEF PidRight
  <2>2. CASE ~pid.enabled
    <3>1. old = [seed |-> u0, sum |-> 0, cut |-> 0] /\ pid.ep_n_1 = 0 /\ u0 \in Int
      BY <1>2, <1>6, <1>10, <2>2 DEF PidRight
    <3>2. QED
      BY <3>1 DEF Histories
  <2>3. QED
    BY <2>1, <2>2
<1>13. PICK new : new = [old EXCEPT !.sum = @ + p, !.cut = @ + delta - wish]
  OBVIOUS
<1>14. /\ new.seed = old.seed /\ new.sum = old.sum + p /\ new.cut = old.cut + delta - wish
       /\ new \in Histories
  <2>1. old \in [seed : Int, sum : Int, cut : Int] /\ p \in Int /\ delta \in Int /\ wish \in Int
    BY <1>9, <1>12 DEF Histories
  <2>2. PICK half : half = [old EXCEPT !.sum = @ + p]
    OBVIOUS
  <2>3. new = [half EXCEPT !.cut = @ + delta - wish]
    BY ONLY <1>13, <2>1, <2>2
  <2>4. /\ half.seed = old.seed /\ half.sum = old.sum + p /\ half.cut = old.cut
        /\ half \in [seed : Int, sum : Int, cut : Int]
    BY ONLY <2>1, <2>2
  <2>5. /\ new.seed = half.seed /\ new.sum = half.sum /\ new.cut = half.cut + delta - wish
        /\ new \in [seed : Int, sum : Int, cut : Int]
    BY ONLY <2>1, <2>3, <2>4
  <2>6. QED
    BY <2>4, <2>5 DEF Histories
<1>15. u0 + delta = new.seed + e + new.sum + new.cut
  <2>1. /\ old.seed \in Int /\ old.sum \in Int /\ old.cut \in Int /\ pid.ep_n_1 \in Int
        /\ u0 \in Int
    BY <1>2, <1>6, <1>12 DEF Histories, PidRight, PidStages
  <2>2. QED
    BY <2>1, <1>7, <1>9, <1>12, <1>14
<1>16. /\ c.stage = [enabled |-> TRUE, u_n_1 |-> u0 + delta, ep_n_1 |-> e,
                     elapsedTime |-> pid.elapsedTime]
       /\ c.output = u0 + delta /\ c.engaged = new
  BY <1>11, <1>13
<1>17. c.stage \in PidStages
  BY <1>2, <1>6, <1>9, <1>16 DEF PidStages, PidRight
<1>18. PidRight(c.stage, c.engaged)
  BY <1>9, <1>15, <1>16, <1>17, <1>14 DEF PidRight
<1>19. new.sum = (IF pid.enabled THEN was.sum ELSE 0) + p
  BY <1>10, <1>14
<1>20. QED
  BY <1>3, <1>4, <1>16, <1>18, <1>19

\* What an update makes of a copy: nothing before its time has come.
Updated(c, pid, was, u, Ts, y) ==
  /\ PidRight(c.stage, c.engaged) /\ c.output \in Int
  /\ Ts <= Interval =>
       /\ c.stage.enabled = pid.enabled /\ c.stage.elapsedTime = Ts
       /\ c.stage.ep_n_1 = pid.ep_n_1 /\ c.stage.u_n_1 = pid.u_n_1
       /\ c.engaged = was /\ c.output = u
  /\ ~(Ts <= Interval) => c.stage.enabled = lock /\ c.stage.elapsedTime = 0
  /\ ~(Ts <= Interval) /\ lock =>
       /\ c.stage.ep_n_1 = Reference - y
       /\ c.engaged.sum = (IF pid.enabled THEN was.sum ELSE 0) + Ts * (Reference - y)
       /\ c.output = c.stage.u_n_1

LEMMA PidUpdateRight ==
  ASSUME NEW pid, NEW was, PidRight(pid, was), NEW u \in Int, NEW dt \in Int, NEW y \in Int,
         lock \in BOOLEAN
  PROVE  Updated(PidUpdate(Stage(pid, u, was), dt, y), pid, was, u, pid.elapsedTime + dt, y)
<1> DEFINE s == Stage(pid, u, was)
           c == PidUpdate(s, dt, y)
<1>1. s.stage = pid /\ s.output = u /\ s.engaged = was
  BY DEF Stage
<1>2. pid \in PidStages /\ was \in Histories /\ Interval \in Int
  BY StagesAssumption DEF PidRight
<1>3. PICK Ts \in Int : Ts = pid.elapsedTime + dt
  BY <1>2 DEF PidStages
<1>c. Computes(pid, dt) <=> ~(Ts <= Interval)
  BY <1>2, <1>3 DEF Computes, PidStages
<1>4. CASE Ts <= Interval
  <2>1. c = [s EXCEPT !.stage.elapsedTime = Ts]
    BY <1>1, <1>3, <1>c, <1>4 DEF PidUpdate
  <2>2. PICK new : new = [pid EXCEPT !.elapsedTime = Ts]
    OBVIOUS
  <2>3. c.stage = new /\ c.output = u /\ c.engaged = was
    BY <1>1, <2>1, <2>2 DEF Stage
  <2>4. /\ new \in PidStages /\ new.enabled = pid.enabled /\ new.elapsedTime = Ts
        /\ new.ep_n_1 = pid.ep_n_1 /\ new.u_n_1 = pid.u_n_1
    BY <1>2, <2>2 DEF PidStages
  <2>5. PidRight(new, was)
    BY <2>4 DEF PidRight
  <2>6. QED
    BY <1>3, <1>4, <2>3, <2>4, <2>5 DEF Updated
<1>5. CASE ~(Ts <= Interval)
  <2>1. PICK awake : awake = [pid EXCEPT !.elapsedTime = 0]
    OBVIOUS
  <2>2. /\ awake \in PidStages /\ awake.enabled = pid.enabled /\ awake.elapsedTime = 0
        /\ awake.ep_n_1 = pid.ep_n_1 /\ awake.u_n_1 = pid.u_n_1
    BY <1>2, <2>1 DEF PidStages
  <2>3. PidRight(awake, was)
    BY <2>2 DEF PidRight
  <2>4. [s EXCEPT !.stage.elapsedTime = 0] = Stage(awake, u, was)
    BY <2>1 DEF Stage
  <2>5. c = IF lock THEN Computed(Stage(awake, u, was), Ts, y) ELSE Disabled(Stage(awake, u, was))
    BY <1>1, <1>3, <1>c, <1>5, <2>4 DEF PidUpdate
  <2>6. CASE lock
    <3>1. PICK d : d = Computed(Stage(awake, u, was), Ts, y)
      OBVIOUS
    <3>2. /\ PidRight(d.stage, d.engaged)
          /\ d.stage.enabled /\ d.stage.elapsedTime = awake.elapsedTime
          /\ d.stage.ep_n_1 = Reference - y
          /\ d.engaged.sum = (IF awake.enabled THEN was.sum ELSE 0) + Ts * (Reference - y)
          /\ d.output = d.stage.u_n_1
      <4>1. Ts \in Int /\ PidRight(awake, was)
        BY <2>3
      <4>2. u \in Int /\ y \in Int
        OBVIOUS
      <4>3. LET e == Computed(Stage(awake, u, was), Ts, y)
            IN  /\ PidRight(e.stage, e.engaged)
                /\ e.stage.enabled /\ e.stage.elapsedTime = awake.elapsedTime
                /\ e.stage.ep_n_1 = Reference - y
                /\ e.engaged.sum = (IF awake.enabled THEN was.sum ELSE 0) + Ts * (Reference - y)
                /\ e.output = e.stage.u_n_1
        BY ONLY <4>1, <4>2, ComputedRight
      <4>4. QED
        BY ONLY <3>1, <4>3
    <3>3. c = d
      BY <2>5, <2>6, <3>1
    <3>4. d.output \in Int /\ d.stage.enabled = lock
      <4>1. d.stage.u_n_1 \in Int /\ d.stage.enabled \in BOOLEAN
        BY <3>2 DEF PidRight, PidStages
      <4>2. lock = TRUE
        BY <2>6
      <4>3. QED
        BY <3>2, <4>1, <4>2
    <3>5. QED
      BY <1>3, <1>5, <2>2, <3>2, <3>3, <3>4 DEF Updated
  <2>7. CASE ~lock
    <3>1. PICK off : off = [awake EXCEPT !.enabled = FALSE, !.u_n_1 = 0, !.ep_n_1 = 0]
      OBVIOUS
    <3>2. /\ off \in PidStages /\ off.enabled = FALSE /\ off.elapsedTime = 0 /\ off.ep_n_1 = 0
      BY <2>2, <3>1 DEF PidStages
    <3>3. c.stage = off /\ c.output = u /\ c.engaged = was
      BY <2>5, <2>7, <3>1 DEF Disabled, Stage
    <3>4. PidRight(off, was)
      BY <1>2, <3>2 DEF PidRight
    <3>5. QED
      BY <1>3, <1>5, <2>7, <3>2, <3>3, <3>4 DEF Updated
  <2>8. QED
    BY <2>6, <2>7
<1>6. QED
  BY <1>4, <1>5

\* The two copies are right and keep step.
PidInv ==
  /\ DOMAIN stage = Copies /\ DOMAIN engaged = Copies
  /\ PidRight(stage[1], engaged[1]) /\ PidRight(stage[2], engaged[2])
  /\ output \in Int /\ lock \in BOOLEAN
  /\ CopiesKeepStep

LEMMA PidComponents ==
  ASSUME PidInv, NEW step \in Int, NEW y \in Int, ComponentsUpdate(step, y)
  PROVE  PidInv'
<1>1. PICK c1 : c1 = PidUpdate(Stage(stage[1], output, engaged[1]), step, y)
  OBVIOUS
<1>2. PICK c2 : c2 = PidUpdate(Stage(stage[2], c1.output, engaged[2]), step, y)
  OBVIOUS
<1>3. /\ stage' = <<c1.stage, c2.stage>> /\ engaged' = <<c1.engaged, c2.engaged>>
      /\ output' = c2.output /\ lock' = lock
  BY <1>1, <1>2 DEF ComponentsUpdate, Stage
<1>4. /\ stage'[1] = c1.stage /\ stage'[2] = c2.stage
      /\ engaged'[1] = c1.engaged /\ engaged'[2] = c2.engaged
      /\ DOMAIN stage' = Copies /\ DOMAIN engaged' = Copies
  BY <1>3 DEF Copies
<1>5. PICK Ts : Ts = stage[1].elapsedTime + step
  OBVIOUS
<1>6. PICK area : area = Ts * (Reference - y)
  OBVIOUS
<1>7. /\ lock \in BOOLEAN /\ output \in Int
      /\ PidRight(stage[1], engaged[1]) /\ PidRight(stage[2], engaged[2])
  BY DEF PidInv
<1>8. Updated(c1, stage[1], engaged[1], output, Ts, y)
  <2>1. Updated(PidUpdate(Stage(stage[1], output, engaged[1]), step, y),
                stage[1], engaged[1], output, stage[1].elapsedTime + step, y)
    BY ONLY <1>7, step \in Int, y \in Int, PidUpdateRight
  <2>2. QED
    BY ONLY <1>1, <1>5, <2>1
<1>9. stage[2].elapsedTime + step = Ts /\ stage[2].enabled = stage[1].enabled
  BY <1>5 DEF PidInv, CopiesKeepStep
<1>10. Updated(c2, stage[2], engaged[2], c1.output, Ts, y)
  <2>1. c1.output \in Int
    BY <1>8 DEF Updated
  <2>2. Updated(PidUpdate(Stage(stage[2], c1.output, engaged[2]), step, y),
                stage[2], engaged[2], c1.output, stage[2].elapsedTime + step, y)
    BY ONLY <1>7, <2>1, step \in Int, y \in Int, PidUpdateRight
  <2>3. QED
    BY ONLY <1>2, <1>9, <2>2
<1>11. CopiesKeepStep'
  <2>1. /\ stage'[1].enabled = stage'[2].enabled
        /\ stage'[1].elapsedTime = stage'[2].elapsedTime
    BY <1>4, <1>8, <1>9, <1>10 DEF Updated
  <2>2. ASSUME stage'[1].enabled
        PROVE  /\ stage'[1].ep_n_1 = stage'[2].ep_n_1
               /\ engaged'[1].sum = engaged'[2].sum
               /\ taken' \/ output' = stage'[2].u_n_1
    <3>1. CASE Ts <= Interval
      <4>1. stage[1].enabled
        BY <1>4, <1>8, <2>2, <3>1 DEF Updated
      <4>2. /\ stage[1].ep_n_1 = stage[2].ep_n_1 /\ engaged[1].sum = engaged[2].sum
            /\ taken \/ output = stage[2].u_n_1
        BY <4>1 DEF PidInv, CopiesKeepStep
      <4>3. taken' <=> taken
        <5>1. ~Computes(stage[1], step)
          BY <1>5, <1>7, <3>1, StagesAssumption DEF Computes, PidRight, PidStages
        <5>2. taken' = taken
          BY <5>1, Zenon DEF ComponentsUpdate, RecordWritten
        <5>3. QED
          BY <5>2, Zenon
      <4>4. QED
        BY <1>3, <1>4, <1>8, <1>10, <3>1, <4>2, <4>3 DEF Updated
    <3>2. CASE ~(Ts <= Interval)
      <4>1. lock
        BY <1>4, <1>8, <2>2, <3>2 DEF Updated
      <4>2. stage[1].enabled => engaged[1].sum = engaged[2].sum
        BY DEF PidInv, CopiesKeepStep
      <4>3. QED
        BY <1>3, <1>4, <1>6, <1>8, <1>9, <1>10, <3>2, <4>1, <4>2 DEF Updated
    <3>3. QED
      BY <3>1, <3>2
  <2>3. QED
    BY <2>1, <2>2 DEF CopiesKeepStep
<1>12. QED
  BY <1>3, <1>4, <1>7, <1>8, <1>10, <1>11 DEF PidInv, Updated

-----------------------------------------------------------------------------
(* The moving average *)

MeanInv ==
  /\ input \in [1 .. Samples + 1 -> Int] /\ total \in Int /\ missed \in Int
  /\ AverageIsMean

\* Sums of the last k inputs.
Adding(window) == [p \in Nat \X Int |-> IF p[1] \in 1 .. Samples THEN p[2] + window[p[1]] ELSE p[2]]

SumsOf(f, window) ==
  f = CHOOSE g : g = [k \in 0 .. Samples |-> IF k = 0 THEN 0 ELSE g[k - 1] + window[k]]

AddsUp(f, window) ==
  /\ f \in [0 .. Samples -> Int] /\ f[0] = 0
  /\ \A k \in 1 .. Samples : f[k] = f[k - 1] + window[k]

LEMMA SummedSums ==
  ASSUME NEW window \in [1 .. Samples + 1 -> Int], NEW f, SumsOf(f, window)
  PROVE  AddsUp(f, window)
<1> DEFINE Def(g) == g = [k \in 0 .. Samples |-> IF k = 0 THEN 0 ELSE g[k - 1] + window[k]]
<1>1. Samples \in Nat \ {0}
  BY StagesAssumption
<1>2. /\ 0 \in Int /\ Adding(window) \in [Nat \X Int -> Int]
      /\ \A i \in 1 .. Samples, v \in Int : Adding(window)[<<i, v>>] = v + window[i]
  <2>1. ASSUME NEW p \in Nat \X Int
        PROVE  (IF p[1] \in 1 .. Samples THEN p[2] + window[p[1]] ELSE p[2]) \in Int
    BY <1>1
  <2>2. Adding(window) \in [Nat \X Int -> Int]
    BY <2>1 DEF Adding
  <2>3. ASSUME NEW i \in 1 .. Samples, NEW v \in Int
        PROVE  Adding(window)[<<i, v>>] = v + window[i]
    <3>1. <<i, v>> \in Nat \X Int /\ <<i, v>>[1] = i /\ <<i, v>>[2] = v
      BY <1>1
    <3>2. QED
      BY <3>1 DEF Adding
  <2>4. QED
    BY <2>2, <2>3
<1>3. PICK g \in [0 .. Samples -> Int] : Takes(g, Samples, 0, Adding(window))
  BY <1>1, <1>2, RecursionUpTo
<1>4. g[0] = 0 /\ \A k \in 1 .. Samples : g[k] = g[k - 1] + window[k]
  <2>1. ASSUME NEW k \in 1 .. Samples PROVE g[k] = g[k - 1] + window[k]
    <3>1. g[k - 1] \in Int /\ g[k] = Adding(window)[<<k, g[k - 1]>>]
      BY <1>1, <1>3 DEF Takes
    <3>2. QED
      BY <1>2, <3>1
  <2>2. QED
    BY <1>3, <2>1 DEF Takes
<1>5. Def(g)
  <2>1. \A k \in 0 .. Samples : g[k] = IF k = 0 THEN 0 ELSE g[k - 1] + window[k]
    BY <1>1, <1>4
  <2>2. QED
    BY <2>1
<1> DEFINE h == CHOOSE k : Def(k)
<1>6. f = h
  BY DEF SumsOf
<1>7. Def(f)
  <2> HIDE DEF Def
  <2>1. Def(h)
    BY <1>5
  <2> HIDE DEF h
  <2>2. QED
    BY <1>6, <2>1
<1> HIDE DEF h
<1>8. /\ f[0] = 0 /\ \A k \in 1 .. Samples : f[k] = f[k - 1] + window[k]
      /\ f = [k \in 0 .. Samples |-> f[k]]
  <2>1. ASSUME NEW k \in 0 .. Samples
        PROVE  f[k] = IF k = 0 THEN 0 ELSE f[k - 1] + window[k]
    BY ONLY <1>7, <2>1
  <2>2. 0 \in 0 .. Samples /\ \A k \in 1 .. Samples : k \in 0 .. Samples /\ k # 0
    BY <1>1
  <2>3. f = [k \in 0 .. Samples |-> f[k]]
    BY ONLY <1>7
  <2>4. QED
    BY ONLY <2>1, <2>2, <2>3
<1>9. \A k \in Nat : k \in {i \in Nat : i <= Samples => f[i] \in Int}
  <2> DEFINE T == {i \in Nat : i <= Samples => f[i] \in Int}
  <2>1. 0 \in T
    BY <1>8
  <2>2. ASSUME NEW i \in Nat, i \in T PROVE i + 1 \in T
    <3>1. CASE i + 1 <= Samples
      <4>1. i + 1 \in 1 .. Samples /\ (i + 1) - 1 = i /\ f[i] \in Int
        BY <1>1, <2>2, <3>1
      <4>2. f[i + 1] = f[(i + 1) - 1] + window[i + 1]
        BY <1>8, <4>1
      <4>3. i + 1 \in 1 .. Samples + 1
        BY <1>1, <4>1
      <4>4. window[i + 1] \in Int
        BY <4>3
      <4>5. QED
        BY <4>1, <4>2, <4>4
    <3>2. QED
      BY <3>1
  <2> HIDE DEF T
  <2>3. \A k \in Nat : k \in T
    BY <2>1, <2>2, InductiveSet
  <2>4. QED
    BY <2>3 DEF T
<1>10. f \in [0 .. Samples -> Int]
  <2>1. \A k \in 0 .. Samples : f[k] \in Int
    BY <1>1, <1>9
  <2>2. QED
    BY ONLY <1>8, <2>1
<1>11. QED
  BY <1>8, <1>10 DEF AddsUp

Shifted(old, new) == \A k \in 1 .. Samples : new[k + 1] = old[k]

\* A new input comes in, and the oldest of the window leaves it.
LEMMA SumMoves ==
  ASSUME NEW old \in [1 .. Samples + 1 -> Int], NEW new \in [1 .. Samples + 1 -> Int],
         Shifted(old, new), NEW f, NEW g, AddsUp(f, old), AddsUp(g, new)
  PROVE  g[Samples] = f[Samples] + new[1] - new[Samples + 1]
<1> USE DEF AddsUp, Shifted
<1> DEFINE T == {i \in Nat : i + 1 <= Samples => g[i + 1] = f[i] + new[1]}
<1>1. Samples \in Nat \ {0}
  BY StagesAssumption
<1>2. 0 \in T
  BY <1>1
<1>3. ASSUME NEW i \in Nat, i \in T PROVE i + 1 \in T
  <2>1. CASE i + 2 <= Samples
    <3>1. g[i + 1] = f[i] + new[1]
      BY <1>1, <1>3, <2>1
    <3>2. i + 2 \in 1 .. Samples /\ i + 1 \in 1 .. Samples /\ (i + 2) - 1 = i + 1 /\ (i + 1) - 1 = i
      BY <1>1, <2>1
    <3>3. g[i + 2] = g[i + 1] + new[i + 2] /\ f[i + 1] = f[i] + old[i + 1]
      BY <3>2
    <3>4. new[i + 2] = old[i + 1]
      BY <3>2
    <3>5. f[i] \in Int /\ f[i + 1] \in Int /\ new[1] \in Int /\ old[i + 1] \in Int
      <4>1. i \in 0 .. Samples /\ i + 1 \in 0 .. Samples /\ 1 \in 1 .. Samples + 1 /\ i + 1 \in 1 .. Samples + 1
        BY <1>1, <2>1
      <4>2. QED
        BY <4>1
    <3>6. g[i + 2] = f[i + 1] + new[1]
      BY <3>1, <3>3, <3>4, <3>5
    <3>7. QED
      BY <3>6
  <2>2. CASE ~(i + 2 <= Samples)
    BY <1>1, <2>2
  <2>3. QED
    BY <2>1, <2>2
<1> HIDE DEF T
<1>4. \A i \in Nat : i \in T
  BY <1>2, <1>3, InductiveSet
<1>5. g[Samples] = f[Samples - 1] + new[1]
  <2>1. Samples - 1 \in Nat /\ Samples - 1 \in T
    BY <1>1, <1>4
  <2>2. QED
    BY <1>1, <2>1 DEF T
<1>6. Samples \in 1 .. Samples /\ f[Samples] = f[Samples - 1] + old[Samples] /\ new[Samples + 1] = old[Samples]
  BY <1>1
<1>7. f[Samples - 1] \in Int /\ old[Samples] \in Int /\ new[1] \in Int
  BY <1>1
<1>8. QED
  BY <1>5, <1>6, <1>7

LEMMA MeanMoves ==
  ASSUME MeanInv, NEW step \in Int, NEW y \in Int, ComponentsUpdate(step, y)
  PROVE  MeanInv'
<1>1. Samples \in Nat \ {0}
  BY StagesAssumption
<1>2. PICK old : old = input /\ old \in [1 .. Samples + 1 -> Int]
  BY DEF MeanInv
<1>3. /\ input' = Remembered(y)
      /\ total' = IF step > 0 THEN MovingAverage(input') ELSE total
      /\ missed' = IF step > 0 THEN missed ELSE missed + input'[1] - input'[Samples + 1]
  BY DEF ComponentsUpdate
<1>4. PICK new : /\ new = input' /\ new \in [1 .. Samples + 1 -> Int]
                 /\ \A k \in 1 .. Samples : new[k + 1] = old[k]
  <2>1. old \in Seq(Int) /\ Len(old) = Samples + 1
    BY <1>1, <1>2
  <2>2. PICK tail : tail = SubSeq(old, 1, Samples)
    OBVIOUS
  <2>3. /\ tail \in Seq(Int) /\ Len(tail) = Samples /\ \A k \in 1 .. Samples : tail[k] = old[k]
    BY <1>1, <2>1, <2>2
  <2>4. /\ <<y>> \o tail \in Seq(Int) /\ Len(<<y>> \o tail) = Samples + 1
        /\ \A k \in 1 .. Samples : (<<y>> \o tail)[k + 1] = tail[k]
    BY <1>1, <2>3
  <2>5. input' = <<y>> \o tail
    BY <1>2, <1>3, <2>2 DEF Remembered
  <2>6. PICK w : /\ w = <<y>> \o tail /\ w \in Seq(Int) /\ Len(w) = Samples + 1
                 /\ \A k \in 1 .. Samples : w[k + 1] = tail[k]
    BY ONLY <2>4
  <2>7. w \in [1 .. Len(w) -> Int]
    BY ONLY <2>6, LenProperties
  <2>8. w \in [1 .. Samples + 1 -> Int] /\ \A k \in 1 .. Samples : w[k + 1] = old[k]
    BY ONLY <2>3, <2>6, <2>7
  <2>9. QED
    BY ONLY <2>5, <2>6, <2>8
<1>5. PICK f : f = Summed /\ AddsUp(f, old)
  <2>1. SumsOf(Summed, old)
    BY <1>2 DEF Summed, SumsOf
  <2>2. PICK f : f = Summed
    OBVIOUS
  <2>3. SumsOf(f, old)
    BY <2>1, <2>2
  <2>4. AddsUp(f, old)
    BY ONLY <1>2, <2>3, SummedSums
  <2>5. QED
    BY <2>2, <2>4
<1>6. PICK g : g = Summed' /\ AddsUp(g, new)
  <2>1. SumsOf(Summed', new)
    BY <1>4 DEF Summed, SumsOf
  <2>2. PICK g : g = Summed'
    OBVIOUS
  <2>3. SumsOf(g, new)
    BY <2>1, <2>2
  <2>4. AddsUp(g, new)
    BY ONLY <1>4, <2>3, SummedSums
  <2>5. QED
    BY <2>2, <2>4
<1>7. g[Samples] = f[Samples] + new[1] - new[Samples + 1]
  <2>1. /\ old \in [1 .. Samples + 1 -> Int] /\ new \in [1 .. Samples + 1 -> Int]
        /\ Shifted(old, new)
    BY <1>2, <1>4 DEF Shifted
  <2>2. AddsUp(f, old) /\ AddsUp(g, new)
    BY <1>5, <1>6
  <2>3. QED
    BY ONLY <2>1, <2>2, SumMoves
<1>8. /\ total = f[Samples] - missed /\ total \in Int /\ missed \in Int
      /\ f[Samples] \in Int /\ new[1] \in Int /\ new[Samples + 1] \in Int
  BY <1>1, <1>4, <1>5 DEF MeanInv, AverageIsMean, AddsUp
<1>9. total' = g[Samples] - missed' /\ total' \in Int /\ missed' \in Int
  <2>1. CASE step > 0
    <3>1. total' = total + new[1] - new[Samples + 1] /\ missed' = missed
      BY <1>3, <1>4, <2>1 DEF MovingAverage
    <3>2. QED
      BY <1>7, <1>8, <3>1
  <2>2. CASE ~(step > 0)
    <3>1. total' = total /\ missed' = missed + new[1] - new[Samples + 1]
      BY <1>3, <1>4, <2>2
    <3>2. QED
      BY <1>7, <1>8, <3>1
  <2>3. QED
    BY <2>1, <2>2
<1>10. QED
  BY <1>4, <1>6, <1>9 DEF MeanInv, AverageIsMean

\* A window that is empty adds up to nothing.
LEMMA EmptySums ==
  ASSUME NEW window \in [1 .. Samples + 1 -> Int], \A k \in 1 .. Samples : window[k] = 0,
         NEW f, SumsOf(f, window)
  PROVE  f[Samples] = 0
<1>1. Samples \in Nat \ {0}
  BY StagesAssumption
<1>2. AddsUp(f, window)
  BY ONLY window \in [1 .. Samples + 1 -> Int], SumsOf(f, window), SummedSums
<1> DEFINE T == {i \in Nat : i <= Samples => f[i] = 0}
<1>3. 0 \in T
  BY <1>2 DEF AddsUp
<1>4. ASSUME NEW i \in Nat, i \in T PROVE i + 1 \in T
  <2>1. CASE i + 1 <= Samples
    <3>1. i + 1 \in 1 .. Samples /\ (i + 1) - 1 = i /\ f[i] = 0
      BY <1>1, <1>4, <2>1
    <3>2. f[i + 1] = f[(i + 1) - 1] + window[i + 1] /\ window[i + 1] = 0
      BY <1>2, <3>1 DEF AddsUp
    <3>3. QED
      BY <3>1, <3>2
  <2>2. QED
    BY <2>1
<1> HIDE DEF T
<1>5. \A i \in Nat : i \in T
  BY <1>3, <1>4, InductiveSet
<1>6. QED
  BY <1>1, <1>5 DEF T

\* Stages as they are built hold no error and are off.
LEMMA NewStages ==
  ASSUME NEW pids, pids = [c \in Copies |-> NewStage]
  PROVE  /\ DOMAIN pids = Copies
         /\ pids[1] \in PidStages /\ pids[1].enabled = FALSE
         /\ pids[1].ep_n_1 = 0 /\ pids[1].elapsedTime = 0
         /\ pids[2] = pids[1]
BY DEF Copies, NewStage, PidStages

LEMMA StagesStart ==
  ASSUME StagesInit
  PROVE  PidInv /\ MeanInv
<1>1. Samples \in Nat \ {0} /\ Positions \subseteq Int
  BY StagesAssumption
<1>2. PidInv
  <2>1. stage = [c \in Copies |-> NewStage] /\ \A c \in Copies : engaged[c] \in Histories
    BY DEF StagesInit, Histories
  <2>2. 1 \in Copies /\ 2 \in Copies
    BY DEF Copies
  <2>3. /\ stage[1].enabled = FALSE /\ stage[2].enabled = FALSE
        /\ stage[1].elapsedTime = stage[2].elapsedTime
        /\ PidRight(stage[1], engaged[1]) /\ PidRight(stage[2], engaged[2])
    BY <2>1, <2>2, NewStages DEF PidRight
  <2>4. QED
    BY <1>1, <2>1, <2>3, NewStages DEF StagesInit, PidInv, CopiesKeepStep
<1>3. MeanInv
  <2>1. input = [i \in 1 .. (Samples + 1) |-> 0] /\ total = 0 /\ missed = 0
    BY DEF StagesInit
  <2>2. PICK old : old = input /\ old \in [1 .. Samples + 1 -> Int] /\ \A k \in 1 .. Samples : old[k] = 0
    BY <1>1, <2>1
  <2>3. PICK f : f = Summed
    OBVIOUS
  <2>4. SumsOf(f, old)
    BY <2>2, <2>3 DEF Summed, SumsOf
  <2>5. f[Samples] = 0
    BY ONLY <2>2, <2>4, EmptySums
  <2>6. QED
    BY <2>1, <2>2, <2>3, <2>5 DEF MeanInv, AverageIsMean
<1>4. QED
  BY <1>2, <1>3

\* The filters' part stays as it is.
LEMMA MeanRests ==
  ASSUME MeanInv, UNCHANGED <<input, total, missed>>
  PROVE  MeanInv'
<1>1. Summed' = Summed
  BY DEF Summed
<1>2. QED
  BY <1>1 DEF MeanInv, AverageIsMean

LEMMA PidRests ==
  ASSUME PidInv, lock' \in BOOLEAN, UNCHANGED <<stage, engaged, output, taken>>
  PROVE  PidInv'
<1>1. taken' <=> taken
  BY Zenon
<1>2. CopiesKeepStep'
  BY <1>1 DEF PidInv, CopiesKeepStep
<1>3. QED
  BY <1>2 DEF PidInv, PidRight

LEMMA StagesStep ==
  ASSUME PidInv, MeanInv, [StagesNext]_stageVars
  PROVE  PidInv' /\ MeanInv'
<1>1. ASSUME NEW step \in Steps, NEW y \in Readings, ComponentsUpdate(step, y)
      PROVE  PidInv' /\ MeanInv'
  <2>1. step \in Int /\ y \in Int
    BY StagesAssumption
  <2>2. QED
    BY <1>1, <2>1, PidComponents, MeanMoves
<1>2. ASSUME NEW on \in BOOLEAN, SetLock(on) PROVE PidInv' /\ MeanInv'
  <2>1. lock' \in BOOLEAN
    BY <1>2, Zenon DEF SetLock
  <2>2. UNCHANGED <<stage, output, engaged, taken, input, total, missed>>
    BY <1>2 DEF SetLock
  <2>3. QED
    BY <2>1, <2>2, PidRests, MeanRests
<1>3. ASSUME NEW u \in Positions, OutputElsewhere(u) PROVE PidInv' /\ MeanInv'
  <2>1. output' = u /\ UNCHANGED <<stage, lock, engaged, input, total, missed>>
    BY <1>3 DEF OutputElsewhere
  <2>2. output' \in Int
    BY <2>1, StagesAssumption
  <2>3. taken'
    BY <1>3, Zenon DEF OutputElsewhere
  <2>4. lock' \in BOOLEAN
    BY <2>1, Zenon DEF PidInv
  <2>5. CopiesKeepStep'
    BY <2>1, <2>3 DEF PidInv, CopiesKeepStep
  <2>6. PidInv'
    BY <2>1, <2>2, <2>4, <2>5 DEF PidInv, PidRight
  <2>7. QED
    BY <2>1, <2>6, MeanRests
<1>4. CASE Reinit
  <2>1. /\ stage' = [c \in Copies |-> NewStage] /\ UNCHANGED <<output, lock, engaged>>
        /\ input' = [i \in 1 .. (Samples + 1) |-> 0] /\ total' = 0 /\ missed' = 0
    BY <1>4 DEF Reinit
  <2>2. /\ DOMAIN stage' = Copies
        /\ stage'[1] \in PidStages /\ stage'[2] \in PidStages
        /\ stage'[1].enabled = FALSE /\ stage'[2].enabled = FALSE
        /\ stage'[1].ep_n_1 = 0 /\ stage'[2].ep_n_1 = 0
        /\ stage'[1].elapsedTime = 0 /\ stage'[2].elapsedTime = 0
    BY <2>1, NewStages
  <2>3. PidRight(stage'[1], engaged'[1]) /\ PidRight(stage'[2], engaged'[2])
    BY <2>1, <2>2 DEF PidInv, PidRight
  <2>4. lock' \in BOOLEAN
    BY <2>1, Zenon DEF PidInv
  <2>5. PidInv'
    BY <2>1, <2>2, <2>3, <2>4 DEF PidInv, CopiesKeepStep
  <2>6. MeanInv'
    <3>1. Samples \in Nat \ {0}
      BY StagesAssumption
    <3>2. PICK new : new = input' /\ new \in [1 .. Samples + 1 -> Int] /\ \A k \in 1 .. Samples : new[k] = 0
      BY <2>1, <3>1
    <3>3. PICK f : f = Summed'
      OBVIOUS
    <3>4. SumsOf(f, new)
      BY <3>2, <3>3 DEF Summed, SumsOf
    <3>5. f[Samples] = 0
      BY ONLY <3>2, <3>4, EmptySums
    <3>6. QED
      BY <2>1, <3>2, <3>3, <3>5 DEF MeanInv, AverageIsMean
  <2>7. QED
    BY <2>5, <2>6
<1>5. CASE UNCHANGED stageVars
  <2>1. UNCHANGED <<stage, output, lock, engaged, taken, input, total, missed>>
    BY <1>5 DEF stageVars
  <2>2. lock' \in BOOLEAN
    BY <2>1, Zenon DEF PidInv
  <2>3. QED
    BY <2>1, <2>2, PidRests, MeanRests
<1>6. QED
  BY <1>1, <1>2, <1>3, <1>4, <1>5 DEF StagesNext

\* The increments of a PID stage add up to the controller of the textbook since an
\* update found its lock on after one that found it off, within its limits; its second
\* copy computes when it does, adds up the same errors and has the last word in the output
\* until someone else writes it; and the moving average is the mean of the inputs but
\* for those of calls in which no time passed (xmlauto.cxx).  For any limits, reference,
\* intervals and inputs, and whatever happens to the lock, the output and the stages
\* between two updates.
THEOREM Stages_AreRight == StagesSpec => []StagesAreRight
<1>1. StagesInit => PidInv /\ MeanInv
  BY StagesStart
<1>2. PidInv /\ MeanInv /\ [StagesNext]_stageVars => PidInv' /\ MeanInv'
  BY StagesStep
<1>3. PidInv /\ MeanInv => StagesAreRight
  <2>1. SUFFICES ASSUME PidInv, MeanInv PROVE StagesAreRight
    OBVIOUS
  <2>2. Copies = {1, 2}
    BY DEF Copies
  <2>3. PidIsItsSum
    BY <2>1, <2>2 DEF PidInv, PidRight, PidIsItsSum
  <2>4. CopiesKeepStep /\ AverageIsMean
    BY <2>1 DEF PidInv, MeanInv
  <2>5. QED
    BY <2>3, <2>4 DEF StagesAreRight
<1>4. QED
  BY <1>1, <1>2, <1>3, PTL DEF StagesSpec

=============================================================================
