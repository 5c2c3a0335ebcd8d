------------------------------ MODULE MainLoop ------------------------------
(***************************************************************************)
(* One flight as the 50 Hz timer_handler() of src/main/ugear_gumstix.cpp   *)
(* runs it: GPS input, initial home, ground station commands, the          *)
(* lost-link failsafe and the route manager, in this order, once per tick. *)
(* The handler is not re-entrant, so the sections of one tick are steps    *)
(* that follow each other ("phase") and no tick starts before the last one *)
(* has ended.                                                              *)
(*                                                                         *)
(* Time is counted in ticks.  get_Time() counts from the last time it was  *)
(* reset; the ublox5 driver resets it once, at the first UTC message.      *)
(***************************************************************************)
EXTENDS RouteMgr

CONSTANTS
  CommandPeriod,  \* ticks between two reads of the command link (HEARTBEAT_HZ / 5)
  RoutePeriod,    \* ticks between two route updates (HEARTBEAT_HZ / 25)
  Settle,         \* gps_settle: how long a receiver has a fix before it is used
  HomeAge,        \* a fix for the initial home is younger than this
  RouteAge,       \* a fix for following the route is younger than this
  LostLink,       \* lost_link_sec
  Year,           \* how old the GPS data is before there is any (31557600 s)
  MaxTick         \* bound on the length of a flight

ASSUME PeriodsAssumption ==
  /\ CommandPeriod \in Nat \ {0} /\ RoutePeriod \in Nat \ {0}
Never == -Year  \* the initial gps_last_time

ASSUME TimesAssumption ==
  /\ Settle \in Nat /\ LostLink \in Nat /\ Year \in Nat /\ MaxTick \in Nat
  /\ HomeAge \in 0 .. Year /\ RouteAge \in 0 .. Year

VARIABLES
  phase,              \* the section of timer_handler() that runs next
  now,                \* ticks since the start, whatever get_Time() says
  epoch,              \* the tick at which get_Time() was zero
  set_system_time,    \* gps_ublox5.cxx: the clock has been reset
  current_time,       \* get_Time() as read when the tick started
  gps_state,          \* gps_mgr.cpp: 1 once the receiver has settled
  gps_acq_time,       \* get_Time() at the first fix
  gps_last_time,      \* get_Time() at the last fix that was used
  fix_place,          \* /sensors/gps/longitude-deg and latitude-deg
  initial_home,       \* the GPS has given the initial home
  command_counter,    \* ticks since the link was last read
  route_counter,      \* ticks since the last route update
  read_command,       \* a valid command has ever been read
  last_command_time,  \* current_time of the last valid command
  \* History, which nothing but properties reads:
  first_fix,          \* tick of the first fix
  last_fix,           \* tick of the last fix
  last_command,       \* tick of the last valid command
  ordered             \* the mode that a command of this tick asked for

clockVars   == <<now, epoch, set_system_time, current_time>>
gpsVars     == <<gps_state, gps_acq_time, gps_last_time, fix_place, first_fix, last_fix>>
linkVars    == <<read_command, last_command_time, last_command, ordered>>
counterVars == <<command_counter, route_counter>>
vars == <<routeVars, clockVars, gpsVars, linkVars, counterVars, phase, initial_home>>

NoTick   == -1
Phases   == {"idle", "gps", "home", "link", "failsafe", "route"}
NoOrder  == "none"

Time     == now - epoch             \* get_Time()
GPS_age  == Time - gps_last_time

TypeOK ==
  /\ RouteTypeOK
  /\ phase \in Phases
  /\ now \in Nat /\ epoch \in Nat /\ set_system_time \in BOOLEAN
  /\ current_time \in Int
  /\ gps_state \in {0, 1}
  /\ gps_acq_time \in Int /\ gps_last_time \in Int
  /\ fix_place \in Places \cup {Origin}
  /\ initial_home \in BOOLEAN /\ read_command \in BOOLEAN
  /\ command_counter \in 0 .. CommandPeriod /\ route_counter \in 0 .. RoutePeriod
  /\ last_command_time \in Int
  /\ first_fix \in Nat \cup {NoTick} /\ last_fix \in Nat \cup {NoTick}
  /\ last_command \in Nat \cup {NoTick}
  /\ ordered \in Modes \cup {NoOrder}

Init ==
  /\ RouteInit
  /\ phase = "idle"
  /\ now = 0 /\ epoch = 0 /\ set_system_time = FALSE /\ current_time = 0
  /\ gps_state = 0 /\ gps_acq_time = Never /\ gps_last_time = Never
  /\ fix_place = Origin
  /\ initial_home = FALSE
  /\ command_counter = 0 /\ route_counter = 0
  /\ read_command = FALSE /\ last_command_time = 0
  /\ first_fix = NoTick /\ last_fix = NoTick /\ last_command = NoTick
  /\ ordered = NoOrder

-----------------------------------------------------------------------------
(* The timer expires. *)

StartTick ==
  /\ phase = "idle" /\ now < MaxTick
  /\ phase' = "gps"
  /\ now' = now + 1
  /\ current_time' = now + 1 - epoch
  /\ command_counter' = command_counter + 1
  /\ route_counter' = route_counter + 1
  /\ ordered' = NoOrder
  /\ UNCHANGED <<routeVars, gpsVars, epoch, set_system_time, initial_home,
                 read_command, last_command_time, last_command>>

-----------------------------------------------------------------------------
(* GPS_update(): at most one message of the receiver per tick. *)

\* No message, or one that changes nothing modelled here.
GpsQuiet ==
  /\ phase = "gps" /\ phase' = "home"
  /\ UNCHANGED <<routeVars, clockVars, gpsVars, linkVars, counterVars, initial_home>>

\* Mutant: the receiver is trusted at once.
NoSettling(acquired, t) == t >= acquired

\* The receiver has settled by this fix, given the time of the first one.
SettledBy(acquired, t) == t - acquired >= Settle

\* A fix, stamped with get_Time(): it counts for GPS_age() only when the
\* receiver had settled before it; a first fix starts the settling.
GpsFix(p) ==
  /\ phase = "gps" /\ phase' = "home"
  /\ fix_place' = p
  /\ last_fix' = now
  /\ first_fix' = IF first_fix = NoTick THEN now ELSE first_fix
  /\ IF gps_state = 1
     THEN /\ gps_last_time' = Time
          /\ UNCHANGED <<gps_state, gps_acq_time>>
     ELSE LET acquired == IF first_fix = NoTick THEN Time ELSE gps_acq_time
          IN  /\ gps_acq_time' = acquired
              /\ gps_state' = IF SettledBy(acquired, Time) THEN 1 ELSE 0
              /\ UNCHANGED gps_last_time
  /\ UNCHANGED <<routeVars, clockVars, linkVars, counterVars, initial_home>>

\* The first NAV-TIMEUTC message sets the system clock and get_Time() to zero;
\* no other time stamp in the program is adjusted.
GpsTimeUtc ==
  /\ ~set_system_time
  /\ phase = "gps" /\ phase' = "home"
  /\ set_system_time' = TRUE
  /\ epoch' = now
  /\ UNCHANGED <<routeVars, gpsVars, linkVars, counterVars, initial_home, now, current_time>>

-----------------------------------------------------------------------------
(* The initial home is the place of a recent fix, whatever home was set before. *)

FixIsRecent == GPS_age < HomeAge

GpsHome == [place |-> fix_place, course |-> 0]

InitialHome ==
  /\ phase = "home" /\ phase' = "link"
  /\ IF ~initial_home /\ FixIsRecent
     THEN UpdateHome(GpsHome, TRUE)
     ELSE UNCHANGED <<home, home_set, route>>
  /\ IF ~initial_home /\ FixIsRecent /\ HomeAccepted(GpsHome, TRUE)
     THEN initial_home' = TRUE
     ELSE UNCHANGED initial_home
  /\ UNCHANGED <<mode, current_wp, steer, clockVars, gpsVars, linkVars, counterVars>>

-----------------------------------------------------------------------------
(* remote_link_command(), every CommandPeriod ticks.  Module RemoteLink says *)
(* which command a read returns; here any command may come at any read.      *)

\* What main does on a valid command, executed or repeated.
RegisterCommand ==
  /\ read_command' = TRUE
  /\ last_command_time' = current_time
  /\ last_command' = now
  /\ SetRouteMode       \* also when the command set another mode

LinkNotDue ==
  /\ phase = "link" /\ command_counter < CommandPeriod
  /\ phase' = "failsafe"
  /\ UNCHANGED <<routeVars, clockVars, gpsVars, linkVars, counterVars, initial_home>>

\* Mutant: the counter is not reset, so the link is read at every tick.
ReadLinkAgain ==
  /\ phase = "link" /\ command_counter >= CommandPeriod
  /\ phase' = "failsafe"
  /\ UNCHANGED <<current_wp, steer, clockVars, gpsVars, counterVars, initial_home>>

ReadLink ==
  /\ phase = "link" /\ command_counter >= CommandPeriod
  /\ phase' = "failsafe"
  /\ command_counter' = 0
  /\ UNCHANGED <<current_wp, steer, clockVars, gpsVars, route_counter, initial_home>>

NoCommand ==
  /\ ReadLink
  /\ UNCHANGED <<mode, home, home_set, route, linkVars>>

\* A repeated command, a heart beat or one that is not modelled: nothing is
\* executed, but the link is known to be up.
HeartBeat ==
  /\ ReadLink /\ RegisterCommand
  /\ UNCHANGED <<home, home_set, route, ordered>>

HomeCommand(h) ==
  /\ ReadLink /\ RegisterCommand
  /\ UpdateHome(h, TRUE)
  /\ UNCHANGED ordered

\* "go,home" and "go,route" set the mode; RegisterCommand sets it again.
GoCommand(m) ==
  /\ ReadLink /\ RegisterCommand
  /\ ordered' = m
  /\ UNCHANGED <<home, home_set, route>>

WaypointCommand(p, n) ==
  /\ ReadLink /\ RegisterCommand
  /\ ReplaceWaypoint(p, n)
  /\ UNCHANGED <<home, home_set, ordered>>

Command ==
  \/ NoCommand
  \/ HeartBeat
  \/ \E p \in Places, c \in Courses : HomeCommand([place |-> p, course |-> c])
  \/ \E m \in Modes : GoCommand(m)
  \/ \E p \in Places, n \in 0 .. NumWaypoints : WaypointCommand(p, n)

-----------------------------------------------------------------------------
(* The lost-link failsafe, every tick. *)

\* Mutant: the link is only found lost in a tick that read it.
LinkIsLostWhenRead ==
  read_command /\ current_time > last_command_time + LostLink /\ command_counter = 0

LinkIsLost == read_command /\ current_time > last_command_time + LostLink

Failsafe ==
  /\ phase = "failsafe" /\ phase' = "route"
  /\ IF LinkIsLost /\ mode # "GoHome" THEN SetHomeMode ELSE UNCHANGED mode
  /\ UNCHANGED <<home, home_set, route, current_wp, steer, clockVars, gpsVars,
                 linkVars, counterVars, initial_home>>

-----------------------------------------------------------------------------
(* The route manager, every RoutePeriod ticks; the tick ends. *)

RouteNotDue ==
  /\ phase = "route" /\ route_counter < RoutePeriod
  /\ phase' = "idle"
  /\ UNCHANGED <<routeVars, clockVars, gpsVars, linkVars, counterVars, initial_home>>

RouteUpdate(near) ==
  /\ phase = "route" /\ route_counter >= RoutePeriod
  /\ phase' = "idle"
  /\ route_counter' = 0
  /\ \/ TrackHome
     \/ TrackWaypoint(GPS_age < RouteAge, near)
     \/ TrackNothing(GPS_age < RouteAge)
  /\ UNCHANGED <<clockVars, gpsVars, linkVars, command_counter, initial_home>>

-----------------------------------------------------------------------------

Next ==
  \/ StartTick
  \/ GpsQuiet
  \/ \E p \in Places : GpsFix(p)
  \/ GpsTimeUtc
  \/ InitialHome
  \/ LinkNotDue
  \/ Command
  \/ Failsafe
  \/ RouteNotDue
  \/ \E near \in BOOLEAN : RouteUpdate(near)

Spec == Init /\ [][Next]_vars

-----------------------------------------------------------------------------
(* Properties *)

\* Once a command has been read, more than lost_link_sec without another one
\* puts the route manager in GoHome mode by the end of the tick (the failsafe of
\* ugear_gumstix.cpp:234-246).  Time here is what has really passed: resetting
\* get_Time() delays the failsafe, by the length of the epoch it ends and no more.
LostLinkGoesHome ==
  phase = "idle" /\ read_command /\ now > last_command + LostLink + epoch
    => mode = "GoHome"

\* Every relative waypoint lies where the home that is in force puts it, after
\* any sequence of GPS and operator homes and of waypoint replacements, and at
\* the origin as long as there is no home (update_home(), route_mgr.cxx:413-441).
RelativeFollowHome ==
  \A i \in WptIndex : Relative(route[i]) => route[i].ref = IF home_set THEN home ELSE OriginRef

\* The initial home is where the last fix put the aircraft, that fix is recent,
\* up to the length of the epoch that a clock reset ended, and it came at least
\* gps_settle after the first one (GPS_update() and the initial home section of
\* timer_handler()).  gps_settle is 10 seconds (gps_mgr.cpp:195), where the comment on the
\* section says "after being alive with a solution for 20 seconds"
\* (ugear_gumstix.cpp:184-185); what is stated here is what the code waits for.
HomeFromSettledFix ==
  [][~initial_home /\ initial_home' =>
       /\ home'.place = fix_place
       /\ now - last_fix < HomeAge + epoch
       /\ last_fix - first_fix >= Settle]_vars

\* The position on the route moves only to the next waypoint, only while the
\* route is followed and only on a recent fix (up to a clock reset, as above): a
\* flight home does not lose it, so the route resumes where it was left
\* (increment_current(), update()).
RouteKeepsItsPlace ==
  [][current_wp' # current_wp =>
       /\ mode = "FollowRoute"
       /\ now - last_fix < RouteAge + epoch
       /\ current_wp' \in WptIndex
       /\ \/ current_wp' = current_wp + 1
          \/ current_wp' = 0 /\ current_wp = NumWaypoints - 1]_vars

\* After a tick that updated the route manager the ground track points at the
\* home in force in GoHome mode, and at the waypoint being flown to, or just
\* reached, in FollowRoute mode with a recent fix (update(), 155-190).
GroundtrackFollowsMode ==
  phase = "idle" /\ route_counter = 0 /\ now > 0 =>
    /\ mode = "GoHome" /\ home_set => steer = HomePoint(home)
    /\ mode = "FollowRoute" /\ NumWaypoints > 0 /\ GPS_age < RouteAge =>
         \E i \in WptIndex : steer = route[i] /\ current_wp \in {i, IncrementCurrent(i)}

\* A "go" command's mode is in force when its tick ends (remote_link.cpp:396-402,
\* "specify router mode").
GoCommandObeyed ==
  phase = "idle" /\ ordered # NoOrder => mode = ordered

\* A recent fix of a settled receiver has given the initial home by the time the
\* commands are read (ugear_gumstix.cpp:184-197).
RecentFixGivesHome ==
  phase = "link" /\ FixIsRecent => initial_home

-----------------------------------------------------------------------------
(* The inductive invariant: what the sections of a tick rely on. *)

\* Counters are due at their period and are reset when they are.
CountersInv ==
  /\ phase = "idle" => route_counter < RoutePeriod
  /\ phase # "idle" => route_counter > 0
  /\ phase \in {"failsafe", "route", "idle"} => command_counter < CommandPeriod

\* The clock was reset at most once, and a tick's time is at least get_Time().
ClockInv ==
  /\ epoch <= now
  /\ ~set_system_time => epoch = 0
  /\ current_time <= now
  /\ phase # "idle" => current_time >= Time

\* Time stamps of any epoch are at most the ticks they were taken at, and the
\* settling of the receiver is measured from no earlier than the first fix.
StampsInv ==
  /\ read_command => /\ last_command \in Nat /\ last_command <= now
                     /\ last_command_time <= last_command
  /\ last_fix <= now
  /\ first_fix # NoTick => last_fix >= first_fix /\ gps_acq_time >= first_fix - epoch
  /\ gps_state = 1 => first_fix # NoTick /\ last_fix - first_fix >= Settle
  /\ gps_last_time # Never => gps_state = 1 /\ gps_last_time <= last_fix

\* From the failsafe to the end of the tick a lost link means GoHome.
FailsafeInv ==
  phase \in {"route", "idle"} /\ read_command /\ now > last_command + LostLink + epoch
    => mode = "GoHome"

IInv ==
  /\ TypeOK /\ CountersInv /\ ClockInv /\ StampsInv /\ FailsafeInv
  /\ RelativeFollowHome /\ GroundtrackFollowsMode

=============================================================================
