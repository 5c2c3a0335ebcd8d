------------------------------ MODULE RouteMgr ------------------------------
(***************************************************************************)
(* The route manager (src/control/route_mgr.cxx) with the waypoint list it *)
(* owns (src/control/route.cxx, route.hxx, waypoint.cxx).                  *)
(*                                                                         *)
(* The operations below are the ones the flight program calls; each is an  *)
(* action on the variables of this module.  Module MainLoop says when the  *)
(* program calls them.                                                     *)
(*                                                                         *)
(* A place on the globe is a pair of integer coordinates in units of the   *)
(* code's threshold, 0.0001 degree, so that only their signs matter.  A    *)
(* reference is a place with a course, as update_home() takes one.  A      *)
(* waypoint with offset 0 is absolute and lies at its reference; any other *)
(* offset makes it relative: it lies at that offset from the reference its *)
(* position was last computed from.                                        *)
(***************************************************************************)
EXTENDS Integers, FiniteSets

CONSTANTS
  Places,        \* places a fix, a command or the configuration can name
  Courses,       \* home courses an operator can send
  Offsets,       \* offsets of the configured waypoints
  NumWaypoints,  \* size of the configured route; no command changes it
  RouteConfig,   \* the waypoints that build() reads from /config/route
  NoTarget       \* the ground track before any update has set it

Place     == [lon : Int, lat : Int]
Origin    == [lon |-> 0, lat |-> 0]
Refs      == [place : Places \cup {Origin}, course : Courses]
OriginRef == [place |-> Origin, course |-> 0]
WptIndex  == 0 .. (NumWaypoints - 1)
Waypoints == [offset : Offsets, ref : Refs]
Modes     == {"GoHome", "FollowRoute"}

ASSUME PlacesAssumption == Places \subseteq Place
ASSUME CoursesAssumption == Courses \subseteq Int /\ 0 \in Courses
ASSUME OffsetsAssumption == Offsets \subseteq Nat /\ 0 \in Offsets
ASSUME NumWaypointsAssumption == NumWaypoints \in Nat
ASSUME RouteConfigAssumption ==
  /\ RouteConfig \in [WptIndex -> Waypoints]
  /\ \A i \in WptIndex : RouteConfig[i].offset # 0 => RouteConfig[i].ref = OriginRef
ASSUME NoTargetAssumption == NoTarget \notin Waypoints

VARIABLES
  mode,        \* FGRouteMgr::mode
  home,        \* FGRouteMgr::home and home_course_deg
  home_set,    \* FGRouteMgr::home_set
  route,       \* SGRoute::route
  current_wp,  \* SGRoute::current_wp
  steer        \* what /autopilot/settings/target-groundtrack-deg points at

routeVars == <<mode, home, home_set, route, current_wp, steer>>

RouteTypeOK ==
  /\ mode \in Modes
  /\ home \in Refs
  /\ home_set \in BOOLEAN
  /\ route \in [WptIndex -> Waypoints]
  /\ current_wp \in WptIndex \cup {0}
  /\ steer \in Waypoints \cup {NoTarget}

(***************************************************************************)
(* FGRouteMgr::init(): the configured route, followed from its start.      *)
(***************************************************************************)
RouteInit ==
  /\ mode = "FollowRoute"
  /\ home = OriginRef
  /\ home_set = FALSE
  /\ route = RouteConfig
  /\ current_wp = 0
  /\ steer = NoTarget

-----------------------------------------------------------------------------
(* Waypoint list *)

Absolute(p)   == [offset |-> 0, ref |-> [place |-> p, course |-> 0]]
Relative(wp)  == wp.offset # 0
HomePoint(h)  == Absolute(h.place)

\* Mutant: the list is not refreshed.
NoRefresh(r, ref) == r

\* SGRoute::refresh_offset_positions(): relative waypoints move with the
\* reference, absolute ones stay.
RefreshOffsetPositions(r, ref) ==
  [i \in WptIndex |-> IF Relative(r[i]) THEN [r[i] EXCEPT !.ref = ref] ELSE r[i]]

\* Mutant: the wrap-around is off by one.
IncrementPastEnd(n) == IF n < NumWaypoints THEN n + 1 ELSE 0

\* SGRoute::increment_current(): back to the first after the last.
IncrementCurrent(n) == IF n < NumWaypoints - 1 THEN n + 1 ELSE 0

-----------------------------------------------------------------------------
(* Operations *)

SetRouteMode == mode' = "FollowRoute"
SetHomeMode  == mode' = "GoHome"

\* The sanity check as the code has it: fabs() is applied to the comparison
\* and not to the coordinate.
SaneLocation(p) == p.lon > 0 \/ p.lat > 0

\* What update_home() returns.
HomeAccepted(h, force) == (~home_set \/ force) /\ SaneLocation(h.place)

\* FGRouteMgr::update_home().
UpdateHome(h, force) ==
  IF HomeAccepted(h, force)
  THEN /\ home' = h
       /\ home_set' = TRUE
       /\ route' = RefreshOffsetPositions(route, h)
  ELSE UNCHANGED <<home, home_set, route>>

\* FGRouteMgr::replace_waypoint(): the "wp" command's waypoint is absolute.
ReplaceWaypoint(p, n) ==
  route' = IF n \in WptIndex THEN [route EXCEPT ![n] = Absolute(p)] ELSE route

\* FGRouteMgr::update(), one action per branch.  "near" says that the
\* aircraft is within 50 m of the current waypoint.
TrackHome ==
  /\ mode = "GoHome" /\ home_set
  /\ steer' = HomePoint(home)
  /\ UNCHANGED <<mode, home, home_set, route, current_wp>>

\* Mutant: the list is indexed from one.
GetCurrentFromOne ==
  IF current_wp + 1 \in WptIndex THEN route[current_wp + 1] ELSE Absolute(Origin)

\* SGRoute::get_current(), the origin when current_wp is out of the list.
GetCurrent == IF current_wp \in WptIndex THEN route[current_wp] ELSE Absolute(Origin)

TrackWaypoint(gps_fresh, near) ==
  /\ mode = "FollowRoute" /\ NumWaypoints > 0
  /\ gps_fresh
  /\ steer' = GetCurrent
  /\ current_wp' = IF near THEN IncrementCurrent(current_wp) ELSE current_wp
  /\ UNCHANGED <<mode, home, home_set, route>>

\* No home, no route, or no recent fix: nothing that is modelled changes.
TrackNothing(gps_fresh) ==
  /\ \/ mode = "GoHome" /\ ~home_set
     \/ mode = "FollowRoute" /\ (NumWaypoints = 0 \/ ~gps_fresh)
  /\ UNCHANGED routeVars

=============================================================================
