---------------------------- MODULE MC_MainLoop ----------------------------
(* MainLoop on a route of one relative and one absolute waypoint. *)
EXTENDS MainLoop

NorthEast == [lon |-> 1, lat |-> 1]
SouthWest == [lon |-> -1, lat |-> -1]

MCPlaces == {NorthEast, SouthWest}
MCCourses == {0, 90}
MCOffsets == {0, 1}
MCRouteConfig ==
  [i \in 0 .. 1 |-> IF i = 0 THEN [offset |-> 1, ref |-> OriginRef] ELSE Absolute(NorthEast)]

=============================================================================
