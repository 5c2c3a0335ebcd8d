SPECIFICATION Spec
CONSTANTS
  Places <- MCPlaces
  Courses <- MCCourses
  Offsets <- MCOffsets
  NumWaypoints = 2
  RouteConfig <- MCRouteConfig
  NoTarget = NoTarget
  CommandPeriod = 3
  RoutePeriod = 2
  Settle = 2
  HomeAge = 2
  RouteAge = 3
  LostLink = 3
  Year = 31557600
  MaxTick = 10
INVARIANT GoCommandObeyed
CHECK_DEADLOCK FALSE
