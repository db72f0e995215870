\* Each link is named for its kind; three requests bind, rebind and unbind.
\* Streams do not meet, so one is enough for the routes.
SPECIFICATION FairSpec
CONSTANTS
  Links = {"url", "listener", "initiator"}
  Kind <- KindOf
  MaxRequests = 3
  MaxAttempts = 2
  Purposes <- MCPurposes
  RoutePrefixes <- MCPrefixes
  Addrs = {"a", "b"}
  Static <- MCStatic
  HostPorts <- MCHostPorts
  Streams = {"stream"}
  MaxRoutes = 4
INVARIANTS TunnelsAreOwned ChannelsAreOwned ReportedAsIs StreamsFollowRoutes
PROPERTY UnbindReleases
CHECK_DEADLOCK FALSE
