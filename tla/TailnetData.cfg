\* One session at a time, with rich data and fairness.
SPECIFICATION FairSpec
CONSTANTS
  None = None
  EmptyURL = EmptyURL
  s1 = s1
  s2 = s2
  h1 = h1
  p1 = p1
  IpnStates = {"NeedsLogin", "Running"}
  URLs = {u1, EmptyURL}
  Suffixes = {s1, s2}
  Hosts = {}
  PeerLists = {p1}
  NetMaps <- MCTwoMaps
  Sessions = {k1}
  Configs <- MCLoaded
INVARIANTS
  ClaimExclusive
  LoginURLKnown
PROPERTIES
  StopReturns
  CanceledWatcherExits
  LogoutStops
  FollowsLifecycle
\* A tailnet with a terminal error does nothing more.
CHECK_DEADLOCK FALSE
