\* Close waiting for a goroutine that waits for the caller of Close.
SPECIFICATION Spec
CONSTANTS
  None = None
  EmptyURL = EmptyURL
  s1 = s1
  s2 = s2
  h1 = h1
  p1 = p1
  IpnStates = {"NeedsLogin", "NeedsMachineAuth", "Running"}
  URLs = {u1}
  Suffixes = {s1}
  Hosts = {h1}
  PeerLists = {p1}
  NetMaps <- MCOneMap
  Sessions = {k1}
  Configs <- MCNew
INVARIANT
  CloseCanWait
CHECK_DEADLOCK FALSE
