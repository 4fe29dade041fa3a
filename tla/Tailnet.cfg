\* Two sessions of one tailnet, little data.
SPECIFICATION Spec
CONSTANTS
  None = None
  EmptyURL = EmptyURL
  s1 = s1
  s2 = s2
  h1 = h1
  p1 = p1
  IpnStates = {"NeedsMachineAuth", "Running"}
  URLs = {}
  Suffixes = {s1}
  Hosts = {h1}
  PeerLists = {p1}
  NetMaps <- MCOneMap
  Sessions = {k1, k2}
  Configs <- MCNewOrFailed
SYMMETRY MCSymmetry
INVARIANTS
  TypeOK
  SessionOpen
  DialReachesServer
  TornDownOnce
  CommandAlone
  ListenerHeld
  ChangesAnnounced
PROPERTIES
  TerminalIsFinal
  PortFreed
\* A tailnet with a terminal error does nothing more.
CHECK_DEADLOCK FALSE
