\* The port of a tailnet that is switched off given to a new one.
SPECIFICATION Spec
CONSTANTS
  None = None
  MaxID = 2
  Objects = {o1, o2}
  Suffixes = {s1}
  Ports = {p1}
  Requests = {r1}
  MaxPACs = 1
  MaxUnsaved = 0
INVARIANT
  RoutedRight
CHECK_DEADLOCK FALSE
