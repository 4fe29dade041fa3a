\* Two IDs, two requests at a time, one suffix.
SPECIFICATION Spec
CONSTANTS
  None = None
  MaxID = 2
  Objects = {o1, o2}
  Suffixes = {s1}
  Ports = {p1, p2}
  Requests = {r1, r2}
  MaxPACs = 1
  MaxUnsaved = 1
SYMMETRY MCSymmetry
INVARIANTS
  TypeOK
  EntryOwned
  IntentKept
  SwitchWorks
  OneRulePerSuffix
PROPERTIES
  KeepsClaims
  FollowLifecycle
\* With a file it cannot read the process exits and nothing more happens.
CHECK_DEADLOCK FALSE
