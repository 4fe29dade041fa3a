\* Three tailnets, two requests at a time, one suffix to claim.
SPECIFICATION Spec
CONSTANTS
  None = None
  MaxID = 3
  Suffixes = {s1}
  Requests = {r1, r2}
SYMMETRY MCSymmetry
INVARIANTS
  TypeOK
  SuffixUnique
  ClaimDurable
  EntryDurable
  NextIDFresh
PROPERTIES
  KeepsClaims
\* With a garbled file the process exits and nothing more happens.
CHECK_DEADLOCK FALSE
