\* A crash during a save after which no start succeeds.
SPECIFICATION Spec
CONSTANTS
  None = None
  MaxID = 2
  Suffixes = {s1}
  Requests = {r1, r2}
INVARIANT
  CanRestart
CHECK_DEADLOCK FALSE
