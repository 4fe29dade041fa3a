\* Two requests, one watcher, one dialer.
SPECIFICATION Spec
CONSTANTS
  Requests = {r1, r2}
  Watchers = {w1}
  Dialers = {d1}
SYMMETRY MCSymmetry
INVARIANTS
  TypeOK
  LocksExclude
  RegistryNotLost
  OnlyLogoutLeavesALock
  EveryoneReturns
  RegistryFree
\* The process may have exited.
CHECK_DEADLOCK FALSE
