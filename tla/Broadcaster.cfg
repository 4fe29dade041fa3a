\* Two clients, the page of one of them, two callers, channels of one event.
SPECIFICATION FairSpec
CONSTANTS
  Tailnets = {n1}
  Clients = {c1, c2}
  Callers = {p1, p2}
  Requests = {p1}
  Pages = {c1}
  Capacity = 1
INVARIANTS
  TypeOK
  UpdatesOnTheWay
  SubscriptionOwned
PROPERTIES
  PagesRefreshed
  ConnectionsEnd
  PagesTold
\* After a panic in a watcher's goroutine the process is gone.
CHECK_DEADLOCK FALSE
