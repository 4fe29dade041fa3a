\* A Broadcast that panics before it has come to every subscriber.
SPECIFICATION Spec
CONSTANTS
  Tailnets = {n1}
  Clients = {c1, c2}
  Callers = {p1, p2}
  Requests = {p1}
  Pages = {c1}
  Capacity = 1
PROPERTY
  SendsToAll
\* After a panic in a watcher's goroutine the process is gone.
CHECK_DEADLOCK FALSE
