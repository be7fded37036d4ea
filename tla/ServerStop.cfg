\* A call that answers on its own connection and one of a session, over HTTP or
\* stdio; the wait is longer than what is left of the shutdown after the web UI.
SPECIFICATION FairSpec
CONSTANTS
  Calls = {k1, k2}
  Waits = {k1}
  Posts = {k1}
  WaitLimit = 2
  Interval = 1
  Timeout = 1
  UILimit = 1
  ShutdownLimit = 3
  None = None
CHECK_DEADLOCK FALSE
INVARIANTS
  ServerInv
  ReportsAreTrue
  WaitsAreBounded
PROPERTIES
  ImplementsGracefulStop
  CallsConclude
