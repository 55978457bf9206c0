\* Two connections, up to two routes.
CONSTANTS
  Routes <- MCRoutes
  AppIds = {"a1", "a2"}
  Ips = {"x", "y"}
  Covers = {}
  AppRows <- MCAppRows
  Exes = {"e1"}
  Hashes = {"h1", "h2"}
  Known <- MCKnown
  MaxConns = 2
  MaxRows = 2
  MaxChanges = 0
SPECIFICATION Spec
CHECK_DEADLOCK FALSE
INVARIANTS HighestPriorityMatch
