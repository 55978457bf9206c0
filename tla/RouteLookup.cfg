\* Two connections, up to three routes; the CLI may change the tables once.
CONSTANTS
  Routes <- MCRoutes
  AppIds = {"a1", "a2"}
  Ips = {"x", "y"}
  Covers = {}
  AppRows <- MCAppRows
  Exes = {"e1", "cone"}
  Hashes = {"h1", "h2"}
  Known <- MCKnown
  MaxConns = 2
  MaxRows = 3
  MaxChanges = 1
SPECIFICATION Spec
CHECK_DEADLOCK FALSE
INVARIANTS TypeOK AnswerIsWholeTable NoRouteOfThePast TwoQueriesActAsOne
PROPERTIES ImplementsChoice
