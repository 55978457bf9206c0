\* Two threads resolve a PID that is used twice, by binaries that are upgraded once.
SPECIFICATION Spec
CONSTANTS
  r1 = r1  r2 = r2  p1 = p1  p2 = p2  e1 = e1  e2 = e2  x = x
  Resolvers = {r1, r2}
  Pids = {p1}
  Exes = {e1, e2}
  Ips = {x}
  MaxTime = 2
  MaxVersion = 1
SYMMETRY Symmetry
INVARIANTS TypeOK AnswerIsOfThisProcess
