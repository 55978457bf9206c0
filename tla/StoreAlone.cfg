\* One command at a time, which may fail or be killed.
SPECIFICATION Spec
CONSTANTS
  c1 = c1
  c2 = c2
  f1 = f1
  f2 = f2
  x = x
  Clients = {c1}
  Fps = {f1, f2}
  Exes = {x}
  MaxId = 3
  Faults = TRUE
SYMMETRY Symmetry
INVARIANTS AtMostOneKey BackupIsClosed RestoreFailsOnlyIfRenumbered RestoreIsComplete IdsAreForGood
