\* One command at a time, no failure.
SPECIFICATION Spec
CONSTANTS
  c1 = c1
  c2 = c2
  f1 = f1
  f2 = f2
  x = x
  Clients = {c1}
  Fps = {f1}
  Exes = {x}
  MaxId = 3
  Faults = FALSE
SYMMETRY Symmetry
INVARIANTS RestoreSkipsExisting
