\* Two commands at a time, each of which may fail or be killed.
SPECIFICATION Spec
CONSTANTS
  c1 = c1
  c2 = c2
  f1 = f1
  f2 = f2
  x = x
  Clients = {c1, c2}
  Fps = {f1}
  Exes = {x}
  MaxId = 2
  Faults = TRUE
SYMMETRY Symmetry
INVARIANTS TypeOK NothingDangles CertsHaveKeys ImportedStays
PROPERTIES RestoreOnlyAdds
