\* Two components of two builds each, two rows of the table.
CONSTANTS
  b1 = b1  b2 = b2
  Last = 2
  Builds = {b1, b2}
  MaxRows = 2
SPECIFICATION Spec
SYMMETRY Symmetry
INVARIANTS TypeOK KnownWasOnDisk
PROPERTIES StampsAreEarned
