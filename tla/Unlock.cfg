\* Two processes unlock one store at once, with two passphrases; any two may be cut off.
CONSTANTS
  p1 = p1  p2 = p2  w1 = w1  w2 = w2  s1 = s1  s2 = s2
  Procs = {p1, p2}
  Words = {w1, w2}
  Salts = {s1, s2}
  Tables = 2
  MaxFaults = 2
SPECIFICATION FairSpec
INVARIANTS TypeOK UnlockedSeesSchema OnlyWrongPassphraseFails
PROPERTIES ImplementsVault OpensAgain
