\* Two threads of a host program; coned lists up to two certificates.
CONSTANTS
  t1 = t1  t2 = t2  d1 = d1  d2 = d2
  Threads = {t1, t2}
  Data = {d1, d2}
  MaxCerts = 2
  MaxBatch = 2
SPECIFICATION FairSpec
INVARIANTS TypeOK OwnAnswer WaitsEndAtDaemon
PROPERTIES SearchIsComplete CallsReturn
