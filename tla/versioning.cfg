SPECIFICATION Spec
CONSTANTS
  r1 = r1
  r2 = r2
  r3 = r3
  r4 = r4
  w1 = w1
  w2 = w2
  Rows <- FourRows
  GivenCodes <- OneCode
  Workers <- TwoWorkers
  Idle = Idle
SYMMETRY Interchangeable
INVARIANTS TypeOK VersionNumbers LatestIsNewest DeletedNotLatest ArchivedTogether
PROPERTY KeepsPromise
