\* The worker ticks on while a request and an archive request run.
SPECIFICATION WorkerFairSpec
CONSTANTS
  r1 = r1
  a1 = a1
  lower = lower
  Absent = Absent
  Request = {r1}
  Archiver = {a1}
  RawId <- MCRawId
  Normal <- MCNormal
  CreateStatus = {"active"}
  Target = {"active", "closed"}
  Expected = {0, 1}
  Keep = 1
  MaxTimeouts = 2
INVARIANTS
  SnapshotShowsNoStalled
  CacheIsPast
PROPERTIES
  WorkerClosesOnlyStalled
  StalledIsClosed
  DashboardAnswersAgain
  TrailIsPruned
