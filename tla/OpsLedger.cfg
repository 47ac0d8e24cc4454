\* Every transition names a revision and nothing is archived: a request and two
\* batches that share one work unit implement the atomic ledger, and everyone is
\* answered.  No symmetry, for liveness.
SPECIFICATION BatchFairSpec
CONSTANTS
  r1 = r1
  b1 = b1
  b2 = b2
  lower = lower
  upper = upper
  Absent = Absent
  Request = {r1}
  Archiver = {}
  Batch = {b1, b2}
  UnitLimit = 1
  RawId <- MCRawId
  Normal <- MCNormal
  BatchOrder <- MCBatchOrderLive
  CreateStatus = {"queued"}
  Target = {"active", "closed"}
  Expected = {1, 2}
PROPERTIES
  RefinesLedger
  EveryoneAnswered
