\* Two batches, a request and an archive request on one record, with a work
\* unit for each batch.
SPECIFICATION BatchSpec
CONSTANTS
  r1 = r1
  a1 = a1
  b1 = b1
  b2 = b2
  lower = lower
  upper = upper
  Absent = Absent
  Request = {r1}
  Archiver = {a1}
  Batch = {b1, b2}
  UnitLimit = 2
  RawId <- MCRawId
  Normal <- MCNormal
  BatchOrder <- MCBatchOrder
  CreateStatus = {"closed"}
  Target = {"closed"}
  Expected = {0}
SYMMETRY Symmetry
INVARIANTS
  UnitsAreConserved
  ManifestsCoverBatches
  EveryWriteIsCounted
  NotesHaveARecord
PROPERTY BatchMovesWhatItRead
