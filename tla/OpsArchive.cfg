\* Two archive requests race two requests of any kind.
SPECIFICATION ArchiveSpec
CONSTANTS
  r1 = r1
  r2 = r2
  a1 = a1
  a2 = a2
  lower = lower
  upper = upper
  Absent = Absent
  Request = {r1, r2}
  Archiver = {a1, a2}
  RawId <- MCRawId
  Normal <- MCNormal
  CreateStatus = {"queued", "closed"}
  Target = {"active", "closed"}
  Expected = {0, 1, 2}
SYMMETRY Symmetry
INVARIANTS
  OneArchivePerLife
PROPERTIES
  UnclosedLeavesByRace
  ForeignWritesNeedArchiving
  RefinesArchiveLedger
