\* Three concurrent requests of every kind, with and without a named revision.
SPECIFICATION Spec
CONSTANTS
  r1 = r1
  r2 = r2
  r3 = r3
  lower = lower
  upper = upper
  Absent = Absent
  Request = {r1, r2, r3}
  RawId <- MCRawId
  Normal <- MCNormal
  CreateStatus = {"queued", "unknown"}
  Target = {"active", "closed"}
  Expected = {0, 1, 2}
SYMMETRY RequestSymmetry
INVARIANTS
  TypeOK
  KeysAreNormal
  NoDoubleCommit
  ReadsAreSound
  AuditExplainsRevision
  AnswersMatchEffects
PROPERTY GuardedMovesFollowTable
