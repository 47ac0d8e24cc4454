\* Two transitions, one of which names no revision.
SPECIFICATION Spec
CONSTANTS
  r1 = r1
  r2 = r2
  lower = lower
  upper = upper
  Absent = Absent
  Request = {r1, r2}
  RawId <- MCRawId
  Normal <- MCNormal
  CreateStatus = {"queued", "unknown"}
  Target = {"active", "closed"}
  Expected = {0, 1, 2}
SYMMETRY RequestSymmetry
PROPERTY TransitionsFollowTable
