\* What the metrics show when the window has dropped requests.
SPECIFICATION Spec
CONSTANTS
  art1 = art1
  b1 = b1
  b2 = b2
  c1 = c1
  RecordId = {art1}
  Capacity = 1
  Window = 1
  Bulk = {b1, b2}
  Creation = {c1}
  IdList <- MCIdList
SYMMETRY Symmetry
INVARIANT ErrorsAreInWindow
