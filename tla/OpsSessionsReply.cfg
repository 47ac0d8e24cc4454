\* What a bulk reports when one of its goroutines fails.
SPECIFICATION Spec
CONSTANTS
  art1 = art1
  art2 = art2
  b1 = b1
  b2 = b2
  RecordId = {art1, art2}
  Capacity = 2
  Window = 2
  Bulk = {b1, b2}
  Creation = {}
  IdList <- MCIdList
SYMMETRY Symmetry
INVARIANT ReplyCountsCompleted
