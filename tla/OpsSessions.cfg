\* Two bulks complete sessions that are opened, and aborted, meanwhile; all are
\* counted, and a creation with them.
SPECIFICATION MCFairSpec
CONSTANTS
  art1 = art1
  art2 = art2
  b1 = b1
  b2 = b2
  RecordId = {art1, art2}
  Capacity = 2
  Window = 3
  Bulk = {b1, b2}
  c1 = c1
  Creation = {c1}
  IdList <- MCIdList
INVARIANTS
  TypeOK
  OpenSessionsAreKnown
  SuccessCountsCompleted
  SendersNeverWait
  MetricsCountRequests
PROPERTIES
  RefinesContract
  EveryBulkAnswered
