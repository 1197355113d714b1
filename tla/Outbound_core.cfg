\* An error event or a test delivery, a webhook endpoint and ntfy, two workers,
\* one crash, failing read, manual retry or change of the endpoint.
CONSTANTS
  Errors = {1}
  Issues = {}
  Tests = {1}
  Endpoints = {e1}
  Operator = operator
  NtfyEnabled = TRUE
  MaxEndpoints = 1
  Workers = {w1, w2}
  MaxAttempts = 2
  MaxDisruptions = 1
SPECIFICATION FairSpec
INVARIANTS
  RepeatsOnlyAfterLoss
  NoOrphans
  DoneUnlessUnread
PROPERTIES
  QueueRefinement
  DeliveriesSettle
  HistoryIsPruned
