\* One group, two repositories, an ingest request beside a worker, and one
\* crash, retry or rebinding.
CONSTANTS
  Groups = {g1}
  Repos = {A,B}
  Unbound = Unbound
  Requests = {r1}
  Workers = {w1}
  MaxJobs = 2
  MaxIssues = 2
  MaxAttempts = 2
  OpenQuota = 1
  MaxDisruptions = 1
  LeaseOverrun = FALSE
SPECIFICATION FairSpec
INVARIANTS
  TypeOK
  NoSharedLease
  OneIssuePerDelivery
PROPERTIES
  QueueRefinement
  JobsSettle
