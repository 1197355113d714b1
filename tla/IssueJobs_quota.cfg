\* Three groups opened by two handlers against a quota of one.
CONSTANTS
  Groups = {g1,g2,g3}
  Repos = {A}
  Unbound = Unbound
  Requests = {r1}
  Workers = {w1}
  MaxJobs = 3
  MaxIssues = 3
  MaxAttempts = 1
  OpenQuota = 1
  MaxDisruptions = 0
  LeaseOverrun = FALSE
SPECIFICATION Spec
INVARIANT QuotaHolds
