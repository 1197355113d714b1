\* Handlers may outlive their lease: what survives two of them on one job.
CONSTANTS
  Groups = {g1,g2}
  Repos = {A,B}
  Unbound = Unbound
  Requests = {r1}
  Workers = {w1}
  MaxJobs = 2
  MaxIssues = 2
  MaxAttempts = 1
  OpenQuota = 2
  MaxDisruptions = 1
  LeaseOverrun = TRUE
SPECIFICATION Spec
SYMMETRY RepoSymmetry
INVARIANTS
  IssueIsOurs
  EventsFollowIssues
  DoneIsBacked
