\* From a Friday to the Saturday: a fair worker, which may outlive its lease,
\* beside daily-brief send.
CONSTANTS
  StartDay = 6
  LastDay = 7
  Friday = 6
  Workers = {w1}
  Commands = {c1}
  MaxAttempts = 2
  MaxCrashes = 1
  LeaseOverrun = TRUE
SPECIFICATION FairSpec
INVARIANTS
  RepeatsOnlyAfterLoss
  NotTooEarly
PROPERTIES
  SettledStaysSettled
  WeeklyIsCaughtUp
