\* Histories of four entries by two handlers; one account with two projects
\* and room for one group.
CONSTANTS
  Projects = {"p1", "p2"}
  Slug <- OneAccountSlug
  Owner <- OneAccountOwner
  Prints = {"f1"}
  Revisions = {"", "a"}
  NoRevision = ""
  Requests = {r1, r2}
  Keep = 2
  MaxGroups = 1
  MaxLog = 4
  MaxCrashes = 1
SYMMETRY RequestSymmetry
SPECIFICATION Spec
INVARIANTS
  EvidenceIsHistory
  RegressionNeedsAck
  AnnouncedOnce
  AckedUntilRegression
