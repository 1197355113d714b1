\* Two accounts with a project of the same slug.
CONSTANTS
  Projects = {"p1", "p2"}
  Slug <- SameSlug
  Owner <- TwoAccountOwner
  Prints = {"f1"}
  Revisions = {"", "a"}
  NoRevision = ""
  Requests = {"r1"}
  Keep = 2
  MaxGroups = 2
  MaxLog = 2
  MaxCrashes = 0
SPECIFICATION Spec
INVARIANT GroupsWithinProject
