\* Two accounts with access, two handlers, one repository, a fault.
CONSTANTS
  Users = {"u1", "u2"}
  Access = {"u1", "u2"}
  Projects = {"p1", "p2"}
  Owner <- OwnedByBoth
  Repos = {"r1"}
  NoUser = NoUser
  NoRepo = NoRepo
  Handlers = {h1, h2}
  MaxChanges = 3
  MaxFaults = 1
SPECIFICATION Spec
INVARIANTS
  BoundByRight
  InSync
