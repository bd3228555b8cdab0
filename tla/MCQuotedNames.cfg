SPECIFICATION ChangesSpec
CONSTANTS
  None = None
  Paths = {"plain", "quoted"}
  Quoted = {"quoted"}
  Sensitive = {}
  MaxContent = 2
  MaxRepairs = 0
INVARIANTS
  UnchangedIsFound
CHECK_DEADLOCK FALSE
