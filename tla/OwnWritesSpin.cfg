\* The manifest lies in a root, under no name that is always excluded.
CONSTANTS
  None = None
  Workspaces = {"w1"}
  Dirs = {"src", "src/state"}
  Parent <- MCParent
  Within <- MCWithin
  Roots <- MCRoots
  Heavy = {}
  Hardcoded = {}
  Excludes <- MCExcludes
  Initial = {}
  StateDir = "src/state"
  Existing = {"src", "src/state"}
  MaxChanges = 2
  MaxFailures = 0
SPECIFICATION FairSpec
PROPERTY FallsQuiet
CHECK_DEADLOCK FALSE
