\* Two workspaces that share a tree, one with a second root.
\* When the changes are over everyone waits: the system does stop.
CONSTANTS
  None = None
  Workspaces = {"w1", "w2"}
  Dirs = {"src", "src/new", "src/data", "docs"}
  Parent <- MCParent
  Within <- MCWithin
  Roots <- MCRoots
  Heavy = {}
  Hardcoded = {"src/data"}
  Excludes <- MCExcludes
  Initial = {}
  StateDir = "src/data"
  Existing = {"src", "src/data", "docs"}
  MaxChanges = 3
  MaxFailures = 1
SPECIFICATION FairSpec
INVARIANTS TypeOK NoChangeLost
PROPERTIES CatchesUp FallsQuiet
CHECK_DEADLOCK FALSE
