\* A directory appears.
CONSTANTS
  None = None
  Workspaces = {"w1"}
  Dirs = {"src", "src/new"}
  Parent <- MCParent
  Within <- MCWithin
  Roots <- MCRoots
  Heavy = {}
  Hardcoded = {}
  Excludes <- MCExcludes
  Initial = {}
  StateDir = None
  Existing = {"src"}
  MaxChanges = 2
  MaxFailures = 0
SPECIFICATION FairSpec
PROPERTY NewDirectoryWatched
CHECK_DEADLOCK FALSE
