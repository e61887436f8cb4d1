SPECIFICATION FairSpec
CONSTANTS
  Paths <- MCPaths
  Nothing = Nothing
  Builtins <- MCBuiltins
  Declared <- MCDeclared
  BasePaths <- MCBasePaths
  Lower <- MCLower
  HttpClients = {"fetch"}
  PagesDir = "Pages"
  ContentsOf <- MCContentsOf
  InitialDisk <- MCInitialDisk
  Workspaces <- MCWorkspaces
  OldIndexes <- MCOldIndexes
  Scopes <- MCScopes
  BackfillBatch = 2
  MayFail = FALSE
  MaxEdits = 2
  MaxAborts = 0
  Needles <- MCNeedles
  Limit = 2
INVARIANTS NoDanglingTarget
