SPECIFICATION FairSpec
CONSTANTS
  Paths <- MCPaths
  Nothing = Nothing
  Builtins <- MCBuiltins
  Declared <- MCDeclared
  BasePaths <- MCBasePaths
  Lower <- MCLower
  HttpClients = {"fetch"}
  PagesDir = "Pages"
  ContentsOf <- MCContentsOf
  InitialDisk <- MCInitialDisk
  Workspaces <- MCWorkspaces
  OldIndexes <- MCOldIndexes
  Scopes <- MCScopes
  BackfillBatch = 2
  MayFail = TRUE
  MaxEdits = 2
  MaxAborts = 1
  Needles <- MCNeedles
  Limit = 2
INVARIANTS TypeOK EdgesCurrent FlagsAgreeWithJoins StaysInUnit BothEndsAgree NeverTheWrongFile RateIsHonest
PROPERTIES EdgesLiveOnce EdgesCatchUp
