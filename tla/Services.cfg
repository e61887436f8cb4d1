SPECIFICATION Spec
CONSTANTS
  LineSet <- MCLineSet
  Empty = "empty"
  BytesOf <- MCBytesOf
  DepthOf <- MCDepthOf
  Fences = {"fence", "info"}
  Plain = {"fence"}
  Indented = {"item"}
  ChunkBudget = 3
  BytesPerToken = 4
  SplitDepth = 1
  Overlap = 1
  MaxLines = 5
  Files <- MCFiles
  ChunksOf <- MCChunksOf
  Withheld = {"r3"}
  IdOrder <- MCIdOrder
  Missing = Missing
  PageSize = 2
  MaxEdits = 1
  MaxSwitches = 1
  MaxCommands = 2
  MaxCrashes = 1
  Paths <- MCPaths
  TextsOf <- MCTextsOf
  DocType <- MCDocType
  RepoOf <- MCRepoOf
  FirstPaths <- MCFirstPaths
  Unjudgeable = {"t"}
  Quoted = {"t"}
  PathsEnding <- MCPathsEnding
  DenseOrder <- MCDenseOrder
  TextOrder <- MCTextOrder
  CostOf <- MCCostOf
  Absent = Absent
  Candidates = 2
  PrefetchLimit = 3
  MaxTokens = 5
  MinChunkTokens = 1
  AnchorTokens = 3
  Limits = {1, 3}
  MaxWorld = 2
  MaxQueries = 1
  Order <- MCOrder
INVARIANTS
  TypesOK
  
  EveryLineIsInAChunk
  CutsAreWhereTheyMayBe
  ClaimedIsStored
  MirrorHoldsSource
  UnflaggedIsCurrent
  AnswerIsFull
  DialectsAgree
  ResponseFits
  NothingLeaks
  NoUseAfterClose
  OneEmbeddedClient
CHECK_DEADLOCK FALSE
