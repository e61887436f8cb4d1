\* Files and roots that come and go: what runs remove, and what they keep.
CONSTANTS
  None = None
  Files = {f1, f2, f3, f4}
  Apart = {f4}
  Roots = {"r1", "r2"}
  RootOf <- MCRootOf
  Spaces = {"s1"}
  Contents = {"c1"}
  Chunks <- MCChunks
  KindOf <- AllCode
  Undecodable = {}
  Secrets = {}
  SecretAllow = {}
  Split <- MCSplit
  MayDegrade = {}
  RunOptions <- DeletingRuns
  FlushChunks = 1
  MinDeletions = 1
  MayFail = FALSE
  InitialVersion <- MCInitialVersion
  Upgradable = {}
  MaxVersion = 2
  Reconfigurable = {}
  Removable = {"r1"}
  MaxClock = 4
  MaxAborts = 0
SPECIFICATION Spec
INVARIANTS RunConverges MassDeletionQuestioned
PROPERTIES LiveFileKept AbsentRootKept
SYMMETRY Alike
