\* One root, and every way down the decision ladder.
CONSTANTS
  None = None
  Files = {f1, f2}
  Apart = {}
  Roots = {"r1"}
  RootOf <- MCRootOf
  Spaces = {"s1"}
  Contents = {"c1", "c2", "secret", "binary"}
  Chunks <- MCChunks
  KindOf <- AllCode
  Undecodable = {"binary"}
  Secrets = {"secret"}
  SecretAllow = {}
  Split <- MCSplit
  MayDegrade = {f1, f2}
  RunOptions <- LadderRuns
  FlushChunks = 3
  MinDeletions = 2
  MayFail = TRUE
  InitialVersion <- MCInitialVersion
  Upgradable = {"code", "text"}
  MaxVersion = 3
  Reconfigurable = {"r1"}
  Removable = {}
  MaxClock = 3
  MaxAborts = 0
SPECIFICATION Spec
INVARIANTS TypeOK RunConverges StoreMatchesManifest
SYMMETRY Alike
