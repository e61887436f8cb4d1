\* Two embedding spaces, active in turn.
CONSTANTS
  None = None
  Files = {f1}
  Apart = {}
  Roots = {"r1"}
  RootOf <- MCRootOf
  Spaces = {"s1", "s2"}
  Contents = {"c1", "c2"}
  Chunks <- MCChunks
  KindOf <- AllCode
  Undecodable = {}
  Secrets = {}
  SecretAllow = {}
  Split <- MCSplit
  MayDegrade = {}
  RunOptions <- SwapRuns
  FlushChunks = 3
  MinDeletions = 2
  MayFail = FALSE
  InitialVersion <- MCInitialVersion
  Upgradable = {}
  MaxVersion = 2
  Reconfigurable = {}
  Removable = {}
  MaxClock = 3
  MaxAborts = 0
SPECIFICATION Spec
INVARIANT ActiveSpaceCurrent
