\* One crash, and a file put back as it was.
CONSTANTS
  None = None
  Files = {f1}
  Apart = {}
  Roots = {"r1"}
  RootOf <- MCRootOf
  Spaces = {"s1"}
  Contents = {"c1", "c2"}
  Chunks <- MCChunks
  KindOf <- AllCode
  Undecodable = {}
  Secrets = {}
  SecretAllow = {}
  Split <- MCSplit
  MayDegrade = {}
  RunOptions <- JustIndex
  FlushChunks = 3
  MinDeletions = 2
  MayFail = FALSE
  InitialVersion <- MCInitialVersion
  Upgradable = {}
  MaxVersion = 2
  Reconfigurable = {}
  Removable = {}
  MaxClock = 3
  MaxAborts = 1
SPECIFICATION Spec
INVARIANT MarkedDoneIsStored
