\* Runs that stop half way: what is never lost, and what later runs repair.
CONSTANTS
  None = None
  Files = {f1, f2}
  Apart = {f2}
  Roots = {"r1", "r2"}
  RootOf <- MCRootOf
  Spaces = {"s1"}
  Contents = {"c1", "c2"}
  Chunks <- MCChunks
  KindOf <- AllCode
  Undecodable = {}
  Secrets = {}
  SecretAllow = {}
  Split <- MCSplit
  MayDegrade = {}
  RunOptions <- RecoveryRuns
  FlushChunks = 3
  MinDeletions = 2
  MayFail = FALSE
  InitialVersion <- MCInitialVersion
  Upgradable = {}
  MaxVersion = 2
  Reconfigurable = {}
  Removable = {}
  MaxClock = 3
  MaxAborts = 2
SPECIFICATION FairSpec
INVARIANTS ForcedRunRepairs
PROPERTIES RecordedAfterStored VectorsNeverStranded ManifestConverges
