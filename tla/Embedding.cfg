SPECIFICATION Spec
CONSTANTS
  Requests <- MCRequests
  TokensOf <- MCTokensOf
  ChargeOf <- MCChargeOf
  Nothing = Nothing
  BatchSize = 2
  MaxBatchTokens = 3
  MaxConcurrency = 2
  MaxAttempts = 2
  MaxCalls = 2
  MaxRuns = 2
  MaxProcesses = 2
INVARIANTS
  BatchesFillUp
  MeterIsAFloor
PROPERTIES
  AlignedOrRaised
CHECK_DEADLOCK FALSE
