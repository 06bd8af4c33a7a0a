\* Engine: two agents, or one registered anew in the middle of cycles; two overlapping cycles; two
\* seasons over two processes.  Submitter: one season, errors of two agents, three alerts over
\* two rate windows.  Contracts: two seasons, a vault that may be exchanged.
SPECIFICATION AllSpec
CONSTANTS
  NumUsers = 1
  NumAgents = 1
  NumSeasons = 2
  WAD = 1
  MaxAgentsPerSeason = 2
  StakeAmounts = {1}
  InitialWallet = 1
  MaxEntries = 1
  Settlers = {settlerContract, eoa}
  ZeroAddress = zero
  SettlerContract = settlerContract
  Vaults = {vaultA, vaultB}
  ThisVault = vaultA
  Submissions = {s1}
  AgentErrors = {e1, e2}
  Wad = 7
  Scale = 2
  Ranked = 2
  Routes = {{"fallback"}, {"warn"}}
  MaxAttempts = 2
  DedupWindow = 1
  RateWindow = 2
  RateMax = 1
  MaxAlerts = 3
  Horizon = 3
  Players = {a1, a2}
  MinAgents = 1
  MaxSeasons = 2
  MaxCycles = 2
  MaxPolls = 1
  MaxRegs = 2
  MaxBoots = 2
SYMMETRY PlayerSymmetry
INVARIANTS SeasonsApart BooksSurvive SettlementSound SubmissionSound AlertsSound
PROPERTIES ArchiveIsFinal SettleCoversCommitted RecordedWithWeights
CHECK_DEADLOCK FALSE
