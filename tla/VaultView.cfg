SPECIFICATION ViewSpec
CONSTANTS
  NumUsers = 1
  NumAgents = 1
  NumSeasons = 1
  WAD = 3
  MaxAgentsPerSeason = 1
  StakeAmounts = {1, 2}
  InitialWallet = 3
  MaxEntries = 1
  Settlers = {settlerContract}
  ZeroAddress = zero
INVARIANT ViewShowsChain
CHECK_DEADLOCK FALSE
