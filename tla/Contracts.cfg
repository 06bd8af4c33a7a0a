\* The escrow: two tasks between two users, all fee rates and delays, the clock to its
\* horizon.  The vault: two users, a list of agents that overflows, repeated agent ids,
\* rounding.
SPECIFICATION ContractsSpec
CONSTANTS
  Users = {u1, u2}
  Escrow = escrow
  Zero = zero
  ZeroAddress = zero
  Hashes = {h1, h2}
  Amounts = {15}
  NumTasks = 2
  MaxTime = 4
  MaxDeadlineSecs = 1
  MaxReleaseDelay = 1
  MaxFeeBps = 1000
  FeeRates = {0, 1000, 10000}
  ReleaseDelays = {0, 1, 2}
  MinAmounts = {0}
  MaxAmounts = {15}
  InitialBalance = 30
  NumUsers = 2
  NumAgents = 3
  NumSeasons = 1
  WAD = 3
  MaxAgentsPerSeason = 2
  StakeAmounts = {1, 2}
  InitialWallet = 3
  MaxEntries = 3
  Settlers = {settlerContract}
INVARIANTS EscrowSound FundsSafe VaultSound
PROPERTIES KeepsPromise EveryTaskSettles SettledIsFrozen
