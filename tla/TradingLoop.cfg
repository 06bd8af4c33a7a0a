\* The loop: two overlapping cycles of up to two signals, a restart, every executor but 0x,
\* whose outcomes are among those of MoonPay.
\* Beside it: two agents over two seasons and more on each strategy, two mixed
\* strategies of up to two signals each, and backtests of a few bars.
SPECIFICATION AllSpec
CONSTANTS
  Tokens = {"t1", "t2"}
  CoinbaseTokens = {"t1"}
  Venues = {"paper", "moonpay", "uniswap_v3", "coinbase"}
  HasMinOut = FALSE
  Cycles = {1, 2}
  Signals <- MCSignals
  Adjusted = {3}
  UnitPrice <- MCUnitPrice
  Threshold = 1
  MaxSize = 2
  MaxExposure = 2
  Cooldown = 2
  MaxTime = 2
  MaxFaults = 1
  Agents = {"x", "y"}
  StrategyTokens = {"A", "B"}
  MixTokens = {"A", "B"}
  TokenA = "A"
  TokenB = "B"
  Native = "A"
  Stable = "USDC"
  MaxConsecutive = 2
  StopAt = 1
  TakeAt = 2
  ArmAt = 1
  TrailBy = 1
  MaxPrice = 3
  Weights <- MCWeights
  Confidences = {60, 80}
  MixAmounts = {0, 12}
  MaxOffered = 2
  MaxHeard = 3
  Capital = 120
  FeeDiv = 10
  SlipDiv = 10
  Prices = {2, 3}
  Wishes <- MCWishes
  MinBars = 1
  MaxBars = 4
INVARIANTS CooldownKept TradesRecorded LargeOrdersApproved StrategiesKeepWord
PROPERTIES EveryCycleEnds FillsCost
CHECK_DEADLOCK FALSE
