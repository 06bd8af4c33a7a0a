\* Two wallets, two agent ids, two keys of which one is remembered; two nonces over three
\* moments; one death and three changes of the files.  Beside it: a log of up to six rows; the
\* leaderboards of two agents over two cycles at once, with one viewer; and the commands in
\* environments that lack one thing each, with up to two agents.
SPECIFICATION PartsSpec
CONSTANTS
  Wallets = {w1, w2}
  Ids = {"bot", "ext"}
  Keys = {k1, k2}
  Static <- MCStatic
  Anonymous = anonymous
  MaxAgentsPerWallet = 1
  MaxRecords = 1
  NonceTtl = 1
  SessionTtl = 2
  MaxTime = 2
  MaxNonces = 2
  MaxDeaths = 1
  MaxChanges = 3
  DefaultLimit = 2
  MaxLimit = 3
  RawLimits = {0, 1, 5}
  MaxRows = 6
  Entrants = {e1, e2}
  MinSignalsToQualify = 1
  MinTradesToQualify = 1
  MinAgentsToStart = 1
  Viewers = {v1}
  Returns <- MCReturns
  Share = 2
  Batches = {0, 3}
  Slots = {1, 2}
  MaxMoves = 2
  MaxSignals = 3
  Environments <- MCEnvironments
SYMMETRY Symmetric
INVARIANTS SessionsEarned FileMatchesEngine PagesLeaveNoGap StandingsSound StartsEquipped
PROPERTIES KeyAppliesOnce
CHECK_DEADLOCK FALSE
