\* Three overlapping cycles of an agent of each kind; three calls over the bridge.
SPECIFICATION BothSpec
CONSTANTS
  Kinds = {"webhook", "prompt", "stdio", "sdk", "internal"}
  Calls = {1, 2, 3}
  Tokens = {"A", "B"}
  ArenaTokens = {"A"}
  PromptTokens = {"A", "B"}
  Markets <- MCMarkets
  Answers <- MCAnswers
  Limits <- MCLimits
  MaxSignals = 2
  Start = 40
  Dollar = 4
  Dust = 2
  Requests = {1, 2, 3}
  Cycles = {c1, c2}
  TradeTokens = {t1}
  MaxMs = 1
INVARIANTS MetaIsOwn RepliesMatched
PROPERTIES TradesConserveValue StrikesHold CallsEnd
CHECK_DEADLOCK FALSE
