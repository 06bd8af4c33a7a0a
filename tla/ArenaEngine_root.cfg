\* The claim that the season's root covers all signals: two cycles of one season, one agent.
SPECIFICATION EngineSpec
CONSTANTS
  Players = {a1}
  MinAgents = 1
  MaxSeasons = 1
  MaxCycles = 2
  MaxPolls = 2
  MaxRegs = 1
  MaxBoots = 1
INVARIANT RootCoversSeason
CHECK_DEADLOCK FALSE
