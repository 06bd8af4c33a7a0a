\* The sync: more rows than it may take in one go, and both processes may die.  The
\* engine: one process, one agent that may be registered anew, two cycles that may overlap.
SPECIFICATION BothSpec
CONSTANTS
  MaxRows = 2
  Limit = 2
  Players = {a1}
  MinAgents = 1
  MaxSeasons = 1
  MaxCycles = 2
  MaxPolls = 1
  MaxRegs = 2
  MaxBoots = 1
INVARIANTS ScanSound
PROPERTIES BacklogRecovered EngineGetsOn
CHECK_DEADLOCK FALSE
