\* The claim that the calldata funds a task of the escrow.
SPECIFICATION ChainSpec
CONSTANTS
  MaxTasks = 2
  Polls = {p1}
  Batch = 1
INVARIANT FundCallFunds
