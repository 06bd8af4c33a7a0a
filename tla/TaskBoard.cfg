\* Two tasks, polls of one task each, two of them under way at once.
\* Identity: the owner and one stranger, two agents, one registrar; anyone may mint, sell and
\* approve between its steps.
SPECIFICATION BothSpec
CONSTANTS
  MaxTasks = 2
  Polls = {p1, p2}
  Batch = 1
  Users = {deployer, alice}
  Deployer = deployer
  NumAgents = 2
  Homes = {TRUE}
  Registrars = {start}
  MaxGrants = 1
  Zero = zero
INVARIANTS BoardSound NfaBooks LogIsTrue
PROPERTIES AnswerIsFinal EveryTaskAnswered EveryAgentRegistered
