SPECIFICATION FairSpec
CONSTANTS
  Tasks = {1, 2, 3}
  Chains = {1, 2}
  Limit = 2
  NoTask = 0
  ChainLists <- MCChainLists
  SessionOf <- MCSessionOf
  Resendable = {1, 3}
  TimeoutLimit = 1
  MaxFaults = 2
INVARIANTS TypeOK ChainOrder TasksMatchQueries ActiveTasksAreCounted NothingWaitsInVain
PROPERTIES EveryQueryEnds
CHECK_DEADLOCK FALSE
