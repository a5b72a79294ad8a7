CONSTANTS
  None = None
  Hashes = {1, 2}
  SeenCap = 1
  MaxFailures = 2
  Budget = 2
  RunCosts = {1, 3}
  MaxCost = 3
  MaxPicks = 2
  MaxDay = 2
  MaxCrashes = 1
  MaxCli = 1
SPECIFICATION Spec
INVARIANTS StreakBounded FedAgainForAReason
