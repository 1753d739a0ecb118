SPECIFICATION PublicSpec
CONSTANTS
  Rate = 2
  Capacity = 6
  Cost = 3
  Requests = {r1, r2}
  MaxTime = 3
  AttemptRate = 1
  AttemptCapacity = 4
  AttemptCost = 2
  Keys = {k1, k2, k3}
  MaxKeys = 2
  None = None
  Configurations <- SomeTunnels
SYMMETRY Symmetry
INVARIANTS WindowBound GuessesBounded LoggedAsAnswered
PROPERTIES RefusedOnlyWhenSpent BlockedOnlyAfterBudget
