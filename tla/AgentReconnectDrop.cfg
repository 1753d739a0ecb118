SPECIFICATION Spec
CONSTANTS
  InitialDelay = 2
  MaxDelay = 5
  Jitter = 1
  AttemptCap = 2
  None = None
  Conns = {c1, c2, c3}
INVARIANT SurvivesNetworkDrop
