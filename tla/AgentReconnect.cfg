SPECIFICATION FairSpec
CONSTANTS
  InitialDelay = 2
  MaxDelay = 5
  Jitter = 1
  AttemptCap = 2
  None = None
  Conns = {c1, c2}
INVARIANTS BackoffBounded ServesWhatIsRegistered GivesUpOnlyForCause
PROPERTIES SettlesWhenCalm StaleTunnelReleased
