SPECIFICATION FairSpec
CONSTANTS
  Conns = {c1, c2}
  Subdomains = {d1, d2}
  TunnelIDs = {t1, t2, t3}
  Lookups = {r1}
  Attempts = 2
  ReuseIDs = FALSE
  None = None
INVARIANTS RegistryConsistent HeldByLiveHandler RoutedToItsSubdomain
PROPERTIES NamesNotStolen NameReleased ShutdownEndsSessions
CHECK_DEADLOCK FALSE
