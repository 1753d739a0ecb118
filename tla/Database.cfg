SPECIFICATION FairSpec
CONSTANTS
  ControlPlanes = {c1, c2}
  Gateways = {g}
  Deployments <- SharedDatabases
  c1 = c1
  c2 = c2
  g = g
  MaxCrashes = 2
  MaxIssued = 4
  TokenIDs = {t}
  AdminTokenIDs = {a}
  ReservationIDs = {r1, r2}
  PolicyIDs = {p1, p2}
  DomainIDs = {d1, d2}
  Names = {n}
  Hostnames = {h}
  Modes = {"public", "basic_auth"}
  None = None
INVARIANTS ServesMigrated RowsConsistent
PROPERTIES DeadRowsStayDead EveryoneServes
CHECK_DEADLOCK FALSE
