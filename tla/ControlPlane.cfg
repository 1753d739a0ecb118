SPECIFICATION Spec
CONSTANTS
  Requests = {q1, q2}
  TokenIDs = {t1}
  ReservationIDs = {r1, r2}
  PolicyIDs = {p1}
  DomainIDs = {d1, d2}
  Subdomains = {n1}
  Hostnames = {h1}
  Modes = {"public", "basic_auth"}
  Secrets = {s1, s2}
  None = None
SYMMETRY Symmetry
INVARIANTS
  IndexesAgree
  GrantsExplained
  ActiveWasProven
PROPERTIES
  DeadStaysDead
