SPECIFICATION Spec
CONSTANTS
  Requests = {r1, r2}
  Found = {a}
  Missing = {missing}
  HitTTL = 2
  MissTTL = 1
  MaxTime = 5
  None = None
SYMMETRY Symmetry
INVARIANT BoundedStaleness
