SPECIFICATION Spec
CONSTANTS
  Limit = 3
  Times = {1, 2}
  Asked = {0, 1}
  DefaultLimit = 2
  MaxPageLimit = 3
  MaxID = 4
  None = None
INVARIANT PagesComplete
PROPERTY ImplementsBoundedLog
