SPECIFICATION Spec
CONSTANTS
  PushBase = 4
  Extension <- MCExtension
  Ceiling = 8
  PushRetry = 12
  FetchBase = 6
  FetchMax = 12
  GrowNum = 3
  GrowDen = 2
  JitterDiv = 4
  MaxChanges = 4
  MaxGap = 3
  Horizon = 40
  None = None
INVARIANTS TypeOK PushOnTime NeverSilent FetchesArePaced
PROPERTIES ImplementsPacing
CHECK_DEADLOCK FALSE
