SPECIFICATION FairSpec
CONSTANTS
  Route <- MCRoute
  Def <- MCDef
  OptsSlice <- MCOptsSlice
  Options <- MCOptions
  Type <- MCType
  Sent <- MCSent
  Request = {q1, q2}
  HasValidator = TRUE
  Program = "Shop"
  None = None
INVARIANTS
  TypeOK
  OnlyAcceptedInput
  StagesInOrder
  AcceptableIsServed
  MissingBodyReported
PROPERTIES
  ImplementsService
  EveryRequestAnswered
CHECK_DEADLOCK FALSE
