SPECIFICATION Spec
CONSTANTS
  Route <- MCRoute
  Def <- MCDef
  OptsSlice <- MCOptsSlice
  Options <- MCOptions
  Type <- MCType
  Sent <- MCSent
  Request = {q1}
  HasValidator = TRUE
  Program = "EarlyQuery"
  None = None
INVARIANT
  MiddlewareHasInput
CHECK_DEADLOCK FALSE
