SPECIFICATION Spec
CONSTANTS
  Route <- MCRoute
  Def <- MCDef
  OptsSlice <- MCOptsSlice
  Options <- MCOptions
  Type <- MCType
  Sent <- MCSent
  Request = {q1, q2}
  HasValidator = FALSE
  Program = "SharedOpts"
  None = None
INVARIANTS
  OnlyAcceptedInput
CHECK_DEADLOCK FALSE
