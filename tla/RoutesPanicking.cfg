SPECIFICATION Spec
CONSTANTS
  Registration <- MCRegistration
  Def <- MCDef
  Pattern <- MCPattern
  ParamsIn <- MCParamsIn
  Template <- MCTemplate
  Type <- MCType
  Refused <- MCRefused
  MayPanic <- MCMayPanic
  Fields <- MCFields
  Unsupported <- MCUnsupported
  Id <- MCId
  Param <- MCParam
  Enums <- MCEnums
  ContentType = {"application/json"}
  Change <- MCChange
  Changed <- MCChanged
  Resource = {"shop"}
  Program = "Panicking"
  None = None
INVARIANTS
  ServedIsDocumented
  RefusedNotDocumented
  SpecFailsForCause
PROPERTIES
  ReplacedByDescriptionOnly
CHECK_DEADLOCK FALSE
