SPECIFICATION FairSpec
CONSTANTS
  Registration <- MCRegistration
  Def <- MCDef
  Pattern <- MCPattern
  ParamsIn <- MCParamsIn
  Template <- MCTemplate
  Type <- MCType
  Refused <- MCRefused
  MayPanic <- MCMayPanic
  Fields <- MCFields
  Unsupported <- MCUnsupported
  Id <- MCId
  Param <- MCParam
  Enums <- MCEnums
  ContentType = {"application/json"}
  Change <- MCChange
  Changed <- MCChanged
  Resource = {"shop"}
  Program = "Shop"
  None = None
INVARIANTS
  TypeOK
  ServedIsDocumented
  DocumentedAsServed
  InputDocumentedByMethod
  RefusedNotDocumented
  SpecFailsForCause
PROPERTIES
  SoundCallsServed
CHECK_DEADLOCK FALSE
