SPECIFICATION DocFairSpec
CONSTANTS
  Type <- MCType
  Kind <- MCKind
  Elem <- MCElem
  Fields <- MCFields
  GoName <- MCGoName
  NoName = NoName
  Key <- MCKey
  Call <- MCCall
  MaxDepth = 6
  MaxModels = 20
  Registration <- MCRegistration
  Def <- MCDef
  Pattern <- MCPattern
  ParamsIn <- MCParamsIn
  Template <- MCTemplate
  QueryFields <- MCQueryFields
  Unsupported <- MCUnsupported
  Id <- MCId
  Param = {"level"}
  Enums = {"level"}
  ContentType = {"application/json"}
  Change <- MCChange
  Changed <- MCChanged
  Resource = {"shop"}
  None = None
INVARIANTS
  DocTypeOK
  ServedModelsRegistered
  DocumentComplete
  DocumentFaithful
PROPERTIES
  ExportIsRepeatable
  CallsAndSpecReturn
  ImplementsRouteTable
CHECK_DEADLOCK FALSE
