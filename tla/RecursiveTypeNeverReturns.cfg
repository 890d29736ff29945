CONSTANTS
  Program = "Recursive"
  Type <- MCType
  Kind <- MCKind
  Elem <- MCElem
  Fields <- MCFields
  GoName <- MCGoName
  NoName = NoName
  Key <- MCKey
  Call <- MCCall
  MaxDepth = 9
  MaxModels = 8
  None = None

SPECIFICATION FairSpec
PROPERTY CallsReturn
CHECK_DEADLOCK FALSE
