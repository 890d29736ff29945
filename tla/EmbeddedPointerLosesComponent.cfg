CONSTANTS
  Program = "EmbeddedPointer"
  Type <- MCType
  Kind <- MCKind
  Elem <- MCElem
  Fields <- MCFields
  GoName <- MCGoName
  NoName = NoName
  Key <- MCKey
  Call <- MCCall
  MaxDepth = 5
  MaxModels = 8
  None = None

SPECIFICATION Spec
INVARIANT NoComponentLost
CHECK_DEADLOCK FALSE
