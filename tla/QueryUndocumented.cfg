SPECIFICATION Spec
CONSTANTS
  Program = "DataIn"
  Type <- MCType
  Kind <- MCKind
  Own <- MCOwn
  Elem <- MCElem
  Fields <- MCFields
  FieldName <- MCFieldName
  Input <- MCInput
  MaxDepth = 9
  None = None
INVARIANT
  InputDocumented
