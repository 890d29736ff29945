SPECIFICATION FairSpec
CONSTANTS
  Program = "Pairs"
  Type <- MCType
  Kind <- MCKind
  Own <- MCOwn
  Elem <- MCElem
  Fields <- MCFields
  FieldName <- MCFieldName
  Input <- MCInput
  MaxDepth = 9
  None = None
INVARIANTS
  TypeOK
  ParametersAddressInput
  IndirectInputDocumented
  RefusedForCause
PROPERTY
  FlatteningEnds
