CONSTANTS
  Program = "Shop"
  Type <- MCType
  Kind <- MCKind
  Elem <- MCElem
  Fields <- MCFields
  GoName <- MCGoName
  NoName = NoName
  Key <- MCKey
  Call <- MCCall
  MaxDepth = 8
  MaxModels = 20
  None = None

SPECIFICATION FairSpec
INVARIANT TypeOK
INVARIANT RefsResolve
INVARIANT RefsFaithful
INVARIANT NoComponentLost
INVARIANT OnlyWholeComponents
INVARIANT MapKeysChecked
PROPERTY ComponentsStable
PROPERTY ImplementsCatalogue
PROPERTY CallsReturn
CHECK_DEADLOCK FALSE
