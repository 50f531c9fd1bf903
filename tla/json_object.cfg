SPECIFICATION Spec
CONSTANTS
    Keys <- MCKeys
    Fold <- MCFold
    MaxKeys = 2
    MaxItems = 2
    MaxNodes = 7
INVARIANTS
    TypeOK
    KeyCacheRight
    IndexCacheRight
    KeysUnique
    TraversalInOrder
