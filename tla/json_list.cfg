SPECIFICATION Spec
CONSTANTS
    Items = {x, y, z}
    Null = Null
    Keys = {a, b, none}
    NoKey = none
    MaxIndex = 3
INVARIANTS
    TypeOK
    Linked
    OneOwner
PROPERTIES
    CallsReturn
    ImplementsSequence
