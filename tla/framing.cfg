SPECIFICATION Spec
CHECK_DEADLOCK FALSE
CONSTANTS
    Texts <- MCTexts
    NoText = NoText
    RecvSize = 8
    Pieces = {3, 5}
    MaxMessages = 2
INVARIANTS TypeOK RawNotShown
PROPERTIES ImplementsMessageChannel
