SPECIFICATION Safety
CONSTANTS
    p1 = p1
    p2 = p2
    c1 = c1
    c2 = c2
    c3 = c3
    v1 = v1
    v2 = v2
    NoValue = NoValue
    Producers <- MCOneProducer
    Consumers <- MCTwoConsumers
    Values <- MCTwoValues
    MaxPush = 2
PROPERTIES ExitIgnoresPush
