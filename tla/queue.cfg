SPECIFICATION Spec
CONSTANTS
    p1 = p1
    p2 = p2
    c1 = c1
    c2 = c2
    c3 = c3
    v1 = v1
    v2 = v2
    NoValue = NoValue
    Producers <- MCTwoProducers
    Consumers <- MCThreeConsumers
    Values <- MCTwoValues
    MaxPush = 4
INVARIANTS TypeOK Fifo NoLostWakeup LateArrivals
PROPERTIES ImplementsClosableQueue
