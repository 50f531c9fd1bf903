SPECIFICATION Safety
CONSTANTS
    t1 = t1
    t2 = t2
    d1 = d1
    Nobody = Nobody
    Getters <- MCTwoGetters
    Deleters <- MCNoDeleter
    MaxMade = 2
    MaxDeletes = 1
INVARIANTS HandlesOwn
