SPECIFICATION Safety
CONSTANTS
    t1 = t1
    t2 = t2
    d1 = d1
    Nobody = Nobody
    Getters <- MCTwoGetters
    Deleters <- MCOneDeleter
    MaxMade = 6
    MaxDeletes = 2
INVARIANTS TypeOK OneInstance BoundedInstances
