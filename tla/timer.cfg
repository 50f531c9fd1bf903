SPECIFICATION Spec
CHECK_DEADLOCK FALSE
CONSTANTS
    k1 = k1
    Owner = owner
    Killers <- MCOneKiller
    MaxSet = 2
    MaxRuns = 3
INVARIANTS TypeOK OneActive OneShotRunsOnce KillLatency StuckOnlyByLateKill
PROPERTIES TimersEnd
