SPECIFICATION Spec
CHECK_DEADLOCK FALSE
CONSTANTS
    k1 = k1
    Owner = owner
    Killers <- MCNoKiller
    MaxSet = 2
    MaxRuns = 2
PROPERTIES KillTimerKills
