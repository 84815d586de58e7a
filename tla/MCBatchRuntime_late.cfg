SPECIFICATION Spec
CONSTANTS
    Tasks = {t1, t2, t3}
    Workers = {w1}
    Width = 1
    MaxSpawns = 2
    MaxSends = 1
    LateSends = TRUE
INVARIANT RuntimeReclaimed
ACTION_CONSTRAINT ReadyFirst
CHECK_DEADLOCK FALSE
