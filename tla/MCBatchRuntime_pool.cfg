SPECIFICATION FairSpec
CONSTANTS
    Tasks = {t1, t2, t3}
    Workers = {w1}
    Width = 1
    MaxSpawns = 2
    MaxSends = 1
    LateSends = TRUE
INVARIANT TypeOK
PROPERTY LifeSpec
INVARIANT ReclaimedIfAwaited
INVARIANT HeldByBatch
PROPERTY BatchesEnd
PROPERTY Drains
CHECK_DEADLOCK FALSE
