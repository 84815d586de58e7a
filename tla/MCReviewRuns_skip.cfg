SPECIFICATION Spec
CONSTANTS
    c1 = c1
    c2 = c2
    s1 = s1
    Runs = {r1, r2}
    Changes = {c1}
    Stages = {s1}
    StageOf <- OneChange
    NoRun = NoRun
    NoChange = NoChange
    MaxTails = 1
    PatientClient = TRUE
PROPERTY SkipsOnlyLive
CHECK_DEADLOCK FALSE
