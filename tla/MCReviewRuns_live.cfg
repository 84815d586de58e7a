SPECIFICATION FairSpec
CONSTANTS
    c1 = c1
    c2 = c2
    s1 = s1
    Runs = {r1, r2}
    Changes = {c1, c2}
    Stages = {s1}
    StageOf <- OneStage
    NoRun = NoRun
    NoChange = NoChange
    MaxTails = 1
    PatientClient = TRUE
INVARIANT StagingExclusive
PROPERTY LeaseSpec
PROPERTY ReviewsFinish
PROPERTY PostsFinish
PROPERTY ClaimsDrain
CHECK_DEADLOCK FALSE
