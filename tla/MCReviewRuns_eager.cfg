SPECIFICATION Spec
CONSTANTS
    c1 = c1
    c2 = c2
    s1 = s1
    Runs = {r1, r2}
    Changes = {c1, c2}
    Stages = {s1}
    StageOf <- OneStage
    NoRun = NoRun
    NoChange = NoChange
    MaxTails = 2
    PatientClient = FALSE
INVARIANTS TypeOK ReviewKeepsClaims ClaimsHaveTask PostChecksHold CancelScoped
PROPERTY ClaimsLostToOwnTail
SYMMETRY RunSymmetry
CHECK_DEADLOCK FALSE
