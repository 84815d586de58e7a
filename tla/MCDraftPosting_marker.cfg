SPECIFICATION Spec
CONSTANTS
    Runs = {r1}
    Findings = {"f1", "f2"}
    Design = "design"
    Anchored = {"f1"}
    NoRun = NoRun
    Human = Human
    Selections <- Singly
    MaxPosts = 2
    MaxDrafts = 2
    MaxLate = 0
    Reports = {2}
    Rewrites <- ClaimAll
INVARIANT SelectionsConfirm
CHECK_DEADLOCK FALSE
