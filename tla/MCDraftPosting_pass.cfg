SPECIFICATION Spec
CONSTANTS
    Runs = {r1, r2}
    Findings = {"f1", "f2"}
    Design = "design"
    Anchored = {"f1"}
    NoRun = NoRun
    Human = Human
    Selections <- Singly
    MaxPosts = 2
    MaxDrafts = 2
    MaxLate = 1
    Reports = {2}
    Rewrites <- ClaimAll
INVARIANTS TypeOK DeliveryProven EvidenceProven DraftAttribution ConfirmedComplete MarkerDecides
PROPERTY DeliverySpec
CHECK_DEADLOCK FALSE
SYMMETRY RunSymmetry
