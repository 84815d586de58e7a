SPECIFICATION FairSpec
CONSTANTS
    MaxLearnings = 2
    Ids = {"a", "b"}
    IdOf <- TwoAlike
    Tasks = {c1, c2}
    c1 = c1
    c2 = c2
    MaxLate = 1
    Other = Other
    NoFile = NoFile
INVARIANT TypeOK
INVARIANT NoLearningLost
INVARIANT OwnMergeOnly
INVARIANT ClaimMatchesTask
PROPERTY StoreSpec
PROPERTY ClaimReleased
