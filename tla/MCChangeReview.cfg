SPECIFICATION Spec
CONSTANTS
    Runs = {r1, r2}
    NoRun = NoRun
    MaxLate = 1
    NoFile = NoFile
    Junk = Junk
INVARIANT TypeOK
INVARIANT OwnRecord
INVARIANT ConversationKnows
PROPERTY FindingsKept
SYMMETRY RunSymmetry
CHECK_DEADLOCK FALSE
