SPECIFICATION Spec
CONSTANTS
    MaxRuns = 3
    Cap = 1
    Archived = {1}
    NoSave = NoSave
INVARIANT TypeOK
INVARIANT LiveKept
INVARIANT LiveIsDriven
INVARIANT OrphansExplained
INVARIANT EntriesIntact
PROPERTY LedgerSpec
