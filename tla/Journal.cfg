SPECIFICATION JournalSpec
CONSTANTS
    RecordSizes = {1, 2}
    MaxBytes = 3
    SequenceBound = 3
INVARIANTS
    JournalTypeOK
    JournalBounded
    Numbered
PROPERTIES
    JournalIsLog
