CONSTANTS
    Users = {p1, p2, p3}
    MaxSharable = 2
SPECIFICATION FairLockerSpec
INVARIANTS LockerTypeOK Exclusion BooksBalance
PROPERTIES BookedWriterEnters ImplementsRWLock
