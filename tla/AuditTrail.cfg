CONSTANTS
    one = one
    two = two
    first = first
    second = second
    Events = {one, two}
    Rows = {first, second}
    MaxDepth = 2
    MaxSessions = 3
    MaxTime = 2
SPECIFICATION Spec
INVARIANTS
    TypeOK StoredIsAsserted ValidatedIsStored RecordedOnce
    SessionIsOpen DroppedIsGone ReuseIsSafe
PROPERTIES OneStampPerTransaction StampsLieInTheirUnit
SYMMETRY Symmetric
CHECK_DEADLOCK FALSE
CONSTRAINT NestedAreUnaltered
