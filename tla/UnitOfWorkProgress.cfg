CONSTANTS
    u1 = u1
    u2 = u2
    book = book
    Nobody = Nobody
    Clients = {u1, u2}
    PoolSize = 2
    Actions = {book}
    Rejected <- NothingRejected
SPECIFICATION GrimSpec
INVARIANTS IInv CommittedByOne
PROPERTY UnitsEnd
CHECK_DEADLOCK FALSE
