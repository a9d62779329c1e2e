CONSTANTS
    u1 = u1
    u2 = u2
    book = book
    Nobody = Nobody
    Clients = {u1, u2}
    PoolSize = 1
    Actions = {book}
    Rejected <- NothingRejected
SPECIFICATION Spec
INVARIANT HeldIsCommitted
