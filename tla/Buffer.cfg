\* Two readers behind a capacity of two, chunks of two, four records: the
\* log wraps into a second chunk and the writer has to wait.
SPECIFICATION Spec
CONSTANTS
    Readers = {a, b}
    Writer = w
    Capacity = 2
    ChunkSize = 2
    Total = 4
    Nil = Nil
CHECK_DEADLOCK FALSE
INVARIANTS TypeOK ReadIntact EndIsEnd StorageIsBounded
PROPERTIES EveryoneFinishes
