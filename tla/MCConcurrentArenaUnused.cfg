SPECIFICATION Spec
CONSTANTS
    Threads = {t1, t2}
    Nobody = Nobody
    NumShards = 2
    SlabSize = 32
    SliceSize = 4
    Sizes = {1, 18, 32}
    MaxAllocs = 4
INVARIANTS
    UnusedIsTheRest
CHECK_DEADLOCK FALSE
