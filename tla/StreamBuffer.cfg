CONSTANTS
    Bytes <- MCBytes
    MaxBytes = 5
SPECIFICATION RingSpec
INVARIANTS
    AllocationBounded
PROPERTY IsQueue
