\* Three owners, each of which may fail and free what it never got, and two hashers; pools
\* may be in the course of being freed meanwhile.
\* Every owner has loaded and unloaded its module in the end, so the system may stop.
CHECK_DEADLOCK FALSE
SPECIFICATION Spec
CONSTANTS
    Owners = {o1, o2, o3}
    Hashers = {h1, h2}
    Pools = {q1, q2, q3}
    None = None
    Word = 16
SYMMETRY Perms
INVARIANT UsersCounted
INVARIANT PoolAlive
INVARIANT NoPoolLeaked
INVARIANT NeverAssignedTwice
PROPERTY RetryJustified
