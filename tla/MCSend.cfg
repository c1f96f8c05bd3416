\* A process and a softirq on one CPU, a process on another; two packets.
SPECIFICATION FairSpec
CONSTANTS
    a = a  b = b  s = s  c1 = c1  c2 = c2
    Cpus = {c1, c2}
    Contexts <- MCContexts
    Chunks = {a, b, s}
    Length <- MCLength
    Payloads <- MCPayloads
    NumItems = 3
    Buckets = {1, 2}
    BucketOf <- MCBucketOf
    TimerCpu <- MCTimerCpu
    hash_max_count = 0
    ITEM_CITE_ADD = 2
    ITEM_CITE_FIND = 1
    chunk_num = 2
    SHALEN = 2
    Wiped = Wiped
    None = None
    MaxPackets = 2
INVARIANT RefersToSent
INVARIANT ReplaceFits
INVARIANT CountExact
INVARIANT TeardownClean
PROPERTY CacheSpec
PROPERTY Forgets
