\* Two CPUs, two buckets under one lock, one item: liveness.
SPECIFICATION FairSpec
CONSTANTS
    i1 = i1
    i2 = i2
    i3 = i3
    i4 = i4
    k1 = k1
    k2 = k2
    NoItem = NoItem
    NoChunk = NoChunk
    NoBlock = NoBlock
    LostBlock = LostBlock
    NumCpus = 2
    NumBuckets = 2
    CT_LOCKARRAY_SIZE = 1
    Chunks = {k1}
    Items = {i1}
    BucketOf <- OneChunkBucket
    ChunkLen <- OneChunkLen
    CHUNKSTEP = 2
    ITEM_CITE_ADD = 2
    ITEM_CITE_FIND = 2
    ITEM_DISK_LIMIT = 2
    ITEM_VIP_LIMIT = 4
    hash_max_count = 0
    bitmap_size = 2
    MaxRead = 1
    MaxRef = 4
    MinRef <- MCMinRef
    MaxFile = 1
    ShortWrite = FALSE
PROPERTY ExitCompletes
PROPERTY ReadListDrains
PROPERTY ColdItemDeleted
