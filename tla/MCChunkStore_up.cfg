\* One CPU: two chunks of one and two blocks in one bucket.
SPECIFICATION Spec
CONSTANTS
    i1 = i1
    i2 = i2
    i3 = i3
    i4 = i4
    k1 = k1
    k2 = k2
    NoItem = NoItem
    NoChunk = NoChunk
    NoBlock = NoBlock
    LostBlock = LostBlock
    NumCpus = 1
    NumBuckets = 1
    CT_LOCKARRAY_SIZE = 1
    Chunks = {k1, k2}
    Items = {i1, i2}
    BucketOf <- MCBucketOf
    ChunkLen <- MCChunkLen
    CHUNKSTEP = 2
    ITEM_CITE_ADD = 2
    ITEM_CITE_FIND = 2
    ITEM_DISK_LIMIT = 2
    ITEM_VIP_LIMIT = 4
    hash_max_count = 1
    bitmap_size = 3
    MaxRead = 1
    MaxRef = 5
    MinRef <- MCMinRef
    MaxFile = 4
    ShortWrite = TRUE
SYMMETRY Perms
INVARIANT FileHoldsChunk
INVARIANT WriterSafe
