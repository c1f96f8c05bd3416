\* The three programs on all captures of up to MaxBytes bytes in packets of up to MaxLen bytes.
SPECIFICATION Spec
CONSTANTS
    Bytes = {0, 3}
    MaxLen = 7
    Payloads <- MCPayloads
    chunk_num = 2
    step = 2
    zero_num = 1
    R = 2
    Q = 16
    WINDOW = 2
    THRESHOLD = 2
    LEN = 2
    Slack = 2
    SHA = 2
    SHANUM = 2
    KEYNUM = 1
    UINT = 8
    MaxBytes = 8
    BUCKETS_LEN = 2
    DEFAULT_NUMBER_OF_BUCKETS = 1
    DEFAULT_EXPAND_RATE = 2
    NULL = NULL
INVARIANT RemainFits
INVARIANT Conserved
INVARIANT ChunksLong
INVARIANT SavedExact
INVARIANT MapFinds
INVARIANT NoDoubleCount
