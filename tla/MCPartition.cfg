\* All payloads of up to 9 bytes; unsigned long has 6 bits, Q is 2^4, cuts have 1 zero bit.
SPECIFICATION Spec
CONSTANTS
    Bytes <- MCBytes
    MaxLen = 9
    chunk_num = 3
    CHUNKSTEP = 3
    R = 3
    Q = 16
    zero_num = 1
    Word = 64
    FifoSize = 2
    SHALEN = 0
INVARIANT CutsExact
INVARIANT Tiled
