---------------------------- MODULE MCChunkStore ----------------------------
(* Small instances of ChunkStore for TLC. *)
EXTENDS ChunkStore, TLC

CONSTANTS i1, i2, i3, i4, k1, k2

\* One-bucket and two-bucket layouts; k2 takes two blocks on disk when CHUNKSTEP = 2.
MCBucketOf == k1 :> 0 @@ k2 :> (NumBuckets - 1)
MCChunkLen == k1 :> 2 @@ k2 :> 3
MCMinRef == -1
OneChunkBucket == k1 :> 0
UnitChunkLen == [ch \in Chunks |-> 1]
OneChunkLen == k1 :> 2

Perms == Permutations(Items)
=============================================================================
