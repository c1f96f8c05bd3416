----------------------------- MODULE ChunkStore -----------------------------
(***************************************************************************)
(* The chunk cache of the kernel module wspack (model/kernel_hash): the    *)
(* hash table of chunks with its per-bucket reader/writer locks, the packet *)
(* handlers that look chunks up and add them, the per-bucket timers that   *)
(* age them, the workqueue that writes them to the per-CPU files and frees *)
(* their memory, the read path that loads them back, and the teardown.     *)
(*                                                                         *)
(* Threads.  Every CPU runs at most one packet handler (handle_skb, thread *)
(* kread_queue/c) and at most one file writer (wr_file, kwrite_queue/c).   *)
(* The timer of bucket b is armed on CPU b % num_online_cpus() and re-arms *)
(* itself from its own handler, so it and the work it queues stay there.   *)
(* A reader section (read_lock_bh) is split at its accesses to shared data *)
(* and may interleave with the other CPUs; it disables preemption and      *)
(* bottom halves, so nothing else runs on its own CPU meanwhile.  A writer *)
(* section (write_lock_bh) is one step.                                    *)
(*                                                                         *)
(* The order of a bucket's list is abstracted: a bucket is a set, a walk   *)
(* visits it in any order.  Statistics counters are left out.              *)
(*                                                                         *)
(* An operator X_Variant in front of X is X with a plausible defect; no    *)
(* specification uses it.  It exists to show which property notices it.    *)
(***************************************************************************)
EXTENDS Integers, FiniteSets, Sequences

CONSTANTS
    NumCpus,            \* num_online_cpus()
    NumBuckets,         \* hash_tab_size
    CT_LOCKARRAY_SIZE,  \* locks striped over the buckets
    Chunks,             \* chunk contents; SHA-1 is taken to be injective on them
    Items,              \* the hashinfo_item objects of the slab hash_cachep
    NoItem, NoChunk,    \* null pointers
    NoBlock,            \* a CHUNKSTEP block of a file that holds no chunk data
    LostBlock,          \* one that a short write has left out
    BucketOf,           \* HASH_FCN: chunk -> bucket
    ChunkLen,           \* chunk -> length in bytes
    CHUNKSTEP,
    ITEM_CITE_ADD, ITEM_CITE_FIND, ITEM_DISK_LIMIT, ITEM_VIP_LIMIT,
    hash_max_count,
    bitmap_size,        \* bits of one per-CPU bitmap
    MaxRead,            \* bound: read_skb entries of one handler
    MaxRef,             \* bound: a lookup that would exceed it is not taken
    MinRef,             \* bound: a timer run that would go below it is not taken
    MaxFile,            \* bound: no chunk is looked up once a file is this long
    ShortWrite          \* bound: whether kernel_write may write less than it was given

Cpus    == 0 .. NumCpus - 1
Buckets == 0 .. NumBuckets - 1
Slots   == 1 .. MaxRead

ASSUME SizeAssumption ==
    /\ NumCpus \in Nat \ {0} /\ NumBuckets \in Nat \ {0}
    /\ CT_LOCKARRAY_SIZE \in Nat \ {0} /\ CHUNKSTEP \in Nat \ {0}
    /\ hash_max_count \in Nat /\ bitmap_size \in Nat
    /\ MaxRead \in Nat \ {0} /\ MaxRef \in Int /\ MinRef \in Int /\ MaxFile \in Nat
ASSUME LimitAssumption ==
    /\ ITEM_CITE_ADD \in Nat /\ ITEM_CITE_FIND \in Nat
    /\ ITEM_DISK_LIMIT \in Nat /\ ITEM_VIP_LIMIT \in Nat
    /\ 1 < ITEM_DISK_LIMIT /\ ITEM_DISK_LIMIT <= ITEM_VIP_LIMIT
ASSUME ChunkAssumption ==
    /\ BucketOf \in [Chunks -> Buckets]
    /\ ChunkLen \in [Chunks -> Nat \ {0}]
    /\ NoItem \notin Items /\ NoChunk \notin Chunks
ASSUME ItemsAssumption == IsFiniteSet(Items)

VARIABLES
    item,          \* [Items -> struct hashinfo_item]
    slab,          \* items allocated from hash_cachep
    hash_tab,      \* [Buckets -> set of linked items]
    hash_count,
    hpc, hchunk, hitem, hslot,  \* the packet handler of each CPU
    rskb,          \* its list of struct read_skb, as slots holding an item
    wpc, wbkt, wtodo, witem,    \* the file writer of each CPU
    all_size,      \* bytes counted by pass 1, in blocks of CHUNKSTEP
    copy_mem,      \* what pass 2 copied, a sequence of blocks
    bitmap, bitmap_index,       \* per-CPU: set of set bits, next index
    file,          \* per-CPU file, a sequence of blocks; loff_file is its length
    pending,       \* buckets whose w_work is queued
    timers,        \* buckets whose timer is armed
    phase, idx,    \* progress of mexit / release_hash_table_cache
    panic          \* which BUG() was hit, if any

handlerVars == <<hpc, hchunk, hitem, hslot, rskb>>
writerVars  == <<wpc, wbkt, wtodo, witem, all_size, copy_mem>>
tableVars   == <<slab, hash_tab, hash_count>>
diskVars    == <<bitmap, bitmap_index, file>>
exitVars    == <<timers, phase, idx>>
vars == <<item, tableVars, handlerVars, writerVars, diskVars, pending, exitVars, panic>>

-----------------------------------------------------------------------------
(* struct hashinfo_item *)

\* What cp->data points to: nothing valid, the chunk's bytes, or other bytes.
DataState == {"none", "chunk", "garbage"}

ItemRec ==
    [sha1: Chunks \cup {NoChunk}, refcnt: Int, share_ref: Nat,
     mem_style: -1 .. 3, data: DataState, cpuid: {-2, -1} \cup Cpus,
     start: Nat, flag_cache: 0 .. 4, flag_mem: {0, 1}]

\* An object that is back in the slab.
FreeItem ==
    [sha1 |-> NoChunk, refcnt |-> 0, share_ref |-> 0, mem_style |-> -1,
     data |-> "none", cpuid |-> -1, start |-> 0, flag_cache |-> 0, flag_mem |-> 0]

\* The slab or kmalloc class that alloc_data_memory picks for a length.
MemStyle(len) ==
    IF len <= CHUNKSTEP THEN 1
    ELSE IF len <= CHUNKSTEP * 2 THEN 2
    ELSE IF len <= CHUNKSTEP * 3 THEN 3 ELSE 0

\* alloc_data_memory: a no-op when the item already has memory.
AllocData(r) ==
    IF r.mem_style >= 0 THEN r
    ELSE [r EXCEPT !.mem_style = MemStyle(ChunkLen[r.sha1]), !.data = "garbage"]

\* free_data_memory; CanFree is false where it prints "you can't arrive here" and BUGs.
CanFree(r)  == r.mem_style >= 0
FreeData(r) == [r EXCEPT !.mem_style = -1, !.data = "none"]

\* hash_new_item's initialisation of a new object.
NewItem(ch) ==
    [sha1 |-> ch, refcnt |-> ITEM_CITE_ADD, share_ref |-> 1,
     mem_style |-> MemStyle(ChunkLen[ch]), data |-> "chunk", cpuid |-> -1,
     start |-> 0, flag_cache |-> 0, flag_mem |-> 0]

\* Number of CHUNKSTEP blocks a chunk takes on disk.
Num(ch) ==
    IF ChunkLen[ch] <= CHUNKSTEP THEN 1
    ELSE (ChunkLen[ch] + CHUNKSTEP - 1) \div CHUNKSTEP

\* The bits an item owns in the bitmap of its file.
Extent(r) == r.start .. r.start + Num(r.sha1) - 1

\* The blocks that hold chunk ch, in order.
BlocksOf(ch) == [k \in 1 .. Num(ch) |-> <<ch, k>>]
Block == (Chunks \X (Nat \ {0})) \cup {NoBlock, LostBlock}

DiskBand(n) == n < ITEM_VIP_LIMIT /\ n >= ITEM_DISK_LIMIT

-----------------------------------------------------------------------------
(* Scheduling and locks *)

Home(b) == b % NumCpus
Lock(b) == b % CT_LOCKARRAY_SIZE

HandlerLocked(c) == hpc[c] \in {"pin", "flag"}
WriterLocked(c)  == wpc[c] \in {"sum", "recheck", "copy", "scan", "todisk", "free"}

\* A thread may step when no other thread of its CPU is inside a locked section.
HandlerRuns(c) == panic = "none" /\ ~WriterLocked(c)
WriterRuns_UntilExit(c) == panic = "none" /\ ~HandlerLocked(c) /\ phase = "run"
WriterRuns(c)  == panic = "none" /\ ~HandlerLocked(c)
SoftirqRuns(c) == panic = "none" /\ ~WriterLocked(c) /\ ~HandlerLocked(c)

\* write_lock_bh succeeds when no reader holds the bucket's lock.
Unlocked(b) ==
    \A c \in Cpus :
        /\ HandlerLocked(c) => Lock(BucketOf[hchunk[c]]) # Lock(b)
        /\ WriterLocked(c)  => Lock(wbkt[c]) # Lock(b)

-----------------------------------------------------------------------------
(* Packet handler: hand_hash for the chunks of a packet, then read_data *)

\* get_hash_item's walk: the lookup's refcnt update, or the end of a failed walk.
Matches_SkipsOld(r, ch) == r.sha1 = ch /\ r.refcnt > 1
Matches(r, ch) == r.sha1 = ch

GetHashItem(c, ch) ==
    /\ HandlerRuns(c) /\ phase = "run"
    /\ hpc[c] = "idle"
    /\ \E k \in Slots : rskb[c][k] = NoItem
    /\ \A d \in Cpus : Len(file[d]) < MaxFile
    /\ hchunk' = [hchunk EXCEPT ![c] = ch]
    /\ \/ \E i \in hash_tab[BucketOf[ch]] :
            /\ Matches(item[i], ch)
            /\ item[i].refcnt + ITEM_CITE_FIND <= MaxRef
            /\ item' = [item EXCEPT ![i].refcnt = @ + ITEM_CITE_FIND]
            /\ hitem' = [hitem EXCEPT ![c] = i]
            /\ hpc' = [hpc EXCEPT ![c] = "pin"]
       \/ /\ \A i \in hash_tab[BucketOf[ch]] : ~Matches(item[i], ch)
          /\ hpc' = [hpc EXCEPT ![c] = "check"]
          /\ UNCHANGED <<item, hitem>>
    /\ UNCHANGED <<tableVars, hslot, rskb, writerVars, diskVars, pending, exitVars, panic>>

\* atomic_inc(&cp->share_ref) inside get_hash_item.
PinItem(c) ==
    /\ HandlerRuns(c)
    /\ hpc[c] = "pin"
    /\ item' = [item EXCEPT ![hitem[c]].share_ref = @ + 1]
    /\ hpc' = [hpc EXCEPT ![c] = "flag"]
    /\ UNCHANGED <<tableVars, hchunk, hitem, hslot, rskb, writerVars, diskVars,
                   pending, exitVars, panic>>

\* flag_cache 1 becomes 4, then the read lock is released.
HitFlag(f) == IF f = 1 THEN 4 ELSE f

MarkRead(c) ==
    /\ HandlerRuns(c)
    /\ hpc[c] = "flag"
    /\ item' = [item EXCEPT ![hitem[c]].flag_cache = HitFlag(@)]
    /\ hpc' = [hpc EXCEPT ![c] = "hand"]
    /\ UNCHANGED <<tableVars, hchunk, hitem, hslot, rskb, writerVars, diskVars,
                   pending, exitVars, panic>>

\* atomic_dec(&item->share_ref).
PutRef_Missing(r) == r
PutRef(r) == [r EXCEPT !.share_ref = @ - 1]

\* hand_hash after a hit: drop the reference, or put the item on the read list.
HandHash(c) ==
    /\ HandlerRuns(c)
    /\ hpc[c] = "hand"
    /\ LET i == hitem[c] IN
       \/ /\ item[i].flag_cache # 4
          /\ item' = [item EXCEPT ![i] = PutRef(@)]
          /\ UNCHANGED rskb
       \/ /\ item[i].flag_cache = 4
          /\ \E k \in Slots :
                /\ rskb[c][k] = NoItem
                /\ rskb' = [rskb EXCEPT ![c][k] = i]
          /\ UNCHANGED item
    /\ hpc' = [hpc EXCEPT ![c] = "idle"]
    /\ hitem' = [hitem EXCEPT ![c] = NoItem]
    /\ hchunk' = [hchunk EXCEPT ![c] = NoChunk]
    /\ UNCHANGED <<tableVars, hslot, writerVars, diskVars, pending, exitVars, panic>>

\* hash_new_item: the limit is checked against a value read once.
AtLimit == hash_count > hash_max_count

AddCheck(c) ==
    /\ HandlerRuns(c)
    /\ hpc[c] = "check"
    /\ \/ /\ AtLimit
          /\ hpc' = [hpc EXCEPT ![c] = "idle"]
          /\ hchunk' = [hchunk EXCEPT ![c] = NoChunk]
       \/ /\ ~AtLimit
          /\ hpc' = [hpc EXCEPT ![c] = "alloc"]
          /\ UNCHANGED hchunk
    /\ UNCHANGED <<item, tableVars, hitem, hslot, rskb, writerVars, diskVars,
                   pending, exitVars, panic>>

\* kmem_cache_zalloc, the initialisation of the item and atomic_inc(&hash_count); when
\* there is no memory, which may be at any time, hash_new_item returns NULL.
AddAlloc(c) ==
    /\ HandlerRuns(c)
    /\ hpc[c] = "alloc"
    /\ \/ \E i \in Items \ slab :
            /\ item' = [item EXCEPT ![i] = NewItem(hchunk[c])]
            /\ slab' = slab \cup {i}
            /\ hash_count' = hash_count + 1
            /\ hitem' = [hitem EXCEPT ![c] = i]
            /\ hpc' = [hpc EXCEPT ![c] = "link"]
            /\ UNCHANGED hchunk
       \/ /\ hpc' = [hpc EXCEPT ![c] = "idle"]
          /\ hchunk' = [hchunk EXCEPT ![c] = NoChunk]
          /\ UNCHANGED <<item, slab, hash_count, hitem>>
    /\ UNCHANGED <<hash_tab, hslot, rskb, writerVars, diskVars, pending, exitVars, panic>>

\* _hash: link the item under the bucket's write lock.
AddLink(c) ==
    /\ HandlerRuns(c)
    /\ hpc[c] = "link"
    /\ LET b == BucketOf[hchunk[c]] IN
       /\ Unlocked(b)
       /\ hash_tab' = [hash_tab EXCEPT ![b] = @ \cup {hitem[c]}]
    /\ hpc' = [hpc EXCEPT ![c] = "idle"]
    /\ hitem' = [hitem EXCEPT ![c] = NoItem]
    /\ hchunk' = [hchunk EXCEPT ![c] = NoChunk]
    /\ UNCHANGED <<item, slab, hash_count, hslot, rskb, writerVars, diskVars,
                   pending, exitVars, panic>>

\* read_data: take the next entry; allocate memory unless flag_mem says it is loaded.
ReadNext(c) ==
    /\ HandlerRuns(c)
    /\ hpc[c] \in {"idle", "read"}
    /\ \E k \in Slots :
        /\ rskb[c][k] # NoItem
        /\ hslot' = [hslot EXCEPT ![c] = k]
        /\ LET i == rskb[c][k] IN
           \/ /\ item[i].flag_mem = 0
              /\ item' = [item EXCEPT ![i] = AllocData(@)]
              /\ hpc' = [hpc EXCEPT ![c] = "copyin"]
           \/ /\ item[i].flag_mem # 0
              /\ hpc' = [hpc EXCEPT ![c] = "unpin"]
              /\ UNCHANGED item
    /\ UNCHANGED <<tableVars, hchunk, hitem, rskb, writerVars, diskVars,
                   pending, exitVars, panic>>

\* What kernel_read returns for the item's place in its file, short at the end.
OnFile(r) ==
    \A k \in 1 .. Num(r.sha1) :
        r.start + k <= Len(file[r.cpuid]) /\ file[r.cpuid][r.start + k] = <<r.sha1, k>>

\* kernel_read into the item's memory, then flag_mem is set.  A copy into memory
\* that was freed meanwhile leaves the item without valid data.
CopyIn(c) ==
    /\ HandlerRuns(c)
    /\ hpc[c] = "copyin"
    /\ LET i == rskb[c][hslot[c]]
           got == IF OnFile(item[i]) THEN "chunk" ELSE "garbage"
       IN item' = [item EXCEPT ![i].data = IF item[i].mem_style >= 0 THEN got ELSE @,
                               ![i].flag_mem = 1]
    /\ hpc' = [hpc EXCEPT ![c] = "unpin"]
    /\ UNCHANGED <<tableVars, hchunk, hitem, hslot, rskb, writerVars, diskVars,
                   pending, exitVars, panic>>

\* The entry leaves the list and its reference is dropped.
Unpin_Skipped(c) ==
    /\ HandlerRuns(c)
    /\ hpc[c] = "unpin"
    /\ hpc' = [hpc EXCEPT ![c] = "read"]
    /\ hslot' = [hslot EXCEPT ![c] = 0]
    /\ UNCHANGED <<item, tableVars, hchunk, hitem, rskb, writerVars, diskVars, pending,
                   exitVars, panic>>
Unpin(c) ==
    /\ HandlerRuns(c)
    /\ hpc[c] = "unpin"
    /\ LET k == hslot[c] IN
       /\ item' = [item EXCEPT ![rskb[c][k]] = PutRef(@)]
       /\ rskb' = [rskb EXCEPT ![c][k] = NoItem]
       /\ hpc' = [hpc EXCEPT ![c] =
                    IF \A j \in Slots \ {k} : rskb[c][j] = NoItem THEN "idle" ELSE "read"]
    /\ hslot' = [hslot EXCEPT ![c] = 0]
    /\ UNCHANGED <<tableVars, hchunk, hitem, writerVars, diskVars, pending, exitVars, panic>>

-----------------------------------------------------------------------------
(* File writer: wr_file for one bucket *)

\* run_workqueue clears the pending bit and calls wr_file, which takes the read lock.
WrStart(c) ==
    /\ WriterRuns(c)
    /\ wpc[c] = "idle"
    /\ \E b \in pending :
        /\ Home(b) = c
        /\ pending' = pending \ {b}
        /\ wbkt' = [wbkt EXCEPT ![c] = b]
        /\ wtodo' = [wtodo EXCEPT ![c] = hash_tab[b]]
    /\ wpc' = [wpc EXCEPT ![c] = "sum"]
    /\ UNCHANGED <<item, tableVars, handlerVars, witem, all_size, copy_mem, diskVars,
                   exitVars, panic>>

\* Pass 1 counts an item that is to be written, and marks it with cpuid -2.
ToWrite_Again(r) == DiskBand(r.refcnt) /\ r.flag_cache = 2 /\ r.share_ref = 1
ToWrite(r) ==
    DiskBand(r.refcnt) /\ r.flag_cache = 2 /\ r.cpuid = -1 /\ r.share_ref = 1

WrSum_OneBlock(c) ==
    /\ WriterRuns(c)
    /\ wpc[c] = "sum"
    /\ \E i \in wtodo[c] :
        /\ wtodo' = [wtodo EXCEPT ![c] = @ \ {i}]
        /\ \/ /\ ToWrite(item[i])
              /\ all_size' = [all_size EXCEPT ![c] = @ + 1]
              /\ item' = [item EXCEPT ![i].cpuid = -2]
           \/ /\ ~ToWrite(item[i])
              /\ UNCHANGED <<all_size, item>>
    /\ UNCHANGED <<tableVars, handlerVars, wpc, wbkt, witem, copy_mem, diskVars,
                   pending, exitVars, panic>>
WrSum(c) ==
    /\ WriterRuns(c)
    /\ wpc[c] = "sum"
    /\ \E i \in wtodo[c] :
        /\ wtodo' = [wtodo EXCEPT ![c] = @ \ {i}]
        /\ \/ /\ ToWrite(item[i])
              /\ all_size' = [all_size EXCEPT ![c] = @ + Num(item[i].sha1)]
              /\ item' = [item EXCEPT ![i].cpuid = -2]
           \/ /\ ~ToWrite(item[i])
              /\ UNCHANGED <<all_size, item>>
    /\ UNCHANGED <<tableVars, handlerVars, wpc, wbkt, witem, copy_mem, diskVars,
                   pending, exitVars, panic>>

\* Nothing to write: unlock and return.  Otherwise pass 2 walks the bucket again.
WrSumEnd(c) ==
    /\ WriterRuns(c)
    /\ wpc[c] = "sum" /\ wtodo[c] = {}
    /\ \/ /\ all_size[c] = 0
          /\ wpc' = [wpc EXCEPT ![c] = "idle"]
          /\ wbkt' = [wbkt EXCEPT ![c] = 0]
          /\ UNCHANGED wtodo
       \/ /\ all_size[c] # 0
          /\ wpc' = [wpc EXCEPT ![c] = "recheck"]
          /\ wtodo' = [wtodo EXCEPT ![c] = hash_tab[wbkt[c]]]
          /\ UNCHANGED wbkt
    /\ UNCHANGED <<item, tableVars, handlerVars, witem, all_size, copy_mem, diskVars,
                   pending, exitVars, panic>>

\* Pass 2, first test: a marked item that is referenced again is not written.
Referenced(r) == r.cpuid = -2 /\ r.flag_cache = 2 /\ r.share_ref > 1

WrRecheck(c) ==
    /\ WriterRuns(c)
    /\ wpc[c] = "recheck"
    /\ \E i \in wtodo[c] :
        \/ /\ Referenced(item[i])
           /\ item' = [item EXCEPT ![i].cpuid = -1]
           /\ wtodo' = [wtodo EXCEPT ![c] = @ \ {i}]
           /\ UNCHANGED <<wpc, witem>>
        \/ /\ ~Referenced(item[i])
           /\ wpc' = [wpc EXCEPT ![c] = "copy"]
           /\ witem' = [witem EXCEPT ![c] = i]
           /\ UNCHANGED <<item, wtodo>>
    /\ UNCHANGED <<tableVars, handlerVars, wbkt, all_size, copy_mem, diskVars,
                   pending, exitVars, panic>>

\* bitmap_find_next_zero_area: the first run of n zero bits at or after index.
ZeroAreas_FromZero(c, n) ==
    {x \in 0 .. bitmap_size - n : \A y \in x .. x + n - 1 : y \notin bitmap[c]}
ZeroAreas(c, n) ==
    {x \in bitmap_index[c] .. bitmap_size - n : \A y \in x .. x + n - 1 : y \notin bitmap[c]}
FindArea(c, n) == CHOOSE x \in ZeroAreas(c, n) : \A y \in ZeroAreas(c, n) : x <= y

\* Pass 2, second test: allocate bits and copy the data, or skip the item.
ToCopy(r) ==
    DiskBand(r.refcnt) /\ r.cpuid = -2 /\ r.flag_cache = 2 /\ r.share_ref = 1

CopiedBlocks(r) ==
    IF r.data = "chunk" THEN BlocksOf(r.sha1) ELSE [k \in 1 .. Num(r.sha1) |-> NoBlock]

WrCopy(c) ==
    /\ WriterRuns(c)
    /\ wpc[c] = "copy"
    /\ LET i == witem[c]
           n == Num(item[i].sha1)
           x == FindArea(c, n)
       IN
       \/ /\ ToCopy(item[i]) /\ ZeroAreas(c, n) # {}
          /\ item' = [item EXCEPT ![i].start = x, ![i].cpuid = c]
          /\ bitmap' = [bitmap EXCEPT ![c] = @ \cup (x .. x + n - 1)]
          /\ bitmap_index' = [bitmap_index EXCEPT ![c] = @ + n]
          /\ copy_mem' = [copy_mem EXCEPT ![c] = @ \o CopiedBlocks(item[i])]
          /\ UNCHANGED panic
       \/ /\ ToCopy(item[i]) /\ ZeroAreas(c, n) = {}
          /\ panic' = "bitmap full"
          /\ UNCHANGED <<item, bitmap, bitmap_index, copy_mem>>
       \/ /\ ~ToCopy(item[i])
          /\ UNCHANGED <<item, bitmap, bitmap_index, copy_mem, panic>>
    /\ wpc' = [wpc EXCEPT ![c] = "recheck"]
    /\ wtodo' = [wtodo EXCEPT ![c] = @ \ {witem[c]}]
    /\ witem' = [witem EXCEPT ![c] = NoItem]
    /\ UNCHANGED <<tableVars, handlerVars, wbkt, all_size, file, pending, exitVars>>

\* End of pass 2: unlock.
WrCopyEnd(c) ==
    /\ WriterRuns(c)
    /\ wpc[c] = "recheck" /\ wtodo[c] = {}
    /\ wpc' = [wpc EXCEPT ![c] = "write"]
    /\ UNCHANGED <<item, tableVars, handlerVars, wbkt, wtodo, witem, all_size, copy_mem,
                   diskVars, pending, exitVars, panic>>

\* kernel_write of all_size bytes at loff_file; copy_mem was zeroed when allocated.  The
\* number of blocks it wrote is not looked at: loff_file advances by all_size.
Written(c, n) ==
    [k \in 1 .. all_size[c] |->
        IF k > n THEN LostBlock ELSE IF k <= Len(copy_mem[c]) THEN copy_mem[c][k] ELSE NoBlock]
WrWrite(c) ==
    /\ WriterRuns(c)
    /\ wpc[c] = "write"
    /\ \E n \in 0 .. all_size[c] :
        /\ n < all_size[c] => ShortWrite
        /\ file' = [file EXCEPT ![c] = @ \o Written(c, n)]
    /\ all_size' = [all_size EXCEPT ![c] = 0]
    /\ copy_mem' = [copy_mem EXCEPT ![c] = << >>]
    /\ wpc' = [wpc EXCEPT ![c] = "relock"]
    /\ UNCHANGED <<item, tableVars, handlerVars, wbkt, wtodo, witem, bitmap, bitmap_index,
                   pending, exitVars, panic>>

\* kernel_write returns an error.
WrError(c) ==
    /\ WriterRuns(c)
    /\ wpc[c] = "write"
    /\ panic' = "write failed"
    /\ UNCHANGED <<item, tableVars, handlerVars, writerVars, diskVars, pending, exitVars>>

\* The read lock is taken again for pass 3.
WrRelock(c) ==
    /\ WriterRuns(c)
    /\ wpc[c] = "relock"
    /\ wpc' = [wpc EXCEPT ![c] = "scan"]
    /\ wtodo' = [wtodo EXCEPT ![c] = hash_tab[wbkt[c]]]
    /\ UNCHANGED <<item, tableVars, handlerVars, wbkt, witem, all_size, copy_mem, diskVars,
                   pending, exitVars, panic>>

\* Pass 3 tests whether the item was written and nobody references it ...
ToEvict(r) == r.flag_cache = 2 /\ r.share_ref = 1 /\ r.cpuid >= 0

WrScan(c) ==
    /\ WriterRuns(c)
    /\ wpc[c] = "scan"
    /\ \E i \in wtodo[c] :
        \/ /\ ToEvict(item[i])
           /\ wpc' = [wpc EXCEPT ![c] = "todisk"]
           /\ witem' = [witem EXCEPT ![c] = i]
           /\ UNCHANGED wtodo
        \/ /\ ~ToEvict(item[i])
           /\ wtodo' = [wtodo EXCEPT ![c] = @ \ {i}]
           /\ UNCHANGED <<wpc, witem>>
    /\ UNCHANGED <<item, tableVars, handlerVars, wbkt, all_size, copy_mem, diskVars,
                   pending, exitVars, panic>>

\* ... sets flag_cache to 1 ...
WrToDisk(c) ==
    /\ WriterRuns(c)
    /\ wpc[c] = "todisk"
    /\ item' = [item EXCEPT ![witem[c]].flag_cache = 1]
    /\ wpc' = [wpc EXCEPT ![c] = "free"]
    /\ UNCHANGED <<tableVars, handlerVars, wbkt, wtodo, witem, all_size, copy_mem, diskVars,
                   pending, exitVars, panic>>

\* ... and frees the memory.
WrFree(c) ==
    /\ WriterRuns(c)
    /\ wpc[c] = "free"
    /\ IF CanFree(item[witem[c]])
       THEN item' = [item EXCEPT ![witem[c]] = FreeData(@)] /\ UNCHANGED panic
       ELSE panic' = "cannot arrive here" /\ UNCHANGED item
    /\ wpc' = [wpc EXCEPT ![c] = "scan"]
    /\ wtodo' = [wtodo EXCEPT ![c] = @ \ {witem[c]}]
    /\ witem' = [witem EXCEPT ![c] = NoItem]
    /\ UNCHANGED <<tableVars, handlerVars, wbkt, all_size, copy_mem, diskVars,
                   pending, exitVars>>

WrEnd(c) ==
    /\ WriterRuns(c)
    /\ wpc[c] = "scan" /\ wtodo[c] = {}
    /\ wpc' = [wpc EXCEPT ![c] = "idle"]
    /\ wbkt' = [wbkt EXCEPT ![c] = 0]
    /\ UNCHANGED <<item, tableVars, handlerVars, wtodo, witem, all_size, copy_mem,
                   diskVars, pending, exitVars, panic>>

-----------------------------------------------------------------------------
(* Bucket timer: bucket_clear_item *)

Expired_Referenced(r) == r.refcnt <= 1
Expired_Exactly(r) == r.share_ref = 1 /\ r.refcnt = 1
Expired(r) == r.share_ref = 1 /\ r.refcnt <= 1

\* States in which a deleted item's memory is freed, and its bits are cleared.
FreesMemory(r) == r.flag_cache \in {0, 2, 3, 4}
FreesBits_OnDiskOnly(r) == r.flag_cache \in {1, 4}
FreesBits(r) ==
    \/ r.flag_cache = 1
    \/ r.flag_cache = 2 /\ r.cpuid >= 0
    \/ r.flag_cache = 4

\* The state machine, for the decremented reference count n.
NextFlag(r, n) ==
    IF n >= ITEM_VIP_LIMIT /\ (r.flag_cache = 0 \/ (r.flag_cache = 2 /\ r.cpuid < 0)) THEN 3
    ELSE IF DiskBand(n) /\ r.flag_cache = 0 THEN 2
    ELSE r.flag_cache
Aged(r) == [r EXCEPT !.refcnt = @ - 1, !.flag_cache = NextFlag(r, r.refcnt - 1)]

\* The bits of the deleted items D in the bitmap of CPU c.
ClearedBits(D, c) ==
    UNION {Extent(item[i]) : i \in {j \in D : FreesBits(item[j]) /\ item[j].cpuid = c}}

BucketClear(b) ==
    /\ SoftirqRuns(Home(b)) /\ Unlocked(b)
    /\ b \in timers
    /\ LET dead == {i \in hash_tab[b] : Expired(item[i])}
           kept == hash_tab[b] \ dead
       IN
       /\ \A i \in kept : item[i].refcnt > MinRef
       /\ IF \E i \in dead : FreesMemory(item[i]) /\ ~CanFree(item[i])
          THEN /\ panic' = "cannot arrive here"
               /\ UNCHANGED <<item, tableVars, bitmap, pending>>
          ELSE /\ item' = [i \in Items |-> IF i \in dead THEN FreeItem
                                           ELSE IF i \in kept THEN Aged(item[i])
                                           ELSE item[i]]
               /\ hash_tab' = [hash_tab EXCEPT ![b] = kept]
               /\ slab' = slab \ dead
               /\ hash_count' = hash_count - Cardinality(dead)
               /\ bitmap' = [c \in Cpus |-> bitmap[c] \ ClearedBits(dead, c)]
               /\ pending' = IF \E i \in kept : DiskBand(item[i].refcnt - 1)
                             THEN pending \cup {b} ELSE pending
               /\ UNCHANGED panic
    /\ UNCHANGED <<handlerVars, writerVars, bitmap_index, file, exitVars>>

-----------------------------------------------------------------------------
(* Teardown: the part of mexit that follows destroy_workqueue(skb_wq) *)

\* The hooks are gone and the handlers have drained (clear_remainder_skb).
HandlersDone_NotAwaited == TRUE
HandlersDone == \A c \in Cpus : hpc[c] = "idle" /\ \A k \in Slots : rskb[c][k] = NoItem
BeginExit ==
    /\ panic = "none"
    /\ phase = "run"
    /\ HandlersDone
    /\ phase' = "flush"
    /\ UNCHANGED <<item, tableVars, handlerVars, writerVars, diskVars, pending, timers, idx, panic>>

\* hash_flush deletes the items of one bucket after the other; bits are not cleared.
FlushBucket ==
    /\ panic = "none"
    /\ phase = "flush" /\ idx < NumBuckets
    /\ Unlocked(idx)
    /\ LET dead == hash_tab[idx] IN
       IF \E i \in dead : FreesMemory(item[i]) /\ ~CanFree(item[i])
       THEN /\ panic' = "cannot arrive here"
            /\ UNCHANGED <<item, tableVars, phase, idx>>
       ELSE /\ item' = [i \in Items |-> IF i \in dead THEN FreeItem ELSE item[i]]
            /\ hash_tab' = [hash_tab EXCEPT ![idx] = {}]
            /\ slab' = slab \ dead
            /\ hash_count' = hash_count - Cardinality(dead)
            /\ IF idx + 1 < NumBuckets THEN idx' = idx + 1 /\ UNCHANGED phase
               ELSE idx' = 0 /\ phase' = "timers"
            /\ UNCHANGED panic
    /\ UNCHANGED <<handlerVars, writerVars, diskVars, pending, timers>>

\* del_timer_sync for one bucket after the other.
DelTimer ==
    /\ panic = "none"
    /\ phase = "timers"
    /\ timers' = timers \ {idx}
    /\ IF idx + 1 < NumBuckets THEN idx' = idx + 1 /\ UNCHANGED phase
       ELSE idx' = 0 /\ phase' = "drain"
    /\ UNCHANGED <<item, tableVars, handlerVars, writerVars, diskVars, pending, panic>>

\* flush_workqueue returns; the workqueue, the slab and the table are destroyed.
WritersDone == pending = {} /\ \A c \in Cpus : wpc[c] = "idle"
Destroy ==
    /\ panic = "none"
    /\ phase = "drain"
    /\ WritersDone
    /\ phase' = "done"
    /\ UNCHANGED <<item, tableVars, handlerVars, writerVars, diskVars, pending, timers, idx, panic>>

\* The module is unloaded, or a BUG() stopped the machine.
Stopped ==
    /\ phase = "done" \/ panic # "none"
    /\ UNCHANGED vars

-----------------------------------------------------------------------------
Init ==
    /\ item = [i \in Items |-> FreeItem]
    /\ slab = {} /\ hash_tab = [b \in Buckets |-> {}] /\ hash_count = 0
    /\ hpc = [c \in Cpus |-> "idle"] /\ hchunk = [c \in Cpus |-> NoChunk]
    /\ hitem = [c \in Cpus |-> NoItem] /\ hslot = [c \in Cpus |-> 0]
    /\ rskb = [c \in Cpus |-> [k \in Slots |-> NoItem]]
    /\ wpc = [c \in Cpus |-> "idle"] /\ wbkt = [c \in Cpus |-> 0]
    /\ wtodo = [c \in Cpus |-> {}] /\ witem = [c \in Cpus |-> NoItem]
    /\ all_size = [c \in Cpus |-> 0] /\ copy_mem = [c \in Cpus |-> << >>]
    /\ bitmap = [c \in Cpus |-> {}] /\ bitmap_index = [c \in Cpus |-> 0]
    /\ file = [c \in Cpus |-> << >>]
    /\ pending = {} /\ timers = Buckets
    /\ phase = "run" /\ idx = 0 /\ panic = "none"

Handler(c) ==
    \/ \E ch \in Chunks : GetHashItem(c, ch)
    \/ PinItem(c) \/ MarkRead(c) \/ HandHash(c)
    \/ AddCheck(c) \/ AddAlloc(c) \/ AddLink(c)
    \/ ReadNext(c) \/ CopyIn(c) \/ Unpin(c)

Writer(c) ==
    \/ WrStart(c) \/ WrSum(c) \/ WrSumEnd(c)
    \/ WrRecheck(c) \/ WrCopy(c) \/ WrCopyEnd(c)
    \/ WrWrite(c) \/ WrError(c)
    \/ WrRelock(c) \/ WrScan(c) \/ WrToDisk(c) \/ WrFree(c) \/ WrEnd(c)

Teardown == BeginExit \/ FlushBucket \/ DelTimer \/ Destroy

Next ==
    \/ \E c \in Cpus : Handler(c) \/ Writer(c)
    \/ \E b \in Buckets : BucketClear(b)
    \/ Teardown
    \/ Stopped

Spec == Init /\ [][Next]_vars

\* What a thread does once it has begun: everything but taking up a new chunk.
HandlerStep(c) ==
    \/ PinItem(c) \/ MarkRead(c) \/ HandHash(c)
    \/ AddCheck(c) \/ AddAlloc(c) \/ AddLink(c) \/ CopyIn(c) \/ Unpin(c)

\* The scheduler runs every runnable thread again and again, timers expire, a packet
\* has finitely many chunks, and a lock that is released again and again is obtained.
\* Nobody is obliged to unload the module.
Fairness ==
    /\ \A c \in Cpus : SF_vars(HandlerStep(c)) /\ SF_vars(ReadNext(c)) /\ SF_vars(Writer(c))
    /\ \A b \in Buckets : SF_vars(BucketClear(b))
    /\ SF_vars(FlushBucket) /\ WF_vars(DelTimer) /\ WF_vars(Destroy)

FairSpec == Spec /\ Fairness

-----------------------------------------------------------------------------
(* Properties *)

HandlerPc ==
    {"idle", "pin", "flag", "hand", "check", "alloc", "link", "read", "copyin", "unpin"}
WriterPc ==
    {"idle", "sum", "recheck", "copy", "write", "relock", "scan", "todisk", "free"}
PanicState == {"none", "bitmap full", "cannot arrive here", "write failed"}

\* Every variable keeps its type; an item's fields stay in the ranges that
\* struct hashinfo_item documents, and share_ref never goes below zero.
TypeOK ==
    /\ item \in [Items -> ItemRec] /\ slab \in SUBSET Items
    /\ hash_tab \in [Buckets -> SUBSET Items] /\ hash_count \in Int
    /\ hpc \in [Cpus -> HandlerPc]
    /\ hchunk \in [Cpus -> Chunks \cup {NoChunk}] /\ hitem \in [Cpus -> Items \cup {NoItem}]
    /\ hslot \in [Cpus -> Slots \cup {0}]
    /\ rskb \in [Cpus -> [Slots -> Items \cup {NoItem}]]
    /\ wpc \in [Cpus -> WriterPc]
    /\ wbkt \in [Cpus -> Buckets] /\ wtodo \in [Cpus -> SUBSET Items]
    /\ witem \in [Cpus -> Items \cup {NoItem}]
    /\ all_size \in [Cpus -> Nat] /\ copy_mem \in [Cpus -> Seq(Block)]
    /\ bitmap \in [Cpus -> SUBSET Nat] /\ bitmap_index \in [Cpus -> Nat]
    /\ file \in [Cpus -> Seq(Block)]
    /\ pending \in SUBSET Buckets /\ timers \in SUBSET Buckets
    /\ phase \in {"run", "flush", "timers", "drain", "done"} /\ idx \in Buckets
    /\ panic \in PanicState

\* Reference k of handler c is to item i: reference 0 is held from get_hash_item's
\* atomic_inc to hand_hash's decision, the others are entries of the read list.
Holds(c, k, i) ==
    IF k = 0 THEN hpc[c] \in {"flag", "hand"} /\ hitem[c] = i ELSE rskb[c][k] = i
Pins(i) == {e \in Cpus \X (0 .. MaxRead) : Holds(e[1], e[2], i)}

\* No handler, read list entry or writer ever holds an item that was given back to
\* the slab: bucket_clear_item frees an item only under the write lock and when
\* share_ref shows no reference.
NoUseAfterFree ==
    /\ \A c \in Cpus :
        /\ hitem[c] # NoItem => hitem[c] \in slab
        /\ \A k \in Slots : rskb[c][k] # NoItem => rskb[c][k] \in slab
        /\ WriterLocked(c) => wtodo[c] \subseteq slab
        /\ witem[c] # NoItem => witem[c] \in slab
    /\ \A b \in Buckets : hash_tab[b] \subseteq slab

\* share_ref counts the table's reference and every reference held by code: it is
\* neither lost nor dropped twice, whatever the order of lookups and reads.
PinsCounted == \A i \in slab : item[i].share_ref = 1 + Cardinality(Pins(i))

\* The inductive invariant behind NoUseAfterFree and PinsCounted.

\* A handler's item is linked while the read lock protects it, counted while share_ref
\* protects it, and known to nobody else while it is being added.
HandlerOK(c) ==
    /\ hpc[c] \in {"pin", "flag", "hand", "check", "alloc", "link"} => hchunk[c] \in Chunks
    /\ hpc[c] = "pin" => hitem[c] \in hash_tab[BucketOf[hchunk[c]]]
    /\ hpc[c] \in {"flag", "hand", "link"} => hitem[c] \in slab
    /\ hpc[c] = "link" =>
        /\ item[hitem[c]].sha1 = hchunk[c]
        /\ \A b \in Buckets : hitem[c] \notin hash_tab[b]
        /\ \A d \in Cpus \ {c} : hitem[d] # hitem[c]
    /\ hpc[c] \notin {"pin", "flag", "hand", "link"} => hitem[c] = NoItem
    /\ hpc[c] \in {"copyin", "unpin"} => hslot[c] \in Slots /\ rskb[c][hslot[c]] # NoItem
    /\ \A k \in Slots : rskb[c][k] # NoItem => rskb[c][k] \in slab
HandlerInv == \A c \in Cpus : HandlerOK(c)

\* Linked items are allocated and sit in the bucket of their hash.
TableInv ==
    /\ \A i \in slab : item[i].sha1 \in Chunks
    /\ \A b \in Buckets : \A i \in hash_tab[b] : i \in slab /\ BucketOf[item[i].sha1] = b

\* A writer walks items of the bucket whose lock it holds, and none without the lock.
WriterOK(c) ==
    /\ WriterLocked(c) => wtodo[c] \subseteq hash_tab[wbkt[c]]
    /\ ~WriterLocked(c) => wtodo[c] = {}
    /\ wpc[c] \in {"copy", "todisk", "free"} => witem[c] \in wtodo[c]
    /\ wpc[c] \notin {"copy", "todisk", "free"} => witem[c] = NoItem
WriterInv == \A c \in Cpus : WriterOK(c)

\* Teardown starts after the last handler.
ExitInv ==
    phase # "run" => \A c \in Cpus : hpc[c] = "idle" /\ \A k \in Slots : rskb[c][k] = NoItem

\* The search for free bits starts above every bit that is set.
BitsInv == \A c \in Cpus : \A x \in bitmap[c] : x < bitmap_index[c]

StoreInv ==
    TypeOK /\ HandlerInv /\ TableInv /\ WriterInv /\ ExitInv /\ BitsInv /\ PinsCounted

OwnsBits(i) == item[i].cpuid >= 0

\* The bitmap of a CPU has exactly the bits of the live items stored in its file,
\* and no two items share a bit: a deletion clears its own bits and only those.
BitmapExact ==
    phase = "run" =>
        /\ \A c \in Cpus :
            bitmap[c] = UNION {Extent(item[i]) : i \in {j \in slab : item[j].cpuid = c}}
        /\ \A i, j \in slab :
            i # j /\ OwnsBits(i) /\ item[i].cpuid = item[j].cpuid
                => Extent(item[i]) \cap Extent(item[j]) = {}

CountBounded == hash_count = Cardinality(slab) /\ hash_count <= hash_max_count + NumCpus
Copies(ch) == {i \in slab : item[i].sha1 = ch}
Adders(ch) == {c \in Cpus : hchunk[c] = ch /\ hpc[c] \in {"check", "alloc"}}
DuplicatesBounded ==
    \A ch \in Chunks : Cardinality(Copies(ch)) + Cardinality(Adders(ch)) <= NumCpus

\* Adding an item checks twice without a lock, and how far each race goes is bounded by the
\* number of CPUs.  hash_new_item compares hash_count, which is the number of live items,
\* before it increments it: the limit is passed by at most one item per CPU.  hand_hash
\* looks a chunk up before it adds it: its copies and the handlers that have missed it and
\* are about to add it are never more than there are CPUs.
RacesBounded == CountBounded /\ DuplicatesBounded

\* Once an item has been given a place in a file it keeps that place for life: it is
\* never moved, forgotten or promoted to "always in memory".
ExtentStable ==
    [][\A i \in slab : OwnsBits(i) /\ i \in slab' =>
            item'[i].cpuid = item[i].cpuid /\ item'[i].start = item[i].start
            /\ item'[i].flag_cache # 3]_vars

\* When the module is gone nothing is left allocated and nothing can run.
CleanDestroy ==
    phase = "done" =>
        /\ slab = {} /\ hash_count = 0 /\ timers = {} /\ pending = {}
        /\ \A c \in Cpus : wpc[c] = "idle" /\ hpc[c] = "idle"

\* The inductive invariant behind RacesBounded, BitmapExact, ExtentStable and CleanDestroy.

\* An allocated item is linked, or a handler is about to link it.
LinkedOrNew ==
    \A i \in slab : \/ \E b \in Buckets : i \in hash_tab[b]
                    \/ \E c \in Cpus : hpc[c] = "link" /\ hitem[c] = i

\* Handlers that have passed hash_new_item's check and have not counted their item yet.
Passed == {c \in Cpus : hpc[c] = "alloc"}
CountInv ==
    /\ hash_count = Cardinality(slab)
    /\ hash_count + Cardinality(Passed) <= hash_max_count + NumCpus

\* Only an item that is being or has been written has a place in a file, and its bits are
\* cleared when it is deleted.
DiskInv ==
    /\ \A i \in slab : OwnsBits(i) => item[i].flag_cache \in {1, 2, 4}
    /\ \A c \in Cpus : wpc[c] \in {"todisk", "free"} => OwnsBits(witem[c])

\* What release_hash_table_cache has finished, phase by phase.
ExitOrder ==
    /\ phase = "run" => idx = 0
    /\ phase = "flush" => \A b \in Buckets : b < idx => hash_tab[b] = {}
    /\ phase \in {"timers", "drain", "done"} => \A b \in Buckets : hash_tab[b] = {}
    /\ phase = "timers" => \A b \in timers : b >= idx
    /\ phase \in {"drain", "done"} => timers = {}
    /\ phase = "done" => WritersDone

RaceInv == LinkedOrNew /\ CountInv /\ DuplicatesBounded /\ DiskInv /\ BitmapExact /\ ExitOrder

\* File contents s have the item's chunk at its place, but for what a short write left out.
StoredIn(r, s) ==
    \A k \in 1 .. Num(r.sha1) :
        r.start + k <= Len(s) /\ s[r.start + k] \in {<<r.sha1, k>>, LostBlock}
InPlace(r) == StoredIn(r, file[r.cpuid])

\* The place an item on disk names in its file holds its chunk: nobody else's data, none
\* that was never copied, nothing past the end; at most blocks that a short kernel_write,
\* which wr_file does not notice, has left out.
FileHoldsChunk ==
    \A i \in slab : item[i].flag_cache \in {1, 4} => InPlace(item[i])

CopyFits == \A c \in Cpus : Len(copy_mem[c]) <= all_size[c]
HitInMemory ==
    \A c \in Cpus : hpc[c] = "hand" /\ item[hitem[c]].flag_cache # 4 =>
        item[hitem[c]].data = "chunk"

\* With no second CPU inside its read-locked sections, wr_file and the others find what they
\* take for granted: pass 2 never copies more than pass 1 allocated, free_data_memory does
\* not come to the branch that "can't" be reached, and when hand_hash takes the "in the
\* memory" branch the data is in memory.
WriterSafe == CopyFits /\ panic # "cannot arrive here" /\ HitInMemory

\* The inductive invariant behind FileHoldsChunk and WriterSafe, on one CPU.

\* The items that pass 1 has marked and pass 2 has not copied, and the blocks they take.
Marked == {i \in slab : item[i].cpuid = -2}
MarkedBlocks == UNION {{i} \X (1 .. Num(item[i].sha1)) : i \in Marked}

\* An item's chunk is in memory, on disk, or on disk and about to be read; one that has a
\* place finds its chunk there, in the file or in what is about to be appended to it.
UpItemOK(i) ==
    /\ item[i].flag_cache \in {0, 2, 3} => CanFree(item[i]) /\ item[i].data = "chunk"
    /\ item[i].flag_cache \in {1, 4} => OwnsBits(i) /\ InPlace(item[i])
    /\ item[i].flag_cache = 4 /\ ~CanFree(item[i]) => Pins(i) # {}
    /\ item[i].flag_mem = 1 => item[i].flag_cache = 4 /\ CanFree(item[i])
    /\ OwnsBits(i) => StoredIn(item[i], file[item[i].cpuid] \o copy_mem[item[i].cpuid])

UpHandlerOK(c) ==
    /\ hpc[c] = "hand" => item[hitem[c]].flag_cache # 1
    /\ \A k \in Slots : rskb[c][k] # NoItem => item[rskb[c][k]].flag_cache = 4
    /\ hpc[c] \in {"copyin", "unpin"} => CanFree(item[rskb[c][hslot[c]]])
    /\ ~(HandlerLocked(c) /\ WriterLocked(c))

\* Pass 2 copies what pass 1 marked, all of it, and kernel_write appends it where the bitmap
\* says; an item that is being evicted is referenced by nobody.
UpWriterOK(c) ==
    /\ wpc[c] = "todisk" => item[witem[c]].flag_cache = 2 /\ Pins(witem[c]) = {}
    /\ wpc[c] = "free" => item[witem[c]].flag_cache = 1 /\ CanFree(item[witem[c]])
    /\ wpc[c] \notin {"recheck", "copy", "write"} => copy_mem[c] = << >>
    /\ all_size[c] = Len(copy_mem[c]) + Cardinality(MarkedBlocks)
    /\ bitmap_index[c] = Len(file[c]) + Len(copy_mem[c])
    /\ panic = "none" =>
        /\ wpc[c] \notin {"sum", "recheck", "copy"} => Marked = {}
        /\ wpc[c] = "sum" => Marked \subseteq hash_tab[wbkt[c]]
        /\ wpc[c] \in {"recheck", "copy"} => Marked \subseteq wtodo[c]

UpInv ==
    /\ \A i \in slab : UpItemOK(i)
    /\ IsFiniteSet(MarkedBlocks) /\ \A i \in Marked : ToCopy(item[i])
    /\ \A c \in Cpus : UpHandlerOK(c) /\ UpWriterOK(c)
    /\ panic # "cannot arrive here"

\* release_hash_table_cache always returns: the timers and the write work that still
\* run while it flushes, deletes timers and drains cannot keep it from finishing.
ExitCompletes == phase = "flush" ~> (phase = "done" \/ panic # "none")

\* Every reference that a read list holds is dropped in the end.
ReadListDrains ==
    \A c \in Cpus, k \in Slots :
        rskb[c][k] # NoItem ~> (rskb[c][k] = NoItem \/ panic # "none")

Unreferenced(i) == \A c \in Cpus : hitem[c] # i /\ \A k \in Slots : rskb[c][k] # i

\* An item that is not looked up any more does not stay in the cache: aging, writing
\* and evicting it end in its deletion.
ColdItemDeleted ==
    \A i \in Items : (<>[]Unreferenced(i)) => []<>(i \notin slab \/ panic # "none")

=============================================================================
