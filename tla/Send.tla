-------------------------------- MODULE Send --------------------------------
(***************************************************************************)
(* The sender side, model/send_module: the output hook nf_out cuts a TCP    *)
(* payload into chunks, hashes each one and asks the table whether it has   *)
(* been sent before; a chunk found there is replaced by its SHA-1, another  *)
(* one is entered.  Timers, one for each bucket, let entries age and        *)
(* forget them; mexit takes the table down.                                 *)
(*                                                                         *)
(* The hook runs in process context (a local sender) and in softirq (a      *)
(* forwarded or retransmitted packet).  A softirq runs to its end on top    *)
(* of the process of its CPU, anywhere but inside a lock, which disables    *)
(* it; both use the CPU's one SHA-1 descriptor.  Sections under a bucket    *)
(* lock are one step.  How a payload is cut is in Partition, how the pool   *)
(* of descriptors is counted in Sha1Pool; here a payload is a sequence of   *)
(* chunks and the pool is there or not.                                     *)
(***************************************************************************)
EXTENDS Integers, Sequences, FiniteSets, SequencesExt

CONSTANTS
    Cpus,
    Contexts,         \* where the hook runs: <<cpu, "process">> or <<cpu, "softirq">>
    Chunks,           \* contents of chunks
    Length,           \* their lengths
    Payloads,         \* payloads, as the sequences of chunks they are cut into
    NumItems,         \* bound: struct hashinfo_item objects
    Buckets, BucketOf(_),
    TimerCpu,         \* the CPU of each bucket's timer
    hash_max_count,
    ITEM_CITE_ADD, ITEM_CITE_FIND,
    chunk_num, SHALEN,
    Wiped,            \* what crypto_hash_final leaves in a descriptor
    None,
    MaxPackets        \* bound: packets to send

\* What a descriptor has absorbed since crypto_hash_init; the digest is a function of it.
\* Of a hash that was not disturbed it is <<c>>, c the chunk.
Digests == {<< >>} \cup {<<a>> : a \in Chunks \cup {Wiped}}
               \cup {<<a, c>> : a \in Chunks \cup {Wiped}, c \in Chunks}

ASSUME SendAssumption ==
    /\ Contexts \subseteq Cpus \X {"process", "softirq"}
    /\ NumItems \in Nat /\ Length \in [Chunks -> Nat]
    /\ Payloads \subseteq Seq(Chunks)
    /\ \A d \in Digests : BucketOf(d) \in Buckets
    /\ TimerCpu \in [Buckets -> Cpus]
    /\ hash_max_count \in Nat /\ ITEM_CITE_ADD \in Nat \ {0} /\ ITEM_CITE_FIND \in Nat \ {0}
    /\ chunk_num \in Nat /\ SHALEN \in Nat /\ MaxPackets \in Nat
    /\ Wiped \notin Chunks /\ None \notin Chunks \cup Digests \cup Nat
    /\ IsFiniteSet(Contexts)

Items == 1 .. NumItems

VARIABLES
    mod,                      \* how far minit and mexit have come
    pool,                     \* the pool of descriptors is published
    desc,                     \* the SHA-1 descriptor of each CPU
    linked, sha1, refcnt,     \* entries in the table, their fields
    hash_count,
    sum_num, save_num, skb_num,
    timers,                   \* buckets whose timer is armed
    sha_data,                 \* objects of the slab sha_data in use
    ctx,                      \* the local variables of the hook in each context
    torn,                     \* history: processes whose hash was disturbed by a softirq,
    wire,                     \* chunks that left in full,
    lost                      \* objects of sha_data that nobody points to any more

tabVars  == <<linked, sha1, refcnt, hash_count>>
statVars == <<sum_num, save_num, skb_num>>
modVars  == <<mod, pool, timers>>
slabVars == <<sha_data, lost>>
vars == <<modVars, desc, torn, tabVars, statVars, slabVars, ctx, wire>>

NoHook == [pc |-> "idle", data |-> << >>, k |-> 1, start |-> 0, dst |-> None,
           item |-> None, new_len |-> 0, hand_list |-> << >>]

Sum(s) ==
    LET sum[n \in 0 .. Len(s)] == IF n = 0 THEN 0 ELSE sum[n - 1] + Length[s[n]]
    IN sum[Len(s)]
Chunk(x) == ctx[x].data[ctx[x].k]

\* A process goes on only when no softirq runs on top of it.
NoSoftirq(c) == <<c, "softirq">> \in Contexts => ctx[<<c, "softirq">>].pc = "idle"
Runs(x, at) == ctx[x].pc = at /\ (x[2] = "process" => NoSoftirq(x[1]))

Goto(x, to) == ctx' = [ctx EXCEPT ![x].pc = to]

\* On to the next chunk of the payload; the replace_item, if any, goes to the hand_list.
NextChunk(x, replaced, saved) ==
    ctx' = [ctx EXCEPT ![x] = [ctx[x] EXCEPT !.pc = "chunk", !.k = @ + 1,
                                             !.start = @ + Length[Chunk(x)],
                                             !.dst = None, !.item = None,
                                             !.new_len = @ - saved, !.hand_list = @ \o replaced]]

-----------------------------------------------------------------------------
(* nf_out, get_partition, build_hash *)

\* A short payload, or one for which kfifo_alloc fails, is not cut.
Hook(x) ==
    /\ mod \in {"hooked", "loaded"} /\ Runs(x, "idle")
    /\ skb_num + Cardinality({y \in Contexts : ctx[y].pc \notin {"idle", "leave"}}) < MaxPackets
    /\ \E p \in Payloads :
         \E cut \in IF Sum(p) > chunk_num THEN BOOLEAN ELSE {FALSE} :
            ctx' = [ctx EXCEPT ![x] = [NoHook EXCEPT !.pc = "chunk", !.data = p,
                                                     !.k = IF cut THEN 1 ELSE Len(p) + 1,
                                                     !.new_len = Sum(p)]]
    /\ UNCHANGED <<modVars, desc, torn, tabVars, statVars, slabVars, wire>>

\* build_hash passes over chunks that are not longer than what would replace them.
BuildHash(x) ==
    /\ Runs(x, "chunk") /\ ctx[x].k <= Len(ctx[x].data)
    /\ \/ /\ Length[Chunk(x)] <= SHALEN + 2
          /\ NextChunk(x, << >>, 0)
          /\ UNCHANGED slabVars
       \/ /\ Length[Chunk(x)] > SHALEN + 2
          /\ sha_data' = sha_data + 1 /\ UNCHANGED lost
          /\ Goto(x, "init")
    /\ UNCHANGED <<modVars, desc, torn, tabVars, statVars, wire>>

\* The end of get_partition.
Partitioned(x) ==
    /\ Runs(x, "chunk") /\ ctx[x].k > Len(ctx[x].data)
    /\ skb_num' = skb_num + 1
    /\ Goto(x, "leave")
    /\ UNCHANGED <<modVars, desc, torn, tabVars, sum_num, save_num, slabVars, wire>>

\* tcp_v4_sha1_hash_data: three calls on the descriptor of the CPU.
HashInit(x) ==
    /\ Runs(x, "init") /\ pool
    /\ desc' = [desc EXCEPT ![x[1]] = << >>]
    /\ torn' = IF x[2] = "process" THEN torn \ {x}
               ELSE torn \cup {y \in Contexts \ {x} : y[1] = x[1] /\ ctx[y].pc \in {"update", "final"}}
    /\ Goto(x, "update")
    /\ UNCHANGED <<modVars, tabVars, statVars, slabVars, wire>>

HashUpdate(x) ==
    /\ Runs(x, "update")
    /\ desc' = [desc EXCEPT ![x[1]] = Append(@, Chunk(x))]
    /\ Goto(x, "final")
    /\ UNCHANGED <<modVars, torn, tabVars, statVars, slabVars, wire>>

HashFinal(x) ==
    /\ Runs(x, "final")
    /\ ctx' = [ctx EXCEPT ![x].pc = "lookup", ![x].dst = desc[x[1]]]
    /\ desc' = [desc EXCEPT ![x[1]] = <<Wiped>>]
    /\ UNCHANGED <<modVars, torn, tabVars, statVars, slabVars, wire>>

\* No pool, or an error of the hash: build_hash returns without freeing dst.
HashFails(x) ==
    /\ Runs(x, "init") \/ Runs(x, "update") \/ Runs(x, "final")
    /\ NextChunk(x, << >>, 0)
    /\ lost' = lost + 1
    /\ UNCHANGED <<modVars, desc, torn, tabVars, statVars, sha_data, wire>>

-----------------------------------------------------------------------------
(* hand_hash *)

\* get_hash_item compares the whole SHA-1.
Matches(d) == {i \in linked : sha1[i] = d}

\* get_hash_item, under the read lock; of several matches the code finds the newest.
Lookup(x) ==
    /\ Runs(x, "lookup")
    /\ \/ \E i \in Matches(ctx[x].dst) :
            /\ refcnt' = [refcnt EXCEPT ![i] = @ + ITEM_CITE_FIND]
            /\ ctx' = [ctx EXCEPT ![x].pc = "hit", ![x].item = i]
       \/ /\ Matches(ctx[x].dst) = {}
          /\ Goto(x, "miss")
          /\ UNCHANGED refcnt
    /\ UNCHANGED <<modVars, desc, torn, linked, sha1, hash_count, statVars, slabVars, wire>>

\* hash_new_item reads hash_count, then allocates: either may end in NULL.
ReadCount_Replaces(x) ==
    /\ Runs(x, "miss")
    /\ \/ hash_count <= hash_max_count /\ Goto(x, "alloc")
       \/ NextChunk(x, <<[start |-> ctx[x].start, end |-> ctx[x].start + Length[Chunk(x)] - 1,
                          sha1 |-> ctx[x].dst, chunk |-> Chunk(x)]>>, 0)
    /\ UNCHANGED <<modVars, desc, torn, tabVars, statVars, slabVars, wire>>
ReadCount(x) ==
    /\ Runs(x, "miss")
    /\ \/ hash_count <= hash_max_count /\ Goto(x, "alloc")
       \/ Goto(x, "missed")
    /\ UNCHANGED <<modVars, desc, torn, tabVars, statVars, slabVars, wire>>

Allocated == linked \cup ({ctx[x].item : x \in {y \in Contexts : ctx[y].pc = "link"}})

\* Objects have no identity beyond their contents: the slab hands out the first free one.
FreeItem == CHOOSE i \in Items \ Allocated : \A j \in Items \ Allocated : i <= j

\* kmem_cache_free: the contents do not matter any more.
FreeItems_Uncounted(S) ==
    /\ linked' = linked \ S /\ UNCHANGED hash_count
    /\ sha1' = [i \in Items |-> IF i \in S THEN None ELSE sha1[i]]
FreeItems(S) ==
    /\ linked' = linked \ S
    /\ hash_count' = hash_count - Cardinality(S)
    /\ sha1' = [i \in Items |-> IF i \in S THEN None ELSE sha1[i]]

NewItem_Unset(x) ==
    /\ Runs(x, "alloc")
    /\ Items # Allocated
    /\ LET i == FreeItem IN
         /\ refcnt' = [refcnt EXCEPT ![i] = ITEM_CITE_ADD]
         /\ ctx' = [ctx EXCEPT ![x].pc = "link", ![x].item = i]
    /\ hash_count' = hash_count + 1
    /\ UNCHANGED <<modVars, desc, torn, linked, sha1, statVars, slabVars, wire>>
NewItem(x) ==
    /\ Runs(x, "alloc")
    /\ Items # Allocated
    /\ LET i == FreeItem IN
         /\ sha1' = [sha1 EXCEPT ![i] = ctx[x].dst]
         /\ refcnt' = [refcnt EXCEPT ![i] = ITEM_CITE_ADD]
         /\ ctx' = [ctx EXCEPT ![x].pc = "link", ![x].item = i]
    /\ hash_count' = hash_count + 1
    /\ UNCHANGED <<modVars, desc, torn, linked, statVars, slabVars, wire>>

\* _hash, under the write lock.
Link(x) ==
    /\ Runs(x, "link")
    /\ linked' = linked \cup {ctx[x].item}
    /\ Goto(x, "missed")
    /\ UNCHANGED <<modVars, desc, torn, sha1, refcnt, hash_count, statVars, slabVars, wire>>

\* The statistics, each an atomic operation of its own; build_hash then frees dst.
AddSum(x) ==
    /\ Runs(x, "missed") \/ Runs(x, "hit")
    /\ sum_num' = sum_num + Length[Chunk(x)]
    /\ \/ ctx[x].pc = "hit" /\ Goto(x, "save") /\ UNCHANGED slabVars
       \/ ctx[x].pc = "missed" /\ NextChunk(x, << >>, 0) /\ sha_data' = sha_data - 1 /\ UNCHANGED lost
    /\ UNCHANGED <<modVars, desc, torn, tabVars, save_num, skb_num, wire>>

AddSave(x) ==
    /\ Runs(x, "save")
    /\ LET saved == Length[Chunk(x)] - (SHALEN + 2)
           replace_item == [start |-> ctx[x].start,
                            end |-> ctx[x].start + Length[Chunk(x)] - 1, sha1 |-> ctx[x].dst,
                            chunk |-> IF x \in torn THEN None ELSE Chunk(x)]
       IN save_num' = save_num + saved /\ NextChunk(x, <<replace_item>>, saved)
    /\ sha_data' = sha_data - 1 /\ UNCHANGED lost
    /\ UNCHANGED <<modVars, desc, torn, tabVars, sum_num, skb_num, wire>>

-----------------------------------------------------------------------------
(* replace_skb *)

\* One turn of its loop; "You cant arrive here" is a replace_item before last.
Replace_FromIndex(w, cp) == [index |-> w.index + (cp.start - w.index) + SHALEN,
                             last |-> cp.end + 1, bug |-> w.bug \/ cp.start < w.last]
Replace(w, cp) == [index |-> w.index + (cp.start - w.last) + SHALEN,
                   last |-> cp.end + 1, bug |-> w.bug \/ cp.start < w.last]

\* The loop over hand_list.
Replaced(list) ==
    LET w[n \in 0 .. Len(list)] ==
            IF n = 0 THEN [index |-> 0, last |-> 0, bug |-> FALSE] ELSE Replace(w[n - 1], list[n])
    IN w[Len(list)]
ReplaceSkb(x) == Replaced(ctx[x].hand_list)

\* The size that replace_skb arrives at.
NewSize(x) == ReplaceSkb(x).index + (Sum(ctx[x].data) - ReplaceSkb(x).last)

\* The first n chunks but those that are replaced.
InFull(x, n) ==
    {ctx[x].data[k] : k \in {k \in 1 .. n :
        \A cp \in ToSet(ctx[x].hand_list) : cp.start # Sum(SubSeq(ctx[x].data, 1, k - 1))}}

\* nf_out returns NF_ACCEPT.  The copies in replace_skb are commented out, so the packet
\* leaves as it came; wire counts only the chunks that would still be in it.
Leave(x) ==
    /\ Runs(x, "leave")
    /\ wire' = wire \cup InFull(x, Len(ctx[x].data))
    /\ ctx' = [ctx EXCEPT ![x] = NoHook]
    /\ UNCHANGED <<modVars, desc, torn, tabVars, statVars, slabVars>>

-----------------------------------------------------------------------------
(* Timers *)

\* bucket_clear_item: a softirq of the timer's CPU.
InBucket(b) == {i \in linked : BucketOf(sha1[i]) = b}
Expired(b) == {i \in InBucket(b) : refcnt[i] <= 1}

BucketClear_Once(b) ==
    /\ b \in timers /\ NoSoftirq(TimerCpu[b])
    /\ FreeItems(Expired(b))
    /\ refcnt' = [i \in Items |-> IF i \in Expired(b) THEN 0
                                  ELSE IF i \in InBucket(b) THEN refcnt[i] - 1 ELSE refcnt[i]]
    /\ timers' = timers \ {b}
    /\ UNCHANGED <<mod, pool, desc, torn, statVars, slabVars, ctx, wire>>
BucketClear(b) ==
    /\ b \in timers /\ NoSoftirq(TimerCpu[b])
    /\ FreeItems(Expired(b))
    /\ refcnt' = [i \in Items |-> IF i \in Expired(b) THEN 0
                                  ELSE IF i \in InBucket(b) THEN refcnt[i] - 1 ELSE refcnt[i]]
    /\ UNCHANGED <<modVars, desc, torn, statVars, slabVars, ctx, wire>>

-----------------------------------------------------------------------------
(* minit and mexit *)

\* minit registers the hook before it allocates the pool.
AllocPool ==
    /\ mod = "hooked"
    /\ mod' = "loaded" /\ pool' = TRUE
    /\ UNCHANGED <<timers, desc, torn, tabVars, statVars, slabVars, ctx, wire>>

\* nf_unregister_hook waits for the hooks that still run.
UnregisterHook_NoWait ==
    /\ mod = "loaded"
    /\ mod' = "unhooked"
    /\ UNCHANGED <<pool, timers, desc, torn, tabVars, statVars, slabVars, ctx, wire>>
UnregisterHook ==
    /\ mod = "loaded" /\ \A x \in Contexts : ctx[x].pc = "idle"
    /\ mod' = "unhooked"
    /\ UNCHANGED <<pool, timers, desc, torn, tabVars, statVars, slabVars, ctx, wire>>

\* hash_flush, bucket by bucket; the timers are still armed.
Flush ==
    /\ mod = "unhooked"
    /\ \/ \E b \in Buckets :
            /\ InBucket(b) # {}
            /\ FreeItems(InBucket(b))
            /\ refcnt' = [i \in Items |-> IF i \in InBucket(b) THEN 0 ELSE refcnt[i]]
            /\ UNCHANGED mod
       \/ /\ linked = {}
          /\ mod' = "flushed"
          /\ UNCHANGED tabVars
    /\ UNCHANGED <<pool, timers, desc, torn, statVars, slabVars, ctx, wire>>

\* del_timer_sync of each bucket (and of print_memory, which changes nothing here).
DelTimers ==
    /\ mod = "flushed"
    /\ \/ \E b \in timers : timers' = timers \ {b} /\ UNCHANGED mod
       \/ timers = {} /\ mod' = "stopped" /\ UNCHANGED timers
    /\ UNCHANGED <<pool, desc, torn, tabVars, statVars, slabVars, ctx, wire>>

\* kmem_cache_destroy, free_slab, tcp_free_sha1sig_pool.
Destroy ==
    /\ mod = "stopped"
    /\ mod' = "gone" /\ pool' = FALSE
    /\ UNCHANGED <<timers, desc, torn, tabVars, statVars, slabVars, ctx, wire>>

Gone == mod = "gone" /\ UNCHANGED vars

-----------------------------------------------------------------------------
Init ==
    /\ mod = "hooked" /\ pool = FALSE /\ timers = Buckets
    /\ desc = [c \in Cpus |-> <<Wiped>>]
    /\ linked = {} /\ hash_count = 0
    /\ sha1 = [i \in Items |-> None] /\ refcnt = [i \in Items |-> 0]
    /\ sum_num = 0 /\ save_num = 0 /\ skb_num = 0
    /\ sha_data = 0 /\ lost = 0 /\ torn = {}
    /\ ctx = [x \in Contexts |-> NoHook]
    /\ wire = {}

HookStep(x) ==
    \/ BuildHash(x) \/ Partitioned(x)
    \/ HashInit(x) \/ HashUpdate(x) \/ HashFinal(x) \/ HashFails(x)
    \/ Lookup(x) \/ ReadCount(x) \/ NewItem(x) \/ Link(x) \/ AddSum(x) \/ AddSave(x)
    \/ Leave(x)

Unload == UnregisterHook \/ Flush \/ DelTimers \/ Destroy

Next ==
    \/ \E x \in Contexts : Hook(x) \/ HookStep(x)
    \/ \E b \in Buckets : BucketClear(b)
    \/ AllocPool \/ Unload
    \/ Gone

Spec == Init /\ [][Next]_vars

\* A hook that has begun goes on, armed timers go off.
Fairness ==
    /\ \A x \in Contexts : WF_vars(HookStep(x))
    /\ \A b \in Buckets : WF_vars(BucketClear(b))
    /\ WF_vars(AllocPool)

FairSpec == Spec /\ Fairness
-----------------------------------------------------------------------------
(* Properties *)

\* build_hash has an object of sha_data in hand.
Working == {"init", "update", "final", "lookup", "hit", "miss", "alloc", "link", "missed", "save"}
ReplaceItem == [start: Nat, end: Int, sha1: Digests \cup {None}, chunk: Chunks \cup {None}]
HookRec ==
    [pc: {"idle", "chunk", "leave"} \cup Working, data: Seq(Chunks), k: Nat \ {0}, start: Nat,
     dst: Digests \cup {None}, item: Items \cup {None}, new_len: Int,
     hand_list: Seq(ReplaceItem)]

\* Every variable keeps its type.
TypeOK ==
    /\ mod \in {"hooked", "loaded", "unhooked", "flushed", "stopped", "gone"}
    /\ pool \in BOOLEAN /\ timers \in SUBSET Buckets
    /\ desc \in [Cpus -> Digests] /\ torn \in SUBSET Contexts
    /\ linked \in SUBSET Items /\ sha1 \in [Items -> Digests \cup {None}]
    /\ refcnt \in [Items -> Nat]
    /\ hash_count \in Nat /\ sum_num \in Nat /\ save_num \in Nat /\ skb_num \in Nat
    /\ sha_data \in Nat /\ lost \in Nat
    /\ wire \in SUBSET Chunks
    /\ ctx \in [Contexts -> HookRec]

\* The chunks that x has dealt with and that leave, or have to leave, in full.
Dealt(x) == InFull(x, IF ctx[x].pc = "missed" THEN ctx[x].k ELSE ctx[x].k - 1)

\* A chunk that is replaced by its digest has left in full before, or is in a packet that
\* a hook still has in hand, unless a softirq disturbed its own hash; whether the entry it
\* was found by comes from a disturbed hash does not matter.
\* (That packet may be overtaken by the one with the reference.)
RefersToSent ==
    \A x \in Contexts : \A cp \in ToSet(ctx[x].hand_list) : cp.chunk # None =>
        cp.chunk \in wire \cup UNION {Dealt(y) : y \in Contexts}

\* replace_skb never arrives at its BUG(), and what it writes ends two bytes for each
\* replaced chunk before the end of the buffer of new_len bytes.
ReplaceFits ==
    \A x \in Contexts : ctx[x].pc = "leave" /\ ctx[x].hand_list # << >> =>
        /\ ~ReplaceSkb(x).bug
        /\ NewSize(x) = ctx[x].new_len - 2 * Len(ctx[x].hand_list)

\* The counters that print_memory_usage shows: hash_count is the number of items, which
\* the racing checks of hash_max_count exceed by at most one for each context, and one for
\* the test with >; the cache ratio, for which save_num is read before sum_num, is at
\* most 100%, as both only grow and save_num stays behind.
CountExact ==
    /\ hash_count = Cardinality(Allocated)
    /\ hash_count <= hash_max_count + Cardinality(Contexts)
    /\ save_num <= sum_num

\* When the caches are destroyed no item is left in hash_cachep, no hook is running, and
\* only a hash that failed has left an object in sha_data.
TeardownClean ==
    mod \in {"stopped", "gone"} =>
        /\ Allocated = {} /\ hash_count = 0 /\ timers = {}
        /\ \A x \in Contexts : ctx[x].pc = "idle"
        /\ sha_data = lost

\* The inductive invariant behind ReplaceFits, CountExact, TeardownClean and CacheSpec.

\* What a hook knows of its chunk, and of the descriptor it shares with a softirq.
HookOK(x) ==
    /\ ctx[x].pc \in Working => ctx[x].k <= Len(ctx[x].data) /\ Length[Chunk(x)] > SHALEN + 2
    /\ ctx[x].pc \in Working \ {"init", "update", "final"} => ctx[x].dst \in Digests
    /\ ctx[x].pc = "update" =>
        /\ desc[x[1]] \in {<< >>} \cup {<<a>> : a \in Chunks \cup {Wiped}}
        /\ x[2] = "softirq" => desc[x[1]] = << >>

\* An item that is about to be linked has its digest and belongs to one hook.
LinkOK(x) ==
    ctx[x].pc = "link" =>
        /\ ctx[x].item \in Items \ linked /\ sha1[ctx[x].item] = ctx[x].dst
        /\ \A y \in Contexts \ {x} : ctx[y].pc = "link" => ctx[y].item # ctx[x].item

\* replace_skb stays behind the chunk at start, by what new_len has lost less two bytes for
\* every replaced chunk.
FitsSoFar(x) ==
    ctx[x].pc # "idle" =>
        LET w == ReplaceSkb(x) IN
        /\ ~w.bug /\ w.last <= ctx[x].start
        /\ w.index + (Sum(ctx[x].data) - w.last) = ctx[x].new_len - 2 * Len(ctx[x].hand_list)

\* Bytes that are in sum_num and not yet in save_num.
Unsaved ==
    UNION {{x} \X (1 .. Length[Chunk(x)]) : x \in {y \in Contexts : ctx[y].pc = "save"}}
CountInv ==
    /\ hash_count = Cardinality(Allocated)
    /\ hash_count + Cardinality({x \in Contexts : ctx[x].pc = "alloc"})
          <= hash_max_count + Cardinality(Contexts)
    /\ sha_data = lost + Cardinality({x \in Contexts : ctx[x].pc \in Working})
    /\ IsFiniteSet(Unsaved) /\ save_num + Cardinality(Unsaved) <= sum_num

\* What mexit has finished, step by step.
ExitInv ==
    /\ mod \in {"unhooked", "flushed", "stopped", "gone"} => \A x \in Contexts : ctx[x].pc = "idle"
    /\ mod \in {"flushed", "stopped", "gone"} => linked = {}
    /\ mod \in {"stopped", "gone"} => timers = {}

SendInv ==
    /\ TypeOK /\ CountInv /\ ExitInv
    /\ \A x \in Contexts : HookOK(x) /\ LinkOK(x) /\ FitsSoFar(x)

\* The inductive invariant behind RefersToSent.

\* Chunks that are long enough to be replaced, and that leave or have left in full.
Kept == {c \in wire \cup UNION {Dealt(y) : y \in Contexts} : Length[c] > SHALEN + 2}
Hashed == {"lookup", "hit", "miss", "alloc", "link", "missed", "save"}

\* start is where the chunk at hand begins (if there is one), and everything replaced so far lies before it.
PlaceOK(x) ==
    /\ ctx[x].k <= Len(ctx[x].data) + 1
    /\ ctx[x].pc = "idle" => ctx[x].data = << >>
    /\ ctx[x].k <= Len(ctx[x].data) => ctx[x].start = Sum(SubSeq(ctx[x].data, 1, ctx[x].k - 1))
    /\ \A cp \in ToSet(ctx[x].hand_list) : cp.start < ctx[x].start

\* A hash that is not torn is that of the chunk.
WholeOK(x) ==
    x \notin torn =>
        /\ ctx[x].pc = "update" => desc[x[1]] = << >>
        /\ ctx[x].pc = "final" => desc[x[1]] = <<Chunk(x)>>
        /\ ctx[x].pc \in Hashed => ctx[x].dst = <<Chunk(x)>>
        /\ ctx[x].pc \in {"update", "final"} =>
            \A y \in Contexts \ {x} : y[1] = x[1] => ctx[y].pc \notin {"update", "final"}
                                                     \/ y \in torn

\* Torn or not, if a digest is that of a chunk s then s is the chunk at hand or is kept;
\* if it has been found, s is kept.
DigestOK(x) ==
    \A s \in Chunks :
        /\ ctx[x].pc \in Hashed /\ ctx[x].dst = <<s>> => s = Chunk(x) \/ s \in Kept
        /\ ctx[x].pc \in {"hit", "save"} /\ ctx[x].dst = <<s>> => s \in Kept

\* The same of the descriptors, of the table and of what has been replaced.
DescOK ==
    \A c \in Cpus, s \in Chunks : desc[c] = <<s>> =>
        s \in Kept \/ \E x \in Contexts : x[1] = c /\ ctx[x].pc = "final" /\ Chunk(x) = s
TableOK == \A i \in linked, s \in Chunks : sha1[i] = <<s>> => s \in Kept
ReplacedOK ==
    \A x \in Contexts : \A cp \in ToSet(ctx[x].hand_list) : cp.chunk # None => cp.chunk \in Kept

SentInv ==
    /\ torn \subseteq Cpus \X {"process"}
    /\ DescOK /\ TableOK /\ ReplacedOK
    /\ \A x \in Contexts : PlaceOK(x) /\ WholeOK(x) /\ DigestOK(x)

\* The table does for the hooks what DedupCache promises.
Reply(x) == [told |-> IF ctx[x].pc \in {"hit", "save"} THEN "known" ELSE "unknown",
             digest |-> ctx[x].dst]
Known == {sha1[i] : i \in linked}
Answer(x) == IF ctx[x].pc \in {"hit", "save", "miss", "alloc", "link"} THEN Reply(x) ELSE None
Answers == [x \in Contexts |-> Answer(x)]
Cache == INSTANCE DedupCache WITH Clients <- Contexts, known <- Known, reply <- Answers
CacheSpec == Cache!Spec

\* Once nothing is sent any more, the table empties.
Forgets == []<>(linked = {})
=============================================================================
