# A verification of the chunk cache of kernel_test and of its companions

The repository `kernel_test` collects Linux kernel experiments. Its core is
`model/kernel_hash`, a kernel module called *wspack*: it intercepts received TCP
segments, cuts their payload into chunks at content-defined boundaries, and keeps
every chunk in a cache indexed by SHA-1, in memory while the chunk is hot and in
per-CPU files when it cools down. The other directories under `model/` are
companion programs (the sending side, a netlink bridge to user space, user-space
prototypes of the chunking with their containers).

| module | models | composed with |
|---|---|---|
| `ChunkStore` (`ChunkStoreProofs`) | the cache of wspack | |
| `SkbPipeline` (`SkbPipelineProofs`) | the way of a packet through wspack | |
| `Sha1Pool` (`Sha1PoolProofs`) | the pool of hash descriptors, the same code in wspack and wspack_send | |
| `Partition` (`PartitionProofs`) | content-defined chunking, the same code in both | |
| `Lifecycle` (`LifecycleProofs`) | load and unload of wspack and of wspack_send | |
| `Send` (`SendProofs`) | the sender wspack_send | implements `DedupCache` |
| `DedupCache` | abstract specification of the sender's table | |
| `Pack` | the prototypes pack, winn_pack, tcpre | extends `Hashmap` |
| `Hashmap` | the containers DArray and Hashmap | |
| `Netlink` (`NetlinkProofs`) | two kernel modules, two daemons, netlink and TCP between them | |
| `ProofLib` | no code: lemmas on loops, counting and sequences that several proofs share | |

This directory holds TLA+ models of that code, the TLC configurations that check
them, and TLAPS proofs about them. `PROJECT.json` lists the runs, the source
lines each definition stands for, the hazards each property answers and the
theorems.

## 1. The system

### wspack (`model/kernel_hash`)

| part | state it keeps | operations | callers and threads |
|---|---|---|---|
| skb pipeline (`nf_in.c`) | per-CPU list `skb_list`, per-CPU work item | `jpf_ip_rcv` queues a copy of the packet, `handle_skb` takes up to 10000 of them, `resend_skb` hands them to the stack, `clear_remainder_skb` drains on exit | softirq on each CPU, workqueue `kread_queue` |
| partition (`chunk.c`, `get_partition`) | none | rolling hash, cut points, the chunks of a packet | `handle_skb` |
| SHA-1 pool (`sha.c`) | per-CPU hash descriptors, user count | alloc, get, put, free, hash | `handle_skb`, module load and unload |
| chunk store (`hash_table.c`, `hash_lock.h`, `hand_hash`, `read_data`) | hash table, item fields (`refcnt`, `share_ref`, `flag_cache`, `cpuid`, `start`, `data`), `hash_count`, per-CPU bitmap and file | lookup, add, read back, `wr_file`, `bucket_clear_item`, `hash_flush`, `release_hash_table_cache` | handlers, timers, workqueue `kwrite_queue`, `mexit` |
| bitmap (`bitmap.c`) | one bit array per CPU | find a zero area, set, clear, allocate, free | `wr_file`, `bucket_clear_item` |
| files (`file.c`, `alloc_file.c`) | one open file per CPU | open, read, write, close | `wr_file`, `read_data`, load and unload |
| list sort (`sort.c`) | none | merge sort of the read list | `read_data` |
| life cycle (`main.c`, `slab_cache.c`) | which resources exist | `minit` with its error exits, `mexit` | module load and unload |

Hard behaviour: the packet handlers of all CPUs, the bucket timers, the file
writers and the unload path share the items. Reader sections of the bucket locks
modify items, so two CPUs inside the *read* lock of one bucket race with each
other; `share_ref` has to keep an item alive outside the lock; the file writer
makes three passes over a bucket and relies in each on what an earlier one saw.

### wspack_send (`model/send_module`)

The sending side: the output hook `nf_out` cuts the payload of a packet into chunks, looks the
SHA-1 of each up in a table, lists the chunks that were found for `replace_skb` and enters the
others. State: the table with its counters, one timer per bucket that ages the entries, slab
caches, the SHA-1 pool. Hard behaviour: the hook runs in process context and in softirqs, on every
CPU, and a softirq interrupts the process of its CPU in the middle of a hash; the timers delete
entries between the lookups; loading and unloading go on beside all of it.

### tcp_netlink (`model/tcp_netlink`)

`lx_kernel.c` of the receiving machine sends a message to a user-space client every 10 s; the
client forwards it over TCP; the server of the sending machine hands what it reads to
`send_kernel.c`, which logs it. Each daemon first shakes hands with its kernel module. State: the
pid that the module knows, the timer, socket queues, the retry counter, the connection, the
buffers. Hard behaviour: lost replies, timer messages in the middle of the handshake, retries, a
byte stream that keeps no message boundaries, connections that break.

### Prototypes (`model/c-skeleton`)

`pack`, `winn_pack` and `tcpre` measure the redundancy of a captured stream. State: the remaining
data that goes on from packet to packet, the table of digests (`keyvalue`), the `Hashmap` that
points into it. Single-threaded; hard are the boundaries (of packets, windows, buffers) and what
`realloc` does to pointers.

`model/build_receive_tcp`, `model/RB_java` and `test/` are small stand-alone samples.

## 2. ChunkStore: the cache

`ChunkStore.tla` models the chunk store whole: `hash_table.c`, `hash_lock.h`,
`hand_hash` and `read_data` of `nf_in.c`, and the store's part of `mexit`.

### State

| variable | code |
|---|---|
| `item[i]` | `struct hashinfo_item`: `sha1`, `refcnt`, `share_ref`, `mem_style`, `data`, `cpuid`, `start`, `flag_cache`, `flag_mem` |
| `slab`, `hash_tab`, `hash_count` | objects allocated from `hash_cachep`, the bucket lists, the counter |
| `hpc`, `hchunk`, `hitem`, `hslot`, `rskb` | where the packet handler of each CPU is, the chunk and item it works on, its list of `struct read_skb` |
| `wpc`, `wbkt`, `wtodo`, `witem`, `all_size`, `copy_mem` | where the `wr_file` of each CPU is, its bucket, the rest of its walk, the two local results of its passes |
| `bitmap`, `bitmap_index`, `file` | per-CPU bitmap, next index and file; `loff_file` is the length of `file` |
| `pending`, `timers` | buckets whose write work is queued, whose timer is armed |
| `phase`, `idx` | how far the unloading is |
| `panic` | the `BUG()` that was reached, if any |

Abstractions: a chunk is a model value with a length, a bucket is a set (the order
of a walk is arbitrary), a file is a sequence of `CHUNKSTEP` blocks that name the
chunk and block they hold, statistics are left out. SHA-1 is taken to be injective.
An allocation of an item may fail at any time. `kernel_write` may fail (`WrError`: the
code's `BUG()`) or write less than it was given: nobody looks at its result and `loff_file`
advances by `all_size`, so the blocks it left out are `LostBlock`s of the file.

### Threads and atomicity

Each CPU runs one packet handler thread and one file writer thread; timers run in
softirq context on the CPU of their bucket. A reader section disables preemption
and bottom halves on its own CPU (`HandlerRuns`, `WriterRuns`, `SoftirqRuns`) and
excludes writers of the same lock on all CPUs (`Unlocked`), but interleaves with
reader sections of other CPUs: it is split at every access to shared fields. A
writer section is one step.

| actions | code |
|---|---|
| `GetHashItem`, `PinItem`, `MarkRead` | the walk of `get_hash_item`, its `atomic_inc`, its flag update |
| `HandHash` | the rest of `hand_hash` after a hit |
| `AddCheck`, `AddAlloc`, `AddLink` | `hash_new_item` and `_hash` |
| `ReadNext`, `CopyIn`, `Unpin` | `read_data` for one entry |
| `WrStart` ... `WrEnd` | the three passes of `wr_file` |
| `BucketClear` | `bucket_clear_item`, one run of a bucket's timer |
| `BeginExit`, `FlushBucket`, `DelTimer`, `Destroy` | `mexit` from the end of the handlers to the end of `release_hash_table_cache` |

### What the runs check

| run | instance | question |
|---|---|---|
| `store_up` | 1 CPU, 2 chunks of 1 and 2 blocks, 2 items | Without a second CPU inside the reader sections, is a stored chunk always where it is looked for, but for blocks that a short `kernel_write` left out (`FileHoldsChunk`), and does the code find what it takes for granted (`WriterSafe`: pass 2 of `wr_file` fits the buffer of pass 1, the `BUG()` of `free_data_memory` is out of reach, a hit that is not in state 4 is in memory)? Yes. |
| `store_smp` | 2 CPUs, 1 bucket, 2 chunks, 3 items, limit 0 | Are references exact (`PinsCounted`), is nothing used after it was freed (`NoUseAfterFree`), do bitmaps match the live items (`BitmapExact`), are places in files stable (`ExtentStable`), does unloading leave nothing (`CleanDestroy`)? Yes, in every interleaving. How far can the unsynchronised limit check and the lookup-then-add race go? One item per CPU beyond the limit, one copy of a chunk per CPU (`RacesBounded`). |
| `store_live` | 2 CPUs, 2 buckets under 1 lock, 1 item, fair | Unloading ends (`ExitCompletes`), read lists drain (`ReadListDrains`), an item that is no longer looked up is deleted (`ColdItemDeleted`). |
| `smp_file_position` | 2 CPUs | `FileHoldsChunk` fails on two CPUs, against a comment of the code: an item that pass 1 counts and pass 2 skips shifts the file against the bitmap. |

All parts of `WriterSafe` fail on two CPUs as well. An item left with `cpuid` -2 by a lookup
between the passes is not counted by the next pass 1 but copied by its pass 2, past the buffer,
although the comment at `hash_table.c:549` says that the mark is there to prevent this. A hit
between `wr_file`'s flag update and its free leaves an item in state 4 without memory, and its
deletion reaches "you can't arrive here" (`hash_table.c:170`). Checking `WriterSafe` with the
instance of `smp_file_position` shows both.

### Bounds

`MaxRead` bounds the read list of a handler (1: a second entry adds a second
reference of the same handler, which the proof covers), `MaxRef` and `MinRef` bound
`refcnt` from above and below, `MaxFile` stops new lookups once a file has that many
blocks; `ShortWrite` lets `kernel_write` write less than it was given, in `store_up` only, the
run whose property is about the contents of files; `bitmap_size` is small enough that the bitmap fills up. The limits
`ITEM_DISK_LIMIT` and `ITEM_VIP_LIMIT` are scaled to 2 and 4, which keeps all bands of
`refcnt` (deletable, in memory, to be written, permanent) non-empty. Two
CPUs are enough for every race between two reader sections, or between one and a timer;
the proofs do not depend on these numbers.

### Fairness

`FairSpec` assumes that threads which can run again and again do run (the kernel
scheduler; a lock that is released again and again is obtained), that timers which are
armed expire, and that a packet has finitely many chunks. It does not assume that packets
arrive or that the module is unloaded.

## 3. SkbPipeline: the way of a packet

`SkbPipeline.tla` follows the copy of a packet from the probe to the resend, on every CPU,
and `mexit` up to the end of `skb_wq`.

| variable | code |
|---|---|
| `fresh`, `arrived` | packets still to come; history of what was captured on each CPU |
| `skb_list`, `work`, `wq` | the per-CPU list, whether the per-CPU work item is pending, the per-CPU queue of `kread_queue` (whose items are named by the CPU they belong to) |
| `tpc`, `hand_list`, `chunked` | where the queue's thread is, its local list, progress of the `get_partition` loop |
| `resent` | packets of each CPU's list handed to `ip_rcv_finish`, in order |
| `mpc`, `cpu`, `rem` | `mexit` and the variables of `clear_remainder_skb` |

`Ignore` and `Capture` are `jpf_ip_rcv`; `RunWork` is the kernel's work queue; `TakeList`,
`Partition`, `ReadData`, `ResendSkb`, `HandleEnd` are `handle_skb`; `Unregister`,
`FlushWorkqueue`, `ClearCpu`, `ClearAgain`, `DestroyWorkqueue` are `mexit` with
`clear_remainder_skb`. `queue_work` puts an item on the CPU of its caller; from the probe
that is the list's CPU, from `mexit` it is any.

- `skb_pipeline` (2 CPUs, 3 packets, `Threshold` 2 instead of 10000, so that a list can
  outgrow one handler): `InOrder` (nothing lost, doubled or overtaken on a CPU),
  `ClearedMeansDrained` (the store is torn down after the last handler), and under fairness
  `PacketResent` and `UnloadEnds`. All hold. The last two are stated for lists that stay within
  one handler's share: beyond it `handle_skb` leaves packets behind and queues nothing.
- `skb_unload_livelock`: without that restriction unloading need not end. `mexit` queues the
  other CPU's work item on its own CPU, where `handle_skb` finds its own list empty.

`FairSpec` assumes that the threads of the work queue are scheduled and that `mexit`, once
started, goes on. It assumes neither that packets arrive nor that `mexit` moves between CPUs,
which the code does nothing to ensure. A failed allocation in the probe or the handler is a
`BUG()`, a behaviour that stops.

## 4. Sha1Pool: the descriptor pool

`Sha1Pool.tla` has the lock's critical sections of `sha.c` as actions and the building and
freeing of a pool, which happen outside the lock, as actions of their own. `tcp_sha1sig_pool`
and `tcp_sha1sig_users` are the code's; `live` is the set of allocated pools; each owner
(`tcp_alloc_sha1sig_pool`, `tcp_free_sha1sig_pool`) and each hasher
(`tcp_v4_sha1_hash_data`) has a program counter and a pool in its hands.

An owner allocates in `minit` and frees in `mexit`. When its allocation fails, `minit` goes to
`err_sha1siq_pool`, which calls `tcp_free_sha1sig_pool` for a reference that was never taken, and
returns 0, so that `mexit` calls it once more (`CallsFree`; `kernel_hash/main.c:99` to `114`,
`send_module/main.c:71` to `82`). `stray` counts these frees; the unsigned `tcp_sha1sig_users`
wraps modulo `Word`. An owner loads and unloads once, for a reloaded module has fresh static
variables.

Run `sha1_pool` (3 owners, 2 hashers, 3 pools, all symmetric, `Word` 16). Always: the user count is
the number of references less the stray frees, modulo `Word` (`UsersCounted`); every allocated pool
is published or in exactly one thread's hands (`NoPoolLeaked`). As long as the count is `Sound`,
that is nobody has freed without a reference, or somebody has but only one owner ever allocated,
as in both modules: the pool somebody hashes with is allocated and the published one (`PoolAlive`);
the branch "oops, it has already been assigned" is never needed (`NeverAssignedTwice`). The retry
loop waits only for somebody who is building, or else another owner's stray frees have wrapped the
count and it waits for nobody (`RetryJustified`). With several owners a stray free does break the
pool: it can take it away from an owner and its hashers; that is what `Sound` excludes. Three owners
allow one to free, one to build and one to retry at the same time; a third pool is needed when one
is being freed while another is built.

## 5. Partition: cutting a payload

`Partition.tla` runs `get_partition` on one payload: `FirstWindow` and `Scan` are
`calculate_partition`, `BuildCut` and `BuildTail` the loop and the branches after it. Integers
keep their width: the hash is computed modulo `Word` (2^64 in the code) before it is reduced
modulo `Q`, bytes are signed. `built` records the calls of `build_hash`.

Run `partition`: every payload of up to 9 bytes over {-3, 0, 1}, window and step 3, a fifo of 2
cuts, so that the third is dropped. The rolling hash equals the hash of the window, a polynomial
computed without any wrap-around, and the fifo holds the reference cuts, or the first ones
(`CutsExact`); the chunks tile the payload, also when cuts were dropped, and no chunk but the last
is too short for the store (`Tiled`), which needs the relation between `SHALEN`, `chunk_num` and
`CHUNKSTEP` that the code's constants (20, 32, 32) have.

## 6. Lifecycle: load and unload

`Lifecycle.tla` walks through `minit` of wspack or wspack_send with a failure possible at every
allocation, the chain of labels, and `mexit`. `ptr` is what the module's static pointers say (null,
valid, an error value, stale), `held` what the kernel still holds for it; a release that relies on a
pointer that is not valid crashes. `AllocOrder_*`, the labels
`err_*`, `ReleaseTable` and `ExitOrder_*` are the orders in the code.

Run `load_unload` (2 CPUs, 277 states, all paths) gives the exact picture:

- a load without failures and an unload release everything once, but for `bucket_clear`, which is
  never freed (`Leftovers`, `NoBadRelease`);
- a failure in `alloc_slab` or `alloc_bitmap`, or to open the last file, leaves only `skb_wq`
  (`Leftovers`); to open an earlier file crashes in `fput(NULL)`;
- a failure in `initial_hash_table_cache` or to register a hook crashes, because the labels release
  what was just not set up; `NoBadRelease` lists these cases;
- a failure to allocate the pool returns 0: `tcp_sha1sig_users` has wrapped, the module counts as
  loaded, and unloading it releases everything a second time;
- a failure to register the probe leaves timers and hooks in place.

The same holds for wspack_send, which has copied the labels.

## 7. Send: the sender, and the cache it implements

`Send.tla` has one process and one softirq context of the hook per CPU (`ctx`, the hook's local
variables), the table (`linked`, `sha1`, `refcnt`, `hash_count`), the armed `timers`, the SHA-1
descriptor `desc` of each CPU, and how far `minit` and `mexit` have come (`mod`, `pool`). A softirq
runs to its end on top of the process of its CPU, anywhere but under a lock.

| actions | code |
|---|---|
| `Hook`, `BuildHash`, `Partitioned`, `Leave` | `nf_out`, `get_partition`, `build_hash` |
| `HashInit`, `HashUpdate`, `HashFinal`, `HashFails` | the calls of `tcp_v4_sha1_hash_data` on the shared descriptor |
| `Lookup`, `ReadCount`, `NewItem`, `Link` | `get_hash_item`, `hash_new_item`, `_hash` |
| `AddSum`, `AddSave` | the statistics and the `replace_item` |
| `BucketClear` | `bucket_clear_item` |
| `AllocPool`, `UnregisterHook`, `Flush`, `DelTimers`, `Destroy` | the end of `minit`, `mexit` |

A digest is what the descriptor has absorbed, so a hash that a softirq disturbs gives a digest of
something else (`torn` remembers which). `replace_skb` is the operator `ReplaceSkb`; its copies are
commented out in the code, so that packets leave as they came; `wire` holds the chunks that would
still be in them.

Run `send` (a process and a softirq on one CPU, a process on another, two packets from {b, a s a},
where s is too short to be replaced, two buckets, a limit of zero):

- `RefersToSent`: a chunk that is to be replaced has left in full before, or is in a packet that a
  hook still has in hand, unless a softirq disturbed its own hash; whether the entry it was found
  by comes from a disturbed hash does not matter. The second case is real: the table learns a chunk
  before its packet leaves, so the reference may overtake it. So is the exception:
  `tcp_v4_sha1_hash_data` does not disable softirqs.
- `ReplaceFits`: `replace_skb` reaches no `BUG()`, and ends two bytes per replaced chunk before
  `new_len`, which is reckoned with `SHALEN + 2`.
- `CountExact`: the counters; the limit is exceeded by at most one item per context.
- `TeardownClean`: when the caches are destroyed they are empty, but for the digest buffers that
  `build_hash` leaves behind when a hash fails; that happens to packets between the registration of
  the hook and the allocation of the pool.
- `CacheSpec`: `Send` implements `DedupCache` (below).
- `Forgets`: the table empties again and again once packets stop. Fairness: a hook that has begun
  goes on, an armed timer expires, loading goes on.

`DedupCache.tla` is what the table promises: a set of digests that may forget. A client asks
(`Ask`), is told whether the digest is known, and then refers to it (`Refer`) or teaches it
(`Teach`, in vain when the table is full). The refinement mapping takes `known` to the digests of
linked items and `reply` to what the hook in each context has been told and has not yet acted upon.
Two hooks that add one digest twice, timers between lookup and use, and the flush are all steps of
`DedupCache` or stutter.

Bounds: two packets with up to two equal chunks make hits within a packet, across contexts and after
a deletion; three items are the most the limit of zero lets three contexts allocate.

## 8. Hashmap and Pack: the prototypes

`Hashmap.tla` has the functions of `darray.c` and `hashmap.c` as operators; keys are compared by the
set of keys that the program's comparison finds equal. What allocates memory returns the set of its
outcomes: `DArray_resize` sets `max` before a `realloc` that may fail, `Hashmap_set` fails without a
bucket or a node and does not notice that `DArray_push` could not make room. `Pack.tla` has three
programs, chosen in `prog`:

- `pack` and `winn_pack`: `Packet` is a turn of the loop of `main` and `printPcap` up to the part
  points (`pack_calculate_part`, `winn_calculate_part`), `NoPoint`, `FirstPoint`, `NextPoint` and
  `StoreRest` are the cases of `pack_SHA`, `remain_SHA` and `Cleanup` the end. A file that ends within
  a packet makes `main` free its buffer, read it once more and free it again (`freed`). `remain` is
  the buffer of `chunk.c` with its content, limit, allocated size and `over`, the most bytes written
  past its block so far; `kv` is the array of keys; `kv.moves` counts how often `realloc` moved it,
  and a key of the Hashmap with another count dangles (what a comparison makes of it is left open).
- `tcpre`: `read_file` takes a line, `calculate_hash` samples its windows; `tcpre.found` is where in
  the line it has counted a block.

`pack` ignores the result of `Hashmap_set`, `tcpre` gives up. After a failed allocation (`oom`) the
programs go on as the code does, but nothing more is claimed of `pack` and `winn_pack`. `Slack` is
what an allocator leaves unused behind a block: a program that has written further may stop at any
time (`HeapDamaged`), and nothing is claimed of it either. In the code a buffer of 30000 bytes has a
few such bytes, one grown by `chunk_merge` need not have any.

Run `pack`: all captures of up to eight bytes over {0, 3} in packets of up to seven, so that a packet
has up to three part points, `step` and `THRESHOLD` reject some, and up to four packets are joined;
of {00, 03, 30, 33} one is a part point by its hash, one by its neighbours, one by both and one is
none. Windows of two bytes, keys that grow after two, a buffer that grows after two bytes, buckets
that grow, and shrink again, by two.

- `RemainFits`: the buffer of the remaining data is overrun, but by no more than the two bytes of
  `chunk_merge` (it allocates one byte less than it copies and zeroes one more), or by what the rest of a
  single packet exceeds the first buffer by: `chunk_store` does not compare (a payload has up to
  36000 bytes, the buffer 30000).
- `Conserved`: the chunks are the stream, whatever the packets.
- `ChunksLong`: the distance of part points is kept within a packet and across packet boundaries.
- `SavedExact`: `save_len` is exactly what is repeated, until the keys are moved. After that it need
  not be: `keyvalue_resize` leaves the nodes of the Hashmap with pointers into the old block.
- `MapFinds`: every key is found, also after a deletion has moved a node; buckets have room.
- `NoDoubleCount`: the blocks that `tcpre` finds again in a line are disjoint, although it compares
  bytes one place before the window it has hashed.

## 9. Netlink: from kernel to kernel

`Netlink.tla` composes `lx_kernel.c`, the client, TCP, the server and `send_kernel.c`. The daemons
exist in two generations (`gen`): `client_old` and `server_old` use socket calls, `client` and
`server` use libnl. A message is a sequence of pieces, so that TCP can split and join.

| part | state | actions |
|---|---|---|
| `lx_kernel.c` | `rloaded`, `timer`, `stray`, `pid`, `handler` | `LoadReceive`, `StrayTimer`, `send_message`, `data_ready` (within `ClientAsk`), `data_reply` |
| client and its socket | `cpc`, `count`, `taken`, `shook`, `sent`, `edge`, `overrun` | `ClientStart_*`, `ClientAsk`, `ClientCheck`, `ClientRetry`, `ClientConnect`, `event_handler`, `ClientError`, `ClientLoopExit` |
| TCP | `conn`, `wire` | `TcpDeliver`, `TcpBreak` |
| server, `send_kernel.c` | `spc`, `sloaded`, `inbuf`, `reading`, `send_nlh`, `passed`, `dropped`, `log` | `LoadSend`, `ServerStart_*`, `ServerAsk_*`, `ServerRun`, `ServerAccept`, `read_cb` |

Faults: allocations in the kernel, the load of `lx_kernel.c` and every `sendmsg` of a daemon may fail
(`MaxFails` in all), a full or closed socket loses messages, a full one also makes the owner's next
read fail (`ENOBUFS`, `overrun`), the timer fires between the two halves of the handler, the
connection breaks, modules are loaded late or never. Where the code has no defined behaviour (a
timer left running by a load that failed, `lx_kernel.c:112-116`; a reply that could not be allocated
and is filled in all the same, `send_kernel.c:37`; a line of `MAX_PAYLOAD` or more, which the message
cannot hold with its terminator; a libnl socket that is used after it was freed; an event with a
freed bufferevent) `undefined` is set and the behaviour stops; the properties are claimed up to
there. A handler is taken to last less than the 10 s between two expiries of the timer.

Run `netlink` (4 timer messages, a socket for 3, 2 failures, lines of 6 pieces, room for 5 with the
terminator):

- `Faithful`: `read_cb` passes on, in order and without gaps or leftovers of earlier lines, what the
  client took from its socket; nothing is missing while the connection stands. `send_kernel.c` logs
  exactly that as long as no `sendmsg` failed; nobody looks at the result of `sendmsg`
  (`server_old/lib/lx_netlink.c:123`), so a line that could not be sent is a gap in the log.
- `GivesUpAfterLoss`: the client gives up only after a request or a reply was lost. Timer messages
  ahead of the reply and failing reads cost it attempts, never the handshake, because each attempt
  adds a reply.
- `HandshakeEnds`: a handshake that reached the module ends even if its reply is lost: the pid is
  recorded first, so the next timer message ends the blocking read. Exception: a timer that could
  not allocate its message is not armed again (`lx_kernel.c:31`).
- `Logged`: what was written to a connection that does not break is logged, unless a `sendmsg`
  failed.

Fairness: kernel handlers return, armed timers expire, daemons that can go on do, a connection
that stays up delivers. Loading, starting and breaking are not assumed.

What the model also shows: the handshake of the new client never ends with a loaded module, since it
sends type 0x10 + 2, which "is the same for kern/usr" (`receive/client/lib/lx_netlink.c:13`) while
`lx_kernel.c:7` expects 0x10 + 3; that of the new server neither, since its request has the type of
a payload and is logged as one. The old client blocks for ever when it starts before the module is
loaded, although `main` has a message for that case. The edge-triggered event reads one message,
so messages that were queued before it wait for the next one. The retries of the server cannot
happen: nothing but the reply is ever sent to it.

## 10. What is proved

Every theorem holds for all values of the constants that the `ASSUME`s of its module allow. Each
inductive invariant was checked by TLC on the instance of the component's run before it was proved.
The proofs have one lemma per action, and under it a step per conjunct that the action can disturb.
The type invariants (`TypeOK`) are part of the inductive ones and are proved; no run lists them.

| module | theorem | states |
|---|---|---|
| `ChunkStoreProofs` | `StoreInvariant`, `TypeCorrect` | `StoreInv`, `TypeOK` |
| | `ReferencesCounted`, `MemorySafe` | `PinsCounted`, `NoUseAfterFree` |
| | `RaceInvariant` | `RaceInv` |
| | `RacesAreBounded`, `BitmapIsExact`, `ExtentsAreStable`, `NothingLeft` | `RacesBounded`, `BitmapExact`, `ExtentStable`, `CleanDestroy` |
| | `UpInvariant`, `EvictedIsStored`, `WriterIsSafe` | on one CPU: `UpInv`, `FileHoldsChunk`, `WriterSafe` |
| `Sha1PoolProofs` | `PoolInvariant`, `PoolUsersCounted`, `PoolNotFreedInUse`, `PoolFreedOnce`, `PoolAssignedOnce`, `RetryOnlyForBuilder`, `OnlyOwner` | `PoolInv`, `UsersCounted`, `PoolAlive`, `NoPoolLeaked`, `NeverAssignedTwice`, `RetryJustified` |
| `SkbPipelineProofs` | `PipelineInvariant`, `PipelineTypeCorrect`, `PacketsInOrder`, `UnloadDrains` | `PipelineInv`, `TypeOK`, `InOrder`, `ClearedMeansDrained` |
| `PartitionProofs` | `PartitionInvariant`, `ChunksTile` | `PartitionInv`, `Tiled` |
| | `ExactInvariant`, `CutsAreExact`, `PartitionTypes` | `ExactInv`, `CutsExact`, `TypeOK` |
| `LifecycleProofs` | `LoadInvariant`, `ReleasesAreSafe`, `LeavesLittle`, `LifecycleTypes` | `LoadInv`, `NoBadRelease`, `Leftovers`, `TypeOK` |
| `SendProofs` | `SendInvariant`, `SendTypeCorrect`, `CountersExact`, `UnloadClean`, `ReplacementFits` | `SendInv`, `TypeOK`, `CountExact`, `TeardownClean`, `ReplaceFits` |
| | `SentInvariant`, `OnlySentReplaced` | `SentInv`, `RefersToSent` |
| | `ImplementsCache` | `Spec => CacheSpec`: `Send` implements `DedupCache` |
| `NetlinkProofs` | `NetInvariant`, `LoggedIsSent`, `GivesUpOnlyAfterLoss` | `NetInv`, `Faithful`, `GivesUpAfterLoss` |

### ChunkStore, any number of CPUs

`NoUseAfterFree` is not inductive: that an item held by a handler is allocated depends on
why the timer could not have freed it. `StoreInv` adds those reasons. Between the walk of
`get_hash_item` and its `atomic_inc` it is the bucket's read lock (`HandlerOK`: the item is
linked in the bucket of the chunk; `Unlocked` keeps the timer out). From the `atomic_inc`
on it is `share_ref` (`PinsCounted`: `share_ref` is one more than the number of references,
so a timer that sees 1 frees an item nobody refers to). Between `hash_new_item` and `_hash`
it is that no other thread knows the item. A writer's walk is protected by the lock alone
(`WriterOK`). After the last handler nothing refers to an item (`ExitInv`), so `hash_flush`
may free everything. `DeleteItems` states once what both deletions need, `QuietHandler` what
the handler steps without a reference change need, `PinsTaken`, `PinsDropped` and `PinsMoved`
how the number of references changes.

`RaceInv` is inductive relative to `StoreInv`. `LinkedOrNew`: every allocated item is linked or in
the hands of the handler that is about to link it. `CountInv`: `hash_count` is the number of
allocated items, and together with the handlers that have passed the unlocked check and not yet
counted their item it exceeds the limit by at most the number of CPUs. `DuplicatesBounded` counts
copies of a chunk together with the handlers that have missed it in the same way: a lookup misses
only when every copy is another handler's that has not linked it yet. `DiskInv`: only an item in a
state on the way to disk or on it has a place in a file, and the item that pass 3 works on has one.
With these `BitmapExact` is preserved (a deletion clears the bits of what it frees and no others),
`ExtentStable` holds of every step, and `ExitOrder` says what each phase of the unload has finished.

### ChunkStore on one CPU

`FileHoldsChunk` and `WriterSafe` are false on two CPUs (section 2), so the theorems have the
hypothesis `NumCpus = 1`; everything else stays general. `UpInv` relates the three passes of
`wr_file`. `Marked` are the items that pass 1 has counted and pass 2 has not yet copied, and
`MarkedBlocks` their blocks: `all_size` is the length of `copy_mem` plus the number of
`MarkedBlocks`, which is why pass 2 fits. `bitmap_index` is the length of the file plus that of
`copy_mem`, which is why a place handed out by pass 2 is where `kernel_write` will put the block;
a short write puts nothing else there (`StoredShort`).
The chunk of an item is in memory or at the place it names, in its file or in what is about to be
appended to it; an item in state 4 without memory has a handler that will read it (`UpItemOK`). What
a second CPU breaks is the last conjunct of `UpHandlerOK`: the handler and the writer are never
inside a bucket lock at the same time.

### Sha1Pool

`UsersCounted` and `NoPoolLeaked` are inductive with `OwnerOK`, which ties what an owner holds and
how often it has freed without a reference to where it is: sets of owners and threads are counted
(`Joined`, `Left`, `Strayed`), and `Word` is assumed larger than what can be counted. For the rest
`OneBuilder` has to be added: while the count is sound, an owner builds only after it has raised the
count from zero, so at most one builds at a time, nothing is published meanwhile, a published pool
always has a user, and when the only owner has failed there is no pool. A count once unsound never
becomes sound again (`SoundBefore`), and while a pool is published a sound count is one that nobody
has falsified (`CleanIfPublished`). The lemmas `Dropped` and `Destroyed` state once, for owners and
hashers, what leaving and freeing do. `OnlyOwner` restates the result without `Sound` for the one
owner the modules have.

### SkbPipeline

`PipelineInv` adds to `InOrder` that a thread without a handler has an empty `hand_list` (`HandOK`),
that a pending work item is in some queue (`QueuedOK`), and how far `clear_remainder_skb` has come:
as long as its round has met only empty lists it has queued nothing, so nothing runs and those lists
stay empty (`ClearOK`). From this follows that the store is torn down after the last handler, with
lists of any length and any `Threshold`.

### Partition

`CutsInv`: two cuts in the fifo are at least `CHUNKSTEP` apart, the first is not before the end of
the first window, and `delay_time` keeps the next one away from the last. `BuiltInv`: while the
chunks are built, the rest of the fifo lies beyond `end_pos`, and `end_pos` ends the last chunk.
No property of the hash is used, so `ChunksTile` holds wherever the content puts the cuts.

`CutsExact` is about the hash. The proof never computes a remainder: it works with congruence
modulo `Q` (`CongAdd`, `CongMul`, `CongTrans`), and since `Q` = 2^60 divides the modulus of
`unsigned long`, 2^64, neither the wrap-around of a product nor the reduction after it leaves the
congruence class (`CongWrap`, `Wrapped`). `FirstHash`: the loop of `pack_hash`, which goes through
the window from the front, is congruent to the polynomial. `LeadingPower`: so is `RM` to
`R^(chunk_num - 1)`. `WindowMoves` says how the polynomial changes when the window moves by a byte,
and with it `RollExact` that the update does the same; two congruent values below `Q` are equal
(`CongEqual`). `CutsExact` alone is not inductive: whether the next candidate is a cut depends on
`delay_time`. `ExactInv` adds that it is the distance to the place where a cut may follow the last
reference cut (`Wait`), which is not always in the fifo: a cut that found the fifo full still delays
the next one. `CutMoves` is the step of the loop.

### Lifecycle

`LoadInv` has a part for each stretch of the way. `Acquired`: `minit` holds exactly what precedes
`next` in its order of allocation. `Accounted`: what is held is still to be released by the labels
or by `mexit`, but for what the code forgets. `Safe`: after a failure that the code handles,
everything still to be released is there, or is skipped. `Proper`: nothing is to be released twice,
nor the table before `hash_flush` walks it, so that a release keeps the next ones safe. `Returned`:
`minit` returns zero only if nothing failed, or if the pool did. The kernel holds exactly what the
valid pointers name. The number of CPUs and of slab caches is arbitrary, so the orders are sequences
of any length; they are concatenations of blocks, and the lemmas about a block say which resources
are in it and which come first (`BlockConcat`, `AllocBlock`, `LabelBlocks`, `ExitBlock`).
`UnwindReleases` then compares, for every allocation that may fail, what `minit` holds by then with
what the label it jumps to releases.

### Send

`SendInv` says, for every hook, what it knows of its chunk and of the descriptor it shares with a
softirq (`HookOK`), that an item about to be linked is its own and has its digest (`LinkOK`), and
that the `replace_item`s listed so far fit the packet (`FitsSoFar`); for all hooks together,
how `hash_count`, the digest buffers and `save_num` follow from where they are (`CountInv`); and
what the unload has already stopped (`ExitInv`). The loop of `replace_skb` is a recursive function
over the list; its result for a list that grows by one item is the lemma `ReplacedAppend`.

`RefersToSent` relates a chunk in one packet with a packet that may be long gone. `SentInv` follows
a digest on its way: from the hook that hashes a chunk (`WholeOK`: a hash that is not torn is that
of the chunk) to the descriptor (`DescOK`), the table (`TableOK`), a hook that finds it there
(`DigestOK`) and the list of what is replaced (`ReplacedOK`). Wherever the digest of a chunk is
found, torn or not, the chunk is the one at hand or is in `Kept`: it is long enough to be replaced
and has left in full, or will. `PlaceOK` says that what has been replaced lies before the chunk at
hand, so that a chunk dealt with in full stays so.

`ImplementsCache`: under the mapping of section 7 every step of a hook, a timer or `mexit` is a step
of `DedupCache` or leaves `known` and `reply` alone. The invariant supplies what a step alone does
not show: the item that is linked has the digest the hook was told is unknown, and a softirq that
disturbs a hash still leaves a digest.

### Netlink

`HandshakeInv`: before a reply is sent, at most one timer message gets ahead of it, because the
handler lasts less than the period of the timer; so, unless a reply was lost, one of the first two
messages is a reply, and the client, which has taken as many messages as it has failed attempts,
meets it before its third. An attempt whose read failed took no message, but the socket stays full
until a read succeeds (`Full`), so the reply to the next attempt is lost. `StreamInv`: each piece of
a message that `event_handler` took was passed on by `read_cb`, is in the server's buffer or on the
wire, in this order, until the connection breaks; nothing is read afterwards. The queue, the lines,
the number of messages and of failures are arbitrary.

### Induction over data

Recursive functions (`Replaced`, `Sum`, `Pieces`, and in Partition `PackHash`, `RM`, `Power`,
`WindowHash`, `CutsBefore`) are reasoned about through `ProofLib`: a
non-empty set of natural numbers has a least element (`Least`), so a loop whose turns stay in a set
can be run (`LoopExists`) and two loops in step agree (`InStepAgree`). `CountOne` and `SumOne` say
how a count or a sum over contexts changes when one of them moves; `CatAssoc` keeps concatenations
apart from the provers' own rules for sequences.

### Assumptions

The `ASSUME`s on the constants: positive sizes, `BucketOf` a function to the buckets, positive chunk
lengths, the order of the two limits, the relation between `SHALEN`, `chunk_num` and `CHUNKSTEP` that
the code's values have, that `Q` divides `Word` (2^60 and 2^64 in the code), finitely many
items, packets, contexts, owners and hashers, and that owners and hashers are different
threads. TLC evaluates all of them on the instances of the runs.

Not stated as formulas: SHA-1 is injective; a payload fits `play_data` and has fewer than `PLEN` part
points, neither of which `printPcap` checks before it copies.

### What is only model-checked

- Liveness, which the prover does not do: `ExitCompletes`, `ReadListDrains`, `ColdItemDeleted`,
  `PacketResent`, `UnloadEnds`, `Forgets`, `HandshakeEnds`, `Logged`.
- `RemainFits`, `Conserved`, `ChunksLong`, `SavedExact`, `MapFinds`, `NoDoubleCount` of Pack: the prototypes are
  single-threaded, and what is hard about them is what their folds over byte strings compute. Each
  fold would need its own lemmas in the manner of `PackLoops` and `CutsLoops`.

## 11. Plan

1. The invariants of Pack, with the lemmas on loops that `CutsExact` uses.
2. Unloading of the netlink modules and of a second client in `Netlink`.
