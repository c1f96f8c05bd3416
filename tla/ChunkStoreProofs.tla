-------------------------- MODULE ChunkStoreProofs --------------------------
(***************************************************************************)
(* TLAPS proofs about ChunkStore, for every number of CPUs, buckets,       *)
(* locks, chunks and items.                                                *)
(*                                                                         *)
(* StoreInv is inductive; NoUseAfterFree, PinsCounted and TypeOK follow    *)
(* from it.  RaceInv is inductive relative to StoreInv: how far the        *)
(* unlocked checks of hash_new_item and hand_hash can be overtaken, that a *)
(* bitmap holds exactly the bits of the items stored in its file, that an  *)
(* item never moves in its file, and that release_hash_table_cache leaves  *)
(* nothing behind.  On one CPU also UpInv is inductive: the three passes   *)
(* of wr_file agree, and the file holds what the items say.                *)
(***************************************************************************)
EXTENDS ChunkStore, FunctionTheorems, ProofLib

-----------------------------------------------------------------------------
(* Constants *)

\* A chunk takes at least one block.
LEMMA NumPositive == ASSUME NEW ch \in Chunks PROVE Num(ch) \in Nat \ {0}
<1>1. ChunkLen[ch] \in Nat \ {0} /\ CHUNKSTEP \in Nat \ {0}
  BY ChunkAssumption, SizeAssumption
<1>2. CASE ChunkLen[ch] <= CHUNKSTEP
  BY <1>2 DEF Num
<1>3. CASE ~(ChunkLen[ch] <= CHUNKSTEP)
  <2> DEFINE s == ChunkLen[ch] + CHUNKSTEP - 1
  <2>1. s \in Nat /\ s >= CHUNKSTEP BY <1>1, <1>3
  <2> HIDE DEF s
  <2>2. \A a \in Nat, d \in Nat \ {0} : a >= d => a \div d \in Nat /\ a \div d >= 1
    OBVIOUS
  <2>3. s \div CHUNKSTEP \in Nat \ {0} BY <1>1, <2>1, <2>2
  <2>4. Num(ch) = s \div CHUNKSTEP BY <1>3 DEF Num, s
  <2> QED BY <2>3, <2>4
<1> QED BY <1>2, <1>3

\* The memory class of a chunk is one of mem_style's values.
LEMMA MemStyleType == \A len : MemStyle(len) \in 0 .. 3
BY DEF MemStyle

\* Cpus and Buckets are not empty, and a bucket's home is a CPU.
LEMMA Indices == 0 \in Cpus /\ 0 \in Buckets /\ Cpus \subseteq Nat /\ Buckets \subseteq Nat
BY SizeAssumption DEF Cpus, Buckets

\* Updating one field of an item.
LEMMA FieldUpdate ==
    ASSUME NEW r \in ItemRec
    PROVE  /\ \A v \in {-2, -1} \cup Cpus : [r EXCEPT !.cpuid = v] \in ItemRec
           /\ \A v \in 0 .. 4 : [r EXCEPT !.flag_cache = v] \in ItemRec
           /\ \A v \in Int : [r EXCEPT !.refcnt = v] \in ItemRec
           /\ \A v \in Nat : [r EXCEPT !.share_ref = v] \in ItemRec
           /\ \A v \in Nat : [r EXCEPT !.start = v] \in ItemRec
           /\ \A v \in -1 .. 3 : [r EXCEPT !.mem_style = v] \in ItemRec
           /\ \A v \in DataState : [r EXCEPT !.data = v] \in ItemRec
           /\ \A v \in {0, 1} : [r EXCEPT !.flag_mem = v] \in ItemRec
BY DEF ItemRec

\* The fields that carry an item's identity and its reference count survive the others.
SameRef(r, s) == r.sha1 = s.sha1 /\ r.share_ref = s.share_ref
LEMMA FieldKeeps ==
    ASSUME NEW r \in ItemRec
    PROVE  /\ \A v : SameRef([r EXCEPT !.cpuid = v], r)
           /\ \A v : SameRef([r EXCEPT !.flag_cache = v], r)
           /\ \A v : SameRef([r EXCEPT !.refcnt = v], r)
           /\ \A v : SameRef([r EXCEPT !.start = v], r)
           /\ \A v : SameRef([r EXCEPT !.mem_style = v], r)
           /\ \A v : SameRef([r EXCEPT !.data = v], r)
           /\ \A v : SameRef([r EXCEPT !.flag_mem = v], r)
           /\ \A v : [r EXCEPT !.share_ref = v].sha1 = r.sha1
           /\ \A v : [r EXCEPT !.share_ref = v].share_ref = v
BY DEF ItemRec, SameRef

\* Updating one item.
LEMMA ItemUpdate ==
    ASSUME item \in [Items -> ItemRec], NEW i \in Items, NEW r \in ItemRec,
           item' = [item EXCEPT ![i] = r]
    PROVE  /\ item' \in [Items -> ItemRec]
           /\ item'[i] = r /\ \A j \in Items \ {i} : item'[j] = item[j]
OBVIOUS

\* Updating one item, or none, without touching its identity and reference count.
LEMMA ItemKeeps ==
    ASSUME item \in [Items -> ItemRec], NEW i \in Items, NEW r \in ItemRec,
           SameRef(r, item[i]), item' = [item EXCEPT ![i] = r] \/ item' = item
    PROVE  item' \in [Items -> ItemRec] /\ \A j \in Items : SameRef(item'[j], item[j])
BY DEF SameRef

-----------------------------------------------------------------------------
(* References *)

Refs == Cpus \X (0 .. MaxRead)

\* An item has finitely many references.
LEMMA PinsFinite ==
    \A i : IsFiniteSet(Pins(i)) /\ Cardinality(Pins(i)) \in Nat
<1> SUFFICES ASSUME NEW i PROVE IsFiniteSet(Pins(i)) /\ Cardinality(Pins(i)) \in Nat
  OBVIOUS
<1>1. IsFiniteSet(Cpus) BY SizeAssumption, FS_Interval DEF Cpus
<1>2. IsFiniteSet(0 .. MaxRead) BY SizeAssumption, FS_Interval
<1>3. IsFiniteSet(Refs) BY <1>1, <1>2, FS_Product DEF Refs
<1>4. Pins(i) \in SUBSET Refs BY DEF Pins, Refs
<1>5. IsFiniteSet(Pins(i)) BY <1>3, <1>4, FS_Subset
<1> QED BY <1>5, FS_CardinalityType

\* Membership in Pins, pair by pair.
LEMMA PinsMember ==
    ASSUME NEW i, NEW c \in Cpus, NEW k \in 0 .. MaxRead
    PROVE  <<c, k>> \in Pins(i) <=> Holds(c, k, i)
<1>1. <<c, k>> \in Cpus \X (0 .. MaxRead) OBVIOUS
<1> QED BY <1>1 DEF Pins, Holds

-----------------------------------------------------------------------------
(* Frames *)

\* A step that leaves the handlers, the table and every item's hash and reference
\* count alone preserves what speaks of them only.
LEMMA HandlerFrame ==
    ASSUME StoreInv, UNCHANGED <<tableVars, handlerVars, phase>>, item' \in [Items -> ItemRec],
           \A i \in Items : SameRef(item'[i], item[i])
    PROVE  HandlerInv' /\ TableInv' /\ ExitInv' /\ PinsCounted'
<1> USE DEF StoreInv, tableVars, handlerVars, SameRef
<1>1. slab \subseteq Items BY DEF TypeOK
<1>2. HandlerInv' BY <1>1 DEF HandlerInv, HandlerOK, TypeOK
<1>3. TableInv' BY <1>1 DEF TableInv, TypeOK
<1>4. ExitInv' BY DEF ExitInv
<1>5. PinsCounted'
  <2>1. \A i : Pins(i)' = Pins(i) BY DEF Pins, Holds
  <2> QED BY <1>1, <2>1 DEF PinsCounted
<1> QED BY <1>2, <1>3, <1>4, <1>5

\* A step that leaves the writers alone and removes no item of a bucket that a writer
\* has locked preserves the writers' invariant.
LEMMA WriterFrame ==
    ASSUME StoreInv, UNCHANGED writerVars,
           \A c \in Cpus : WriterLocked(c) => hash_tab[wbkt[c]] \subseteq hash_tab'[wbkt[c]]
    PROVE  WriterInv'
BY DEF StoreInv, WriterInv, WriterOK, writerVars, WriterLocked

-----------------------------------------------------------------------------
\* StoreInv holds when the module has been loaded.
LEMMA StoreInit == Init => StoreInv
<1> SUFFICES ASSUME Init PROVE StoreInv OBVIOUS
<1> USE DEF Init
<1>1. TypeOK
  <2>1. FreeItem \in ItemRec BY DEF FreeItem, ItemRec, DataState
  <2>2. \A S : << >> \in Seq(S) OBVIOUS
  <2> QED BY <2>1, <2>2, Indices DEF TypeOK, HandlerPc, WriterPc, PanicState
<1>2. HandlerInv BY DEF HandlerInv, HandlerOK
<1>3. TableInv BY DEF TableInv
<1>4. WriterInv BY DEF WriterInv, WriterOK, WriterLocked
<1>5. ExitInv BY DEF ExitInv
<1>6. BitsInv BY DEF BitsInv
<1>7. PinsCounted BY DEF PinsCounted
<1> QED BY <1>1, <1>2, <1>3, <1>4, <1>5, <1>6, <1>7 DEF StoreInv

-----------------------------------------------------------------------------
(* Writer steps.  Each leaves the handlers and the table alone. *)

\* Type correctness of a writer step, from the types of what it may change.
LEMMA WriterTypes ==
    ASSUME StoreInv, UNCHANGED <<tableVars, handlerVars, exitVars>>,
           item' \in [Items -> ItemRec], wpc' \in [Cpus -> WriterPc],
           wbkt' \in [Cpus -> Buckets], wtodo' \in [Cpus -> SUBSET Items],
           witem' \in [Cpus -> Items \cup {NoItem}], all_size' \in [Cpus -> Nat],
           copy_mem' \in [Cpus -> Seq(Block)], bitmap' \in [Cpus -> SUBSET Nat],
           bitmap_index' \in [Cpus -> Nat], file' \in [Cpus -> Seq(Block)],
           pending' \in SUBSET Buckets, panic' \in PanicState
    PROVE  TypeOK'
BY DEF StoreInv, TypeOK, tableVars, handlerVars, exitVars

\* A step of writer c leaves the other writers' invariants alone.
LEMMA OtherWriters ==
    ASSUME StoreInv, NEW c \in Cpus, UNCHANGED hash_tab,
           \A d \in Cpus \ {c} : /\ wpc'[d] = wpc[d] /\ wbkt'[d] = wbkt[d]
                                 /\ wtodo'[d] = wtodo[d] /\ witem'[d] = witem[d],
           WriterOK(c)'
    PROVE  WriterInv'
<1> SUFFICES ASSUME NEW d \in Cpus, d # c PROVE WriterOK(d)'
  BY DEF WriterInv
<1>1. WriterOK(d) BY DEF StoreInv, WriterInv
<1> QED BY <1>1 DEF WriterOK, WriterLocked

\* The types of a writer's control, stated once.
LEMMA WriterControl ==
    ASSUME StoreInv
    PROVE  /\ wpc \in [Cpus -> WriterPc] /\ wbkt \in [Cpus -> Buckets]
           /\ wtodo \in [Cpus -> SUBSET Items] /\ witem \in [Cpus -> Items \cup {NoItem}]
           /\ hash_tab \in [Buckets -> SUBSET Items]
BY DEF StoreInv, TypeOK

\* What a writer's item is.
LEMMA WriterItem ==
    ASSUME StoreInv, NEW c \in Cpus, WriterLocked(c)
    PROVE  /\ wtodo[c] \subseteq hash_tab[wbkt[c]] /\ wtodo[c] \subseteq slab /\ wtodo[c] \subseteq Items
           /\ \A i \in wtodo[c] : item[i] \in ItemRec /\ item[i].sha1 \in Chunks
           /\ wpc[c] \in {"copy", "todisk", "free"} => witem[c] \in wtodo[c]
<1>1. wbkt[c] \in Buckets BY DEF StoreInv, TypeOK
<1>2. hash_tab[wbkt[c]] \subseteq slab BY <1>1 DEF StoreInv, TableInv
<1>3. slab \subseteq Items BY DEF StoreInv, TypeOK
<1>4. wtodo[c] \subseteq hash_tab[wbkt[c]] BY DEF StoreInv, WriterInv, WriterOK
<1>5. wpc[c] \in {"copy", "todisk", "free"} => witem[c] \in wtodo[c]
  BY DEF StoreInv, WriterInv, WriterOK
<1>6. \A i \in wtodo[c] : item[i] \in ItemRec /\ item[i].sha1 \in Chunks
  BY <1>2, <1>3, <1>4 DEF StoreInv, TableInv, TypeOK
<1> QED BY <1>2, <1>3, <1>4, <1>5, <1>6

\* The workqueue hands bucket b to a writer, which takes the read lock.
LEMMA WrStartInv == ASSUME StoreInv, NEW c \in Cpus, WrStart(c) PROVE StoreInv'
<1>1. PICK b \in pending :
        /\ pending' = pending \ {b} /\ wbkt' = [wbkt EXCEPT ![c] = b]
        /\ wtodo' = [wtodo EXCEPT ![c] = hash_tab[b]]
  BY DEF WrStart
<1>2. b \in Buckets /\ hash_tab[b] \subseteq Items BY DEF StoreInv, TypeOK
<1>3. TypeOK'
  BY <1>1, <1>2, WriterTypes DEF WrStart, StoreInv, TypeOK, WriterPc, diskVars
<1>4. BitsInv' BY DEF WrStart, StoreInv, BitsInv, diskVars
<1>5. HandlerInv' /\ TableInv' /\ ExitInv' /\ PinsCounted'
  BY HandlerFrame DEF WrStart, StoreInv, TypeOK, exitVars, SameRef
<1>6. WriterOK(c)'
  BY <1>1 DEF WrStart, StoreInv, TypeOK, WriterInv, WriterOK, WriterLocked, tableVars
<1>7. WriterInv'
  BY <1>1, <1>6, OtherWriters DEF WrStart, StoreInv, TypeOK, tableVars
<1> QED BY <1>3, <1>4, <1>5, <1>7 DEF StoreInv

\* Pass 1 marks an item of the locked bucket.
LEMMA WrSumInv == ASSUME StoreInv, NEW c \in Cpus, WrSum(c) PROVE StoreInv'
<1>1. PICK i \in wtodo[c] :
        /\ wtodo' = [wtodo EXCEPT ![c] = @ \ {i}]
        /\ \/ /\ all_size' = [all_size EXCEPT ![c] = @ + Num(item[i].sha1)]
              /\ item' = [item EXCEPT ![i] = [item[i] EXCEPT !.cpuid = -2]]
           \/ UNCHANGED <<all_size, item>>
  BY DEF WrSum
<1>2. WriterLocked(c) /\ wpc[c] = "sum" BY DEF WrSum, WriterLocked
<1>3. i \in Items /\ item[i] \in ItemRec /\ Num(item[i].sha1) \in Nat
  BY <1>2, WriterItem, NumPositive
<1>4. [item[i] EXCEPT !.cpuid = -2] \in ItemRec /\ SameRef([item[i] EXCEPT !.cpuid = -2], item[i])
  BY <1>3, FieldUpdate, FieldKeeps
<1>5. item' \in [Items -> ItemRec] /\ \A j \in Items : SameRef(item'[j], item[j])
  BY <1>1, <1>3, <1>4, ItemKeeps DEF StoreInv, TypeOK
<1>6. all_size' \in [Cpus -> Nat]
  <2>1. all_size \in [Cpus -> Nat] BY DEF StoreInv, TypeOK
  <2>2. all_size[c] + Num(item[i].sha1) \in Nat BY <1>3, <2>1
  <2> QED BY <1>1, <2>1, <2>2
<1>7. TypeOK'
  BY <1>1, <1>5, <1>6, WriterTypes DEF WrSum, StoreInv, TypeOK, diskVars
<1>8. BitsInv' BY DEF WrSum, StoreInv, BitsInv, diskVars
<1>9. HandlerInv' /\ TableInv' /\ ExitInv' /\ PinsCounted'
  BY <1>5, HandlerFrame DEF WrSum, exitVars
<1>10. WriterOK(c)'
  BY <1>1, <1>2, ZenonT(60) DEF WrSum, StoreInv, TypeOK, WriterInv, WriterOK, WriterLocked, tableVars
<1>11. WriterInv'
  BY <1>1, <1>10, OtherWriters DEF WrSum, StoreInv, TypeOK, tableVars
<1> QED BY <1>7, <1>8, <1>9, <1>11 DEF StoreInv

\* Pass 1 ends with the unlock or with the start of pass 2.
LEMMA WrSumEndInv == ASSUME StoreInv, NEW c \in Cpus, WrSumEnd(c) PROVE StoreInv'
<1>1. wbkt[c] \in Buckets /\ hash_tab[wbkt[c]] \subseteq Items /\ 0 \in Buckets
  BY Indices DEF StoreInv, TypeOK
<1>2. TypeOK'
  <2>1. wpc' \in [Cpus -> WriterPc] BY WriterControl DEF WrSumEnd, WriterPc
  <2>2. wbkt' \in [Cpus -> Buckets] BY <1>1, WriterControl DEF WrSumEnd
  <2>3. wtodo' \in [Cpus -> SUBSET Items] BY <1>1, WriterControl DEF WrSumEnd
  <2> QED BY <2>1, <2>2, <2>3, WriterTypes DEF WrSumEnd, StoreInv, TypeOK, diskVars
<1>3. BitsInv' BY DEF WrSumEnd, StoreInv, BitsInv, diskVars
<1>4. HandlerInv' /\ TableInv' /\ ExitInv' /\ PinsCounted'
  BY HandlerFrame DEF WrSumEnd, StoreInv, TypeOK, exitVars, SameRef
<1>5. WriterOK(c)'
  BY DEF WrSumEnd, StoreInv, TypeOK, WriterInv, WriterOK, WriterLocked, tableVars
<1>6. WriterInv'
  BY <1>5, OtherWriters DEF WrSumEnd, StoreInv, TypeOK, tableVars
<1> QED BY <1>2, <1>3, <1>4, <1>6 DEF StoreInv

\* Pass 2 unmarks a referenced item or goes on to copy it.
LEMMA WrRecheckInv == ASSUME StoreInv, NEW c \in Cpus, WrRecheck(c) PROVE StoreInv'
<1>1. PICK i \in wtodo[c] :
        \/ /\ item' = [item EXCEPT ![i] = [item[i] EXCEPT !.cpuid = -1]]
           /\ wtodo' = [wtodo EXCEPT ![c] = @ \ {i}]
           /\ UNCHANGED <<wpc, witem>>
        \/ /\ wpc' = [wpc EXCEPT ![c] = "copy"]
           /\ witem' = [witem EXCEPT ![c] = i]
           /\ UNCHANGED <<item, wtodo>>
  BY DEF WrRecheck
<1>2. WriterLocked(c) /\ wpc[c] = "recheck" BY DEF WrRecheck, WriterLocked
<1>3. i \in Items /\ item[i] \in ItemRec BY <1>2, WriterItem
<1>4. [item[i] EXCEPT !.cpuid = -1] \in ItemRec /\ SameRef([item[i] EXCEPT !.cpuid = -1], item[i])
  BY <1>3, FieldUpdate, FieldKeeps
<1>5. item' \in [Items -> ItemRec] /\ \A j \in Items : SameRef(item'[j], item[j])
  BY <1>1, <1>3, <1>4, ItemKeeps DEF StoreInv, TypeOK
<1>6. wpc' \in [Cpus -> WriterPc] /\ witem' \in [Cpus -> Items \cup {NoItem}]
      /\ wtodo' \in [Cpus -> SUBSET Items]
  <2>1. wpc' \in [Cpus -> WriterPc] BY <1>1, WriterControl DEF WriterPc
  <2>2. witem' \in [Cpus -> Items \cup {NoItem}] BY <1>1, <1>3, WriterControl
  <2>3. wtodo' \in [Cpus -> SUBSET Items] BY <1>1, WriterControl
  <2> QED BY <2>1, <2>2, <2>3
<1>7. TypeOK'
  BY <1>5, <1>6, WriterTypes DEF WrRecheck, StoreInv, TypeOK, diskVars
<1>8. BitsInv' BY DEF WrRecheck, StoreInv, BitsInv, diskVars
<1>9. HandlerInv' /\ TableInv' /\ ExitInv' /\ PinsCounted'
  BY <1>5, HandlerFrame DEF WrRecheck, exitVars
<1>10. WriterOK(c)'
  BY <1>1, <1>2 DEF WrRecheck, StoreInv, TypeOK, WriterInv, WriterOK, WriterLocked, tableVars
<1>11. WriterInv'
  BY <1>1, <1>10, OtherWriters DEF WrRecheck, StoreInv, TypeOK, tableVars
<1> QED BY <1>7, <1>8, <1>9, <1>11 DEF StoreInv

\* Pass 2 ends and drops the lock; the writer keeps no item.
LEMMA WrCopyEndInv == ASSUME StoreInv, NEW c \in Cpus, WrCopyEnd(c) PROVE StoreInv'
<1>1. TypeOK'
  BY WriterTypes DEF WrCopyEnd, StoreInv, TypeOK, WriterPc, diskVars
<1>2. BitsInv' BY DEF WrCopyEnd, StoreInv, BitsInv, diskVars
<1>3. HandlerInv' /\ TableInv' /\ ExitInv' /\ PinsCounted'
  BY HandlerFrame DEF WrCopyEnd, StoreInv, TypeOK, exitVars, SameRef
<1>4. WriterOK(c)'
  BY DEF WrCopyEnd, StoreInv, TypeOK, WriterInv, WriterOK, WriterLocked, tableVars
<1>5. WriterInv'
  BY <1>4, OtherWriters DEF WrCopyEnd, StoreInv, TypeOK, tableVars
<1> QED BY <1>1, <1>2, <1>3, <1>5 DEF StoreInv

\* Pass 3 starts from the bucket as it is then.
LEMMA WrRelockInv == ASSUME StoreInv, NEW c \in Cpus, WrRelock(c) PROVE StoreInv'
<1>1. wbkt[c] \in Buckets /\ hash_tab[wbkt[c]] \subseteq Items
  BY DEF StoreInv, TypeOK
<1>2. TypeOK'
  BY <1>1, WriterTypes DEF WrRelock, StoreInv, TypeOK, WriterPc, diskVars
<1>3. BitsInv' BY DEF WrRelock, StoreInv, BitsInv, diskVars
<1>4. HandlerInv' /\ TableInv' /\ ExitInv' /\ PinsCounted'
  BY HandlerFrame DEF WrRelock, StoreInv, TypeOK, exitVars, SameRef
<1>5. WriterOK(c)'
  BY DEF WrRelock, StoreInv, TypeOK, WriterInv, WriterOK, WriterLocked, tableVars
<1>6. WriterInv'
  BY <1>5, OtherWriters DEF WrRelock, StoreInv, TypeOK, tableVars
<1> QED BY <1>2, <1>3, <1>4, <1>6 DEF StoreInv

\* Pass 3 picks an item of the locked bucket.
LEMMA WrScanInv == ASSUME StoreInv, NEW c \in Cpus, WrScan(c) PROVE StoreInv'
<1>1. PICK i \in wtodo[c] :
        \/ /\ wpc' = [wpc EXCEPT ![c] = "todisk"]
           /\ witem' = [witem EXCEPT ![c] = i]
           /\ UNCHANGED wtodo
        \/ /\ wtodo' = [wtodo EXCEPT ![c] = @ \ {i}]
           /\ UNCHANGED <<wpc, witem>>
  BY DEF WrScan
<1>2. WriterLocked(c) /\ wpc[c] = "scan" BY DEF WrScan, WriterLocked
<1>3. i \in Items BY <1>2, WriterItem
<1>4. wpc' \in [Cpus -> WriterPc] /\ witem' \in [Cpus -> Items \cup {NoItem}]
      /\ wtodo' \in [Cpus -> SUBSET Items]
  <2>1. wpc' \in [Cpus -> WriterPc] BY <1>1, WriterControl DEF WriterPc
  <2>2. witem' \in [Cpus -> Items \cup {NoItem}] BY <1>1, <1>3, WriterControl
  <2>3. wtodo' \in [Cpus -> SUBSET Items] BY <1>1, WriterControl
  <2> QED BY <2>1, <2>2, <2>3
<1>5. TypeOK'
  BY <1>4, WriterTypes DEF WrScan, StoreInv, TypeOK, diskVars
<1>6. BitsInv' BY DEF WrScan, StoreInv, BitsInv, diskVars
<1>7. HandlerInv' /\ TableInv' /\ ExitInv' /\ PinsCounted'
  BY HandlerFrame DEF WrScan, StoreInv, TypeOK, exitVars, SameRef
<1>8. WriterOK(c)'
  BY <1>1, <1>2 DEF WrScan, StoreInv, TypeOK, WriterInv, WriterOK, WriterLocked, tableVars
<1>9. WriterInv'
  BY <1>1, <1>8, OtherWriters DEF WrScan, StoreInv, TypeOK, tableVars
<1> QED BY <1>5, <1>6, <1>7, <1>9 DEF StoreInv

\* Pass 3 sets an item's flag_cache.
LEMMA WrToDiskInv == ASSUME StoreInv, NEW c \in Cpus, WrToDisk(c) PROVE StoreInv'
<1> DEFINE i == witem[c]
           r == [item[i] EXCEPT !.flag_cache = 1]
<1>1. WriterLocked(c) /\ wpc[c] = "todisk" BY DEF WrToDisk, WriterLocked
<1>2. i \in Items /\ item[i] \in ItemRec BY <1>1, WriterItem
<1>3. r \in ItemRec /\ SameRef(r, item[i])
  <2>1. 1 \in 0 .. 4 OBVIOUS
  <2> QED BY <1>2, <2>1, FieldUpdate, FieldKeeps
<1>4. item' = [item EXCEPT ![i] = r] BY DEF WrToDisk
<1> HIDE DEF r
<1>5. item' \in [Items -> ItemRec] /\ \A j \in Items : SameRef(item'[j], item[j])
  BY <1>2, <1>3, <1>4, ItemKeeps DEF StoreInv, TypeOK
<1>6. TypeOK'
  BY <1>5, WriterTypes DEF WrToDisk, StoreInv, TypeOK, WriterPc, diskVars
<1>7. BitsInv' BY DEF WrToDisk, StoreInv, BitsInv, diskVars
<1>8. HandlerInv' /\ TableInv' /\ ExitInv' /\ PinsCounted'
  BY <1>5, HandlerFrame DEF WrToDisk, exitVars
<1>9. WriterOK(c)'
  BY <1>1 DEF WrToDisk, StoreInv, TypeOK, WriterInv, WriterOK, WriterLocked, tableVars
<1>10. WriterInv'
  BY <1>9, OtherWriters DEF WrToDisk, StoreInv, TypeOK, tableVars
<1> QED BY <1>6, <1>7, <1>8, <1>10 DEF StoreInv

\* free_data_memory keeps an item well-formed.
LEMMA FreeDataType ==
    ASSUME NEW r \in ItemRec PROVE FreeData(r) \in ItemRec /\ SameRef(FreeData(r), r)
<1>1. FreeData(r) = [[r EXCEPT !.mem_style = -1] EXCEPT !.data = "none"] BY DEF FreeData
<1> DEFINE s == [r EXCEPT !.mem_style = -1]
<1>2. s \in ItemRec /\ SameRef(s, r)
  <2>1. -1 \in -1 .. 3 OBVIOUS
  <2> QED BY <2>1, FieldUpdate, FieldKeeps
<1>3. "none" \in DataState BY DEF DataState
<1> HIDE DEF s
<1>4. [s EXCEPT !.data = "none"] \in ItemRec /\ SameRef([s EXCEPT !.data = "none"], s)
  BY <1>2, <1>3, FieldUpdate, FieldKeeps
<1> QED BY <1>1, <1>2, <1>4 DEF SameRef, s

\* Pass 3 frees an item's data, or stops the machine.
LEMMA WrFreeInv == ASSUME StoreInv, NEW c \in Cpus, WrFree(c) PROVE StoreInv'
<1> DEFINE i == witem[c]
           r == FreeData(item[i])
<1>1. WriterLocked(c) /\ wpc[c] = "free" BY DEF WrFree, WriterLocked
<1>2. i \in Items /\ item[i] \in ItemRec /\ i \in wtodo[c] BY <1>1, WriterItem
<1>3. r \in ItemRec /\ SameRef(r, item[i]) BY <1>2, FreeDataType
<1>4. /\ item' = [item EXCEPT ![i] = r] \/ item' = item
      /\ panic' \in PanicState
      /\ wpc' = [wpc EXCEPT ![c] = "scan"]
      /\ wtodo' = [wtodo EXCEPT ![c] = @ \ {i}]
      /\ witem' = [witem EXCEPT ![c] = NoItem]
  BY DEF WrFree, StoreInv, TypeOK, PanicState
<1> HIDE DEF r, i
<1>5. item' \in [Items -> ItemRec] /\ \A j \in Items : SameRef(item'[j], item[j])
  BY <1>2, <1>3, <1>4, ItemKeeps DEF StoreInv, TypeOK
<1>6. wpc' \in [Cpus -> WriterPc] /\ witem' \in [Cpus -> Items \cup {NoItem}]
      /\ wtodo' \in [Cpus -> SUBSET Items]
  BY <1>4 DEF StoreInv, TypeOK, WriterPc
<1>7. TypeOK'
  BY <1>4, <1>5, <1>6, WriterTypes DEF WrFree, StoreInv, TypeOK, diskVars
<1>8. BitsInv' BY DEF WrFree, StoreInv, BitsInv, diskVars
<1>9. HandlerInv' /\ TableInv' /\ ExitInv' /\ PinsCounted'
  BY <1>5, HandlerFrame DEF WrFree, exitVars
<1>10. WriterOK(c)'
  <2>1. wtodo[c] \subseteq hash_tab[wbkt[c]] BY <1>1, WriterItem
  <2>2. hash_tab' = hash_tab /\ wbkt' = wbkt BY DEF WrFree, tableVars
  <2>3. wtodo'[c] = wtodo[c] \ {i} /\ wpc'[c] = "scan" /\ witem'[c] = NoItem
    BY <1>4, WriterControl
  <2> QED BY <2>1, <2>2, <2>3 DEF WriterOK, WriterLocked
<1>11. WriterInv'
  BY <1>4, <1>10, OtherWriters DEF WrFree, StoreInv, TypeOK, tableVars
<1> QED BY <1>7, <1>8, <1>9, <1>11 DEF StoreInv

\* The writer drops the lock.
LEMMA WrEndInv == ASSUME StoreInv, NEW c \in Cpus, WrEnd(c) PROVE StoreInv'
<1>1. TypeOK'
  BY Indices, WriterTypes DEF WrEnd, StoreInv, TypeOK, WriterPc, diskVars
<1>2. BitsInv' BY DEF WrEnd, StoreInv, BitsInv, diskVars
<1>3. HandlerInv' /\ TableInv' /\ ExitInv' /\ PinsCounted'
  BY HandlerFrame DEF WrEnd, StoreInv, TypeOK, exitVars, SameRef
<1>4. WriterOK(c)'
  BY DEF WrEnd, StoreInv, TypeOK, WriterInv, WriterOK, WriterLocked, tableVars
<1>5. WriterInv'
  BY <1>4, OtherWriters DEF WrEnd, StoreInv, TypeOK, tableVars
<1> QED BY <1>1, <1>2, <1>3, <1>5 DEF StoreInv

\* kernel_write appends blocks.
LEMMA WrWriteInv == ASSUME StoreInv, NEW c \in Cpus, WrWrite(c) PROVE StoreInv'
<1>1. /\ all_size \in [Cpus -> Nat] /\ copy_mem \in [Cpus -> Seq(Block)]
      /\ file \in [Cpus -> Seq(Block)] /\ wpc \in [Cpus -> WriterPc]
  BY DEF StoreInv, TypeOK
<1>0. PICK n \in 0 .. all_size[c] : file' = [file EXCEPT ![c] = @ \o Written(c, n)]
  BY DEF WrWrite
<1>2. Written(c, n) \in Seq(Block)
  <2>1. NoBlock \in Block /\ LostBlock \in Block BY DEF Block
  <2>2. all_size[c] \in Nat /\ copy_mem[c] \in Seq(Block) BY <1>1
  <2>3. \A k \in 1 .. all_size[c] : k <= Len(copy_mem[c]) => copy_mem[c][k] \in Block
    BY <2>2
  <2>4. Written(c, n) \in [1 .. all_size[c] -> Block] BY <2>1, <2>3 DEF Written
  <2> QED BY <2>2, <2>4
<1>3. file[c] \o Written(c, n) \in Seq(Block) BY <1>1, <1>2
<1>4. file' \in [Cpus -> Seq(Block)] BY <1>0, <1>1, <1>3
<1>5. all_size' \in [Cpus -> Nat] BY <1>1 DEF WrWrite
<1>6. copy_mem' \in [Cpus -> Seq(Block)]
  <2>1. << >> \in Seq(Block) OBVIOUS
  <2> QED BY <1>1, <2>1 DEF WrWrite
<1>7. wpc' \in [Cpus -> WriterPc] BY <1>1 DEF WrWrite, WriterPc
<1>8. TypeOK'
  BY <1>4, <1>5, <1>6, <1>7, WriterTypes DEF WrWrite, StoreInv, TypeOK
<1>9. BitsInv' BY DEF WrWrite, StoreInv, BitsInv
<1>10. HandlerInv' /\ TableInv' /\ ExitInv' /\ PinsCounted'
  BY HandlerFrame DEF WrWrite, StoreInv, TypeOK, exitVars, SameRef
<1>11. WriterOK(c)'
  BY <1>1 DEF WrWrite, StoreInv, WriterInv, WriterOK, WriterLocked, tableVars
<1>12. WriterInv'
  BY <1>1, <1>11, OtherWriters DEF WrWrite, tableVars
<1> QED BY <1>8, <1>9, <1>10, <1>12 DEF StoreInv

\* Every set bit is below bitmap_index, so the search returns bitmap_index itself.
LEMMA FindAreaIsIndex ==
    ASSUME StoreInv, NEW c \in Cpus, NEW n \in Nat \ {0}, ZeroAreas(c, n) # {}
    PROVE  FindArea(c, n) = bitmap_index[c]
<1>1. bitmap_index[c] \in Nat /\ bitmap[c] \subseteq Nat BY DEF StoreInv, TypeOK
<1>2. bitmap_size \in Nat BY SizeAssumption
<1>3. bitmap_index[c] <= bitmap_size - n BY <1>1, <1>2 DEF ZeroAreas
<1>4. \A y \in bitmap_index[c] .. bitmap_index[c] + n - 1 : y \notin bitmap[c]
  BY <1>1 DEF StoreInv, BitsInv
<1>5. bitmap_index[c] \in ZeroAreas(c, n) BY <1>1, <1>2, <1>3, <1>4 DEF ZeroAreas
<1>6. \A y \in ZeroAreas(c, n) : y \in Int /\ bitmap_index[c] <= y
  BY <1>1, <1>2 DEF ZeroAreas
<1>7. \A x \in ZeroAreas(c, n) :
        (\A y \in ZeroAreas(c, n) : x <= y) => x = bitmap_index[c]
  BY <1>1, <1>5, <1>6
<1>8. \E x \in ZeroAreas(c, n) : \A y \in ZeroAreas(c, n) : x <= y
  BY <1>5, <1>6
<1> QED BY <1>7, <1>8 DEF FindArea

\* What pass 2 copies is a sequence of blocks.
LEMMA CopiedType ==
    ASSUME NEW r, r.sha1 \in Chunks PROVE CopiedBlocks(r) \in Seq(Block)
<1>1. Num(r.sha1) \in Nat \ {0} BY NumPositive
<1>2. BlocksOf(r.sha1) \in [1 .. Num(r.sha1) -> Block] BY <1>1 DEF BlocksOf, Block
<1>3. [k \in 1 .. Num(r.sha1) |-> NoBlock] \in [1 .. Num(r.sha1) -> Block] BY DEF Block
<1>4. CopiedBlocks(r) \in [1 .. Num(r.sha1) -> Block] BY <1>2, <1>3 DEF CopiedBlocks
<1> QED BY <1>1, <1>4

\* Pass 2 gives an item a place in the file; the bits are fresh.
LEMMA WrCopyInv == ASSUME StoreInv, NEW c \in Cpus, WrCopy(c) PROVE StoreInv'
<1> DEFINE i == witem[c]
           n == Num(item[i].sha1)
           x == FindArea(c, n)
           s == [item[i] EXCEPT !.start = x]
           r == [s EXCEPT !.cpuid = c]
<1>1. WriterLocked(c) /\ wpc[c] = "copy" BY DEF WrCopy, WriterLocked
<1>2. i \in Items /\ item[i] \in ItemRec /\ i \in wtodo[c] /\ item[i].sha1 \in Chunks
  BY <1>1, WriterItem
<1>3. n \in Nat \ {0} BY <1>2, NumPositive
<1>4. /\ bitmap \in [Cpus -> SUBSET Nat] /\ bitmap_index \in [Cpus -> Nat]
      /\ copy_mem \in [Cpus -> Seq(Block)] /\ item \in [Items -> ItemRec] /\ panic \in PanicState
  BY DEF StoreInv, TypeOK
<1>5. \/ /\ ZeroAreas(c, n) # {}
         /\ item' = [item EXCEPT ![i] = r]
         /\ bitmap' = [bitmap EXCEPT ![c] = @ \cup (x .. x + n - 1)]
         /\ bitmap_index' = [bitmap_index EXCEPT ![c] = @ + n]
         /\ copy_mem' = [copy_mem EXCEPT ![c] = @ \o CopiedBlocks(item[i])]
         /\ panic' = panic
      \/ /\ panic' = "bitmap full"
         /\ UNCHANGED <<item, bitmap, bitmap_index, copy_mem>>
      \/ UNCHANGED <<item, bitmap, bitmap_index, copy_mem, panic>>
  BY DEF WrCopy
<1>6. /\ wpc' = [wpc EXCEPT ![c] = "recheck"]
      /\ wtodo' = [wtodo EXCEPT ![c] = @ \ {i}]
      /\ witem' = [witem EXCEPT ![c] = NoItem]
      /\ UNCHANGED <<tableVars, handlerVars, wbkt, all_size, file, pending, exitVars>>
  BY DEF WrCopy
<1>7. ZeroAreas(c, n) # {} => x = bitmap_index[c] /\ x \in Nat
  BY <1>3, <1>4, FindAreaIsIndex
<1>8. ZeroAreas(c, n) # {} => r \in ItemRec /\ SameRef(r, item[i])
  <2> SUFFICES ASSUME ZeroAreas(c, n) # {} PROVE r \in ItemRec /\ SameRef(r, item[i])
    OBVIOUS
  <2>1. s \in ItemRec /\ SameRef(s, item[i]) BY <1>2, <1>7, FieldUpdate, FieldKeeps
  <2> HIDE DEF s
  <2>2. r \in ItemRec /\ SameRef(r, s) BY <2>1, FieldUpdate, FieldKeeps
  <2> QED BY <2>1, <2>2 DEF SameRef
<1> HIDE DEF i, n, x, r
<1>9. item' \in [Items -> ItemRec] /\ \A j \in Items : SameRef(item'[j], item[j])
  <2>1. CASE ZeroAreas(c, n) # {} /\ item' = [item EXCEPT ![i] = r]
    BY <1>2, <1>4, <1>8, <2>1, ItemKeeps
  <2>2. CASE item' = item BY <1>4, <2>2 DEF SameRef
  <2> QED BY <1>5, <2>1, <2>2
<1>10. /\ bitmap' \in [Cpus -> SUBSET Nat] /\ bitmap_index' \in [Cpus -> Nat] /\ BitsInv'
  <2>1. CASE /\ ZeroAreas(c, n) # {}
             /\ bitmap' = [bitmap EXCEPT ![c] = @ \cup (x .. x + n - 1)]
             /\ bitmap_index' = [bitmap_index EXCEPT ![c] = @ + n]
    <3>1. x \in Nat /\ x = bitmap_index[c] BY <1>7, <2>1
    <3>2. x .. x + n - 1 \subseteq Nat /\ \A y \in x .. x + n - 1 : y < bitmap_index[c] + n
      BY <1>3, <3>1
    <3>3. bitmap[c] \subseteq Nat /\ bitmap_index[c] + n \in Nat BY <1>3, <1>4
    <3>4. bitmap' \in [Cpus -> SUBSET Nat] BY <1>4, <2>1, <3>2, <3>3
    <3>5. bitmap_index' \in [Cpus -> Nat] BY <1>4, <2>1, <3>3
    <3>6. BitsInv'
      <4> SUFFICES ASSUME NEW d \in Cpus, NEW y \in bitmap'[d] PROVE y < bitmap_index'[d]
        BY DEF BitsInv
      <4>1. CASE d # c BY <1>4, <2>1, <4>1 DEF StoreInv, BitsInv
      <4>2. CASE d = c
        <5>1. y \in bitmap[c] \/ y \in x .. x + n - 1 BY <1>4, <2>1, <4>2
        <5>2. bitmap_index'[c] = bitmap_index[c] + n BY <1>4, <2>1
        <5>3. y \in bitmap[c] => y \in Nat /\ y < bitmap_index[c]
          BY <1>4 DEF StoreInv, BitsInv
        <5>4. bitmap_index[c] \in Nat BY <1>4
        <5> QED BY <1>3, <3>2, <4>2, <5>1, <5>2, <5>3, <5>4
      <4> QED BY <4>1, <4>2
    <3> QED BY <3>4, <3>5, <3>6
  <2>2. CASE UNCHANGED <<bitmap, bitmap_index>> BY <1>4, <2>2 DEF StoreInv, BitsInv
  <2> QED BY <1>5, <2>1, <2>2
<1>11. copy_mem' \in [Cpus -> Seq(Block)]
  <2>1. CopiedBlocks(item[i]) \in Seq(Block) BY <1>2, CopiedType
  <2>2. copy_mem[c] \o CopiedBlocks(item[i]) \in Seq(Block) BY <1>4, <2>1
  <2> QED BY <1>4, <1>5, <2>2
<1>12. panic' \in PanicState BY <1>4, <1>5 DEF PanicState
<1>13. wpc' \in [Cpus -> WriterPc] /\ witem' \in [Cpus -> Items \cup {NoItem}]
      /\ wtodo' \in [Cpus -> SUBSET Items]
  BY <1>6, WriterControl DEF WriterPc
<1>14. TypeOK'
  BY <1>6, <1>9, <1>10, <1>11, <1>12, <1>13, WriterTypes DEF StoreInv, TypeOK
<1>15. HandlerInv' /\ TableInv' /\ ExitInv' /\ PinsCounted'
  BY <1>6, <1>9, HandlerFrame DEF exitVars
<1>16. WriterOK(c)'
  <2>1. wtodo[c] \subseteq hash_tab[wbkt[c]] BY <1>1, WriterItem
  <2>2. hash_tab' = hash_tab /\ wbkt' = wbkt BY <1>6 DEF tableVars
  <2>3. wtodo'[c] = wtodo[c] \ {i} /\ wpc'[c] = "recheck" /\ witem'[c] = NoItem
    BY <1>6, WriterControl
  <2> QED BY <2>1, <2>2, <2>3 DEF WriterOK, WriterLocked
<1>17. WriterInv'
  BY <1>6, <1>16, WriterControl, OtherWriters DEF tableVars
<1> QED BY <1>10, <1>14, <1>15, <1>17 DEF StoreInv

-----------------------------------------------------------------------------
(* Handler steps *)

\* Type correctness of a handler step, from the types of what it may change.
LEMMA HandlerTypes ==
    ASSUME StoreInv, UNCHANGED <<writerVars, diskVars, pending, exitVars, panic>>,
           item' \in [Items -> ItemRec], slab' \in SUBSET Items,
           hash_tab' \in [Buckets -> SUBSET Items], hash_count' \in Int,
           hpc' \in [Cpus -> HandlerPc], hchunk' \in [Cpus -> Chunks \cup {NoChunk}],
           hitem' \in [Cpus -> Items \cup {NoItem}], hslot' \in [Cpus -> Slots \cup {0}],
           rskb' \in [Cpus -> [Slots -> Items \cup {NoItem}]]
    PROVE  TypeOK' /\ BitsInv'
BY DEF StoreInv, TypeOK, BitsInv, writerVars, diskVars, exitVars

\* The types of the handlers' control and of the table, stated once.
LEMMA HandlerControl ==
    ASSUME StoreInv
    PROVE  /\ item \in [Items -> ItemRec] /\ slab \in SUBSET Items
           /\ hash_tab \in [Buckets -> SUBSET Items] /\ hash_count \in Int
           /\ hpc \in [Cpus -> HandlerPc] /\ hchunk \in [Cpus -> Chunks \cup {NoChunk}]
           /\ hitem \in [Cpus -> Items \cup {NoItem}] /\ hslot \in [Cpus -> Slots \cup {0}]
           /\ rskb \in [Cpus -> [Slots -> Items \cup {NoItem}]]
BY DEF StoreInv, TypeOK

\* A step of handler c that keeps allocated items allocated and takes no item that
\* another handler is about to link leaves the other handlers' invariants alone.
LEMMA OtherHandlers ==
    ASSUME StoreInv, NEW c \in Cpus,
           \A d \in Cpus \ {c} :
                /\ hpc'[d] = hpc[d] /\ hchunk'[d] = hchunk[d] /\ hitem'[d] = hitem[d]
                /\ hslot'[d] = hslot[d] /\ rskb'[d] = rskb[d]
                /\ hpc[d] = "link" =>
                    hitem'[c] # hitem[d] /\ \A b \in Buckets : hitem[d] \notin hash_tab'[b],
           slab \subseteq slab', \A b \in Buckets : hash_tab[b] \subseteq hash_tab'[b],
           \A i \in slab : item'[i].sha1 = item[i].sha1,
           HandlerOK(c)'
    PROVE  HandlerInv'
<1> SUFFICES ASSUME NEW d \in Cpus, d # c PROVE HandlerOK(d)'
  BY DEF HandlerInv
<1>1. HandlerOK(d) BY DEF StoreInv, HandlerInv
<1>2. hchunk[d] \in Chunks => BucketOf[hchunk[d]] \in Buckets BY ChunkAssumption
<1>3. (hpc[d] \in {"pin", "flag", "hand", "check", "alloc", "link"} => hchunk[d] \in Chunks)'
  BY <1>1 DEF HandlerOK
<1>4. (hpc[d] = "pin" => hitem[d] \in hash_tab[BucketOf[hchunk[d]]])'
  BY <1>1, <1>2 DEF HandlerOK
<1>5. (hpc[d] \in {"flag", "hand", "link"} => hitem[d] \in slab)' BY <1>1 DEF HandlerOK
<1>6. (hpc[d] = "link" =>
        /\ item[hitem[d]].sha1 = hchunk[d]
        /\ \A b \in Buckets : hitem[d] \notin hash_tab[b]
        /\ \A e \in Cpus \ {d} : hitem[e] # hitem[d])'
  BY <1>1 DEF HandlerOK
<1>7. /\ (hpc[d] \notin {"pin", "flag", "hand", "link"} => hitem[d] = NoItem)'
      /\ (hpc[d] \in {"copyin", "unpin"} => hslot[d] \in Slots /\ rskb[d][hslot[d]] # NoItem)'
      /\ (\A k \in Slots : rskb[d][k] # NoItem => rskb[d][k] \in slab)'
  BY <1>1 DEF HandlerOK
<1> QED BY <1>3, <1>4, <1>5, <1>6, <1>7 DEF HandlerOK

\* A handler that is not idle, or has a read list, runs before teardown.
LEMMA HandlerInRun ==
    ASSUME StoreInv, NEW c \in Cpus, phase' = phase,
           hpc[c] # "idle" \/ phase = "run" \/ \E k \in Slots : rskb[c][k] # NoItem
    PROVE  ExitInv'
BY DEF StoreInv, ExitInv

\* The table's invariant when no item is linked or allocated.
LEMMA TableFrame ==
    ASSUME StoreInv, slab' = slab, hash_tab' = hash_tab, \A i \in slab : item'[i].sha1 = item[i].sha1
    PROVE  TableInv'
BY DEF StoreInv, TableInv

\* References and counts when no reference to an item is taken or dropped.
LEMMA PinsSame ==
    ASSUME NEW i,
           \A d \in Cpus, k \in 0 .. MaxRead : Holds(d, k, i)' <=> Holds(d, k, i)
    PROVE  Pins(i)' = Pins(i)
BY DEF Pins

\* Taking reference k of handler c to item i.
LEMMA PinsTaken ==
    ASSUME NEW i, NEW c \in Cpus, NEW k \in 0 .. MaxRead, ~Holds(c, k, i), Holds(c, k, i)',
           \A d \in Cpus, j \in 0 .. MaxRead :
                (d # c \/ j # k) => (Holds(d, j, i)' <=> Holds(d, j, i))
    PROVE  Cardinality(Pins(i)') = Cardinality(Pins(i)) + 1
<1>1. Pins(i)' = Pins(i) \cup {<<c, k>>} BY DEF Pins
<1>2. <<c, k>> \notin Pins(i) BY PinsMember
<1> QED BY <1>1, <1>2, PinsFinite, FS_AddElement

\* Dropping reference k of handler c to item i.
LEMMA PinsDropped ==
    ASSUME NEW i, NEW c \in Cpus, NEW k \in 0 .. MaxRead, Holds(c, k, i), ~Holds(c, k, i)',
           \A d \in Cpus, j \in 0 .. MaxRead :
                (d # c \/ j # k) => (Holds(d, j, i)' <=> Holds(d, j, i))
    PROVE  Cardinality(Pins(i)') = Cardinality(Pins(i)) - 1
<1>1. Pins(i)' = Pins(i) \ {<<c, k>>} BY DEF Pins
<1>2. <<c, k>> \in Pins(i) BY PinsMember
<1> QED BY <1>1, <1>2, PinsFinite, FS_RemoveElement

\* Passing reference k of handler c to item i on as reference m.
LEMMA PinsMoved ==
    ASSUME NEW i, NEW c \in Cpus, NEW k \in 0 .. MaxRead, NEW m \in 0 .. MaxRead, k # m,
           Holds(c, k, i), ~Holds(c, k, i)', ~Holds(c, m, i), Holds(c, m, i)',
           \A d \in Cpus, j \in 0 .. MaxRead :
                (d # c \/ (j # k /\ j # m)) => (Holds(d, j, i)' <=> Holds(d, j, i))
    PROVE  Cardinality(Pins(i)') = Cardinality(Pins(i))
<1> DEFINE P == Pins(i) \ {<<c, k>>}
<1>1. Pins(i)' = P \cup {<<c, m>>} BY DEF Pins
<1>2. <<c, k>> \in Pins(i) /\ <<c, m>> \notin Pins(i) BY PinsMember
<1>3. IsFiniteSet(P) /\ Cardinality(P) = Cardinality(Pins(i)) - 1
  BY <1>2, PinsFinite, FS_RemoveElement
<1>4. <<c, m>> \notin P BY <1>2
<1> HIDE DEF P
<1>5. Cardinality(P \cup {<<c, m>>}) = Cardinality(P) + 1 BY <1>3, <1>4, FS_AddElement
<1> QED BY <1>1, <1>3, <1>5, PinsFinite

\* A lookup's walk: the item it found is linked and the lock is held.
LEMMA GetHashItemInv ==
    ASSUME StoreInv, NEW c \in Cpus, NEW ch \in Chunks, GetHashItem(c, ch) PROVE StoreInv'
<1> USE HandlerControl
<1>1. HandlerOK(c) /\ hpc[c] = "idle" /\ hitem[c] = NoItem
  BY DEF GetHashItem, StoreInv, HandlerInv, HandlerOK
<1>2. /\ hchunk' = [hchunk EXCEPT ![c] = ch]
      /\ UNCHANGED <<tableVars, hslot, rskb, writerVars, diskVars, pending, exitVars, panic>>
      /\ phase = "run"
  BY DEF GetHashItem
<1>3. BucketOf[ch] \in Buckets BY ChunkAssumption
<1>4. PICK i \in Items \cup {NoItem} :
        /\ hitem' = [hitem EXCEPT ![c] = i]
        /\ \/ /\ i \in hash_tab[BucketOf[ch]]
              /\ item' = [item EXCEPT ![i] = [item[i] EXCEPT !.refcnt = @ + ITEM_CITE_FIND]]
              /\ hpc' = [hpc EXCEPT ![c] = "pin"]
           \/ i = NoItem /\ item' = item /\ hpc' = [hpc EXCEPT ![c] = "check"]
  <2>1. CASE /\ hpc' = [hpc EXCEPT ![c] = "check"]
             /\ UNCHANGED <<item, hitem>>
    BY <1>1, <2>1
  <2>2. CASE \E i \in hash_tab[BucketOf[ch]] :
                /\ item' = [item EXCEPT ![i].refcnt = @ + ITEM_CITE_FIND]
                /\ hitem' = [hitem EXCEPT ![c] = i]
                /\ hpc' = [hpc EXCEPT ![c] = "pin"]
    BY <1>3, <2>2
  <2> QED BY <2>1, <2>2 DEF GetHashItem
<1> DEFINE r == [item[i] EXCEPT !.refcnt = @ + ITEM_CITE_FIND]
<1>5. i \in hash_tab[BucketOf[ch]] => i \in slab /\ i \in Items
  BY <1>3 DEF StoreInv, TableInv
<1>6. item' \in [Items -> ItemRec] /\ \A j \in Items : SameRef(item'[j], item[j])
  <2>1. CASE i \in hash_tab[BucketOf[ch]] /\ item' = [item EXCEPT ![i] = r]
    <3>1. item[i] \in ItemRec BY <1>5, <2>1
    <3>2. item[i].refcnt + ITEM_CITE_FIND \in Int BY <3>1, LimitAssumption DEF ItemRec
    <3>3. r \in ItemRec /\ SameRef(r, item[i]) BY <3>1, <3>2, FieldUpdate, FieldKeeps
    <3> HIDE DEF r
    <3> QED BY <1>5, <2>1, <3>3, ItemKeeps
  <2>2. CASE item' = item BY <2>2 DEF SameRef
  <2> QED BY <1>4, <2>1, <2>2
<1>7. hpc' \in [Cpus -> HandlerPc] BY <1>4 DEF HandlerPc
<1>8. TypeOK' /\ BitsInv'
  BY <1>2, <1>4, <1>6, <1>7, HandlerTypes DEF tableVars
<1>9. HandlerOK(c)'
  BY <1>1, <1>2, <1>4, <1>5 DEF HandlerOK, tableVars
<1>10. \A d \in Cpus \ {c} : hpc[d] = "link" =>
            i # hitem[d] /\ \A b \in Buckets : hitem[d] \notin hash_tab[b]
  BY <1>1, <1>3, <1>4 DEF StoreInv, HandlerInv, HandlerOK
<1>11. HandlerInv'
  BY <1>2, <1>4, <1>6, <1>9, <1>10, OtherHandlers DEF tableVars, SameRef
<1>12. TableInv' BY <1>2, <1>6, TableFrame DEF tableVars, SameRef
<1>13. WriterInv' BY <1>2, WriterFrame DEF tableVars
<1>14. ExitInv' BY <1>2, HandlerInRun DEF exitVars
<1>15. PinsCounted'
  <2>1. \A j : Pins(j)' = Pins(j)
    <3> SUFFICES ASSUME NEW j, NEW d \in Cpus, NEW k \in 0 .. MaxRead
                 PROVE Holds(d, k, j)' <=> Holds(d, k, j)
      BY PinsSame
    <3> QED BY <1>1, <1>2, <1>4 DEF Holds
  <2> QED BY <1>2, <1>6, <2>1 DEF StoreInv, PinsCounted, tableVars, SameRef
<1> QED BY <1>8, <1>11, <1>12, <1>13, <1>14, <1>15 DEF StoreInv

\* The lookup's atomic_inc takes reference 0 of its handler.
LEMMA PinItemInv == ASSUME StoreInv, NEW c \in Cpus, PinItem(c) PROVE StoreInv'
<1> USE HandlerControl
<1>0. PICK i : i = hitem[c] OBVIOUS
<1> DEFINE r == [item[i] EXCEPT !.share_ref = @ + 1]
<1>1. HandlerOK(c) /\ hpc[c] = "pin" BY DEF PinItem, StoreInv, HandlerInv
<1>2. i \in slab /\ i \in Items /\ hchunk[c] \in Chunks
  BY <1>0, <1>1, ChunkAssumption DEF HandlerOK, StoreInv, TableInv
<1>3. /\ item' = [item EXCEPT ![i] = r] /\ hpc' = [hpc EXCEPT ![c] = "flag"]
      /\ UNCHANGED <<tableVars, hchunk, hitem, hslot, rskb, writerVars, diskVars, pending,
                     exitVars, panic>>
  BY <1>0 DEF PinItem
<1>4. item[i] \in ItemRec BY <1>2
<1>5. r \in ItemRec /\ r.sha1 = item[i].sha1 /\ r.share_ref = item[i].share_ref + 1
  <2>1. item[i].share_ref + 1 \in Nat BY <1>4 DEF ItemRec
  <2> QED BY <1>4, <2>1, FieldUpdate, FieldKeeps
<1> HIDE DEF r
<1>6. /\ item' \in [Items -> ItemRec] /\ item'[i] = r
      /\ \A j \in Items \ {i} : item'[j] = item[j]
  BY <1>2, <1>3, <1>5, ItemUpdate
<1>7. \A j \in Items : item'[j].sha1 = item[j].sha1 BY <1>5, <1>6
<1>8. TypeOK' /\ BitsInv'
  <2>1. hpc' \in [Cpus -> HandlerPc] BY <1>3 DEF HandlerPc
  <2> QED BY <1>3, <1>6, <2>1, HandlerTypes DEF tableVars
<1>9. HandlerOK(c)'
  BY <1>0, <1>1, <1>2, <1>3 DEF HandlerOK, tableVars
<1>10. HandlerInv'
  <2>1. \A d \in Cpus \ {c} : hpc[d] = "link" =>
            hitem[c] # hitem[d] /\ \A b \in Buckets : hitem[d] \notin hash_tab[b]
    BY DEF StoreInv, HandlerInv, HandlerOK
  <2> QED BY <1>3, <1>7, <1>9, <2>1, OtherHandlers DEF tableVars
<1>11. TableInv' BY <1>3, <1>7, TableFrame DEF tableVars
<1>12. WriterInv' BY <1>3, WriterFrame DEF tableVars
<1>13. ExitInv' BY <1>1, <1>3, HandlerInRun DEF exitVars
<1>14. PinsCounted'
  <2>1. 0 \in 0 .. MaxRead BY SizeAssumption
  <2>2. \A j, d, k : (d # c \/ k # 0 \/ j # i) /\ d \in Cpus => (Holds(d, k, j)' <=> Holds(d, k, j))
    BY <1>0, <1>1, <1>3 DEF Holds
  <2>3. ~Holds(c, 0, i) /\ Holds(c, 0, i)' BY <1>0, <1>1, <1>3 DEF Holds
  <2>4. Cardinality(Pins(i)') = Cardinality(Pins(i)) + 1
    BY <2>1, <2>2, <2>3, PinsTaken
  <2>5. \A j : j # i => Pins(j)' = Pins(j) BY <2>2, PinsSame
  <2>6. r.share_ref = 1 + Cardinality(Pins(i)')
    <3>1. item[i].share_ref = 1 + Cardinality(Pins(i)) BY <1>2 DEF StoreInv, PinsCounted
    <3> QED BY <1>5, <2>4, <3>1, PinsFinite
  <2> SUFFICES ASSUME NEW j \in slab PROVE item'[j].share_ref = 1 + Cardinality(Pins(j)')
    BY <1>3 DEF PinsCounted, tableVars
  <2>7. CASE j = i BY <1>6, <2>6, <2>7
  <2>8. CASE j # i BY <1>6, <2>5, <2>8 DEF StoreInv, PinsCounted
  <2> QED BY <2>7, <2>8
<1> QED BY <1>8, <1>10, <1>11, <1>12, <1>13, <1>14 DEF StoreInv

\* A handler step that neither takes nor drops a reference and leaves the table and
\* the identity and count of every item alone.
LEMMA QuietHandler ==
    ASSUME StoreInv, NEW c \in Cpus, item' \in [Items -> ItemRec],
           \A j \in Items : SameRef(item'[j], item[j]),
           UNCHANGED <<tableVars, hitem, rskb, writerVars, diskVars, pending, exitVars, panic>>,
           hpc' \in [Cpus -> HandlerPc], hslot' \in [Cpus -> Slots \cup {0}],
           hchunk' \in [Cpus -> Chunks \cup {NoChunk}],
           \A d \in Cpus \ {c} :
                hpc'[d] = hpc[d] /\ hslot'[d] = hslot[d] /\ hchunk'[d] = hchunk[d],
           hpc[c] \in {"flag", "hand"} <=> hpc'[c] \in {"flag", "hand"},
           hpc[c] # "idle" \/ \E k \in Slots : rskb[c][k] # NoItem,
           HandlerOK(c)'
    PROVE  StoreInv'
<1> USE HandlerControl
<1>1. TypeOK' /\ BitsInv' BY HandlerTypes DEF tableVars
<1>2. \A d \in Cpus \ {c} : hpc[d] = "link" =>
            hitem[c] # hitem[d] /\ \A b \in Buckets : hitem[d] \notin hash_tab[b]
  BY DEF StoreInv, HandlerInv, HandlerOK
<1>3. HandlerInv' BY <1>2, OtherHandlers DEF tableVars, SameRef
<1>4. TableInv' BY TableFrame DEF tableVars, SameRef
<1>5. WriterInv' BY WriterFrame DEF tableVars
<1>6. ExitInv' BY HandlerInRun DEF exitVars
<1>7. PinsCounted'
  <2>1. \A j : Pins(j)' = Pins(j)
    <3> SUFFICES ASSUME NEW j, NEW d \in Cpus, NEW k \in 0 .. MaxRead
                 PROVE Holds(d, k, j)' <=> Holds(d, k, j)
      BY PinsSame
    <3> QED BY DEF Holds
  <2> QED BY <2>1 DEF StoreInv, PinsCounted, tableVars, SameRef
<1> QED BY <1>1, <1>3, <1>4, <1>5, <1>6, <1>7 DEF StoreInv

\* MarkRead sets flag_cache only, under the reference taken before.
LEMMA MarkReadInv == ASSUME StoreInv, NEW c \in Cpus, MarkRead(c) PROVE StoreInv'
<1> USE HandlerControl
<1>0. PICK i : i = hitem[c] OBVIOUS
<1>1. HandlerOK(c) /\ hpc[c] = "flag" /\ i \in slab /\ i \in Items
  BY <1>0 DEF MarkRead, StoreInv, HandlerInv, HandlerOK
<1> DEFINE r == [item[i] EXCEPT !.flag_cache = HitFlag(item[i].flag_cache)]
<1>2. /\ item' = [item EXCEPT ![i] = r] /\ hpc' = [hpc EXCEPT ![c] = "hand"]
      /\ UNCHANGED <<tableVars, hchunk, hitem, hslot, rskb, writerVars, diskVars, pending,
                     exitVars, panic>>
  BY <1>0, <1>1 DEF MarkRead
<1>3. r \in ItemRec /\ SameRef(r, item[i])
  <2>1. item[i] \in ItemRec /\ item[i].flag_cache \in 0 .. 4 BY <1>1 DEF ItemRec
  <2>2. HitFlag(item[i].flag_cache) \in 0 .. 4 BY <2>1 DEF HitFlag
  <2> QED BY <2>1, <2>2, FieldUpdate, FieldKeeps
<1> HIDE DEF r
<1>4. item' \in [Items -> ItemRec] /\ \A j \in Items : SameRef(item'[j], item[j])
  BY <1>1, <1>2, <1>3, ItemKeeps
<1>5. hpc' \in [Cpus -> HandlerPc] BY <1>2 DEF HandlerPc
<1>6. HandlerOK(c)' BY <1>0, <1>1, <1>2 DEF HandlerOK, tableVars
<1> QED BY <1>1, <1>2, <1>4, <1>5, <1>6, QuietHandler

\* AddCheck only decides whether an item is added.
LEMMA AddCheckInv == ASSUME StoreInv, NEW c \in Cpus, AddCheck(c) PROVE StoreInv'
<1> USE HandlerControl
<1>1. HandlerOK(c) /\ hpc[c] = "check" BY DEF AddCheck, StoreInv, HandlerInv
<1>2. /\ \/ hpc' = [hpc EXCEPT ![c] = "idle"] /\ hchunk' = [hchunk EXCEPT ![c] = NoChunk]
         \/ hpc' = [hpc EXCEPT ![c] = "alloc"] /\ UNCHANGED hchunk
      /\ UNCHANGED <<item, tableVars, hitem, hslot, rskb, writerVars, diskVars, pending,
                     exitVars, panic>>
  BY DEF AddCheck
<1>3. hpc' \in [Cpus -> HandlerPc] BY <1>2 DEF HandlerPc
<1>4. hchunk' \in [Cpus -> Chunks \cup {NoChunk}] BY <1>2
<1>5. HandlerOK(c)' BY <1>1, <1>2 DEF HandlerOK, tableVars
<1>6. item' \in [Items -> ItemRec] /\ \A j \in Items : SameRef(item'[j], item[j])
  BY <1>2 DEF SameRef
<1> QED BY <1>1, <1>2, <1>3, <1>4, <1>5, <1>6, QuietHandler

\* ReadNext gives an item memory at most; its reference stays on the list.
LEMMA ReadNextInv == ASSUME StoreInv, NEW c \in Cpus, ReadNext(c) PROVE StoreInv'
<1> USE HandlerControl
<1>1. PICK k \in Slots :
        /\ rskb[c][k] # NoItem /\ hslot' = [hslot EXCEPT ![c] = k]
        /\ \/ /\ item' = [item EXCEPT ![rskb[c][k]] = AllocData(@)]
              /\ hpc' = [hpc EXCEPT ![c] = "copyin"]
           \/ UNCHANGED item /\ hpc' = [hpc EXCEPT ![c] = "unpin"]
  BY DEF ReadNext
<1>2. PICK i : i = rskb[c][k] OBVIOUS
<1>3. HandlerOK(c) /\ hpc[c] \in {"idle", "read"} BY DEF ReadNext, StoreInv, HandlerInv
<1>4. i \in slab /\ i \in Items /\ item[i] \in ItemRec BY <1>1, <1>2, <1>3 DEF HandlerOK
<1>5. UNCHANGED <<tableVars, hchunk, hitem, rskb, writerVars, diskVars, pending, exitVars, panic>>
  BY DEF ReadNext
<1>6. AllocData(item[i]) \in ItemRec /\ SameRef(AllocData(item[i]), item[i])
  <2> DEFINE s == [item[i] EXCEPT !.mem_style = MemStyle(ChunkLen[item[i].sha1])]
  <2>1. MemStyle(ChunkLen[item[i].sha1]) \in -1 .. 3
    <3>1. \A n \in 0 .. 3 : n \in -1 .. 3 OBVIOUS
    <3> QED BY <3>1, MemStyleType
  <2>2. s \in ItemRec /\ SameRef(s, item[i]) BY <1>4, <2>1, FieldUpdate, FieldKeeps
  <2>3. AllocData(item[i]) = item[i] \/ AllocData(item[i]) = [s EXCEPT !.data = "garbage"]
    BY <1>4 DEF AllocData, ItemRec
  <2> HIDE DEF s
  <2>4. [s EXCEPT !.data = "garbage"] \in ItemRec /\ SameRef([s EXCEPT !.data = "garbage"], s)
    BY <2>2, FieldUpdate, FieldKeeps DEF DataState
  <2> QED BY <1>4, <2>2, <2>3, <2>4 DEF SameRef
<1>7. item' \in [Items -> ItemRec] /\ \A j \in Items : SameRef(item'[j], item[j])
  <2>1. item' = [item EXCEPT ![i] = AllocData(item[i])] \/ item' = item BY <1>1, <1>2
  <2> QED BY <1>4, <1>6, <2>1, ItemKeeps
<1>8. hpc' \in [Cpus -> HandlerPc] /\ hslot' \in [Cpus -> Slots \cup {0}]
  BY <1>1 DEF HandlerPc
<1>9. HandlerOK(c)' BY <1>1, <1>3, <1>5 DEF HandlerOK, tableVars
<1> QED BY <1>1, <1>3, <1>5, <1>7, <1>8, <1>9, QuietHandler

\* CopyIn writes an item's data and flag_mem.
LEMMA CopyInInv == ASSUME StoreInv, NEW c \in Cpus, CopyIn(c) PROVE StoreInv'
<1> USE HandlerControl
<1>1. HandlerOK(c) /\ hpc[c] = "copyin" BY DEF CopyIn, StoreInv, HandlerInv
<1>2. PICK i : i = rskb[c][hslot[c]] OBVIOUS
<1>3. i \in slab /\ i \in Items /\ item[i] \in ItemRec BY <1>1, <1>2 DEF HandlerOK
<1>4. PICK v : v = IF item[i].mem_style >= 0
                   THEN IF OnFile(item[i]) THEN "chunk" ELSE "garbage" ELSE item[i].data
  OBVIOUS
<1>5. v \in DataState BY <1>3, <1>4 DEF DataState, ItemRec
<1> DEFINE s == [item[i] EXCEPT !.data = v]
           r == [s EXCEPT !.flag_mem = 1]
<1>6. /\ item' = [item EXCEPT ![i] = r] /\ hpc' = [hpc EXCEPT ![c] = "unpin"]
      /\ UNCHANGED <<tableVars, hchunk, hitem, hslot, rskb, writerVars, diskVars, pending,
                     exitVars, panic>>
  BY <1>2, <1>3, <1>4 DEF CopyIn
<1>7. r \in ItemRec /\ SameRef(r, item[i])
  <2>1. s \in ItemRec /\ SameRef(s, item[i]) BY <1>3, <1>5, FieldUpdate, FieldKeeps
  <2> HIDE DEF s
  <2>2. r \in ItemRec /\ SameRef(r, s) BY <2>1, FieldUpdate, FieldKeeps
  <2> QED BY <2>1, <2>2 DEF SameRef
<1> HIDE DEF r
<1>8. item' \in [Items -> ItemRec] /\ \A j \in Items : SameRef(item'[j], item[j])
  BY <1>3, <1>6, <1>7, ItemKeeps
<1>9. hpc' \in [Cpus -> HandlerPc] BY <1>6 DEF HandlerPc
<1>10. HandlerOK(c)' BY <1>1, <1>6 DEF HandlerOK, tableVars
<1> QED BY <1>1, <1>6, <1>8, <1>9, <1>10, QuietHandler

\* atomic_dec(&item->share_ref) keeps an item's type and identity.
LEMMA PutRefItem ==
    ASSUME StoreInv, NEW i \in slab, item' = [item EXCEPT ![i] = PutRef(item[i])]
    PROVE  /\ item' \in [Items -> ItemRec] /\ item'[i].share_ref = item[i].share_ref - 1
           /\ \A j \in Items : item'[j].sha1 = item[j].sha1
           /\ \A j \in Items \ {i} : item'[j] = item[j]
<1> USE HandlerControl
<1>1. i \in Items /\ item[i] \in ItemRec OBVIOUS
<1>2. /\ PutRef(item[i]) \in ItemRec /\ PutRef(item[i]).sha1 = item[i].sha1
      /\ PutRef(item[i]).share_ref = item[i].share_ref - 1
  <2>1. item[i].share_ref - 1 \in Nat BY PinsFinite DEF StoreInv, PinsCounted
  <2> QED BY <1>1, <2>1, FieldUpdate, FieldKeeps DEF PutRef
<1>3. /\ item' \in [Items -> ItemRec] /\ item'[i] = PutRef(item[i])
      /\ \A j \in Items \ {i} : item'[j] = item[j]
  BY <1>1, <1>2, ItemUpdate
<1> QED BY <1>2, <1>3

\* Dropping a reference together with its count.
LEMMA DropCounted ==
    ASSUME StoreInv, NEW i \in slab, slab' = slab,
           item'[i].share_ref = item[i].share_ref - 1,
           \A j \in Items \ {i} : item'[j] = item[j],
           Cardinality(Pins(i)') = Cardinality(Pins(i)) - 1,
           \A j \in Items : j # i => Pins(j)' = Pins(j)
    PROVE  PinsCounted'
<1>1. item'[i].share_ref = 1 + Cardinality(Pins(i)')
  <2>1. item[i].share_ref = 1 + Cardinality(Pins(i)) BY DEF StoreInv, PinsCounted
  <2> QED BY <2>1, PinsFinite
<1> SUFFICES ASSUME NEW j \in slab PROVE item'[j].share_ref = 1 + Cardinality(Pins(j)')
  BY DEF PinsCounted
<1>2. CASE j = i BY <1>1, <1>2
<1>3. CASE j # i BY <1>3, HandlerControl DEF StoreInv, PinsCounted
<1> QED BY <1>2, <1>3

\* Unpin drops a read list entry and its reference in one step.
LEMMA UnpinInv == ASSUME StoreInv, NEW c \in Cpus, Unpin(c) PROVE StoreInv'
<1> USE HandlerControl
<1>1. HandlerOK(c) /\ hpc[c] = "unpin" BY DEF Unpin, StoreInv, HandlerInv
<1>2. PICK k : k = hslot[c] OBVIOUS
<1>3. PICK i : i = rskb[c][k] OBVIOUS
<1>4. k \in Slots /\ i \in slab /\ i \in Items /\ i # NoItem /\ hitem[c] = NoItem
  BY <1>1, <1>2, <1>3 DEF HandlerOK
<1>5. /\ item' = [item EXCEPT ![i] = PutRef(item[i])] /\ rskb' = [rskb EXCEPT ![c][k] = NoItem]
      /\ hpc' = [hpc EXCEPT ![c] = IF \A j \in Slots \ {k} : rskb[c][j] = NoItem THEN "idle" ELSE "read"]
      /\ hslot' = [hslot EXCEPT ![c] = 0]
      /\ UNCHANGED <<tableVars, hchunk, hitem, writerVars, diskVars, pending, exitVars, panic>>
  BY <1>2, <1>3, <1>4 DEF Unpin
<1>6. /\ item' \in [Items -> ItemRec] /\ item'[i].share_ref = item[i].share_ref - 1
      /\ \A j \in Items : item'[j].sha1 = item[j].sha1
      /\ \A j \in Items \ {i} : item'[j] = item[j]
  BY <1>4, <1>5, PutRefItem
<1>7. /\ hpc'[c] \in {"idle", "read"} /\ hslot'[c] = 0
      /\ \A d \in Cpus \ {c} : hpc'[d] = hpc[d] /\ hslot'[d] = hslot[d] /\ rskb'[d] = rskb[d]
      /\ rskb'[c][k] = NoItem /\ \A j \in Slots \ {k} : rskb'[c][j] = rskb[c][j]
  BY <1>4, <1>5
<1>8. TypeOK' /\ BitsInv'
  <2>1. hpc' \in [Cpus -> HandlerPc] BY <1>5 DEF HandlerPc
  <2>2. hslot' \in [Cpus -> Slots \cup {0}] BY <1>5
  <2>3. rskb' \in [Cpus -> [Slots -> Items \cup {NoItem}]]
    <3>1. [rskb[c] EXCEPT ![k] = NoItem] \in [Slots -> Items \cup {NoItem}] OBVIOUS
    <3>2. rskb' = [rskb EXCEPT ![c] = [rskb[c] EXCEPT ![k] = NoItem]] BY <1>5
    <3> QED BY <3>1, <3>2
  <2> QED BY <1>5, <1>6, <2>1, <2>2, <2>3, HandlerTypes DEF tableVars
<1>9. HandlerOK(c)'
  <2>1. \A j \in Slots : rskb'[c][j] # NoItem => rskb'[c][j] \in slab BY <1>1, <1>7 DEF HandlerOK
  <2> QED BY <1>4, <1>5, <1>7, <2>1 DEF HandlerOK, tableVars
<1>10. HandlerInv'
  <2>1. \A d \in Cpus \ {c} : hpc[d] = "link" =>
            hitem[c] # hitem[d] /\ \A b \in Buckets : hitem[d] \notin hash_tab[b]
    BY DEF StoreInv, HandlerInv, HandlerOK
  <2> QED BY <1>5, <1>6, <1>7, <1>9, <2>1, OtherHandlers DEF tableVars
<1>11. TableInv' BY <1>5, <1>6, TableFrame DEF tableVars
<1>12. WriterInv' BY <1>5, WriterFrame DEF tableVars
<1>13. ExitInv' BY <1>1, <1>5, HandlerInRun DEF exitVars
<1>14. PinsCounted'
  <2>1. k \in 0 .. MaxRead /\ k # 0 BY <1>4, SizeAssumption DEF Slots
  <2>2. \A j, d, m : (d # c \/ m # k \/ j # i) /\ j # NoItem /\ d \in Cpus /\ m \in 0 .. MaxRead
            => (Holds(d, m, j)' <=> Holds(d, m, j))
    <3> SUFFICES ASSUME NEW j, NEW d \in Cpus, NEW m \in 0 .. MaxRead,
                        d # c \/ m # k \/ j # i, j # NoItem
                 PROVE  Holds(d, m, j)' <=> Holds(d, m, j)
      OBVIOUS
    <3>1. CASE m = 0 BY <1>1, <1>5, <1>7, <3>1 DEF Holds
    <3>2. CASE m # 0
      <4>1. m \in Slots BY <3>2 DEF Slots
      <4> QED BY <1>3, <1>7, <3>2, <4>1 DEF Holds
    <3> QED BY <3>1, <3>2
  <2>3. Holds(c, k, i) /\ ~Holds(c, k, i)' BY <1>3, <1>4, <1>7, <2>1 DEF Holds
  <2>4. Cardinality(Pins(i)') = Cardinality(Pins(i)) - 1
    BY <1>4, <2>1, <2>2, <2>3, PinsDropped
  <2>5. \A j \in Items : j # i => Pins(j)' = Pins(j) BY <2>2, PinsSame, ChunkAssumption
  <2> QED BY <1>4, <1>5, <1>6, <2>4, <2>5, DropCounted DEF tableVars
<1> QED BY <1>8, <1>10, <1>11, <1>12, <1>13, <1>14 DEF StoreInv

\* hand_hash either drops the reference of the lookup or passes it to the read list.
LEMMA HandHashInv == ASSUME StoreInv, NEW c \in Cpus, HandHash(c) PROVE StoreInv'
<1> USE HandlerControl
<1>1. HandlerOK(c) /\ hpc[c] = "hand" BY DEF HandHash, StoreInv, HandlerInv
<1>2. PICK i : i = hitem[c] OBVIOUS
<1>3. i \in slab /\ i \in Items /\ i # NoItem
  BY <1>1, <1>2, ChunkAssumption DEF HandlerOK
<1>4. /\ hpc' = [hpc EXCEPT ![c] = "idle"] /\ hitem' = [hitem EXCEPT ![c] = NoItem]
      /\ hchunk' = [hchunk EXCEPT ![c] = NoChunk]
      /\ UNCHANGED <<tableVars, hslot, writerVars, diskVars, pending, exitVars, panic>>
  BY DEF HandHash
<1>5. \/ item' = [item EXCEPT ![i] = PutRef(item[i])] /\ UNCHANGED rskb
      \/ /\ item' = item
         /\ \E k \in Slots : rskb[c][k] = NoItem /\ rskb' = [rskb EXCEPT ![c][k] = i]
  BY <1>2, <1>3 DEF HandHash
<1>6. item' \in [Items -> ItemRec] /\ \A j \in Items : item'[j].sha1 = item[j].sha1
  BY <1>3, <1>5, PutRefItem
<1>7. rskb' \in [Cpus -> [Slots -> Items \cup {NoItem}]]
  <2>1. \A k \in Slots : [rskb[c] EXCEPT ![k] = i] \in [Slots -> Items \cup {NoItem}]
    BY <1>3
  <2> QED BY <1>5, <2>1
<1>8. TypeOK' /\ BitsInv'
  <2>1. hpc' \in [Cpus -> HandlerPc] BY <1>4 DEF HandlerPc
  <2>2. hchunk' \in [Cpus -> Chunks \cup {NoChunk}] /\ hitem' \in [Cpus -> Items \cup {NoItem}]
    BY <1>4
  <2> QED BY <1>4, <1>6, <1>7, <2>1, <2>2, HandlerTypes DEF tableVars
<1>9. /\ hpc'[c] = "idle" /\ hitem'[c] = NoItem
      /\ \A k \in Slots : rskb'[c][k] # NoItem => rskb'[c][k] \in slab
      /\ \A d \in Cpus \ {c} : /\ hpc'[d] = hpc[d] /\ hitem'[d] = hitem[d]
                               /\ hchunk'[d] = hchunk[d] /\ rskb'[d] = rskb[d]
  <2>1. \A k \in Slots : rskb[c][k] # NoItem => rskb[c][k] \in slab BY <1>1 DEF HandlerOK
  <2>2. \A k \in Slots : rskb'[c][k] # NoItem => rskb'[c][k] \in slab BY <1>3, <1>5, <2>1
  <2> QED BY <1>4, <1>5, <2>2
<1>10. HandlerOK(c)' BY <1>4, <1>9 DEF HandlerOK, tableVars
<1>11. HandlerInv'
  <2>1. \A d \in Cpus \ {c} : hpc[d] = "link" =>
            NoItem # hitem[d] /\ \A b \in Buckets : hitem[d] \notin hash_tab[b]
    BY ChunkAssumption DEF StoreInv, HandlerInv, HandlerOK
  <2> QED BY <1>4, <1>6, <1>9, <1>10, <2>1, OtherHandlers DEF tableVars
<1>12. TableInv' BY <1>4, <1>6, TableFrame DEF tableVars
<1>13. WriterInv' BY <1>4, WriterFrame DEF tableVars
<1>14. ExitInv' BY <1>1, <1>4, HandlerInRun DEF exitVars
<1>15. 0 \in 0 .. MaxRead /\ Holds(c, 0, i) /\ ~Holds(c, 0, i)'
  BY <1>1, <1>2, <1>4, SizeAssumption DEF Holds
<1>16. CASE item' = [item EXCEPT ![i] = PutRef(item[i])] /\ UNCHANGED rskb
  <2>1. \A j, d, m : (d # c \/ m # 0 \/ j # i) /\ d \in Cpus => (Holds(d, m, j)' <=> Holds(d, m, j))
    BY <1>1, <1>2, <1>4, <1>9, <1>16 DEF Holds
  <2>2. Cardinality(Pins(i)') = Cardinality(Pins(i)) - 1 BY <1>15, <2>1, PinsDropped
  <2>3. \A j : j # i => Pins(j)' = Pins(j) BY <2>1, PinsSame
  <2>4. PinsCounted' BY <1>3, <1>4, <1>16, <2>2, <2>3, PutRefItem, DropCounted, ZenonT(60) DEF tableVars
  <2> QED BY <1>8, <1>11, <1>12, <1>13, <1>14, <2>4 DEF StoreInv
<1>17. CASE /\ item' = item
            /\ \E k \in Slots : rskb[c][k] = NoItem /\ rskb' = [rskb EXCEPT ![c][k] = i]
  <2>1. PICK k \in Slots : rskb[c][k] = NoItem /\ rskb' = [rskb EXCEPT ![c][k] = i] BY <1>17
  <2>2. k \in 0 .. MaxRead /\ k # 0 BY SizeAssumption DEF Slots
  <2>3. \A j, d, m : (d # c \/ (m # 0 /\ m # k) \/ j # i) /\ j # NoItem /\ d \in Cpus /\ m \in 0 .. MaxRead
            => (Holds(d, m, j)' <=> Holds(d, m, j))
    <3> SUFFICES ASSUME NEW j, NEW d \in Cpus, NEW m \in 0 .. MaxRead,
                        d # c \/ (m # 0 /\ m # k) \/ j # i, j # NoItem
                 PROVE  Holds(d, m, j)' <=> Holds(d, m, j)
      OBVIOUS
    <3>1. CASE m = 0 BY <1>1, <1>2, <1>4, <3>1 DEF Holds
    <3>2. CASE m # 0
      <4>1. m \in Slots BY <3>2 DEF Slots
      <4> QED BY <2>1, <3>2, <4>1 DEF Holds
    <3> QED BY <3>1, <3>2
  <2>4. ~Holds(c, k, i) /\ Holds(c, k, i)' BY <1>3, <2>1, <2>2 DEF Holds
  <2>5. Cardinality(Pins(i)') = Cardinality(Pins(i))
    BY <1>3, <1>15, <2>2, <2>3, <2>4, PinsMoved
  <2>6. \A j \in Items : j # i => Pins(j)' = Pins(j) BY <2>3, PinsSame, ChunkAssumption
  <2>7. PinsCounted' BY <1>3, <1>4, <1>17, <2>5, <2>6 DEF StoreInv, PinsCounted, tableVars
  <2> QED BY <1>8, <1>11, <1>12, <1>13, <1>14, <2>7 DEF StoreInv
<1> QED BY <1>5, <1>16, <1>17

\* Whatever a handler holds is allocated.
LEMMA HeldInSlab ==
    ASSUME StoreInv, NEW c \in Cpus
    PROVE  /\ hitem[c] # NoItem => hitem[c] \in slab
           /\ \A k \in Slots : rskb[c][k] # NoItem => rskb[c][k] \in slab
<1>1. HandlerOK(c) BY DEF StoreInv, HandlerInv
<1>2. hchunk[c] \in Chunks => BucketOf[hchunk[c]] \in Buckets BY ChunkAssumption
<1>3. hpc[c] = "pin" => hitem[c] \in slab BY <1>1, <1>2 DEF HandlerOK, StoreInv, TableInv
<1> QED BY <1>1, <1>3 DEF HandlerOK

\* Nobody holds an item that is not allocated.
LEMMA FreeUnpinned == ASSUME StoreInv, NEW i \in Items \ slab PROVE Pins(i) = {}
<1> SUFFICES ASSUME NEW e \in Pins(i) PROVE FALSE OBVIOUS
<1>1. PICK c \in Cpus, k \in 0 .. MaxRead : Holds(c, k, i) BY DEF Pins
<1>2. i # NoItem BY ChunkAssumption
<1>3. CASE k = 0 BY <1>1, <1>2, <1>3, HeldInSlab DEF Holds
<1>4. CASE k # 0
  <2>1. k \in Slots BY <1>4 DEF Slots
  <2> QED BY <1>1, <1>2, <1>4, <2>1, HeldInSlab DEF Holds
<1> QED BY <1>3, <1>4

\* A new item starts with the table's reference only, and nobody else knows it.
LEMMA AddAllocInv == ASSUME StoreInv, NEW c \in Cpus, AddAlloc(c) PROVE StoreInv'
<1> USE HandlerControl
<1>1. HandlerOK(c) /\ hpc[c] = "alloc" /\ hchunk[c] \in Chunks /\ hitem[c] = NoItem
  BY DEF AddAlloc, StoreInv, HandlerInv, HandlerOK
<1>2. UNCHANGED <<hash_tab, hslot, rskb, writerVars, diskVars, pending, exitVars, panic>>
  BY DEF AddAlloc
<1>3. CASE /\ hpc' = [hpc EXCEPT ![c] = "idle"] /\ hchunk' = [hchunk EXCEPT ![c] = NoChunk]
           /\ UNCHANGED <<item, slab, hash_count, hitem>>
  <2>1. hpc' \in [Cpus -> HandlerPc] BY <1>3 DEF HandlerPc
  <2>2. HandlerOK(c)' BY <1>1, <1>2, <1>3 DEF HandlerOK
  <2>3. item' \in [Items -> ItemRec] /\ \A j \in Items : SameRef(item'[j], item[j])
    BY <1>3 DEF SameRef
  <2> QED BY <1>1, <1>2, <1>3, <2>1, <2>2, <2>3, QuietHandler DEF tableVars
<1>4. CASE \E i \in Items \ slab :
              /\ item' = [item EXCEPT ![i] = NewItem(hchunk[c])]
              /\ slab' = slab \cup {i} /\ hash_count' = hash_count + 1
              /\ hitem' = [hitem EXCEPT ![c] = i] /\ hpc' = [hpc EXCEPT ![c] = "link"]
              /\ UNCHANGED hchunk
  <2>1. PICK i \in Items \ slab :
              /\ item' = [item EXCEPT ![i] = NewItem(hchunk[c])]
              /\ slab' = slab \cup {i} /\ hash_count' = hash_count + 1
              /\ hitem' = [hitem EXCEPT ![c] = i] /\ hpc' = [hpc EXCEPT ![c] = "link"]
              /\ UNCHANGED hchunk
    BY <1>4
  <2>2. i \in Items /\ i # NoItem BY ChunkAssumption
  <2>3. PICK r : r = NewItem(hchunk[c]) OBVIOUS
  <2>4. r \in ItemRec /\ r.sha1 = hchunk[c] /\ r.share_ref = 1
    <3>1. MemStyle(ChunkLen[hchunk[c]]) \in -1 .. 3
      <4>1. \A n \in 0 .. 3 : n \in -1 .. 3 OBVIOUS
      <4> QED BY <4>1, MemStyleType
    <3>2. ITEM_CITE_ADD \in Int /\ 0 \in 0 .. 4 BY LimitAssumption
    <3> QED BY <1>1, <2>3, <3>1, <3>2 DEF NewItem, ItemRec, DataState
  <2>5. /\ item' \in [Items -> ItemRec] /\ item'[i] = r
        /\ \A j \in Items \ {i} : item'[j] = item[j]
    BY <2>1, <2>2, <2>3, <2>4, ItemUpdate
  <2>6. \A j \in slab : item'[j] = item[j] BY <2>5
  <2>7. TypeOK' /\ BitsInv'
    <3>1. hpc' \in [Cpus -> HandlerPc] BY <2>1 DEF HandlerPc
    <3>2. hitem' \in [Cpus -> Items \cup {NoItem}] /\ slab' \in SUBSET Items BY <2>1
    <3>3. hash_count' \in Int BY <2>1
    <3> QED BY <1>2, <2>1, <2>5, <3>1, <3>2, <3>3, HandlerTypes
  <2>8. \A b \in Buckets : hash_tab[b] \subseteq slab BY DEF StoreInv, TableInv
  <2>9. HandlerOK(c)'
    <3>1. \A d \in Cpus \ {c} : hitem'[d] # i BY <2>1, <2>2, HeldInSlab
    <3>2. \A k \in Slots : rskb[c][k] # NoItem => rskb[c][k] \in slab' BY <2>1, HeldInSlab
    <3>3. hpc'[c] = "link" /\ hitem'[c] = i /\ i \in slab' BY <2>1
    <3> QED BY <1>1, <1>2, <2>1, <2>4, <2>5, <2>8, <3>1, <3>2, <3>3 DEF HandlerOK
  <2>10. HandlerInv'
    <3>1. \A d \in Cpus \ {c} : hpc[d] = "link" =>
            i # hitem[d] /\ \A b \in Buckets : hitem[d] \notin hash_tab[b]
      BY <2>1 DEF StoreInv, HandlerInv, HandlerOK
    <3> QED BY <1>2, <2>1, <2>6, <2>9, <3>1, OtherHandlers
  <2>11. TableInv'
    BY <1>1, <1>2, <2>1, <2>4, <2>5, <2>6 DEF StoreInv, TableInv
  <2>12. WriterInv' BY <1>2, WriterFrame
  <2>13. ExitInv' BY <1>1, <1>2, HandlerInRun DEF exitVars
  <2>14. PinsCounted'
    <3>1. \A j : Pins(j)' = Pins(j)
      <4> SUFFICES ASSUME NEW j, NEW d \in Cpus, NEW k \in 0 .. MaxRead
                   PROVE Holds(d, k, j)' <=> Holds(d, k, j)
        BY PinsSame
      <4> QED BY <1>1, <1>2, <2>1 DEF Holds
    <3>2. Cardinality(Pins(i)) = 0 BY FreeUnpinned, FS_EmptySet
    <3> SUFFICES ASSUME NEW j \in slab' PROVE item'[j].share_ref = 1 + Cardinality(Pins(j))
      BY <3>1 DEF PinsCounted
    <3>3. CASE j = i BY <2>4, <2>5, <3>2, <3>3
    <3>4. CASE j # i BY <2>1, <2>6, <3>4 DEF StoreInv, PinsCounted
    <3> QED BY <3>3, <3>4
  <2> QED BY <2>7, <2>10, <2>11, <2>12, <2>13, <2>14 DEF StoreInv
<1> QED BY <1>3, <1>4 DEF AddAlloc

\* Linking an item makes it reachable; the handler forgets it.
LEMMA AddLinkInv == ASSUME StoreInv, NEW c \in Cpus, AddLink(c) PROVE StoreInv'
<1> USE HandlerControl
<1>1. HandlerOK(c) /\ hpc[c] = "link" BY DEF AddLink, StoreInv, HandlerInv
<1>2. PICK i : i = hitem[c] OBVIOUS
<1>3. PICK b : b = BucketOf[hchunk[c]] OBVIOUS
<1>4. i \in slab /\ i \in Items /\ b \in Buckets /\ BucketOf[item[i].sha1] = b
  BY <1>1, <1>2, <1>3, ChunkAssumption DEF HandlerOK
<1>5. /\ hash_tab' = [hash_tab EXCEPT ![b] = @ \cup {i}]
      /\ hpc' = [hpc EXCEPT ![c] = "idle"] /\ hitem' = [hitem EXCEPT ![c] = NoItem]
      /\ hchunk' = [hchunk EXCEPT ![c] = NoChunk]
      /\ UNCHANGED <<item, slab, hash_count, hslot, rskb, writerVars, diskVars, pending,
                     exitVars, panic>>
  BY <1>2, <1>3 DEF AddLink
<1>6. hash_tab'[b] = hash_tab[b] \cup {i} /\ \A a \in Buckets \ {b} : hash_tab'[a] = hash_tab[a]
  BY <1>4, <1>5
<1>7. TypeOK' /\ BitsInv'
  <2>1. hpc' \in [Cpus -> HandlerPc] BY <1>5 DEF HandlerPc
  <2>2. hitem' \in [Cpus -> Items \cup {NoItem}] /\ hchunk' \in [Cpus -> Chunks \cup {NoChunk}]
    BY <1>5
  <2>3. hash_tab' \in [Buckets -> SUBSET Items] BY <1>4, <1>5
  <2> QED BY <1>5, <2>1, <2>2, <2>3, HandlerTypes
<1>8. HandlerOK(c)' BY <1>1, <1>5 DEF HandlerOK
<1>9. HandlerInv'
  <2>1. ASSUME NEW d \in Cpus \ {c}, hpc[d] = "link"
        PROVE  NoItem # hitem[d] /\ \A a \in Buckets : hitem[d] \notin hash_tab'[a]
    <3>1. HandlerOK(d) BY DEF StoreInv, HandlerInv
    <3>2. hitem[d] \in slab /\ hitem[d] # i BY <1>2, <2>1, <3>1 DEF HandlerOK
    <3>3. \A a \in Buckets : hitem[d] \notin hash_tab[a] BY <2>1, <3>1 DEF HandlerOK
    <3> QED BY <1>6, <3>2, <3>3, ChunkAssumption
  <2> QED BY <1>5, <1>6, <1>8, <2>1, OtherHandlers
<1>10. TableInv' BY <1>4, <1>5, <1>6 DEF StoreInv, TableInv
<1>11. WriterInv'
  <2>1. \A d \in Cpus : hash_tab[wbkt[d]] \subseteq hash_tab'[wbkt[d]]
    BY <1>6, WriterControl
  <2> QED BY <1>5, <2>1, WriterFrame
<1>12. ExitInv' BY <1>1, <1>5, HandlerInRun DEF exitVars
<1>13. PinsCounted'
  <2>1. \A j : Pins(j)' = Pins(j)
    <3> SUFFICES ASSUME NEW j, NEW d \in Cpus, NEW k \in 0 .. MaxRead
                 PROVE Holds(d, k, j)' <=> Holds(d, k, j)
      BY PinsSame
    <3> QED BY <1>1, <1>5 DEF Holds
  <2> QED BY <1>5, <2>1 DEF StoreInv, PinsCounted
<1> QED BY <1>7, <1>9, <1>10, <1>11, <1>12, <1>13 DEF StoreInv

-----------------------------------------------------------------------------
(* The timer and teardown *)

\* An item whose share_ref is 1 has no reference.
LEMMA UnsharedUnpinned ==
    ASSUME StoreInv, NEW i \in slab, item[i].share_ref = 1
    PROVE  Pins(i) = {}
<1>1. 1 = 1 + Cardinality(Pins(i)) BY DEF StoreInv, PinsCounted
<1>2. Cardinality(Pins(i)) = 0 BY <1>1, PinsFinite
<1> QED BY <1>2, PinsFinite, FS_EmptySet

\* Deleting items nobody references from a bucket nobody has locked: the locks protect
\* the handlers between get_hash_item's walk and its atomic_inc, and the writers.
LEMMA DeleteItems ==
    ASSUME StoreInv, NEW b \in Buckets, Unlocked(b), NEW dead \in SUBSET hash_tab[b],
           \A i \in dead : Pins(i) = {},
           \A j \in Items \ dead : SameRef(item'[j], item[j]),
           hash_tab' = [hash_tab EXCEPT ![b] = hash_tab[b] \ dead], slab' = slab \ dead,
           UNCHANGED <<handlerVars, writerVars>>
    PROVE  HandlerInv' /\ TableInv' /\ WriterInv' /\ PinsCounted'
<1> USE HandlerControl DEF handlerVars
<1>1. /\ hash_tab'[b] = hash_tab[b] \ dead
      /\ \A a \in Buckets \ {b} : hash_tab'[a] = hash_tab[a]
      /\ \A a \in Buckets : hash_tab'[a] \subseteq hash_tab[a]
  OBVIOUS
<1>2. \A i \in dead, d \in Cpus, k \in 0 .. MaxRead : ~Holds(d, k, i)
  BY PinsMember
<1>3. HandlerInv'
  <2> SUFFICES ASSUME NEW d \in Cpus PROVE HandlerOK(d)' BY DEF HandlerInv
  <2>1. HandlerOK(d) BY DEF StoreInv, HandlerInv
  <2>2. (hpc[d] = "pin" => hitem[d] \in hash_tab[BucketOf[hchunk[d]]])'
    <3> SUFFICES ASSUME hpc[d] = "pin" PROVE hitem[d] \in hash_tab'[BucketOf[hchunk[d]]]
      OBVIOUS
    <3>1. hchunk[d] \in Chunks /\ hitem[d] \in hash_tab[BucketOf[hchunk[d]]] BY <2>1 DEF HandlerOK
    <3>2. BucketOf[hchunk[d]] \in Buckets BY <3>1, ChunkAssumption
    <3>3. Lock(BucketOf[hchunk[d]]) # Lock(b) BY DEF Unlocked, HandlerLocked
    <3> QED BY <1>1, <3>1, <3>2, <3>3
  <2>3. hpc[d] \in {"flag", "hand", "link"} => hitem[d] \in slab \ dead
    <3>1. CASE hpc[d] \in {"flag", "hand"}
      <4>1. 0 \in 0 .. MaxRead BY SizeAssumption
      <4>2. \A i \in dead : hitem[d] # i BY <1>2, <3>1, <4>1 DEF Holds
      <4> QED BY <2>1, <3>1, <4>2 DEF HandlerOK
    <3>2. CASE hpc[d] = "link" BY <2>1, <3>2 DEF HandlerOK
    <3> QED BY <3>1, <3>2
  <2>4. (hpc[d] = "link" =>
          /\ item[hitem[d]].sha1 = hchunk[d]
          /\ \A a \in Buckets : hitem[d] \notin hash_tab[a]
          /\ \A e \in Cpus \ {d} : hitem[e] # hitem[d])'
    BY <1>1, <2>1, <2>3 DEF HandlerOK, SameRef
  <2>5. \A k \in Slots : rskb[d][k] # NoItem => rskb[d][k] \in slab \ dead
    <3> SUFFICES ASSUME NEW k \in Slots, rskb[d][k] # NoItem PROVE rskb[d][k] \notin dead
      BY <2>1 DEF HandlerOK
    <3>1. k \in 0 .. MaxRead /\ k # 0 BY SizeAssumption DEF Slots
    <3>2. Holds(d, k, rskb[d][k]) BY <3>1 DEF Holds
    <3> QED BY <1>2, <3>1, <3>2
  <2> QED BY <2>1, <2>2, <2>3, <2>4, <2>5 DEF HandlerOK
<1>4. TableInv'
  <2>1. \A i \in slab' : item'[i].sha1 = item[i].sha1 BY DEF SameRef
  <2>2. ASSUME NEW a \in Buckets, NEW i \in hash_tab'[a] PROVE i \in slab' /\ BucketOf[item[i].sha1] = a
    <3>1. i \in slab /\ BucketOf[item[i].sha1] = a BY <1>1 DEF StoreInv, TableInv
    <3>2. i \in dead => BucketOf[item[i].sha1] = b BY DEF StoreInv, TableInv
    <3> QED BY <1>1, <3>1, <3>2
  <2> QED BY <2>1, <2>2, SMTT(40) DEF StoreInv, TableInv
<1>5. WriterInv'
  <2>1. ASSUME NEW d \in Cpus, WriterLocked(d) PROVE hash_tab[wbkt[d]] \subseteq hash_tab'[wbkt[d]]
    <3>1. wbkt[d] \in Buckets /\ Lock(wbkt[d]) # Lock(b) BY <2>1, WriterControl DEF Unlocked
    <3> QED BY <1>1, <3>1
  <2> QED BY <2>1, WriterFrame
<1>6. PinsCounted'
  <2>1. \A j : Pins(j)' = Pins(j) BY DEF Pins, Holds
  <2> QED BY <2>1 DEF StoreInv, PinsCounted, SameRef
<1> QED BY <1>3, <1>4, <1>5, <1>6

\* Aging keeps an item's type, identity and reference count.
LEMMA AgedItem == ASSUME NEW r \in ItemRec PROVE Aged(r) \in ItemRec /\ SameRef(Aged(r), r)
<1> DEFINE s == [r EXCEPT !.refcnt = r.refcnt - 1]
           f == NextFlag(r, r.refcnt - 1)
<1>1. r.refcnt \in Int /\ r.flag_cache \in 0 .. 4 BY DEF ItemRec
<1>2. s \in ItemRec /\ SameRef(s, r)
  <2>1. r.refcnt - 1 \in Int BY <1>1
  <2> QED BY <2>1, FieldUpdate, FieldKeeps
<1>3. 2 \in 0 .. 4 /\ 3 \in 0 .. 4 OBVIOUS
<1>4. f \in 0 .. 4 BY <1>1, <1>3 DEF NextFlag
<1>5. Aged(r) = [s EXCEPT !.flag_cache = f] BY DEF Aged, ItemRec
<1> HIDE DEF s, f
<1>6. [s EXCEPT !.flag_cache = f] \in ItemRec /\ SameRef([s EXCEPT !.flag_cache = f], s)
  BY <1>2, <1>4, FieldUpdate, FieldKeeps
<1> QED BY <1>2, <1>5, <1>6 DEF SameRef

\* The number of deleted items is a number.
LEMMA DeadCount == ASSUME NEW D \in SUBSET Items PROVE Cardinality(D) \in Nat
BY ItemsAssumption, FS_Subset, FS_CardinalityType

\* An object in the slab is an item.
LEMMA FreeItemType == FreeItem \in ItemRec
BY DEF FreeItem, ItemRec, DataState

\* A step that only stops the machine.
LEMMA PanicInv ==
    ASSUME StoreInv, UNCHANGED <<item, tableVars, handlerVars, writerVars, diskVars, pending, exitVars>>,
           panic' \in PanicState
    PROVE  StoreInv'
<1>1. TypeOK' /\ BitsInv'
  BY DEF StoreInv, TypeOK, BitsInv, tableVars, handlerVars, writerVars, diskVars, exitVars
<1>2. HandlerInv' /\ TableInv' /\ ExitInv' /\ PinsCounted'
  BY HandlerFrame, HandlerControl DEF exitVars, SameRef
<1>3. WriterInv' BY WriterFrame DEF tableVars
<1> QED BY <1>1, <1>2, <1>3 DEF StoreInv

\* A failed kernel_write.
LEMMA WrErrorInv == ASSUME StoreInv, NEW c \in Cpus, WrError(c) PROVE StoreInv'
BY PanicInv DEF WrError, PanicState

\* bucket_clear_item deletes unreferenced items only, under the write lock.
LEMMA BucketClearInv == ASSUME StoreInv, NEW b \in Buckets, BucketClear(b) PROVE StoreInv'
<1> USE HandlerControl
<1>1. PICK dead : dead = {i \in hash_tab[b] : Expired(item[i])} OBVIOUS
<1>2. PICK kept : kept = hash_tab[b] \ dead OBVIOUS
<1>3. Unlocked(b) /\ UNCHANGED <<handlerVars, writerVars, bitmap_index, file, exitVars>>
  BY DEF BucketClear
<1>4. CASE panic' = "cannot arrive here" /\ UNCHANGED <<item, tableVars, bitmap, pending>>
  BY <1>3, <1>4, PanicInv DEF PanicState, diskVars
<1>5. CASE /\ item' = [i \in Items |-> IF i \in dead THEN FreeItem
                                       ELSE IF i \in kept THEN Aged(item[i]) ELSE item[i]]
           /\ hash_tab' = [hash_tab EXCEPT ![b] = kept] /\ slab' = slab \ dead
           /\ hash_count' = hash_count - Cardinality(dead)
           /\ bitmap' = [c \in Cpus |-> bitmap[c] \ ClearedBits(dead, c)]
           /\ pending' \in {pending \cup {b}, pending} /\ UNCHANGED panic
  <2>1. dead \in SUBSET hash_tab[b] /\ dead \in SUBSET Items BY <1>1
  <2>2. ASSUME NEW i \in dead PROVE Pins(i) = {}
    <3>1. i \in slab /\ item[i].share_ref = 1 BY <1>1 DEF StoreInv, TableInv, Expired
    <3> QED BY <3>1, UnsharedUnpinned
  <2>3. \A j \in Items : item[j] \in ItemRec /\ Aged(item[j]) \in ItemRec
                         /\ SameRef(Aged(item[j]), item[j])
    BY AgedItem
  <2>4. \A j \in Items \ dead : SameRef(item'[j], item[j]) BY <1>5, <2>3 DEF SameRef
  <2>5. item' \in [Items -> ItemRec] BY <1>5, <2>3, FreeItemType
  <2>6. HandlerInv' /\ TableInv' /\ WriterInv' /\ PinsCounted'
    BY <1>2, <1>3, <1>5, <2>1, <2>2, <2>4, DeleteItems
  <2>7. ExitInv' BY <1>3 DEF StoreInv, ExitInv, handlerVars, exitVars
  <2>8. bitmap \in [Cpus -> SUBSET Nat] /\ pending \in SUBSET Buckets BY DEF StoreInv, TypeOK
  <2>9. bitmap' \in [Cpus -> SUBSET Nat] /\ pending' \in SUBSET Buckets BY <1>5, <2>8
  <2>10. BitsInv' BY <1>3, <1>5 DEF StoreInv, BitsInv
  <2>11. hash_count' \in Int /\ slab' \in SUBSET Items BY <1>5, <2>1, DeadCount
  <2>12. hash_tab' \in [Buckets -> SUBSET Items] BY <1>2, <1>5
  <2>13. TypeOK'
    BY <1>3, <1>5, <2>5, <2>9, <2>11, <2>12 DEF StoreInv, TypeOK, handlerVars, writerVars, exitVars
  <2> QED BY <2>6, <2>7, <2>10, <2>13 DEF StoreInv
<1>6. \/ panic' = "cannot arrive here" /\ UNCHANGED <<item, tableVars, bitmap, pending>>
      \/ /\ item' = [i \in Items |-> IF i \in dead THEN FreeItem
                                       ELSE IF i \in kept THEN Aged(item[i]) ELSE item[i]]
         /\ hash_tab' = [hash_tab EXCEPT ![b] = kept] /\ slab' = slab \ dead
         /\ hash_count' = hash_count - Cardinality(dead)
         /\ bitmap' = [c \in Cpus |-> bitmap[c] \ ClearedBits(dead, c)]
         /\ pending' \in {pending \cup {b}, pending} /\ UNCHANGED panic
  BY <1>1, <1>2 DEF BucketClear
<1> QED BY <1>4, <1>5, <1>6

\* After the last handler nobody holds a reference.
LEMMA ExitUnpinned == ASSUME StoreInv, phase # "run" PROVE \A i \in Items : Pins(i) = {}
<1> SUFFICES ASSUME NEW i \in Items, NEW e \in Pins(i) PROVE FALSE OBVIOUS
<1>1. PICK c \in Cpus, k \in 0 .. MaxRead : Holds(c, k, i) BY DEF Pins
<1>2. hpc[c] = "idle" /\ \A j \in Slots : rskb[c][j] = NoItem BY DEF StoreInv, ExitInv
<1>3. i # NoItem BY ChunkAssumption
<1>4. CASE k = 0 BY <1>1, <1>2, <1>4 DEF Holds
<1>5. CASE k # 0
  <2>1. k \in Slots BY <1>5 DEF Slots
  <2> QED BY <1>1, <1>2, <1>3, <1>5, <2>1 DEF Holds
<1> QED BY <1>4, <1>5

\* hash_flush deletes every item of a bucket, when no handler is left.
LEMMA FlushBucketInv == ASSUME StoreInv, FlushBucket PROVE StoreInv'
<1> USE HandlerControl
<1>1. PICK b : b = idx OBVIOUS
<1>2. b \in Buckets BY <1>1 DEF StoreInv, TypeOK
<1>3. PICK dead : dead = hash_tab[b] OBVIOUS
<1>4. /\ phase = "flush" /\ Unlocked(b)
      /\ UNCHANGED <<handlerVars, writerVars, diskVars, pending, timers>>
  BY <1>1 DEF FlushBucket
<1>5. CASE panic' = "cannot arrive here" /\ UNCHANGED <<item, tableVars, phase, idx>>
  BY <1>4, <1>5, PanicInv DEF PanicState, exitVars
<1>6. CASE /\ item' = [i \in Items |-> IF i \in dead THEN FreeItem ELSE item[i]]
           /\ hash_tab' = [hash_tab EXCEPT ![b] = {}] /\ slab' = slab \ dead
           /\ hash_count' = hash_count - Cardinality(dead)
           /\ IF idx + 1 < NumBuckets THEN idx' = idx + 1 /\ UNCHANGED phase
              ELSE idx' = 0 /\ phase' = "timers"
           /\ UNCHANGED panic
  <2>1. dead \in SUBSET hash_tab[b] /\ dead \in SUBSET Items /\ hash_tab[b] \ dead = {} BY <1>2, <1>3
  <2>2. \A i \in dead : Pins(i) = {} BY <1>4, <2>1, ExitUnpinned
  <2>3. \A j \in Items \ dead : SameRef(item'[j], item[j]) BY <1>6 DEF SameRef
  <2>4. item' \in [Items -> ItemRec] BY <1>6, FreeItemType
  <2>5. HandlerInv' /\ TableInv' /\ WriterInv' /\ PinsCounted'
    BY <1>2, <1>4, <1>6, <2>1, <2>2, <2>3, DeleteItems
  <2>6. ExitInv' BY <1>4, <1>6 DEF StoreInv, ExitInv, handlerVars
  <2>7. BitsInv' BY <1>4 DEF StoreInv, BitsInv, diskVars
  <2>8. hash_count' \in Int /\ slab' \in SUBSET Items BY <1>6, <2>1, DeadCount
  <2>9. hash_tab' \in [Buckets -> SUBSET Items] BY <1>6
  <2>10. idx' \in Buckets
    BY <1>1, <1>2, <1>6, SizeAssumption DEF Buckets
  <2>11. phase' \in {"timers", "flush"} BY <1>4, <1>6
  <2>12. TypeOK'
    BY <1>4, <1>6, <2>4, <2>8, <2>9, <2>10, <2>11
    DEF StoreInv, TypeOK, handlerVars, writerVars, diskVars
  <2> QED BY <2>5, <2>6, <2>7, <2>12 DEF StoreInv
<1>7. \/ panic' = "cannot arrive here" /\ UNCHANGED <<item, tableVars, phase, idx>>
      \/ /\ item' = [i \in Items |-> IF i \in dead THEN FreeItem ELSE item[i]]
         /\ hash_tab' = [hash_tab EXCEPT ![b] = {}] /\ slab' = slab \ dead
         /\ hash_count' = hash_count - Cardinality(dead)
         /\ IF idx + 1 < NumBuckets THEN idx' = idx + 1 /\ UNCHANGED phase
            ELSE idx' = 0 /\ phase' = "timers"
         /\ UNCHANGED panic
  BY <1>1, <1>3 DEF FlushBucket
<1> QED BY <1>5, <1>6, <1>7

\* The other teardown steps touch timers, phase and idx only.
LEMMA PhaseInv ==
    ASSUME StoreInv, UNCHANGED <<item, tableVars, handlerVars, writerVars, diskVars, pending, panic>>,
           timers' \in SUBSET Buckets, phase' \in {"run", "flush", "timers", "drain", "done"},
           idx' \in Buckets, phase # "run" \/ HandlersDone
    PROVE  StoreInv'
<1>1. TypeOK' /\ BitsInv'
  BY DEF StoreInv, TypeOK, BitsInv, tableVars, handlerVars, writerVars, diskVars
<1>2. HandlerInv' /\ TableInv' /\ PinsCounted'
  <2>1. \A i : Pins(i)' = Pins(i) BY DEF Pins, Holds, handlerVars
  <2> QED BY <2>1 DEF StoreInv, HandlerInv, HandlerOK, TableInv, PinsCounted, tableVars, handlerVars
<1>3. WriterInv' BY WriterFrame DEF tableVars
<1>4. ExitInv' BY DEF StoreInv, ExitInv, HandlersDone, handlerVars
<1> QED BY <1>1, <1>2, <1>3, <1>4 DEF StoreInv

\* The teardown steps that delete no item.
LEMMA TeardownInv ==
    ASSUME StoreInv, BeginExit \/ DelTimer \/ Destroy PROVE StoreInv'
<1>1. timers \in SUBSET Buckets /\ idx \in Buckets BY DEF StoreInv, TypeOK
<1>2. CASE BeginExit BY <1>1, <1>2, PhaseInv DEF BeginExit
<1>3. CASE DelTimer
  <2>1. idx' \in Buckets BY <1>1, <1>3, SizeAssumption DEF DelTimer, Buckets
  <2> QED BY <1>1, <1>3, <2>1, PhaseInv DEF DelTimer
<1>4. CASE Destroy BY <1>1, <1>4, PhaseInv DEF Destroy
<1> QED BY <1>2, <1>3, <1>4

-----------------------------------------------------------------------------
(* The theorems *)

\* Every step preserves StoreInv.
LEMMA StoreStep == StoreInv /\ [Next]_vars => StoreInv'
<1> SUFFICES ASSUME StoreInv, [Next]_vars PROVE StoreInv' OBVIOUS
<1>1. CASE UNCHANGED vars
  BY <1>1, PanicInv DEF vars, StoreInv, TypeOK
<1>2. ASSUME NEW c \in Cpus, Handler(c) PROVE StoreInv'
  BY <1>2, GetHashItemInv, PinItemInv, MarkReadInv, HandHashInv, AddCheckInv, AddAllocInv,
     AddLinkInv, ReadNextInv, CopyInInv, UnpinInv DEF Handler
<1>3. ASSUME NEW c \in Cpus, Writer(c) PROVE StoreInv'
  BY <1>3, WrStartInv, WrSumInv, WrSumEndInv, WrRecheckInv, WrCopyInv, WrCopyEndInv, WrWriteInv, WrErrorInv,
     WrRelockInv, WrScanInv, WrToDiskInv, WrFreeInv, WrEndInv DEF Writer
<1>4. ASSUME NEW b \in Buckets, BucketClear(b) PROVE StoreInv'
  BY <1>4, BucketClearInv
<1>5. CASE Teardown BY <1>5, FlushBucketInv, TeardownInv DEF Teardown
<1>6. CASE Stopped BY <1>1, <1>6 DEF Stopped
<1> QED BY <1>1, <1>2, <1>3, <1>4, <1>5, <1>6 DEF Next

\* StoreInv holds in every reachable state of the chunk cache.
THEOREM StoreInvariant == Spec => []StoreInv
<1>1. Init => StoreInv BY StoreInit
<1>2. StoreInv /\ [Next]_vars => StoreInv' BY StoreStep
<1> QED BY <1>1, <1>2, PTL DEF Spec

\* Every variable keeps its type in every reachable state.
THEOREM TypeCorrect == Spec => []TypeOK
<1>1. StoreInv => TypeOK BY DEF StoreInv
<1> QED BY <1>1, StoreInvariant, PTL

\* share_ref always counts the table's reference and the references held by handlers.
THEOREM ReferencesCounted == Spec => []PinsCounted
<1>1. StoreInv => PinsCounted BY DEF StoreInv
<1> QED BY <1>1, StoreInvariant, PTL

\* What StoreInv says of the items that a thread or the table refers to.
LEMMA NothingFreed == ASSUME StoreInv PROVE NoUseAfterFree
<1>1. ASSUME NEW c \in Cpus PROVE WriterLocked(c) => wtodo[c] \subseteq slab
  BY WriterItem
<1>2. ASSUME NEW c \in Cpus PROVE witem[c] # NoItem => witem[c] \in slab
  <2> SUFFICES ASSUME witem[c] # NoItem PROVE witem[c] \in slab OBVIOUS
  <2>1. wpc[c] \in {"copy", "todisk", "free"} BY DEF StoreInv, WriterInv, WriterOK
  <2>2. WriterLocked(c) BY <2>1 DEF WriterLocked
  <2> QED BY <2>1, <2>2, WriterItem
<1>3. \A b \in Buckets : hash_tab[b] \subseteq slab BY DEF StoreInv, TableInv
<1> QED BY <1>1, <1>2, <1>3, HeldInSlab DEF NoUseAfterFree

\* No handler, read list entry, writer or bucket ever refers to a freed item.
THEOREM MemorySafe == Spec => []NoUseAfterFree
<1>1. StoreInv => NoUseAfterFree BY NothingFreed
<1> QED BY <1>1, StoreInvariant, PTL

-----------------------------------------------------------------------------
(***************************************************************************)
(* The second part: races, bits and the end                                *)
(***************************************************************************)

(* Sets of CPUs and of items are finite *)

LEMMA CpuSets ==
    /\ IsFiniteSet(Cpus) /\ Cardinality(Cpus) = NumCpus
    /\ \A S \in SUBSET Cpus : /\ IsFiniteSet(S) /\ Cardinality(S) \in Nat
                              /\ Cardinality(S) <= NumCpus
<1>1. IsFiniteSet(Cpus) /\ Cardinality(Cpus) = NumCpus
  <2>1. NumCpus - 1 \in Int /\ 0 \in Int /\ NumCpus \in Nat \ {0} BY SizeAssumption
  <2> QED BY <2>1, FS_Interval DEF Cpus
<1>2. ASSUME NEW S \in SUBSET Cpus
      PROVE  IsFiniteSet(S) /\ Cardinality(S) \in Nat /\ Cardinality(S) <= NumCpus
  <2>1. IsFiniteSet(S) /\ Cardinality(S) <= Cardinality(Cpus) BY <1>1, FS_Subset
  <2> QED BY <1>1, <2>1, FS_CardinalityType
<1> QED BY <1>1, <1>2

LEMMA ItemSets ==
    \A S \in SUBSET Items : IsFiniteSet(S) /\ Cardinality(S) \in Nat
BY ItemsAssumption, FS_Subset, FS_CardinalityType

\* Removing members from a set of items.
LEMMA ItemsRemoved ==
    ASSUME NEW S \in SUBSET Items, NEW D \in SUBSET S
    PROVE  Cardinality(S \ D) = Cardinality(S) - Cardinality(D)
<1>1. S \cap D = D /\ IsFiniteSet(S) BY ItemSets
<1> QED BY <1>1, FS_Difference

\* A subset is not larger.
LEMMA ItemsSubset ==
    ASSUME NEW S \in SUBSET Items, NEW T \in SUBSET S
    PROVE  Cardinality(T) <= Cardinality(S)
BY ItemSets, FS_Subset

LEMMA CpusSubset ==
    ASSUME NEW S \in SUBSET Cpus, NEW T \in SUBSET S
    PROVE  Cardinality(T) <= Cardinality(S)
BY CpuSets, FS_Subset

-----------------------------------------------------------------------------
(* The table: LinkedOrNew, CountInv, DuplicatesBounded *)

TablePart == LinkedOrNew /\ CountInv /\ DuplicatesBounded

\* Where a handler adds an item.
Adding == {"check", "alloc", "link"}

LEMMA TableTypes ==
    ASSUME StoreInv
    PROVE  /\ slab \in SUBSET Items /\ hash_count \in Int /\ hpc \in [Cpus -> HandlerPc]
           /\ hchunk \in [Cpus -> Chunks \cup {NoChunk}]
           /\ hitem \in [Cpus -> Items \cup {NoItem}]
           /\ item \in [Items -> ItemRec] /\ hash_tab \in [Buckets -> SUBSET Items]
           /\ Passed \in SUBSET Cpus
           /\ \A ch \in Chunks : Copies(ch) \in SUBSET Items /\ Adders(ch) \in SUBSET Cpus
BY DEF StoreInv, TypeOK, Passed, Copies, Adders

\* A step that changes neither the table nor what the adding handlers do.
LEMMA TablePartFrame ==
    ASSUME StoreInv, TablePart, UNCHANGED tableVars,
           \A i \in Items : item'[i].sha1 = item[i].sha1,
           \A d \in Cpus : \/ /\ hpc'[d] = hpc[d] /\ hchunk'[d] = hchunk[d]
                              /\ hitem'[d] = hitem[d]
                           \/ hpc[d] \notin Adding /\ hpc'[d] \notin Adding
    PROVE  TablePart'
<1> USE DEF tableVars, Adding
<1>1. slab \subseteq Items BY TableTypes
<1>2. LinkedOrNew' BY DEF TablePart, LinkedOrNew
<1>3. Passed' = Passed BY DEF Passed
<1>4. \A ch \in Chunks : Copies(ch)' = Copies(ch) BY <1>1 DEF Copies
<1>5. \A ch \in Chunks : Adders(ch)' = Adders(ch) BY DEF Adders
<1>6. CountInv' BY <1>3 DEF TablePart, CountInv
<1>7. DuplicatesBounded' BY <1>4, <1>5 DEF TablePart, DuplicatesBounded
<1> QED BY <1>2, <1>6, <1>7 DEF TablePart

\* A lookup that finds nothing: every copy of the chunk is then about to be linked, each by
\* a CPU of its own, and this CPU is none of them.
LEMMA MissCounted ==
    ASSUME StoreInv, LinkedOrNew, NEW c \in Cpus, NEW ch \in Chunks, hpc[c] = "idle",
           \A i \in hash_tab[BucketOf[ch]] : item[i].sha1 # ch
    PROVE  Cardinality(Copies(ch)) + Cardinality(Adders(ch) \cup {c}) <= NumCpus
<1> DEFINE L == {d \in Cpus : hpc[d] = "link" /\ hitem[d] \in Copies(ch)}
           A == Adders(ch) \cup {c}
<1>1. ASSUME NEW i \in Copies(ch) PROVE \E d \in L : hitem[d] = i
  <2>1. i \in slab /\ item[i].sha1 = ch BY DEF Copies
  <2>2. \A b \in Buckets : i \notin hash_tab[b]
    BY <2>1, ChunkAssumption DEF StoreInv, TableInv
  <2>3. PICK d \in Cpus : hpc[d] = "link" /\ hitem[d] = i
    BY <2>1, <2>2 DEF LinkedOrNew
  <2> QED BY <2>3
<1>2. L \in SUBSET Cpus /\ A \in SUBSET Cpus /\ L \cap A = {} BY DEF Adders
<1>3. Cardinality(Copies(ch)) <= Cardinality(L)
  <2> DEFINE f == [d \in L |-> hitem[d]]
  <2>1. f \in [L -> Copies(ch)] OBVIOUS
  <2>2. \A i \in Copies(ch) : \E d \in L : f[d] = i BY <1>1
  <2>3. f \in Surjection(L, Copies(ch)) BY <2>1, <2>2 DEF Surjection
  <2>4. IsFiniteSet(L) BY <1>2, CpuSets
  <2> HIDE DEF f, L
  <2> QED BY <2>3, <2>4, FS_Surjection
<1>4. Cardinality(L) + Cardinality(A) <= NumCpus
  <2> HIDE DEF L, A
  <2>1. IsFiniteSet(L) /\ IsFiniteSet(A) /\ Cardinality(L) \in Nat /\ Cardinality(A) \in Nat
    BY <1>2, CpuSets
  <2>2. Cardinality(L \cup A) = Cardinality(L) + Cardinality(A) - Cardinality(L \cap A)
    BY <2>1, FS_Union
  <2>3. Cardinality(L \cap A) = 0 BY <1>2, FS_EmptySet
  <2>4. Cardinality(L \cup A) <= NumCpus BY <1>2, CpuSets
  <2> QED BY <2>1, <2>2, <2>3, <2>4
<1>5. Cardinality(Copies(ch)) \in Nat BY TableTypes, ItemSets
<1>6. Cardinality(L) \in Nat /\ Cardinality(A) \in Nat BY <1>2, CpuSets
<1>7. NumCpus \in Nat BY SizeAssumption
<1> QED BY <1>3, <1>4, <1>5, <1>6, <1>7

LEMMA GetHashItemTable ==
    ASSUME StoreInv, TablePart, NEW c \in Cpus, NEW ch \in Chunks, GetHashItem(c, ch)
    PROVE  TablePart'
<1> USE TableTypes
<1>1. hpc[c] = "idle" /\ hchunk' = [hchunk EXCEPT ![c] = ch] /\ UNCHANGED tableVars
  BY DEF GetHashItem
<1>2. CASE \E i \in hash_tab[BucketOf[ch]] :
            /\ item' = [item EXCEPT ![i].refcnt = @ + ITEM_CITE_FIND]
            /\ hitem' = [hitem EXCEPT ![c] = i] /\ hpc' = [hpc EXCEPT ![c] = "pin"]
  <2>1. \A i \in Items : item'[i].sha1 = item[i].sha1
    <3>1. PICK j \in hash_tab[BucketOf[ch]] :
            item' = [item EXCEPT ![j] = [item[j] EXCEPT !.refcnt = @ + ITEM_CITE_FIND]]
      BY <1>2
    <3> QED BY <3>1 DEF ItemRec
  <2> QED BY <1>1, <1>2, <2>1, TablePartFrame DEF Adding
<1>3. CASE /\ \A i \in hash_tab[BucketOf[ch]] : ~Matches(item[i], ch)
           /\ hpc' = [hpc EXCEPT ![c] = "check"] /\ UNCHANGED <<item, hitem>>
  <2>1. LinkedOrNew' BY <1>1, <1>3 DEF TablePart, LinkedOrNew, tableVars
  <2>2. Passed' = Passed BY <1>1, <1>3 DEF Passed
  <2>3. CountInv' BY <1>1, <2>2 DEF TablePart, CountInv, tableVars
  <2>4. \A x \in Chunks : Copies(x)' = Copies(x) BY <1>1, <1>3 DEF Copies, tableVars
  <2>5. Adders(ch)' = Adders(ch) \cup {c} BY <1>1, <1>3 DEF Adders
  <2>6. \A x \in Chunks \ {ch} : Adders(x)' = Adders(x) BY <1>1, <1>3 DEF Adders
  <2>7. Cardinality(Copies(ch)) + Cardinality(Adders(ch) \cup {c}) <= NumCpus
    BY <1>1, <1>3, MissCounted DEF Matches, TablePart
  <2>8. DuplicatesBounded'
    BY <2>4, <2>5, <2>6, <2>7 DEF TablePart, DuplicatesBounded
  <2> QED BY <2>1, <2>3, <2>8 DEF TablePart
<1> QED BY <1>2, <1>3 DEF GetHashItem

\* A handler leaves the set of those that add ch.
LEMMA AdderLeaves ==
    ASSUME StoreInv, DuplicatesBounded, slab' = slab, \A i \in slab : item'[i].sha1 = item[i].sha1,
           \A ch \in Chunks : Adders(ch)' \subseteq Adders(ch)
    PROVE  DuplicatesBounded'
<1> SUFFICES ASSUME NEW ch \in Chunks
             PROVE  Cardinality(Copies(ch)') + Cardinality(Adders(ch)') <= NumCpus
  BY DEF DuplicatesBounded
<1>1. Copies(ch)' = Copies(ch) BY DEF Copies
<1>2. Cardinality(Adders(ch)') <= Cardinality(Adders(ch)) BY TableTypes, CpusSubset
<1>3. Adders(ch) \in SUBSET Cpus /\ Adders(ch)' \in SUBSET Cpus BY DEF Adders
<1>4. Cardinality(Copies(ch)) \in Nat /\ Cardinality(Adders(ch)) \in Nat
      /\ Cardinality(Adders(ch)') \in Nat /\ NumCpus \in Nat
  BY <1>3, TableTypes, ItemSets, CpuSets, SizeAssumption
<1>5. Cardinality(Copies(ch)) + Cardinality(Adders(ch)) <= NumCpus BY DEF DuplicatesBounded
<1> QED BY <1>1, <1>2, <1>4, <1>5

LEMMA AddCheckTable ==
    ASSUME StoreInv, TablePart, NEW c \in Cpus, AddCheck(c) PROVE TablePart'
<1> USE TableTypes
<1>1. hpc[c] = "check" /\ UNCHANGED <<item, tableVars, hitem>> BY DEF AddCheck
<1>2. \/ hpc' = [hpc EXCEPT ![c] = "idle"] /\ hchunk' = [hchunk EXCEPT ![c] = NoChunk]
      \/ hpc' = [hpc EXCEPT ![c] = "alloc"] /\ UNCHANGED hchunk /\ ~AtLimit
  BY DEF AddCheck
<1>3. LinkedOrNew' BY <1>1, <1>2 DEF TablePart, LinkedOrNew, tableVars
<1>4. \A ch \in Chunks : Adders(ch)' \subseteq Adders(ch) BY <1>1, <1>2 DEF Adders
<1>5. DuplicatesBounded'
  BY <1>1, <1>4, AdderLeaves DEF TablePart, tableVars
<1>6. CountInv'
  <2>1. hash_count' = hash_count /\ slab' = slab BY <1>1 DEF tableVars
  <2>2. CASE ~AtLimit
    <3>1. Passed' \in SUBSET Cpus BY DEF Passed
    <3>2. Cardinality(Passed') \in Nat /\ Cardinality(Passed') <= NumCpus BY <3>1, CpuSets
    <3> QED BY <2>1, <2>2, <3>2, SizeAssumption DEF AtLimit, TablePart, CountInv
  <2>3. CASE hpc' = [hpc EXCEPT ![c] = "idle"]
    <3>1. Passed' = Passed BY <1>1, <2>3 DEF Passed
    <3> QED BY <2>1, <3>1 DEF TablePart, CountInv
  <2> QED BY <1>2, <2>2, <2>3
<1> QED BY <1>3, <1>5, <1>6 DEF TablePart

LEMMA AddAllocTable ==
    ASSUME StoreInv, TablePart, NEW c \in Cpus, AddAlloc(c) PROVE TablePart'
<1> USE TableTypes
<1>1. hpc[c] = "alloc" /\ UNCHANGED hash_tab /\ hchunk[c] \in Chunks
  BY DEF AddAlloc, StoreInv, HandlerInv, HandlerOK
<1>2. c \in Passed /\ IsFiniteSet(Passed) /\ Cardinality(Passed) \in Nat
  BY <1>1, CpuSets DEF Passed
<1>3. CASE \E i \in Items \ slab :
            /\ item' = [item EXCEPT ![i] = NewItem(hchunk[c])]
            /\ slab' = slab \cup {i} /\ hash_count' = hash_count + 1
            /\ hitem' = [hitem EXCEPT ![c] = i] /\ hpc' = [hpc EXCEPT ![c] = "link"]
            /\ UNCHANGED hchunk
  <2>1. PICK i \in Items \ slab :
            /\ item' = [item EXCEPT ![i] = NewItem(hchunk[c])]
            /\ slab' = slab \cup {i} /\ hash_count' = hash_count + 1
            /\ hitem' = [hitem EXCEPT ![c] = i] /\ hpc' = [hpc EXCEPT ![c] = "link"]
            /\ UNCHANGED hchunk
    BY <1>3
  <2>2. LinkedOrNew' BY <1>1, <2>1 DEF TablePart, LinkedOrNew
  <2>3. Passed' = Passed \ {c} BY <1>1, <2>1 DEF Passed
  <2>4. Cardinality(Passed') = Cardinality(Passed) - 1 BY <1>2, <2>3, FS_RemoveElement
  <2>5. IsFiniteSet(slab) BY ItemSets
  <2>6. Cardinality(slab') = Cardinality(slab) + 1 BY <2>1, <2>5, FS_AddElement
  <2>7. CountInv'
    BY <1>2, <2>1, <2>4, <2>6, SizeAssumption DEF TablePart, CountInv
  <2>8. DuplicatesBounded'
    <3> SUFFICES ASSUME NEW ch \in Chunks
                 PROVE  Cardinality(Copies(ch)') + Cardinality(Adders(ch)') <= NumCpus
      BY DEF DuplicatesBounded
    <3>1. Cardinality(Copies(ch)) + Cardinality(Adders(ch)) <= NumCpus
      BY DEF TablePart, DuplicatesBounded
    <3>2. IsFiniteSet(Copies(ch)) /\ IsFiniteSet(Adders(ch))
          /\ Cardinality(Copies(ch)) \in Nat /\ Cardinality(Adders(ch)) \in Nat
      BY ItemSets, CpuSets
    <3>3. item'[i] = NewItem(hchunk[c]) /\ \A j \in slab : item'[j] = item[j] BY <2>1
    <3>4. item'[i].sha1 = hchunk[c] BY <3>3 DEF NewItem
    <3>5. CASE ch = hchunk[c]
      <4>1. Copies(ch)' = Copies(ch) \cup {i} BY <2>1, <3>3, <3>4, <3>5 DEF Copies
      <4>2. i \notin Copies(ch) BY <2>1 DEF Copies
      <4>3. Adders(ch)' = Adders(ch) \ {c} /\ c \in Adders(ch)
        BY <1>1, <2>1, <3>5 DEF Adders
      <4>4. Cardinality(Copies(ch)') = Cardinality(Copies(ch)) + 1
        BY <3>2, <4>1, <4>2, FS_AddElement
      <4>5. Cardinality(Adders(ch)') = Cardinality(Adders(ch)) - 1
        BY <3>2, <4>3, FS_RemoveElement
      <4> QED BY <3>1, <3>2, <4>4, <4>5
    <3>6. CASE ch # hchunk[c]
      <4>1. Copies(ch)' = Copies(ch) BY <2>1, <3>3, <3>4, <3>6 DEF Copies
      <4>2. Adders(ch)' = Adders(ch) BY <2>1, <3>6 DEF Adders
      <4> QED BY <3>1, <4>1, <4>2
    <3> QED BY <3>5, <3>6
  <2> QED BY <2>2, <2>7, <2>8 DEF TablePart
<1>4. CASE /\ hpc' = [hpc EXCEPT ![c] = "idle"] /\ hchunk' = [hchunk EXCEPT ![c] = NoChunk]
           /\ UNCHANGED <<item, slab, hash_count, hitem>>
  <2>1. LinkedOrNew' BY <1>1, <1>4 DEF TablePart, LinkedOrNew
  <2>2. \A ch \in Chunks : Adders(ch)' \subseteq Adders(ch) BY <1>4 DEF Adders
  <2>3. DuplicatesBounded' BY <1>4, <2>2, AdderLeaves DEF TablePart
  <2>4. Passed' \subseteq Passed BY <1>4 DEF Passed
  <2>5. Cardinality(Passed') <= Cardinality(Passed) /\ Cardinality(Passed') \in Nat
    BY <1>2, <2>4, CpuSets, CpusSubset
  <2>6. CountInv' BY <1>2, <1>4, <2>5, SizeAssumption DEF TablePart, CountInv
  <2> QED BY <2>1, <2>3, <2>6 DEF TablePart
<1> QED BY <1>3, <1>4 DEF AddAlloc

LEMMA AddLinkTable ==
    ASSUME StoreInv, TablePart, NEW c \in Cpus, AddLink(c) PROVE TablePart'
<1> USE TableTypes
<1>1. PICK b \in Buckets :
        /\ hpc[c] = "link" /\ hash_tab' = [hash_tab EXCEPT ![b] = @ \cup {hitem[c]}]
        /\ hpc' = [hpc EXCEPT ![c] = "idle"] /\ hitem' = [hitem EXCEPT ![c] = NoItem]
        /\ hchunk' = [hchunk EXCEPT ![c] = NoChunk] /\ UNCHANGED <<item, slab, hash_count>>
  <2>1. hchunk[c] \in Chunks BY DEF AddLink, StoreInv, HandlerInv, HandlerOK
  <2> QED BY <2>1, ChunkAssumption DEF AddLink
<1>2. LinkedOrNew'
  <2> SUFFICES ASSUME NEW i \in slab
               PROVE  \/ \E a \in Buckets : i \in hash_tab'[a]
                      \/ \E d \in Cpus : hpc'[d] = "link" /\ hitem'[d] = i
    BY <1>1 DEF LinkedOrNew
  <2>1. CASE \E a \in Buckets : i \in hash_tab[a] BY <1>1, <2>1
  <2>2. ASSUME NEW d \in Cpus, hpc[d] = "link", hitem[d] = i
        PROVE  \/ \E a \in Buckets : i \in hash_tab'[a]
               \/ \E e \in Cpus : hpc'[e] = "link" /\ hitem'[e] = i
    <3>1. CASE d = c BY <1>1, <2>2, <3>1
    <3>2. CASE d # c BY <1>1, <2>2, <3>2
    <3> QED BY <3>1, <3>2
  <2> QED BY <2>1, <2>2 DEF TablePart, LinkedOrNew
<1>3. Passed' = Passed BY <1>1 DEF Passed
<1>4. CountInv' BY <1>1, <1>3 DEF TablePart, CountInv
<1>5. \A ch \in Chunks : Adders(ch)' \subseteq Adders(ch) BY <1>1 DEF Adders
<1>6. DuplicatesBounded' BY <1>1, <1>5, AdderLeaves DEF TablePart
<1> QED BY <1>2, <1>4, <1>6 DEF TablePart

\* Items leave a bucket and the slab together.
LEMMA DeleteTable ==
    ASSUME StoreInv, TablePart, NEW b \in Buckets, NEW dead \in SUBSET hash_tab[b],
           hash_tab' = [hash_tab EXCEPT ![b] = hash_tab[b] \ dead], slab' = slab \ dead,
           hash_count' = hash_count - Cardinality(dead), UNCHANGED handlerVars,
           \A j \in slab \ dead : item'[j].sha1 = item[j].sha1
    PROVE  TablePart'
<1> USE TableTypes DEF handlerVars
<1>1. dead \in SUBSET slab /\ dead \in SUBSET Items BY DEF StoreInv, TableInv
<1>2. LinkedOrNew' BY DEF TablePart, LinkedOrNew
<1>3. Passed' = Passed BY DEF Passed
<1>4. Cardinality(slab') = Cardinality(slab) - Cardinality(dead) BY <1>1, ItemsRemoved
<1>5. Cardinality(dead) \in Nat /\ Cardinality(Passed) \in Nat BY <1>1, ItemSets, CpuSets
<1>6. CountInv' BY <1>3, <1>4, <1>5, SizeAssumption DEF TablePart, CountInv
<1>7. DuplicatesBounded'
  <2> SUFFICES ASSUME NEW ch \in Chunks
               PROVE  Cardinality(Copies(ch)') + Cardinality(Adders(ch)') <= NumCpus
    BY DEF DuplicatesBounded
  <2>1. Adders(ch)' = Adders(ch) BY DEF Adders
  <2>2. Copies(ch)' \in SUBSET Copies(ch) /\ Copies(ch)' \in SUBSET Items BY DEF Copies
  <2>3. Cardinality(Copies(ch)') <= Cardinality(Copies(ch)) BY <2>2, ItemsSubset
  <2>4. Cardinality(Copies(ch)') \in Nat /\ Cardinality(Copies(ch)) \in Nat
        /\ Cardinality(Adders(ch)) \in Nat /\ NumCpus \in Nat
    BY <2>2, ItemSets, CpuSets, SizeAssumption
  <2>5. Cardinality(Copies(ch)) + Cardinality(Adders(ch)) <= NumCpus
    BY DEF TablePart, DuplicatesBounded
  <2> QED BY <2>1, <2>3, <2>4, <2>5
<1> QED BY <1>2, <1>6, <1>7 DEF TablePart

-----------------------------------------------------------------------------
(* The files: DiskInv, BitmapExact and what a step may do to an item's place *)

DiskPart == DiskInv /\ BitmapExact

\* The items that stay allocated and have a place in a file keep it.
PlacesKept ==
    \A i \in slab : OwnsBits(i) /\ i \in slab' =>
        /\ item'[i].cpuid = item[i].cpuid /\ item'[i].start = item[i].start
        /\ item'[i].flag_cache \in {1, 2, 4}

\* r is s after a step that gives no place in a file.
KeepsPlace(r, s) ==
    /\ r.sha1 = s.sha1
    /\ \/ r.cpuid = s.cpuid /\ r.start = s.start
       \/ r.cpuid \in {-2, -1} /\ s.cpuid \in {-2, -1}
    /\ s.cpuid \in Cpus /\ s.flag_cache \in {1, 2, 4} => r.flag_cache \in {1, 2, 4}

LEMMA KeepsSelf == \A r : KeepsPlace(r, r)
BY DEF KeepsPlace

\* A CPU number is what OwnsBits asks for.
LEMMA PlaceType ==
    ASSUME NEW r \in ItemRec
    PROVE  /\ r.cpuid >= 0 <=> r.cpuid \in Cpus
           /\ r.cpuid \notin Cpus <=> r.cpuid \in {-2, -1}
<1>1. r.cpuid \in {-2, -1} \cup Cpus BY DEF ItemRec
<1>2. \A v \in Cpus : v \in Int /\ v >= 0 BY SizeAssumption DEF Cpus
<1> QED BY <1>1, <1>2

\* The fields that say nothing of the place.
LEMMA FieldPlace ==
    ASSUME NEW r \in ItemRec
    PROVE  /\ \A v : KeepsPlace([r EXCEPT !.refcnt = v], r)
           /\ \A v : KeepsPlace([r EXCEPT !.share_ref = v], r)
           /\ \A v : KeepsPlace([r EXCEPT !.data = v, !.flag_mem = 1], r)
           /\ \A v : KeepsPlace([r EXCEPT !.mem_style = v, !.data = "garbage"], r)
           /\ KeepsPlace(FreeData(r), r)
           /\ KeepsPlace([r EXCEPT !.flag_cache = HitFlag(r.flag_cache)], r)
           /\ \A v : KeepsPlace([r EXCEPT !.cpuid = v], r) <=>
                v = r.cpuid \/ (v \in {-2, -1} /\ r.cpuid \in {-2, -1})
BY DEF ItemRec, KeepsPlace, FreeData, HitFlag

\* BitmapExact, bit by bit.
BitsExact ==
    phase = "run" =>
        /\ \A c \in Cpus : \A x :
            x \in bitmap[c] <=> \E j \in slab : item[j].cpuid = c /\ x \in Extent(item[j])
        /\ \A i, j \in slab :
            i # j /\ OwnsBits(i) /\ item[i].cpuid = item[j].cpuid
                => \A x : ~(x \in Extent(item[i]) /\ x \in Extent(item[j]))
LEMMA BitByBit == (BitmapExact <=> BitsExact) /\ (BitmapExact' <=> BitsExact')
<1>1. BitmapExact <=> BitsExact
  <2>1. \A c \in Cpus :
          bitmap[c] = UNION {Extent(item[i]) : i \in {j \in slab : item[j].cpuid = c}}
          <=> \A x : x \in bitmap[c] <=> \E j \in slab : item[j].cpuid = c /\ x \in Extent(item[j])
    BY Zenon
  <2> QED BY <2>1 DEF BitmapExact, BitsExact
<1>2. BitmapExact' <=> BitsExact'
  <2>1. \A c \in Cpus :
          bitmap'[c] = UNION {Extent(item'[i]) : i \in {j \in slab' : item'[j].cpuid = c}}
          <=> \A x : x \in bitmap'[c]
                <=> \E j \in slab' : item'[j].cpuid = c /\ x \in Extent(item'[j])
    BY Zenon
  <2> QED BY <2>1 DEF BitmapExact, BitsExact, OwnsBits
<1> QED BY <1>1, <1>2

\* The extent of an item depends on its chunk and its place.
LEMMA ExtentSame ==
    ASSUME NEW r, NEW s, r.sha1 = s.sha1, r.start = s.start PROVE Extent(r) = Extent(s)
BY DEF Extent

\* An item in the hands of a writer is allocated.
LEMMA WriterHolds ==
    ASSUME StoreInv, NEW c \in Cpus, wpc[c] \in {"copy", "todisk", "free"}
    PROVE  witem[c] \in slab /\ witem[c] \in Items
BY WriterItem DEF WriterLocked

\* A step that allocates no bits.
LEMMA DiskFrame ==
    ASSUME StoreInv, StoreInv', DiskPart, slab' = slab, bitmap' = bitmap,
           phase' = phase \/ phase' # "run",
           \A i \in slab : KeepsPlace(item'[i], item[i]),
           \A d \in Cpus : wpc'[d] \in {"todisk", "free"} =>
                witem'[d] \in slab /\ OwnsBits(witem'[d])
    PROVE  DiskPart' /\ PlacesKept
<1>1. \A i \in slab : i \in Items /\ item[i] \in ItemRec /\ item'[i] \in ItemRec
  BY DEF StoreInv, TypeOK
<1>2. \A i \in slab : /\ item'[i].cpuid >= 0 <=> item'[i].cpuid \in Cpus
                      /\ item'[i].cpuid \in Cpus <=> item[i].cpuid \in Cpus
                      /\ item[i].cpuid >= 0 <=> item[i].cpuid \in Cpus
  BY <1>1, PlaceType DEF KeepsPlace
<1>3. \A i \in slab : item[i].cpuid \in Cpus =>
        /\ item'[i].cpuid = item[i].cpuid /\ item'[i].start = item[i].start
        /\ item[i].flag_cache \in {1, 2, 4} /\ item'[i].flag_cache \in {1, 2, 4}
  <2> SUFFICES ASSUME NEW i \in slab, item[i].cpuid \in Cpus
               PROVE  /\ item'[i].cpuid = item[i].cpuid /\ item'[i].start = item[i].start
                      /\ item[i].flag_cache \in {1, 2, 4} /\ item'[i].flag_cache \in {1, 2, 4}
    OBVIOUS
  <2>1. item[i].flag_cache \in {1, 2, 4} BY <1>2 DEF DiskPart, DiskInv, OwnsBits
  <2>2. item[i].cpuid \notin {-2, -1} BY <1>1, PlaceType
  <2> QED BY <2>1, <2>2 DEF KeepsPlace
<1>4. DiskInv'
  <2>1. \A i \in slab' : OwnsBits(i)' => item'[i].flag_cache \in {1, 2, 4}
    BY <1>2, <1>3 DEF OwnsBits
  <2>2. \A d \in Cpus : wpc'[d] \in {"todisk", "free"} => OwnsBits(witem[d])'
    BY <1>2, <1>3 DEF OwnsBits
  <2> QED BY <2>1, <2>2 DEF DiskInv
<1>5. BitsExact'
  <2> SUFFICES ASSUME phase' = "run" PROVE BitsExact' BY DEF BitsExact
  <2>1. BitsExact /\ phase = "run" BY BitByBit DEF DiskPart
  <2>2. \A i \in slab : item[i].cpuid \in Cpus => Extent(item'[i]) = Extent(item[i])
    BY <1>3, ExtentSame DEF KeepsPlace
  <2>3. ASSUME NEW c \in Cpus, NEW x
        PROVE  x \in bitmap'[c] <=> \E j \in slab' : item'[j].cpuid = c /\ x \in Extent(item'[j])
    <3>1. \A j \in slab : item'[j].cpuid = c <=> item[j].cpuid = c BY <1>2, <1>3
    <3> QED BY <2>1, <2>2, <3>1 DEF BitsExact
  <2>4. ASSUME NEW i \in slab', NEW j \in slab', i # j, OwnsBits(i)', item'[i].cpuid = item'[j].cpuid
        PROVE  \A x : ~(x \in Extent(item'[i]) /\ x \in Extent(item'[j]))
    <3>1. item[i].cpuid \in Cpus /\ item[j].cpuid \in Cpus /\ item[i].cpuid = item[j].cpuid
      BY <1>2, <1>3, <2>4 DEF OwnsBits
    <3> QED BY <1>2, <2>1, <2>2, <2>4, <3>1 DEF BitsExact, OwnsBits
  <2> QED BY <2>3, <2>4 DEF BitsExact
<1>6. PlacesKept BY <1>2, <1>3 DEF PlacesKept, OwnsBits
<1> QED BY <1>4, <1>5, <1>6, BitByBit DEF DiskPart

\* Updating one item, or none, without giving it a place.
LEMMA OneKeepsPlace ==
    ASSUME StoreInv, NEW i \in Items, NEW r, KeepsPlace(r, item[i]),
           item' = [item EXCEPT ![i] = r] \/ item' = item
    PROVE  \A j \in Items : KeepsPlace(item'[j], item[j])
BY TableTypes, KeepsSelf

\* The writers' items other than writer c's.
LEMMA OtherWriterItems ==
    ASSUME StoreInv, DiskPart, NEW c \in Cpus,
           \A d \in Cpus \ {c} : wpc'[d] = wpc[d] /\ witem'[d] = witem[d],
           wpc'[c] \in {"todisk", "free"} => witem'[c] \in slab /\ OwnsBits(witem'[c])
    PROVE  \A d \in Cpus : wpc'[d] \in {"todisk", "free"} =>
                witem'[d] \in slab /\ OwnsBits(witem'[d])
BY WriterHolds DEF DiskPart, DiskInv

\* What the writers' steps other than WrCopy do to the items and to the writer's own item.
LEMMA WriterPlaces ==
    ASSUME StoreInv, DiskPart, NEW c \in Cpus, Writer(c), ~WrCopy(c)
    PROVE  /\ \A j \in Items : KeepsPlace(item'[j], item[j])
           /\ \A d \in Cpus \ {c} : wpc'[d] = wpc[d] /\ witem'[d] = witem[d]
           /\ wpc'[c] \in {"todisk", "free"} => witem'[c] \in slab /\ OwnsBits(witem'[c])
           /\ UNCHANGED <<tableVars, handlerVars, exitVars, bitmap>>
<1> USE WriterControl, TableTypes
<1>1. CASE WrStart(c) \/ WrSumEnd(c) \/ WrCopyEnd(c) \/ WrWrite(c) \/ WrError(c)
          \/ WrRelock(c) \/ WrEnd(c)
  BY <1>1, KeepsSelf
     DEF WrStart, WrSumEnd, WrCopyEnd, WrWrite, WrError, WrRelock, WrEnd, writerVars, diskVars
<1>2. CASE WrSum(c)
  <2>1. PICK i \in wtodo[c] :
          \/ ToWrite(item[i]) /\ item' = [item EXCEPT ![i] = [item[i] EXCEPT !.cpuid = -2]]
          \/ item' = item
    BY <1>2 DEF WrSum
  <2>2. i \in Items /\ item[i] \in ItemRec OBVIOUS
  <2>3. ToWrite(item[i]) => KeepsPlace([item[i] EXCEPT !.cpuid = -2], item[i])
    BY <2>2, FieldPlace DEF ToWrite
  <2>4. \A j \in Items : KeepsPlace(item'[j], item[j])
    BY <2>1, <2>2, <2>3, OneKeepsPlace, KeepsSelf
  <2> QED BY <1>2, <2>4 DEF WrSum, diskVars
<1>3. CASE WrRecheck(c)
  <2>1. PICK i \in wtodo[c] :
          \/ Referenced(item[i]) /\ item' = [item EXCEPT ![i] = [item[i] EXCEPT !.cpuid = -1]]
          \/ item' = item
    BY <1>3 DEF WrRecheck
  <2>2. i \in Items /\ item[i] \in ItemRec OBVIOUS
  <2>3. Referenced(item[i]) => KeepsPlace([item[i] EXCEPT !.cpuid = -1], item[i])
    BY <2>2, FieldPlace DEF Referenced
  <2>4. \A j \in Items : KeepsPlace(item'[j], item[j])
    BY <2>1, <2>2, <2>3, OneKeepsPlace, KeepsSelf
  <2> QED BY <1>3, <2>4 DEF WrRecheck, diskVars
<1>4. CASE WrScan(c)
  <2>1. wpc[c] = "scan" /\ WriterLocked(c) BY <1>4 DEF WrScan, WriterLocked
  <2>2. wtodo[c] \subseteq slab BY <2>1, WriterItem
  <2> QED BY <1>4, <2>1, <2>2, KeepsSelf DEF WrScan, ToEvict, OwnsBits, diskVars
<1>5. CASE WrToDisk(c)
  <2>1. wpc[c] = "todisk" /\ UNCHANGED <<witem, tableVars, handlerVars, exitVars, bitmap>>
        /\ wpc' = [wpc EXCEPT ![c] = "free"]
    BY <1>5 DEF WrToDisk, diskVars
  <2>2. witem[c] \in slab /\ witem[c] \in Items /\ OwnsBits(witem[c])
    BY <2>1, WriterHolds DEF DiskPart, DiskInv
  <2>3. item' = [item EXCEPT ![witem[c]] = [item[witem[c]] EXCEPT !.flag_cache = 1]]
    BY <1>5 DEF WrToDisk
  <2>4. KeepsPlace([item[witem[c]] EXCEPT !.flag_cache = 1], item[witem[c]])
    BY <2>2 DEF KeepsPlace, ItemRec
  <2>5. \A j \in Items : KeepsPlace(item'[j], item[j]) BY <2>2, <2>3, <2>4, OneKeepsPlace
  <2> QED BY <2>1, <2>2, <2>5
<1>6. CASE WrFree(c)
  <2>1. wpc[c] = "free" /\ UNCHANGED <<tableVars, handlerVars, exitVars, bitmap>>
        /\ wpc' = [wpc EXCEPT ![c] = "scan"] /\ witem' = [witem EXCEPT ![c] = NoItem]
        /\ (item' = [item EXCEPT ![witem[c]] = FreeData(item[witem[c]])] \/ item' = item)
    BY <1>6 DEF WrFree, diskVars
  <2>2. witem[c] \in Items BY <2>1, WriterHolds
  <2>3. KeepsPlace(FreeData(item[witem[c]]), item[witem[c]]) BY <2>2, FieldPlace
  <2>4. \A j \in Items : KeepsPlace(item'[j], item[j]) BY <2>1, <2>2, <2>3, OneKeepsPlace
  <2> QED BY <2>1, <2>4
<1> QED BY <1>1, <1>2, <1>3, <1>4, <1>5, <1>6 DEF Writer

\* Pass 2 gives an item the first free bits of the file: bits that no item has.
LEMMA WrCopyDisk ==
    ASSUME StoreInv, StoreInv', DiskPart, NEW c \in Cpus, WrCopy(c)
    PROVE  /\ DiskPart' /\ PlacesKept
           /\ \A j \in Items : item'[j].sha1 = item[j].sha1
<1> USE TableTypes, WriterControl
<1>1. PICK i : i = witem[c] OBVIOUS
<1>2. PICK n : n = Num(item[i].sha1) OBVIOUS
<1>3. PICK x : x = FindArea(c, n) OBVIOUS
<1>4. i \in slab /\ i \in Items /\ item[i] \in ItemRec
  BY <1>1, WriterHolds DEF WrCopy
<1>5. item[i].sha1 \in Chunks /\ n \in Nat \ {0}
  BY <1>2, <1>4, NumPositive DEF StoreInv, TableInv
<1>6. /\ wpc' = [wpc EXCEPT ![c] = "recheck"] /\ witem' = [witem EXCEPT ![c] = NoItem]
      /\ UNCHANGED <<tableVars, handlerVars, exitVars>>
  BY DEF WrCopy
<1>7. \A d \in Cpus : wpc'[d] \in {"todisk", "free"} =>
        witem'[d] \in slab /\ OwnsBits(witem'[d])
  BY <1>6, OtherWriterItems
<1>8. CASE UNCHANGED <<item, bitmap>>
  BY <1>6, <1>7, <1>8, DiskFrame, KeepsSelf DEF exitVars, tableVars
<1>9. CASE /\ ToCopy(item[i]) /\ ZeroAreas(c, n) # {}
           /\ item' = [item EXCEPT ![i].start = x, ![i].cpuid = c]
           /\ bitmap' = [bitmap EXCEPT ![c] = @ \cup (x .. x + n - 1)]
  <2>1. /\ item[i].cpuid = -2 /\ item[i].flag_cache = 2 /\ item[i].cpuid \notin Cpus
    BY <1>4, <1>9, PlaceType DEF ToCopy
  <2>2. x = bitmap_index[c] /\ x \in Nat
    <3>1. FindArea(c, n) = bitmap_index[c] BY <1>5, <1>9, FindAreaIsIndex
    <3>2. bitmap_index[c] \in Nat BY DEF StoreInv, TypeOK
    <3> QED BY <1>3, <3>1, <3>2
  <2>3. \A y \in bitmap[c] : y \notin x .. x + n - 1
    BY <1>5, <2>2 DEF StoreInv, BitsInv, TypeOK
  <2>4. /\ item'[i].cpuid = c /\ item'[i].start = x /\ item'[i].sha1 = item[i].sha1
        /\ item'[i].flag_cache = 2 /\ \A j \in Items \ {i} : item'[j] = item[j]
    BY <1>4, <1>9, <2>1 DEF ItemRec
  <2>5. Extent(item'[i]) = x .. x + n - 1 BY <1>2, <2>4 DEF Extent
  <2>6. slab' = slab /\ phase' = phase BY <1>6 DEF tableVars, exitVars
  <2>7. bitmap'[c] = bitmap[c] \cup (x .. x + n - 1) /\ \A d \in Cpus \ {c} : bitmap'[d] = bitmap[d]
    BY <1>9 DEF StoreInv, TypeOK
  <2>8. DiskInv'
    <3>1. \A j \in slab' : OwnsBits(j)' => item'[j].flag_cache \in {1, 2, 4}
      BY <2>4, <2>6 DEF DiskPart, DiskInv, OwnsBits
    <3>2. \A d \in Cpus : wpc'[d] \in {"todisk", "free"} => OwnsBits(witem[d])'
      <4> SUFFICES ASSUME NEW d \in Cpus, wpc'[d] \in {"todisk", "free"} PROVE OwnsBits(witem[d])'
        OBVIOUS
      <4>1. witem'[d] \in slab /\ OwnsBits(witem'[d]) BY <1>7
      <4>2. witem'[d] # i BY <1>4, <2>1, <4>1, PlaceType DEF OwnsBits
      <4> QED BY <2>4, <4>1, <4>2 DEF OwnsBits
    <3> QED BY <3>1, <3>2 DEF DiskInv
  <2>9. BitsExact'
    <3> SUFFICES ASSUME phase' = "run" PROVE BitsExact' BY DEF BitsExact
    <3>1. BitsExact /\ phase = "run" BY <2>6, BitByBit DEF DiskPart
    <3>2. ASSUME NEW d \in Cpus, NEW y
          PROVE  y \in bitmap'[d] <=> \E j \in slab' : item'[j].cpuid = d /\ y \in Extent(item'[j])
      <4>1. y \in bitmap[d] <=> \E j \in slab : item[j].cpuid = d /\ y \in Extent(item[j])
        BY <3>1 DEF BitsExact
      <4>2. (\E j \in slab : item[j].cpuid = d /\ y \in Extent(item[j]))
              <=> \E j \in slab \ {i} : item[j].cpuid = d /\ y \in Extent(item[j])
        BY <2>1
      <4>3. (\E j \in slab \ {i} : item[j].cpuid = d /\ y \in Extent(item[j]))
              <=> \E j \in slab \ {i} : item'[j].cpuid = d /\ y \in Extent(item'[j])
        BY <2>4
      <4>4. CASE d = c
        BY <1>4, <2>4, <2>5, <2>6, <2>7, <4>1, <4>2, <4>3, <4>4
      <4>5. CASE d # c
        BY <1>4, <2>4, <2>6, <2>7, <4>1, <4>2, <4>3, <4>5
      <4> QED BY <4>4, <4>5
    <3>3. \A j \in slab \ {i} : item[j].cpuid = c =>
            \A y : ~(y \in Extent(item[j]) /\ y \in x .. x + n - 1)
      BY <2>3, <3>1 DEF BitsExact
    <3>4. ASSUME NEW k \in slab, NEW j \in slab, k # j, OwnsBits(k)', item'[k].cpuid = item'[j].cpuid
          PROVE  \A y : ~(y \in Extent(item'[k]) /\ y \in Extent(item'[j]))
      <4>1. CASE k = i BY <2>4, <2>5, <3>3, <3>4, <4>1
      <4>2. CASE j = i BY <2>4, <2>5, <3>3, <3>4, <4>2
      <4>3. CASE k # i /\ j # i
        BY <2>4, <3>1, <3>4, <4>3 DEF BitsExact, OwnsBits
      <4> QED BY <4>1, <4>2, <4>3
    <3> QED BY <2>6, <3>2, <3>4 DEF BitsExact
  <2>10. PlacesKept
    BY <1>4, <2>1, <2>4, PlaceType DEF PlacesKept, OwnsBits, DiskPart, DiskInv
  <2> QED BY <2>4, <2>8, <2>9, <2>10, BitByBit DEF DiskPart
<1> QED BY <1>1, <1>2, <1>3, <1>8, <1>9 DEF WrCopy

\* A handler's steps other than AddAlloc touch no place and no bitmap.
LEMMA HandlerPlaces ==
    ASSUME StoreInv, NEW c \in Cpus, Handler(c), ~AddAlloc(c)
    PROVE  /\ \A j \in Items : KeepsPlace(item'[j], item[j])
           /\ UNCHANGED <<slab, hash_count, writerVars, diskVars, pending, exitVars>>
<1> USE HandlerControl
<1>1. CASE \E ch \in Chunks : GetHashItem(c, ch)
  <2>1. PICK ch \in Chunks : GetHashItem(c, ch) BY <1>1
  <2>2. CASE \E i \in hash_tab[BucketOf[ch]] :
               item' = [item EXCEPT ![i].refcnt = @ + ITEM_CITE_FIND]
    <3>1. PICK i \in hash_tab[BucketOf[ch]] :
            item' = [item EXCEPT ![i] = [item[i] EXCEPT !.refcnt = item[i].refcnt + ITEM_CITE_FIND]]
      BY <2>2
    <3>2. BucketOf[ch] \in Buckets BY ChunkAssumption
    <3>3. i \in Items /\ item[i] \in ItemRec BY <3>2
    <3>4. KeepsPlace([item[i] EXCEPT !.refcnt = item[i].refcnt + ITEM_CITE_FIND], item[i])
      BY <3>3, FieldPlace
    <3>5. \A j \in Items : KeepsPlace(item'[j], item[j]) BY <3>1, <3>3, <3>4, OneKeepsPlace
    <3> QED BY <2>1, <3>5 DEF GetHashItem, tableVars
  <2>3. CASE item' = item BY <2>1, <2>3, KeepsSelf DEF GetHashItem, tableVars
  <2> QED BY <2>1, <2>2, <2>3 DEF GetHashItem
<1>2. CASE PinItem(c) \/ MarkRead(c)
  <2>1. PICK i : i = hitem[c] OBVIOUS
  <2>2. i \in slab /\ i \in Items /\ item[i] \in ItemRec
    BY <1>2, <2>1, HeldInSlab, ChunkAssumption
       DEF PinItem, MarkRead, StoreInv, HandlerInv, HandlerOK, TableInv
  <2>3. \/ item' = [item EXCEPT ![i] = [item[i] EXCEPT !.share_ref = item[i].share_ref + 1]]
        \/ item' = [item EXCEPT ![i] =
                      [item[i] EXCEPT !.flag_cache = HitFlag(item[i].flag_cache)]]
    BY <1>2, <2>1 DEF PinItem, MarkRead
  <2>4. KeepsPlace([item[i] EXCEPT !.share_ref = item[i].share_ref + 1], item[i])
        /\ KeepsPlace([item[i] EXCEPT !.flag_cache = HitFlag(item[i].flag_cache)], item[i])
    BY <2>2, FieldPlace
  <2>5. \A j \in Items : KeepsPlace(item'[j], item[j])
    BY <2>2, <2>3, <2>4, OneKeepsPlace
  <2> QED BY <1>2, <2>5 DEF PinItem, MarkRead, tableVars
<1>3. CASE HandHash(c)
  <2>1. PICK i : i = hitem[c] OBVIOUS
  <2>2. i \in slab /\ i \in Items /\ item[i] \in ItemRec
    BY <1>3, <2>1 DEF HandHash, StoreInv, HandlerInv, HandlerOK
  <2>3. \/ item' = [item EXCEPT ![i] = [item[i] EXCEPT !.share_ref = item[i].share_ref - 1]]
        \/ item' = item
    BY <1>3, <2>1 DEF HandHash, PutRef
  <2>4. KeepsPlace([item[i] EXCEPT !.share_ref = item[i].share_ref - 1], item[i])
    BY <2>2, FieldPlace
  <2>5. \A j \in Items : KeepsPlace(item'[j], item[j])
    BY <2>2, <2>3, <2>4, OneKeepsPlace
  <2> QED BY <1>3, <2>5 DEF HandHash, tableVars
<1>4. CASE AddCheck(c) \/ AddLink(c)
  BY <1>4, KeepsSelf DEF AddCheck, AddLink, tableVars
<1>5. CASE ReadNext(c)
  <2>1. PICK k \in Slots :
          /\ rskb[c][k] # NoItem
          /\ item' = [item EXCEPT ![rskb[c][k]] = AllocData(item[rskb[c][k]])] \/ item' = item
    BY <1>5 DEF ReadNext
  <2>2. PICK i : i = rskb[c][k] OBVIOUS
  <2>3. i \in Items /\ item[i] \in ItemRec BY <2>1, <2>2, HeldInSlab
  <2>4. KeepsPlace(AllocData(item[i]), item[i]) BY <2>3, FieldPlace, KeepsSelf, ZenonT(60) DEF AllocData
  <2>5. \A j \in Items : KeepsPlace(item'[j], item[j])
    BY <2>1, <2>2, <2>3, <2>4, OneKeepsPlace
  <2> QED BY <1>5, <2>5 DEF ReadNext, tableVars
<1>6. CASE CopyIn(c)
  <2>1. PICK i : i = rskb[c][hslot[c]] OBVIOUS
  <2>2. i \in slab /\ i \in Items /\ item[i] \in ItemRec
    BY <1>6, <2>1, HeldInSlab DEF CopyIn, StoreInv, HandlerInv, HandlerOK
  <2>3. PICK v : item' = [item EXCEPT ![i] = [item[i] EXCEPT !.data = v, !.flag_mem = 1]]
    BY <1>6, <2>1 DEF CopyIn
  <2>4. KeepsPlace([item[i] EXCEPT !.data = v, !.flag_mem = 1], item[i])
    BY <2>2, FieldPlace
  <2>5. \A j \in Items : KeepsPlace(item'[j], item[j])
    BY <2>2, <2>3, <2>4, OneKeepsPlace
  <2> QED BY <1>6, <2>5 DEF CopyIn, tableVars
<1>7. CASE Unpin(c)
  <2>1. PICK i : i = rskb[c][hslot[c]] OBVIOUS
  <2>2. i \in slab /\ i \in Items /\ item[i] \in ItemRec
    BY <1>7, <2>1, HeldInSlab DEF Unpin, StoreInv, HandlerInv, HandlerOK
  <2>3. item' = [item EXCEPT ![i] = [item[i] EXCEPT !.share_ref = item[i].share_ref - 1]]
    BY <1>7, <2>1 DEF Unpin, PutRef
  <2>4. KeepsPlace([item[i] EXCEPT !.share_ref = item[i].share_ref - 1], item[i])
    BY <2>2, FieldPlace
  <2>5. \A j \in Items : KeepsPlace(item'[j], item[j])
    BY <2>2, <2>3, <2>4, OneKeepsPlace
  <2> QED BY <1>7, <2>5 DEF Unpin, tableVars
<1> QED BY <1>1, <1>2, <1>3, <1>4, <1>5, <1>6, <1>7 DEF Handler

LEMMA HandlerDisk ==
    ASSUME StoreInv, StoreInv', DiskPart, NEW c \in Cpus, Handler(c), ~AddAlloc(c)
    PROVE  DiskPart' /\ PlacesKept
<1>1. /\ \A j \in slab : KeepsPlace(item'[j], item[j])
      /\ slab' = slab /\ bitmap' = bitmap /\ phase' = phase /\ wpc' = wpc /\ witem' = witem
  BY HandlerPlaces, TableTypes DEF writerVars, diskVars, exitVars
<1>2. \A d \in Cpus : wpc'[d] \in {"todisk", "free"} =>
        witem'[d] \in slab /\ OwnsBits(witem'[d])
  BY <1>1, WriterHolds DEF DiskPart, DiskInv
<1> QED BY <1>1, <1>2, DiskFrame

\* A new item has no place.
LEMMA AddAllocDisk ==
    ASSUME StoreInv, StoreInv', DiskPart, NEW c \in Cpus, AddAlloc(c)
    PROVE  DiskPart' /\ PlacesKept
<1> USE TableTypes
<1>1. wpc' = wpc /\ witem' = witem /\ bitmap' = bitmap /\ phase' = phase
  BY DEF AddAlloc, writerVars, diskVars, exitVars
<1>2. \A d \in Cpus : wpc[d] \in {"todisk", "free"} => witem[d] \in slab /\ OwnsBits(witem[d])
  BY WriterHolds DEF DiskPart, DiskInv
<1>3. CASE slab' = slab /\ item' = item
  BY <1>1, <1>2, <1>3, DiskFrame, KeepsSelf
<1>4. CASE \E i \in Items \ slab :
            item' = [item EXCEPT ![i] = NewItem(hchunk[c])] /\ slab' = slab \cup {i}
  <2>1. PICK i \in Items \ slab :
            item' = [item EXCEPT ![i] = NewItem(hchunk[c])] /\ slab' = slab \cup {i}
    BY <1>4
  <2>2. item'[i].cpuid = -1 /\ \A j \in slab : item'[j] = item[j] /\ j # i
    BY <2>1 DEF NewItem
  <2>3. ~OwnsBits(i)' /\ item'[i].cpuid \notin Cpus BY <2>2, Indices DEF OwnsBits
  <2>4. DiskInv' BY <1>1, <1>2, <2>1, <2>2, <2>3 DEF DiskInv, DiskPart, OwnsBits
  <2>5. BitsExact'
    <3> SUFFICES ASSUME phase' = "run" PROVE BitsExact' BY DEF BitsExact
    <3>1. BitsExact /\ phase = "run" BY <1>1, BitByBit DEF DiskPart
    <3>2. ASSUME NEW d \in Cpus, NEW y
          PROVE  y \in bitmap'[d] <=> \E j \in slab' : item'[j].cpuid = d /\ y \in Extent(item'[j])
      BY <1>1, <2>1, <2>2, <2>3, <3>1 DEF BitsExact
    <3>3. ASSUME NEW k \in slab', NEW j \in slab', k # j, OwnsBits(k)', item'[k].cpuid = item'[j].cpuid
          PROVE  \A y : ~(y \in Extent(item'[k]) /\ y \in Extent(item'[j]))
      <4>1. k # i BY <2>3, <3>3
      <4>2. j # i BY <2>3, <3>3 DEF OwnsBits
      <4> QED BY <2>1, <2>2, <3>1, <3>3, <4>1, <4>2 DEF BitsExact, OwnsBits
    <3> QED BY <3>2, <3>3 DEF BitsExact
  <2>6. PlacesKept BY <2>1, <2>2 DEF PlacesKept, OwnsBits, DiskPart, DiskInv
  <2> QED BY <2>4, <2>5, <2>6, BitByBit DEF DiskPart
<1> QED BY <1>3, <1>4 DEF AddAlloc

\* Aging keeps an item's place, and does not promote an item that has one.
LEMMA AgedPlace == ASSUME NEW r \in ItemRec PROVE KeepsPlace(Aged(r), r)
<1>1. /\ Aged(r).sha1 = r.sha1 /\ Aged(r).cpuid = r.cpuid /\ Aged(r).start = r.start
      /\ Aged(r).flag_cache = NextFlag(r, r.refcnt - 1)
  BY DEF Aged, ItemRec
<1>2. ASSUME r.cpuid \in Cpus, r.flag_cache \in {1, 2, 4}
      PROVE  NextFlag(r, r.refcnt - 1) \in {1, 2, 4}
  <2>1. ~(r.cpuid < 0) BY <1>2, SizeAssumption DEF Cpus
  <2> QED BY <1>2, <2>1 DEF NextFlag
<1> QED BY <1>1, <1>2 DEF KeepsPlace

\* Deleting items: their bits go with them, and the other items keep theirs.
LEMMA DeleteDisk ==
    ASSUME StoreInv, StoreInv', DiskPart, NEW dead \in SUBSET slab, slab' = slab \ dead,
           \A j \in slab \ dead : KeepsPlace(item'[j], item[j]),
           phase' = phase \/ phase' # "run", UNCHANGED writerVars,
           phase' = "run" => \A c \in Cpus : bitmap'[c] = bitmap[c] \ ClearedBits(dead, c)
    PROVE  DiskPart' /\ PlacesKept
<1> USE TableTypes
<1>1. \A i \in slab \ dead : i \in Items /\ item[i] \in ItemRec /\ item'[i] \in ItemRec
  BY DEF StoreInv, TypeOK
<1>2. \A i \in slab \ dead : /\ item'[i].cpuid >= 0 <=> item'[i].cpuid \in Cpus
                             /\ item'[i].cpuid \in Cpus <=> item[i].cpuid \in Cpus
                             /\ item[i].cpuid >= 0 <=> item[i].cpuid \in Cpus
  BY <1>1, PlaceType DEF KeepsPlace
<1>3. \A i \in slab : item[i].cpuid \in Cpus => item[i].flag_cache \in {1, 2, 4} /\ OwnsBits(i)
  BY PlaceType DEF DiskPart, DiskInv, OwnsBits
<1>4. \A i \in slab \ dead : item[i].cpuid \in Cpus =>
        /\ item'[i].cpuid = item[i].cpuid /\ item'[i].start = item[i].start
        /\ item'[i].flag_cache \in {1, 2, 4}
  <2> SUFFICES ASSUME NEW i \in slab \ dead, item[i].cpuid \in Cpus
               PROVE  /\ item'[i].cpuid = item[i].cpuid /\ item'[i].start = item[i].start
                      /\ item'[i].flag_cache \in {1, 2, 4}
    OBVIOUS
  <2>1. item[i].cpuid \notin {-2, -1} BY <1>1, PlaceType
  <2> QED BY <1>3, <2>1 DEF KeepsPlace
<1>5. DiskInv'
  <2>1. \A i \in slab' : OwnsBits(i)' => item'[i].flag_cache \in {1, 2, 4}
    BY <1>2, <1>4 DEF OwnsBits
  <2>2. ASSUME NEW d \in Cpus, wpc'[d] \in {"todisk", "free"} PROVE OwnsBits(witem[d])'
    <3>1. witem'[d] \in slab'
      <4>1. WriterLocked(d)' BY <2>2 DEF WriterLocked
      <4>2. witem'[d] \in wtodo'[d] /\ wtodo'[d] \subseteq hash_tab'[wbkt'[d]] /\ wbkt'[d] \in Buckets
        BY <2>2, <4>1 DEF StoreInv, TypeOK, WriterInv, WriterOK
      <4> QED BY <4>2 DEF StoreInv, TableInv
    <3>2. witem'[d] = witem[d] /\ OwnsBits(witem[d])
      BY <2>2 DEF writerVars, DiskPart, DiskInv
    <3> QED BY <1>2, <1>4, <3>1, <3>2 DEF OwnsBits
  <2> QED BY <2>1, <2>2 DEF DiskInv
<1>6. BitsExact'
  <2> SUFFICES ASSUME phase' = "run" PROVE BitsExact' BY DEF BitsExact
  <2>1. BitsExact /\ phase = "run" BY BitByBit DEF DiskPart
  <2>2. \A i \in slab \ dead : item[i].cpuid \in Cpus => Extent(item'[i]) = Extent(item[i])
    BY <1>4, ExtentSame DEF KeepsPlace
  <2>3. \A i \in dead : item[i].cpuid \in Cpus => FreesBits(item[i])
    BY <1>3 DEF FreesBits, OwnsBits
  <2>4. ASSUME NEW c \in Cpus, NEW x
        PROVE  x \in ClearedBits(dead, c) <=> \E j \in dead : item[j].cpuid = c /\ x \in Extent(item[j])
    <3>1. x \in ClearedBits(dead, c) <=>
            \E j \in dead : (FreesBits(item[j]) /\ item[j].cpuid = c) /\ x \in Extent(item[j])
      BY ZenonT(60) DEF ClearedBits
    <3> QED BY <2>3, <3>1, Zenon
  <2>5. ASSUME NEW c \in Cpus, NEW x
        PROVE  x \in bitmap'[c] <=> \E j \in slab' : item'[j].cpuid = c /\ x \in Extent(item'[j])
    <3>1. x \in bitmap'[c] <=> x \in bitmap[c] /\ ~(x \in ClearedBits(dead, c)) OBVIOUS
    <3>2. x \in bitmap[c] <=> \E j \in slab : item[j].cpuid = c /\ x \in Extent(item[j])
      BY <2>1 DEF BitsExact
    <3>3. (\E j \in slab' : item'[j].cpuid = c /\ x \in Extent(item'[j]))
            <=> \E j \in slab \ dead : item[j].cpuid = c /\ x \in Extent(item[j])
      BY <1>2, <1>4, <2>2
    <3>4. ASSUME NEW j \in slab \ dead, item[j].cpuid = c, x \in Extent(item[j])
          PROVE  ~(x \in ClearedBits(dead, c))
      BY <1>3, <2>1, <2>4, <3>4, SMTT(40) DEF BitsExact
    <3> QED BY <2>4, <3>1, <3>2, <3>3, <3>4
  <2>6. ASSUME NEW i \in slab', NEW j \in slab', i # j, OwnsBits(i)', item'[i].cpuid = item'[j].cpuid
        PROVE  \A x : ~(x \in Extent(item'[i]) /\ x \in Extent(item'[j]))
    <3>1. item[i].cpuid \in Cpus /\ item[j].cpuid \in Cpus /\ item[i].cpuid = item[j].cpuid
      BY <1>2, <1>4, <2>6 DEF OwnsBits
    <3> QED BY <1>3, <2>1, <2>2, <2>6, <3>1 DEF BitsExact
  <2> QED BY <2>5, <2>6 DEF BitsExact
<1>7. PlacesKept BY <1>2, <1>4 DEF PlacesKept, OwnsBits
<1> QED BY <1>5, <1>6, <1>7, BitByBit DEF DiskPart

-----------------------------------------------------------------------------
(* The teardown: ExitOrder *)

\* A step other than mexit's own that links no item while mexit runs, and starts no
\* writer once it is over.
LEMMA ExitFrame ==
    ASSUME ExitOrder, UNCHANGED <<timers, phase, idx>>,
           phase # "run" => \A b \in Buckets : hash_tab'[b] \subseteq hash_tab[b],
           phase = "done" => pending' = pending /\ wpc' = wpc
    PROVE  ExitOrder'
BY DEF ExitOrder, WritersDone

\* No writer runs when the workqueue is destroyed.
LEMMA WriterNotDone ==
    ASSUME StoreInv, ExitOrder, NEW c \in Cpus, Writer(c) PROVE phase # "done"
<1> SUFFICES ASSUME phase = "done" PROVE FALSE OBVIOUS
<1>1. pending = {} /\ wpc[c] = "idle" BY DEF ExitOrder, WritersDone
<1> QED
  BY <1>1 DEF Writer, WrStart, WrSum, WrSumEnd, WrRecheck, WrCopy, WrCopyEnd, WrWrite, WrError, WrRelock,
     WrScan, WrToDisk, WrFree, WrEnd

\* mexit's own steps.
LEMMA BeginExitOrder ==
    ASSUME StoreInv, ExitOrder, BeginExit PROVE ExitOrder'
BY DEF BeginExit, ExitOrder, tableVars, StoreInv, TypeOK, Buckets

LEMMA FlushOrder ==
    ASSUME StoreInv, ExitOrder, FlushBucket PROVE ExitOrder'
<1>1. /\ phase = "flush" /\ idx \in Buckets /\ timers' = timers /\ timers \subseteq Buckets
      /\ hash_tab \in [Buckets -> SUBSET Items] /\ pending' = pending /\ wpc' = wpc
  BY DEF FlushBucket, StoreInv, TypeOK, writerVars
<1>2. CASE UNCHANGED <<tableVars, phase, idx>>
  BY <1>1, <1>2, ExitFrame DEF tableVars
<1>3. CASE /\ hash_tab' = [hash_tab EXCEPT ![idx] = {}]
           /\ IF idx + 1 < NumBuckets THEN idx' = idx + 1 /\ phase' = phase
              ELSE idx' = 0 /\ phase' = "timers"
  <2>1. \A b \in Buckets : b < idx => hash_tab[b] = {} BY <1>1 DEF ExitOrder
  <2>2. \A b \in Buckets : b \in Nat /\ (b < idx + 1 => b < idx \/ b = idx)
    BY <1>1, Indices
  <2>3. \A b \in Buckets : b < idx + 1 => hash_tab'[b] = {}
    BY <1>1, <1>3, <2>1, <2>2
  <2>4. CASE idx + 1 < NumBuckets BY <1>1, <1>3, <2>3, <2>4 DEF ExitOrder
  <2>5. CASE ~(idx + 1 < NumBuckets)
    <3>1. \A b \in Buckets : b < idx + 1 BY <1>1, <2>5, SizeAssumption DEF Buckets
    <3>2. \A b \in timers : b >= 0 BY <1>1, <2>2
    <3> QED BY <1>1, <1>3, <2>3, <2>5, <3>1, <3>2 DEF ExitOrder
  <2> QED BY <2>4, <2>5
<1> QED BY <1>2, <1>3 DEF FlushBucket

LEMMA DelTimerOrder ==
    ASSUME StoreInv, ExitOrder, DelTimer PROVE ExitOrder'
<1> USE DEF DelTimer, tableVars
<1>1. phase = "timers" /\ idx \in Buckets /\ timers \subseteq Buckets /\ timers' = timers \ {idx}
  BY DEF StoreInv, TypeOK
<1>2. \A b \in timers' : b \in Nat /\ b >= idx + 1
  BY <1>1, SizeAssumption DEF ExitOrder, Buckets
<1>3. CASE idx + 1 < NumBuckets BY <1>1, <1>2, <1>3 DEF ExitOrder
<1>4. CASE ~(idx + 1 < NumBuckets)
  <2>1. timers' = {} BY <1>1, <1>2, <1>4, SizeAssumption DEF Buckets
  <2> QED BY <1>1, <1>4, <2>1 DEF ExitOrder
<1> QED BY <1>3, <1>4

LEMMA DestroyOrder ==
    ASSUME ExitOrder, Destroy PROVE ExitOrder'
BY DEF Destroy, ExitOrder, WritersDone, tableVars, writerVars

-----------------------------------------------------------------------------
(* Every step preserves RaceInv and keeps the places of the items *)

LEMMA RaceParts == RaceInv <=> TablePart /\ DiskPart /\ ExitOrder
BY DEF RaceInv, TablePart, DiskPart

LEMMA RaceInit == Init => RaceInv
<1> SUFFICES ASSUME Init PROVE RaceInv OBVIOUS
<1> USE DEF Init
<1>1. LinkedOrNew BY DEF LinkedOrNew
<1>2. Cardinality({}) = 0 BY FS_EmptySet
<1>3. Passed = {} BY DEF Passed
<1>4. CountInv BY <1>2, <1>3, SizeAssumption DEF CountInv
<1>5. NumCpus \in Nat BY SizeAssumption
<1>6. DuplicatesBounded
  <2> SUFFICES ASSUME NEW ch \in Chunks
               PROVE  Cardinality(Copies(ch)) + Cardinality(Adders(ch)) <= NumCpus
    BY DEF DuplicatesBounded
  <2>1. Copies(ch) = {} /\ Adders(ch) = {} BY DEF Copies, Adders
  <2>2. Cardinality(Copies(ch)) = 0 /\ Cardinality(Adders(ch)) = 0 BY <1>2, <2>1
  <2> QED BY <1>5, <2>2
<1>7. DiskInv BY DEF DiskInv
<1>8. BitsExact BY DEF BitsExact
<1>9. ExitOrder BY DEF ExitOrder
<1> QED BY <1>1, <1>4, <1>6, <1>7, <1>8, <1>9, BitByBit DEF RaceInv

\* A step is good when it preserves RaceInv and keeps the places of the items.
GoodStep == RaceInv' /\ PlacesKept
LEMMA GoodParts == TablePart' /\ DiskPart' /\ ExitOrder' /\ PlacesKept => GoodStep
BY DEF GoodStep, RaceInv, TablePart, DiskPart

LEMMA WriterGood ==
    ASSUME StoreInv, StoreInv', RaceInv, NEW c \in Cpus, Writer(c) PROVE GoodStep
<1> USE RaceParts
<1>1. UNCHANGED <<tableVars, handlerVars, exitVars>>
  BY WriterPlaces DEF WrCopy
<1>2. DiskPart' /\ PlacesKept /\ \A j \in Items : item'[j].sha1 = item[j].sha1
  <2>1. CASE WrCopy(c) BY <2>1, WrCopyDisk
  <2>2. CASE ~WrCopy(c)
    <3>1. /\ \A j \in Items : KeepsPlace(item'[j], item[j])
          /\ \A d \in Cpus \ {c} : wpc'[d] = wpc[d] /\ witem'[d] = witem[d]
          /\ wpc'[c] \in {"todisk", "free"} => witem'[c] \in slab /\ OwnsBits(witem'[c])
          /\ bitmap' = bitmap
      BY <2>2, WriterPlaces
    <3>2. \A d \in Cpus : wpc'[d] \in {"todisk", "free"} =>
            witem'[d] \in slab /\ OwnsBits(witem'[d])
      BY <3>1, OtherWriterItems
    <3>3. slab' = slab /\ phase' = phase /\ slab \subseteq Items
      BY <1>1, TableTypes DEF tableVars, exitVars
    <3>4. DiskPart' /\ PlacesKept BY <3>1, <3>2, <3>3, DiskFrame
    <3> QED BY <3>1, <3>4 DEF KeepsPlace
  <2> QED BY <2>1, <2>2
<1>3. TablePart' BY <1>1, <1>2, TablePartFrame DEF handlerVars
<1>4. ExitOrder' BY <1>1, WriterNotDone, ExitFrame DEF exitVars, tableVars
<1> QED BY <1>2, <1>3, <1>4, GoodParts

LEMMA HandlerGood ==
    ASSUME StoreInv, StoreInv', RaceInv, NEW c \in Cpus, Handler(c) PROVE GoodStep
<1> USE RaceParts, TableTypes
<1>1. DiskPart' /\ PlacesKept BY HandlerDisk, AddAllocDisk
<1>2. UNCHANGED <<writerVars, pending, exitVars>>
  BY HandlerPlaces DEF AddAlloc
<1>3. TablePart'
  <2>1. CASE \E ch \in Chunks : GetHashItem(c, ch) BY <2>1, GetHashItemTable
  <2>2. CASE AddCheck(c) BY <2>2, AddCheckTable
  <2>3. CASE AddAlloc(c) BY <2>3, AddAllocTable
  <2>4. CASE AddLink(c) BY <2>4, AddLinkTable
  <2>5. CASE PinItem(c) \/ MarkRead(c) \/ HandHash(c) \/ ReadNext(c) \/ CopyIn(c) \/ Unpin(c)
    <3>1. ~AddAlloc(c) BY <2>5 DEF PinItem, MarkRead, HandHash, ReadNext, CopyIn, Unpin, AddAlloc
    <3>2. \A j \in Items : item'[j].sha1 = item[j].sha1
      BY <3>1, HandlerPlaces DEF KeepsPlace
    <3>3. UNCHANGED tableVars
      BY <2>5 DEF PinItem, MarkRead, HandHash, ReadNext, CopyIn, Unpin
    <3>4. \A d \in Cpus : \/ /\ hpc'[d] = hpc[d] /\ hchunk'[d] = hchunk[d]
                             /\ hitem'[d] = hitem[d]
                          \/ hpc[d] \notin Adding /\ hpc'[d] \notin Adding
      BY <2>5 DEF PinItem, MarkRead, HandHash, ReadNext, CopyIn, Unpin, Adding
    <3> QED BY <3>2, <3>3, <3>4, TablePartFrame
  <2> QED BY <2>1, <2>2, <2>3, <2>4, <2>5 DEF Handler
<1>4. ExitOrder'
  <2>1. CASE phase = "run" BY <1>2, <2>1, ExitFrame DEF exitVars
  <2>2. CASE phase # "run"
    <3>1. hpc[c] = "idle" BY <2>2 DEF StoreInv, ExitInv
    <3>2. hash_tab' = hash_tab
      BY <2>2, <3>1 DEF Handler, GetHashItem, PinItem, MarkRead, HandHash, AddCheck, AddAlloc, AddLink,
                  ReadNext, CopyIn, Unpin, tableVars
    <3> QED BY <1>2, <3>2, ExitFrame DEF exitVars, writerVars
  <2> QED BY <2>1, <2>2
<1> QED BY <1>1, <1>3, <1>4, GoodParts

\* A step that leaves the store as it is.
LEMMA IdleGood ==
    ASSUME StoreInv, StoreInv', RaceInv,
           UNCHANGED <<item, tableVars, handlerVars, writerVars, diskVars>>,
           phase' = phase \/ phase' # "run", ExitOrder'
    PROVE  GoodStep
<1> USE RaceParts
<1>1. TablePart' BY TablePartFrame DEF handlerVars
<1>2. \A d \in Cpus : wpc'[d] \in {"todisk", "free"} =>
        witem'[d] \in slab /\ OwnsBits(witem'[d])
  BY WriterHolds DEF DiskPart, DiskInv, writerVars
<1>3. DiskPart' /\ PlacesKept BY <1>2, DiskFrame, KeepsSelf DEF tableVars, diskVars
<1> QED BY <1>1, <1>3, GoodParts

LEMMA BucketClearGood ==
    ASSUME StoreInv, StoreInv', RaceInv, NEW b \in Buckets, BucketClear(b) PROVE GoodStep
<1> USE RaceParts, TableTypes
<1>1. PICK dead : dead = {i \in hash_tab[b] : Expired(item[i])} OBVIOUS
<1>2. PICK kept : kept = hash_tab[b] \ dead OBVIOUS
<1>3. b \in timers /\ UNCHANGED <<handlerVars, writerVars, bitmap_index, file, exitVars>>
  BY DEF BucketClear
<1>4. phase \notin {"drain", "done"} BY <1>3 DEF ExitOrder
<1>5. CASE UNCHANGED <<item, tableVars, bitmap, pending>>
  <2>1. ExitOrder' BY <1>3, <1>4, <1>5, ExitFrame DEF exitVars, tableVars
  <2> QED BY <1>3, <1>5, <2>1, IdleGood DEF diskVars, exitVars
<1>6. CASE /\ item' = [i \in Items |-> IF i \in dead THEN FreeItem
                                       ELSE IF i \in kept THEN Aged(item[i]) ELSE item[i]]
           /\ hash_tab' = [hash_tab EXCEPT ![b] = kept] /\ slab' = slab \ dead
           /\ hash_count' = hash_count - Cardinality(dead)
           /\ bitmap' = [c \in Cpus |-> bitmap[c] \ ClearedBits(dead, c)]
  <2>1. dead \in SUBSET hash_tab[b] /\ dead \in SUBSET slab BY <1>1 DEF StoreInv, TableInv
  <2>2. \A j \in Items \ dead : KeepsPlace(item'[j], item[j])
    BY <1>6, AgedPlace, KeepsSelf
  <2>3. \A j \in slab \ dead : item'[j].sha1 = item[j].sha1 BY <2>2 DEF KeepsPlace
  <2>4. TablePart' BY <1>2, <1>3, <1>6, <2>1, <2>3, DeleteTable
  <2>5. DiskPart' /\ PlacesKept
    BY <1>3, <1>6, <2>1, <2>2, DeleteDisk DEF exitVars
  <2>6. \A a \in Buckets : hash_tab'[a] \subseteq hash_tab[a] BY <1>2, <1>6
  <2>7. ExitOrder' BY <1>3, <1>4, <2>6, ExitFrame DEF exitVars
  <2> QED BY <2>4, <2>5, <2>7, GoodParts
<1> QED BY <1>1, <1>2, <1>5, <1>6 DEF BucketClear

LEMMA FlushBucketGood ==
    ASSUME StoreInv, StoreInv', RaceInv, FlushBucket PROVE GoodStep
<1> USE RaceParts, TableTypes
<1>1. PICK dead : dead = hash_tab[idx] OBVIOUS
<1>2. /\ phase = "flush" /\ phase' # "run" /\ idx \in Buckets
      /\ UNCHANGED <<handlerVars, writerVars, diskVars, pending, timers>>
  BY DEF FlushBucket, StoreInv, TypeOK
<1>3. ExitOrder' BY FlushOrder
<1>4. CASE UNCHANGED <<item, tableVars>>
  BY <1>2, <1>3, <1>4, IdleGood
<1>5. CASE /\ item' = [i \in Items |-> IF i \in dead THEN FreeItem ELSE item[i]]
           /\ hash_tab' = [hash_tab EXCEPT ![idx] = {}] /\ slab' = slab \ dead
           /\ hash_count' = hash_count - Cardinality(dead)
  <2>1. dead \in SUBSET hash_tab[idx] /\ dead \in SUBSET slab
    BY <1>1, <1>2 DEF StoreInv, TableInv
  <2>2. \A j \in Items \ dead : KeepsPlace(item'[j], item[j]) BY <1>5, KeepsSelf
  <2>3. \A j \in slab \ dead : item'[j].sha1 = item[j].sha1 BY <2>2 DEF KeepsPlace
  <2>4. hash_tab' = [hash_tab EXCEPT ![idx] = hash_tab[idx] \ dead] BY <1>1, <1>5
  <2>5. TablePart' BY <1>2, <1>5, <2>1, <2>3, <2>4, DeleteTable
  <2>6. DiskPart' /\ PlacesKept BY <1>2, <1>5, <2>1, <2>2, DeleteDisk
  <2> QED BY <1>3, <2>5, <2>6, GoodParts
<1> QED BY <1>1, <1>4, <1>5 DEF FlushBucket

LEMMA RaceStep == StoreInv /\ RaceInv /\ [Next]_vars => GoodStep
<1> SUFFICES ASSUME StoreInv, RaceInv, [Next]_vars PROVE GoodStep OBVIOUS
<1>1. StoreInv' BY StoreStep
<1>2. CASE UNCHANGED vars
  <2>1. ExitOrder' BY <1>2 DEF RaceInv, ExitOrder, WritersDone, vars, tableVars, writerVars, exitVars
  <2> QED BY <1>1, <1>2, <2>1, IdleGood DEF vars, exitVars
<1>3. ASSUME NEW c \in Cpus, Handler(c) PROVE GoodStep BY <1>1, <1>3, HandlerGood
<1>4. ASSUME NEW c \in Cpus, Writer(c) PROVE GoodStep BY <1>1, <1>4, WriterGood
<1>5. ASSUME NEW b \in Buckets, BucketClear(b) PROVE GoodStep BY <1>1, <1>5, BucketClearGood
<1>6. CASE FlushBucket BY <1>1, <1>6, FlushBucketGood
<1>7. CASE BeginExit \/ DelTimer \/ Destroy
  <2>1. ExitOrder' BY <1>7, BeginExitOrder, DelTimerOrder, DestroyOrder DEF RaceInv
  <2>2. UNCHANGED <<item, tableVars, handlerVars, writerVars, diskVars>> /\ phase' # "run"
    BY <1>7 DEF BeginExit, DelTimer, Destroy
  <2> QED BY <1>1, <2>1, <2>2, IdleGood
<1> QED BY <1>2, <1>3, <1>4, <1>5, <1>6, <1>7 DEF Next, Teardown, Stopped

-----------------------------------------------------------------------------
\* RaceInv is an invariant of the chunk cache, on any number of CPUs.
THEOREM RaceInvariant == Spec => []RaceInv
<1>1. Init => RaceInv BY RaceInit
<1>2. StoreInv /\ RaceInv /\ [Next]_vars => RaceInv' BY RaceStep DEF GoodStep
<1> QED BY <1>1, <1>2, StoreInvariant, PTL DEF Spec

\* hash_count is the number of live items and passes hash_max_count by at most one item per
\* CPU; the copies of a chunk and the handlers about to add one are at most one per CPU.
THEOREM RacesAreBounded == Spec => []RacesBounded
<1>1. StoreInv /\ RaceInv => RacesBounded
  <2> SUFFICES ASSUME StoreInv, RaceInv PROVE RacesBounded OBVIOUS
  <2>1. Cardinality(Passed) \in Nat /\ hash_count \in Int /\ NumCpus \in Nat /\ hash_max_count \in Nat
    BY TableTypes, CpuSets, SizeAssumption
  <2>2. CountBounded BY <2>1 DEF RaceInv, CountInv, CountBounded
  <2> QED BY <2>2 DEF RaceInv, RacesBounded
<1> QED BY <1>1, StoreInvariant, RaceInvariant, PTL

\* While the module runs, the bitmap of a CPU has exactly the bits of the items in its file,
\* and no two items share one: bucket_clear_item clears no bit of another item.
THEOREM BitmapIsExact == Spec => []BitmapExact
<1>1. RaceInv => BitmapExact BY DEF RaceInv
<1> QED BY <1>1, RaceInvariant, PTL

\* An item that was given a place in a file keeps it for life.
THEOREM ExtentsAreStable == Spec => ExtentStable
<1>1. StoreInv /\ RaceInv /\ [Next]_vars =>
        [\A i \in slab : OwnsBits(i) /\ i \in slab' =>
            item'[i].cpuid = item[i].cpuid /\ item'[i].start = item[i].start
            /\ item'[i].flag_cache # 3]_vars
  <2>1. PlacesKept => \A i \in slab : OwnsBits(i) /\ i \in slab' =>
            item'[i].cpuid = item[i].cpuid /\ item'[i].start = item[i].start
            /\ item'[i].flag_cache # 3
    BY DEF PlacesKept
  <2> QED BY <2>1, RaceStep DEF GoodStep
<1> QED BY <1>1, StoreInvariant, RaceInvariant, PTL DEF Spec, ExtentStable

\* When release_hash_table_cache is through, no item is allocated or counted, no timer is
\* armed, no work is queued and nothing runs.
THEOREM NothingLeft == Spec => []CleanDestroy
<1>1. StoreInv /\ RaceInv => CleanDestroy
  <2> SUFFICES ASSUME StoreInv, RaceInv, phase = "done" PROVE CleanDestroy
    BY DEF CleanDestroy
  <2>1. \A b \in Buckets : hash_tab[b] = {} BY DEF RaceInv, ExitOrder
  <2>2. \A c \in Cpus : hpc[c] = "idle" BY DEF StoreInv, ExitInv
  <2>3. slab = {} BY <2>1, <2>2 DEF RaceInv, LinkedOrNew
  <2>4. hash_count = 0 BY <2>3, FS_EmptySet DEF RaceInv, CountInv
  <2>5. timers = {} /\ pending = {} /\ \A c \in Cpus : wpc[c] = "idle"
    BY DEF RaceInv, ExitOrder, WritersDone
  <2> QED BY <2>2, <2>3, <2>4, <2>5 DEF CleanDestroy
<1> QED BY <1>1, StoreInvariant, RaceInvariant, PTL

-----------------------------------------------------------------------------
(***************************************************************************)
(* The chunk cache on one CPU: what wr_file, bucket_clear_item, hand_hash   *)
(* and read_data take for granted about memory and files is true when no    *)
(* second CPU runs inside their read-locked sections.                       *)
(***************************************************************************)

\* The hypotheses of every step.
UpPre == NumCpus = 1 /\ StoreInv /\ DiskInv /\ UpInv

LEMMA OneCpu ==
    ASSUME NumCpus = 1
    PROVE  Cpus = {0} /\ \A b \in Buckets : Home(b) = 0
<1>1. Cpus = {0}
  BY DEF Cpus
<1>2. ASSUME NEW b \in Buckets PROVE b % 1 = 0
  BY Indices
<1>. QED BY <1>1, <1>2 DEF Home

LEMMA UpTypes ==
    ASSUME StoreInv
    PROVE  /\ item \in [Items -> ItemRec] /\ slab \in SUBSET Items
           /\ hash_tab \in [Buckets -> SUBSET Items]
           /\ hpc \in [Cpus -> HandlerPc] /\ hitem \in [Cpus -> Items \cup {NoItem}]
           /\ hslot \in [Cpus -> Slots \cup {0}]
           /\ rskb \in [Cpus -> [Slots -> Items \cup {NoItem}]]
           /\ wpc \in [Cpus -> WriterPc] /\ wbkt \in [Cpus -> Buckets]
           /\ wtodo \in [Cpus -> SUBSET Items] /\ witem \in [Cpus -> Items \cup {NoItem}]
           /\ all_size \in [Cpus -> Nat] /\ copy_mem \in [Cpus -> Seq(Block)]
           /\ bitmap_index \in [Cpus -> Nat] /\ file \in [Cpus -> Seq(Block)]
           /\ \A i \in slab : i \in Items /\ item[i] \in ItemRec /\ item[i].sha1 \in Chunks
BY DEF StoreInv, TypeOK, TableInv

-----------------------------------------------------------------------------
(* Items *)

\* Two states of an item that differ at most in their counts.
Alike(r, s) ==
    /\ r.sha1 = s.sha1 /\ r.start = s.start /\ r.cpuid = s.cpuid
    /\ r.flag_cache = s.flag_cache /\ r.mem_style = s.mem_style /\ r.data = s.data
    /\ r.flag_mem = s.flag_mem

LEMMA CountsAlike ==
    ASSUME NEW r \in ItemRec
    PROVE  /\ Alike(r, r) /\ Alike(PutRef(r), r)
           /\ \A v : Alike([r EXCEPT !.refcnt = v], r)
           /\ \A v : Alike([r EXCEPT !.share_ref = v], r)
BY DEF ItemRec, Alike, PutRef

\* What an item names in a file depends on its chunk and its place.
LEMMA StoredAlike ==
    ASSUME NEW r, NEW s, r.sha1 = s.sha1, r.start = s.start, NEW q, StoredIn(s, q)
    PROVE  StoredIn(r, q)
BY DEF StoredIn

LEMMA PinsHeld ==
    ASSUME NEW i, NEW c \in Cpus, NEW k \in 0 .. MaxRead, Holds(c, k, i)
    PROVE  Pins(i) # {}
BY PinsMember

\* An item that keeps its place in files that are left alone.
LEMMA StoredKept ==
    ASSUME NEW i, item'[i].sha1 = item[i].sha1, item'[i].start = item[i].start,
           item'[i].cpuid = item[i].cpuid, file' = file, copy_mem' = copy_mem
    PROVE  /\ InPlace(item[i]) => InPlace(item[i])'
           /\ StoredIn(item[i], file[item[i].cpuid] \o copy_mem[item[i].cpuid])
                => StoredIn(item[i], file[item[i].cpuid] \o copy_mem[item[i].cpuid])'
<1>1. InPlace(item[i]) => InPlace(item[i])'
  BY StoredAlike DEF InPlace
<1>2. ASSUME StoredIn(item[i], file[item[i].cpuid] \o copy_mem[item[i].cpuid])
      PROVE  StoredIn(item[i], file[item[i].cpuid] \o copy_mem[item[i].cpuid])'
  <2>1. PICK q : q = file[item[i].cpuid] \o copy_mem[item[i].cpuid]
    OBVIOUS
  <2>2. StoredIn(item'[i], q)
    BY <1>2, <2>1, StoredAlike
  <2>. QED BY <2>1, <2>2
<1>. QED BY <1>1, <1>2

LEMMA UpItemFrame ==
    ASSUME NEW i, UpItemOK(i), Alike(item'[i], item[i]), file' = file, copy_mem' = copy_mem,
           CanFree(item[i]) \/ item[i].flag_cache # 4 \/ Pins(i) = {} \/ Pins(i)' # {}
    PROVE  UpItemOK(i)'
BY StoredKept DEF UpItemOK, Alike, OwnsBits, CanFree

-----------------------------------------------------------------------------
(* The packet handler *)

\* While the writer holds no lock it has nothing marked.
LEMMA NothingMarked ==
    ASSUME UpPre, NEW c \in Cpus, panic = "none", ~WriterLocked(c)
    PROVE  Marked = {} /\ MarkedBlocks = {}
<1>1. wpc[c] \notin {"sum", "recheck", "copy"}
  BY DEF WriterLocked
<1>2. Marked = {}
  BY <1>1 DEF UpPre, UpInv, UpWriterOK
<1>. QED BY <1>2 DEF MarkedBlocks

\* A step that runs while the writer holds no lock, and leaves it alone.
LEMMA OutsideWriter ==
    ASSUME UpPre, NEW c \in Cpus, panic = "none", ~WriterLocked(c),
           UNCHANGED <<writerVars, bitmap_index, file>>, panic' = "none",
           \A i \in slab' : UpItemOK(i)',
           \A i \in slab' : item'[i].cpuid # -2,
           UpHandlerOK(c)'
    PROVE  UpInv'
<1>1. Marked = {} /\ MarkedBlocks = {}
  BY NothingMarked
<1>2. Marked' = {}
  BY DEF Marked
<1>3. MarkedBlocks' = {} /\ IsFiniteSet({}) /\ Cardinality({}) = 0
  BY <1>2, FS_EmptySet DEF MarkedBlocks
<1>4. \A d \in Cpus : d = c
  BY OneCpu DEF UpPre
<1>5. wpc[c] \notin {"sum", "recheck", "copy", "todisk", "free"}
  BY DEF WriterLocked
<1>6. UpWriterOK(c)'
  <2>1. UpWriterOK(c)
    BY DEF UpPre, UpInv
  <2>2. Cardinality(MarkedBlocks') = Cardinality(MarkedBlocks)
    BY <1>1, <1>3
  <2>. QED BY <1>2, <1>5, <2>1, <2>2 DEF UpWriterOK, writerVars
<1>. QED BY <1>2, <1>3, <1>4, <1>6 DEF UpInv

\* No item is marked, so a step that marks none leaves none.
LEMMA UnmarkedItems ==
    ASSUME UpPre, NEW c \in Cpus, panic = "none", ~WriterLocked(c), NEW i \in slab
    PROVE  item[i].cpuid # -2
BY NothingMarked DEF Marked

\* A step of the handler that changes only counts of items.
LEMMA HandlerCounts ==
    ASSUME UpPre, NEW c \in Cpus, HandlerRuns(c), UNCHANGED <<writerVars, diskVars, panic, slab>>,
           \A i \in slab : Alike(item'[i], item[i]),
           \A i \in slab : CanFree(item[i]) \/ item[i].flag_cache # 4 \/ Pins(i) = {} \/ Pins(i)' # {},
           UpHandlerOK(c)'
    PROVE  UpInv'
<1>1. panic = "none" /\ ~WriterLocked(c) /\ panic' = "none"
  BY DEF HandlerRuns
<1>2. ASSUME NEW i \in slab' PROVE UpItemOK(i)' /\ item'[i].cpuid # -2
  <2>1. i \in slab /\ UpItemOK(i) /\ Alike(item'[i], item[i])
    BY DEF UpPre, UpInv
  <2>2. item'[i].cpuid # -2
    BY <1>1, <2>1, UnmarkedItems DEF Alike
  <2>3. file' = file /\ copy_mem' = copy_mem
    BY DEF diskVars, writerVars
  <2>4. UpItemOK(i)'
    BY <2>1, <2>3, UpItemFrame
  <2>. QED BY <2>2, <2>4
<1>. QED BY <1>1, <1>2, OutsideWriter DEF diskVars

\* What the handler's invariant says when it runs.
LEMMA HandlerUp ==
    ASSUME UpPre, NEW c \in Cpus, HandlerRuns(c)
    PROVE  /\ HandlerOK(c) /\ UpHandlerOK(c) /\ panic = "none" /\ ~WriterLocked(c)
           /\ \A k \in Slots : rskb[c][k] # NoItem =>
                rskb[c][k] \in slab /\ item[rskb[c][k]].flag_cache = 4
BY DEF UpPre, UpInv, StoreInv, HandlerInv, HandlerRuns, HandlerOK, UpHandlerOK

\* A step to a place where the handler holds no lock and has no item in hand.
LEMMA HandlerRests ==
    ASSUME UpPre, NEW c \in Cpus, HandlerRuns(c), UNCHANGED <<wpc, rskb>>,
           \A k \in Slots : rskb[c][k] # NoItem =>
                item'[rskb[c][k]].flag_cache = item[rskb[c][k]].flag_cache,
           hpc'[c] \notin {"hand", "copyin", "unpin"}
    PROVE  UpHandlerOK(c)'
<1>1. ~WriterLocked(c)'
  BY HandlerUp DEF WriterLocked
<1>. QED BY <1>1, HandlerUp DEF UpHandlerOK

LEMMA GetHashItemUp ==
    ASSUME UpPre, NEW c \in Cpus, NEW ch \in Chunks, GetHashItem(c, ch) PROVE UpInv'
<1>. USE UpTypes DEF UpPre
<1>1. /\ HandlerRuns(c) /\ hpc[c] = "idle" /\ hitem[c] = NoItem /\ BucketOf[ch] \in Buckets
      /\ UNCHANGED <<tableVars, hslot, rskb, writerVars, diskVars, pending, exitVars, panic>>
  BY ChunkAssumption DEF GetHashItem, StoreInv, HandlerInv, HandlerOK
<1>2. hpc' = [hpc EXCEPT ![c] = "pin"] \/ hpc' = [hpc EXCEPT ![c] = "check"]
  BY DEF GetHashItem
<1>3. \A i \in slab : Alike(item'[i], item[i])
  <2>1. CASE UNCHANGED item
    BY <2>1, CountsAlike
  <2>2. ASSUME NEW i \in hash_tab[BucketOf[ch]],
               item' = [item EXCEPT ![i].refcnt = @ + ITEM_CITE_FIND]
        PROVE  \A j \in slab : Alike(item'[j], item[j])
    <3>1. PICK r : r = [item[i] EXCEPT !.refcnt = @ + ITEM_CITE_FIND]
      OBVIOUS
    <3>2. i \in slab
      BY <1>1 DEF StoreInv, TableInv
    <3>3. Alike(r, item[i])
      BY <3>1, <3>2, CountsAlike
    <3>4. item' = [item EXCEPT ![i] = r]
      BY <2>2, <3>1
    <3>. QED BY <3>2, <3>3, <3>4, CountsAlike
  <2>. QED BY <2>1, <2>2 DEF GetHashItem
<1>4. \A i : Pins(i)' = Pins(i)
  <2>. SUFFICES ASSUME NEW j, NEW d \in Cpus, NEW k \in 0 .. MaxRead
                PROVE Holds(d, k, j)' <=> Holds(d, k, j)
    BY PinsSame
  <2>1. CASE k # 0
    BY <1>1, <2>1 DEF Holds
  <2>2. CASE k = 0
    <3>1. d = c
      BY OneCpu
    <3>. QED BY <1>1, <1>2, <2>2, <3>1 DEF Holds
  <2>. QED BY <2>1, <2>2
<1>5. UpHandlerOK(c)'
  BY <1>1, <1>2, <1>3, HandlerUp, HandlerRests DEF Alike, writerVars
<1>. QED BY <1>1, <1>3, <1>4, <1>5, HandlerCounts DEF tableVars

LEMMA PinItemUp == ASSUME UpPre, NEW c \in Cpus, PinItem(c) PROVE UpInv'
<1>. USE UpTypes DEF UpPre
<1>1. /\ HandlerRuns(c) /\ hpc[c] = "pin" /\ hpc' = [hpc EXCEPT ![c] = "flag"]
      /\ UNCHANGED <<tableVars, hitem, rskb, writerVars, diskVars, panic>>
  BY DEF PinItem
<1>2. PICK i \in slab : i = hitem[c]
  BY <1>1, ChunkAssumption DEF StoreInv, HandlerInv, HandlerOK, TableInv
<1>3. \A j \in slab : Alike(item'[j], item[j])
  <2>1. PICK r : r = [item[i] EXCEPT !.share_ref = @ + 1]
    OBVIOUS
  <2>2. Alike(r, item[i])
    BY <2>1, CountsAlike
  <2>3. item' = [item EXCEPT ![i] = r]
    BY <1>2, <2>1 DEF PinItem
  <2>. QED BY <2>2, <2>3, CountsAlike
<1>4. \A j : Pins(j) # {} => Pins(j)' # {}
  <2>. SUFFICES ASSUME NEW j, NEW e \in Pins(j) PROVE e \in Pins(j)'
    OBVIOUS
  <2>1. PICK d \in Cpus, k \in 0 .. MaxRead : e = <<d, k>> /\ Holds(d, k, j)
    BY DEF Pins
  <2>2. Holds(d, k, j)'
    BY <1>1, <2>1 DEF Holds
  <2>. QED BY <2>1, <2>2 DEF Pins
<1>5. UpHandlerOK(c)'
  BY <1>1, <1>3, HandlerUp, HandlerRests DEF Alike, writerVars
<1>. QED BY <1>1, <1>3, <1>4, <1>5, HandlerCounts DEF tableVars

LEMMA MarkReadUp == ASSUME UpPre, NEW c \in Cpus, MarkRead(c) PROVE UpInv'
<1>. USE UpTypes DEF UpPre
<1>1. /\ HandlerRuns(c) /\ hpc[c] = "flag" /\ hpc' = [hpc EXCEPT ![c] = "hand"]
      /\ UNCHANGED <<tableVars, hitem, rskb, writerVars, diskVars, panic>>
  BY DEF MarkRead
<1>2. PICK i \in slab : i = hitem[c]
  BY <1>1 DEF StoreInv, HandlerInv, HandlerOK
<1>3. PICK r : r = [item[i] EXCEPT !.flag_cache = HitFlag(@)]
  OBVIOUS
<1>4. /\ r.sha1 = item[i].sha1 /\ r.start = item[i].start /\ r.cpuid = item[i].cpuid
      /\ r.mem_style = item[i].mem_style /\ r.data = item[i].data /\ r.flag_mem = item[i].flag_mem
      /\ r.flag_cache = IF item[i].flag_cache = 1 THEN 4 ELSE item[i].flag_cache
  BY <1>3 DEF ItemRec, HitFlag
<1>5. item' = [item EXCEPT ![i] = r]
  BY <1>2, <1>3 DEF MarkRead
<1>6. item'[i] = r /\ \A j \in slab : j # i => item'[j] = item[j]
  BY <1>5
<1>7. \A j : Pins(j)' = Pins(j)
  <2>. SUFFICES ASSUME NEW j, NEW d \in Cpus, NEW k \in 0 .. MaxRead
                PROVE Holds(d, k, j)' <=> Holds(d, k, j)
    BY PinsSame
  <2>1. hpc'[d] \in {"flag", "hand"} <=> hpc[d] \in {"flag", "hand"}
    BY <1>1
  <2>. QED BY <1>1, <2>1 DEF Holds
<1>8. file' = file /\ copy_mem' = copy_mem /\ slab' = slab
  BY <1>1 DEF diskVars, writerVars, tableVars
<1>9. UpItemOK(i)'
  <2>1. UpItemOK(i)
    BY DEF UpInv
  <2>2. Pins(i)' # {}
    <3>1. Holds(c, 0, i) /\ 0 \in 0 .. MaxRead
      BY <1>1, <1>2, SizeAssumption DEF Holds
    <3>. QED BY <1>7, <3>1, PinsHeld
  <2>3. /\ InPlace(item[i]) => InPlace(item[i])'
        /\ StoredIn(item[i], file[item[i].cpuid] \o copy_mem[item[i].cpuid])
             => StoredIn(item[i], file[item[i].cpuid] \o copy_mem[item[i].cpuid])'
    BY <1>4, <1>6, <1>8, StoredKept
  <2>4. /\ OwnsBits(i)' <=> OwnsBits(i)
        /\ CanFree(item[i])' <=> CanFree(item[i])
        /\ item'[i].flag_cache = IF item[i].flag_cache = 1 THEN 4 ELSE item[i].flag_cache
        /\ item'[i].data = item[i].data /\ item'[i].flag_mem = item[i].flag_mem
    BY <1>4, <1>6 DEF OwnsBits, CanFree
  <2>. QED BY <2>1, <2>2, <2>3, <2>4 DEF UpItemOK
<1>10. ASSUME NEW j \in slab, j # i PROVE UpItemOK(j)'
  <2>1. UpItemOK(j) /\ Alike(item'[j], item[j])
    BY <1>6, <1>10, CountsAlike DEF UpInv
  <2>. QED BY <1>7, <1>8, <2>1, UpItemFrame
<1>11. ASSUME NEW j \in slab PROVE item'[j].cpuid # -2
  BY <1>4, <1>6, HandlerUp, <1>1, UnmarkedItems
<1>12. UpHandlerOK(c)'
  <2>1. ~WriterLocked(c)'
    BY <1>1, HandlerUp DEF WriterLocked, writerVars
  <2>2. item'[hitem'[c]].flag_cache # 1
    BY <1>1, <1>2, <1>4, <1>6
  <2>3. ASSUME NEW k \in Slots, rskb'[c][k] # NoItem PROVE item'[rskb'[c][k]].flag_cache = 4
    <3>1. rskb[c][k] \in slab /\ item[rskb[c][k]].flag_cache = 4
      BY <1>1, <2>3, HandlerUp
    <3>. QED BY <1>1, <1>4, <1>6, <3>1
  <2>. QED BY <1>1, <2>1, <2>2, <2>3 DEF UpHandlerOK
<1>. QED BY <1>1, <1>8, <1>9, <1>10, <1>11, <1>12, HandlerUp, OutsideWriter DEF diskVars

LEMMA HandHashUp == ASSUME UpPre, NEW c \in Cpus, HandHash(c) PROVE UpInv'
<1>. USE UpTypes DEF UpPre
<1>1. /\ HandlerRuns(c) /\ hpc[c] = "hand" /\ hpc' = [hpc EXCEPT ![c] = "idle"]
      /\ hitem' = [hitem EXCEPT ![c] = NoItem]
      /\ UNCHANGED <<tableVars, writerVars, diskVars, panic>>
  BY DEF HandHash
<1>2. PICK i \in slab : i = hitem[c]
  BY <1>1 DEF StoreInv, HandlerInv, HandlerOK
<1>3. \A d \in Cpus : d = c
  BY OneCpu
<1>4. ~WriterLocked(c)'
  BY <1>1, HandlerUp DEF WriterLocked, writerVars
<1>5. ASSUME item[i].flag_cache # 4, item' = [item EXCEPT ![i] = PutRef(@)], UNCHANGED rskb
      PROVE  UpInv'
  <2>1. \A j \in slab : Alike(item'[j], item[j])
    BY <1>5, CountsAlike
  <2>2. ASSUME NEW j, j # i PROVE Pins(j)' = Pins(j)
    <3>. SUFFICES ASSUME NEW d \in Cpus, NEW k \in 0 .. MaxRead
                  PROVE Holds(d, k, j)' <=> Holds(d, k, j)
      BY PinsSame
    <3>1. ~Holds(d, 0, j) /\ ~Holds(d, 0, j)'
      BY <1>1, <1>2, <1>3, <2>2 DEF Holds
    <3>. QED BY <1>5, <3>1 DEF Holds
  <2>3. UpHandlerOK(c)'
    BY <1>1, <1>5, <2>1, HandlerUp, HandlerRests DEF Alike, writerVars
  <2>. QED BY <1>1, <1>5, <2>1, <2>2, <2>3, HandlerCounts DEF tableVars
<1>6. ASSUME item[i].flag_cache = 4, NEW k \in Slots, rskb[c][k] = NoItem,
             rskb' = [rskb EXCEPT ![c][k] = i], UNCHANGED item
      PROVE  UpInv'
  <2>1. \A j \in slab : Alike(item'[j], item[j])
    BY <1>6, CountsAlike
  <2>2. rskb'[c][k] = i /\ \A m \in Slots : m # k => rskb'[c][m] = rskb[c][m]
    BY <1>6
  <2>3. ASSUME NEW j \in slab, Pins(j) # {} PROVE Pins(j)' # {}
    <3>1. k # 0 /\ k \in 0 .. MaxRead
      BY SizeAssumption DEF Slots
    <3>2. CASE j = i
      <4>1. Holds(c, k, i)'
        BY <2>2, <3>1 DEF Holds
      <4>2. <<c, k>> \in Pins(i)'
        BY <3>1, <4>1 DEF Pins
      <4>. QED BY <3>2, <4>2
    <3>3. CASE j # i
      <4>1. PICK e \in Pins(j) : TRUE
        BY <2>3
      <4>2. PICK d \in Cpus, m \in 0 .. MaxRead : e = <<d, m>> /\ Holds(d, m, j)
        BY <4>1 DEF Pins
      <4>3. m # 0
        BY <1>1, <1>2, <1>3, <3>3, <4>2 DEF Holds
      <4>4. m \in Slots
        BY <4>3, SizeAssumption DEF Slots
      <4>5. Holds(d, m, j)'
        <5>1. j # NoItem
          BY ChunkAssumption
        <5>. QED BY <1>3, <1>6, <2>2, <4>2, <4>3, <4>4, <5>1 DEF Holds
      <4>. QED BY <4>2, <4>5 DEF Pins
    <3>. QED BY <3>2, <3>3
  <2>4. UpHandlerOK(c)'
    <3>1. ASSUME NEW m \in Slots, rskb'[c][m] # NoItem PROVE item'[rskb'[c][m]].flag_cache = 4
      BY <1>6, <2>2, <3>1, HandlerUp, <1>1
    <3>. QED BY <1>1, <1>4, <3>1 DEF UpHandlerOK
  <2>. QED BY <1>1, <2>1, <2>3, <2>4, HandlerCounts DEF tableVars
<1>. QED BY <1>2, <1>5, <1>6 DEF HandHash

LEMMA AddCheckUp == ASSUME UpPre, NEW c \in Cpus, AddCheck(c) PROVE UpInv'
<1>. USE UpTypes DEF UpPre
<1>1. /\ HandlerRuns(c) /\ hpc[c] = "check"
      /\ hpc' = [hpc EXCEPT ![c] = "idle"] \/ hpc' = [hpc EXCEPT ![c] = "alloc"]
      /\ UNCHANGED <<item, tableVars, hitem, rskb, writerVars, diskVars, panic>>
  BY DEF AddCheck
<1>2. \A j \in slab : Alike(item'[j], item[j])
  BY <1>1, CountsAlike
<1>3. \A j : Pins(j)' = Pins(j)
  <2>. SUFFICES ASSUME NEW j, NEW d \in Cpus, NEW k \in 0 .. MaxRead
                PROVE Holds(d, k, j)' <=> Holds(d, k, j)
    BY PinsSame
  <2>1. hpc'[d] \in {"flag", "hand"} <=> hpc[d] \in {"flag", "hand"}
    BY <1>1
  <2>. QED BY <1>1, <2>1 DEF Holds
<1>4. UpHandlerOK(c)'
  BY <1>1, HandlerRests DEF writerVars
<1>. QED BY <1>1, <1>2, <1>3, <1>4, HandlerCounts DEF tableVars

LEMMA AddAllocUp == ASSUME UpPre, NEW c \in Cpus, AddAlloc(c) PROVE UpInv'
<1>. USE UpTypes DEF UpPre
<1>1. /\ HandlerRuns(c) /\ hpc[c] = "alloc" /\ hitem[c] = NoItem /\ hchunk[c] \in Chunks
      /\ UNCHANGED <<hash_tab, rskb, writerVars, diskVars, panic>>
      /\ hpc' = [hpc EXCEPT ![c] = "link"] \/ hpc' = [hpc EXCEPT ![c] = "idle"]
  BY DEF AddAlloc, StoreInv, HandlerInv, HandlerOK
<1>2. \A j : Pins(j)' = Pins(j)
  <2>. SUFFICES ASSUME NEW j, NEW d \in Cpus, NEW k \in 0 .. MaxRead
                PROVE Holds(d, k, j)' <=> Holds(d, k, j)
    BY PinsSame
  <2>1. d = c
    BY OneCpu
  <2>. QED BY <1>1, <2>1 DEF Holds
<1>3. CASE UNCHANGED <<item, slab>>
  <2>1. \A j \in slab : Alike(item'[j], item[j])
    BY <1>3, CountsAlike
  <2>2. UpHandlerOK(c)'
    BY <1>1, <1>3, HandlerRests DEF writerVars
  <2>. QED BY <1>1, <1>2, <1>3, <2>1, <2>2, HandlerCounts
<1>4. ASSUME NEW i \in Items \ slab, item' = [item EXCEPT ![i] = NewItem(hchunk[c])],
             slab' = slab \cup {i}
      PROVE  UpInv'
  <2>1. item'[i] = NewItem(hchunk[c]) /\ \A j \in slab : item'[j] = item[j]
    BY <1>4
  <2>2. UpItemOK(i)' /\ item'[i].cpuid # -2
    <3>1. MemStyle(ChunkLen[hchunk[c]]) \in 0 .. 3
      BY MemStyleType
    <3>. QED BY <2>1, <3>1 DEF NewItem, UpItemOK, CanFree, OwnsBits
  <2>3. ASSUME NEW j \in slab PROVE UpItemOK(j)' /\ item'[j].cpuid # -2
    <3>1. UpItemOK(j) /\ Alike(item'[j], item[j])
      BY <2>1, CountsAlike DEF UpInv
    <3>2. file' = file /\ copy_mem' = copy_mem
      BY <1>1 DEF diskVars, writerVars
    <3>. QED BY <1>1, <1>2, <2>1, <3>1, <3>2, UpItemFrame, HandlerUp, UnmarkedItems
  <2>4. UpHandlerOK(c)'
    BY <1>1, <2>1, HandlerUp, HandlerRests DEF writerVars
  <2>. QED BY <1>1, <1>4, <2>2, <2>3, <2>4, HandlerUp, OutsideWriter DEF diskVars
<1>. QED BY <1>3, <1>4 DEF AddAlloc

LEMMA AddLinkUp == ASSUME UpPre, NEW c \in Cpus, AddLink(c) PROVE UpInv'
<1>. USE UpTypes DEF UpPre
<1>1. /\ HandlerRuns(c) /\ hpc[c] = "link" /\ hpc' = [hpc EXCEPT ![c] = "idle"]
      /\ hitem' = [hitem EXCEPT ![c] = NoItem]
      /\ UNCHANGED <<item, slab, rskb, writerVars, diskVars, panic>>
  BY DEF AddLink
<1>2. \A j \in slab : Alike(item'[j], item[j])
  BY <1>1, CountsAlike
<1>3. \A j : Pins(j)' = Pins(j)
  <2>. SUFFICES ASSUME NEW j, NEW d \in Cpus, NEW k \in 0 .. MaxRead
                PROVE Holds(d, k, j)' <=> Holds(d, k, j)
    BY PinsSame
  <2>1. d = c
    BY OneCpu
  <2>. QED BY <1>1, <2>1 DEF Holds
<1>4. UpHandlerOK(c)'
  BY <1>1, HandlerRests DEF writerVars
<1>. QED BY <1>1, <1>2, <1>3, <1>4, HandlerCounts

\* A step of read_data that fills in one item on the read list.
LEMMA ReadUp ==
    ASSUME UpPre, NEW c \in Cpus, HandlerRuns(c), NEW k \in Slots, rskb[c][k] # NoItem,
           NEW r, item' = [item EXCEPT ![rskb[c][k]] = r],
           UNCHANGED <<tableVars, hitem, rskb, writerVars, diskVars, panic>>,
           r.sha1 = item[rskb[c][k]].sha1, r.start = item[rskb[c][k]].start,
           r.cpuid = item[rskb[c][k]].cpuid, r.flag_cache = item[rskb[c][k]].flag_cache,
           r.mem_style >= 0, hslot'[c] = k,
           hpc[c] \notin {"flag", "hand"}, hpc' \in [Cpus -> HandlerPc],
           hpc'[c] \in {"copyin", "unpin"}
    PROVE  UpInv'
<1>. USE UpTypes DEF UpPre
<1>1. PICK i \in slab : i = rskb[c][k] /\ item[i].flag_cache = 4
  BY HandlerUp
<1>2. item'[i] = r /\ \A j \in slab : j # i => item'[j] = item[j]
  BY <1>1
<1>3. \A j : Pins(j)' = Pins(j)
  <2>. SUFFICES ASSUME NEW j, NEW d \in Cpus, NEW m \in 0 .. MaxRead
                PROVE Holds(d, m, j)' <=> Holds(d, m, j)
    BY PinsSame
  <2>1. d = c
    BY OneCpu
  <2>. QED BY <2>1 DEF Holds
<1>4. file' = file /\ copy_mem' = copy_mem /\ slab' = slab
  BY DEF diskVars, writerVars, tableVars
<1>5. UpItemOK(i)'
  <2>1. UpItemOK(i)
    BY DEF UpInv
  <2>2. /\ InPlace(item[i]) => InPlace(item[i])'
        /\ StoredIn(item[i], file[item[i].cpuid] \o copy_mem[item[i].cpuid])
             => StoredIn(item[i], file[item[i].cpuid] \o copy_mem[item[i].cpuid])'
    BY <1>1, <1>2, <1>4, StoredKept
  <2>3. (OwnsBits(i)' <=> OwnsBits(i)) /\ CanFree(item[i])' /\ item'[i].flag_cache = 4
    BY <1>1, <1>2 DEF OwnsBits, CanFree
  <2>. QED BY <1>1, <2>1, <2>2, <2>3 DEF UpItemOK
<1>6. ASSUME NEW j \in slab, j # i PROVE UpItemOK(j)'
  <2>1. UpItemOK(j) /\ Alike(item'[j], item[j])
    BY <1>2, <1>6, CountsAlike DEF UpInv
  <2>. QED BY <1>3, <1>4, <2>1, UpItemFrame
<1>7. ASSUME NEW j \in slab PROVE item'[j].cpuid # -2
  BY <1>1, <1>2, HandlerUp, UnmarkedItems
<1>8. UpHandlerOK(c)'
  <2>1. ~WriterLocked(c)'
    BY HandlerUp DEF WriterLocked, writerVars
  <2>2. ASSUME NEW m \in Slots, rskb'[c][m] # NoItem PROVE item'[rskb'[c][m]].flag_cache = 4
    BY <1>1, <1>2, <2>2, HandlerUp
  <2>3. CanFree(item'[rskb'[c][hslot'[c]]])
    BY <1>1, <1>2 DEF CanFree
  <2>. QED BY <2>1, <2>2, <2>3 DEF UpHandlerOK
<1>. QED BY <1>4, <1>5, <1>6, <1>7, <1>8, HandlerUp, OutsideWriter DEF diskVars

LEMMA ReadNextUp == ASSUME UpPre, NEW c \in Cpus, ReadNext(c) PROVE UpInv'
<1>. USE UpTypes DEF UpPre
<1>1. PICK k \in Slots :
        /\ rskb[c][k] # NoItem /\ hslot' = [hslot EXCEPT ![c] = k]
        /\ \/ /\ item[rskb[c][k]].flag_mem = 0
              /\ item' = [item EXCEPT ![rskb[c][k]] = AllocData(@)]
              /\ hpc' = [hpc EXCEPT ![c] = "copyin"]
           \/ /\ item[rskb[c][k]].flag_mem # 0
              /\ hpc' = [hpc EXCEPT ![c] = "unpin"]
              /\ UNCHANGED item
  BY DEF ReadNext
<1>2. /\ HandlerRuns(c) /\ hpc[c] \in {"idle", "read"}
      /\ UNCHANGED <<tableVars, hitem, rskb, writerVars, diskVars, panic>>
  BY DEF ReadNext
<1>3. PICK i \in slab : i = rskb[c][k] /\ item[i].flag_cache = 4
  BY <1>1, <1>2, HandlerUp
<1>4. hslot'[c] = k
  BY <1>1
<1>5. ASSUME item' = [item EXCEPT ![i] = AllocData(item[i])], hpc' = [hpc EXCEPT ![c] = "copyin"]
      PROVE  UpInv'
  <2>1. PICK r : r = AllocData(item[i])
    OBVIOUS
  <2>2. /\ r.sha1 = item[i].sha1 /\ r.start = item[i].start /\ r.cpuid = item[i].cpuid
        /\ r.flag_cache = item[i].flag_cache /\ r.mem_style >= 0
    <3>1. PICK m \in 0 .. 3 : m = MemStyle(ChunkLen[item[i].sha1])
      BY MemStyleType
    <3>2. CASE item[i].mem_style >= 0
      BY <2>1, <3>2 DEF AllocData
    <3>3. CASE ~(item[i].mem_style >= 0)
      <4>1. r = [item[i] EXCEPT !.mem_style = m, !.data = "garbage"]
        BY <2>1, <3>1, <3>3 DEF AllocData
      <4>2. r.mem_style = m /\ m >= 0
        BY <3>1, <4>1 DEF ItemRec
      <4>3. /\ r.sha1 = item[i].sha1 /\ r.start = item[i].start /\ r.cpuid = item[i].cpuid
            /\ r.flag_cache = item[i].flag_cache
        BY <4>1 DEF ItemRec
      <4>. QED BY <4>2, <4>3
    <3>. QED BY <3>2, <3>3
  <2>3. hpc' \in [Cpus -> HandlerPc] /\ hpc'[c] = "copyin"
    BY <1>5 DEF HandlerPc
  <2>. QED BY <1>1, <1>2, <1>3, <1>4, <1>5, <2>1, <2>2, <2>3, ReadUp
<1>6. ASSUME item[i].flag_mem # 0, hpc' = [hpc EXCEPT ![c] = "unpin"], UNCHANGED item
      PROVE  UpInv'
  <2>1. item[i].mem_style >= 0
    <3>1. item[i].flag_mem = 1
      BY <1>6 DEF ItemRec
    <3>. QED BY <3>1 DEF UpInv, UpItemOK, CanFree
  <2>2. item' = [item EXCEPT ![i] = item[i]]
    BY <1>6
  <2>3. hpc' \in [Cpus -> HandlerPc] /\ hpc'[c] = "unpin"
    BY <1>6 DEF HandlerPc
  <2>4. PICK r : r = item[i]
    OBVIOUS
  <2>. QED BY <1>1, <1>2, <1>3, <1>4, <2>1, <2>2, <2>3, <2>4, ReadUp
<1>. QED BY <1>1, <1>3, <1>5, <1>6

LEMMA CopyInUp == ASSUME UpPre, NEW c \in Cpus, CopyIn(c) PROVE UpInv'
<1>. USE UpTypes DEF UpPre
<1>1. /\ HandlerRuns(c) /\ hpc[c] = "copyin" /\ hpc' = [hpc EXCEPT ![c] = "unpin"]
      /\ UNCHANGED <<tableVars, hitem, hslot, rskb, writerVars, diskVars, panic>>
  BY DEF CopyIn
<1>2. PICK k \in Slots : k = hslot[c] /\ rskb[c][k] # NoItem
  BY <1>1, HandlerUp DEF HandlerOK
<1>3. PICK i \in slab : i = rskb[c][k] /\ item[i].mem_style >= 0
  BY <1>1, <1>2, HandlerUp DEF UpHandlerOK, CanFree
<1>4. PICK got : item' = [item EXCEPT ![i].data = got, ![i].flag_mem = 1]
  BY <1>2, <1>3 DEF CopyIn
<1>5. PICK r : r = [item[i] EXCEPT !.data = got, !.flag_mem = 1]
  OBVIOUS
<1>6. /\ r.sha1 = item[i].sha1 /\ r.start = item[i].start /\ r.cpuid = item[i].cpuid
      /\ r.flag_cache = item[i].flag_cache /\ r.mem_style = item[i].mem_style
  BY <1>5 DEF ItemRec
<1>7. item' = [item EXCEPT ![i] = r]
  BY <1>4, <1>5 DEF ItemRec
<1>8. hpc' \in [Cpus -> HandlerPc] /\ hpc'[c] = "unpin" /\ hslot'[c] = k
  BY <1>1, <1>2 DEF HandlerPc
<1>. QED BY <1>1, <1>2, <1>3, <1>6, <1>7, <1>8, ReadUp

LEMMA UnpinUp == ASSUME UpPre, NEW c \in Cpus, Unpin(c) PROVE UpInv'
<1>. USE UpTypes DEF UpPre
<1>1. /\ HandlerRuns(c) /\ hpc[c] = "unpin" /\ UNCHANGED <<tableVars, hitem, writerVars, diskVars, panic>>
  BY DEF Unpin
<1>2. PICK k \in Slots : k = hslot[c] /\ rskb[c][k] # NoItem
  BY <1>1, HandlerUp DEF HandlerOK
<1>3. PICK i \in slab : i = rskb[c][k] /\ CanFree(item[i])
  BY <1>1, <1>2, HandlerUp DEF UpHandlerOK
<1>4. /\ item' = [item EXCEPT ![i] = PutRef(@)] /\ rskb' = [rskb EXCEPT ![c][k] = NoItem]
      /\ hpc' = [hpc EXCEPT ![c] = "idle"] \/ hpc' = [hpc EXCEPT ![c] = "read"]
  BY <1>2, <1>3 DEF Unpin
<1>5. \A j \in slab : Alike(item'[j], item[j])
  BY <1>4, CountsAlike
<1>6. \A m \in Slots : rskb'[c][m] = IF m = k THEN NoItem ELSE rskb[c][m]
  BY <1>4
<1>7. ASSUME NEW j \in slab, j # i PROVE Pins(j)' = Pins(j)
  <2>. SUFFICES ASSUME NEW d \in Cpus, NEW m \in 0 .. MaxRead
                PROVE Holds(d, m, j)' <=> Holds(d, m, j)
    BY PinsSame
  <2>1. d = c /\ j # NoItem
    BY OneCpu, ChunkAssumption
  <2>2. CASE m = 0
    BY <1>1, <1>4, <2>1, <2>2 DEF Holds
  <2>3. CASE m # 0
    <3>1. m \in Slots
      BY <2>3, SizeAssumption DEF Slots
    <3>. QED BY <1>3, <1>6, <1>7, <2>1, <2>3, <3>1 DEF Holds
  <2>. QED BY <2>2, <2>3
<1>8. UpHandlerOK(c)'
  <2>1. ~WriterLocked(c)'
    BY <1>1, HandlerUp DEF WriterLocked, writerVars
  <2>2. ASSUME NEW m \in Slots, rskb'[c][m] # NoItem PROVE item'[rskb'[c][m]].flag_cache = 4
    <3>1. rskb'[c][m] = rskb[c][m]
      BY <1>6, <2>2
    <3>2. rskb[c][m] \in slab /\ item[rskb[c][m]].flag_cache = 4
      BY <1>1, <2>2, <3>1, HandlerUp
    <3>. QED BY <1>5, <3>1, <3>2 DEF Alike
  <2>. QED BY <1>4, <2>1, <2>2 DEF UpHandlerOK
<1>. QED BY <1>1, <1>3, <1>5, <1>7, <1>8, HandlerCounts DEF tableVars

-----------------------------------------------------------------------------
(* The file writer *)

LEMMA WriterUp ==
    ASSUME UpPre, NEW c \in Cpus, WriterRuns(c)
    PROVE  /\ WriterOK(c) /\ UpWriterOK(c) /\ UpHandlerOK(c) /\ HandlerOK(c)
           /\ panic = "none" /\ ~HandlerLocked(c)
           /\ \A d \in Cpus : d = c
BY OneCpu DEF UpPre, UpInv, StoreInv, HandlerInv, WriterInv, WriterRuns

LEMMA PinsStill == ASSUME UNCHANGED handlerVars PROVE \A i : Pins(i)' = Pins(i)
BY DEF Pins, Holds, handlerVars

\* The handler is not disturbed by what a writer does to items it does not hold.
LEMMA HandlerKept ==
    ASSUME UpPre, NEW c \in Cpus, WriterRuns(c), UNCHANGED handlerVars,
           \A j \in slab : \/ Pins(j) = {} \/ item[j].flag_cache = 1
                           \/ /\ item'[j].flag_cache = item[j].flag_cache
                              /\ item'[j].mem_style = item[j].mem_style
    PROVE  UpHandlerOK(c)'
<1>. USE WriterUp
<1>1. ~HandlerLocked(c)'
  BY DEF HandlerLocked, handlerVars
<1>2. ASSUME hpc[c] = "hand" PROVE item'[hitem[c]].flag_cache # 1
  <2>1. hitem[c] \in slab /\ item[hitem[c]].flag_cache # 1
    BY <1>2 DEF HandlerOK, UpHandlerOK
  <2>2. Pins(hitem[c]) # {}
    <3>1. Holds(c, 0, hitem[c]) /\ 0 \in 0 .. MaxRead
      BY <1>2, SizeAssumption DEF Holds
    <3>. QED BY <3>1, PinsHeld
  <2>. QED BY <2>1, <2>2
<1>3. ASSUME NEW k \in Slots, rskb[c][k] # NoItem
      PROVE  /\ item'[rskb[c][k]].flag_cache = 4
             /\ item'[rskb[c][k]].mem_style = item[rskb[c][k]].mem_style
  <2>1. rskb[c][k] \in slab /\ item[rskb[c][k]].flag_cache = 4
    BY <1>3 DEF HandlerOK, UpHandlerOK
  <2>2. Pins(rskb[c][k]) # {}
    <3>1. Holds(c, k, rskb[c][k]) /\ k \in 0 .. MaxRead
      BY SizeAssumption DEF Holds, Slots
    <3>. QED BY <3>1, PinsHeld
  <2>. QED BY <2>1, <2>2
<1>4. ASSUME hpc[c] \in {"copyin", "unpin"} PROVE CanFree(item'[rskb[c][hslot[c]]])
  <2>1. /\ hslot[c] \in Slots /\ rskb[c][hslot[c]] # NoItem
        /\ CanFree(item[rskb[c][hslot[c]]])
    BY <1>4 DEF HandlerOK, UpHandlerOK
  <2>. QED BY <1>3, <2>1 DEF CanFree
<1>. QED BY <1>1, <1>2, <1>3, <1>4 DEF UpHandlerOK, handlerVars

LEMMA MarksStill ==
    ASSUME UNCHANGED <<item, slab>> PROVE Marked' = Marked /\ MarkedBlocks' = MarkedBlocks
BY DEF Marked, MarkedBlocks

\* Writer steps that leave items and files alone.
LEMMA WriterQuiet ==
    ASSUME UpPre, NEW c \in Cpus, WriterRuns(c),
           UNCHANGED <<item, slab, handlerVars, copy_mem, file>>,
           panic' # "cannot arrive here", UpWriterOK(c)'
    PROVE  UpInv'
<1>. USE UpTypes DEF UpPre
<1>1. \A i : Pins(i)' = Pins(i)
  BY PinsStill
<1>2. ASSUME NEW i \in slab PROVE UpItemOK(i)'
  <2>1. UpItemOK(i) /\ Alike(item'[i], item[i])
    BY CountsAlike DEF UpInv
  <2>. QED BY <1>1, <2>1, UpItemFrame
<1>3. Marked' = Marked /\ MarkedBlocks' = MarkedBlocks
  BY MarksStill
<1>4. UpHandlerOK(c)'
  BY HandlerKept
<1>. QED BY <1>2, <1>3, <1>4, WriterUp DEF UpInv

LEMMA WrStartUp == ASSUME UpPre, NEW c \in Cpus, WrStart(c) PROVE UpInv'
<1>. USE UpTypes DEF UpPre
<1>1. /\ WriterRuns(c) /\ wpc[c] = "idle" /\ wpc' = [wpc EXCEPT ![c] = "sum"]
      /\ UNCHANGED <<item, tableVars, handlerVars, witem, all_size, copy_mem, diskVars, panic>>
  BY DEF WrStart
<1>2. Marked = {} /\ Marked' = Marked /\ MarkedBlocks' = MarkedBlocks /\ wpc'[c] = "sum"
  <2>1. Marked = {}
    BY <1>1, WriterUp DEF UpWriterOK
  <2>. QED BY <1>1, <2>1, MarksStill DEF tableVars
<1>3. UpWriterOK(c)'
  BY <1>1, <1>2, WriterUp DEF UpWriterOK, diskVars
<1>. QED BY <1>1, <1>3, WriterUp, WriterQuiet DEF tableVars, diskVars

LEMMA WrCopyEndUp == ASSUME UpPre, NEW c \in Cpus, WrCopyEnd(c) PROVE UpInv'
<1>. USE UpTypes DEF UpPre
<1>1. /\ WriterRuns(c) /\ wpc[c] = "recheck" /\ wtodo[c] = {} /\ wpc' = [wpc EXCEPT ![c] = "write"]
      /\ UNCHANGED <<item, tableVars, handlerVars, witem, all_size, copy_mem, diskVars, panic>>
  BY DEF WrCopyEnd
<1>2. Marked = {} /\ Marked' = Marked /\ MarkedBlocks' = MarkedBlocks /\ wpc'[c] = "write"
  <2>1. Marked = {}
    BY <1>1, WriterUp DEF UpWriterOK
  <2>. QED BY <1>1, <2>1, MarksStill DEF tableVars
<1>3. UpWriterOK(c)'
  BY <1>1, <1>2, WriterUp DEF UpWriterOK, diskVars
<1>. QED BY <1>1, <1>3, WriterUp, WriterQuiet DEF tableVars, diskVars

LEMMA WrErrorUp == ASSUME UpPre, NEW c \in Cpus, WrError(c) PROVE UpInv'
<1>. USE UpTypes DEF UpPre
<1>1. /\ WriterRuns(c) /\ panic' = "write failed"
      /\ UNCHANGED <<item, tableVars, handlerVars, writerVars, diskVars>>
  BY DEF WrError
<1>2. Marked' = Marked /\ MarkedBlocks' = MarkedBlocks
  BY <1>1, MarksStill DEF tableVars
<1>3. UpWriterOK(c)'
  <2>1. UpWriterOK(c) /\ Pins(witem[c])' = Pins(witem[c])
    BY <1>1, WriterUp, PinsStill DEF writerVars, tableVars
  <2>2. UNCHANGED <<item, wpc, witem, copy_mem, all_size, bitmap_index, file>>
    BY <1>1 DEF writerVars, diskVars
  <2>. QED BY <1>1, <1>2, <2>1, <2>2 DEF UpWriterOK
<1>. QED BY <1>1, <1>3, WriterUp, WriterQuiet DEF tableVars, writerVars, diskVars

LEMMA WrRelockUp == ASSUME UpPre, NEW c \in Cpus, WrRelock(c) PROVE UpInv'
<1>. USE UpTypes DEF UpPre
<1>1. /\ WriterRuns(c) /\ wpc[c] = "relock" /\ wpc' = [wpc EXCEPT ![c] = "scan"]
      /\ UNCHANGED <<item, tableVars, handlerVars, witem, all_size, copy_mem, diskVars, panic>>
  BY DEF WrRelock
<1>2. Marked = {} /\ Marked' = Marked /\ MarkedBlocks' = MarkedBlocks /\ wpc'[c] = "scan"
  <2>1. Marked = {}
    BY <1>1, WriterUp DEF UpWriterOK
  <2>. QED BY <1>1, <2>1, MarksStill DEF tableVars
<1>3. UpWriterOK(c)'
  BY <1>1, <1>2, WriterUp DEF UpWriterOK, diskVars
<1>. QED BY <1>1, <1>3, WriterUp, WriterQuiet DEF tableVars, diskVars

LEMMA WrEndUp == ASSUME UpPre, NEW c \in Cpus, WrEnd(c) PROVE UpInv'
<1>. USE UpTypes DEF UpPre
<1>1. /\ WriterRuns(c) /\ wpc[c] = "scan" /\ wpc' = [wpc EXCEPT ![c] = "idle"]
      /\ UNCHANGED <<item, tableVars, handlerVars, witem, all_size, copy_mem, diskVars, panic>>
  BY DEF WrEnd
<1>2. Marked = {} /\ Marked' = Marked /\ MarkedBlocks' = MarkedBlocks /\ wpc'[c] = "idle"
  <2>1. Marked = {}
    BY <1>1, WriterUp DEF UpWriterOK
  <2>. QED BY <1>1, <2>1, MarksStill DEF tableVars
<1>3. UpWriterOK(c)'
  BY <1>1, <1>2, WriterUp DEF UpWriterOK, diskVars
<1>. QED BY <1>1, <1>3, WriterUp, WriterQuiet DEF tableVars, diskVars

LEMMA WrScanUp == ASSUME UpPre, NEW c \in Cpus, WrScan(c) PROVE UpInv'
<1>. USE UpTypes DEF UpPre
<1>1. /\ WriterRuns(c) /\ wpc[c] = "scan"
      /\ UNCHANGED <<item, tableVars, handlerVars, all_size, copy_mem, diskVars, panic>>
  BY DEF WrScan
<1>2. Marked = {} /\ Marked' = Marked /\ MarkedBlocks' = MarkedBlocks
  <2>1. Marked = {}
    BY <1>1, WriterUp DEF UpWriterOK
  <2>. QED BY <1>1, <2>1, MarksStill DEF tableVars
<1>3. \/ wpc'[c] = "scan"
      \/ /\ wpc'[c] = "todisk" /\ item[witem'[c]].flag_cache = 2 /\ Pins(witem'[c]) = {}
  <2>1. CASE UNCHANGED <<wpc, witem>>
    BY <1>1, <2>1
  <2>2. ASSUME NEW i \in wtodo[c], ToEvict(item[i]), wpc' = [wpc EXCEPT ![c] = "todisk"],
               witem' = [witem EXCEPT ![c] = i]
        PROVE  wpc'[c] = "todisk" /\ item[witem'[c]].flag_cache = 2 /\ Pins(witem'[c]) = {}
    <3>1. i \in slab
      BY <1>1, WriterItem DEF WriterLocked
    <3>2. Pins(i) = {} /\ item[i].flag_cache = 2
      BY <2>2, <3>1, UnsharedUnpinned DEF ToEvict
    <3>. QED BY <2>2, <3>2
  <2>. QED BY <2>1, <2>2 DEF WrScan
<1>4. UpWriterOK(c)'
  BY <1>1, <1>2, <1>3, WriterUp, PinsStill DEF UpWriterOK, diskVars
<1>. QED BY <1>1, <1>4, WriterUp, WriterQuiet DEF tableVars, diskVars

\* The blocks that a set of items takes; marking or copying an item changes their number
\* by its own.
Blocks(S) == UNION {{j} \X (1 .. Num(item[j].sha1)) : j \in S}

LEMMA BlocksOne ==
    ASSUME NEW S, NEW i, i \notin S, NEW n \in Nat, n = Num(item[i].sha1),
           IsFiniteSet(Blocks(S)) \/ IsFiniteSet(Blocks(S \cup {i}))
    PROVE  /\ IsFiniteSet(Blocks(S)) /\ IsFiniteSet(Blocks(S \cup {i}))
           /\ Cardinality(Blocks(S)) \in Nat /\ Cardinality(Blocks(S \cup {i})) \in Nat
           /\ Cardinality(Blocks(S \cup {i})) = Cardinality(Blocks(S)) + n
<1>1. PICK R : R = Blocks(S)
  OBVIOUS
<1>2. With(R, i, n) = Blocks(S \cup {i})
  BY <1>1 DEF With, Blocks
<1>3. PICK z \in Nat : z = 0
  OBVIOUS
<1>4. With(R, i, z) = R
  <2>1. \A k \in 1 .. z : FALSE
    BY <1>3
  <2>. QED BY <2>1 DEF With
<1>5. R \cap ({i} \X Nat) = {}
  BY <1>1 DEF Blocks
<1>6. CASE IsFiniteSet(R)
  <2>1. IsFiniteSet(With(R, i, n)) /\ Cardinality(With(R, i, n)) = Cardinality(With(R, i, z)) - z + n
    BY <1>4, <1>5, <1>6, SumOne
  <2>2. Cardinality(R) \in Nat /\ Cardinality(With(R, i, n)) \in Nat
    BY <1>6, <2>1, FS_CardinalityType
  <2>. QED BY <1>1, <1>2, <1>3, <1>4, <1>6, <2>1, <2>2
<1>7. CASE IsFiniteSet(With(R, i, n))
  <2>1. R \in SUBSET With(R, i, n)
    BY DEF With
  <2>2. IsFiniteSet(R)
    BY <1>7, <2>1, FS_Subset
  <2>. QED BY <1>6, <2>2
<1>. QED BY <1>1, <1>2, <1>6, <1>7

LEMMA MarkedIsBlocks == MarkedBlocks = Blocks(Marked)
BY DEF MarkedBlocks, Blocks

\* The items that pass 1 has marked are counted, so when nothing is counted none is marked.
LEMMA NoneCounted ==
    ASSUME StoreInv, IsFiniteSet(MarkedBlocks), Cardinality(MarkedBlocks) = 0 PROVE Marked = {}
<1>1. MarkedBlocks = {}
  BY FS_EmptySet
<1>2. ASSUME NEW i \in Marked PROVE FALSE
  <2>1. Num(item[i].sha1) \in Nat \ {0}
    BY UpTypes, NumPositive DEF Marked
  <2>2. 1 \in 1 .. Num(item[i].sha1)
    BY <2>1
  <2>3. <<i, 1>> \in MarkedBlocks
    BY <2>2 DEF MarkedBlocks
  <2>. QED BY <1>1, <2>3
<1>. QED BY <1>2

LEMMA WrSumEndUp == ASSUME UpPre, NEW c \in Cpus, WrSumEnd(c) PROVE UpInv'
<1>. USE UpTypes DEF UpPre
<1>1. /\ WriterRuns(c) /\ wpc[c] = "sum"
      /\ UNCHANGED <<item, tableVars, handlerVars, witem, all_size, copy_mem, diskVars, panic>>
  BY DEF WrSumEnd
<1>2. Marked' = Marked /\ MarkedBlocks' = MarkedBlocks
  BY <1>1, MarksStill DEF tableVars
<1>3. copy_mem[c] = << >> /\ all_size[c] = Len(copy_mem[c]) + Cardinality(MarkedBlocks)
      /\ IsFiniteSet(MarkedBlocks) /\ Cardinality(MarkedBlocks) \in Nat
  BY <1>1, WriterUp, FS_CardinalityType DEF UpWriterOK, UpInv
<1>4. CASE all_size[c] = 0 /\ wpc' = [wpc EXCEPT ![c] = "idle"]
  <2>1. Len(copy_mem[c]) = 0
    BY <1>3
  <2>2. Cardinality(MarkedBlocks) = 0
    BY <1>3, <1>4, <2>1
  <2>3. Marked = {}
    BY <1>3, <2>2, NoneCounted
  <2>4. wpc'[c] = "idle"
    BY <1>4
  <2>5. UpWriterOK(c)'
    BY <1>1, <1>2, <1>3, <2>3, <2>4, WriterUp DEF UpWriterOK, diskVars
  <2>. QED BY <1>1, <2>5, WriterUp, WriterQuiet DEF tableVars, diskVars
<1>5. CASE /\ wpc' = [wpc EXCEPT ![c] = "recheck"]
           /\ wtodo' = [wtodo EXCEPT ![c] = hash_tab[wbkt[c]]]
  <2>1. wpc'[c] = "recheck" /\ wtodo'[c] = hash_tab[wbkt[c]]
    BY <1>5
  <2>2. UpWriterOK(c)'
    BY <1>1, <1>2, <2>1, WriterUp DEF UpWriterOK, diskVars
  <2>. QED BY <1>1, <2>2, WriterUp, WriterQuiet DEF tableVars, diskVars
<1>. QED BY <1>4, <1>5 DEF WrSumEnd

\* Referenced items are not marked: nothing has run since pass 1.
LEMMA WrRecheckUp == ASSUME UpPre, NEW c \in Cpus, WrRecheck(c) PROVE UpInv'
<1>. USE UpTypes DEF UpPre
<1>1. /\ WriterRuns(c) /\ wpc[c] = "recheck"
      /\ UNCHANGED <<tableVars, handlerVars, wbkt, all_size, copy_mem, diskVars, panic>>
  BY DEF WrRecheck
<1>2. ASSUME NEW i \in wtodo[c], Referenced(item[i]) PROVE FALSE
  <2>1. i \in slab
    BY <1>1, WriterItem DEF WriterLocked
  <2>2. i \in Marked
    BY <1>2, <2>1 DEF Referenced, Marked
  <2>3. item[i].share_ref = 1
    BY <2>2 DEF UpInv, ToCopy
  <2>. QED BY <1>2, <2>3 DEF Referenced
<1>3. wpc' = [wpc EXCEPT ![c] = "copy"] /\ UNCHANGED <<item, wtodo>>
  BY <1>2 DEF WrRecheck
<1>4. Marked' = Marked /\ MarkedBlocks' = MarkedBlocks /\ wpc'[c] = "copy"
  BY <1>1, <1>3, MarksStill DEF tableVars
<1>5. UpWriterOK(c)'
  BY <1>1, <1>3, <1>4, WriterUp DEF UpWriterOK, diskVars
<1>. QED BY <1>1, <1>3, <1>5, WriterUp, WriterQuiet DEF tableVars, diskVars

\* A step of pass 1 or 2 that changes one item's mark or place.
LEMMA WrSumUp == ASSUME UpPre, NEW c \in Cpus, WrSum(c) PROVE UpInv'
<1>. USE UpTypes DEF UpPre
<1>1. /\ WriterRuns(c) /\ wpc[c] = "sum"
      /\ UNCHANGED <<tableVars, handlerVars, wpc, wbkt, witem, copy_mem, diskVars, panic>>
  BY DEF WrSum
<1>2. CASE UNCHANGED <<all_size, item>>
  <2>1. Marked' = Marked /\ MarkedBlocks' = MarkedBlocks
    BY <1>1, <1>2, MarksStill DEF tableVars
  <2>2. UpWriterOK(c)'
    BY <1>1, <1>2, <2>1, WriterUp DEF UpWriterOK, diskVars, tableVars
  <2>. QED BY <1>1, <1>2, <2>2, WriterUp, WriterQuiet DEF tableVars, diskVars
<1>3. ASSUME NEW i \in wtodo[c], ToWrite(item[i]),
             all_size' = [all_size EXCEPT ![c] = @ + Num(item[i].sha1)],
             item' = [item EXCEPT ![i].cpuid = -2]
      PROVE  UpInv'
  <2>1. i \in slab /\ i \in hash_tab[wbkt[c]] /\ i \in Items
    BY <1>1, WriterItem DEF WriterLocked
  <2>2. PICK r : r = [item[i] EXCEPT !.cpuid = -2]
    OBVIOUS
  <2>3. /\ r.sha1 = item[i].sha1 /\ r.start = item[i].start /\ r.cpuid = -2
        /\ r.flag_cache = item[i].flag_cache /\ r.mem_style = item[i].mem_style
        /\ r.data = item[i].data /\ r.flag_mem = item[i].flag_mem /\ r.refcnt = item[i].refcnt
        /\ r.share_ref = item[i].share_ref
    BY <2>1, <2>2 DEF ItemRec
  <2>4. item'[i] = r /\ \A j \in slab : j # i => item'[j] = item[j]
    BY <1>3, <2>1, <2>2
  <2>5. slab' = slab /\ file' = file /\ copy_mem' = copy_mem /\ hash_tab' = hash_tab
    BY <1>1 DEF tableVars, diskVars
  <2>6. item[i].cpuid = -1 /\ item[i].flag_cache = 2 /\ ToCopy(r)
    BY <1>3, <2>3 DEF ToWrite, ToCopy
  <2>7. UpItemOK(i)'
    <3>1. UpItemOK(i)
      BY <2>1 DEF UpInv
    <3>2. ~OwnsBits(i)'
      BY <2>3, <2>4 DEF OwnsBits
    <3>3. /\ item'[i].flag_cache = 2 /\ item'[i].data = item[i].data
          /\ item'[i].flag_mem = item[i].flag_mem
          /\ CanFree(item'[i]) <=> CanFree(item[i])
      BY <2>3, <2>4, <2>6 DEF CanFree
    <3>. QED BY <2>6, <3>1, <3>2, <3>3 DEF UpItemOK
  <2>8. ASSUME NEW j \in slab, j # i PROVE UpItemOK(j)'
    <3>1. UpItemOK(j) /\ Alike(item'[j], item[j])
      BY <2>4, <2>8, CountsAlike DEF UpInv
    <3>. QED BY <1>1, <2>5, <3>1, UpItemFrame, PinsStill
  <2>9. Marked' = Marked \cup {i} /\ i \notin Marked
    BY <2>1, <2>3, <2>4, <2>5, <2>6 DEF Marked
  <2>10. \A j \in Marked' : ToCopy(item'[j])
    BY <2>4, <2>6, <2>9 DEF UpInv, Marked
  <2>11. PICK n \in Nat : n = Num(item[i].sha1)
    BY <2>1, NumPositive
  <2>12. MarkedBlocks' = Blocks(Marked \cup {i})
    <3>1. \A j \in Marked \cup {i} : item'[j].sha1 = item[j].sha1
      BY <2>1, <2>3, <2>4 DEF Marked
    <3>. QED BY <2>9, <3>1 DEF MarkedBlocks, Blocks
  <2>13. /\ IsFiniteSet(MarkedBlocks') /\ Cardinality(MarkedBlocks) \in Nat
         /\ Cardinality(MarkedBlocks') = Cardinality(MarkedBlocks) + n
    <3>1. IsFiniteSet(Blocks(Marked))
      BY MarkedIsBlocks DEF UpInv
    <3>. QED BY <2>9, <2>11, <2>12, <3>1, MarkedIsBlocks, BlocksOne
  <2>14. all_size'[c] = Len(copy_mem'[c]) + Cardinality(MarkedBlocks')
    <3>1. PICK m \in Nat : m = Cardinality(MarkedBlocks)
      BY <2>13
    <3>2. PICK l \in Nat : l = Len(copy_mem[c])
      OBVIOUS
    <3>3. all_size[c] = l + m
      BY <1>1, <3>1, <3>2, WriterUp DEF UpWriterOK
    <3>4. all_size'[c] = all_size[c] + n
      BY <1>3, <2>11
    <3>. QED BY <2>5, <2>13, <3>1, <3>2, <3>3, <3>4
  <2>15. UpWriterOK(c)'
    <3>1. Marked' \subseteq hash_tab[wbkt[c]]
      BY <1>1, <2>1, <2>9, WriterUp DEF UpWriterOK
    <3>. QED BY <1>1, <2>5, <2>14, <3>1, WriterUp DEF UpWriterOK, diskVars
  <2>16. UpHandlerOK(c)'
    BY <1>1, <2>3, <2>4, HandlerKept
  <2>. QED BY <1>1, <2>5, <2>7, <2>8, <2>10, <2>13, <2>15, <2>16, WriterUp DEF UpInv
<1>. QED BY <1>2, <1>3 DEF WrSum

-----------------------------------------------------------------------------
(* Pass 2 and kernel_write *)

\* What is stored stays stored when blocks are appended.
LEMMA StoredGrows ==
    ASSUME NEW r \in ItemRec, r.sha1 \in Chunks, NEW q \in Seq(Block), NEW t \in Seq(Block),
           StoredIn(r, q)
    PROVE  StoredIn(r, q \o t)
<1>1. PICK s : s = q \o t
  OBVIOUS
<1>2. /\ Len(s) = Len(q) + Len(t) /\ Len(q) \in Nat /\ Len(t) \in Nat
      /\ \A k \in 1 .. Len(q) : s[k] = q[k]
  BY <1>1
<1>3. Num(r.sha1) \in Nat /\ r.start \in Nat
  BY NumPositive DEF ItemRec
<1>4. ASSUME NEW k \in 1 .. Num(r.sha1)
      PROVE r.start + k <= Len(s) /\ s[r.start + k] \in {<<r.sha1, k>>, LostBlock}
  <2>1. r.start + k <= Len(q) /\ q[r.start + k] \in {<<r.sha1, k>>, LostBlock}
    BY <1>3 DEF StoredIn
  <2>2. r.start + k \in 1 .. Len(q)
    BY <1>2, <1>3, <2>1
  <2>. QED BY <1>2, <1>3, <2>1, <2>2
<1>5. StoredIn(r, s)
  BY <1>4 DEF StoredIn
<1>. QED BY <1>1, <1>5

LEMMA Joined ==
    ASSUME NEW S, NEW a \in Seq(S), NEW b \in Seq(S), NEW s, s = a \o b
    PROVE  /\ s \in Seq(S) /\ Len(s) = Len(a) + Len(b)
           /\ \A k \in 1 .. Len(a) + Len(b) : s[k] = IF k <= Len(a) THEN a[k] ELSE b[k - Len(a)]
BY ConcatProperties

LEMMA Listed ==
    ASSUME NEW S, NEW m \in Nat, NEW g \in [1 .. m -> S]
    PROVE  g \in Seq(S) /\ Len(g) = m
OBVIOUS

\* A write that leaves blocks out overwrites nothing else.
LEMMA StoredShort ==
    ASSUME NEW r \in ItemRec, r.sha1 \in Chunks, NEW f \in Seq(Block), NEW t \in Seq(Block),
           NEW u \in Seq(Block), Len(u) = Len(t),
           \A k \in 1 .. Len(t) : u[k] \in {t[k], LostBlock}, StoredIn(r, f \o t)
    PROVE  StoredIn(r, f \o u)
<1>1. PICK p : p = f \o t
  OBVIOUS
<1>2. PICK s : s = f \o u
  OBVIOUS
<1>3. /\ Len(f) \in Nat /\ Len(t) \in Nat /\ Len(p) = Len(f) + Len(t) /\ Len(s) = Len(p)
      /\ \A k \in 1 .. Len(p) : p[k] = IF k <= Len(f) THEN f[k] ELSE t[k - Len(f)]
      /\ \A k \in 1 .. Len(p) : s[k] = IF k <= Len(f) THEN f[k] ELSE u[k - Len(f)]
  <2>1. Len(f) \in Nat /\ Len(t) \in Nat
    BY LenProperties
  <2>2. /\ Len(p) = Len(f) + Len(t)
        /\ \A k \in 1 .. Len(f) + Len(t) : p[k] = IF k <= Len(f) THEN f[k] ELSE t[k - Len(f)]
    BY <1>1, Joined
  <2>3. /\ Len(s) = Len(f) + Len(u)
        /\ \A k \in 1 .. Len(f) + Len(u) : s[k] = IF k <= Len(f) THEN f[k] ELSE u[k - Len(f)]
    <3>1. PICK v \in Seq(Block) : v = u
      OBVIOUS
    <3>2. /\ Len(s) = Len(f) + Len(v)
          /\ \A k \in 1 .. Len(f) + Len(v) : s[k] = IF k <= Len(f) THEN f[k] ELSE v[k - Len(f)]
      BY <1>2, <3>1, Joined
    <3>. QED BY <3>1, <3>2
  <2>. QED BY <2>1, <2>2, <2>3
<1>4. ASSUME NEW k \in 1 .. Len(p) PROVE s[k] \in {p[k], LostBlock}
  <2>1. CASE k <= Len(f)
    BY <1>3, <2>1
  <2>2. CASE ~(k <= Len(f))
    <3>1. k - Len(f) \in 1 .. Len(t)
      BY <1>3, <2>2
    <3>. QED BY <1>3, <2>2, <3>1
  <2>. QED BY <2>1, <2>2
<1>5. Num(r.sha1) \in Nat /\ r.start \in Nat
  BY NumPositive DEF ItemRec
<1>6. ASSUME NEW k \in 1 .. Num(r.sha1)
      PROVE r.start + k <= Len(s) /\ s[r.start + k] \in {<<r.sha1, k>>, LostBlock}
  <2>1. r.start + k <= Len(p) /\ p[r.start + k] \in {<<r.sha1, k>>, LostBlock}
    BY <1>1 DEF StoredIn
  <2>2. r.start + k \in 1 .. Len(p)
    BY <1>3, <1>5, <2>1
  <2>. QED BY <1>3, <1>4, <2>1, <2>2
<1>7. StoredIn(r, s)
  BY <1>6 DEF StoredIn
<1>. QED BY <1>2, <1>7

\* A chunk that is appended is stored at the old end.
LEMMA StoredAtEnd ==
    ASSUME NEW r \in ItemRec, r.sha1 \in Chunks, NEW q \in Seq(Block), r.start = Len(q)
    PROVE  StoredIn(r, q \o BlocksOf(r.sha1))
<1>1. PICK n \in Nat : n = Num(r.sha1)
  BY NumPositive
<1>2. PICK t : t = BlocksOf(r.sha1)
  OBVIOUS
<1>3. PICK s : s = q \o t
  OBVIOUS
<1>4. t \in Seq(Block) /\ Len(t) = n /\ \A k \in 1 .. n : t[k] = <<r.sha1, k>>
  <2>1. t = [k \in 1 .. n |-> <<r.sha1, k>>]
    BY <1>1, <1>2 DEF BlocksOf
  <2>2. t \in [1 .. n -> Block]
    BY <2>1 DEF Block
  <2>. QED BY <2>1, <2>2
<1>5. Len(s) = Len(q) + n /\ Len(q) \in Nat
  <2>1. Len(q \o t) = Len(q) + Len(t)
    BY <1>4, ConcatProperties
  <2>2. Len(q) \in Nat
    BY LenProperties
  <2>. QED BY <1>3, <1>4, <2>1, <2>2
<1>6. ASSUME NEW k \in 1 .. n PROVE s[Len(q) + k] = t[k]
  <2>1. PICK m \in Nat : m = Len(q)
    BY <1>5
  <2>2. m + k \in 1 .. m + n /\ ~(m + k <= m) /\ m + k - m = k
    BY SMTT(30)
  <2>3. s[m + k] = t[m + k - m]
    BY <1>3, <1>4, <2>1, <2>2, ConcatProperties
  <2>. QED BY <2>1, <2>2, <2>3
<1>7. ASSUME NEW k \in 1 .. n PROVE r.start + k <= Len(s) /\ s[r.start + k] = <<r.sha1, k>>
  BY <1>4, <1>5, <1>6
<1>8. StoredIn(r, s)
  BY <1>1, <1>7 DEF StoredIn
<1>. QED BY <1>2, <1>3, <1>8

\* An item of one CPU that has a place has it in that CPU's file.
LEMMA OnePlace ==
    ASSUME UpPre, NEW c \in Cpus, NEW i \in slab, OwnsBits(i)
    PROVE  item[i].cpuid = c
BY OneCpu, UpTypes, PlaceType DEF UpPre, OwnsBits

\* Every marked item is still to be copied: pass 2 skips none of them.
LEMMA WrCopyUp == ASSUME UpPre, NEW c \in Cpus, WrCopy(c) PROVE UpInv'
<1>. USE UpTypes DEF UpPre
<1>1. PICK i : i = witem[c]
  OBVIOUS
<1>2. /\ WriterRuns(c) /\ wpc[c] = "copy" /\ wpc' = [wpc EXCEPT ![c] = "recheck"]
      /\ wtodo' = [wtodo EXCEPT ![c] = @ \ {i}]
      /\ UNCHANGED <<tableVars, handlerVars, wbkt, all_size, file>>
  BY <1>1 DEF WrCopy
<1>3. /\ i \in slab /\ i \in Items /\ item[i] \in ItemRec /\ item[i].sha1 \in Chunks
  BY <1>1, <1>2, WriterHolds
<1>4. /\ wpc'[c] = "recheck" /\ wtodo'[c] = wtodo[c] \ {i} /\ Marked \subseteq wtodo[c]
      /\ panic = "none"
  BY <1>2, WriterUp DEF UpWriterOK
<1>5. PICK n \in Nat : n = Num(item[i].sha1)
  BY <1>3, NumPositive
<1>6. ASSUME UNCHANGED <<item, bitmap, bitmap_index, copy_mem>>,
             panic' = "bitmap full" \/ (panic' = panic /\ ~ToCopy(item[i]))
      PROVE  UpInv'
  <2>1. Marked' = Marked /\ MarkedBlocks' = MarkedBlocks
    BY <1>2, <1>6, MarksStill DEF tableVars
  <2>2. panic' = "none" => Marked \subseteq wtodo'[c]
    BY <1>4, <1>6 DEF UpInv
  <2>3. UpWriterOK(c)'
    BY <1>2, <1>4, <1>6, <2>1, <2>2, WriterUp DEF UpWriterOK
  <2>4. panic' # "cannot arrive here"
    BY <1>4, <1>6
  <2>. QED BY <1>2, <1>6, <2>3, <2>4, WriterQuiet DEF tableVars
<1>7. ASSUME ToCopy(item[i]), ZeroAreas(c, n) # {},
             item' = [item EXCEPT ![i].start = FindArea(c, n), ![i].cpuid = c],
             bitmap_index' = [bitmap_index EXCEPT ![c] = @ + n],
             copy_mem' = [copy_mem EXCEPT ![c] = @ \o CopiedBlocks(item[i])], panic' = panic
      PROVE  UpInv'
  <2>1. PICK x \in Nat : x = bitmap_index[c] /\ x = FindArea(c, n)
    <3>1. n \in Nat \ {0}
      BY <1>3, <1>5, NumPositive
    <3>. QED BY <1>7, <3>1, FindAreaIsIndex
  <2>2. PICK r : r = [item[i] EXCEPT !.start = x, !.cpuid = c]
    OBVIOUS
  <2>3. /\ r.sha1 = item[i].sha1 /\ r.start = x /\ r.cpuid = c /\ r \in ItemRec
        /\ r.flag_cache = item[i].flag_cache /\ r.mem_style = item[i].mem_style
        /\ r.data = item[i].data /\ r.flag_mem = item[i].flag_mem
    BY <1>3, <2>2 DEF ItemRec
  <2>4. item'[i] = r /\ \A j \in slab : j # i => item'[j] = item[j]
    BY <1>3, <1>7, <2>1, <2>2
  <2>5. /\ item[i].cpuid = -2 /\ item[i].flag_cache = 2 /\ i \in Marked
    BY <1>3, <1>7 DEF ToCopy, Marked
  <2>6. UpItemOK(i) /\ item[i].data = "chunk" /\ CanFree(item[i])
    BY <1>3, <2>5 DEF UpInv, UpItemOK
  <2>7. PICK q \in Seq(Block) : q = file[c] \o copy_mem[c]
    BY ConcatProperties
  <2>8. PICK t : t = BlocksOf(item[i].sha1)
    OBVIOUS
  <2>9. t \in Seq(Block) /\ Len(t) = n
    <3>1. CopiedBlocks(item[i]) = t
      BY <2>6, <2>8 DEF CopiedBlocks
    <3>2. t \in Seq(Block)
      BY <1>3, <3>1, CopiedType
    <3>3. t = [k \in 1 .. n |-> <<item[i].sha1, k>>]
      BY <1>5, <2>8 DEF BlocksOf
    <3>. QED BY <3>2, <3>3
  <2>10. slab' = slab /\ hash_tab' = hash_tab /\ file' = file /\ copy_mem'[c] = copy_mem[c] \o t
    BY <1>2, <1>7, <2>6, <2>8 DEF tableVars, CopiedBlocks
  <2>11. file'[c] \o copy_mem'[c] = q \o t
    <3>1. file[c] \in Seq(Block) /\ copy_mem[c] \in Seq(Block)
      OBVIOUS
    <3>2. (file[c] \o copy_mem[c]) \o t = file[c] \o (copy_mem[c] \o t)
      <4>1. Cat(Cat(file[c], copy_mem[c]), t) = Cat(file[c], Cat(copy_mem[c], t))
        BY <2>9, <3>1, CatAssoc
      <4>. QED BY <4>1 DEF Cat
    <3>. QED BY <2>7, <2>10, <3>2
  <2>12. /\ Len(copy_mem'[c]) = Len(copy_mem[c]) + n /\ Len(copy_mem[c]) \in Nat
         /\ Len(q) = Len(file[c]) + Len(copy_mem[c]) /\ Len(file[c]) \in Nat
    <3>1. file[c] \in Seq(Block) /\ copy_mem[c] \in Seq(Block)
      OBVIOUS
    <3>2. Len(file[c]) \in Nat /\ Len(copy_mem[c]) \in Nat
      BY <3>1, LenProperties
    <3>3. Len(copy_mem[c] \o t) = Len(copy_mem[c]) + Len(t)
      BY <2>9, <3>1, ConcatProperties
    <3>4. Len(file[c] \o copy_mem[c]) = Len(file[c]) + Len(copy_mem[c])
      BY <3>1, ConcatProperties
    <3>. QED BY <2>7, <2>9, <2>10, <3>2, <3>3, <3>4
  <2>13. x = Len(q)
    BY <1>2, <2>1, <2>12, WriterUp DEF UpWriterOK
  <2>14. UpItemOK(i)'
    <3>1. StoredIn(r, q \o t)
      BY <1>3, <2>3, <2>8, <2>13, StoredAtEnd
    <3>2. /\ item'[i].flag_cache = 2 /\ item'[i].data = "chunk" /\ CanFree(item'[i])
          /\ item'[i].flag_mem = item[i].flag_mem /\ item'[i].cpuid = c
      BY <2>3, <2>4, <2>5, <2>6 DEF CanFree
    <3>3. item[i].flag_mem # 1
      BY <2>5, <2>6 DEF UpItemOK
    <3>4. StoredIn(item[i], file[item[i].cpuid] \o copy_mem[item[i].cpuid])'
      BY <2>4, <2>11, <3>1, <3>2
    <3>. QED BY <3>2, <3>3, <3>4 DEF UpItemOK
  <2>15. ASSUME NEW j \in slab, j # i PROVE UpItemOK(j)'
    <3>1. UpItemOK(j) /\ item'[j] = item[j] /\ item[j] \in ItemRec /\ item[j].sha1 \in Chunks
      BY <2>4, <2>15 DEF UpInv
    <3>2. Pins(j)' = Pins(j)
      BY <1>2, PinsStill
    <3>3. InPlace(item[j]) => InPlace(item[j])'
      BY <2>10, <3>1 DEF InPlace, StoredIn
    <3>4. ASSUME OwnsBits(j)
          PROVE  StoredIn(item[j], file[item[j].cpuid] \o copy_mem[item[j].cpuid])'
      <4>1. item[j].cpuid = c
        BY <3>4, OnePlace
      <4>2. StoredIn(item[j], q)
        BY <2>7, <3>1, <3>4, <4>1 DEF UpItemOK
      <4>3. StoredIn(item[j], q \o t)
        BY <2>9, <3>1, <4>2, StoredGrows
      <4>. QED BY <2>11, <3>1, <4>1, <4>3
    <3>. QED BY <3>1, <3>2, <3>3, <3>4 DEF UpItemOK, OwnsBits
  <2>16. c # -2 /\ c \in Nat
    BY SizeAssumption DEF Cpus
  <2>17. Marked' = Marked \ {i}
    BY <2>3, <2>4, <2>10, <2>16 DEF Marked
  <2>18. \A j \in Marked' : ToCopy(item'[j])
    BY <2>4, <2>17 DEF UpInv, Marked
  <2>19. PICK S : S = Marked \ {i}
    OBVIOUS
  <2>20. i \notin S /\ S \cup {i} = Marked
    BY <2>5, <2>19
  <2>21. MarkedBlocks' = Blocks(S)
    <3>1. \A j \in S : item'[j] = item[j]
      BY <2>4, <2>19 DEF Marked
    <3>. QED BY <2>17, <2>19, <3>1 DEF MarkedBlocks, Blocks
  <2>22. /\ IsFiniteSet(MarkedBlocks') /\ Cardinality(MarkedBlocks') \in Nat
         /\ Cardinality(MarkedBlocks) = Cardinality(MarkedBlocks') + n
    <3>1. IsFiniteSet(Blocks(S \cup {i})) /\ MarkedBlocks = Blocks(S \cup {i})
      BY <2>20, MarkedIsBlocks DEF UpInv
    <3>. QED BY <1>5, <2>20, <2>21, <3>1, BlocksOne
  <2>23. all_size'[c] = Len(copy_mem'[c]) + Cardinality(MarkedBlocks')
    <3>1. PICK m \in Nat : m = Cardinality(MarkedBlocks')
      BY <2>22
    <3>2. PICK l \in Nat : l = Len(copy_mem[c])
      BY <2>12
    <3>3. all_size[c] = l + (m + n)
      BY <1>2, <2>22, <3>1, <3>2, WriterUp DEF UpWriterOK
    <3>. QED BY <1>2, <2>12, <3>1, <3>2, <3>3, SMTT(40)
  <2>24. bitmap_index'[c] = Len(file'[c]) + Len(copy_mem'[c])
    <3>1. bitmap_index'[c] = x + n
      BY <1>7, <2>1
    <3>. QED BY <2>10, <2>12, <2>13, <3>1
  <2>25. UpWriterOK(c)'
    <3>1. Marked' \subseteq wtodo'[c]
      BY <1>4, <2>17
    <3>. QED BY <1>4, <2>23, <2>24, <3>1 DEF UpWriterOK
  <2>26. UpHandlerOK(c)'
    BY <1>2, <2>3, <2>4, HandlerKept
  <2>. QED BY <1>2, <1>4, <1>7, <2>10, <2>14, <2>15, <2>18, <2>22, <2>25, <2>26, WriterUp, ZenonT(60) DEF UpInv
<1>. QED BY <1>1, <1>5, <1>6, <1>7 DEF WrCopy

\* A step that changes one item's state and leaves marks and files alone.
LEMMA WriterOne ==
    ASSUME UpPre, NEW c \in Cpus, WriterRuns(c), NEW i \in slab,
           UNCHANGED <<slab, handlerVars, copy_mem, file>>,
           item'[i].sha1 = item[i].sha1, item'[i].cpuid = item[i].cpuid,
           \A j \in slab : j # i => item'[j] = item[j],
           Marked = {}, UpItemOK(i)', UpHandlerOK(c)',
           MarkedBlocks' = MarkedBlocks => UpWriterOK(c)',
           panic' = "none"
    PROVE  UpInv'
<1>. USE UpTypes DEF UpPre
<1>1. Marked' = {}
  BY DEF Marked
<1>2. MarkedBlocks' = MarkedBlocks
  BY <1>1 DEF MarkedBlocks
<1>3. ASSUME NEW j \in slab, j # i PROVE UpItemOK(j)'
  <2>1. UpItemOK(j) /\ Alike(item'[j], item[j])
    BY <1>3, CountsAlike DEF UpInv
  <2>. QED BY <2>1, UpItemFrame, PinsStill
<1>. QED BY <1>1, <1>2, <1>3, WriterUp DEF UpInv

\* kernel_write appends what pass 2 copied, all of what pass 1 counted, or leaves some out.
LEMMA WrWriteUp == ASSUME UpPre, NEW c \in Cpus, WrWrite(c) PROVE UpInv'
<1>. USE UpTypes DEF UpPre
<1>0. PICK n \in 0 .. all_size[c] : file' = [file EXCEPT ![c] = @ \o Written(c, n)]
  BY DEF WrWrite
<1>1. /\ WriterRuns(c) /\ wpc[c] = "write" /\ wpc' = [wpc EXCEPT ![c] = "relock"]
      /\ all_size' = [all_size EXCEPT ![c] = 0] /\ copy_mem' = [copy_mem EXCEPT ![c] = << >>]
      /\ UNCHANGED <<item, tableVars, handlerVars, bitmap_index, panic>>
  BY DEF WrWrite
<1>2. Marked = {} /\ Marked' = Marked /\ MarkedBlocks' = MarkedBlocks /\ MarkedBlocks = {}
  <2>1. Marked = {}
    BY <1>1, WriterUp DEF UpWriterOK
  <2>2. MarkedBlocks = {}
    BY <2>1 DEF MarkedBlocks
  <2>. QED BY <1>1, <2>1, <2>2, MarksStill DEF tableVars
<1>3. PICK f \in Seq(Block) : f = file[c]
  OBVIOUS
<1>4. PICK t \in Seq(Block) : t = copy_mem[c]
  OBVIOUS
<1>5. Len(f) \in Nat /\ Len(t) \in Nat
  BY LenProperties
<1>6. all_size[c] = Len(t) /\ bitmap_index[c] = Len(f) + Len(t)
  <2>1. Cardinality(MarkedBlocks) = 0
    BY <1>2, FS_EmptySet
  <2>. QED BY <1>1, <1>3, <1>4, <1>5, <2>1, WriterUp DEF UpWriterOK
<1>7. PICK u \in Seq(Block) : /\ u = Written(c, n) /\ Len(u) = Len(t)
                             /\ \A k \in 1 .. Len(t) : u[k] \in {t[k], LostBlock}
  <2>1. n \in Nat
    BY <1>5, <1>6
  <2>2. Written(c, n) = [k \in 1 .. Len(t) |-> IF k > n THEN LostBlock ELSE t[k]]
    BY <1>4, <1>5, <1>6, <2>1 DEF Written
  <2>3. Written(c, n) \in [1 .. Len(t) -> Block]
    BY <1>5, <2>2 DEF Block
  <2>4. PICK u : u = Written(c, n)
    OBVIOUS
  <2>5. u \in Seq(Block) /\ Len(u) = Len(t)
    BY <1>5, <2>3, <2>4, Listed
  <2>6. \A k \in 1 .. Len(t) : u[k] \in {t[k], LostBlock}
    BY <2>2, <2>4
  <2>. QED BY <2>4, <2>5, <2>6
<1>8. file'[c] = f \o u /\ copy_mem'[c] = << >> /\ all_size'[c] = 0 /\ wpc'[c] = "relock"
  BY <1>0, <1>1, <1>3, <1>7
<1>9. f \o u \in Seq(Block) /\ Len(f \o u) = Len(f) + Len(t)
  <2>1. f \o u \in Seq(Block) /\ Len(f \o u) = Len(f) + Len(u)
    BY Joined
  <2>. QED BY <1>7, <2>1
<1>10. file'[c] \o copy_mem'[c] = f \o u
  BY <1>8, <1>9, ConcatEmptySeq
<1>11. ASSUME NEW i \in slab PROVE UpItemOK(i)'
  <2>1. UpItemOK(i) /\ item' = item /\ Pins(i)' = Pins(i) /\ item[i].sha1 \in Chunks
        /\ item[i] \in ItemRec
    BY <1>1, PinsStill DEF UpInv
  <2>2. ASSUME OwnsBits(i) PROVE item[i].cpuid = c
    BY <2>2, OnePlace
  <2>3. ASSUME InPlace(item[i]), OwnsBits(i) PROVE InPlace(item[i])'
    <3>1. StoredIn(item[i], f)
      BY <1>3, <2>2, <2>3 DEF InPlace
    <3>2. StoredIn(item[i], f \o u)
      BY <2>1, <3>1, StoredGrows
    <3>. QED BY <1>8, <2>1, <2>2, <2>3, <3>2 DEF InPlace
  <2>4. ASSUME OwnsBits(i)
        PROVE  StoredIn(item[i], file[item[i].cpuid] \o copy_mem[item[i].cpuid])'
    <3>1. StoredIn(item[i], f \o t)
      BY <1>3, <1>4, <2>1, <2>2, <2>4 DEF UpItemOK
    <3>2. StoredIn(item[i], f \o u)
      BY <1>7, <2>1, <3>1, StoredShort
    <3>. QED BY <1>10, <2>1, <2>2, <2>4, <3>2
  <2>. QED BY <2>1, <2>3, <2>4 DEF UpItemOK, OwnsBits
<1>12. UpWriterOK(c)'
  <2>1. Len(copy_mem'[c]) = 0 /\ Cardinality(MarkedBlocks') = 0
    BY <1>2, <1>8, EmptySeq, FS_EmptySet
  <2>2. bitmap_index'[c] = Len(file'[c]) + Len(copy_mem'[c])
    BY <1>1, <1>5, <1>6, <1>8, <1>9, <2>1
  <2>. QED BY <1>2, <1>8, <2>1, <2>2 DEF UpWriterOK
<1>13. UpHandlerOK(c)'
  BY <1>1, HandlerKept
<1>. QED BY <1>1, <1>2, <1>11, <1>12, <1>13, WriterUp DEF UpInv, tableVars

\* Pass 3 evicts an item whose chunk is on file.
LEMMA WrToDiskUp == ASSUME UpPre, NEW c \in Cpus, WrToDisk(c) PROVE UpInv'
<1>. USE UpTypes DEF UpPre
<1>1. PICK i : i = witem[c]
  OBVIOUS
<1>2. /\ WriterRuns(c) /\ wpc[c] = "todisk" /\ item' = [item EXCEPT ![i].flag_cache = 1]
      /\ wpc' = [wpc EXCEPT ![c] = "free"]
      /\ UNCHANGED <<tableVars, handlerVars, wtodo, witem, all_size, copy_mem, diskVars, panic>>
  BY <1>1 DEF WrToDisk
<1>3. i \in slab /\ i \in Items /\ item[i] \in ItemRec
  BY <1>1, <1>2, WriterHolds
<1>4. /\ Marked = {} /\ item[i].flag_cache = 2 /\ Pins(i) = {} /\ copy_mem[c] = << >>
      /\ wpc'[c] = "free" /\ OwnsBits(i) /\ panic' = "none"
  BY <1>1, <1>2, WriterUp DEF UpWriterOK, DiskInv
<1>5. PICK r : r = [item[i] EXCEPT !.flag_cache = 1]
  OBVIOUS
<1>6. /\ r.sha1 = item[i].sha1 /\ r.start = item[i].start /\ r.cpuid = item[i].cpuid
      /\ r.flag_cache = 1 /\ r.mem_style = item[i].mem_style /\ r.flag_mem = item[i].flag_mem
  BY <1>3, <1>5 DEF ItemRec
<1>7. item'[i] = r /\ \A j \in slab : j # i => item'[j] = item[j]
  BY <1>2, <1>3, <1>5
<1>8. UpItemOK(i) /\ CanFree(item[i]) /\ item[i].flag_mem # 1
  <2>1. UpItemOK(i)
    BY <1>3 DEF UpInv
  <2>. QED BY <1>4, <2>1 DEF UpItemOK
<1>9. item[i].cpuid = c
  BY <1>3, <1>4, OnePlace
<1>10. InPlace(item[i])
  <2>1. file[c] \o copy_mem[c] = file[c]
    BY <1>4, ConcatEmptySeq
  <2>. QED BY <1>4, <1>8, <1>9, <2>1 DEF UpItemOK, InPlace
<1>11. UpItemOK(i)'
  <2>1. file' = file /\ copy_mem' = copy_mem
    BY <1>2 DEF diskVars
  <2>2. OwnsBits(i)'
    BY <1>4, <1>6, <1>7 DEF OwnsBits
  <2>3. /\ InPlace(item[i])'
        /\ StoredIn(item[i], file[item[i].cpuid] \o copy_mem[item[i].cpuid])'
    <3>1. StoredIn(item[i], file[item[i].cpuid] \o copy_mem[item[i].cpuid])
      BY <1>4, <1>8 DEF UpItemOK
    <3>. QED BY <1>6, <1>7, <1>10, <2>1, <3>1, StoredKept
  <2>4. item'[i].flag_cache = 1 /\ item'[i].flag_mem # 1
    BY <1>6, <1>7, <1>8
  <2>. QED BY <2>2, <2>3, <2>4 DEF UpItemOK
<1>12. UpHandlerOK(c)'
  BY <1>2, <1>4, <1>7, HandlerKept
<1>13. MarkedBlocks' = MarkedBlocks => UpWriterOK(c)'
  <2>1. CanFree(item'[i])
    BY <1>6, <1>7, <1>8 DEF CanFree
  <2>2. Marked' = {}
    BY <1>2, <1>4, <1>6, <1>7 DEF Marked, tableVars
  <2>. QED BY <1>1, <1>2, <1>4, <1>6, <1>7, <2>1, <2>2, WriterUp DEF UpWriterOK, diskVars
<1>. QED BY <1>2, <1>3, <1>4, <1>6, <1>7, <1>11, <1>12, <1>13, WriterOne DEF tableVars, diskVars

\* The memory that pass 3 frees is there.
LEMMA WrFreeUp == ASSUME UpPre, NEW c \in Cpus, WrFree(c) PROVE UpInv'
<1>. USE UpTypes DEF UpPre
<1>1. PICK i : i = witem[c]
  OBVIOUS
<1>2. /\ WriterRuns(c) /\ wpc[c] = "free" /\ wpc' = [wpc EXCEPT ![c] = "scan"]
      /\ UNCHANGED <<tableVars, handlerVars, all_size, copy_mem, diskVars>>
  BY DEF WrFree
<1>3. i \in slab /\ i \in Items /\ item[i] \in ItemRec
  BY <1>1, <1>2, WriterHolds
<1>4. /\ Marked = {} /\ item[i].flag_cache = 1 /\ CanFree(item[i]) /\ copy_mem[c] = << >>
      /\ wpc'[c] = "scan" /\ panic = "none"
  BY <1>1, <1>2, WriterUp DEF UpWriterOK
<1>5. PICK r : r = FreeData(item[i])
  OBVIOUS
<1>6. item' = [item EXCEPT ![i] = r] /\ panic' = "none"
  BY <1>1, <1>4, <1>5 DEF WrFree
<1>7. /\ r.sha1 = item[i].sha1 /\ r.start = item[i].start /\ r.cpuid = item[i].cpuid
      /\ r.flag_cache = 1 /\ r.flag_mem = item[i].flag_mem
  BY <1>3, <1>4, <1>5 DEF ItemRec, FreeData
<1>8. item'[i] = r /\ \A j \in slab : j # i => item'[j] = item[j]
  BY <1>3, <1>6
<1>9. UpItemOK(i) /\ item[i].flag_mem # 1
  BY <1>3, <1>4 DEF UpInv, UpItemOK
<1>10. UpItemOK(i)'
  <2>1. file' = file /\ copy_mem' = copy_mem
    BY <1>2 DEF diskVars
  <2>2. OwnsBits(i)' /\ OwnsBits(i)
    BY <1>4, <1>7, <1>8, <1>9 DEF OwnsBits, UpItemOK
  <2>3. /\ InPlace(item[i])'
        /\ StoredIn(item[i], file[item[i].cpuid] \o copy_mem[item[i].cpuid])'
    <3>1. /\ InPlace(item[i])
          /\ StoredIn(item[i], file[item[i].cpuid] \o copy_mem[item[i].cpuid])
      BY <1>4, <1>9, <2>2 DEF UpItemOK
    <3>. QED BY <1>7, <1>8, <2>1, <3>1, StoredKept
  <2>4. item'[i].flag_cache = 1 /\ item'[i].flag_mem # 1
    BY <1>7, <1>8, <1>9
  <2>. QED BY <2>2, <2>3, <2>4 DEF UpItemOK
<1>11. UpHandlerOK(c)'
  BY <1>2, <1>4, <1>8, HandlerKept
<1>12. MarkedBlocks' = MarkedBlocks => UpWriterOK(c)'
  <2>1. Marked' = {}
    BY <1>2, <1>4, <1>7, <1>8 DEF Marked, tableVars
  <2>. QED BY <1>2, <1>4, <2>1, WriterUp DEF UpWriterOK, diskVars
<1>. QED BY <1>2, <1>3, <1>4, <1>6, <1>7, <1>8, <1>10, <1>11, <1>12, WriterOne
     DEF tableVars, diskVars

-----------------------------------------------------------------------------
(* The timers and the teardown *)

\* Aging an item leaves its memory and its place alone, and takes an item that is on disk
\* out of no state.
LEMMA AgedUp ==
    ASSUME NEW r \in ItemRec
    PROVE  /\ Aged(r).sha1 = r.sha1 /\ Aged(r).start = r.start /\ Aged(r).cpuid = r.cpuid
           /\ Aged(r).mem_style = r.mem_style /\ Aged(r).data = r.data
           /\ Aged(r).flag_mem = r.flag_mem
           /\ r.flag_cache \in {0, 2, 3} => Aged(r).flag_cache \in {0, 2, 3}
           /\ r.flag_cache \in {1, 4} => Aged(r).flag_cache = r.flag_cache
<1>1. Aged(r).flag_cache = NextFlag(r, r.refcnt - 1)
  BY DEF Aged, ItemRec
<1>2. /\ r.flag_cache \in {0, 2, 3} => NextFlag(r, r.refcnt - 1) \in {0, 2, 3}
      /\ r.flag_cache \in {1, 4} => NextFlag(r, r.refcnt - 1) = r.flag_cache
  BY DEF NextFlag
<1>. QED BY <1>1, <1>2 DEF Aged, ItemRec

\* The memory of an item that nobody references, and that is not on disk only, is there.
LEMMA UnpinnedFreeable ==
    ASSUME UpInv, StoreInv, NEW i \in slab, Pins(i) = {}, FreesMemory(item[i])
    PROVE  CanFree(item[i])
<1>1. UpItemOK(i)
  BY DEF UpInv
<1>. QED BY <1>1 DEF UpItemOK, FreesMemory

\* bucket_clear_item deletes items nobody references and ages the others.
LEMMA BucketClearUp == ASSUME UpPre, NEW b \in Buckets, BucketClear(b) PROVE UpInv'
<1>. USE UpTypes DEF UpPre
<1>1. PICK c \in Cpus : c = Home(b) /\ \A d \in Cpus : d = c
  BY OneCpu
<1>2. panic = "none" /\ ~WriterLocked(c) /\ ~HandlerLocked(c)
  BY <1>1 DEF BucketClear, SoftirqRuns
<1>3. PICK dead : dead = {i \in hash_tab[b] : Expired(item[i])}
  OBVIOUS
<1>4. PICK kept : kept = hash_tab[b] \ dead
  OBVIOUS
<1>5. ASSUME NEW i \in dead
      PROVE  i \in slab /\ Pins(i) = {} /\ (FreesMemory(item[i]) => CanFree(item[i]))
  <2>1. i \in slab /\ item[i].share_ref = 1
    BY <1>3, <1>5 DEF StoreInv, TableInv, Expired
  <2>2. Pins(i) = {}
    BY <2>1, UnsharedUnpinned
  <2>. QED BY <2>1, <2>2, UnpinnedFreeable
<1>6. /\ item' = [i \in Items |-> IF i \in dead THEN FreeItem
                                  ELSE IF i \in kept THEN Aged(item[i]) ELSE item[i]]
      /\ slab' = slab \ dead /\ panic' = panic
      /\ UNCHANGED <<handlerVars, writerVars, bitmap_index, file>>
  BY <1>3, <1>4, <1>5 DEF BucketClear
<1>7. ASSUME NEW i \in slab \ dead
      PROVE  /\ item'[i].sha1 = item[i].sha1 /\ item'[i].start = item[i].start
             /\ item'[i].cpuid = item[i].cpuid /\ item'[i].mem_style = item[i].mem_style
             /\ item'[i].data = item[i].data /\ item'[i].flag_mem = item[i].flag_mem
             /\ item[i].flag_cache \in {0, 2, 3} => item'[i].flag_cache \in {0, 2, 3}
             /\ item[i].flag_cache \in {1, 4} => item'[i].flag_cache = item[i].flag_cache
             /\ item[i].flag_cache \in {0, 1, 2, 3, 4}
  <2>1. item[i] \in ItemRec /\ item'[i] \in {item[i], Aged(item[i])}
    BY <1>6, <1>7
  <2>2. item[i].flag_cache \in {0, 1, 2, 3, 4}
    BY <2>1 DEF ItemRec
  <2>. QED BY <2>1, <2>2, AgedUp
<1>8. ASSUME NEW i \in slab' PROVE UpItemOK(i)' /\ item'[i].cpuid # -2
  <2>1. i \in slab \ dead /\ UpItemOK(i)
    BY <1>6, <1>8 DEF UpInv
  <2>2. item[i].cpuid # -2
    BY <1>2, <2>1, UnmarkedItems
  <2>3. file' = file /\ copy_mem' = copy_mem /\ Pins(i)' = Pins(i)
    BY <1>6, PinsStill DEF writerVars
  <2>4. /\ InPlace(item[i]) => InPlace(item[i])'
        /\ StoredIn(item[i], file[item[i].cpuid] \o copy_mem[item[i].cpuid])
                => StoredIn(item[i], file[item[i].cpuid] \o copy_mem[item[i].cpuid])'
    BY <1>7, <2>1, <2>3, StoredKept
  <2>5. OwnsBits(i)' = OwnsBits(i) /\ CanFree(item'[i]) = CanFree(item[i])
    BY <1>7, <2>1 DEF OwnsBits, CanFree
  <2>6. UpItemOK(i)'
    BY <1>7, <2>1, <2>3, <2>4, <2>5, SMTT(40) DEF UpItemOK
  <2>. QED BY <1>7, <2>1, <2>2, <2>6
<1>9. UpHandlerOK(c)'
  <2>1. HandlerOK(c) /\ UpHandlerOK(c)
    BY DEF StoreInv, HandlerInv, UpInv
  <2>2. UNCHANGED handlerVars
    BY <1>6
  <2>3. ~HandlerLocked(c)'
    BY <1>2, <2>2 DEF HandlerLocked, handlerVars
  <2>4. ASSUME hpc[c] = "hand" PROVE item'[hitem[c]].flag_cache # 1
    <3>1. Holds(c, 0, hitem[c]) /\ 0 \in 0 .. MaxRead
      BY <2>4, SizeAssumption DEF Holds
    <3>2. hitem[c] \in slab \ dead /\ item[hitem[c]].flag_cache # 1
      BY <1>5, <2>1, <2>4, <3>1, PinsHeld DEF HandlerOK, UpHandlerOK
    <3>3. PICK j \in slab \ dead : j = hitem[c] /\ item[j].flag_cache # 1
      BY <3>2
    <3>4. /\ item[j].flag_cache \in {0, 2, 3} => item'[j].flag_cache \in {0, 2, 3}
          /\ item[j].flag_cache \in {1, 4} => item'[j].flag_cache = item[j].flag_cache
          /\ item[j].flag_cache \in {0, 1, 2, 3, 4}
      BY <1>7
    <3>. QED BY <3>3, <3>4
  <2>5. ASSUME NEW k \in Slots, rskb[c][k] # NoItem
        PROVE  /\ item'[rskb[c][k]].flag_cache = 4
               /\ item'[rskb[c][k]].mem_style = item[rskb[c][k]].mem_style
    <3>1. Holds(c, k, rskb[c][k]) /\ k \in 0 .. MaxRead
      BY SizeAssumption DEF Holds, Slots
    <3>2. rskb[c][k] \in slab \ dead /\ item[rskb[c][k]].flag_cache = 4
      BY <1>5, <2>1, <2>5, <3>1, PinsHeld DEF HandlerOK, UpHandlerOK
    <3>. QED BY <1>7, <3>2
  <2>6. ASSUME hpc[c] \in {"copyin", "unpin"} PROVE CanFree(item'[rskb[c][hslot[c]]])
    <3>1. /\ hslot[c] \in Slots /\ rskb[c][hslot[c]] # NoItem
          /\ CanFree(item[rskb[c][hslot[c]]])
      BY <2>1, <2>6 DEF HandlerOK, UpHandlerOK
    <3>. QED BY <2>5, <3>1 DEF CanFree
  <2>. QED BY <2>2, <2>3, <2>4, <2>5, <2>6 DEF UpHandlerOK, handlerVars
<1>. QED BY <1>2, <1>6, <1>8, <1>9, OutsideWriter

\* Steps of the teardown that change no item.
LEMMA IdleUp ==
    ASSUME UpPre, UNCHANGED <<item, slab, hash_tab, handlerVars, writerVars, diskVars, panic>>
    PROVE  UpInv'
<1>. USE UpTypes DEF UpPre
<1>1. Marked' = Marked /\ MarkedBlocks' = MarkedBlocks
  BY MarksStill
<1>2. ASSUME NEW i \in slab PROVE UpItemOK(i)'
  <2>1. UpItemOK(i) /\ Alike(item'[i], item[i]) /\ Pins(i)' = Pins(i)
    BY CountsAlike, PinsStill DEF UpInv
  <2>. QED BY <2>1, UpItemFrame DEF writerVars, diskVars
<1>3. ASSUME NEW c \in Cpus PROVE UpHandlerOK(c)' /\ UpWriterOK(c)'
  <2>1. UpHandlerOK(c) /\ UpWriterOK(c)
    BY DEF UpInv
  <2>2. UpHandlerOK(c)'
    BY <2>1 DEF UpHandlerOK, HandlerLocked, WriterLocked, handlerVars, writerVars
  <2>3. UpWriterOK(c)'
    BY <1>1, <2>1, PinsStill DEF UpWriterOK, writerVars, diskVars
  <2>. QED BY <2>2, <2>3
<1>. QED BY <1>1, <1>2, <1>3 DEF UpInv

\* hash_flush deletes the items of a bucket that no writer walks.
LEMMA FlushBucketUp == ASSUME UpPre, FlushBucket PROVE UpInv'
<1>. USE UpTypes DEF UpPre
<1>1. PICK dead : dead = hash_tab[idx]
  OBVIOUS
<1>2. /\ phase = "flush" /\ Unlocked(idx) /\ idx \in Buckets /\ panic = "none"
      /\ UNCHANGED <<handlerVars, writerVars, diskVars>>
  BY DEF FlushBucket, StoreInv, TypeOK
<1>3. \A i \in Items : Pins(i) = {}
  BY <1>2, ExitUnpinned
<1>4. ASSUME NEW i \in dead PROVE i \in slab /\ (FreesMemory(item[i]) => CanFree(item[i]))
  <2>1. i \in slab
    BY <1>1, <1>2, <1>4 DEF StoreInv, TableInv
  <2>. QED BY <1>3, <2>1, UnpinnedFreeable
<1>5. /\ item' = [i \in Items |-> IF i \in dead THEN FreeItem ELSE item[i]]
      /\ hash_tab' = [hash_tab EXCEPT ![idx] = {}] /\ slab' = slab \ dead /\ panic' = panic
  BY <1>1, <1>4 DEF FlushBucket
<1>6. \A i \in slab \ dead : item'[i] = item[i]
  BY <1>5
<1>7. PICK c \in Cpus : \A d \in Cpus : d = c
  BY OneCpu
<1>8. UpWriterOK(c) /\ WriterOK(c) /\ hpc[c] = "idle" /\ \A k \in Slots : rskb[c][k] = NoItem
  BY <1>2 DEF UpInv, StoreInv, WriterInv, ExitInv
<1>9. WriterLocked(c) => wbkt[c] # idx
  BY <1>2 DEF Unlocked
<1>10. ASSUME NEW i \in Marked PROVE i \notin dead
  <2>1. WriterLocked(c) /\ i \in hash_tab[wbkt[c]]
    <3>1. wpc[c] \in {"sum", "recheck", "copy"}
      BY <1>2, <1>8, <1>10 DEF UpWriterOK
    <3>2. WriterLocked(c)
      BY <3>1 DEF WriterLocked
    <3>. QED BY <1>2, <1>8, <1>10, <3>1, <3>2 DEF UpWriterOK, WriterOK
  <2>2. wbkt[c] \in Buckets /\ wbkt[c] # idx
    BY <1>9, <2>1
  <2>3. i \in slab
    BY <1>10 DEF Marked
  <2>. QED BY <1>1, <1>2, <2>1, <2>2 DEF StoreInv, TableInv
<1>11. Marked' = Marked /\ MarkedBlocks' = MarkedBlocks
  <2>1. Marked' = Marked
    BY <1>5, <1>6, <1>10 DEF Marked
  <2>2. \A i \in Marked : item'[i] = item[i]
    BY <1>6, <1>10 DEF Marked
  <2>. QED BY <2>1, <2>2 DEF MarkedBlocks
<1>12. \A i \in Marked' : ToCopy(item'[i])
  BY <1>6, <1>10, <1>11 DEF UpInv, Marked
<1>13. ASSUME NEW i \in slab' PROVE UpItemOK(i)'
  <2>1. i \in slab /\ UpItemOK(i) /\ Alike(item'[i], item[i]) /\ Pins(i)' = Pins(i)
    BY <1>2, <1>5, <1>6, <1>13, CountsAlike, PinsStill DEF UpInv
  <2>. QED BY <1>2, <2>1, UpItemFrame DEF writerVars, diskVars
<1>14. UpHandlerOK(c)'
  BY <1>2, <1>8 DEF UpHandlerOK, HandlerLocked, handlerVars
<1>15. WriterLocked(c) => hash_tab'[wbkt[c]] = hash_tab[wbkt[c]]
  BY <1>2, <1>5, <1>9
<1>16. ASSUME wpc[c] \in {"todisk", "free"} PROVE item'[witem[c]] = item[witem[c]]
  <2>1. WriterLocked(c) /\ witem[c] \in hash_tab[wbkt[c]] /\ witem[c] \in slab
    BY <1>16, WriterItem DEF WriterLocked
  <2>2. wbkt[c] \in Buckets /\ wbkt[c] # idx
    BY <1>9, <2>1
  <2>3. witem[c] \notin dead
    BY <1>1, <1>2, <2>1, <2>2, ZenonT(60) DEF StoreInv, TableInv
  <2>. QED BY <1>6, <2>1, <2>3
<1>17. UpWriterOK(c)'
  <2>1. wpc[c] = "sum" => WriterLocked(c)
    BY DEF WriterLocked
  <2>. QED BY <1>2, <1>5, <1>8, <1>11, <1>15, <1>16, <2>1, PinsStill DEF UpWriterOK, writerVars, diskVars
<1>. QED BY <1>2, <1>5, <1>7, <1>11, <1>12, <1>13, <1>14, <1>17 DEF UpInv

-----------------------------------------------------------------------------
(* Every step *)

LEMMA UpInit == Init => UpInv
<1> SUFFICES ASSUME Init PROVE UpInv
  OBVIOUS
<1>1. slab = {} /\ panic = "none"
  BY DEF Init
<1>2. Marked = {} /\ MarkedBlocks = {}
  <2>1. Marked = {}
    BY <1>1 DEF Marked
  <2>. QED BY <2>1 DEF MarkedBlocks
<1>3. IsFiniteSet(MarkedBlocks) /\ Cardinality(MarkedBlocks) = 0
  BY <1>2, FS_EmptySet
<1>4. ASSUME NEW c \in Cpus PROVE UpHandlerOK(c) /\ UpWriterOK(c)
  <2>1. /\ hpc[c] = "idle" /\ wpc[c] = "idle" /\ copy_mem[c] = << >> /\ file[c] = << >>
        /\ all_size[c] = 0 /\ bitmap_index[c] = 0 /\ \A k \in Slots : rskb[c][k] = NoItem
    BY DEF Init
  <2>2. UpHandlerOK(c)
    BY <2>1 DEF UpHandlerOK, HandlerLocked
  <2>3. Len(copy_mem[c]) = 0 /\ Len(file[c]) = 0
    BY <2>1, EmptySeq
  <2>4. UpWriterOK(c)
    BY <1>2, <1>3, <2>1, <2>3 DEF UpWriterOK
  <2>. QED BY <2>2, <2>4
<1>. QED BY <1>1, <1>2, <1>3, <1>4 DEF UpInv

LEMMA HandlerStepUp == ASSUME UpPre, NEW c \in Cpus, Handler(c) PROVE UpInv'
BY GetHashItemUp, PinItemUp, MarkReadUp, HandHashUp, AddCheckUp, AddAllocUp, AddLinkUp,
   ReadNextUp, CopyInUp, UnpinUp DEF Handler

LEMMA WriterStepUp == ASSUME UpPre, NEW c \in Cpus, Writer(c) PROVE UpInv'
BY WrStartUp, WrSumUp, WrSumEndUp, WrRecheckUp, WrCopyUp, WrCopyEndUp, WrWriteUp, WrErrorUp, WrRelockUp,
   WrScanUp, WrToDiskUp, WrFreeUp, WrEndUp DEF Writer

LEMMA UpStep == UpPre /\ [Next]_vars => UpInv'
<1> SUFFICES ASSUME UpPre, [Next]_vars PROVE UpInv'
  OBVIOUS
<1>1. CASE UNCHANGED vars
  BY <1>1, IdleUp DEF vars, tableVars
<1>2. ASSUME NEW c \in Cpus, Handler(c) PROVE UpInv'
  BY <1>2, HandlerStepUp
<1>3. ASSUME NEW c \in Cpus, Writer(c) PROVE UpInv'
  BY <1>3, WriterStepUp
<1>4. ASSUME NEW b \in Buckets, BucketClear(b) PROVE UpInv'
  BY <1>4, BucketClearUp
<1>5. CASE FlushBucket
  BY <1>5, FlushBucketUp
<1>6. CASE BeginExit \/ DelTimer \/ Destroy
  <2>1. UNCHANGED <<item, tableVars, handlerVars, writerVars, diskVars, panic>>
    BY <1>6 DEF BeginExit, DelTimer, Destroy
  <2>. QED BY <2>1, IdleUp DEF tableVars
<1>. QED BY <1>1, <1>2, <1>3, <1>4, <1>5, <1>6 DEF Next, Teardown, Stopped

-----------------------------------------------------------------------------
\* On one CPU the invariant of the eviction protocol is never violated, whatever the number
\* of buckets, items and chunks and whatever the limits are.
THEOREM UpInvariant == NumCpus = 1 => (Spec => []UpInv)
<1>. SUFFICES ASSUME NumCpus = 1 PROVE Spec => []UpInv
  OBVIOUS
<1>1. Init => UpInv
  BY UpInit
<1>2. StoreInv /\ RaceInv /\ UpInv /\ [Next]_vars => UpInv'
  BY UpStep DEF UpPre, RaceInv
<1>. QED BY <1>1, <1>2, StoreInvariant, RaceInvariant, PTL DEF Spec

\* On one CPU, the place that an evicted item names in its file holds its chunk: read_data
\* reads back what wr_file wrote, but for blocks that a short write left out.
THEOREM EvictedIsStored == NumCpus = 1 => (Spec => []FileHoldsChunk)
<1>. SUFFICES ASSUME NumCpus = 1 PROVE Spec => []FileHoldsChunk
  OBVIOUS
<1>1. UpInv => FileHoldsChunk
  BY DEF UpInv, UpItemOK, FileHoldsChunk
<1>2. Spec => []UpInv
  BY UpInvariant
<1>. QED BY <1>1, <1>2, PTL

\* On one CPU, pass 2 of wr_file copies no more than pass 1 allocated, no path frees memory
\* that is not there, and a hit that is not to be read from disk is in memory.
THEOREM WriterIsSafe == NumCpus = 1 => (Spec => []WriterSafe)
<1>. SUFFICES ASSUME NumCpus = 1 PROVE Spec => []WriterSafe
  OBVIOUS
<1>1. StoreInv /\ UpInv => WriterSafe
  <2>. SUFFICES ASSUME StoreInv, UpInv PROVE WriterSafe
    OBVIOUS
  <2>. USE UpTypes
  <2>1. ASSUME NEW c \in Cpus PROVE Len(copy_mem[c]) <= all_size[c]
    <3>1. Cardinality(MarkedBlocks) \in Nat
      BY FS_CardinalityType DEF UpInv
    <3>2. Len(copy_mem[c]) \in Nat
      BY LenProperties
    <3>3. all_size[c] = Len(copy_mem[c]) + Cardinality(MarkedBlocks)
      BY DEF UpInv, UpWriterOK
    <3>. QED BY <3>1, <3>2, <3>3
  <2>2. ASSUME NEW c \in Cpus, hpc[c] = "hand", item[hitem[c]].flag_cache # 4
        PROVE  item[hitem[c]].data = "chunk"
    <3>1. hitem[c] \in slab
      BY <2>2 DEF StoreInv, HandlerInv, HandlerOK
    <3>2. item[hitem[c]].flag_cache # 1 /\ UpItemOK(hitem[c])
      BY <2>2, <3>1 DEF UpInv, UpHandlerOK
    <3>3. item[hitem[c]].flag_cache \in 0 .. 4
      BY <3>1 DEF ItemRec
    <3>4. item[hitem[c]].flag_cache \in {0, 2, 3}
      BY <2>2, <3>2, <3>3
    <3>. QED BY <3>2, <3>4 DEF UpItemOK
  <2>. QED BY <2>1, <2>2 DEF WriterSafe, CopyFits, HitInMemory, UpInv
<1>2. Spec => []UpInv
  BY UpInvariant
<1>. QED BY <1>1, <1>2, StoreInvariant, PTL
=============================================================================
