-------------------------------- MODULE Pack --------------------------------
(***************************************************************************)
(* The prototypes pack, winn_pack and tcpre (model/c-skeleton/src) that     *)
(* measure how much of a capture is redundant.  To pack and winn_pack the   *)
(* payloads of its packets are one stream, cut into chunks that go on over  *)
(* packet boundaries; the SHA-1 of each chunk is looked up in a Hashmap and *)
(* entered if it is new.  The two differ in how they find the part points.  *)
(* tcpre looks up the hashes of sampled windows within each packet.         *)
(*                                                                         *)
(* A digest is as good as the bytes it is made from; window hashes are      *)
(* computed afresh (that rolling gives the same is shown in Partition).     *)
(* Every allocation may fail, and realloc may move the block.  What is      *)
(* written past the end of a block is nobody's as far as Slack, to which    *)
(* malloc rounds sizes up; beyond, the heap is damaged.                     *)
(***************************************************************************)
EXTENDS Integers, Sequences, SequencesExt, FiniteSetsExt, Hashmap

CONSTANTS
    Bytes, Payloads,
    chunk_num, step, zero_num, R, Q,
    WINDOW, THRESHOLD,
    LEN,           \* initial size of the remain buffer
    Slack,         \* bytes past a block that belong to nobody
    SHA,           \* bytes of a key
    SHANUM,        \* initial number, and increment, of keys
    KEYNUM,        \* keys tcpre has room for
    UINT,          \* UINT_MAX + 1: what tcpre's compare keeps of a difference
    MaxBytes       \* bound: bytes of payload in the capture file

ASSUME PackAssumption ==
    /\ Bytes \subseteq Int /\ Payloads \subseteq Seq(Bytes)
    /\ chunk_num \in Nat \ {0, 1} /\ step \in Nat /\ zero_num \in Nat
    /\ WINDOW \in Nat \ {0} /\ THRESHOLD \in Nat \ {0} /\ SHANUM \in Nat \ {0}
    /\ KEYNUM \in Nat /\ UINT \in Nat \ {0} /\ SHA \in Nat \ {0}
    /\ LEN \in Nat \ {0} /\ Slack \in Nat

VARIABLES
    prog,                          \* "pack", "winn_pack" or "tcpre"
    pc,
    freed,                         \* main has freed its buffer in the middle of the loop
    playload, part, i,             \* the packet, its part points, the next of them
    delay_time,
    remain,                        \* remain_data: content (up to end), limit, allocated size,
                                   \* bytes written past the block so far
    kv,                            \* the keyvalue key: its keys, capacity, size of the block
                                   \* and how often the block has moved
    map,
    save_len, sum_len,
    tcpre,                         \* its map, reindex and recount; found: where in the last
                                   \* line it has counted a block
    stream, out, oom               \* history: all bytes accepted, all chunks hashed,
                                   \* an allocation has failed
cutVars == <<playload, part, i, delay_time>>
mapVars == <<kv, map>>
vars == <<prog, pc, freed, cutVars, remain, mapVars, save_len, sum_len, tcpre, stream, out, oom>>

-----------------------------------------------------------------------------
(* Part points; positions count from 0 as in the code *)

At(p, pos) == p[pos + 1]
Slice(p, begin, end) == SubSeq(p, begin + 1, end + 1)

pack_hash(w) == FoldLeft(LAMBDA h, c : (R * h + c) % Q, 0, w)
txthash(p, pos) == pack_hash(Slice(p, pos - chunk_num + 1, pos))

check_data_point(p, pos) == At(p, pos - 1) - At(p, pos) \in {-1, 0, 1}

Positions(p) == [k \in 1 .. Len(p) - chunk_num + 1 |-> chunk_num - 2 + k]

\* pack: a point where the hash ends in zeros or two neighbours are alike, but not within
\* step positions after the last one; delay_time lives on to the next packet.
pack_calculate_part(p) ==
    FoldLeft(LAMBDA w, pos :
                IF w.delay # 0 THEN [w EXCEPT !.delay = @ - 1]
                ELSE IF txthash(p, pos) % 2 ^ zero_num = 0 \/ check_data_point(p, pos)
                     THEN [index |-> Append(w.index, pos), delay |-> step]
                     ELSE w,
             [index |-> << >>, delay |-> delay_time], Positions(p))

\* winn_pack: the last greatest hash of each whole window of the packet, if it is far
\* enough from the last point.
NewWindow == [window |-> WINDOW, min_index |-> 0, min_hash |-> 0]
winn_calculate_part_Near(p) ==
    FoldLeft(LAMBDA w, pos :
                LET best == IF txthash(p, pos) >= w.win.min_hash
                            THEN [w.win EXCEPT !.min_index = pos, !.min_hash = txthash(p, pos)]
                            ELSE w.win
                    far == w.index = << >> \/ best.min_index # Last(w.index)
                IN IF best.window > 1
                   THEN [w EXCEPT !.win = [best EXCEPT !.window = @ - 1]]
                   ELSE [index |-> IF far THEN Append(w.index, best.min_index) ELSE w.index,
                         win |-> NewWindow],
             [index |-> << >>, win |-> NewWindow], Positions(p))
winn_calculate_part(p) ==
    FoldLeft(LAMBDA w, pos :
                LET best == IF txthash(p, pos) >= w.win.min_hash
                            THEN [w.win EXCEPT !.min_index = pos, !.min_hash = txthash(p, pos)]
                            ELSE w.win
                    far == w.index = << >> \/ best.min_index - Last(w.index) >= THRESHOLD
                IN IF best.window > 1
                   THEN [w EXCEPT !.win = [best EXCEPT !.window = @ - 1]]
                   ELSE [index |-> IF far THEN Append(w.index, best.min_index) ELSE w.index,
                         win |-> NewWindow],
             [index |-> << >>, win |-> NewWindow], Positions(p))

-----------------------------------------------------------------------------
(* chunk.c: the data that remain from earlier packets *)

Past(n, size) == Max({0, n - size})

\* chunk_merge; the new limit is one less than what will be there, and set even if realloc
\* then fails and nothing is merged.  What realloc has added is zeroed, one byte more than
\* will be copied to it.
chunk_merge_Data(data) ==
    LET n == Len(remain.content) + Len(data) IN
    IF Len(data) - 1 > remain.limit
    THEN {[content |-> remain.content \o data, limit |-> n - 1, size |-> n - 1,
           over |-> Max({remain.over, Past(n + 1, n - 1)})],
          [remain EXCEPT !.limit = n - 1]}
    ELSE {[remain EXCEPT !.content = @ \o data, !.over = Max({@, Past(n, remain.size)})]}
chunk_merge(data) ==
    LET n == Len(remain.content) + Len(data) IN
    IF n - 1 > remain.limit
    THEN {[content |-> remain.content \o data, limit |-> n - 1, size |-> n - 1,
           over |-> Max({remain.over, Past(n + 1, n - 1)})],
          [remain EXCEPT !.limit = n - 1]}
    ELSE {[remain EXCEPT !.content = @ \o data, !.over = Max({@, Past(n, remain.size)})]}

chunk_clean(ck) == [ck EXCEPT !.content = << >>]

\* chunk_store copies whatever the size of the block.
chunk_store(ck, data) ==
    [ck EXCEPT !.content = data, !.over = Max({@, Past(Len(data), ck.size)})]

-----------------------------------------------------------------------------
(* keyvalue.c, and the Hashmap whose keys point into it *)

Dangling(key) == key.moves # kv.moves

\* keyvalue_push expands when the last place is taken.  The capacity, which is in bytes and
\* multiplied by the bytes of a key once more, grows even if realloc then fails.
keyvalue_push(digest) ==
    LET keys == Append(kv.keys, digest)
        grown == [kv EXCEPT !.keys = keys, !.capacity = @ + SHANUM]
        more == [grown EXCEPT !.size = SHA * grown.capacity]
    IN IF Len(keys) < kv.capacity
       THEN {[ok |-> TRUE, kv |-> [kv EXCEPT !.keys = keys]]}
       ELSE {[ok |-> TRUE, kv |-> more], [ok |-> TRUE, kv |-> [more EXCEPT !.moves = @ + 1]],
             [ok |-> FALSE, kv |-> grown]}

Hashmap_mode_hash(digest) == FoldLeft(LAMBDA h, c : (10 * h + c) % BUCKETS_LEN, 0, digest)

\* Hashmap_mode_compare reads the key through its pointer; what it makes of one that
\* dangles is anybody's guess.
Compare_Length(key, digest) == ~Dangling(key) /\ Len(kv.keys[key.idx]) = Len(digest)
Compare(key, digest) == ~Dangling(key) /\ kv.keys[key.idx] = digest
Finds(digest) ==
    {Hashmap_get(map, Hashmap_mode_hash(digest),
                 {key \in Keys(map) : Compare(key, digest) \/ (guess /\ Dangling(key))}) # NULL :
        guess \in BOOLEAN}

\* The chunk is hashed and looked up, and entered if it is not found; ok: goes on.  Nobody
\* looks at Hashmap_set's result.  lack: memory has run out before.
Enter(chunk, ok, lack) ==
    /\ out' = Append(out, chunk)
    /\ \E found \in Finds(chunk) :
         \/ /\ found /\ ok
            /\ save_len' = IF pc = "sha" THEN save_len + Len(chunk) ELSE save_len
            /\ oom' = lack
            /\ UNCHANGED mapVars
         \/ /\ ~found /\ ok
            /\ \E push \in keyvalue_push(chunk) :
                 /\ push.ok
                 /\ kv' = push.kv
                 /\ LET key == [moves |-> push.kv.moves, idx |-> Len(push.kv.keys)] IN
                    \E set \in Hashmap_set(map, Hashmap_mode_hash(chunk), key, key) :
                        map' = set.map /\ oom' = (lack \/ set.oom)
            /\ UNCHANGED save_len
         \/ /\ ~found /\ ~ok
            /\ \E push \in keyvalue_push(chunk) : ~push.ok /\ kv' = push.kv
            /\ oom' = TRUE
            /\ UNCHANGED <<map, save_len>>

-----------------------------------------------------------------------------
(* printPcap *)

\* A packet that is not too small is cut.
PackPacket(p) ==
    /\ prog = "pack"
    /\ LET w == pack_calculate_part(p) IN part' = w.index /\ delay_time' = w.delay
WinnPacket(p) ==
    /\ prog = "winn_pack"
    /\ part' = winn_calculate_part(p).index
    /\ UNCHANGED delay_time

\* A turn of main's loop.  When the file ends within a packet the buffer is freed and then
\* read all the same: printPcap finds any payload in it, and the loop ends.
Packet ==
    /\ prog # "tcpre" /\ pc = "read" /\ ~freed
    /\ freed' \in BOOLEAN
    /\ \E p \in Payloads :
         /\ Len(stream) + Len(p) <= MaxBytes
         /\ \/ /\ Len(p) < chunk_num
               /\ UNCHANGED <<pc, cutVars, stream>>
            \/ /\ Len(p) >= chunk_num
               /\ PackPacket(p) \/ WinnPacket(p)
               /\ playload' = p /\ i' = 1 /\ pc' = "sha"
               /\ stream' = stream \o p
    /\ UNCHANGED <<prog, tcpre, remain, mapVars, save_len, sum_len, out, oom>>

\* printPcap after pack_SHA.
Packed == pc' = "read" /\ sum_len' = sum_len + Len(playload)

-----------------------------------------------------------------------------
(* pack_SHA *)

\* No part point: everything remains.
NoPoint ==
    /\ pc = "sha" /\ part = << >>
    /\ remain' \in chunk_merge(playload)
    /\ oom' = (oom \/ remain'.content = remain.content)
    /\ Packed
    /\ UNCHANGED <<prog, tcpre, freed, cutVars, mapVars, save_len, stream, out>>

\* The first chunk begins with what remained, the others in the packet.  When a key
\* cannot be entered the rest of the packet is passed over.
FirstPoint ==
    /\ pc = "sha" /\ i = 1 /\ part # << >>
    /\ \E ck \in chunk_merge(Slice(playload, 0, part[1])), ok \in BOOLEAN :
         /\ Enter(ck.content, ok, oom \/ ck.content = remain.content)
         /\ remain' = chunk_clean(ck)
         /\ IF ok THEN i' = 2 /\ UNCHANGED <<pc, sum_len>> ELSE Packed /\ UNCHANGED i
    /\ UNCHANGED <<prog, tcpre, freed, playload, part, delay_time, stream>>

NextPoint ==
    /\ pc = "sha" /\ i > 1 /\ i <= Len(part)
    /\ \E ok \in BOOLEAN :
         /\ Enter(Slice(playload, part[i - 1] + 1, part[i]), ok, oom)
         /\ IF ok THEN i' = i + 1 /\ UNCHANGED <<pc, sum_len>> ELSE Packed /\ UNCHANGED i
    /\ UNCHANGED <<prog, tcpre, freed, playload, part, delay_time, remain, stream>>

\* What comes after the last point remains.
Rest_FromPoint == Slice(playload, Last(part), Len(playload) - 1)
Rest == Slice(playload, Last(part) + 1, Len(playload) - 1)
StoreRest ==
    /\ pc = "sha" /\ part # << >> /\ i > Len(part)
    /\ remain' = IF Last(part) # Len(playload) - 1 THEN chunk_store(remain, Rest) ELSE remain
    /\ Packed
    /\ UNCHANGED <<prog, tcpre, freed, cutVars, mapVars, save_len, stream, out, oom>>

pack_SHA == NoPoint \/ FirstPoint \/ NextPoint \/ StoreRest

\* winn_pack has a copy of pack_SHA of its own that logs less.
winn_SHA == prog = "winn_pack" /\ pack_SHA

-----------------------------------------------------------------------------
(* The end of main *)

\* The label error of main frees the buffer, be it freed already.
Cleanup == IF freed THEN {"done", "crashed"} ELSE {"done"}

\* remain_SHA takes what remains, be it nothing, for a chunk, and does not look whether
\* keyvalue_push gave it a key.
remain_SHA ==
    /\ pc = "read" /\ prog # "tcpre"
    /\ \E ok \in BOOLEAN :
         /\ Enter(remain.content, ok, oom)
         /\ pc' \in IF ok THEN Cleanup ELSE {"crashed"}
    /\ remain' = chunk_clean(remain)
    /\ UNCHANGED <<prog, tcpre, freed, cutVars, sum_len, stream>>

\* A damaged heap may stop the program at any time.
HeapDamaged ==
    /\ pc \in {"read", "sha"} /\ remain.over > Slack
    /\ pc' = "crashed"
    /\ UNCHANGED <<prog, tcpre, freed, cutVars, remain, mapVars, save_len, sum_len, stream, out, oom>>

Done == pc \in {"done", "failed", "crashed"} /\ UNCHANGED vars

-----------------------------------------------------------------------------
(* tcpre *)

\* Hashmap_mode_compare returns the difference of two hashes as an int.
tcpre_compare(a, b) == (a - b) % UINT = 0
tcpre_mode_hash(h) == h % BUCKETS_LEN

\* calculate_hash: a window whose hash ends in zeros is looked up.  The bytes compared
\* and stored with it are, but for the first window, those one place before it.  After
\* a match the next chunk_num windows are passed over.
StartOf(pos) == IF pos = chunk_num - 1 THEN 0 ELSE pos - chunk_num
tcpre_Matched_Short(w, pos) ==
    [w EXCEPT !.recount = @ + 1, !.delay = chunk_num - 1, !.found = @ \cup {StartOf(pos)}]
tcpre_Matched(w, pos) ==
    [w EXCEPT !.recount = @ + 1, !.delay = chunk_num, !.found = @ \cup {StartOf(pos)}]
tcpre_Insert(w, h, block) ==
    IF w.reindex < KEYNUM
    THEN {[w EXCEPT !.map = set.map, !.reindex = IF set.ok THEN @ + 1 ELSE @,
                    !.error = ~set.ok, !.oom = @ \/ set.oom] :
             set \in Hashmap_set(w.map, tcpre_mode_hash(h), h, block)}
    ELSE {[w EXCEPT !.error = TRUE]}
tcpre_Lookup(w, p, pos) ==
    LET h == txthash(p, pos)
        block == Slice(p, StartOf(pos), StartOf(pos) + chunk_num - 1)
        data == Hashmap_get(w.map, tcpre_mode_hash(h),
                            {key \in Keys(w.map) : tcpre_compare(key, h)})
    IN CASE data = NULL -> tcpre_Insert(w, h, block)
         [] data = block -> {tcpre_Matched(w, pos)}
         [] OTHER -> {w}
tcpre_Window(w, p, pos) ==
    IF w.error THEN {w}
    ELSE IF w.delay # 0 THEN {[w EXCEPT !.delay = @ - 1]}
    ELSE IF txthash(p, pos) % 2 ^ zero_num # 0 THEN {w}
    ELSE tcpre_Lookup(w, p, pos)
calculate_hash(p) ==
    FoldLeft(LAMBDA W, pos : UNION {tcpre_Window(w, p, pos) : w \in W},
             {[map |-> tcpre.map, reindex |-> tcpre.reindex, recount |-> tcpre.recount,
               found |-> {}, delay |-> 0, error |-> FALSE, oom |-> oom]},
             Positions(p))

\* One line of read_file; tcpre ends when there is no room for another key.
read_file ==
    /\ prog = "tcpre" /\ pc = "read"
    /\ \E p \in Payloads :
         /\ sum_len + Len(p) <= MaxBytes
         /\ sum_len' = sum_len + Len(p)
         /\ \/ Len(p) < chunk_num /\ UNCHANGED <<pc, tcpre, oom>>
            \/ /\ Len(p) >= chunk_num
               /\ \E w \in calculate_hash(p) :
                    /\ tcpre' = [map |-> w.map, reindex |-> w.reindex, recount |-> w.recount,
                                 found |-> w.found]
                    /\ pc' = IF w.error THEN "failed" ELSE pc
                    /\ oom' = w.oom
    /\ UNCHANGED <<prog, freed, cutVars, remain, mapVars, save_len, stream, out>>

\* main: the map before, and what is left to do at the end of the file.
TcpreStart == tcpre = [map |-> Hashmap_create, reindex |-> 0, recount |-> 0, found |-> {}]
TcpreEnd ==
    /\ prog = "tcpre" /\ pc = "read"
    /\ pc' = "done"
    /\ UNCHANGED <<prog, freed, cutVars, remain, mapVars, save_len, sum_len, tcpre, stream, out, oom>>

Init ==
    /\ prog \in {"pack", "winn_pack", "tcpre"}
    /\ pc = "read" /\ freed = FALSE /\ playload = << >> /\ part = << >> /\ i = 1 /\ delay_time = 0
    /\ remain = [content |-> << >>, limit |-> LEN, size |-> LEN, over |-> 0]
    /\ kv = [keys |-> << >>, capacity |-> SHANUM, size |-> SHANUM, moves |-> 0]
    /\ map = Hashmap_create
    /\ save_len = 0 /\ sum_len = 0
    /\ TcpreStart
    /\ stream = << >> /\ out = << >> /\ oom = FALSE

Next ==
    \/ Packet
    \/ (prog = "pack" /\ pack_SHA) \/ winn_SHA
    \/ remain_SHA
    \/ HeapDamaged
    \/ read_file \/ TcpreEnd
    \/ Done

Spec == Init /\ [][Next]_vars

-----------------------------------------------------------------------------
(* Properties *)

\* Every variable keeps its type.
TypeOK ==
    /\ prog \in {"pack", "winn_pack", "tcpre"} /\ pc \in {"read", "sha", "done", "failed", "crashed"}
    /\ playload \in Payloads \cup {<< >>} /\ part \in Seq(Nat) /\ i \in Nat \ {0}
    /\ delay_time \in 0 .. step /\ freed \in BOOLEAN
    /\ remain.content \in Seq(Bytes) /\ {remain.limit, remain.size, remain.over} \subseteq Nat
    /\ kv.keys \in Seq(Seq(Bytes)) /\ {kv.capacity, kv.size, kv.moves} \subseteq Nat
    /\ save_len \in Nat /\ sum_len \in Nat /\ tcpre.reindex \in 0 .. KEYNUM

\* What of the packet at hand is neither hashed nor among the remaining data.
InHand ==
    CASE pc = "sha" /\ i = 1 -> playload
      [] pc = "sha" /\ i > 1 -> Slice(playload, part[i - 1] + 1, Len(playload) - 1)
      [] OTHER -> << >>

\* Nothing has gone wrong that the code does not look at: no allocation has failed, and what
\* was written past the remaining data's block was nobody's.
Intact == ~oom /\ remain.over <= Slack

\* Unless realloc fails, what is written past the block of the remaining data is at most the
\* two bytes that chunk_merge reckons too few, or what the rest of a single packet exceeds
\* the initial block by, which chunk_store does not check, however many packets without a
\* part point are merged; and the keys fit their block.
RemainFits ==
    ~oom => /\ remain.over <= Max({2} \cup {Len(p) - chunk_num - LEN : p \in Payloads})
            /\ Len(kv.keys) <= kv.size

\* The chunks are the stream: over packet boundaries no byte is lost, doubled or moved by
\* chunk_merge and chunk_store, nor between the part points of one packet.
Conserved == Intact => FlattenSeq(out) \o remain.content \o InHand = stream

\* Chunks are as long as step (or THRESHOLD) is there to make them, also those that go on
\* from one packet to the next; only the last one may be shorter.
LongEnough(n) ==
    IF prog = "pack" THEN IF n = 1 THEN chunk_num ELSE step + 1
    ELSE Min({chunk_num, THRESHOLD})
ChunksLong ==
    Intact => \A n \in 1 .. Len(out) : n < Len(out) \/ pc \notin {"done", "crashed"} =>
                Len(out[n]) >= LongEnough(n)

\* save_len counts exactly the chunks that have come before, as long as the keys have not
\* been moved from under the Hashmap: that is, for the first SHANUM different chunks.
Repeated == {n \in 1 .. Len(out) : \E k \in 1 .. n - 1 : out[k] = out[n]}
SavedExact ==
    kv.moves = 0 /\ Intact =>
        LET counted == IF pc \in {"done", "crashed"} THEN Repeated \ {Len(out)} ELSE Repeated
        IN save_len = FoldSet(LAMBDA n, t : t + Len(out[n]), 0, counted)

\* Unless memory runs out, the Hashmap finds each of its keys, and still does after any one
\* of them has been deleted, which then is not found; every bucket has a place allocated for
\* the next push, also when DArray_contract fails.  The keys dangle only after SHANUM of them
\* have been pushed.
Equal(m, d) == {key \in Keys(m) : Compare(key, d)}
Found(m, d) == Hashmap_get(m, Hashmap_mode_hash(d), Equal(m, d)) # NULL
Roomy(m) == \A b \in DOMAIN m : m[b] # NULL => DArray_end(m[b]) < Min({m[b].max, m[b].size})
MapFinds ==
    /\ \A node \in Hashmap_traverse(map) : Dangling(node.key) => Len(kv.keys) >= SHANUM
    /\ Intact => Roomy(map) /\ Roomy(tcpre.map)
    /\ kv.moves = 0 /\ Intact => \A d \in ToSet(kv.keys) :
            /\ Found(map, d)
            /\ \A m \in Hashmap_delete(map, Hashmap_mode_hash(d), Equal(map, d)) :
                 /\ ~Found(m, d) /\ Roomy(m)
                 /\ \A e \in ToSet(kv.keys) \ {d} : Found(m, e)

\* tcpre never counts a byte twice: the blocks of a line that it has found again, chunk_num
\* bytes each, are disjoint although all but the first start one place before the window
\* that was hashed, and lie in what it has read, so the result of main is not negative.
NoDoubleCount ==
    /\ \A a, b \in tcpre.found : a < b => a + chunk_num <= b
    /\ chunk_num * tcpre.recount <= sum_len
=============================================================================
