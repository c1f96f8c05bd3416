-------------------------- MODULE LifecycleProofs --------------------------
(***************************************************************************)
(* TLAPS proofs about Lifecycle, for every number of CPUs and of slab       *)
(* caches.  LoadInv is inductive; NoBadRelease, Leftovers and TypeOK follow *)
(* from it.  The orders in which minit acquires and the labels and mexit    *)
(* release are concatenations of blocks; of each we need the set of its     *)
(* members and which of two comes first.                                    *)
(***************************************************************************)
EXTENDS Lifecycle, ProofLib

-----------------------------------------------------------------------------
(* Sequences *)

\* Any resource, of this module or not, and hash_flush.
OneNames == {"skb_wq", "writeread_wq", "hash_tab", "bucket_clear", "hash_cachep", "timers",
             "nf_out", "nf_in", "sha1", "jprobe", "hash_flush"}
ManyNames == {"reserve_file", "slab", "bitmap"}
Things == (OneNames \cup ManyNames) \X Nat

\* s lists X, and any two of its elements in an order R allows.
Block(s, X, R) ==
    /\ s \in Seq(Things) /\ ToSet(s) = X
    /\ \A j, k \in 1 .. Len(s) : j < k => <<s[j], s[k]>> \in R

LEMMA BlockEmpty == ASSUME NEW R PROVE Block(<< >>, {}, R)
<1>1. << >> \in Seq(Things) /\ Len(<< >>) = 0
  BY EmptySeq
<1>. QED BY <1>1 DEF Block, ToSet

LEMMA BlockOne == ASSUME NEW x \in Things, NEW R PROVE Block(<<x>>, {x}, R)
BY DEF Block, ToSet

LEMMA SetOfConcat ==
    ASSUME NEW S, NEW s \in Seq(S), NEW t \in Seq(S)
    PROVE  ToSet(s \o t) = ToSet(s) \cup ToSet(t)
<1>1. ASSUME NEW x \in ToSet(s) PROVE x \in ToSet(s \o t)
  <2>1. PICK i \in DOMAIN s : x = s[i]
    BY DEF ToSet
  <2>2. i \in DOMAIN (s \o t) /\ (s \o t)[i] = s[i]
    BY <2>1
  <2>. QED BY <2>1, <2>2 DEF ToSet
<1>2. ASSUME NEW x \in ToSet(t) PROVE x \in ToSet(s \o t)
  <2>1. PICK i \in DOMAIN t : x = t[i]
    BY DEF ToSet
  <2>2. i + Len(s) \in DOMAIN (s \o t) /\ (s \o t)[i + Len(s)] = t[i]
    BY <2>1
  <2>. QED BY <2>1, <2>2 DEF ToSet
<1>3. ASSUME NEW x \in ToSet(s \o t) PROVE x \in ToSet(s) \cup ToSet(t)
  <2>1. PICK i \in DOMAIN (s \o t) : x = (s \o t)[i]
    BY DEF ToSet
  <2>2. CASE i \in DOMAIN s
    BY <2>1, <2>2 DEF ToSet
  <2>3. CASE i \notin DOMAIN s
    <3>1. i - Len(s) \in DOMAIN t /\ (s \o t)[i] = t[i - Len(s)]
      BY <2>1, <2>3
    <3>. QED BY <2>1, <3>1 DEF ToSet
  <2>. QED BY <2>2, <2>3
<1>. QED BY <1>1, <1>2, <1>3

LEMMA BlockConcat ==
    ASSUME NEW s, NEW t, NEW X, NEW Y, NEW R, Block(s, X, R), Block(t, Y, R),
           \A x \in X, y \in Y : <<x, y>> \in R
    PROVE  Block(s \o t, X \cup Y, R)
<1>1. s \in Seq(Things) /\ t \in Seq(Things) /\ ToSet(s) = X /\ ToSet(t) = Y
  BY DEF Block
<1>2. s \o t \in Seq(Things) /\ ToSet(s \o t) = X \cup Y
  BY <1>1, SetOfConcat
<1>3. ASSUME NEW j \in 1 .. Len(s \o t), NEW k \in 1 .. Len(s \o t), j < k
      PROVE  <<(s \o t)[j], (s \o t)[k]>> \in R
  <2>0. Len(s) \in Nat /\ j \in Nat /\ k \in Nat
    BY <1>1, <1>2, LenProperties
  <2>1. CASE k <= Len(s)
    <3>1. j \in 1 .. Len(s) /\ k \in 1 .. Len(s) /\ (s \o t)[j] = s[j] /\ (s \o t)[k] = s[k]
      BY <1>1, <1>3, <2>1
    <3>. QED BY <3>1, <1>3 DEF Block
  <2>2. CASE j <= Len(s) /\ k > Len(s)
    <3>1. j \in DOMAIN s /\ k - Len(s) \in DOMAIN t
            /\ (s \o t)[j] = s[j] /\ (s \o t)[k] = t[k - Len(s)]
      BY <1>1, <1>3, <2>2
    <3>2. s[j] \in X /\ t[k - Len(s)] \in Y
      BY <3>1, <1>1 DEF ToSet
    <3>. QED BY <3>1, <3>2
  <2>3. CASE j > Len(s)
    <3>1. PICK a, b : a = j - Len(s) /\ b = k - Len(s)
      OBVIOUS
    <3>2. a \in 1 .. Len(t) /\ b \in 1 .. Len(t) /\ a < b
            /\ (s \o t)[j] = t[a] /\ (s \o t)[k] = t[b]
      BY <1>1, <1>3, <2>3, <3>1
    <3>. QED BY <3>2 DEF Block
  <2>4. k <= Len(s) \/ (j <= Len(s) /\ k > Len(s)) \/ j > Len(s)
    BY <2>0
  <2>. QED BY <2>1, <2>2, <2>3, <2>4
<1>. QED BY <1>2, <1>3 DEF Block

-----------------------------------------------------------------------------
(* The orders of Lifecycle *)

FileSet == {File(c) : c \in 1 .. NumCpus}
CacheSet == {Cache(n) : n \in 1 .. NumCaches[module]}
BitmapSet == {Bitmap(c) : c \in 1 .. NumCpus}
Queue == IF module = "wspack" THEN {One("writeread_wq")} ELSE {}

\* The sets behind Table, ReleaseTable and AllocOrder.
TableSet == Queue \cup {One("hash_tab"), One("bucket_clear"), One("hash_cachep"), One("timers")}
ReleaseSet == Queue \cup {One("hash_flush"), One("timers"), One("hash_cachep"), One("hash_tab")}
AllocSet ==
    IF module = "wspack"
    THEN {One("skb_wq")} \cup FileSet \cup CacheSet \cup BitmapSet \cup TableSet
            \cup {One("nf_out"), One("nf_in"), One("sha1"), One("jprobe")}
    ELSE CacheSet \cup TableSet \cup {One("nf_out"), One("sha1")}

\* Where the parts of AllocOrder come in it.
Rank(name) ==
    CASE name = "skb_wq"       -> 1
      [] name = "reserve_file" -> 2
      [] name = "slab"         -> 3
      [] name = "bitmap"       -> 4
      [] name = "writeread_wq" -> 5
      [] name = "hash_tab"     -> 6
      [] name = "bucket_clear" -> 7
      [] name = "hash_cachep"  -> 8
      [] name = "timers"       -> 9
      [] name = "nf_out"       -> 10
      [] name = "nf_in"        -> 11
      [] name = "sha1"         -> 12
      [] OTHER                 -> 13
Earlier(x, y) == Rank(x[1]) < Rank(y[1]) \/ (x[1] = y[1] /\ x[2] < y[2])

AllocRel == {p \in Things \X Things : Earlier(p[1], p[2])}
FreeRel == {p \in Things \X Things : InOrder(p[1], p[2])}

\* The resources that come in numbers; R is AllocRel or FreeRel.
LEMMA ManyBlock ==
    ASSUME NEW name \in ManyNames, NEW n \in Nat,
           NEW R \in {AllocRel, FreeRel}
    PROVE  Block([c \in 1 .. n |-> <<name, c>>], {<<name, c>> : c \in 1 .. n}, R)
<1>1. PICK s : s = [c \in 1 .. n |-> <<name, c>>]
  OBVIOUS
<1>2. \A c \in 1 .. n : <<name, c>> \in Things /\ s[c] = <<name, c>>
  BY <1>1 DEF Things
<1>3. s \in Seq(Things) /\ Len(s) = n /\ DOMAIN s = 1 .. n
  <2>1. s \in [1 .. n -> Things]
    BY <1>1, <1>2
  <2>. QED BY <1>1, <2>1
<1>4. ToSet(s) = {<<name, c>> : c \in 1 .. n}
  BY <1>2, <1>3 DEF ToSet
<1>5. ASSUME NEW j \in 1 .. n, NEW k \in 1 .. n, j < k
      PROVE  <<<<name, j>>, <<name, k>>>> \in R
  <2>1. Earlier(<<name, j>>, <<name, k>>) /\ InOrder(<<name, j>>, <<name, k>>)
    BY <1>5 DEF Earlier, InOrder, One, ManyNames
  <2>. QED BY <1>2, <2>1 DEF AllocRel, FreeRel
<1>6. \A j, k \in 1 .. n : j < k => <<s[j], s[k]>> \in R
  BY <1>2, <1>5
<1>. QED BY <1>1, <1>3, <1>4, <1>6 DEF Block

LEMMA PartBlocks ==
    ASSUME NEW R \in {AllocRel, FreeRel}, module \in {"wspack", "send"}
    PROVE  Block(Files, FileSet, R) /\ Block(Caches, CacheSet, R) /\ Block(Bitmaps, BitmapSet, R)
<1>1. NumCpus \in Nat /\ NumCaches["wspack"] \in Nat /\ NumCaches["send"] \in Nat
  BY LifecycleAssumption
<1>2. Block(Files, FileSet, R)
  BY <1>1, ManyBlock DEF Files, FileSet, File, ManyNames
<1>3. Block(Bitmaps, BitmapSet, R)
  BY <1>1, ManyBlock DEF Bitmaps, BitmapSet, Bitmap, ManyNames
<1>4. Block(Caches, CacheSet, R)
  BY <1>1, ManyBlock DEF Caches, Caches_wspack, Caches_send, CacheSet, Cache, ManyNames
<1>. QED BY <1>2, <1>3, <1>4

\* Four resources, in an order R allows.
LEMMA BlockTwo ==
    ASSUME NEW a \in Things, NEW b \in Things, NEW R, <<a, b>> \in R
    PROVE  Block(<<a, b>>, {a, b}, R)
BY DEF Block, ToSet
LEMMA BlockFour ==
    ASSUME NEW a \in Things, NEW b \in Things, NEW c \in Things, NEW d \in Things, NEW R,
           <<a, b>> \in R, <<a, c>> \in R, <<a, d>> \in R,
           <<b, c>> \in R, <<b, d>> \in R, <<c, d>> \in R
    PROVE  Block(<<a, b, c, d>>, {a, b, c, d}, R)
BY DEF Block, ToSet

LEMMA Names ==
    /\ \A n \in OneNames : One(n) \in Things
    /\ FileSet \subseteq Things /\ CacheSet \subseteq Things /\ BitmapSet \subseteq Things
<1>1. ASSUME NEW n \in OneNames PROVE One(n) \in Things
  BY DEF One, Things
<1>2. \A c \in Nat : File(c) \in Things /\ Cache(c) \in Things /\ Bitmap(c) \in Things
  BY DEF File, Cache, Bitmap, Things, ManyNames
<1>3. \A n : \A c \in 1 .. n : c \in Nat
  OBVIOUS
<1>. QED BY <1>1, <1>2, <1>3 DEF FileSet, CacheSet, BitmapSet

\* Membership in the two relations, kept apart from what the members are.
LEMMA Related ==
    ASSUME NEW X \in SUBSET Things, NEW Y \in SUBSET Things
    PROVE  /\ (\A x \in X, y \in Y : Earlier(x, y)) => \A x \in X, y \in Y : <<x, y>> \in AllocRel
           /\ (\A x \in X, y \in Y : InOrder(x, y)) => \A x \in X, y \in Y : <<x, y>> \in FreeRel
BY DEF AllocRel, FreeRel

LEMMA TableBlock ==
    ASSUME module \in {"wspack", "send"}
    PROVE  Block(Table, TableSet, AllocRel) /\ Block(ReleaseTable, ReleaseSet, FreeRel)
<1>. USE Names DEF OneNames
<1>. DEFINE A == <<One("hash_tab"), One("bucket_clear"), One("hash_cachep"), One("timers")>>
            B == {One("hash_tab"), One("bucket_clear"), One("hash_cachep"), One("timers")}
            F == <<One("hash_flush"), One("timers")>>
            L == <<One("hash_cachep"), One("hash_tab")>>
            Q == IF module = "wspack" THEN <<One("writeread_wq")>> ELSE << >>
<1>1. Block(A, B, AllocRel)
  <2>1. ASSUME NEW x \in B, NEW y \in B, Rank(x[1]) < Rank(y[1])
        PROVE  <<x, y>> \in AllocRel
    BY <2>1 DEF AllocRel, Earlier
  <2>2. /\ Rank(One("hash_tab")[1]) = 6 /\ Rank(One("bucket_clear")[1]) = 7
        /\ Rank(One("hash_cachep")[1]) = 8 /\ Rank(One("timers")[1]) = 9
    BY DEF Rank, One
  <2>. QED BY <2>1, <2>2, BlockFour, SMTT(40)
<1>2. Block(F, {One("hash_flush"), One("timers")}, FreeRel)
  <2>1. InOrder(One("hash_flush"), One("timers"))
    BY DEF InOrder, One
  <2>. QED BY <2>1, BlockTwo DEF FreeRel
<1>3. Block(L, {One("hash_cachep"), One("hash_tab")}, FreeRel)
  <2>1. InOrder(One("hash_cachep"), One("hash_tab"))
    BY DEF InOrder, One
  <2>. QED BY <2>1, BlockTwo DEF FreeRel
<1>4. Block(Q, Queue, AllocRel) /\ Block(Q, Queue, FreeRel)
  BY BlockOne, BlockEmpty DEF Queue
<1>5. Queue \subseteq Things /\ B \subseteq Things
  BY DEF Queue
<1>6. \A x \in Queue, y \in B : Earlier(x, y)
  BY DEF Queue, Earlier, Rank, One
<1>7. Block(Q \o A, Queue \cup B, AllocRel)
  <2>. HIDE DEF A, B, Q
  <2>1. \A x \in Queue, y \in B : <<x, y>> \in AllocRel
    BY <1>5, <1>6, Related
  <2>. QED BY <1>1, <1>4, <2>1, BlockConcat
<1>8. Block(F \o Q, {One("hash_flush"), One("timers")} \cup Queue, FreeRel)
  <2>. DEFINE V == {One("hash_flush"), One("timers")}
  <2>1. \A x \in V, y \in Queue : InOrder(x, y)
    BY DEF Queue, InOrder, One
  <2>2. V \subseteq Things
    OBVIOUS
  <2>. HIDE DEF F, Q, V
  <2>3. \A x \in V, y \in Queue : <<x, y>> \in FreeRel
    BY <1>5, <2>1, <2>2, Related
  <2>. QED BY <1>2, <1>4, <2>3, BlockConcat DEF V
<1>9. Block(F \o Q \o L, {One("hash_flush"), One("timers")} \cup Queue
                            \cup {One("hash_cachep"), One("hash_tab")}, FreeRel)
  <2>. DEFINE V == {One("hash_flush"), One("timers")} \cup Queue
              W == {One("hash_cachep"), One("hash_tab")}
  <2>1. \A x \in V, y \in W : InOrder(x, y)
    BY DEF Queue, InOrder, One
  <2>2. V \subseteq Things /\ W \subseteq Things
    BY <1>5
  <2>. HIDE DEF F, Q, L, V, W
  <2>3. \A x \in V, y \in W : <<x, y>> \in FreeRel
    BY <2>1, <2>2, Related
  <2>. QED BY <1>3, <1>8, <2>3, BlockConcat DEF V, W
<1>10. Table = Q \o A /\ ReleaseTable = F \o Q \o L
  BY DEF Table, ReleaseTable
<1>11. TableSet = Queue \cup B /\ ReleaseSet = {One("hash_flush"), One("timers")} \cup Queue
                            \cup {One("hash_cachep"), One("hash_tab")}
  BY DEF TableSet, ReleaseSet
<1>. QED BY <1>7, <1>9, <1>10, <1>11

\* All of X is acquired before any of Y.
Precedes(X, Y) == \A x \in X, y \in Y : Rank(x[1]) < Rank(y[1])

LEMMA AllocConcat ==
    ASSUME NEW s, NEW t, NEW X, NEW Y, Block(s, X, AllocRel), Block(t, Y, AllocRel),
           Precedes(X, Y)
    PROVE  Block(s \o t, X \cup Y, AllocRel)
<1>1. X \subseteq Things /\ Y \subseteq Things
  BY DEF Block, ToSet
<1>2. \A x \in X, y \in Y : Earlier(x, y)
  BY DEF Precedes, Earlier
<1>. QED BY <1>1, <1>2, Related, BlockConcat

LEMMA FreeConcat ==
    ASSUME NEW s, NEW t, NEW X, NEW Y, Block(s, X, FreeRel), Block(t, Y, FreeRel),
           X \cap Y = {}, One("hash_flush") \in Y => X \cap {One("hash_tab"), One("timers")} = {}
    PROVE  Block(s \o t, X \cup Y, FreeRel)
<1>1. X \subseteq Things /\ Y \subseteq Things
  BY DEF Block, ToSet
<1>2. \A x \in X, y \in Y : InOrder(x, y)
  BY DEF InOrder
<1>. QED BY <1>1, <1>2, Related, BlockConcat

LEMMA Ranks ==
    /\ \A x \in {One("skb_wq")} : Rank(x[1]) = 1
    /\ \A x \in FileSet : Rank(x[1]) = 2
    /\ \A x \in CacheSet : Rank(x[1]) = 3
    /\ \A x \in BitmapSet : Rank(x[1]) = 4
    /\ \A x \in TableSet : Rank(x[1]) \in 5 .. 9
    /\ \A x \in {One("nf_out"), One("nf_in"), One("sha1"), One("jprobe")} : Rank(x[1]) \in 10 .. 13
<1>. USE DEF Rank, One, File, Cache, Bitmap
<1>1. /\ \A x \in FileSet : Rank(x[1]) = 2
      /\ \A x \in CacheSet : Rank(x[1]) = 3
      /\ \A x \in BitmapSet : Rank(x[1]) = 4
  BY DEF FileSet, CacheSet, BitmapSet
<1>2. \A x \in TableSet : Rank(x[1]) \in 5 .. 9
  BY DEF TableSet, Queue
<1>. QED BY <1>1, <1>2

LEMMA AllocBlock ==
    ASSUME module \in {"wspack", "send"}
    PROVE  Block(AllocOrder, AllocSet, AllocRel)
<1>. DEFINE H == {One("nf_out"), One("nf_in"), One("sha1"), One("jprobe")}
<1>1. /\ Block(Files, FileSet, AllocRel) /\ Block(Caches, CacheSet, AllocRel)
      /\ Block(Bitmaps, BitmapSet, AllocRel) /\ Block(Table, TableSet, AllocRel)
  BY PartBlocks, TableBlock
<1>2. /\ Block(<<One("skb_wq")>>, {One("skb_wq")}, AllocRel)
      /\ Block(<<One("nf_out")>>, {One("nf_out")}, AllocRel)
  BY Names, BlockOne DEF OneNames
<1>3. /\ Block(<<One("nf_out"), One("nf_in"), One("sha1"), One("jprobe")>>, H, AllocRel)
      /\ Block(<<One("nf_out"), One("sha1")>>, {One("nf_out"), One("sha1")}, AllocRel)
  <2>1. ASSUME NEW x \in H, NEW y \in H, Rank(x[1]) < Rank(y[1])
        PROVE  <<x, y>> \in AllocRel
    BY <2>1, Names DEF AllocRel, Earlier, OneNames
  <2>2. /\ Rank(One("nf_out")[1]) = 10 /\ Rank(One("nf_in")[1]) = 11
        /\ Rank(One("sha1")[1]) = 12 /\ Rank(One("jprobe")[1]) = 13
    BY DEF Rank, One
  <2>3. \A x \in H : x \in Things
    BY Names DEF OneNames
  <2>. QED BY <2>1, <2>2, <2>3, BlockTwo, BlockFour, SMTT(40)
<1>4. CASE module = "wspack"
  <2>. DEFINE s1 == <<One("skb_wq")>>
              X1 == {One("skb_wq")}
              s2 == s1 \o Files
              X2 == X1 \cup FileSet
              s3 == s2 \o Caches
              X3 == X2 \cup CacheSet
              s4 == s3 \o Bitmaps
              X4 == X3 \cup BitmapSet
              s5 == s4 \o Table
              X5 == X4 \cup TableSet
              h  == <<One("nf_out"), One("nf_in"), One("sha1"), One("jprobe")>>
  <2>1. /\ Precedes(X1, FileSet) /\ Precedes(X2, CacheSet) /\ Precedes(X3, BitmapSet)
        /\ Precedes(X4, TableSet) /\ Precedes(X5, H)
    BY Ranks DEF Precedes
  <2>2. Block(s1, X1, AllocRel) /\ Block(h, H, AllocRel)
    BY <1>2, <1>3
  <2>. HIDE DEF s1, X1, h, H
  <2>3. Block(s2, X2, AllocRel)
    BY <1>1, <2>1, <2>2, AllocConcat
  <2>. HIDE DEF s2, X2
  <2>4. Block(s3, X3, AllocRel)
    BY <1>1, <2>1, <2>3, AllocConcat
  <2>. HIDE DEF s3, X3
  <2>5. Block(s4, X4, AllocRel)
    BY <1>1, <2>1, <2>4, AllocConcat
  <2>. HIDE DEF s4, X4
  <2>6. Block(s5, X5, AllocRel)
    BY <1>1, <2>1, <2>5, AllocConcat
  <2>. HIDE DEF s5, X5
  <2>7. Block(s5 \o h, X5 \cup H, AllocRel)
    BY <2>1, <2>2, <2>6, AllocConcat
  <2>. QED BY <1>4, <2>7 DEF AllocOrder, AllocOrder_wspack, AllocSet, H, h,
                             s5, X5, s4, X4, s3, X3, s2, X2, s1, X1
<1>5. CASE module = "send"
  <2>. DEFINE h == <<One("nf_out"), One("sha1")>>
              G == {One("nf_out"), One("sha1")}
  <2>1. Precedes(CacheSet, TableSet) /\ Precedes(CacheSet \cup TableSet, G)
    BY Ranks DEF Precedes
  <2>2. Block(h, G, AllocRel)
    BY <1>3
  <2>. HIDE DEF h, G
  <2>3. Block(Caches \o Table, CacheSet \cup TableSet, AllocRel)
    BY <1>1, <2>1, AllocConcat
  <2>4. Block(Caches \o Table \o h, CacheSet \cup TableSet \cup G, AllocRel)
    BY <2>1, <2>2, <2>3, AllocConcat
  <2>. QED BY <1>5, <2>4 DEF AllocOrder, AllocOrder_send, AllocSet, h, G
<1>. QED BY <1>4, <1>5

\* The sets behind the labels, and behind mexit's order.
SlabLabel == CacheSet \cup (IF module = "wspack" THEN FileSet ELSE {})
BitmapLabel == BitmapSet \cup SlabLabel
TableLabel == ReleaseSet \cup (IF module = "wspack" THEN BitmapLabel ELSE SlabLabel)
OutLabel == {One("nf_out")} \cup TableLabel
InLabel == {One("nf_in")} \cup OutLabel
PoolLabel == {One("sha1")} \cup (IF module = "wspack" THEN InLabel ELSE OutLabel)
ExitSet == (AllocSet \ {One("bucket_clear")}) \cup {One("hash_flush")}

\* What the resources that come in numbers are not.
LEMMA Kinds ==
    /\ FileSet \cap CacheSet = {} /\ FileSet \cap BitmapSet = {} /\ CacheSet \cap BitmapSet = {}
    /\ \A n \in OneNames : One(n) \notin FileSet \cup CacheSet \cup BitmapSet
    /\ \A x \in FileSet : x[1] = "reserve_file"
    /\ \A x \in CacheSet : x[1] = "slab"
    /\ \A x \in BitmapSet : x[1] = "bitmap"
<1>1. /\ \A x \in FileSet : x[1] = "reserve_file"
      /\ \A x \in CacheSet : x[1] = "slab"
      /\ \A x \in BitmapSet : x[1] = "bitmap"
  BY DEF FileSet, CacheSet, BitmapSet, File, Cache, Bitmap
<1>2. \A n \in OneNames : One(n)[1] \notin ManyNames
  BY DEF One, OneNames, ManyNames
<1>. QED BY <1>1, <1>2 DEF ManyNames

LEMMA LabelBlocks ==
    ASSUME module \in {"wspack", "send"}
    PROVE  /\ Block(err_alloc_file, FileSet, FreeRel)
           /\ Block(err_alloc_slab, SlabLabel, FreeRel)
           /\ Block(err_bitmap, BitmapLabel, FreeRel)
           /\ Block(err_hash_table_cache, TableLabel, FreeRel)
           /\ Block(err_nf_reg_out, OutLabel, FreeRel)
           /\ Block(err_nf_reg_in, InLabel, FreeRel)
           /\ Block(err_sha1siq_pool, PoolLabel, FreeRel)
<1>1. /\ Block(Files, FileSet, FreeRel) /\ Block(Caches, CacheSet, FreeRel)
      /\ Block(Bitmaps, BitmapSet, FreeRel) /\ Block(ReleaseTable, ReleaseSet, FreeRel)
      /\ Block(<< >>, {}, FreeRel)
  BY PartBlocks, TableBlock, BlockEmpty
<1>2. /\ Block(<<One("nf_out")>>, {One("nf_out")}, FreeRel)
      /\ Block(<<One("nf_in")>>, {One("nf_in")}, FreeRel)
      /\ Block(<<One("sha1")>>, {One("sha1")}, FreeRel)
  BY Names, BlockOne DEF OneNames
<1>3. /\ One("hash_flush") \notin FileSet \cup CacheSet \cup BitmapSet
      /\ CacheSet \cap FileSet = {} /\ BitmapSet \cap SlabLabel = {}
      /\ ReleaseSet \cap BitmapLabel = {} /\ ReleaseSet \cap SlabLabel = {}
  <2>1. ReleaseSet \cap (FileSet \cup CacheSet \cup BitmapSet) = {}
    BY Kinds DEF ReleaseSet, Queue, OneNames
  <2>. QED BY <2>1, Kinds DEF SlabLabel, BitmapLabel, OneNames
<1>4. Block(err_alloc_file, FileSet, FreeRel)
  BY <1>1 DEF err_alloc_file
<1>5. Block(err_alloc_slab, SlabLabel, FreeRel)
  <2>. DEFINE t == IF module = "wspack" THEN err_alloc_file ELSE << >>
              Y == IF module = "wspack" THEN FileSet ELSE {}
  <2>1. Block(t, Y, FreeRel) /\ CacheSet \cap Y = {} /\ One("hash_flush") \notin Y
    BY <1>1, <1>3, <1>4
  <2>. HIDE DEF t, Y
  <2>2. Block(Caches \o t, CacheSet \cup Y, FreeRel)
    BY <1>1, <2>1, FreeConcat
  <2>. QED BY <2>2 DEF t, Y, err_alloc_slab, SlabLabel
<1>6. Block(err_bitmap, BitmapLabel, FreeRel)
  <2>1. One("hash_flush") \notin SlabLabel
    BY <1>3 DEF SlabLabel
  <2>. QED BY <1>1, <1>3, <1>5, <2>1, FreeConcat DEF err_bitmap, BitmapLabel
<1>7. Block(err_hash_table_cache, TableLabel, FreeRel)
  <2>. DEFINE t == IF module = "wspack" THEN err_bitmap ELSE err_alloc_slab
              Y == IF module = "wspack" THEN BitmapLabel ELSE SlabLabel
  <2>1. Block(t, Y, FreeRel) /\ ReleaseSet \cap Y = {}
    BY <1>3, <1>5, <1>6
  <2>2. One("hash_flush") \notin Y
    BY <1>3 DEF SlabLabel, BitmapLabel
  <2>. HIDE DEF t, Y
  <2>3. Block(ReleaseTable \o t, ReleaseSet \cup Y, FreeRel)
    BY <1>1, <2>1, <2>2, FreeConcat
  <2>. QED BY <2>3 DEF t, Y, err_hash_table_cache, TableLabel
<1>8. \A n \in {"nf_out", "nf_in", "sha1"} : One(n) \notin TableLabel
  BY Kinds DEF TableLabel, ReleaseSet, Queue, One, OneNames, BitmapLabel, SlabLabel
<1>9. Block(err_nf_reg_out, OutLabel, FreeRel)
  <2>1. {One("nf_out")} \cap TableLabel = {}
        /\ {One("nf_out")} \cap {One("hash_tab"), One("timers")} = {}
    BY <1>8 DEF One
  <2>. QED BY <1>2, <1>7, <2>1, FreeConcat DEF err_nf_reg_out, OutLabel
<1>10. Block(err_nf_reg_in, InLabel, FreeRel)
  <2>1. {One("nf_in")} \cap OutLabel = {}
        /\ {One("nf_in")} \cap {One("hash_tab"), One("timers")} = {}
    BY <1>8 DEF One, OutLabel
  <2>. QED BY <1>2, <1>9, <2>1, FreeConcat DEF err_nf_reg_in, InLabel
<1>11. Block(err_sha1siq_pool, PoolLabel, FreeRel)
  <2>. DEFINE t == IF module = "wspack" THEN err_nf_reg_in ELSE err_nf_reg_out
              Y == IF module = "wspack" THEN InLabel ELSE OutLabel
  <2>1. Block(t, Y, FreeRel)
    BY <1>9, <1>10
  <2>2. {One("sha1")} \cap Y = {} /\ {One("sha1")} \cap {One("hash_tab"), One("timers")} = {}
    BY <1>8 DEF One, OutLabel, InLabel
  <2>. HIDE DEF t, Y
  <2>3. Block(<<One("sha1")>> \o t, {One("sha1")} \cup Y, FreeRel)
    BY <1>2, <2>1, <2>2, FreeConcat
  <2>. QED BY <2>3 DEF t, Y, err_sha1siq_pool, PoolLabel
<1>. QED BY <1>4, <1>5, <1>6, <1>7, <1>9, <1>10, <1>11

LEMMA ExitBlock ==
    ASSUME module \in {"wspack", "send"}
    PROVE  Block(ExitOrder, ExitSet, FreeRel)
<1>1. /\ Block(Files, FileSet, FreeRel) /\ Block(Caches, CacheSet, FreeRel)
      /\ Block(Bitmaps, BitmapSet, FreeRel) /\ Block(ReleaseTable, ReleaseSet, FreeRel)
  BY PartBlocks, TableBlock
<1>2. /\ Block(<<One("nf_out")>>, {One("nf_out")}, FreeRel)
      /\ Block(<<One("sha1")>>, {One("sha1")}, FreeRel)
  BY Names, BlockOne DEF OneNames
<1>3. /\ ReleaseSet \cap (FileSet \cup CacheSet \cup BitmapSet) = {}
      /\ One("hash_flush") \notin FileSet \cup CacheSet \cup BitmapSet \cup {One("sha1")}
      /\ One("sha1") \notin ReleaseSet \cup FileSet \cup CacheSet \cup BitmapSet
      /\ FileSet \cap CacheSet = {} /\ FileSet \cap BitmapSet = {} /\ CacheSet \cap BitmapSet = {}
  BY Kinds DEF ReleaseSet, Queue, OneNames, One
<1>a. (TableSet \ {One("bucket_clear")}) \cup {One("hash_flush")} = ReleaseSet
  BY DEF TableSet, ReleaseSet, Queue, One
<1>b. One("bucket_clear") \notin FileSet \cup CacheSet \cup BitmapSet
                                \cup {One("nf_in"), One("nf_out"), One("jprobe"), One("skb_wq"), One("sha1")}
  BY Kinds DEF OneNames, One
<1>4. CASE module = "wspack"
  <2>. DEFINE s0 == <<One("nf_in"), One("nf_out"), One("jprobe"), One("skb_wq")>>
              X0 == {One("nf_in"), One("nf_out"), One("jprobe"), One("skb_wq")}
              s1 == s0 \o ReleaseTable
              X1 == X0 \cup ReleaseSet
              s2 == s1 \o Files
              X2 == X1 \cup FileSet
              s3 == s2 \o Caches
              X3 == X2 \cup CacheSet
              s4 == s3 \o Bitmaps
              X4 == X3 \cup BitmapSet
              p  == <<One("sha1")>>
              P  == {One("sha1")}
  <2>1. Block(s0, X0, FreeRel)
    <3>1. \A x, y \in X0 : x # y => <<x, y>> \in FreeRel
      BY Names DEF FreeRel, InOrder, OneNames, One
    <3>2. X0 \subseteq Things
      BY Names DEF OneNames
    <3>. QED BY <3>1, <3>2, BlockFour DEF One
  <2>2. Block(p, P, FreeRel)
    BY <1>2
  <2>3. /\ X0 \cap (ReleaseSet \cup FileSet \cup CacheSet \cup BitmapSet \cup P) = {}
        /\ X0 \cap {One("hash_tab"), One("timers")} = {}
    BY Kinds DEF ReleaseSet, Queue, OneNames, One
  <2>4. /\ X1 \cap FileSet = {} /\ X2 \cap CacheSet = {} /\ X3 \cap BitmapSet = {}
        /\ X4 \cap P = {}
    BY <1>3, <2>3
  <2>5. /\ One("hash_flush") \notin FileSet /\ One("hash_flush") \notin CacheSet
        /\ One("hash_flush") \notin BitmapSet /\ One("hash_flush") \notin P
    BY <1>3
  <2>. HIDE DEF s0, X0, p, P
  <2>6. Block(s1, X1, FreeRel)
    BY <1>1, <2>1, <2>3, FreeConcat
  <2>. HIDE DEF s1, X1
  <2>7. Block(s2, X2, FreeRel)
    BY <1>1, <2>4, <2>5, <2>6, FreeConcat
  <2>. HIDE DEF s2, X2
  <2>8. Block(s3, X3, FreeRel)
    BY <1>1, <2>4, <2>5, <2>7, FreeConcat
  <2>. HIDE DEF s3, X3
  <2>9. Block(s4, X4, FreeRel)
    BY <1>1, <2>4, <2>5, <2>8, FreeConcat
  <2>. HIDE DEF s4, X4
  <2>10. Block(s4 \o p, X4 \cup P, FreeRel)
    BY <2>2, <2>4, <2>5, <2>9, FreeConcat
  <2>11. X4 \cup P = ExitSet
    <3>1. ExitSet = X0 \cup P \cup FileSet \cup CacheSet \cup BitmapSet \cup ReleaseSet
      BY <1>4, <1>a, <1>b DEF ExitSet, AllocSet, X0, P
    <3>. QED BY <3>1 DEF X4, X3, X2, X1
  <2>. QED BY <1>4, <2>10, <2>11 DEF ExitOrder, ExitOrder_wspack, s4, s3, s2, s1, s0, p
<1>5. CASE module = "send"
  <2>. DEFINE o == <<One("nf_out")>>
              O == {One("nf_out")}
              p == <<One("sha1")>>
              P == {One("sha1")}
  <2>1. Block(o, O, FreeRel) /\ Block(p, P, FreeRel)
    BY <1>2
  <2>2. /\ O \cap ReleaseSet = {} /\ (O \cup ReleaseSet) \cap CacheSet = {}
        /\ (O \cup ReleaseSet \cup CacheSet) \cap P = {}
        /\ O \cap {One("hash_tab"), One("timers")} = {}
        /\ One("hash_flush") \notin CacheSet /\ One("hash_flush") \notin P
    BY <1>3, Kinds DEF ReleaseSet, Queue, OneNames, One
  <2>3. O \cup ReleaseSet \cup CacheSet \cup P = ExitSet
    BY <1>5, <1>a, <1>b DEF ExitSet, AllocSet
  <2>. HIDE DEF o, O, p, P
  <2>4. Block(o \o ReleaseTable, O \cup ReleaseSet, FreeRel)
    BY <1>1, <2>1, <2>2, FreeConcat
  <2>5. Block(o \o ReleaseTable \o Caches, O \cup ReleaseSet \cup CacheSet, FreeRel)
    BY <1>1, <2>2, <2>4, FreeConcat
  <2>6. Block(o \o ReleaseTable \o Caches \o p, O \cup ReleaseSet \cup CacheSet \cup P, FreeRel)
    BY <2>1, <2>2, <2>5, FreeConcat
  <2>. QED BY <1>5, <2>3, <2>6 DEF ExitOrder, ExitOrder_send, o, p
<1>. QED BY <1>4, <1>5

-----------------------------------------------------------------------------
(* What minit has acquired when a resource fails, and what it jumps to *)

\* A block stays within the set of its members, and respects InOrder.
LEMMA BlockFacts ==
    ASSUME NEW s, NEW X, Block(s, X, FreeRel)
    PROVE  /\ s \in Seq(X) /\ ToSet(s) = X
           /\ \A j, k \in 1 .. Len(s) : j < k => InOrder(s[j], s[k])
<1>1. s \in Seq(Things) /\ Len(s) \in Nat /\ DOMAIN s = 1 .. Len(s)
  BY LenProperties DEF Block
<1>2. \A i \in 1 .. Len(s) : s[i] \in X
  BY <1>1 DEF Block, ToSet
<1>3. s = [i \in 1 .. Len(s) |-> s[i]]
  BY <1>1
<1>4. s \in [1 .. Len(s) -> X]
  BY <1>2, <1>3
<1>5. s \in Seq(X)
  BY <1>1, <1>4, SeqDef
<1>. QED BY <1>5 DEF Block, FreeRel

LEMMA ResourcesAre == ASSUME module \in {"wspack", "send"} PROVE Resources = AllocSet
BY AllocBlock DEF Resources, Block

LEMMA RankType == \A n : Rank(n) \in 1 .. 13
BY DEF Rank

LEMMA EarlierOrder ==
    ASSUME NEW x \in Things, NEW y \in Things
    PROVE  ~(Earlier(x, x)) /\ ~(Earlier(x, y) /\ Earlier(y, x))
<1>1. Rank(x[1]) \in 1 .. 13 /\ Rank(y[1]) \in 1 .. 13 /\ x[2] \in Nat /\ y[2] \in Nat
  BY RankType DEF Things
<1>. QED BY <1>1 DEF Earlier

LEMMA HeldEarlier ==
    ASSUME module \in {"wspack", "send"}, next \in 1 .. Len(AllocOrder),
           held = {AllocOrder[k] : k \in 1 .. next - 1},
           NEW r, r = AllocOrder[next]
    PROVE  /\ r \in Resources /\ r \notin held
           /\ \A x \in Resources : x \in held <=> Earlier(x, r)
<1>1. AllocOrder \in Seq(Things) /\ Resources = ToSet(AllocOrder)
  BY AllocBlock DEF Block, Resources
<1>2. PICK n : n = Len(AllocOrder)
  OBVIOUS
<1>3. n \in Nat /\ DOMAIN AllocOrder = 1 .. n /\ next \in 1 .. n
  BY <1>1, <1>2, LenProperties
<1>4. \A k \in 1 .. n : AllocOrder[k] \in Things
  BY <1>1, <1>2
<1>5. \A j, k \in 1 .. n : j < k => Earlier(AllocOrder[j], AllocOrder[k])
  BY <1>2, AllocBlock DEF Block, AllocRel
<1>6. r \in Resources
  BY <1>1, <1>3 DEF ToSet
<1>7. ASSUME NEW x \in Resources PROVE x \in held <=> Earlier(x, r)
  <2>1. PICK j \in 1 .. n : x = AllocOrder[j]
    BY <1>1, <1>3 DEF ToSet
  <2>2. CASE j < next
    BY <1>3, <1>5, <2>1, <2>2
  <2>3. CASE j >= next
    <3>1. ~Earlier(x, r)
      BY <1>3, <1>4, <1>5, <2>1, <2>3, EarlierOrder
    <3>2. ASSUME x \in held PROVE FALSE
      <4>1. PICK k \in 1 .. next - 1 : x = AllocOrder[k]
        BY <3>2
      <4>. QED BY <1>3, <1>5, <3>1, <4>1
    <3>. QED BY <3>1, <3>2
  <2>. QED BY <1>3, <2>1, <2>2, <2>3
<1>8. r \notin held
  BY <1>3, <1>4, <1>6, <1>7, EarlierOrder
<1>. QED BY <1>6, <1>7, <1>8

\* The kinds of failure.
LEMMA FailureKinds ==
    ASSUME module \in {"wspack", "send"}, NEW r \in AllocSet, r # One("timers")
    PROVE  \/ r \in {One("skb_wq"), One("jprobe")}
           \/ r \in FileSet /\ module = "wspack"
           \/ r \in CacheSet
           \/ r \in BitmapSet /\ module = "wspack"
           \/ r \in Queue \cup {One("hash_tab"), One("bucket_clear"), One("hash_cachep")}
           \/ r = One("nf_out")
           \/ r = One("nf_in") /\ module = "wspack"
           \/ r = One("sha1")
BY DEF AllocSet, TableSet

\* X is what the labels release after r failed: all that was acquired, but for two, and,
\* after a failure the code handles, little else.
Released(X, r) ==
    /\ X \subseteq AllocSet \cup {One("hash_flush")}
    /\ r # One("jprobe") =>
          \A x \in AllocSet : Earlier(x, r) => x \in X \cup {One("skb_wq"), One("bucket_clear")}
    /\ ~Unsafe({r}) =>
          \A x \in X : x \in AllocSet /\ \/ Earlier(x, r)
                                         \/ x[1] \in {"slab", "bitmap"}
                                         \/ x = r /\ x[1] = "reserve_file"

LEMMA LabelRanks ==
    /\ \A x \in {One("nf_out")} : Rank(x[1]) = 10
    /\ \A x \in {One("nf_in")} : Rank(x[1]) = 11
    /\ \A x \in {One("sha1")} : Rank(x[1]) = 12
    /\ \A x \in {One("jprobe")} : Rank(x[1]) = 13
    /\ One("nf_out")[1] = "nf_out" /\ One("nf_in")[1] = "nf_in" /\ One("sha1")[1] = "sha1"
BY DEF Rank, One

LEMMA EarlierRank ==
    ASSUME NEW x, NEW r, Earlier(x, r)
    PROVE  Rank(x[1]) <= Rank(r[1])
<1>1. Rank(x[1]) \in 1 .. 13 /\ Rank(r[1]) \in 1 .. 13
  BY RankType
<1>2. CASE x[1] = r[1]
  BY <1>1, <1>2
<1>3. CASE Rank(x[1]) < Rank(r[1])
  BY <1>1, <1>3
<1>. QED BY <1>2, <1>3 DEF Earlier

\* What minit acquires up to some point is what the label there releases, but for two.
LEMMA UpTo ==
    ASSUME module \in {"wspack", "send"}, NEW x \in AllocSet,
           x \notin {One("skb_wq"), One("bucket_clear")}
    PROVE  /\ Rank(x[1]) <= 1 => FALSE
           /\ Rank(x[1]) <= 2 => x \in FileSet
           /\ Rank(x[1]) <= 3 => x \in SlabLabel
           /\ Rank(x[1]) <= 4 => x \in BitmapLabel
           /\ Rank(x[1]) <= 9 => x \in TableLabel
           /\ Rank(x[1]) <= 10 => x \in OutLabel
           /\ Rank(x[1]) <= 11 => x \in InLabel
           /\ Rank(x[1]) <= 12 => x \in PoolLabel
<1>1. CASE x \in FileSet /\ module = "wspack"
  <2>1. Rank(x[1]) = 2
    BY <1>1, Ranks
  <2>. QED BY <1>1, <2>1 DEF SlabLabel, BitmapLabel, TableLabel, OutLabel, InLabel, PoolLabel
<1>2. CASE x \in CacheSet
  <2>1. Rank(x[1]) = 3
    BY <1>2, Ranks
  <2>. QED BY <1>2, <2>1 DEF SlabLabel, BitmapLabel, TableLabel, OutLabel, InLabel, PoolLabel
<1>3. CASE x \in BitmapSet /\ module = "wspack"
  <2>1. Rank(x[1]) = 4
    BY <1>3, Ranks
  <2>. QED BY <1>3, <2>1 DEF BitmapLabel, TableLabel, OutLabel, InLabel, PoolLabel
<1>4. CASE x \in TableSet
  <2>1. Rank(x[1]) \in 5 .. 9
    BY <1>4, Ranks
  <2>2. x \in ReleaseSet
    BY <1>4 DEF TableSet, ReleaseSet
  <2>. QED BY <2>1, <2>2 DEF TableLabel, OutLabel, InLabel, PoolLabel
<1>5. CASE x = One("nf_out")
  <2>1. Rank(x[1]) = 10
    BY <1>5, LabelRanks
  <2>. QED BY <1>5, <2>1 DEF OutLabel, InLabel, PoolLabel
<1>6. CASE x = One("nf_in") /\ module = "wspack"
  <2>1. Rank(x[1]) = 11
    BY <1>6, LabelRanks
  <2>. QED BY <1>6, <2>1 DEF InLabel, PoolLabel
<1>7. CASE x = One("sha1")
  <2>1. Rank(x[1]) = 12
    BY <1>7, LabelRanks
  <2>. QED BY <1>7, <2>1 DEF PoolLabel
<1>8. CASE x = One("jprobe")
  <2>1. Rank(x[1]) = 13
    BY <1>8, LabelRanks
  <2>. QED BY <2>1
<1>. QED BY <1>1, <1>2, <1>3, <1>4, <1>5, <1>6, <1>7, <1>8 DEF AllocSet

\* The labels release nothing that minit does not acquire.
LEMMA LabelsWithin ==
    ASSUME module \in {"wspack", "send"}
    PROVE  /\ module = "wspack" => FileSet \subseteq AllocSet /\ BitmapLabel \subseteq AllocSet
           /\ module = "wspack" => InLabel \subseteq AllocSet \cup {One("hash_flush")}
           /\ SlabLabel \subseteq AllocSet
           /\ TableLabel \subseteq AllocSet \cup {One("hash_flush")}
           /\ OutLabel \subseteq AllocSet \cup {One("hash_flush")}
           /\ PoolLabel \subseteq AllocSet \cup {One("hash_flush")}
<1>1. ReleaseSet \subseteq TableSet \cup {One("hash_flush")}
  BY DEF ReleaseSet, TableSet
<1>. QED BY <1>1 DEF AllocSet, SlabLabel, BitmapLabel, TableLabel, OutLabel, InLabel, PoolLabel

LEMMA UnwindReleases ==
    ASSUME module \in {"wspack", "send"}, NEW r \in AllocSet, r # One("timers")
    PROVE  \E X : Block(Unwind(r), X, FreeRel) /\ Released(X, r)
<1>. DEFINE Two == {One("skb_wq"), One("bucket_clear")}
            Begun(k, X) == \A x \in AllocSet : Rank(x[1]) <= k => x \in X \cup Two
<1>0. /\ Begun(1, {}) /\ Begun(2, FileSet) /\ Begun(3, SlabLabel) /\ Begun(4, BitmapLabel)
      /\ Begun(9, TableLabel) /\ Begun(10, OutLabel) /\ Begun(11, InLabel) /\ Begun(12, PoolLabel)
  BY UpTo
<1>1. ASSUME NEW X, NEW k, Begun(k, X), Rank(r[1]) <= k, k \in Nat, NEW x \in AllocSet, Earlier(x, r)
      PROVE  x \in X \cup Two
  <2>1. Rank(x[1]) <= Rank(r[1]) /\ Rank(x[1]) \in 1 .. 13 /\ Rank(r[1]) \in 1 .. 13
    BY <1>1, EarlierRank, RankType
  <2>2. Rank(x[1]) <= k
    BY <1>1, <2>1
  <2>. QED BY <1>1, <2>2
<1>2. CASE r \in {One("skb_wq"), One("jprobe")}
  <2>1. Unwind(r) = << >>
    BY <1>2 DEF Unwind, One
  <2>2. r # One("jprobe") => Rank(r[1]) <= 1
    BY <1>2, Ranks
  <2>3. Released({}, r)
    BY <1>0, <1>1, <2>2 DEF Released
  <2>. QED BY <2>1, <2>3, BlockEmpty
<1>3. CASE r \in FileSet /\ module = "wspack"
  <2>1. Unwind(r) = err_alloc_file /\ r[1] = "reserve_file" /\ Rank(r[1]) <= 2
    BY <1>3, Kinds, Ranks DEF Unwind
  <2>2. PICK d \in 1 .. NumCpus : r = File(d)
    BY <1>3 DEF FileSet
  <2>3. ASSUME ~Unsafe({r}), NEW x \in FileSet
        PROVE  Earlier(x, r) \/ (x = r /\ x[1] = "reserve_file")
    <3>1. NumCpus \in Nat /\ d \notin 1 .. NumCpus - 1
      BY <2>2, <2>3, LifecycleAssumption DEF Unsafe
    <3>2. PICK c \in 1 .. NumCpus : x = File(c)
      BY DEF FileSet
    <3>3. c < d \/ c = d
      BY <2>2, <3>1, <3>2
    <3>. QED BY <2>2, <3>2, <3>3 DEF Earlier, File
  <2>4. Released(FileSet, r)
    BY <1>0, <1>1, <1>3, <2>1, <2>3, LabelsWithin DEF Released
  <2>. QED BY <2>1, <2>4, LabelBlocks
<1>4. CASE r \in CacheSet
  <2>1. Unwind(r) = err_alloc_slab /\ Rank(r[1]) = 3
    BY <1>4, Kinds, Ranks DEF Unwind
  <2>2. ASSUME NEW x \in SlabLabel PROVE Earlier(x, r) \/ x[1] = "slab"
    BY <2>1, Kinds, Ranks DEF SlabLabel, Earlier
  <2>3. Released(SlabLabel, r)
    BY <1>0, <1>1, <2>1, <2>2, LabelsWithin DEF Released
  <2>. QED BY <2>1, <2>3, LabelBlocks
<1>5. CASE r \in BitmapSet /\ module = "wspack"
  <2>1. Unwind(r) = err_bitmap /\ Rank(r[1]) = 4
    BY <1>5, Kinds, Ranks DEF Unwind
  <2>2. ASSUME NEW x \in BitmapLabel PROVE Earlier(x, r) \/ x[1] \in {"slab", "bitmap"}
    BY <2>1, Kinds, Ranks DEF SlabLabel, BitmapLabel, Earlier
  <2>3. Released(BitmapLabel, r)
    <3>1. BitmapLabel \subseteq AllocSet
      BY <1>5, LabelsWithin
    <3>2. ASSUME NEW x \in AllocSet, Earlier(x, r) PROVE x \in BitmapLabel \cup Two
      <4>1. Rank(x[1]) <= 4
        BY <2>1, <3>2, EarlierRank
      <4>. QED BY <1>0, <4>1
    <3>. QED BY <2>2, <3>1, <3>2 DEF Released
  <2>. QED BY <2>1, <2>3, LabelBlocks
<1>6. CASE r \in Queue \cup {One("hash_tab"), One("bucket_clear"), One("hash_cachep")}
  <2>1. Unwind(r) = err_hash_table_cache /\ Rank(r[1]) <= 9 /\ Unsafe({r})
    BY <1>6 DEF Unwind, Queue, One, Rank, Unsafe, Name
  <2>2. Released(TableLabel, r)
    BY <1>0, <1>1, <2>1, LabelsWithin DEF Released
  <2>. QED BY <2>1, <2>2, LabelBlocks
<1>7. CASE r = One("nf_out")
  <2>1. Unwind(r) = err_nf_reg_out /\ Rank(r[1]) <= 10 /\ Unsafe({r})
    BY <1>7 DEF Unwind, One, Rank, Unsafe, Name
  <2>2. Released(OutLabel, r)
    BY <1>0, <1>1, <2>1, LabelsWithin DEF Released
  <2>. QED BY <2>1, <2>2, LabelBlocks
<1>8. CASE r = One("nf_in") /\ module = "wspack"
  <2>1. Unwind(r) = err_nf_reg_in /\ Rank(r[1]) <= 11 /\ Unsafe({r})
    BY <1>8 DEF Unwind, One, Rank, Unsafe, Name
  <2>2. Released(InLabel, r)
    BY <1>0, <1>1, <1>8, <2>1, LabelsWithin DEF Released
  <2>. QED BY <2>1, <2>2, LabelBlocks
<1>9. CASE r = One("sha1")
  <2>1. Unwind(r) = err_sha1siq_pool /\ Rank(r[1]) <= 12 /\ Unsafe({r})
    BY <1>9 DEF Unwind, One, Rank, Unsafe, Name
  <2>2. Released(PoolLabel, r)
    BY <1>0, <1>1, <2>1, LabelsWithin DEF Released
  <2>. QED BY <2>1, <2>2, LabelBlocks
<1>. QED BY <1>2, <1>3, <1>4, <1>5, <1>6, <1>7, <1>8, <1>9, FailureKinds

-----------------------------------------------------------------------------
(* The invariant *)

\* Nothing about the module's resources changes with the state.
LEMMA Same ==
    ASSUME module' = module
    PROVE  Resources' = Resources /\ AllocOrder' = AllocOrder
BY DEF Resources, AllocOrder, AllocOrder_wspack, AllocOrder_send, Files, Caches, Caches_wspack,
       Caches_send, Bitmaps, Table

\* hash_flush is not a resource; sha1 is one.
LEMMA Flush ==
    ASSUME module \in {"wspack", "send"}
    PROVE  One("hash_flush") \notin Resources
<1>1. One("hash_flush") \notin FileSet \cup CacheSet \cup BitmapSet
  BY Kinds DEF OneNames
<1>2. One("hash_flush") \notin AllocSet
  BY <1>1 DEF AllocSet, TableSet, Queue, One
<1>. QED BY <1>2, ResourcesAre

LEMMA InitLoad == Init => LoadInv
<1>. SUFFICES ASSUME Init PROVE LoadInv
  OBVIOUS
<1>1. module \in {"wspack", "send"} /\ Word \in Nat \ {0, 1}
  BY LifecycleAssumption DEF Init
<1>2. Len(AllocOrder) \in Nat
  BY <1>1, AllocBlock, LenProperties DEF Block
<1>3. TypeOK
  <2>1. << >> \in Seq(Resources \cup {One("hash_flush")})
    BY EmptySeq
  <2>2. 1 \in 1 .. Len(AllocOrder) + 1 /\ 0 \in 0 .. Word - 1
    BY <1>1, <1>2
  <2>3. [r \in Resources |-> "null"] \in [Resources -> {"null", "valid", "error", "stale"}]
    OBVIOUS
  <2>. QED BY <2>1, <2>2, <2>3 DEF Init, TypeOK
<1>4. Proper
  BY DEF Init, Proper
<1>5. held = {r \in Resources : ptr[r] = "valid"}
  BY DEF Init
<1>6. Acquired
  BY DEF Init, Acquired
<1>. QED BY <1>3, <1>4, <1>5, <1>6 DEF Init, LoadInv, Returned, Accounted, Safe, NoBadRelease

LEMMA AcquireLoad == LoadInv /\ Acquire => LoadInv'
<1>. SUFFICES ASSUME LoadInv, Acquire PROVE LoadInv'
  OBVIOUS
<1>1. PICK r : r = AllocOrder[next]
  OBVIOUS
<1>2. /\ module \in {"wspack", "send"} /\ module' = module /\ pc = "init" /\ pc' = "init"
      /\ todo' = todo /\ err' = err /\ failed' = failed /\ next' = next + 1
      /\ ptr' = [ptr EXCEPT ![r] = "valid"] /\ held' = held \cup {r}
      /\ users' = IF r = One("sha1") THEN users + 1 ELSE users
  BY <1>1 DEF LoadInv, TypeOK, Acquire
<1>3. Len(AllocOrder) \in Nat /\ next \in 1 .. Len(AllocOrder)
  <2>1. Len(AllocOrder) \in Nat
    BY <1>2, AllocBlock, LenProperties DEF Block
  <2>. QED BY <2>1 DEF LoadInv, TypeOK, Acquire
<1>4. /\ held = {AllocOrder[k] : k \in 1 .. next - 1} /\ todo = << >> /\ failed = {}
      /\ users = IF One("sha1") \in held THEN 1 ELSE 0
      /\ \A x \in Resources : ptr[x] \in {"valid", "null"}
  BY <1>2 DEF LoadInv, Acquired
<1>5. r \in Resources /\ r \notin held
  BY <1>1, <1>2, <1>3, <1>4, HeldEarlier
<1>6. Resources' = Resources /\ AllocOrder' = AllocOrder
  BY <1>2, Same
<1>7. users' = (IF One("sha1") \in held' THEN 1 ELSE 0) /\ users' \in 0 .. Word - 1
  <2>1. Word \in Nat \ {0, 1}
    BY LifecycleAssumption
  <2>. QED BY <1>2, <1>4, <1>5, <2>1
<1>8. held' = {AllocOrder[k] : k \in 1 .. next' - 1}
  <2>1. ASSUME NEW x \in held' PROVE \E k \in 1 .. next : x = AllocOrder[k]
    BY <1>1, <1>2, <1>3, <1>4, <2>1
  <2>2. ASSUME NEW k \in 1 .. next PROVE AllocOrder[k] \in held'
    BY <1>1, <1>2, <1>3, <1>4
  <2>3. next' - 1 = next
    BY <1>2, <1>3
  <2>. QED BY <2>1, <2>2, <2>3
<1>9. /\ ptr \in [Resources -> {"null", "valid", "error", "stale"}]
      /\ held = {x \in Resources : ptr[x] = "valid"}
  BY DEF LoadInv, TypeOK
<1>10. ptr' \in [Resources -> {"null", "valid", "error", "stale"}]
       /\ \A x \in Resources : ptr'[x] = IF x = r THEN "valid" ELSE ptr[x]
  BY <1>2, <1>9
<1>11. held' = {x \in Resources : ptr'[x] = "valid"}
  BY <1>2, <1>5, <1>9, <1>10
<1>12. TypeOK'
  <2>1. next' \in 1 .. Len(AllocOrder) + 1
    BY <1>2, <1>3
  <2>2. held' \in SUBSET Resources
    BY <1>11
  <2>. QED BY <1>2, <1>4, <1>6, <1>7, <1>10, <2>1, <2>2 DEF LoadInv, TypeOK
<1>13. Proper'
  BY <1>2, <1>4 DEF Proper
<1>14. Acquired'
  <2>1. \A x \in Resources : ptr'[x] \in {"valid", "null"}
    BY <1>4, <1>10
  <2>2. failed' = {} /\ todo' = << >>
    BY <1>2, <1>4
  <2>. QED BY <1>6, <1>7, <1>8, <2>1, <2>2 DEF Acquired
<1>. QED BY <1>2, <1>4, <1>6, <1>7, <1>11, <1>12, <1>13, <1>14
         DEF LoadInv, Returned, Accounted, Safe, NoBadRelease

LEMMA AcquireFailsLoad == LoadInv /\ AcquireFails => LoadInv'
<1>. SUFFICES ASSUME LoadInv, AcquireFails PROVE LoadInv'
  OBVIOUS
<1>1. PICK r : r = AllocOrder[next]
  OBVIOUS
<1>2. PICK gone : gone = IF r = One("hash_cachep") THEN {One("hash_tab")} ELSE {}
  OBVIOUS
<1>3. /\ module \in {"wspack", "send"} /\ module' = module /\ pc = "init" /\ pc' = "unwind"
      /\ next' = next /\ users' = users /\ r # One("timers")
      /\ ptr' = [x \in Resources |-> IF x \in gone THEN "stale"
                                     ELSE IF x = r /\ r[1] = "reserve_file" THEN "error"
                                     ELSE ptr[x]]
      /\ held' = held \ gone /\ failed' = failed \cup {r} /\ err' = (r # One("sha1"))
      /\ todo' = Unwind(r)
  BY <1>1, <1>2 DEF LoadInv, TypeOK, AcquireFails
<1>4. Len(AllocOrder) \in Nat /\ next \in 1 .. Len(AllocOrder)
  <2>1. Len(AllocOrder) \in Nat
    BY <1>3, AllocBlock, LenProperties DEF Block
  <2>. QED BY <2>1 DEF LoadInv, TypeOK, AcquireFails
<1>5. /\ held = {AllocOrder[k] : k \in 1 .. next - 1} /\ failed = {}
      /\ \A x \in Resources : ptr[x] \in {"valid", "null"}
  BY <1>3 DEF LoadInv, Acquired
<1>6. r \in Resources /\ r \notin held /\ \A x \in Resources : x \in held <=> Earlier(x, r)
  BY <1>1, <1>3, <1>4, <1>5, HeldEarlier
<1>7. Resources' = Resources /\ AllocOrder' = AllocOrder /\ Resources = AllocSet
  BY <1>3, Same, ResourcesAre
<1>8. PICK X : Block(Unwind(r), X, FreeRel) /\ Released(X, r)
  BY <1>3, <1>6, <1>7, UnwindReleases
<1>9. todo' \in Seq(X) /\ ToSet(todo') = X /\ Proper'
  <2>1. todo' \in Seq(X) /\ ToSet(todo') = X
    BY <1>3, <1>8, BlockFacts
  <2>2. \A j, k \in 1 .. Len(todo') : j < k => InOrder(todo'[j], todo'[k])
    BY <1>3, <1>8, BlockFacts
  <2>. QED BY <2>1, <2>2 DEF Proper
<1>10. failed' = {r}
  BY <1>3, <1>5
<1>11. /\ ptr \in [Resources -> {"null", "valid", "error", "stale"}]
       /\ held = {x \in Resources : ptr[x] = "valid"} /\ users \in 0 .. Word - 1
       /\ One("sha1") \in held => users = 1
  BY DEF LoadInv, TypeOK
<1>12. /\ ptr' \in [Resources -> {"null", "valid", "error", "stale"}]
       /\ \A x \in Resources : ptr'[x] = IF x \in gone THEN "stale"
                                         ELSE IF x = r /\ r[1] = "reserve_file" THEN "error"
                                         ELSE ptr[x]
  BY <1>3, <1>11
<1>13. held' = {x \in Resources : ptr'[x] = "valid"}
  BY <1>3, <1>6, <1>11, <1>12
<1>14. TypeOK'
  <2>1. todo' \in Seq(Resources \cup {One("hash_flush")})
    <3>1. X \subseteq Resources \cup {One("hash_flush")}
      BY <1>7, <1>8 DEF Released
    <3>. QED BY <1>9, <3>1, SeqMonotonic
  <2>2. err' \in BOOLEAN
    BY <1>3
  <2>3. held' \in SUBSET Resources /\ failed' \in SUBSET Resources
    BY <1>6, <1>10, <1>13
  <2>4. next' \in 1 .. Len(AllocOrder) + 1
    BY <1>3, <1>4
  <2>. QED BY <1>3, <1>7, <1>11, <1>12, <2>1, <2>2, <2>3, <2>4 DEF TypeOK
<1>15. Returned'
  BY <1>3, <1>10 DEF Returned
<1>16. Accounted'
  <2>1. ASSUME One("jprobe") \notin failed'
        PROVE  held' \subseteq ToSet(todo') \cup {One("skb_wq"), One("bucket_clear")}
    <3>1. r # One("jprobe")
      BY <1>10, <2>1
    <3>2. \A x \in held' : x \in Resources /\ Earlier(x, r)
      BY <1>3, <1>6, <1>11
    <3>. QED BY <1>7, <1>8, <1>9, <3>1, <3>2 DEF Released
  <2>2. ASSUME Name(failed') \subseteq {"skb_wq", "reserve_file", "slab", "bitmap"}
        PROVE  One("bucket_clear") \notin held'
    <3>1. r[1] \in {"skb_wq", "reserve_file", "slab", "bitmap"}
      BY <1>10, <2>2 DEF Name
    <3>2. Rank(r[1]) <= 4 /\ Rank(One("bucket_clear")[1]) = 7
      BY <3>1 DEF Rank, One
    <3>3. ~Earlier(One("bucket_clear"), r)
      BY <3>2, EarlierRank, RankType
    <3>. QED BY <1>3, <1>6, <1>11, <3>3
  <2>. QED BY <1>3, <2>1, <2>2 DEF Accounted
<1>17. Safe'
  <2>1. ASSUME ~Unsafe(failed'), NEW x \in ToSet(todo') PROVE Harmless(x)'
    <3>1. ~Unsafe({r})
      BY <1>10, <2>1
    <3>2. x \in Resources /\ \/ Earlier(x, r)
                             \/ x[1] \in {"slab", "bitmap"}
                             \/ x = r /\ x[1] = "reserve_file"
      BY <1>7, <1>8, <1>9, <3>1 DEF Released
    <3>3. gone = {}
      BY <1>2, <3>1 DEF Unsafe, Name, One
    <3>4. x # One("hash_flush")
      BY <1>3, <3>2, Flush
    <3>5. CASE Earlier(x, r)
      <4>1. x \in held /\ x # r
        BY <1>6, <3>2, <3>5
      <4>2. ptr'[x] = "valid"
        BY <1>11, <1>12, <3>2, <3>3, <4>1
      <4>. QED BY <3>4, <4>2 DEF Harmless, Usable
    <3>6. CASE x[1] \in {"slab", "bitmap"}
      <4>1. ptr'[x] = ptr[x] /\ ptr[x] \in {"valid", "null"}
        BY <1>5, <1>12, <3>2, <3>3, <3>6
      <4>. QED BY <3>4, <3>6, <4>1 DEF Harmless, Usable, Skipped
    <3>7. CASE x = r /\ x[1] = "reserve_file"
      <4>1. ptr'[x] = "error"
        BY <1>12, <3>2, <3>3, <3>7
      <4>. QED BY <3>4, <3>7, <4>1 DEF Harmless, Skipped
    <3>. QED BY <3>2, <3>5, <3>6, <3>7
  <2>. QED BY <1>3, <2>1 DEF Safe
<1>18. One("sha1") \in held' => users' = 1
  BY <1>3, <1>11
<1>. QED BY <1>3, <1>7, <1>9, <1>13, <1>14, <1>15, <1>16, <1>17, <1>18
         DEF LoadInv, Acquired, NoBadRelease

LEMMA HeadTail ==
    ASSUME NEW S, NEW s \in Seq(S), s # << >>,
           \A j, k \in 1 .. Len(s) : j < k => InOrder(s[j], s[k])
    PROVE  /\ Tail(s) \in Seq(S) /\ Head(s) \in S
           /\ ToSet(s) = {Head(s)} \cup ToSet(Tail(s))
           /\ \A x \in ToSet(Tail(s)) : InOrder(Head(s), x)
           /\ \A j, k \in 1 .. Len(Tail(s)) : j < k => InOrder(Tail(s)[j], Tail(s)[k])
<1>1. PICK n, t : n = Len(s) /\ t = Tail(s)
  OBVIOUS
<1>2. /\ n \in Nat \ {0} /\ DOMAIN s = 1 .. n
      /\ t \in Seq(S) /\ Len(t) = n - 1 /\ DOMAIN t = 1 .. n - 1
      /\ Head(s) = s[1] /\ \A i \in 1 .. n - 1 : t[i] = s[i + 1]
  BY <1>1, EmptySeq, LenProperties, HeadTailProperties
<1>3. Head(s) \in S
  BY <1>1, <1>2, ElementOfSeq
<1>4. \A i \in 1 .. n - 1 : i + 1 \in 1 .. n /\ 1 < i + 1
  BY <1>2
<1>5. \A i \in 2 .. n : i - 1 \in 1 .. n - 1 /\ (i - 1) + 1 = i
  BY <1>2
<1>6. \A i \in 1 .. n : i = 1 \/ i \in 2 .. n
  BY <1>2
<1>7. ToSet(s) = {Head(s)} \cup ToSet(t)
  <2>1. ASSUME NEW x \in ToSet(s) PROVE x \in {Head(s)} \cup ToSet(t)
    <3>1. PICK i \in 1 .. n : x = s[i]
      BY <1>2 DEF ToSet
    <3>2. i \in 2 .. n => s[i] = t[i - 1]
      BY <1>2, <1>5
    <3>. QED BY <1>2, <1>5, <1>6, <3>1, <3>2 DEF ToSet
  <2>2. ASSUME NEW x \in ToSet(t) PROVE x \in ToSet(s)
    <3>1. PICK i \in 1 .. n - 1 : x = t[i]
      BY <1>2 DEF ToSet
    <3>. QED BY <1>2, <1>4, <3>1 DEF ToSet
  <2>3. Head(s) \in ToSet(s)
    BY <1>2 DEF ToSet
  <2>. QED BY <2>1, <2>2, <2>3
<1>8. ASSUME NEW x \in ToSet(t) PROVE InOrder(Head(s), x)
  <2>1. PICK i \in 1 .. n - 1 : x = s[i + 1]
    BY <1>2 DEF ToSet
  <2>2. 1 \in 1 .. n /\ i + 1 \in 1 .. n /\ 1 < i + 1
    BY <1>2, <1>4
  <2>. QED BY <1>1, <1>2, <2>1, <2>2
<1>9. ASSUME NEW j \in 1 .. n - 1, NEW k \in 1 .. n - 1, j < k PROVE InOrder(t[j], t[k])
  <2>1. j + 1 \in 1 .. n /\ k + 1 \in 1 .. n /\ j + 1 < k + 1
    BY <1>2, <1>4, <1>9
  <2>. QED BY <1>1, <1>2, <2>1
<1>. QED BY <1>1, <1>2, <1>3, <1>7, <1>8, <1>9

\* A release that does not crash takes its resource from what is held, and no other.
LEMMA ReleaseShape ==
    ASSUME LoadInv, Release, NEW r, r = Head(todo)
    PROVE  \/ /\ pc' = "crashed" /\ ~Harmless(r)
              /\ ptr' = ptr /\ held' = held /\ users' = users
           \/ /\ pc' = pc /\ held' = held \ {r} /\ users' \in 0 .. Word - 1
              /\ ptr' \in [Resources -> {"null", "valid", "error", "stale"}]
              /\ \A x \in Resources : x # r => ptr'[x] = ptr[x]
              /\ r \in Resources => ptr'[r] # "valid"
              /\ One("sha1") \in held' => users' = users
<1>1. /\ module \in {"wspack", "send"} /\ users \in 0 .. Word - 1
      /\ ptr \in [Resources -> {"null", "valid", "error", "stale"}]
      /\ held = {x \in Resources : ptr[x] = "valid"}
      /\ One("sha1") \in held => users = 1
  BY DEF LoadInv, TypeOK
<1>2. Word \in Nat \ {0, 1}
  BY LifecycleAssumption
<1>3. One("hash_flush") \notin Resources /\ One("sha1") # One("hash_flush")
  BY <1>1, Flush DEF One
<1>4. CASE /\ r = One("sha1")
           /\ users' = OneUserLess
           /\ held' = IF users' = 0 THEN held \ {r} ELSE held
           /\ ptr' = IF users' = 0 THEN [ptr EXCEPT ![r] = "null"] ELSE ptr
           /\ UNCHANGED pc
  <2>1. users' \in 0 .. Word - 1 /\ (users = 1 => users' = 0)
    <3>1. (users + Word - 1) % Word \in 0 .. Word - 1
      BY <1>1, <1>2
    <3>2. users = 1 => (users + Word - 1) % Word = 0
      <4>1. Word % Word = 0
        BY <1>2
      <4>2. users = 1 => users + Word - 1 = Word
        BY <1>2
      <4>. QED BY <4>1, <4>2
    <3>. QED BY <1>4, <3>1, <3>2 DEF OneUserLess
  <2>2. CASE users' = 0
    BY <1>1, <1>4, <2>1, <2>2
  <2>3. CASE users' # 0
    <3>1. r \notin held
      BY <1>1, <1>4, <2>1, <2>3
    <3>2. held' = held \ {r} /\ ptr' = ptr /\ pc' = pc
      BY <1>4, <2>3, <3>1
    <3>3. r \in Resources => ptr[r] # "valid"
      BY <1>1, <3>1
    <3>4. One("sha1") \notin held'
      BY <1>4, <3>2
    <3>. QED BY <1>1, <2>1, <3>2, <3>3, <3>4
  <2>. QED BY <2>2, <2>3
<1>5. CASE /\ r # One("sha1") /\ r # One("hash_flush") /\ Skipped(r)
           /\ UNCHANGED <<pc, ptr, held, users>>
  <2>1. ptr[r] # "valid"
    BY <1>5 DEF Skipped
  <2>. QED BY <1>1, <1>5, <2>1
<1>6. CASE /\ r = One("hash_flush") /\ Usable(r)
           /\ UNCHANGED <<pc, ptr, held, users>>
  BY <1>1, <1>3, <1>6
<1>7. CASE /\ r \notin {One("sha1"), One("hash_flush")} /\ ~Skipped(r) /\ Usable(r)
           /\ ptr' = [ptr EXCEPT ![r] = "stale"]
           /\ held' = held \ {r}
           /\ UNCHANGED <<pc, users>>
  BY <1>1, <1>7
<1>8. CASE /\ r # One("sha1") /\ (r # One("hash_flush") => ~Skipped(r)) /\ ~Usable(r)
           /\ pc' = "crashed"
           /\ UNCHANGED <<ptr, held, users>>
  BY <1>8 DEF Harmless
<1>. QED BY <1>4, <1>5, <1>6, <1>7, <1>8 DEF Release

LEMMA ReleaseLoad == LoadInv /\ Release => LoadInv'
<1>. SUFFICES ASSUME LoadInv, Release PROVE LoadInv'
  OBVIOUS
<1>1. PICK r : r = Head(todo)
  OBVIOUS
<1>2. /\ module \in {"wspack", "send"} /\ module' = module /\ pc \in {"unwind", "exit"}
      /\ todo # << >> /\ todo' = Tail(todo)
      /\ next' = next /\ err' = err /\ failed' = failed
  BY DEF LoadInv, TypeOK, Release
<1>3. Resources' = Resources /\ AllocOrder' = AllocOrder
  BY <1>2, Same
<1>4. /\ todo' \in Seq(Resources \cup {One("hash_flush")})
      /\ ToSet(todo) = {r} \cup ToSet(todo')
      /\ \A x \in ToSet(todo') : InOrder(r, x)
      /\ Proper'
  <2>1. todo \in Seq(Resources \cup {One("hash_flush")})
        /\ \A j, k \in 1 .. Len(todo) : j < k => InOrder(todo[j], todo[k])
    BY DEF LoadInv, TypeOK, Proper
  <2>2. \A j, k \in 1 .. Len(todo') : j < k => InOrder(todo'[j], todo'[k])
    BY <1>2, <2>1, HeadTail
  <2>3. Proper'
    BY <2>2 DEF Proper
  <2>. QED BY <1>1, <1>2, <2>1, <2>3, HeadTail
<1>5. ToSet(todo') \subseteq Resources \cup {One("hash_flush")}
  BY <1>4 DEF ToSet
<1>6. /\ held = {x \in Resources : ptr[x] = "valid"} /\ users \in 0 .. Word - 1
      /\ One("sha1") \in held => users = 1
      /\ ptr \in [Resources -> {"null", "valid", "error", "stale"}]
  BY DEF LoadInv, TypeOK
<1>7. CASE /\ pc' = "crashed" /\ ~Harmless(r)
           /\ ptr' = ptr /\ held' = held /\ users' = users
  <2>1. Unsafe(failed)
    BY <1>2, <1>4, <1>7 DEF LoadInv, Safe
  <2>2. TypeOK'
    BY <1>2, <1>3, <1>4, <1>7 DEF LoadInv, TypeOK
  <2>. QED BY <1>2, <1>3, <1>4, <1>6, <1>7, <2>1, <2>2
           DEF LoadInv, Acquired, Returned, Accounted, Safe, NoBadRelease
<1>8. CASE /\ pc' = pc /\ held' = held \ {r} /\ users' \in 0 .. Word - 1
           /\ ptr' \in [Resources -> {"null", "valid", "error", "stale"}]
           /\ \A x \in Resources : x # r => ptr'[x] = ptr[x]
           /\ r \in Resources => ptr'[r] # "valid"
           /\ One("sha1") \in held' => users' = users
  <2>1. held' = {x \in Resources : ptr'[x] = "valid"}
    BY <1>6, <1>8
  <2>2. TypeOK'
    <3>1. held' \in SUBSET Resources
      BY <2>1
    <3>. QED BY <1>2, <1>3, <1>4, <1>8, <3>1 DEF LoadInv, TypeOK
  <2>3. One("sha1") \in held' => users' = 1
    BY <1>6, <1>8
  <2>4. Accounted'
    <3>1. Accounted
      BY DEF LoadInv
    <3>2. \A Y : held \subseteq ToSet(todo) \cup Y => held' \subseteq ToSet(todo') \cup Y
      BY <1>4, <1>8
    <3>3. pc # "unloaded" /\ pc # "failed" /\ held' \subseteq held
      BY <1>2, <1>8
    <3>. QED BY <1>2, <1>8, <3>1, <3>2, <3>3 DEF Accounted
  <2>5. ASSUME ~Unsafe(failed), NEW x \in ToSet(todo') PROVE Harmless(x)'
    <3>1. Harmless(x) /\ InOrder(r, x)
      BY <1>2, <1>4, <2>5 DEF LoadInv, Safe
    <3>2. CASE x = One("hash_flush")
      <4>1. ptr[One("hash_tab")] = "valid" /\ ptr[One("timers")] = "valid"
        BY <3>1, <3>2 DEF Harmless, Usable
      <4>2. r # One("hash_tab") /\ r # One("timers")
        BY <3>1, <3>2 DEF InOrder
      <4>3. One("hash_tab") \in Resources /\ One("timers") \in Resources
        BY <1>2, ResourcesAre DEF AllocSet, TableSet
      <4>4. ptr'[One("hash_tab")] = "valid" /\ ptr'[One("timers")] = "valid"
        BY <1>8, <4>1, <4>2, <4>3
      <4>. QED BY <3>2, <4>4 DEF Harmless, Usable
    <3>3. CASE x # One("hash_flush")
      <4>1. x \in Resources /\ x # r
        BY <1>5, <3>1, <3>3 DEF InOrder
      <4>2. ptr'[x] = ptr[x]
        BY <1>8, <4>1
      <4>. QED BY <3>1, <3>3, <4>2 DEF Harmless, Usable, Skipped
    <3>. QED BY <3>2, <3>3
  <2>6. Safe'
    BY <1>2, <1>8, <2>5 DEF Safe
  <2>7. Returned'
    BY <1>2, <1>8 DEF LoadInv, Returned
  <2>. QED BY <1>2, <1>3, <1>4, <1>8, <2>1, <2>2, <2>3, <2>4, <2>6, <2>7
           DEF LoadInv, Acquired, NoBadRelease
<1>. QED BY <1>1, <1>7, <1>8, ReleaseShape

LEMMA InitReturnsLoad == LoadInv /\ InitReturns => LoadInv'
<1>. SUFFICES ASSUME LoadInv, InitReturns PROVE LoadInv'
  OBVIOUS
<1>1. /\ module \in {"wspack", "send"} /\ pc = "init" /\ pc' = "loaded" /\ next > Len(AllocOrder)
      /\ UNCHANGED <<module, next, todo, ptr, held, users, err, failed>>
  BY DEF LoadInv, TypeOK, InitReturns
<1>2. Resources' = Resources /\ AllocOrder' = AllocOrder
  BY <1>1, Same
<1>3. AllocOrder \in Seq(Things) /\ Len(AllocOrder) \in Nat /\ DOMAIN AllocOrder = 1 .. Len(AllocOrder)
  BY <1>1, AllocBlock, LenProperties DEF Block
<1>4. 1 .. next - 1 = DOMAIN AllocOrder
  BY <1>1, <1>3 DEF LoadInv, TypeOK
<1>5. held = Resources
  BY <1>1, <1>4 DEF LoadInv, Acquired, Resources, ToSet
<1>6. TypeOK' /\ Proper'
  BY <1>1, <1>2 DEF LoadInv, TypeOK, Proper
<1>. QED BY <1>1, <1>2, <1>5, <1>6
         DEF LoadInv, Acquired, Returned, Accounted, Safe, NoBadRelease

LEMMA UnwindReturnsLoad == LoadInv /\ UnwindReturns => LoadInv'
<1>. SUFFICES ASSUME LoadInv, UnwindReturns PROVE LoadInv'
  OBVIOUS
<1>1. /\ pc = "unwind" /\ todo = << >> /\ pc' = (IF err THEN "failed" ELSE "loaded")
      /\ UNCHANGED <<module, next, todo, ptr, held, users, err, failed>>
  BY DEF UnwindReturns
<1>2. Resources' = Resources /\ AllocOrder' = AllocOrder
  BY <1>1, Same
<1>3. TypeOK' /\ Proper'
  BY <1>1, <1>2 DEF LoadInv, TypeOK, Proper
<1>4. CASE err
  <2>1. pc' = "failed"
    BY <1>1, <1>4
  <2>2. Accounted'
    BY <1>1, <2>1 DEF LoadInv, Accounted
  <2>. QED BY <1>1, <1>2, <1>3, <1>4, <2>1, <2>2
           DEF LoadInv, Acquired, Returned, Safe, NoBadRelease
<1>5. CASE ~err
  <2>1. pc' = "loaded"
    BY <1>1, <1>5
  <2>2. failed = {One("sha1")}
    BY <1>1, <1>5 DEF LoadInv, Returned
  <2>3. Unsafe(failed)
    BY <2>2 DEF Unsafe, Name, One
  <2>. QED BY <1>1, <1>2, <1>3, <1>5, <2>1, <2>3
           DEF LoadInv, Acquired, Returned, Accounted, Safe, NoBadRelease
<1>. QED BY <1>4, <1>5

LEMMA UnloadLoad == LoadInv /\ Unload => LoadInv'
<1>. SUFFICES ASSUME LoadInv, Unload PROVE LoadInv'
  OBVIOUS
<1>1. /\ module \in {"wspack", "send"} /\ pc = "loaded" /\ pc' = "exit" /\ todo' = ExitOrder
      /\ UNCHANGED <<module, next, ptr, held, users, err, failed>>
  BY DEF LoadInv, TypeOK, Unload, Exit
<1>2. Resources' = Resources /\ AllocOrder' = AllocOrder /\ Resources = AllocSet
  BY <1>1, Same, ResourcesAre
<1>3. todo' \in Seq(ExitSet) /\ ToSet(todo') = ExitSet
  BY <1>1, ExitBlock, BlockFacts
<1>4. Proper'
  <2>1. \A j, k \in 1 .. Len(todo') : j < k => InOrder(todo'[j], todo'[k])
    BY <1>1, ExitBlock, BlockFacts
  <2>. QED BY <2>1 DEF Proper
<1>5. ExitSet \subseteq Resources \cup {One("hash_flush")}
  BY <1>2 DEF ExitSet
<1>6. TypeOK'
  <2>1. todo' \in Seq(Resources \cup {One("hash_flush")})
    BY <1>3, <1>5, SeqMonotonic
  <2>. QED BY <1>1, <1>2, <2>1 DEF LoadInv, TypeOK
<1>7. Accounted'
  <2>1. held \subseteq ExitSet \cup {One("bucket_clear")}
    BY <1>2 DEF LoadInv, TypeOK, ExitSet
  <2>. QED BY <1>1, <1>3, <2>1 DEF Accounted
<1>8. Safe'
  <2>1. ASSUME ~Unsafe(failed), NEW x \in ToSet(todo') PROVE Harmless(x)'
    <3>1. \A y \in Resources : ptr[y] = "valid"
      BY <1>1, <2>1 DEF LoadInv, Safe
    <3>2. One("hash_tab") \in Resources /\ One("timers") \in Resources
      BY <1>2 DEF AllocSet, TableSet
    <3>3. x = One("hash_flush") \/ x \in Resources
      BY <1>3, <1>5
    <3>4. Usable(x)
      BY <3>1, <3>2, <3>3 DEF Usable
    <3>. QED BY <1>1, <3>4 DEF Harmless, Usable
  <2>. QED BY <1>1, <2>1 DEF Safe
<1>. QED BY <1>1, <1>2, <1>4, <1>6, <1>7, <1>8
         DEF LoadInv, Acquired, Returned, NoBadRelease

LEMMA ExitReturnsLoad == LoadInv /\ ExitReturns => LoadInv'
<1>. SUFFICES ASSUME LoadInv, ExitReturns PROVE LoadInv'
  OBVIOUS
<1>1. /\ pc = "exit" /\ todo = << >> /\ pc' = "unloaded"
      /\ UNCHANGED <<module, next, todo, ptr, held, users, err, failed>>
  BY DEF ExitReturns
<1>2. Resources' = Resources /\ AllocOrder' = AllocOrder
  BY <1>1, Same
<1>3. TypeOK' /\ Proper'
  BY <1>1, <1>2 DEF LoadInv, TypeOK, Proper
<1>. QED BY <1>1, <1>2, <1>3
         DEF LoadInv, Acquired, Returned, Accounted, Safe, NoBadRelease

LEMMA StutterLoad == LoadInv /\ UNCHANGED vars => LoadInv'
<1>. SUFFICES ASSUME LoadInv, UNCHANGED vars PROVE LoadInv'
  OBVIOUS
<1>1. UNCHANGED <<module, pc, next, todo, ptr, held, users, err, failed>>
  BY DEF vars
<1>2. Resources' = Resources /\ AllocOrder' = AllocOrder
  BY <1>1, Same
<1>3. TypeOK' /\ Proper' /\ Acquired' /\ Returned' /\ Accounted'
  BY <1>1, <1>2 DEF LoadInv, TypeOK, Proper, Acquired, Returned, Accounted
<1>4. Safe' /\ NoBadRelease'
  BY <1>1, <1>2 DEF LoadInv, Safe, NoBadRelease, Harmless, Usable, Skipped
<1>. QED BY <1>1, <1>2, <1>3, <1>4 DEF LoadInv

\* minit, its labels and mexit keep LoadInv: what the kernel holds is what the module's
\* pointers denote and what is still to be released, but for what the code forgets.
THEOREM LoadInvariant == Spec => []LoadInv
<1>1. LoadInv /\ [Next]_vars => LoadInv'
  <2>. SUFFICES ASSUME LoadInv, [Next]_vars PROVE LoadInv'
    OBVIOUS
  <2>1. CASE Acquire
    BY <2>1, AcquireLoad
  <2>2. CASE AcquireFails
    BY <2>2, AcquireFailsLoad
  <2>3. CASE InitReturns
    BY <2>3, InitReturnsLoad
  <2>4. CASE Release
    BY <2>4, ReleaseLoad
  <2>5. CASE UnwindReturns
    BY <2>5, UnwindReturnsLoad
  <2>6. CASE Unload
    BY <2>6, UnloadLoad
  <2>7. CASE ExitReturns
    BY <2>7, ExitReturnsLoad
  <2>8. CASE Ended \/ UNCHANGED vars
    BY <2>8, StutterLoad DEF Ended
  <2>. QED BY <2>1, <2>2, <2>3, <2>4, <2>5, <2>6, <2>7, <2>8 DEF Next
<1>. QED BY <1>1, InitLoad, PTL DEF Spec

\* The labels and mexit release nothing that is not there, unless a file but the last, a
\* part of the table, a hook or the pool could not be acquired.
THEOREM ReleasesAreSafe == Spec => []NoBadRelease
<1>1. LoadInv => NoBadRelease
  BY DEF LoadInv
<1>. QED BY <1>1, LoadInvariant, PTL

\* An unload leaves nothing but bucket_clear; a load that fails leaves no timer, hook or
\* work queue of the table, and up to the bitmaps nothing but skb_wq.
THEOREM LeavesLittle == Spec => []Leftovers
<1>1. LoadInv => Leftovers
  <2>. SUFFICES ASSUME LoadInv PROVE Leftovers
    OBVIOUS
  <2>1. pc \in {"unloaded", "failed"} => ToSet(todo) = {}
    BY DEF LoadInv, ToSet
  <2>2. pc = "unloaded" => held \subseteq {One("bucket_clear")}
    BY <2>1 DEF LoadInv, Accounted
  <2>3. pc = "failed" /\ One("jprobe") \notin failed =>
            held \subseteq {One("skb_wq"), One("bucket_clear")}
    BY <2>1 DEF LoadInv, Accounted
  <2>4. ASSUME held \subseteq {One("skb_wq"), One("bucket_clear")}
        PROVE  Name(held) \cap {"timers", "nf_in", "nf_out", "jprobe", "writeread_wq"} = {}
    <3>1. \A x \in held : x[1] \in {"skb_wq", "bucket_clear"}
      BY <2>4 DEF One
    <3>. QED BY <3>1 DEF Name
  <2>5. ASSUME pc = "failed", Name(failed) \subseteq {"skb_wq", "reserve_file", "slab", "bitmap"}
        PROVE  held \subseteq {One("skb_wq")}
    <3>1. One("jprobe") \notin failed
      BY <2>5 DEF Name, One
    <3>. QED BY <2>3, <2>5, <3>1 DEF LoadInv, Accounted
  <2>. QED BY <2>2, <2>3, <2>4, <2>5 DEF Leftovers
<1>. QED BY <1>1, LoadInvariant, PTL

\* Every variable keeps its type.
THEOREM LifecycleTypes == Spec => []TypeOK
<1>1. LoadInv => TypeOK
  BY DEF LoadInv
<1>. QED BY <1>1, LoadInvariant, PTL
=============================================================================
