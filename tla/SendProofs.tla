----------------------------- MODULE SendProofs -----------------------------
(***************************************************************************)
(* The sender's output hook, for any number of CPUs, packets, chunks and    *)
(* items: its counters, its teardown, the size replace_skb arrives at, that *)
(* its table implements DedupCache, and that what it replaces has been sent.*)
(***************************************************************************)
EXTENDS Send, ProofLib

-----------------------------------------------------------------------------
(* The two loops *)

\* The loop of Sum: any function that starts at 0 and adds the lengths one by one ends
\* in it.
LEMMA SumIs ==
    ASSUME NEW s \in Seq(Chunks), NEW w \in [0 .. Len(s) -> Nat], w[0] = 0,
           \A k \in 1 .. Len(s) : w[k] = w[k - 1] + Length[s[k]]
    PROVE  Sum(s) = w[Len(s)]
<1>1. PICK n \in Nat : n = Len(s)
  OBVIOUS
<1>. DEFINE Body(f) == [k \in 0 .. Len(s) |-> IF k = 0 THEN 0 ELSE f[k - 1] + Length[s[k]]]
<1>8. w = Body(w)
  OBVIOUS
<1>9. PICK sum : sum = CHOOSE f : f = Body(f)
  OBVIOUS
<1>10. sum = Body(sum)
  BY <1>8, <1>9
<1>11. sum[0] = w[0] /\ \A k \in 1 .. n : sum[k - 1] = w[k - 1] => sum[k] = w[k]
  <2>1. sum[0] = 0
    BY <1>10, <1>1
  <2>2. \A k \in 1 .. n : sum[k] = sum[k - 1] + Length[s[k]]
    BY <1>10, <1>1
  <2>. QED BY <2>1, <2>2, <1>1
<1>12. \A k \in 0 .. n : sum[k] = w[k]
  <2>1. InStep(sum, w, n)
    BY <1>11 DEF InStep
  <2>2. Agree(sum, w, n)
    BY <2>1, InStepAgree
  <2>. QED BY <2>2 DEF Agree
<1>13. Sum(s) = sum[Len(s)]
  BY <1>9 DEF Sum
<1>. QED BY <1>1, <1>12, <1>13

\* w[k] is where the chunk after the first k of s begins.
Places(s, w) ==
    /\ w \in [0 .. Len(s) -> Nat] /\ w[0] = 0
    /\ \A k \in 1 .. Len(s) : w[k] = w[k - 1] + Length[s[k]]
LEMMA PlacesExist ==
    ASSUME NEW s \in Seq(Chunks)
    PROVE  \E w : Places(s, w)
<1>1. PICK n \in Nat : n = Len(s)
  OBVIOUS
<1>2. PICK turn : turn = [k \in 1 .. n |-> [r \in Nat |-> r + Length[s[k]]]]
  OBVIOUS
<1>3. \A k \in 1 .. n : Length[s[k]] \in Nat
  BY <1>1, SendAssumption
<1>4. turn \in [1 .. n -> [Nat -> Nat]]
  <2>1. \A k \in 1 .. n : [r \in Nat |-> r + Length[s[k]]] \in [Nat -> Nat]
    BY <1>3
  <2>. QED BY <1>2, <2>1
<1>5. PICK w \in [0 .. n -> Nat] : IsLoop(w, n, 0, turn)
  BY <1>4, LoopExists
<1>6. \A k \in 1 .. n : w[k - 1] \in Nat /\ w[k] = w[k - 1] + Length[s[k]]
  <2>. TAKE k \in 1 .. n
  <2>1. w[k - 1] \in Nat /\ w[k] = turn[k][w[k - 1]]
    BY <1>5 DEF IsLoop
  <2>. QED BY <2>1, <1>2
<1>7. w[0] = 0
  BY <1>5 DEF IsLoop
<1>. QED BY <1>1, <1>6, <1>7 DEF Places

\* The length of a payload is a number.
LEMMA SumType ==
    ASSUME NEW s \in Seq(Chunks)
    PROVE  Sum(s) \in Nat
<1>1. PICK w : Places(s, w)
  BY PlacesExist
<1>2. Sum(s) = w[Len(s)]
  BY <1>1, SumIs DEF Places
<1>. QED BY <1>1, <1>2 DEF Places

LoopState == [index: Int, last: Int, bug: BOOLEAN]
LoopStart == [index |-> 0, last |-> 0, bug |-> FALSE]

LEMMA ReplaceType ==
    ASSUME NEW w \in LoopState, NEW cp \in ReplaceItem
    PROVE  Replace(w, cp) \in LoopState
BY SendAssumption DEF LoopState, ReplaceItem, Replace

\* replace_skb's loop over a hand_list, as a function of the turn.
LEMMA ReplacedLoop ==
    ASSUME NEW s \in Seq(ReplaceItem)
    PROVE  \E w \in [0 .. Len(s) -> LoopState] :
             /\ w[0] = LoopStart /\ \A k \in 1 .. Len(s) : w[k] = Replace(w[k - 1], s[k])
             /\ Replaced(s) = w[Len(s)]
<1>1. PICK n \in Nat : n = Len(s)
  OBVIOUS
<1>2. PICK turn : turn = [k \in 1 .. n |-> [r \in LoopState |-> Replace(r, s[k])]]
  OBVIOUS
<1>3. \A k \in 1 .. n : s[k] \in ReplaceItem
  BY <1>1
<1>4. turn \in [1 .. n -> [LoopState -> LoopState]]
  <2>1. \A k \in 1 .. n : [r \in LoopState |-> Replace(r, s[k])] \in [LoopState -> LoopState]
    BY <1>3, ReplaceType
  <2>. QED BY <1>2, <2>1
<1>5. LoopStart \in LoopState
  BY DEF LoopState, LoopStart
<1>6. PICK w \in [0 .. n -> LoopState] : IsLoop(w, n, LoopStart, turn)
  BY <1>4, <1>5, LoopExists
<1>7. \A k \in 1 .. n : w[k] = Replace(w[k - 1], s[k])
  <2>. TAKE k \in 1 .. n
  <2>1. w[k - 1] \in LoopState
    OBVIOUS
  <2>2. w[k] = turn[k][w[k - 1]]
    BY <1>6 DEF IsLoop
  <2>. QED BY <2>1, <2>2, <1>2
<1>8. w[0] = LoopStart
  BY <1>6 DEF IsLoop
<1>. DEFINE Body(f) == [k \in 0 .. Len(s) |-> IF k = 0 THEN LoopStart ELSE Replace(f[k - 1], s[k])]
<1>9. w = Body(w)
  <2>1. ASSUME NEW k \in 0 .. n, k # 0 PROVE w[k] = Replace(w[k - 1], s[k])
    BY <1>7, <2>1
  <2>. QED BY <1>1, <1>8, <2>1
<1>10. PICK run : run = CHOOSE f : f = Body(f)
  OBVIOUS
<1>11. run = Body(run)
  BY <1>9, <1>10
<1>12. run[0] = w[0]
  BY <1>8, <1>11, <1>1
<1>13. ASSUME NEW k \in 1 .. n, run[k - 1] = w[k - 1] PROVE run[k] = w[k]
  <2>1. run[k] = Replace(run[k - 1], s[k])
    BY <1>11, <1>1
  <2>. QED BY <2>1, <1>7, <1>13
<1>14. \A k \in 0 .. n : run[k] = w[k]
  <2>1. InStep(run, w, n)
    BY <1>12, <1>13 DEF InStep
  <2>2. Agree(run, w, n)
    BY <2>1, InStepAgree
  <2>. QED BY <2>2 DEF Agree
<1>15. Replaced(s) = run[Len(s)]
  BY <1>10 DEF Replaced, LoopStart
<1>. QED BY <1>1, <1>7, <1>8, <1>14, <1>15

LEMMA ReplacedEmpty == Replaced(<< >>) = LoopStart
<1>1. << >> \in Seq(ReplaceItem) /\ Len(<< >>) = 0
  OBVIOUS
<1>. QED BY <1>1, ReplacedLoop

\* One more replace_item is one more turn.
LEMMA ReplacedAppend ==
    ASSUME NEW s \in Seq(ReplaceItem), NEW e \in ReplaceItem
    PROVE  /\ Replaced(s) \in LoopState
           /\ Replaced(s \o <<e>>) = Replace(Replaced(s), e)
<1>1. PICK t : t = s \o <<e>>
  OBVIOUS
<1>2. PICK n \in Nat : n = Len(s)
  OBVIOUS
<1>3. /\ t \in Seq(ReplaceItem) /\ Len(t) = n + 1
      /\ t[n + 1] = e /\ \A k \in 1 .. n : t[k] = s[k]
  <2>1. <<e>> \in Seq(ReplaceItem) /\ Len(<<e>>) = 1 /\ <<e>>[1] = e
    OBVIOUS
  <2>. QED BY <1>1, <1>2, <2>1
<1>4. PICK v \in [0 .. n -> LoopState] :
        /\ v[0] = LoopStart /\ \A k \in 1 .. n : v[k] = Replace(v[k - 1], s[k])
        /\ Replaced(s) = v[n]
  BY <1>2, ReplacedLoop
<1>5. PICK w \in [0 .. n + 1 -> LoopState] :
        /\ w[0] = LoopStart /\ \A k \in 1 .. n + 1 : w[k] = Replace(w[k - 1], t[k])
        /\ Replaced(t) = w[n + 1]
  BY <1>3, ReplacedLoop
<1>6. ASSUME NEW k \in 1 .. n, v[k - 1] = w[k - 1] PROVE v[k] = w[k]
  <2>1. k \in 1 .. n + 1
    OBVIOUS
  <2>. QED BY <2>1, <1>3, <1>4, <1>5, <1>6
<1>7. v[0] = w[0]
  BY <1>4, <1>5
<1>8. \A k \in 0 .. n : v[k] = w[k]
  <2>1. InStep(v, w, n)
    BY <1>6, <1>7 DEF InStep
  <2>2. Agree(v, w, n)
    BY <2>1, InStepAgree
  <2>. QED BY <2>2 DEF Agree
<1>9. w[n + 1] = Replace(w[n], t[n + 1])
  BY <1>5
<1>. QED BY <1>1, <1>3, <1>4, <1>5, <1>8, <1>9

-----------------------------------------------------------------------------
(* What a step of one hook does to ctx *)

Pcs == {"idle", "chunk", "leave"} \cup Working

\* Only the hook in context x moves.
Others(x) == ctx' \in [Contexts -> HookRec] /\ \A y \in Contexts \ {x} : ctx'[y] = ctx[y]

\* It stays at its chunk.
Same(x) ==
    /\ ctx'[x].data = ctx[x].data /\ ctx'[x].k = ctx[x].k /\ ctx'[x].start = ctx[x].start
    /\ ctx'[x].new_len = ctx[x].new_len /\ ctx'[x].hand_list = ctx[x].hand_list

LEMMA CtxSet ==
    ASSUME TypeOK, NEW x \in Contexts, NEW v \in HookRec, ctx' = [ctx EXCEPT ![x] = v]
    PROVE  Others(x) /\ ctx'[x] = v
BY DEF TypeOK, Others

LEMMA FieldTypes ==
    ASSUME TypeOK, NEW x \in Contexts
    PROVE  /\ ctx[x] \in HookRec /\ ctx[x].pc \in Pcs /\ ctx[x].data \in Seq(Chunks)
           /\ ctx[x].k \in Nat \ {0} /\ ctx[x].start \in Nat /\ ctx[x].dst \in Digests \cup {None}
           /\ ctx[x].item \in Items \cup {None} /\ ctx[x].new_len \in Int
           /\ ctx[x].hand_list \in Seq(ReplaceItem)
BY DEF TypeOK, HookRec, Pcs

LEMMA GotoShape ==
    ASSUME TypeOK, NEW x \in Contexts, NEW to \in Pcs, Goto(x, to)
    PROVE  /\ Others(x) /\ Same(x) /\ ctx'[x].pc = to
           /\ ctx'[x].dst = ctx[x].dst /\ ctx'[x].item = ctx[x].item
<1>1. PICK v : v = [ctx[x] EXCEPT !.pc = to]
  OBVIOUS
<1>2. /\ v \in HookRec /\ v.pc = to /\ v.dst = ctx[x].dst /\ v.item = ctx[x].item
      /\ v.data = ctx[x].data /\ v.k = ctx[x].k /\ v.start = ctx[x].start
      /\ v.new_len = ctx[x].new_len /\ v.hand_list = ctx[x].hand_list
  BY <1>1, FieldTypes DEF HookRec, Pcs
<1>3. ctx' = [ctx EXCEPT ![x] = v]
  BY <1>1 DEF Goto, TypeOK
<1>. QED BY <1>2, <1>3, CtxSet DEF Same

\* On to the next chunk.
Moved(x, r, saved) ==
    /\ ctx'[x].pc = "chunk" /\ ctx'[x].data = ctx[x].data /\ ctx'[x].k = ctx[x].k + 1
    /\ ctx'[x].start = ctx[x].start + Length[Chunk(x)]
    /\ ctx'[x].new_len = ctx[x].new_len - saved /\ ctx'[x].hand_list = ctx[x].hand_list \o r

LEMMA ChunkType ==
    ASSUME TypeOK, NEW x \in Contexts, ctx[x].k <= Len(ctx[x].data)
    PROVE  Chunk(x) \in Chunks /\ Length[Chunk(x)] \in Nat
<1>1. ctx[x].data \in Seq(Chunks) /\ ctx[x].k \in 1 .. Len(ctx[x].data)
  BY FieldTypes
<1>. QED BY <1>1, SendAssumption DEF Chunk

LEMMA NextShape ==
    ASSUME TypeOK, NEW x \in Contexts, ctx[x].k <= Len(ctx[x].data),
           NEW r \in Seq(ReplaceItem), NEW saved \in Int, NextChunk(x, r, saved)
    PROVE  Others(x) /\ Moved(x, r, saved)
<1>1. PICK c : c = ctx[x]
  OBVIOUS
<1>2. PICK n \in Nat : n = Length[Chunk(x)]
  BY ChunkType
<1>3. /\ c \in HookRec /\ c.hand_list \in Seq(ReplaceItem) /\ c.k \in Nat /\ c.start \in Nat
      /\ c.new_len \in Int
  BY <1>1, FieldTypes
<1>4. PICK h \in Seq(ReplaceItem), k \in Nat \ {0}, s \in Nat, l \in Int :
        h = c.hand_list \o r /\ k = c.k + 1 /\ s = c.start + n /\ l = c.new_len - saved
  <2>1. c.hand_list \o r \in Seq(ReplaceItem)
    BY <1>3, ConcatProperties
  <2>2. c.k + 1 \in Nat \ {0} /\ c.start + n \in Nat /\ c.new_len - saved \in Int
    BY <1>3
  <2>. QED BY <2>1, <2>2
<1>5. PICK v : v = [c EXCEPT !.pc = "chunk", !.k = k, !.start = s, !.dst = None, !.item = None,
                             !.new_len = l, !.hand_list = h]
  OBVIOUS
<1>6. /\ v \in HookRec /\ v.pc = "chunk" /\ v.data = c.data /\ v.start = c.start + n
      /\ v.k = c.k + 1
      /\ v.new_len = c.new_len - saved /\ v.hand_list = c.hand_list \o r
  <2>1. /\ v \in HookRec /\ v.pc = "chunk" /\ v.data = c.data /\ v.start = s /\ v.k = k
        /\ v.new_len = l /\ v.hand_list = h
    BY <1>3, <1>5 DEF HookRec
  <2>. QED BY <1>4, <2>1
<1>7. ctx' = [ctx EXCEPT ![x] = v]
  <2>1. ctx' = [ctx EXCEPT ![x] = [ctx[x] EXCEPT !.pc = "chunk", !.k = ctx[x].k + 1,
                 !.start = ctx[x].start + Length[Chunk(x)], !.dst = None, !.item = None,
                 !.new_len = ctx[x].new_len - saved, !.hand_list = ctx[x].hand_list \o r]]
    BY DEF NextChunk
  <2>. QED BY <2>1, <1>1, <1>2, <1>4, <1>5
<1>. QED BY <1>1, <1>2, <1>6, <1>7, CtxSet DEF Moved

-----------------------------------------------------------------------------
(* Frames: what a step that leaves something alone preserves *)

LEMMA FitsFrame ==
    ASSUME SendInv, NEW x \in Contexts, Others(x),
           (ctx[x].pc # "idle" /\ Same(x)) \/ ctx'[x].pc = "idle"
    PROVE  \A y \in Contexts : FitsSoFar(y)'
<1>. TAKE y \in Contexts
<1>1. CASE y # x
  BY <1>1 DEF SendInv, Others, FitsSoFar, ReplaceSkb
<1>2. CASE y = x
  BY <1>2 DEF SendInv, Same, FitsSoFar, ReplaceSkb
<1>. QED BY <1>1, <1>2

LEMMA LinkFrame ==
    ASSUME SendInv, NEW x \in Contexts, Others(x), linked' = linked, sha1' = sha1,
           ctx[x].pc # "link", ctx'[x].pc # "link"
    PROVE  Allocated' = Allocated /\ \A y \in Contexts : LinkOK(y)'
<1>1. \A y \in Contexts : /\ ctx'[y].pc = "link" <=> ctx[y].pc = "link"
                          /\ ctx[y].pc = "link" => ctx'[y] = ctx[y]
  BY DEF Others
<1>2. Allocated' = Allocated
  BY <1>1 DEF Allocated
<1>3. ASSUME NEW y \in Contexts PROVE LinkOK(y)'
  BY <1>1 DEF SendInv, LinkOK
<1>. QED BY <1>2, <1>3

LEMMA HookFrame ==
    ASSUME SendInv, NEW x \in Contexts, Others(x), desc' = desc
    PROVE  \A y \in Contexts \ {x} : HookOK(y)'
BY DEF SendInv, Others, HookOK, Chunk

\* How the number of hooks at certain places changes.
LEMMA PcCount ==
    ASSUME TypeOK, NEW x \in Contexts, Others(x), NEW P
    PROVE  /\ Cardinality({y \in Contexts : ctx[y].pc \in P}) \in Nat
           /\ Cardinality({y \in Contexts : ctx'[y].pc \in P}) =
                Cardinality({y \in Contexts : ctx[y].pc \in P})
                + (IF ctx'[x].pc \in P THEN 1 ELSE 0) - (IF ctx[x].pc \in P THEN 1 ELSE 0)
<1>1. PICK A : A = {y \in Contexts : ctx[y].pc \in P}
  OBVIOUS
<1>2. PICK B : B = {y \in Contexts : ctx'[y].pc \in P}
  OBVIOUS
<1>3. IsFiniteSet(A) /\ Cardinality(A) \in Nat
  <2>1. A \subseteq Contexts /\ IsFiniteSet(Contexts)
    BY <1>1, SendAssumption
  <2>. QED BY <2>1, FS_Subset, FS_CardinalityType
<1>4. A \ {x} = B \ {x}
  BY <1>1, <1>2 DEF Others
<1>5. (x \in A <=> ctx[x].pc \in P) /\ (x \in B <=> ctx'[x].pc \in P)
  BY <1>1, <1>2
<1>6. Cardinality(B) = Cardinality(A) + (IF x \in B THEN 1 ELSE 0) - (IF x \in A THEN 1 ELSE 0)
  BY <1>3, <1>4, CountOne
<1>. QED BY <1>1, <1>2, <1>3, <1>5, <1>6

\* The objects of sha_data that are in use or lost.
LEMMA DataCount ==
    ASSUME SendInv, NEW x \in Contexts, Others(x), lost' \in Nat,
           sha_data' = sha_data + (lost' - lost) + (IF ctx'[x].pc \in Working THEN 1 ELSE 0)
                                                 - (IF ctx[x].pc \in Working THEN 1 ELSE 0)
    PROVE  sha_data' = lost' + Cardinality({y \in Contexts : ctx'[y].pc \in Working})
<1>1. PICK n \in Nat : n = Cardinality({y \in Contexts : ctx[y].pc \in Working})
  BY PcCount DEF SendInv
<1>2. sha_data = lost + n /\ lost \in Nat
  BY <1>1 DEF SendInv, CountInv, TypeOK
<1>3. PICK a \in {0, 1} : a = IF ctx[x].pc \in Working THEN 1 ELSE 0
  OBVIOUS
<1>4. PICK b \in {0, 1} : b = IF ctx'[x].pc \in Working THEN 1 ELSE 0
  OBVIOUS
<1>5. Cardinality({y \in Contexts : ctx'[y].pc \in Working}) = n + b - a
  BY <1>1, <1>3, <1>4, PcCount DEF SendInv
<1>6. sha_data' = sha_data + (lost' - lost) + b - a
  BY <1>3, <1>4
<1>. QED BY <1>2, <1>3, <1>4, <1>5, <1>6

\* The bytes that save_num lacks.
Owes(x, pc) == IF pc = "save" THEN Length[Chunk(x)] ELSE 0

LEMMA SavedCount ==
    ASSUME SendInv, NEW x \in Contexts, Others(x), ctx'[x].pc = "save" => Same(x),
           ctx[x].pc \in {"hit", "save"} \/ ctx'[x].pc # "save"
    PROVE  /\ Owes(x, ctx[x].pc) \in Nat /\ Owes(x, ctx'[x].pc) \in Nat
           /\ Cardinality(Unsaved) \in Nat /\ IsFiniteSet(Unsaved')
           /\ Cardinality(Unsaved') =
                Cardinality(Unsaved) - Owes(x, ctx[x].pc) + Owes(x, ctx'[x].pc)
<1>1. TypeOK /\ IsFiniteSet(Unsaved) /\ \A y \in Contexts : HookOK(y)
  BY DEF SendInv, CountInv
<1>2. \A y \in Contexts : ctx[y].pc \in {"hit", "save"} => Length[Chunk(y)] \in Nat
  BY <1>1, ChunkType DEF HookOK, Working
<1>3. PICK m \in Nat : m = Owes(x, ctx[x].pc)
  BY <1>2 DEF Owes
<1>4. PICK n \in Nat : n = Owes(x, ctx'[x].pc)
  BY <1>2 DEF Owes
<1>5. PICK R : R = UNION {{z} \X (1 .. Length[Chunk(z)]) :
                            z \in {y \in Contexts \ {x} : ctx[y].pc = "save"}}
  OBVIOUS
<1>6. R \cap ({x} \X Nat) = {}
  BY <1>5
<1>7. Unsaved = With(R, x, m)
  <2>1. CASE ctx[x].pc = "save"
    BY <2>1, <1>3, <1>5 DEF Unsaved, Owes, With
  <2>2. CASE ctx[x].pc # "save"
    <3>1. m = 0 /\ 1 .. m = {}
      BY <2>2, <1>3 DEF Owes
    <3>2. {y \in Contexts : ctx[y].pc = "save"} = {y \in Contexts \ {x} : ctx[y].pc = "save"}
      BY <2>2
    <3>3. {x} \X (1 .. m) = {}
      BY <3>1
    <3>4. Unsaved = R
      BY <3>2, <1>5 DEF Unsaved
    <3>. QED BY <3>3, <3>4 DEF With
  <2>. QED BY <2>1, <2>2
<1>8. Unsaved' = With(R, x, n)
  <2>1. \A y \in Contexts \ {x} : ctx'[y].pc = ctx[y].pc /\ Chunk(y)' = Chunk(y)
    BY DEF Others, Chunk
  <2>2. R = UNION {{z} \X (1 .. Length[Chunk(z)']) :
                     z \in {y \in Contexts \ {x} : ctx'[y].pc = "save"}}
    <3>1. {y \in Contexts \ {x} : ctx'[y].pc = "save"} = {y \in Contexts \ {x} : ctx[y].pc = "save"}
      BY <2>1
    <3>. QED BY <3>1, <2>1, <1>5
  <2>3. CASE ctx'[x].pc = "save"
    <3>1. Chunk(x)' = Chunk(x) /\ n = Length[Chunk(x)]
      BY <2>3, <1>4 DEF Same, Chunk, Owes
    <3>. QED BY <2>2, <2>3, <3>1 DEF Unsaved, With
  <2>4. CASE ctx'[x].pc # "save"
    <3>1. n = 0 /\ 1 .. n = {}
      BY <2>4, <1>4 DEF Owes
    <3>2. {y \in Contexts : ctx'[y].pc = "save"} = {y \in Contexts \ {x} : ctx'[y].pc = "save"}
      BY <2>4
    <3>3. {x} \X (1 .. n) = {}
      BY <3>1
    <3>4. Unsaved' = R
      BY <3>2, <2>2 DEF Unsaved
    <3>. QED BY <3>3, <3>4 DEF With
  <2>. QED BY <2>3, <2>4
<1>9. /\ IsFiniteSet(With(R, x, n))
      /\ Cardinality(With(R, x, n)) = Cardinality(With(R, x, m)) - m + n
  <2>1. IsFiniteSet(With(R, x, m))
    BY <1>1, <1>7
  <2>. QED BY <2>1, <1>6, SumOne
<1>10. Cardinality(Unsaved) \in Nat
  BY <1>1, FS_CardinalityType
<1>. QED BY <1>3, <1>4, <1>7, <1>8, <1>9, <1>10

\* A hook that runs keeps the module loaded.
LEMMA Active ==
    ASSUME SendInv, NEW x \in Contexts, ctx[x].pc # "idle"
    PROVE  mod \in {"hooked", "loaded"}
BY DEF SendInv, ExitInv, TypeOK

\* At most as many hooks pass hash_new_item's check as there are hooks.
LEMMA LimitCount ==
    ASSUME SendInv, NEW x \in Contexts, Others(x), hash_count \in Nat,
           ctx'[x].pc = "alloc" => ctx[x].pc = "alloc" \/ hash_count <= hash_max_count
    PROVE  /\ Cardinality({y \in Contexts : ctx'[y].pc = "alloc"}) \in Nat
           /\ hash_count + Cardinality({y \in Contexts : ctx'[y].pc = "alloc"})
                <= hash_max_count + Cardinality(Contexts)
           /\ ctx[x].pc = "alloc" /\ ctx'[x].pc # "alloc" =>
                hash_count + 1 + Cardinality({y \in Contexts : ctx'[y].pc = "alloc"})
                  <= hash_max_count + Cardinality(Contexts)
<1>1. /\ {y \in Contexts : ctx[y].pc = "alloc"} = {y \in Contexts : ctx[y].pc \in {"alloc"}}
      /\ {y \in Contexts : ctx'[y].pc = "alloc"} = {y \in Contexts : ctx'[y].pc \in {"alloc"}}
  OBVIOUS
<1>2. PICK n \in Nat : n = Cardinality({y \in Contexts : ctx[y].pc = "alloc"})
  BY <1>1, PcCount DEF SendInv
<1>3. PICK S : S = {y \in Contexts : ctx'[y].pc = "alloc"}
  OBVIOUS
<1>4. Cardinality(S) = n + (IF ctx'[x].pc \in {"alloc"} THEN 1 ELSE 0)
                         - (IF ctx[x].pc \in {"alloc"} THEN 1 ELSE 0)
  BY <1>1, <1>2, <1>3, PcCount DEF SendInv
<1>5. /\ Cardinality(S) \in Nat /\ Cardinality(Contexts) \in Nat
      /\ Cardinality(S) <= Cardinality(Contexts)
  <2>1. S \subseteq Contexts /\ IsFiniteSet(Contexts)
    BY <1>3, SendAssumption
  <2>. QED BY <2>1, FS_Subset, FS_CardinalityType
<1>6. hash_count + n <= hash_max_count + Cardinality(Contexts) /\ hash_max_count \in Nat
  BY <1>2, SendAssumption DEF SendInv, CountInv
<1>7. CASE ctx'[x].pc = "alloc" /\ ctx[x].pc # "alloc"
  BY <1>3, <1>5, <1>6, <1>7
<1>8. CASE ctx[x].pc = "alloc" /\ ctx'[x].pc # "alloc"
  BY <1>3, <1>4, <1>5, <1>6, <1>8
<1>9. CASE ctx[x].pc = "alloc" <=> ctx'[x].pc = "alloc"
  BY <1>3, <1>4, <1>5, <1>6, <1>9
<1>. QED BY <1>7, <1>8, <1>9

\* The counters after a step that leaves the table alone.
LEMMA CountFrame ==
    ASSUME SendInv, NEW x \in Contexts, Others(x),
           Allocated' = Allocated, hash_count' = hash_count,
           ctx'[x].pc = "alloc" => ctx[x].pc = "alloc" \/ hash_count <= hash_max_count,
           lost' \in Nat, save_num' \in Nat, sum_num' \in Nat,
           sha_data' = sha_data + (lost' - lost) + (IF ctx'[x].pc \in Working THEN 1 ELSE 0)
                                                 - (IF ctx[x].pc \in Working THEN 1 ELSE 0),
           ctx'[x].pc = "save" => Same(x),
           ctx[x].pc \in {"hit", "save"} \/ ctx'[x].pc # "save",
           (save_num' - save_num) + Owes(x, ctx'[x].pc) - Owes(x, ctx[x].pc)
                <= sum_num' - sum_num
    PROVE  CountInv'
<1>1. hash_count' = Cardinality(Allocated')
  BY DEF SendInv, CountInv
<1>2. hash_count' + Cardinality({y \in Contexts : ctx'[y].pc = "alloc"})
        <= hash_max_count + Cardinality(Contexts)
  BY LimitCount DEF SendInv, TypeOK
<1>3. sha_data' = lost' + Cardinality({y \in Contexts : ctx'[y].pc \in Working})
  BY DataCount
<1>4. /\ Owes(x, ctx[x].pc) \in Nat /\ Owes(x, ctx'[x].pc) \in Nat
      /\ Cardinality(Unsaved) \in Nat /\ IsFiniteSet(Unsaved')
      /\ Cardinality(Unsaved') =
           Cardinality(Unsaved) - Owes(x, ctx[x].pc) + Owes(x, ctx'[x].pc)
  BY SavedCount
<1>5. save_num + Cardinality(Unsaved) <= sum_num /\ save_num \in Nat /\ sum_num \in Nat
  BY DEF SendInv, CountInv, TypeOK
<1>6. save_num' + Cardinality(Unsaved') <= sum_num'
  BY <1>4, <1>5
<1>. QED BY <1>1, <1>2, <1>3, <1>4, <1>6 DEF CountInv

\* A step of a hook that changes no counter and of the table at most a refcnt.
LEMMA QuietStep ==
    ASSUME SendInv, NEW x \in Contexts, Others(x), Same(x),
           UNCHANGED <<modVars, linked, sha1, hash_count, statVars, slabVars, wire>>,
           refcnt' \in [Items -> Nat],
           desc' \in [Cpus -> Digests], torn' \in SUBSET Contexts,
           ctx[x].pc # "idle", ctx[x].pc # "link", ctx'[x].pc # "link",
           ctx[x].pc \in Working <=> ctx'[x].pc \in Working,
           ctx[x].pc # "save", ctx'[x].pc # "save",
           ctx'[x].pc = "alloc" => ctx[x].pc = "alloc" \/ hash_count <= hash_max_count,
           \A y \in Contexts : HookOK(y)'
    PROVE  SendInv'
<1>1. TypeOK'
  BY DEF SendInv, TypeOK, Others, modVars, statVars, slabVars
<1>2. Allocated' = Allocated /\ \A y \in Contexts : LinkOK(y)'
  BY LinkFrame
<1>3. \A y \in Contexts : FitsSoFar(y)'
  BY FitsFrame
<1>4. CountInv'
  <2>1. hash_count' = hash_count /\ lost' = lost /\ save_num' = save_num /\ sum_num' = sum_num
        /\ sha_data' = sha_data
    BY DEF statVars, slabVars
  <2>2. lost \in Nat /\ save_num \in Nat /\ sum_num \in Nat /\ sha_data \in Nat
    BY DEF SendInv, TypeOK
  <2>3. Owes(x, ctx'[x].pc) = 0 /\ Owes(x, ctx[x].pc) = 0
    BY DEF Owes
  <2>4. sha_data' = sha_data + (lost' - lost) + (IF ctx'[x].pc \in Working THEN 1 ELSE 0)
                                              - (IF ctx[x].pc \in Working THEN 1 ELSE 0)
    BY <2>1, <2>2
  <2>5. (save_num' - save_num) + Owes(x, ctx'[x].pc) - Owes(x, ctx[x].pc) <= sum_num' - sum_num
    BY <2>1, <2>2, <2>3
  <2>. QED BY <1>2, <2>1, <2>2, <2>4, <2>5, CountFrame
<1>5. ExitInv'
  BY Active DEF ExitInv, modVars
<1>. QED BY <1>1, <1>2, <1>3, <1>4, <1>5 DEF SendInv

\* A step of a hook to its next chunk.
LEMMA MovedStep ==
    ASSUME SendInv, NEW x \in Contexts, NEW r \in Seq(ReplaceItem), NEW saved \in Int,
           ctx[x].k <= Len(ctx[x].data), NextChunk(x, r, saved),
           UNCHANGED <<modVars, desc, torn, tabVars, skb_num, wire>>,
           ctx[x].pc \in {"chunk"} \cup (Working \ {"link"}),
           lost' \in Nat, save_num' \in Nat, sum_num' \in Nat, sha_data' \in Nat,
           sha_data' = sha_data + (lost' - lost) - (IF ctx[x].pc \in Working THEN 1 ELSE 0),
           (save_num' - save_num) - Owes(x, ctx[x].pc) <= sum_num' - sum_num,
           FitsSoFar(x)'
    PROVE  SendInv'
<1>1. TypeOK
  BY DEF SendInv
<1>2. Others(x) /\ Moved(x, r, saved)
  BY <1>1, NextShape
<1>3. ctx[x].pc \notin {"idle", "link"} /\ ctx'[x].pc = "chunk"
  BY <1>2 DEF Moved, Working
<1>4. TypeOK'
  BY <1>2 DEF SendInv, TypeOK, Others, modVars, tabVars
<1>5. Allocated' = Allocated /\ \A y \in Contexts : LinkOK(y)'
  BY <1>2, <1>3, LinkFrame DEF tabVars
<1>6. \A y \in Contexts : FitsSoFar(y)'
  BY <1>2 DEF SendInv, Others, FitsSoFar, ReplaceSkb
<1>7. \A y \in Contexts : HookOK(y)'
  <2>1. HookOK(x)'
    BY <1>3 DEF HookOK, Working
  <2>. QED BY <2>1, <1>2, HookFrame
<1>8. CountInv'
  <2>1. hash_count' = hash_count
    BY DEF tabVars
  <2>2. lost \in Nat /\ sha_data \in Nat /\ Owes(x, ctx'[x].pc) = 0 /\ ctx'[x].pc \notin Working
    BY <1>1, <1>3 DEF TypeOK, Owes, Working
  <2>3. sha_data' = sha_data + (lost' - lost) + (IF ctx'[x].pc \in Working THEN 1 ELSE 0)
                                              - (IF ctx[x].pc \in Working THEN 1 ELSE 0)
    BY <2>2
  <2>4. Owes(x, ctx[x].pc) \in Nat
    BY <1>1, ChunkType DEF Owes
  <2>5. (save_num' - save_num) + Owes(x, ctx'[x].pc) - Owes(x, ctx[x].pc) <= sum_num' - sum_num
    BY <1>1, <2>2, <2>4, SMTT(40) DEF TypeOK
  <2>. QED BY <1>2, <1>3, <1>5, <2>1, <2>3, <2>5, CountFrame
<1>9. ExitInv'
  BY <1>3, Active DEF ExitInv, modVars
<1>. QED BY <1>4, <1>5, <1>6, <1>7, <1>8, <1>9 DEF SendInv

\* replace_skb after a chunk that is not replaced.
LEMMA FitsUnreplaced ==
    ASSUME SendInv, NEW x \in Contexts, ctx[x].pc # "idle",
           ctx[x].k <= Len(ctx[x].data), NextChunk(x, << >>, 0)
    PROVE  FitsSoFar(x)'
<1>1. TypeOK /\ FitsSoFar(x) /\ << >> \in Seq(ReplaceItem)
  BY DEF SendInv
<1>2. Moved(x, << >>, 0)
  <2>1. PICK r \in Seq(ReplaceItem) : r = << >>
    BY <1>1
  <2>2. PICK z \in Int : z = 0
    OBVIOUS
  <2>3. Moved(x, r, z)
    BY <1>1, <2>1, <2>2, NextShape
  <2>. QED BY <2>1, <2>2, <2>3
<1>3. /\ ctx'[x].hand_list = ctx[x].hand_list /\ ctx'[x].data = ctx[x].data
      /\ ctx'[x].new_len = ctx[x].new_len
      /\ ctx'[x].start = ctx[x].start + Length[Chunk(x)]
  BY <1>1, <1>2, FieldTypes DEF Moved
<1>4. ctx[x].start \in Nat /\ Length[Chunk(x)] \in Nat
  BY <1>1, FieldTypes, ChunkType
<1>5. ReplaceSkb(x) \in LoopState
  <2>1. PICK s \in Seq(ReplaceItem) : s = ctx[x].hand_list
    BY <1>1, FieldTypes
  <2>2. PICK w \in [0 .. Len(s) -> LoopState] : Replaced(s) = w[Len(s)]
    BY ReplacedLoop
  <2>. QED BY <2>1, <2>2 DEF ReplaceSkb
<1>6. ReplaceSkb(x)' = ReplaceSkb(x) /\ ReplaceSkb(x).last \in Int
  BY <1>3, <1>5 DEF ReplaceSkb, LoopState
<1>7. ~ReplaceSkb(x).bug /\ ReplaceSkb(x).last <= ctx[x].start
      /\ ReplaceSkb(x).index + (Sum(ctx[x].data) - ReplaceSkb(x).last)
           = ctx[x].new_len - 2 * Len(ctx[x].hand_list)
  BY <1>1 DEF FitsSoFar
<1>8. ReplaceSkb(x).last <= ctx[x].start + Length[Chunk(x)]
  BY <1>4, <1>6, <1>7
<1>. QED BY <1>3, <1>6, <1>7, <1>8 DEF FitsSoFar

-----------------------------------------------------------------------------
(* The steps of a hook *)

\* A hook that begins, with its payload at chunk k.
Begun(x, p, k) ==
    /\ ctx'[x] \in HookRec /\ ctx'[x].pc = "chunk" /\ ctx'[x].data = p /\ ctx'[x].k = k
    /\ ctx'[x].start = 0 /\ ctx'[x].new_len = Sum(p) /\ ctx'[x].hand_list = << >>
LEMMA HookShape ==
    ASSUME TypeOK, NEW x \in Contexts, Hook(x)
    PROVE  Others(x) /\ \E p \in Seq(Chunks) : \E k \in {1, Len(p) + 1} : Begun(x, p, k)
<1>2. PICK p \in Payloads : \E cut \in BOOLEAN :
        ctx' = [ctx EXCEPT ![x] = [NoHook EXCEPT !.pc = "chunk", !.data = p,
                                                 !.k = IF cut THEN 1 ELSE Len(p) + 1,
                                                 !.new_len = Sum(p)]]
  BY DEF Hook
<1>2a. PICK k \in {1, Len(p) + 1} :
        ctx' = [ctx EXCEPT ![x] = [NoHook EXCEPT !.pc = "chunk", !.data = p, !.k = k,
                                                 !.new_len = Sum(p)]]
  BY <1>2
<1>3. p \in Seq(Chunks) /\ Sum(p) \in Nat /\ k \in Nat \ {0}
  <2>1. p \in Seq(Chunks)
    BY SendAssumption
  <2>2. Len(p) \in Nat
    BY <2>1
  <2>3. k \in Nat \ {0}
    BY <2>2
  <2>. QED BY <2>1, <2>3, SumType
<1>4. PICK v : v = [NoHook EXCEPT !.pc = "chunk", !.data = p, !.k = k, !.new_len = Sum(p)]
  OBVIOUS
<1>5. << >> \in Seq(ReplaceItem)
  OBVIOUS
<1>6. /\ v \in HookRec /\ v.pc = "chunk" /\ v.data = p /\ v.start = 0 /\ v.new_len = Sum(p)
      /\ v.hand_list = << >> /\ v.k = k
  <2>1. v = [pc |-> "chunk", data |-> p, k |-> k, start |-> 0, dst |-> None, item |-> None,
             new_len |-> Sum(p), hand_list |-> << >>]
    BY <1>4 DEF NoHook
  <2>2. PICK z \in Int : z = Sum(p)
    BY <1>3
  <2>3. PICK l \in Seq(ReplaceItem) : l = << >>
    BY <1>5
  <2>. QED BY <1>3, <2>1, <2>2, <2>3 DEF HookRec
<1>7. Others(x) /\ ctx'[x] = v
  BY <1>2a, <1>4, <1>6, CtxSet
<1>. QED BY <1>3, <1>6, <1>7 DEF Begun

LEMMA HookPreserves ==
    ASSUME SendInv, NEW x \in Contexts, Hook(x)
    PROVE  SendInv'
<1>1. TypeOK /\ mod \in {"hooked", "loaded"} /\ ctx[x].pc = "idle"
  BY DEF SendInv, Hook, Runs
<1>3. PICK p \in Seq(Chunks) : \E k \in {1, Len(p) + 1} : Begun(x, p, k)
  BY <1>1, HookShape
<1>6. /\ ctx'[x] \in HookRec /\ ctx'[x].pc = "chunk" /\ ctx'[x].data = p
      /\ ctx'[x].start = 0 /\ ctx'[x].new_len = Sum(p) /\ ctx'[x].hand_list = << >>
  BY <1>3 DEF Begun
<1>7. Others(x) /\ Sum(p) \in Nat
  BY <1>1, HookShape, SumType
<1>8. UNCHANGED <<modVars, desc, torn, tabVars, statVars, slabVars, wire>>
  BY DEF Hook
<1>9. TypeOK'
  BY <1>1, <1>6, <1>7, <1>8 DEF TypeOK, Others, modVars, tabVars, statVars, slabVars
<1>10. Allocated' = Allocated /\ \A y \in Contexts : LinkOK(y)'
  BY <1>1, <1>6, <1>7, <1>8, LinkFrame DEF tabVars
<1>11. \A y \in Contexts : HookOK(y)'
  <2>1. HookOK(x)'
    BY <1>6, <1>7 DEF HookOK, Working
  <2>. QED BY <2>1, <1>7, <1>8, HookFrame
<1>12. \A y \in Contexts : FitsSoFar(y)'
  <2>1. ReplaceSkb(x)' = LoopStart
    BY <1>6, <1>7, ReplacedEmpty DEF ReplaceSkb
  <2>2. Len(<< >>) = 0
    OBVIOUS
  <2>3. FitsSoFar(x)'
    BY <1>3, <1>6, <1>7, <2>1, <2>2 DEF FitsSoFar, LoopStart
  <2>. QED BY <2>3, <1>7, SMTT(40) DEF SendInv, Others, FitsSoFar, ReplaceSkb
<1>13. CountInv'
  <2>1. hash_count' = hash_count /\ lost' = lost /\ save_num' = save_num /\ sum_num' = sum_num
        /\ sha_data' = sha_data
    BY <1>8 DEF tabVars, statVars, slabVars
  <2>2. lost \in Nat /\ save_num \in Nat /\ sum_num \in Nat /\ sha_data \in Nat
    BY <1>1 DEF TypeOK
  <2>3. /\ Owes(x, ctx'[x].pc) = 0 /\ Owes(x, ctx[x].pc) = 0
        /\ ctx[x].pc \notin Working /\ ctx'[x].pc \notin Working
        /\ ctx'[x].pc # "alloc" /\ ctx'[x].pc # "save"
    BY <1>1, <1>6, <1>7 DEF Owes, Working
  <2>4. sha_data' = sha_data + (lost' - lost) + (IF ctx'[x].pc \in Working THEN 1 ELSE 0)
                                              - (IF ctx[x].pc \in Working THEN 1 ELSE 0)
    BY <2>1, <2>2, <2>3
  <2>5. (save_num' - save_num) + Owes(x, ctx'[x].pc) - Owes(x, ctx[x].pc) <= sum_num' - sum_num
    BY <2>1, <2>2, <2>3
  <2>. QED BY <1>7, <1>10, <2>1, <2>2, <2>3, <2>4, <2>5, CountFrame
<1>14. ExitInv'
  BY <1>1, <1>8 DEF ExitInv, modVars
<1>. QED BY <1>9, <1>10, <1>11, <1>12, <1>13, <1>14 DEF SendInv

LEMMA BuildHashPreserves ==
    ASSUME SendInv, NEW x \in Contexts, BuildHash(x)
    PROVE  SendInv'
<1>1. TypeOK /\ ctx[x].pc = "chunk" /\ ctx[x].k <= Len(ctx[x].data) /\ ctx[x].pc \notin Working
      /\ UNCHANGED <<modVars, desc, torn, tabVars, statVars, wire>>
  BY DEF SendInv, BuildHash, Runs, Working
<1>2. /\ lost \in Nat /\ save_num \in Nat /\ sum_num \in Nat /\ sha_data \in Nat
      /\ save_num' = save_num /\ sum_num' = sum_num /\ skb_num' = skb_num
      /\ Owes(x, ctx[x].pc) = 0
  BY <1>1 DEF TypeOK, statVars, Owes
<1>3. CASE NextChunk(x, << >>, 0) /\ UNCHANGED slabVars
  <2>1. FitsSoFar(x)'
    BY <1>1, <1>3, FitsUnreplaced
  <2>2. PICK r \in Seq(ReplaceItem) : r = << >>
    <3>1. << >> \in Seq(ReplaceItem)
      OBVIOUS
    <3>. QED BY <3>1
  <2>3. PICK z \in Int : z = 0
    OBVIOUS
  <2>4. NextChunk(x, r, z)
    BY <1>3, <2>2, <2>3
  <2>5. sha_data' = sha_data + (lost' - lost) - (IF ctx[x].pc \in Working THEN 1 ELSE 0)
        /\ lost' = lost /\ sha_data' = sha_data
    BY <1>1, <1>2, <1>3 DEF slabVars
  <2>6. (save_num' - save_num) - Owes(x, ctx[x].pc) <= sum_num' - sum_num
    BY <1>2
  <2>. QED BY <1>1, <1>2, <2>1, <2>4, <2>5, <2>6, MovedStep
<1>4. CASE /\ Length[Chunk(x)] > SHALEN + 2 /\ sha_data' = sha_data + 1 /\ lost' = lost
           /\ Goto(x, "init")
  <2>1. /\ Others(x) /\ Same(x) /\ ctx'[x].pc = "init"
    BY <1>1, <1>4, GotoShape DEF Pcs, Working
  <2>2. TypeOK'
    BY <1>1, <1>2, <1>4, <2>1 DEF TypeOK, Others, modVars, tabVars, statVars
  <2>3. Allocated' = Allocated /\ \A y \in Contexts : LinkOK(y)'
    BY <1>1, <2>1, LinkFrame DEF tabVars
  <2>4. \A y \in Contexts : HookOK(y)'
    <3>1. HookOK(x)'
      BY <1>1, <1>4, <2>1 DEF HookOK, Same, Chunk, Working
    <3>. QED BY <3>1, <1>1, <2>1, HookFrame
  <2>5. \A y \in Contexts : FitsSoFar(y)'
    BY <1>1, <2>1, FitsFrame
  <2>6. CountInv'
    <3>1. ctx'[x].pc \in Working /\ Owes(x, ctx'[x].pc) = 0 /\ ctx'[x].pc # "alloc"
          /\ ctx'[x].pc # "save" /\ hash_count' = hash_count
      BY <1>1, <2>1 DEF Working, Owes, tabVars
    <3>2. sha_data' = sha_data + (lost' - lost) + (IF ctx'[x].pc \in Working THEN 1 ELSE 0)
                                                - (IF ctx[x].pc \in Working THEN 1 ELSE 0)
      BY <1>1, <1>2, <1>4, <3>1
    <3>3. (save_num' - save_num) + Owes(x, ctx'[x].pc) - Owes(x, ctx[x].pc) <= sum_num' - sum_num
      BY <1>2, <3>1
    <3>. QED BY <1>2, <1>4, <2>1, <2>3, <3>1, <3>2, <3>3, CountFrame
  <2>7. ExitInv'
    BY <1>1, Active DEF ExitInv, modVars
  <2>. QED BY <2>2, <2>3, <2>4, <2>5, <2>6, <2>7 DEF SendInv
<1>. QED BY <1>3, <1>4 DEF BuildHash

\* get_partition returns: only skb_num changes.
LEMMA PartitionedPreserves ==
    ASSUME SendInv, NEW x \in Contexts, Partitioned(x)
    PROVE  SendInv'
<1>1. /\ TypeOK /\ ctx[x].pc = "chunk" /\ Goto(x, "leave") /\ skb_num' = skb_num + 1
      /\ UNCHANGED <<modVars, desc, torn, tabVars, sum_num, save_num, slabVars, wire>>
  BY DEF SendInv, Partitioned, Runs
<1>2. Others(x) /\ Same(x) /\ ctx'[x].pc = "leave"
  BY <1>1, GotoShape DEF Pcs
<1>3. TypeOK'
  BY <1>1, <1>2 DEF TypeOK, Others, modVars, tabVars, slabVars
<1>4. Allocated' = Allocated /\ \A y \in Contexts : LinkOK(y)'
  BY <1>1, <1>2, LinkFrame DEF tabVars
<1>5. \A y \in Contexts : HookOK(y)'
  <2>1. HookOK(x)'
    BY <1>2 DEF HookOK, Working
  <2>. QED BY <2>1, <1>1, <1>2, HookFrame
<1>6. \A y \in Contexts : FitsSoFar(y)'
  BY <1>1, <1>2, FitsFrame
<1>7. CountInv'
  <2>1. /\ ctx[x].pc \notin Working /\ ctx'[x].pc \notin Working /\ ctx'[x].pc # "alloc"
        /\ ctx'[x].pc # "save" /\ Owes(x, ctx'[x].pc) = 0 /\ Owes(x, ctx[x].pc) = 0
        /\ hash_count' = hash_count /\ lost' = lost /\ sha_data' = sha_data
        /\ lost \in Nat /\ save_num \in Nat /\ sum_num \in Nat /\ sha_data \in Nat
    BY <1>1, <1>2 DEF Working, Owes, tabVars, slabVars, TypeOK
  <2>2. sha_data' = sha_data + (lost' - lost) + (IF ctx'[x].pc \in Working THEN 1 ELSE 0)
                                              - (IF ctx[x].pc \in Working THEN 1 ELSE 0)
    BY <2>1
  <2>3. (save_num' - save_num) + Owes(x, ctx'[x].pc) - Owes(x, ctx[x].pc) <= sum_num' - sum_num
    BY <1>1, <2>1
  <2>. QED BY <1>1, <1>2, <1>4, <2>1, <2>2, <2>3, CountFrame
<1>8. ExitInv'
  BY <1>1, Active DEF ExitInv, modVars
<1>. QED BY <1>3, <1>4, <1>5, <1>6, <1>7, <1>8 DEF SendInv

\* The hook returns.
LEMMA LeavePreserves ==
    ASSUME SendInv, NEW x \in Contexts, Leave(x)
    PROVE  SendInv'
<1>1. /\ TypeOK /\ ctx[x].pc = "leave" /\ ctx' = [ctx EXCEPT ![x] = NoHook]
      /\ wire' = wire \cup InFull(x, Len(ctx[x].data))
      /\ UNCHANGED <<modVars, desc, torn, tabVars, statVars, slabVars>>
  BY DEF SendInv, Leave, Runs
<1>2. NoHook \in HookRec /\ NoHook.pc = "idle"
  <2>1. << >> \in Seq(ReplaceItem) /\ << >> \in Seq(Chunks)
    OBVIOUS
  <2>. QED BY <2>1 DEF NoHook, HookRec
<1>3. Others(x) /\ ctx'[x].pc = "idle"
  BY <1>1, <1>2, CtxSet
<1>4. TypeOK'
  <2>1. ctx[x].data \in Seq(Chunks)
    BY <1>1, FieldTypes
  <2>2. InFull(x, Len(ctx[x].data)) \subseteq Chunks
    BY <2>1 DEF InFull
  <2>. QED BY <1>1, <1>3, <2>2 DEF TypeOK, Others, modVars, tabVars, statVars, slabVars
<1>5. Allocated' = Allocated /\ \A y \in Contexts : LinkOK(y)'
  BY <1>1, <1>3, LinkFrame DEF tabVars
<1>6. \A y \in Contexts : HookOK(y)'
  <2>1. HookOK(x)'
    BY <1>3 DEF HookOK, Working
  <2>. QED BY <2>1, <1>1, <1>3, HookFrame
<1>7. \A y \in Contexts : FitsSoFar(y)'
  BY <1>3, FitsFrame
<1>8. CountInv'
  <2>1. /\ ctx[x].pc \notin Working /\ ctx'[x].pc \notin Working /\ ctx'[x].pc # "alloc"
        /\ ctx'[x].pc # "save" /\ Owes(x, ctx'[x].pc) = 0 /\ Owes(x, ctx[x].pc) = 0
        /\ hash_count' = hash_count /\ lost' = lost /\ sha_data' = sha_data
        /\ save_num' = save_num /\ sum_num' = sum_num
        /\ lost \in Nat /\ save_num \in Nat /\ sum_num \in Nat /\ sha_data \in Nat
    BY <1>1, <1>3 DEF Working, Owes, tabVars, slabVars, statVars, TypeOK
  <2>2. sha_data' = sha_data + (lost' - lost) + (IF ctx'[x].pc \in Working THEN 1 ELSE 0)
                                              - (IF ctx[x].pc \in Working THEN 1 ELSE 0)
    BY <2>1
  <2>3. (save_num' - save_num) + Owes(x, ctx'[x].pc) - Owes(x, ctx[x].pc) <= sum_num' - sum_num
    BY <2>1
  <2>. QED BY <1>3, <1>5, <2>1, <2>2, <2>3, CountFrame
<1>9. ExitInv'
  BY <1>1, Active DEF ExitInv, modVars
<1>. QED BY <1>4, <1>5, <1>6, <1>7, <1>8, <1>9 DEF SendInv

Short == {<< >>} \cup {<<a>> : a \in Chunks \cup {Wiped}}

LEMMA ContextType ==
    ASSUME NEW x \in Contexts
    PROVE  x[1] \in Cpus /\ x[2] \in {"process", "softirq"} /\ x = <<x[1], x[2]>>
BY SendAssumption

\* While a process uses its CPU's descriptor no softirq is in the middle of a hash.
LEMMA OneRuns ==
    ASSUME TypeOK, NEW x \in Contexts, NEW y \in Contexts \ {x}, NEW at, Runs(x, at),
           y[1] = x[1], ctx[y].pc # "idle"
    PROVE  x[2] = "softirq" /\ y[2] = "process"
<1>1. x = <<x[1], x[2]>> /\ y = <<x[1], y[2]>>
  BY ContextType
<1>2. x[2] # y[2]
  BY <1>1
<1>3. x[2] = "process" => y[2] # "softirq"
  BY <1>1 DEF Runs, NoSoftirq
<1>. QED BY <1>2, <1>3, ContextType

LEMMA HashInitPreserves ==
    ASSUME SendInv, NEW x \in Contexts, HashInit(x)
    PROVE  SendInv'
<1>1. /\ TypeOK /\ ctx[x].pc = "init" /\ desc' = [desc EXCEPT ![x[1]] = << >>]
      /\ Goto(x, "update") /\ torn' \in SUBSET Contexts
      /\ UNCHANGED <<modVars, tabVars, statVars, slabVars, wire>>
  BY DEF SendInv, HashInit, Runs, TypeOK
<1>2. Others(x) /\ Same(x) /\ ctx'[x].pc = "update"
  BY <1>1, GotoShape DEF Pcs, Working
<1>3. desc' \in [Cpus -> Digests] /\ \A c \in Cpus : desc'[c] = IF c = x[1] THEN << >> ELSE desc[c]
  BY <1>1, ContextType DEF TypeOK, Digests
<1>4. ASSUME NEW y \in Contexts PROVE HookOK(y)'
  <2>1. y[1] \in Cpus
    BY ContextType
  <2>2. CASE y = x
    <3>1. HookOK(x)
      BY DEF SendInv
    <3>. QED BY <1>1, <1>2, <1>3, <2>1, <2>2, <3>1 DEF HookOK, Same, Chunk, Working
  <2>3. CASE y # x
    <3>1. HookOK(y) /\ ctx'[y] = ctx[y]
      BY <2>3, <1>2 DEF SendInv, Others
    <3>. QED BY <1>3, <2>1, <3>1 DEF HookOK, Chunk
  <2>. QED BY <2>2, <2>3
<1>5. refcnt' \in [Items -> Nat] /\ UNCHANGED <<linked, sha1, hash_count>>
  BY <1>1 DEF tabVars, TypeOK
<1>6. ctx[x].pc \in Working /\ ctx'[x].pc \in Working
  BY <1>1, <1>2 DEF Working
<1>. QED BY <1>1, <1>2, <1>3, <1>4, <1>5, <1>6, QuietStep

LEMMA HashUpdatePreserves ==
    ASSUME SendInv, NEW x \in Contexts, HashUpdate(x)
    PROVE  SendInv'
<1>1. /\ TypeOK /\ Runs(x, "update") /\ ctx[x].pc = "update" /\ HookOK(x)
      /\ desc' = [desc EXCEPT ![x[1]] = Append(@, Chunk(x))]
      /\ Goto(x, "final") /\ UNCHANGED <<modVars, torn, tabVars, statVars, slabVars, wire>>
  BY DEF SendInv, HashUpdate, Runs
<1>2. Others(x) /\ Same(x) /\ ctx'[x].pc = "final"
  BY <1>1, GotoShape DEF Pcs, Working
<1>3. ctx[x].pc \in Working /\ ctx'[x].pc \in Working
  BY <1>1, <1>2 DEF Working
<1>4. PICK c \in Chunks : c = Chunk(x)
  BY <1>1, <1>3, ChunkType DEF HookOK
<1>5. desc[x[1]] \in Short /\ (x[2] = "softirq" => desc[x[1]] = << >>)
  BY <1>1 DEF HookOK, Short
<1>6. Append(desc[x[1]], c) \in Digests /\ (x[2] = "softirq" => Append(desc[x[1]], c) \in Short)
  <2>1. CASE desc[x[1]] = << >>
    <3>1. Append(<< >>, c) = <<c>>
      OBVIOUS
    <3>. QED BY <2>1, <3>1 DEF Digests, Short
  <2>2. CASE desc[x[1]] # << >>
    <3>1. PICK a \in Chunks \cup {Wiped} : desc[x[1]] = <<a>>
      BY <1>5, <2>2 DEF Short
    <3>2. Append(<<a>>, c) = <<a, c>>
      BY AppendTwo
    <3>. QED BY <1>5, <2>2, <3>1, <3>2 DEF Digests
  <2>. QED BY <2>1, <2>2
<1>7. /\ desc' \in [Cpus -> Digests]
      /\ \A d \in Cpus : desc'[d] = IF d = x[1] THEN Append(desc[x[1]], c) ELSE desc[d]
  BY <1>1, <1>4, <1>6, ContextType DEF TypeOK
<1>8. ASSUME NEW y \in Contexts PROVE HookOK(y)'
  <2>1. y[1] \in Cpus
    BY ContextType
  <2>2. CASE y = x
    BY <1>1, <1>2, <1>3, <2>2 DEF HookOK, Same, Chunk, Working
  <2>3. CASE y # x
    <3>1. HookOK(y) /\ ctx'[y] = ctx[y]
      BY <2>3, <1>2 DEF SendInv, Others
    <3>2. CASE y[1] # x[1] \/ ctx[y].pc # "update"
      BY <1>7, <2>1, <3>1, <3>2 DEF HookOK, Chunk
    <3>3. CASE y[1] = x[1] /\ ctx[y].pc = "update"
      <4>1. x[2] = "softirq" /\ y[2] = "process"
        BY <1>1, <2>3, <3>3, OneRuns
      <4>2. desc'[y[1]] \in Short
        BY <1>6, <1>7, <2>1, <3>3, <4>1
      <4>. QED BY <3>1, <3>3, <4>1, <4>2 DEF HookOK, Chunk, Short
    <3>. QED BY <3>2, <3>3
  <2>. QED BY <2>2, <2>3
<1>9. /\ refcnt' \in [Items -> Nat] /\ UNCHANGED <<linked, sha1, hash_count>>
      /\ torn' \in SUBSET Contexts
  BY <1>1 DEF tabVars, TypeOK
<1>. QED BY <1>1, <1>2, <1>3, <1>7, <1>8, <1>9, QuietStep

LEMMA HashFinalShape ==
    ASSUME TypeOK, NEW x \in Contexts, HashFinal(x)
    PROVE  /\ Others(x) /\ Same(x) /\ ctx'[x].pc = "lookup" /\ ctx'[x].dst = desc[x[1]]
           /\ desc[x[1]] \in Digests
<1>1. ctx[x].pc = "final" /\ ctx' = [ctx EXCEPT ![x].pc = "lookup", ![x].dst = desc[x[1]]]
  BY DEF HashFinal, Runs
<1>2. PICK d \in Digests : d = desc[x[1]]
  BY ContextType DEF TypeOK
<1>3. PICK v : v = [ctx[x] EXCEPT !.pc = "lookup", !.dst = d]
  OBVIOUS
<1>4. /\ v \in HookRec /\ v.pc = "lookup" /\ v.dst = d
      /\ v.data = ctx[x].data /\ v.k = ctx[x].k /\ v.start = ctx[x].start
      /\ v.new_len = ctx[x].new_len /\ v.hand_list = ctx[x].hand_list
  BY <1>1, <1>3, FieldTypes DEF HookRec, Working
<1>5. Others(x) /\ Same(x) /\ ctx'[x].pc = "lookup" /\ ctx'[x].dst = d
  <2>1. ctx' = [ctx EXCEPT ![x] = v]
    BY <1>1, <1>2, <1>3, FieldTypes DEF TypeOK, HookRec
  <2>. QED BY <1>4, <2>1, CtxSet DEF Same
<1>. QED BY <1>2, <1>5

LEMMA HashFinalPreserves ==
    ASSUME SendInv, NEW x \in Contexts, HashFinal(x)
    PROVE  SendInv'
<1>1. /\ TypeOK /\ Runs(x, "final") /\ ctx[x].pc = "final" /\ HookOK(x)
      /\ desc' = [desc EXCEPT ![x[1]] = <<Wiped>>]
      /\ UNCHANGED <<modVars, torn, tabVars, statVars, slabVars, wire>>
  BY DEF SendInv, HashFinal, Runs
<1>5. Others(x) /\ Same(x) /\ ctx'[x].pc = "lookup" /\ ctx'[x].dst \in Digests
  BY <1>1, HashFinalShape
<1>6. ctx[x].pc \in Working /\ ctx'[x].pc \in Working
  BY <1>1, <1>5 DEF Working
<1>7. /\ desc' \in [Cpus -> Digests]
      /\ \A e \in Cpus : desc'[e] = IF e = x[1] THEN <<Wiped>> ELSE desc[e]
  BY <1>1, ContextType DEF TypeOK, Digests
<1>8. ASSUME NEW y \in Contexts PROVE HookOK(y)'
  <2>1. y[1] \in Cpus
    BY ContextType
  <2>2. CASE y = x
    BY <1>1, <1>5, <1>6, <2>2 DEF HookOK, Same, Chunk
  <2>3. CASE y # x
    <3>1. HookOK(y) /\ ctx'[y] = ctx[y]
      BY <2>3, <1>5 DEF SendInv, Others
    <3>2. CASE y[1] # x[1] \/ ctx[y].pc # "update"
      BY <1>7, <2>1, <3>1, <3>2 DEF HookOK, Chunk
    <3>3. CASE y[1] = x[1] /\ ctx[y].pc = "update"
      <4>1. x[2] = "softirq" /\ y[2] = "process"
        BY <1>1, <2>3, <3>3, OneRuns
      <4>2. desc'[y[1]] \in Short
        BY <1>7, <2>1, <3>3 DEF Short
      <4>. QED BY <3>1, <3>3, <4>1, <4>2 DEF HookOK, Chunk, Short
    <3>. QED BY <3>2, <3>3
  <2>. QED BY <2>2, <2>3
<1>9. /\ refcnt' \in [Items -> Nat] /\ UNCHANGED <<linked, sha1, hash_count>>
      /\ torn' \in SUBSET Contexts
  BY <1>1 DEF tabVars, TypeOK
<1>. QED BY <1>1, <1>5, <1>6, <1>7, <1>8, <1>9, QuietStep

LEMMA HashFailsPreserves ==
    ASSUME SendInv, NEW x \in Contexts, HashFails(x)
    PROVE  SendInv'
<1>1. /\ TypeOK /\ ctx[x].pc \in {"init", "update", "final"} /\ HookOK(x)
      /\ NextChunk(x, << >>, 0) /\ lost' = lost + 1
      /\ UNCHANGED <<modVars, desc, torn, tabVars, statVars, sha_data, wire>>
  BY DEF SendInv, HashFails, Runs
<1>2. ctx[x].pc \in Working /\ ctx[x].pc # "idle" /\ ctx[x].k <= Len(ctx[x].data)
      /\ ctx[x].pc \in Working \ {"link"}
  BY <1>1 DEF HookOK, Working
<1>3. /\ lost \in Nat /\ save_num \in Nat /\ sum_num \in Nat /\ sha_data \in Nat
      /\ save_num' = save_num /\ sum_num' = sum_num /\ skb_num' = skb_num
      /\ Owes(x, ctx[x].pc) = 0
  BY <1>1 DEF TypeOK, statVars, Owes
<1>4. FitsSoFar(x)'
  BY <1>1, <1>2, FitsUnreplaced
<1>5. PICK r \in Seq(ReplaceItem) : r = << >>
  <2>1. << >> \in Seq(ReplaceItem)
    OBVIOUS
  <2>. QED BY <2>1
<1>6. PICK z \in Int : z = 0
  OBVIOUS
<1>7. NextChunk(x, r, z)
  BY <1>1, <1>5, <1>6
<1>8. sha_data' = sha_data + (lost' - lost) - (IF ctx[x].pc \in Working THEN 1 ELSE 0)
      /\ lost' \in Nat
  BY <1>1, <1>2, <1>3
<1>9. (save_num' - save_num) - Owes(x, ctx[x].pc) <= sum_num' - sum_num
  BY <1>3
<1>. QED BY <1>1, <1>2, <1>3, <1>4, <1>7, <1>8, <1>9, MovedStep

LEMMA LookupPreserves ==
    ASSUME SendInv, NEW x \in Contexts, Lookup(x)
    PROVE  SendInv'
<1>1. /\ TypeOK /\ ctx[x].pc = "lookup" /\ HookOK(x)
      /\ UNCHANGED <<modVars, desc, torn, linked, sha1, hash_count, statVars, slabVars, wire>>
  BY DEF SendInv, Lookup, Runs
<1>2. /\ Others(x) /\ Same(x) /\ ctx'[x].pc \in {"hit", "miss"} /\ ctx'[x].dst = ctx[x].dst
      /\ refcnt' \in [Items -> Nat]
  <2>1. ASSUME NEW i \in Matches(ctx[x].dst), refcnt' = [refcnt EXCEPT ![i] = @ + ITEM_CITE_FIND],
               ctx' = [ctx EXCEPT ![x].pc = "hit", ![x].item = i]
        PROVE  /\ Others(x) /\ Same(x) /\ ctx'[x].pc \in {"hit", "miss"}
               /\ ctx'[x].dst = ctx[x].dst /\ refcnt' \in [Items -> Nat]
    <3>1. i \in Items
      BY <1>1 DEF Matches, TypeOK
    <3>2. PICK v : v = [ctx[x] EXCEPT !.pc = "hit", !.item = i]
      OBVIOUS
    <3>3. /\ v \in HookRec /\ v.pc = "hit" /\ v.dst = ctx[x].dst
          /\ v.data = ctx[x].data /\ v.k = ctx[x].k /\ v.start = ctx[x].start
          /\ v.new_len = ctx[x].new_len /\ v.hand_list = ctx[x].hand_list
      BY <1>1, <3>1, <3>2, FieldTypes DEF HookRec, Working
    <3>4. ctx' = [ctx EXCEPT ![x] = v]
      BY <1>1, <2>1, <3>2, FieldTypes DEF TypeOK, HookRec
    <3>5. refcnt' \in [Items -> Nat]
      BY <1>1, <2>1, <3>1, SendAssumption DEF TypeOK
    <3>. QED BY <1>1, <3>3, <3>4, <3>5, CtxSet DEF Same
  <2>2. CASE Goto(x, "miss") /\ UNCHANGED refcnt
    BY <1>1, <2>2, GotoShape DEF Pcs, Working, TypeOK
  <2>. QED BY <2>1, <2>2 DEF Lookup
<1>3. ctx[x].pc \in Working /\ ctx'[x].pc \in Working /\ ctx[x].pc \in Working \ {"init", "update", "final"}
  BY <1>1, <1>2 DEF Working
<1>4. ASSUME NEW y \in Contexts PROVE HookOK(y)'
  <2>1. HookOK(x)'
    BY <1>1, <1>2, <1>3 DEF HookOK, Same, Chunk
  <2>. QED BY <2>1, <1>1, <1>2, HookFrame
<1>5. desc' \in [Cpus -> Digests] /\ torn' \in SUBSET Contexts
  BY <1>1 DEF TypeOK
<1>. QED BY <1>1, <1>2, <1>3, <1>4, <1>5, QuietStep

LEMMA ReadCountPreserves ==
    ASSUME SendInv, NEW x \in Contexts, ReadCount(x)
    PROVE  SendInv'
<1>1. /\ TypeOK /\ ctx[x].pc = "miss" /\ HookOK(x)
      /\ \/ hash_count <= hash_max_count /\ Goto(x, "alloc")
         \/ Goto(x, "missed")
      /\ UNCHANGED <<modVars, desc, torn, tabVars, statVars, slabVars, wire>>
  BY DEF SendInv, ReadCount, Runs
<1>2. /\ Others(x) /\ Same(x) /\ ctx'[x].pc \in {"alloc", "missed"} /\ ctx'[x].dst = ctx[x].dst
      /\ ctx'[x].pc = "alloc" => hash_count <= hash_max_count
  <2>1. CASE hash_count <= hash_max_count /\ Goto(x, "alloc")
    BY <1>1, <2>1, GotoShape DEF Pcs, Working
  <2>2. CASE Goto(x, "missed")
    BY <1>1, <2>2, GotoShape DEF Pcs, Working
  <2>. QED BY <1>1, <2>1, <2>2
<1>3. ctx[x].pc \in Working /\ ctx'[x].pc \in Working /\ ctx[x].pc \in Working \ {"init", "update", "final"}
  BY <1>1, <1>2 DEF Working
<1>4. ASSUME NEW y \in Contexts PROVE HookOK(y)'
  <2>1. HookOK(x)'
    BY <1>1, <1>2, <1>3 DEF HookOK, Same, Chunk
  <2>. QED BY <2>1, <1>1, <1>2, HookFrame
<1>5. /\ desc' \in [Cpus -> Digests] /\ torn' \in SUBSET Contexts /\ refcnt' \in [Items -> Nat]
      /\ UNCHANGED <<linked, sha1, hash_count>>
  BY <1>1 DEF TypeOK, tabVars
<1>. QED BY <1>1, <1>2, <1>3, <1>4, <1>5, QuietStep

\* The slab's free item.
LEMMA FreeItemIsFree == Items # Allocated /\ Allocated \subseteq Items => FreeItem \in Items \ Allocated
<1>. SUFFICES ASSUME Items # Allocated, Allocated \subseteq Items PROVE FreeItem \in Items \ Allocated
  OBVIOUS
<1>1. PICK T : T = Items \ Allocated
  OBVIOUS
<1>2. T \in SUBSET Nat /\ T # {}
  <2>1. Items \subseteq Nat
    BY SendAssumption DEF Items
  <2>. QED BY <1>1, <2>1
<1>3. PICK i \in T : \A j \in T : i <= j
  BY <1>2, Least
<1>. QED BY <1>1, <1>3 DEF FreeItem

LEMMA AllocatedItems == SendInv => Allocated \subseteq Items /\ IsFiniteSet(Allocated)
<1>. SUFFICES ASSUME SendInv PROVE Allocated \subseteq Items /\ IsFiniteSet(Allocated)
  OBVIOUS
<1>1. Allocated \subseteq Items
  BY DEF SendInv, TypeOK, LinkOK, Allocated
<1>2. IsFiniteSet(Items)
  BY FS_Interval, SendAssumption DEF Items
<1>. QED BY <1>1, <1>2, FS_Subset

LEMMA NewItemPreserves ==
    ASSUME SendInv, NEW x \in Contexts, NewItem(x)
    PROVE  SendInv'
<1>1. /\ TypeOK /\ ctx[x].pc = "alloc" /\ HookOK(x) /\ Items # Allocated
      /\ hash_count' = hash_count + 1
      /\ UNCHANGED <<modVars, desc, torn, linked, statVars, slabVars, wire>>
  BY DEF SendInv, NewItem, Runs
<1>2. PICK i : i = FreeItem
  OBVIOUS
<1>3. i \in Items /\ i \notin Allocated /\ i \notin linked
  BY <1>1, <1>2, FreeItemIsFree, AllocatedItems DEF Allocated
<1>4. /\ sha1' = [sha1 EXCEPT ![i] = ctx[x].dst] /\ refcnt' = [refcnt EXCEPT ![i] = ITEM_CITE_ADD]
      /\ ctx' = [ctx EXCEPT ![x].pc = "link", ![x].item = i]
  BY <1>2 DEF NewItem
<1>5. PICK v : v = [ctx[x] EXCEPT !.pc = "link", !.item = i]
  OBVIOUS
<1>6. /\ v \in HookRec /\ v.pc = "link" /\ v.dst = ctx[x].dst /\ v.item = i
      /\ v.data = ctx[x].data /\ v.k = ctx[x].k /\ v.start = ctx[x].start
      /\ v.new_len = ctx[x].new_len /\ v.hand_list = ctx[x].hand_list
  BY <1>1, <1>3, <1>5, FieldTypes DEF HookRec, Working
<1>7. ctx' = [ctx EXCEPT ![x] = v]
  BY <1>1, <1>4, <1>5, FieldTypes DEF TypeOK, HookRec
<1>8. /\ Others(x) /\ Same(x) /\ ctx'[x].pc = "link" /\ ctx'[x].dst = ctx[x].dst
      /\ ctx'[x].item = i
  BY <1>1, <1>6, <1>7, CtxSet DEF Same
<1>9. ctx[x].pc \in Working /\ ctx'[x].pc \in Working /\ ctx[x].pc \in Working \ {"init", "update", "final"}
  BY <1>1, <1>8 DEF Working
<1>10. Chunk(x) \in Chunks /\ ctx[x].dst \in Digests
  BY <1>1, <1>9, ChunkType DEF HookOK
<1>11. TypeOK'
  <2>1. sha1' \in [Items -> Digests \cup {None}]
    BY <1>1, <1>3, <1>4, <1>10 DEF TypeOK
  <2>2. refcnt' \in [Items -> Nat]
    BY <1>1, <1>3, <1>4, <1>10, SendAssumption DEF TypeOK
  <2>. QED BY <1>1, <1>8, <2>1, <2>2 DEF TypeOK, Others, modVars, statVars, slabVars
<1>12. Allocated' = Allocated \cup {i}
  <2>1. {ctx'[z].item : z \in {y \in Contexts : ctx'[y].pc = "link"}}
          = {ctx[z].item : z \in {y \in Contexts : ctx[y].pc = "link"}} \cup {i}
    <3>1. \A y \in Contexts : y # x => ctx'[y] = ctx[y]
      BY <1>8 DEF Others
    <3>. QED BY <1>1, <1>8, <3>1
  <2>. QED BY <1>1, <2>1 DEF Allocated
<1>13. ASSUME NEW y \in Contexts PROVE LinkOK(y)'
  <2>1. \A z \in Contexts : ctx[z].pc = "link" => ctx[z].item # i
    BY <1>3 DEF Allocated
  <2>2. sha1'[i] = ctx[x].dst /\ \A j \in Items : j # i => sha1'[j] = sha1[j]
    BY <1>1, <1>3, <1>4 DEF TypeOK
  <2>3. CASE y = x
    BY <1>1, <1>3, <1>8, <2>1, <2>2, <2>3 DEF LinkOK, Others
  <2>4. CASE y # x
    <3>1. LinkOK(y) /\ ctx'[y] = ctx[y]
      BY <2>4, <1>8 DEF SendInv, Others
    <3>. QED BY <1>1, <1>8, <2>1, <2>2, <3>1 DEF LinkOK, Others
  <2>. QED BY <2>3, <2>4
<1>14. ASSUME NEW y \in Contexts PROVE HookOK(y)'
  <2>1. HookOK(x)'
    BY <1>1, <1>8, <1>9 DEF HookOK, Same, Chunk
  <2>. QED BY <2>1, <1>1, <1>8, HookFrame
<1>15. \A y \in Contexts : FitsSoFar(y)'
  BY <1>1, <1>8, FitsFrame
<1>16. CountInv'
  <2>1. /\ lost \in Nat /\ save_num \in Nat /\ sum_num \in Nat /\ sha_data \in Nat /\ hash_count \in Nat
        /\ lost' = lost /\ sha_data' = sha_data /\ save_num' = save_num /\ sum_num' = sum_num
    BY <1>1 DEF TypeOK, slabVars, statVars
  <2>2. hash_count' = Cardinality(Allocated')
    <3>1. IsFiniteSet(Allocated) /\ hash_count = Cardinality(Allocated)
      BY AllocatedItems DEF SendInv, CountInv
    <3>2. Cardinality(Allocated \cup {i}) = Cardinality(Allocated) + 1
      BY <1>3, <3>1, FS_AddElement
    <3>. QED BY <1>1, <1>12, <3>1, <3>2
  <2>3. hash_count' + Cardinality({y \in Contexts : ctx'[y].pc = "alloc"})
          <= hash_max_count + Cardinality(Contexts)
    BY <1>1, <1>8, <2>1, LimitCount
  <2>4. sha_data' = lost' + Cardinality({y \in Contexts : ctx'[y].pc \in Working})
    <3>1. sha_data' = sha_data + (lost' - lost) + (IF ctx'[x].pc \in Working THEN 1 ELSE 0)
                                                - (IF ctx[x].pc \in Working THEN 1 ELSE 0)
      BY <1>9, <2>1
    <3>. QED BY <1>8, <2>1, <3>1, DataCount
  <2>5. IsFiniteSet(Unsaved') /\ save_num' + Cardinality(Unsaved') <= sum_num'
    <3>1. Owes(x, ctx[x].pc) = 0 /\ Owes(x, ctx'[x].pc) = 0
      BY <1>1, <1>8 DEF Owes
    <3>2. /\ Cardinality(Unsaved) \in Nat /\ IsFiniteSet(Unsaved')
          /\ Cardinality(Unsaved') =
               Cardinality(Unsaved) - Owes(x, ctx[x].pc) + Owes(x, ctx'[x].pc)
      BY <1>8, SavedCount
    <3>3. save_num + Cardinality(Unsaved) <= sum_num
      BY DEF SendInv, CountInv
    <3>. QED BY <2>1, <3>1, <3>2, <3>3
  <2>. QED BY <2>2, <2>3, <2>4, <2>5 DEF CountInv
<1>17. ExitInv'
  BY <1>1, Active DEF ExitInv, modVars
<1>. QED BY <1>11, <1>13, <1>14, <1>15, <1>16, <1>17 DEF SendInv

LEMMA LinkPreserves ==
    ASSUME SendInv, NEW x \in Contexts, Link(x)
    PROVE  SendInv'
<1>1. /\ TypeOK /\ ctx[x].pc = "link" /\ HookOK(x) /\ LinkOK(x) /\ Goto(x, "missed")
      /\ linked' = linked \cup {ctx[x].item}
      /\ UNCHANGED <<modVars, desc, torn, sha1, refcnt, hash_count, statVars, slabVars, wire>>
  BY DEF SendInv, Link, Runs
<1>2. Others(x) /\ Same(x) /\ ctx'[x].pc = "missed" /\ ctx'[x].dst = ctx[x].dst
  BY <1>1, GotoShape DEF Pcs, Working
<1>3. ctx[x].pc \in Working /\ ctx'[x].pc \in Working /\ ctx[x].pc \in Working \ {"init", "update", "final"}
  BY <1>1, <1>2 DEF Working
<1>4. TypeOK'
  BY <1>1, <1>2 DEF TypeOK, Others, LinkOK, modVars, statVars, slabVars
<1>5. \A y \in Contexts : y # x => ctx'[y] = ctx[y]
  BY <1>2 DEF Others
<1>6. Allocated' = Allocated
  BY <1>1, <1>2, <1>5 DEF Allocated
<1>7. ASSUME NEW y \in Contexts PROVE LinkOK(y)'
  <2>1. CASE y = x
    BY <1>2, <2>1 DEF LinkOK
  <2>2. CASE y # x
    <3>1. LinkOK(y) /\ ctx'[y] = ctx[y]
      BY <2>2, <1>5 DEF SendInv
    <3>. QED BY <1>1, <1>2, <1>5, <2>2, <3>1 DEF LinkOK
  <2>. QED BY <2>1, <2>2
<1>8. ASSUME NEW y \in Contexts PROVE HookOK(y)'
  <2>1. HookOK(x)'
    BY <1>1, <1>2, <1>3 DEF HookOK, Same, Chunk
  <2>. QED BY <2>1, <1>1, <1>2, HookFrame
<1>9. \A y \in Contexts : FitsSoFar(y)'
  BY <1>1, <1>2, FitsFrame
<1>10. CountInv'
  <2>1. /\ lost \in Nat /\ save_num \in Nat /\ sum_num \in Nat /\ sha_data \in Nat
        /\ lost' = lost /\ sha_data' = sha_data /\ save_num' = save_num /\ sum_num' = sum_num
        /\ Owes(x, ctx'[x].pc) = 0 /\ Owes(x, ctx[x].pc) = 0
    BY <1>1, <1>2 DEF TypeOK, slabVars, statVars, Owes
  <2>2. sha_data' = sha_data + (lost' - lost) + (IF ctx'[x].pc \in Working THEN 1 ELSE 0)
                                              - (IF ctx[x].pc \in Working THEN 1 ELSE 0)
    BY <1>3, <2>1
  <2>3. (save_num' - save_num) + Owes(x, ctx'[x].pc) - Owes(x, ctx[x].pc) <= sum_num' - sum_num
    BY <2>1
  <2>. QED BY <1>1, <1>2, <1>6, <2>1, <2>2, <2>3, CountFrame
<1>11. ExitInv'
  BY <1>1, Active DEF ExitInv, modVars
<1>. QED BY <1>4, <1>7, <1>8, <1>9, <1>10, <1>11 DEF SendInv

LEMMA AddSumPreserves ==
    ASSUME SendInv, NEW x \in Contexts, AddSum(x)
    PROVE  SendInv'
<1>1. /\ TypeOK /\ ctx[x].pc \in {"missed", "hit"} /\ HookOK(x)
      /\ sum_num' = sum_num + Length[Chunk(x)]
      /\ UNCHANGED <<modVars, desc, torn, tabVars, save_num, skb_num, wire>>
  BY DEF SendInv, AddSum, Runs
<1>2. ctx[x].pc \in Working /\ ctx[x].pc \in Working \ {"init", "update", "final"}
      /\ ctx[x].pc \in Working \ {"link"} /\ ctx[x].pc # "idle" /\ ctx[x].k <= Len(ctx[x].data)
  BY <1>1 DEF HookOK, Working
<1>3. PICK n \in Nat : n = Length[Chunk(x)]
  BY <1>1, <1>2, ChunkType
<1>4. /\ lost \in Nat /\ save_num \in Nat /\ sum_num \in Nat /\ sha_data \in Nat
      /\ save_num' = save_num /\ sum_num' = sum_num + n /\ sum_num' \in Nat
      /\ Owes(x, ctx[x].pc) = 0
  BY <1>1, <1>3 DEF TypeOK, Owes
<1>5. CASE ctx[x].pc = "hit" /\ Goto(x, "save") /\ UNCHANGED slabVars
  <2>1. Others(x) /\ Same(x) /\ ctx'[x].pc = "save" /\ ctx'[x].dst = ctx[x].dst
    BY <1>1, <1>5, GotoShape DEF Pcs, Working
  <2>2. ctx'[x].pc \in Working /\ Owes(x, ctx'[x].pc) = n
    BY <1>3, <2>1 DEF Working, Owes
  <2>3. TypeOK'
    BY <1>1, <1>4, <1>5, <2>1 DEF TypeOK, Others, modVars, tabVars, slabVars
  <2>4. Allocated' = Allocated /\ \A y \in Contexts : LinkOK(y)'
    BY <1>1, <2>1, LinkFrame DEF tabVars
  <2>5. \A y \in Contexts : HookOK(y)'
    <3>1. HookOK(x)'
      BY <1>1, <1>2, <2>1, <2>2 DEF HookOK, Same, Chunk
    <3>. QED BY <3>1, <1>1, <2>1, HookFrame
  <2>6. \A y \in Contexts : FitsSoFar(y)'
    BY <1>2, <2>1, FitsFrame
  <2>7. CountInv'
    <3>1. hash_count' = hash_count /\ lost' = lost /\ sha_data' = sha_data
      BY <1>1, <1>5 DEF tabVars, slabVars
    <3>2. sha_data' = sha_data + (lost' - lost) + (IF ctx'[x].pc \in Working THEN 1 ELSE 0)
                                                - (IF ctx[x].pc \in Working THEN 1 ELSE 0)
      BY <1>2, <1>4, <2>2, <3>1
    <3>3. (save_num' - save_num) + Owes(x, ctx'[x].pc) - Owes(x, ctx[x].pc) <= sum_num' - sum_num
      BY <1>4, <2>2
    <3>4. ctx'[x].pc # "alloc" /\ ctx[x].pc \in {"hit", "save"} /\ lost' \in Nat /\ save_num' \in Nat
      BY <1>4, <1>5, <2>1, <3>1
    <3>. QED BY <1>4, <2>1, <2>4, <3>1, <3>2, <3>3, <3>4, CountFrame
  <2>8. ExitInv'
    BY <1>1, <1>2, Active DEF ExitInv, modVars
  <2>. QED BY <2>3, <2>4, <2>5, <2>6, <2>7, <2>8 DEF SendInv
<1>6. CASE /\ ctx[x].pc = "missed" /\ NextChunk(x, << >>, 0) /\ sha_data' = sha_data - 1
           /\ UNCHANGED lost
  <2>1. FitsSoFar(x)'
    BY <1>2, <1>6, FitsUnreplaced
  <2>2. PICK r \in Seq(ReplaceItem) : r = << >>
    <3>1. << >> \in Seq(ReplaceItem)
      OBVIOUS
    <3>. QED BY <3>1
  <2>3. PICK z \in Int : z = 0
    OBVIOUS
  <2>4. NextChunk(x, r, z)
    BY <1>6, <2>2, <2>3
  <2>5. sha_data' = sha_data + (lost' - lost) - (IF ctx[x].pc \in Working THEN 1 ELSE 0)
        /\ lost' \in Nat
    BY <1>2, <1>4, <1>6
  <2>6. (save_num' - save_num) - Owes(x, ctx[x].pc) <= sum_num' - sum_num
    BY <1>4
  <2>7. sha_data' \in Nat
    <3>1. PICK m \in Nat : m = Cardinality({y \in Contexts : ctx[y].pc \in Working})
      BY FS_Subset, FS_CardinalityType, SendAssumption
    <3>2. x \in {y \in Contexts : ctx[y].pc \in Working}
      BY <1>2
    <3>3. m # 0
      BY <3>1, <3>2, FS_Subset, FS_EmptySet, SendAssumption
    <3>4. sha_data = lost + m
      BY <3>1 DEF SendInv, CountInv
    <3>. QED BY <1>4, <1>6, <3>3, <3>4
  <2>. QED BY <1>1, <1>2, <1>4, <2>1, <2>4, <2>5, <2>6, <2>7, MovedStep
<1>. QED BY <1>1, <1>5, <1>6 DEF AddSum

\* replace_skb after a chunk that is replaced.
LEMMA FitsReplaced ==
    ASSUME SendInv, NEW x \in Contexts, ctx[x].pc \in Working, NEW cp \in ReplaceItem,
           cp.start = ctx[x].start, cp.end = ctx[x].start + Length[Chunk(x)] - 1,
           NEW r \in Seq(ReplaceItem), r = <<cp>>,
           NEW saved \in Int, saved = Length[Chunk(x)] - (SHALEN + 2), NextChunk(x, r, saved)
    PROVE  FitsSoFar(x)'
<1>1. TypeOK /\ HookOK(x) /\ FitsSoFar(x) /\ ctx[x].pc # "idle"
  BY DEF SendInv, Working
<1>2. ctx[x].k <= Len(ctx[x].data)
  BY <1>1 DEF HookOK
<1>3. Moved(x, r, saved)
  BY <1>1, <1>2, NextShape
<1>4. PICK s \in Seq(ReplaceItem) : s = ctx[x].hand_list
  BY <1>1, FieldTypes
<1>5. PICK n \in Nat : n = Length[Chunk(x)]
  BY <1>1, <1>2, ChunkType
<1>6. PICK w \in LoopState : w = Replaced(s) /\ Replaced(s \o <<cp>>) = Replace(w, cp)
  BY ReplacedAppend
<1>7. PICK b \in Nat : b = ctx[x].start
  BY <1>1, FieldTypes
<1>8. PICK l \in Int : l = ctx[x].new_len
  BY <1>1, FieldTypes
<1>9. PICK t \in Nat : t = Sum(ctx[x].data)
  BY <1>1, FieldTypes, SumType
<1>10. /\ ~w.bug /\ w.last <= b /\ w.index + (t - w.last) = l - 2 * Len(s)
       /\ w.last \in Int /\ w.index \in Int
  BY <1>1, <1>4, <1>6, <1>7, <1>8, <1>9 DEF FitsSoFar, ReplaceSkb, LoopState
<1>11. PICK u : u = Replace(w, cp)
  OBVIOUS
<1>12. /\ u.index = w.index + (b - w.last) + SHALEN /\ u.last = b + n - 1 + 1
       /\ u.bug = (w.bug \/ b < w.last)
  BY <1>5, <1>7, <1>11 DEF Replace
<1>13. SHALEN \in Nat
  BY SendAssumption
<1>14. u.last = b + n /\ ~u.bug
  <2>1. u.last = b + n
    BY <1>12
  <2>2. ~(b < w.last)
    BY <1>10
  <2>. QED BY <2>1, <2>2, <1>10, <1>12
<1>15. Len(s \o <<cp>>) = Len(s) + 1 /\ Len(s) \in Nat
  <2>1. <<cp>> \in Seq(ReplaceItem) /\ Len(<<cp>>) = 1
    OBVIOUS
  <2>. QED BY <2>1
<1>16. u.index + (t - u.last) = (l - saved) - 2 * (Len(s) + 1)
  <2>1. PICK p \in Int : p = w.index
    BY <1>10
  <2>2. PICK q \in Int : q = w.last
    BY <1>10
  <2>3. PICK m \in Nat : m = Len(s)
    BY <1>15
  <2>4. PICK h \in Nat : h = SHALEN
    BY <1>13
  <2>5. p + (t - q) = l - 2 * m
    BY <1>10, <2>1, <2>2, <2>3
  <2>6. saved = n - (h + 2)
    BY <1>5, <2>4
  <2>7. (p + (b - q) + h) + (t - (b + n)) = (l - saved) - 2 * (m + 1)
    BY <2>5, <2>6, SMTT(30)
  <2>8. u.index = p + (b - q) + h /\ u.last = b + n
    BY <1>12, <1>14, <2>1, <2>2, <2>4
  <2>. QED BY <2>3, <2>7, <2>8
<1>17. /\ ctx'[x].start = b + n /\ ctx'[x].new_len = l - saved
       /\ ctx'[x].hand_list = s \o <<cp>> /\ ctx'[x].data = ctx[x].data
  BY <1>3, <1>4, <1>5, <1>7, <1>8 DEF Moved
<1>18. ReplaceSkb(x)' = u
  BY <1>6, <1>11, <1>17 DEF ReplaceSkb
<1>. QED BY <1>9, <1>14, <1>15, <1>16, <1>17, <1>18 DEF FitsSoFar

LEMMA AddSavePreserves ==
    ASSUME SendInv, NEW x \in Contexts, AddSave(x)
    PROVE  SendInv'
<1>1. /\ TypeOK /\ ctx[x].pc = "save" /\ HookOK(x)
      /\ sha_data' = sha_data - 1 /\ lost' = lost
      /\ UNCHANGED <<modVars, desc, torn, tabVars, sum_num, skb_num, wire>>
  BY DEF SendInv, AddSave, Runs
<1>2. ctx[x].pc \in Working /\ ctx[x].pc \in Working \ {"link"} /\ ctx[x].k <= Len(ctx[x].data)
      /\ ctx[x].dst \in Digests
  BY <1>1 DEF HookOK, Working
<1>3. PICK n \in Nat : n = Length[Chunk(x)]
  BY <1>1, <1>2, ChunkType
<1>4. n > SHALEN + 2 /\ SHALEN \in Nat
  BY <1>1, <1>2, <1>3, SendAssumption DEF HookOK
<1>5. PICK saved \in Nat : saved = Length[Chunk(x)] - (SHALEN + 2)
  BY <1>3, <1>4
<1>6. PICK cp : cp = [start |-> ctx[x].start, end |-> ctx[x].start + Length[Chunk(x)] - 1,
                      sha1 |-> ctx[x].dst,
                      chunk |-> IF x \in torn THEN None ELSE Chunk(x)]
  OBVIOUS
<1>7. save_num' = save_num + saved /\ NextChunk(x, <<cp>>, saved)
  BY <1>5, <1>6 DEF AddSave
<1>8. cp \in ReplaceItem /\ cp.start = ctx[x].start /\ cp.end = ctx[x].start + Length[Chunk(x)] - 1
  <2>1. ctx[x].start \in Nat /\ ctx[x].start + Length[Chunk(x)] - 1 \in Int
    BY <1>1, <1>3, FieldTypes
  <2>2. Chunk(x) \in Chunks
    BY <1>1, <1>2, ChunkType
  <2>. QED BY <1>2, <1>6, <2>1, <2>2 DEF ReplaceItem
<1>9. PICK r \in Seq(ReplaceItem) : r = <<cp>>
  <2>1. <<cp>> \in Seq(ReplaceItem)
    BY <1>8
  <2>. QED BY <2>1
<1>10. NextChunk(x, r, saved) /\ saved \in Int
  BY <1>7, <1>9
<1>11. FitsSoFar(x)'
  BY <1>2, <1>5, <1>8, <1>9, <1>10, FitsReplaced
<1>12. /\ lost \in Nat /\ save_num \in Nat /\ sum_num \in Nat /\ sha_data \in Nat
       /\ sum_num' = sum_num /\ Owes(x, ctx[x].pc) = n
  BY <1>1, <1>3 DEF TypeOK, Owes
<1>13. sha_data' = sha_data + (lost' - lost) - (IF ctx[x].pc \in Working THEN 1 ELSE 0)
  BY <1>1, <1>2, <1>12
<1>14. (save_num' - save_num) - Owes(x, ctx[x].pc) <= sum_num' - sum_num /\ save_num' \in Nat
  BY <1>3, <1>4, <1>5, <1>7, <1>12, SMTT(40)
<1>15. sha_data' \in Nat
  <2>1. PICK m \in Nat : m = Cardinality({y \in Contexts : ctx[y].pc \in Working})
    BY FS_Subset, FS_CardinalityType, SendAssumption
  <2>2. x \in {y \in Contexts : ctx[y].pc \in Working}
    BY <1>2
  <2>3. m # 0
    BY <2>1, <2>2, FS_Subset, FS_EmptySet, SendAssumption
  <2>4. sha_data = lost + m
    BY <2>1 DEF SendInv, CountInv
  <2>. QED BY <1>1, <1>12, <2>3, <2>4
<1>. QED BY <1>1, <1>2, <1>10, <1>11, <1>12, <1>13, <1>14, <1>15, MovedStep

-----------------------------------------------------------------------------
(* The steps of the timers and of minit and mexit *)

\* Items that are freed leave the table, and only the table.
LEMMA FreePreserves ==
    ASSUME SendInv, NEW S \in SUBSET linked, FreeItems(S), refcnt' \in [Items -> Nat],
           UNCHANGED <<modVars, desc, torn, statVars, slabVars, ctx, wire>>
    PROVE  SendInv'
<1>1. /\ TypeOK /\ linked' = linked \ S /\ hash_count' = hash_count - Cardinality(S)
      /\ sha1' = [i \in Items |-> IF i \in S THEN None ELSE sha1[i]]
      /\ ctx' = ctx
  BY DEF SendInv, FreeItems
<1>2. \A y \in Contexts : ctx[y].pc = "link" => ctx[y].item \in Items \ linked
  BY DEF SendInv, LinkOK
<1>3. Allocated' = Allocated \ S /\ S \subseteq Allocated
  BY <1>1, <1>2 DEF Allocated
<1>4. IsFiniteSet(Allocated) /\ hash_count = Cardinality(Allocated)
  BY AllocatedItems DEF SendInv, CountInv
<1>5. /\ IsFiniteSet(S) /\ Cardinality(S) <= Cardinality(Allocated)
      /\ IsFiniteSet(Allocated \ S) /\ Cardinality(Allocated \ S) = Cardinality(Allocated) - Cardinality(S)
  <2>1. PICK A : A = Allocated
    OBVIOUS
  <2>2. IsFiniteSet(A) /\ S \in SUBSET A /\ A \cap S = S
    BY <1>3, <1>4, <2>1
  <2>3. IsFiniteSet(S) /\ Cardinality(S) <= Cardinality(A)
    BY <2>2, FS_Subset
  <2>4. IsFiniteSet(A \ S) /\ Cardinality(A \ S) = Cardinality(A) - Cardinality(S)
    BY <2>2, FS_Difference
  <2>. QED BY <2>1, <2>3, <2>4
<1>6. hash_count' \in Nat /\ hash_count' = Cardinality(Allocated') /\ hash_count' <= hash_count
  <2>1. Cardinality(S) \in Nat /\ Cardinality(Allocated) \in Nat /\ Cardinality(Allocated \ S) \in Nat
    BY <1>4, <1>5, FS_CardinalityType
  <2>. QED BY <1>1, <1>3, <1>4, <1>5, <2>1
<1>7. TypeOK'
  <2>1. sha1' \in [Items -> Digests \cup {None}]
    BY <1>1 DEF TypeOK
  <2>. QED BY <1>1, <1>6, <2>1 DEF TypeOK, modVars, statVars, slabVars
<1>8. ASSUME NEW y \in Contexts PROVE HookOK(y)' /\ LinkOK(y)' /\ FitsSoFar(y)'
  <2>1. HookOK(y) /\ LinkOK(y) /\ FitsSoFar(y)
    BY DEF SendInv
  <2>2. HookOK(y)' /\ FitsSoFar(y)'
    BY <1>1, <2>1 DEF HookOK, FitsSoFar, ReplaceSkb, Chunk
  <2>3. LinkOK(y)'
    BY <1>1, <2>1 DEF LinkOK
  <2>. QED BY <2>2, <2>3
<1>9. CountInv'
  <2>1. Unsaved' = Unsaved
    BY <1>1 DEF Unsaved, Chunk
  <2>2. hash_count' + Cardinality({x \in Contexts : ctx[x].pc = "alloc"})
          <= hash_max_count + Cardinality(Contexts)
    <3>1. IsFiniteSet({x \in Contexts : ctx[x].pc = "alloc"}) /\ IsFiniteSet(Contexts)
      BY SendAssumption, FS_Subset
    <3>2. PICK a \in Nat : a = Cardinality({x \in Contexts : ctx[x].pc = "alloc"})
      BY <3>1, FS_CardinalityType
    <3>3. PICK m \in Nat : m = hash_max_count + Cardinality(Contexts)
      BY <3>1, FS_CardinalityType, SendAssumption
    <3>4. hash_count + a <= m /\ hash_count \in Nat
      BY <1>1, <3>2, <3>3 DEF SendInv, CountInv, TypeOK
    <3>. QED BY <1>6, <3>2, <3>3, <3>4
  <2>. QED BY <1>1, <1>6, <2>1, <2>2 DEF SendInv, CountInv, statVars, slabVars
<1>10. ExitInv'
  BY <1>1 DEF SendInv, ExitInv, modVars
<1>. QED BY <1>7, <1>8, <1>9, <1>10 DEF SendInv

LEMMA BucketClearPreserves ==
    ASSUME SendInv, NEW b \in Buckets, BucketClear(b)
    PROVE  SendInv'
<1>1. /\ TypeOK /\ FreeItems(Expired(b))
      /\ refcnt' = [i \in Items |-> IF i \in Expired(b) THEN 0
                                    ELSE IF i \in InBucket(b) THEN refcnt[i] - 1 ELSE refcnt[i]]
      /\ UNCHANGED <<modVars, desc, torn, statVars, slabVars, ctx, wire>>
  BY DEF SendInv, BucketClear
<1>2. Expired(b) \in SUBSET linked
  BY DEF Expired, InBucket
<1>3. refcnt' \in [Items -> Nat]
  <2>1. ASSUME NEW i \in Items PROVE refcnt'[i] \in Nat
    <3>1. refcnt[i] \in Nat
      BY <1>1 DEF TypeOK
    <3>2. CASE i \in InBucket(b) /\ i \notin Expired(b)
      <4>1. refcnt[i] > 1
        BY <3>1, <3>2 DEF Expired
      <4>. QED BY <1>1, <3>1, <3>2, <4>1
    <3>. QED BY <1>1, <3>1, <3>2
  <2>. QED BY <1>1, <2>1
<1>. QED BY <1>1, <1>2, <1>3, FreePreserves

\* A step that changes only how far the module has come.
LEMMA ModPreserves ==
    ASSUME SendInv, UNCHANGED <<desc, torn, tabVars, statVars, slabVars, ctx, wire>>,
           mod' \in {"hooked", "loaded", "unhooked", "flushed", "stopped", "gone"},
           pool' \in BOOLEAN, timers' \in SUBSET Buckets, ExitInv'
    PROVE  SendInv'
<1>1. TypeOK'
  BY DEF SendInv, TypeOK, tabVars, statVars, slabVars
<1>2. CountInv'
  BY DEF SendInv, CountInv, Allocated, Unsaved, Chunk, tabVars, statVars, slabVars
<1>3. ASSUME NEW y \in Contexts PROVE HookOK(y)' /\ LinkOK(y)' /\ FitsSoFar(y)'
  <2>1. HookOK(y) /\ LinkOK(y) /\ FitsSoFar(y)
    BY DEF SendInv
  <2>2. HookOK(y)' /\ FitsSoFar(y)'
    BY <2>1 DEF HookOK, FitsSoFar, ReplaceSkb, Chunk
  <2>3. LinkOK(y)'
    BY <2>1 DEF LinkOK, tabVars
  <2>. QED BY <2>2, <2>3
<1>. QED BY <1>1, <1>2, <1>3 DEF SendInv

LEMMA AllocPoolPreserves ==
    ASSUME SendInv, AllocPool
    PROVE  SendInv'
<1>1. ExitInv'
  BY DEF AllocPool, ExitInv
<1>. QED BY <1>1, ModPreserves DEF SendInv, AllocPool, TypeOK

LEMMA UnregisterPreserves ==
    ASSUME SendInv, UnregisterHook
    PROVE  SendInv'
<1>1. ExitInv'
  BY DEF UnregisterHook, ExitInv
<1>. QED BY <1>1, ModPreserves DEF SendInv, UnregisterHook, TypeOK

LEMMA FlushPreserves ==
    ASSUME SendInv, Flush
    PROVE  SendInv'
<1>1. TypeOK /\ ExitInv /\ mod = "unhooked"
      /\ UNCHANGED <<pool, timers, desc, torn, statVars, slabVars, ctx, wire>>
  BY DEF SendInv, Flush
<1>2. ASSUME NEW b \in Buckets, FreeItems(InBucket(b)), UNCHANGED mod,
             refcnt' = [i \in Items |-> IF i \in InBucket(b) THEN 0 ELSE refcnt[i]]
      PROVE  SendInv'
  <2>1. InBucket(b) \in SUBSET linked
    BY DEF InBucket
  <2>2. refcnt' \in [Items -> Nat]
    BY <1>1, <1>2 DEF TypeOK
  <2>3. UNCHANGED modVars
    BY <1>1, <1>2 DEF modVars
  <2>. QED BY <1>1, <1>2, <2>1, <2>2, <2>3, FreePreserves
<1>3. ASSUME linked = {}, mod' = "flushed", UNCHANGED tabVars
      PROVE  SendInv'
  <2>1. ExitInv'
    BY <1>1, <1>3 DEF ExitInv, tabVars
  <2>. QED BY <1>1, <1>3, <2>1, ModPreserves DEF TypeOK
<1>. QED BY <1>2, <1>3 DEF Flush

LEMMA DelTimersPreserves ==
    ASSUME SendInv, DelTimers
    PROVE  SendInv'
<1>1. ExitInv'
  BY DEF SendInv, DelTimers, ExitInv, tabVars
<1>2. mod' \in {"flushed", "stopped"} /\ timers' \in SUBSET Buckets
  BY DEF SendInv, TypeOK, DelTimers
<1>. QED BY <1>1, <1>2, ModPreserves DEF SendInv, DelTimers, TypeOK

LEMMA DestroyPreserves ==
    ASSUME SendInv, Destroy
    PROVE  SendInv'
<1>1. ExitInv'
  BY DEF SendInv, Destroy, ExitInv, tabVars
<1>. QED BY <1>1, ModPreserves DEF SendInv, Destroy, TypeOK

-----------------------------------------------------------------------------
(* The invariant *)

LEMMA InitSend == Init => SendInv
<1>. SUFFICES ASSUME Init PROVE SendInv
  OBVIOUS
<1>1. NoHook \in HookRec /\ NoHook.pc = "idle"
  <2>1. << >> \in Seq(Chunks) /\ << >> \in Seq(ReplaceItem)
    OBVIOUS
  <2>. QED BY <2>1 DEF NoHook, HookRec
<1>2. ctx \in [Contexts -> HookRec] /\ \A x \in Contexts : ctx[x].pc = "idle"
  BY <1>1 DEF Init
<1>3. TypeOK
  <2>1. desc \in [Cpus -> Digests]
    BY DEF Init, Digests
  <2>. QED BY <1>2, <2>1 DEF Init, TypeOK
<1>4. Allocated = {} /\ Unsaved = {}
  BY <1>2 DEF Init, Allocated, Unsaved
<1>5. /\ {x \in Contexts : ctx[x].pc = "alloc"} = {}
      /\ {x \in Contexts : ctx[x].pc \in Working} = {}
  BY <1>2 DEF Working
<1>6. IsFiniteSet({}) /\ Cardinality({}) = 0 /\ Cardinality(Contexts) \in Nat
  BY FS_EmptySet, FS_CardinalityType, SendAssumption
<1>7. CountInv
  <2>1. PICK m \in Nat : m = hash_max_count + Cardinality(Contexts)
    BY <1>6, SendAssumption
  <2>2. /\ Cardinality(Allocated) = 0 /\ IsFiniteSet(Unsaved) /\ Cardinality(Unsaved) = 0
        /\ Cardinality({x \in Contexts : ctx[x].pc = "alloc"}) = 0
        /\ Cardinality({x \in Contexts : ctx[x].pc \in Working}) = 0
    BY <1>4, <1>5, <1>6
  <2>3. hash_count = 0 /\ sha_data = 0 /\ lost = 0 /\ save_num = 0 /\ sum_num = 0
    BY DEF Init
  <2>4. 0 + 0 <= m
    BY <2>1
  <2>. QED BY <2>1, <2>2, <2>3, <2>4 DEF CountInv
<1>8. ExitInv
  BY DEF Init, ExitInv
<1>9. \A x \in Contexts : HookOK(x) /\ LinkOK(x) /\ FitsSoFar(x)
  BY <1>2 DEF HookOK, LinkOK, FitsSoFar, Working
<1>. QED BY <1>3, <1>7, <1>8, <1>9 DEF SendInv

LEMMA StutterSend == SendInv /\ UNCHANGED vars => SendInv'
<1>. SUFFICES ASSUME SendInv, UNCHANGED vars PROVE SendInv'
  OBVIOUS
<1>1. UNCHANGED <<desc, torn, tabVars, statVars, slabVars, ctx, wire>> /\ UNCHANGED modVars
  BY DEF vars
<1>2. mod' = mod /\ pool' = pool /\ timers' = timers /\ linked' = linked /\ ctx' = ctx
  BY <1>1 DEF modVars, tabVars
<1>3. ExitInv'
  BY <1>2 DEF SendInv, ExitInv
<1>. QED BY <1>1, <1>2, <1>3, ModPreserves DEF SendInv, TypeOK

LEMMA SendStep == SendInv /\ [Next]_vars => SendInv'
<1>. SUFFICES ASSUME SendInv, [Next]_vars PROVE SendInv'
  OBVIOUS
<1>1. ASSUME NEW x \in Contexts, Hook(x) \/ HookStep(x) PROVE SendInv'
  BY <1>1, HookPreserves, BuildHashPreserves, PartitionedPreserves, HashInitPreserves,
     HashUpdatePreserves, HashFinalPreserves, HashFailsPreserves, LookupPreserves,
     ReadCountPreserves, NewItemPreserves, LinkPreserves, AddSumPreserves, AddSavePreserves,
     LeavePreserves DEF HookStep
<1>2. ASSUME NEW b \in Buckets, BucketClear(b) PROVE SendInv'
  BY <1>2, BucketClearPreserves
<1>3. CASE AllocPool
  BY <1>3, AllocPoolPreserves
<1>4. CASE Unload
  BY <1>4, UnregisterPreserves, FlushPreserves, DelTimersPreserves, DestroyPreserves DEF Unload
<1>5. CASE UNCHANGED vars
  BY <1>5, StutterSend
<1>. QED BY <1>1, <1>2, <1>3, <1>4, <1>5 DEF Next, Gone

\* What the hooks, the table and the counters of the sender agree on at every moment,
\* whatever packets, timers and the unload do.
THEOREM SendInvariant == Spec => []SendInv
BY InitSend, SendStep, PTL DEF Spec

\* Every variable of the sender keeps its type.
THEOREM SendTypeCorrect == Spec => []TypeOK
<1>1. SendInv => TypeOK
  BY DEF SendInv
<1>. QED BY <1>1, SendInvariant, PTL

\* hash_count is the number of items that hash_new_item has handed out and nobody has
\* freed; it exceeds hash_max_count by no more than the number of hooks that can race in
\* hash_new_item; save_num never passes sum_num.
THEOREM CountersExact == Spec => []CountExact
<1>1. ASSUME SendInv PROVE CountExact
  <2>1. hash_count = Cardinality(Allocated) /\ hash_count \in Nat /\ save_num \in Nat /\ sum_num \in Nat
    BY <1>1 DEF SendInv, CountInv, TypeOK
  <2>2. hash_count <= hash_max_count + Cardinality(Contexts)
    <3>1. IsFiniteSet({x \in Contexts : ctx[x].pc = "alloc"}) /\ IsFiniteSet(Contexts)
      BY SendAssumption, FS_Subset
    <3>2. PICK a \in Nat : a = Cardinality({x \in Contexts : ctx[x].pc = "alloc"})
      BY <3>1, FS_CardinalityType
    <3>3. PICK m \in Nat : m = hash_max_count + Cardinality(Contexts)
      BY <3>1, FS_CardinalityType, SendAssumption
    <3>4. hash_count + a <= m
      BY <1>1, <3>2, <3>3 DEF SendInv, CountInv
    <3>. QED BY <2>1, <3>3, <3>4
  <2>3. save_num <= sum_num
    <3>1. PICK u \in Nat : u = Cardinality(Unsaved)
      BY <1>1, FS_CardinalityType DEF SendInv, CountInv
    <3>2. save_num + u <= sum_num
      BY <1>1, <3>1 DEF SendInv, CountInv
    <3>. QED BY <2>1, <3>2
  <2>. QED BY <2>1, <2>2, <2>3 DEF CountExact
<1>. QED BY <1>1, SendInvariant, PTL

\* When mexit destroys the caches the table is empty, its timers are gone, no hook runs,
\* and the objects left in sha_data are those that failed hashes have lost.
THEOREM UnloadClean == Spec => []TeardownClean
<1>1. ASSUME SendInv PROVE TeardownClean
  <2>1. SUFFICES ASSUME mod \in {"stopped", "gone"}
                 PROVE  /\ Allocated = {} /\ hash_count = 0 /\ timers = {}
                        /\ \A x \in Contexts : ctx[x].pc = "idle"
                        /\ sha_data = lost
    BY DEF TeardownClean
  <2>2. (\A x \in Contexts : ctx[x].pc = "idle") /\ linked = {} /\ timers = {}
    BY <1>1, <2>1 DEF SendInv, ExitInv
  <2>3. Allocated = {}
    BY <2>2 DEF Allocated
  <2>4. {x \in Contexts : ctx[x].pc \in Working} = {}
    BY <2>2 DEF Working
  <2>5. Cardinality({}) = 0
    BY FS_EmptySet
  <2>6. hash_count = 0 /\ sha_data = lost + 0 /\ lost \in Nat
    BY <1>1, <2>3, <2>4, <2>5 DEF SendInv, CountInv, TypeOK
  <2>. QED BY <2>2, <2>3, <2>6
<1>. QED BY <1>1, SendInvariant, PTL

\* replace_skb never reaches its BUG(), and writes two bytes less for every replaced
\* chunk than new_len makes room for.
THEOREM ReplacementFits == Spec => []ReplaceFits
<1>1. ASSUME SendInv PROVE ReplaceFits
  BY <1>1 DEF SendInv, FitsSoFar, ReplaceFits, NewSize
<1>. QED BY <1>1, SendInvariant, PTL

-----------------------------------------------------------------------------
(* The table implements DedupCache *)

\* A step of one hook changes only its own answer.
LEMMA AnswersFrame ==
    ASSUME TypeOK, NEW x \in Contexts, Others(x), NEW v, Answer(x)' = v
    PROVE  Answers' = [Answers EXCEPT ![x] = v]
<1>1. ASSUME NEW y \in Contexts, y # x PROVE Answer(y)' = Answer(y)
  BY <1>1 DEF Others, Answer, Reply
<1>. QED BY <1>1 DEF Answers

LEMMA AnswersSame ==
    ASSUME TypeOK, NEW x \in Contexts, Others(x), Answer(x)' = Answer(x)
    PROVE  Answers' = Answers
<1>1. ASSUME NEW y \in Contexts PROVE Answer(y)' = Answer(y)
  <2>1. CASE y # x
    BY <2>1 DEF Others, Answer, Reply
  <2>. QED BY <2>1
<1>. QED BY <1>1 DEF Answers

\* Steps of a hook before it asks, and after it has used its answer.
Outside == {"idle", "chunk", "leave", "init", "update", "final", "lookup", "missed"}

LEMMA OutsideStutters ==
    ASSUME TypeOK, NEW x \in Contexts, Others(x), linked' = linked, sha1' = sha1,
           ctx[x].pc \in Outside, ctx'[x].pc \in Outside
    PROVE  UNCHANGED Cache!vars
<1>1. Answer(x) = None /\ Answer(x)' = None
  BY DEF Answer, Outside
<1>2. Answers' = Answers
  BY <1>1, AnswersSame
<1>3. Known' = Known
  BY DEF Known
<1>. QED BY <1>2, <1>3 DEF Cache!vars

LEMMA HookCache ==
    ASSUME SendInv, NEW x \in Contexts, Hook(x)
    PROVE  UNCHANGED Cache!vars
<1>1. TypeOK /\ ctx[x].pc = "idle" /\ linked' = linked /\ sha1' = sha1
  BY DEF SendInv, Hook, Runs, tabVars
<1>2. ctx' \in [Contexts -> HookRec]
  BY HookPreserves DEF SendInv, TypeOK
<1>3. PICK v : ctx' = [ctx EXCEPT ![x] = v] /\ v.pc = "chunk"
  <2>1. PICK p \in Payloads, cut \in BOOLEAN :
        ctx' = [ctx EXCEPT ![x] = [NoHook EXCEPT !.pc = "chunk", !.data = p,
                                                 !.k = IF cut THEN 1 ELSE Len(p) + 1,
                                                 !.new_len = Sum(p)]]
    BY DEF Hook
  <2>2. PICK v : v = [NoHook EXCEPT !.pc = "chunk", !.data = p,
                                    !.k = IF cut THEN 1 ELSE Len(p) + 1, !.new_len = Sum(p)]
    OBVIOUS
  <2>3. v.pc = "chunk"
    BY <2>2 DEF NoHook
  <2>. QED BY <2>1, <2>2, <2>3
<1>4. Others(x) /\ ctx'[x].pc = "chunk"
  BY <1>1, <1>2, <1>3 DEF Others, TypeOK
<1>. QED BY <1>1, <1>4, OutsideStutters DEF Outside

\* A step to the next chunk after which the hook has no answer.
LEMMA MoveCache ==
    ASSUME SendInv, NEW x \in Contexts, ctx[x].pc \in Outside \ {"idle", "leave"},
           ctx[x].k <= Len(ctx[x].data), NextChunk(x, << >>, 0), linked' = linked, sha1' = sha1
    PROVE  UNCHANGED Cache!vars
<1>1. << >> \in Seq(ReplaceItem)
  OBVIOUS
<1>2. PICK r \in Seq(ReplaceItem) : r = << >>
  BY <1>1
<1>3. PICK z \in Int : z = 0
  OBVIOUS
<1>4. TypeOK /\ NextChunk(x, r, z)
  BY <1>2, <1>3 DEF SendInv
<1>5. Others(x) /\ Moved(x, r, z)
  BY <1>4, NextShape
<1>6. ctx'[x].pc = "chunk"
  BY <1>5 DEF Moved
<1>. QED BY <1>4, <1>5, <1>6, OutsideStutters DEF Outside

LEMMA GotoCache ==
    ASSUME SendInv, NEW x \in Contexts, NEW to \in Outside, ctx[x].pc \in Outside, Goto(x, to),
           linked' = linked, sha1' = sha1
    PROVE  UNCHANGED Cache!vars
<1>1. TypeOK /\ to \in Pcs
  BY DEF SendInv, Outside, Pcs, Working
<1>2. Others(x) /\ ctx'[x].pc = to
  BY <1>1, GotoShape
<1>. QED BY <1>1, <1>2, OutsideStutters

\* hand_hash asks the table.
LEMMA LookupCache ==
    ASSUME SendInv, NEW x \in Contexts, Lookup(x)
    PROVE  \E d \in Digests : Cache!Ask(x, d)
<1>1. TypeOK /\ ctx[x].pc = "lookup" /\ linked' = linked /\ sha1' = sha1 /\ HookOK(x)
  BY DEF SendInv, Lookup, Runs
<1>2. PICK d \in Digests : d = ctx[x].dst
  BY <1>1 DEF HookOK, Working
<1>3. Known' = Known /\ (d \in Known <=> Matches(d) # {})
  BY <1>1 DEF Known, Matches
<1>4. Answers[x] = None
  BY <1>1 DEF Answers, Answer
<1>5. ASSUME NEW i \in Matches(d), ctx' = [ctx EXCEPT ![x].pc = "hit", ![x].item = i]
      PROVE  Answers' = [Answers EXCEPT ![x] = Cache!Ref(d)]
  <2>1. i \in Items
    BY <1>1 DEF Matches, TypeOK
  <2>2. PICK v : v = [ctx[x] EXCEPT !.pc = "hit", !.item = i]
    OBVIOUS
  <2>3. v \in HookRec /\ v.pc = "hit" /\ v.dst = ctx[x].dst
    BY <1>1, <2>1, <2>2, FieldTypes DEF HookRec, Working
  <2>4. ctx' = [ctx EXCEPT ![x] = v]
    BY <1>1, <1>5, <2>2, FieldTypes DEF TypeOK, HookRec
  <2>5. Others(x) /\ ctx'[x] = v
    BY <1>1, <2>3, <2>4, CtxSet
  <2>6. Answer(x)' = Cache!Ref(d)
    BY <1>2, <2>3, <2>5 DEF Answer, Reply, Cache!Ref
  <2>. QED BY <1>1, <2>5, <2>6, AnswersFrame
<1>6. ASSUME Goto(x, "miss") PROVE Answers' = [Answers EXCEPT ![x] = Cache!Full(d)]
  <2>1. Others(x) /\ ctx'[x].pc = "miss" /\ ctx'[x].dst = ctx[x].dst
    BY <1>1, <1>6, GotoShape DEF Pcs, Working
  <2>2. Answer(x)' = Cache!Full(d)
    BY <1>2, <2>1 DEF Answer, Reply, Cache!Full
  <2>. QED BY <1>1, <2>1, <2>2, AnswersFrame
<1>7. Answers' = [Answers EXCEPT ![x] = IF d \in Known THEN Cache!Ref(d) ELSE Cache!Full(d)]
  <2>1. CASE Matches(d) = {}
    BY <1>2, <1>3, <1>6, <2>1 DEF Lookup
  <2>2. CASE Matches(d) # {}
    BY <1>2, <1>3, <1>5, <2>2 DEF Lookup
  <2>. QED BY <2>1, <2>2
<1>. QED BY <1>3, <1>4, <1>7 DEF Cache!Ask

\* hash_new_item gives up, or goes on with what the hook was told.
LEMMA ReadCountCache ==
    ASSUME SendInv, NEW x \in Contexts, ReadCount(x)
    PROVE  UNCHANGED Cache!vars \/ \E d \in Digests : Cache!Teach(x, d)
<1>1. TypeOK /\ ctx[x].pc = "miss" /\ linked' = linked /\ sha1' = sha1 /\ HookOK(x)
  BY DEF SendInv, ReadCount, Runs, tabVars
<1>2. PICK d \in Digests : d = ctx[x].dst
  BY <1>1 DEF HookOK, Working
<1>3. Known' = Known
  BY <1>1 DEF Known
<1>4. ASSUME Goto(x, "alloc") PROVE UNCHANGED Cache!vars
  <2>1. Others(x) /\ ctx'[x].pc = "alloc" /\ ctx'[x].dst = ctx[x].dst
    BY <1>1, <1>4, GotoShape DEF Pcs, Working
  <2>2. Answer(x)' = Answer(x)
    BY <1>1, <2>1 DEF Answer, Reply
  <2>. QED BY <1>1, <1>3, <2>1, <2>2, AnswersSame DEF Cache!vars
<1>5. ASSUME Goto(x, "missed") PROVE Cache!Teach(x, d)
  <2>1. Others(x) /\ ctx'[x].pc = "missed"
    BY <1>1, <1>5, GotoShape DEF Pcs, Working
  <2>2. Answer(x)' = None
    BY <2>1 DEF Answer
  <2>3. Answers' = [Answers EXCEPT ![x] = None]
    BY <1>1, <2>1, <2>2, AnswersFrame
  <2>4. Answers[x] = Cache!Full(d)
    BY <1>1, <1>2 DEF Answers, Answer, Reply, Cache!Full
  <2>. QED BY <1>3, <2>3, <2>4 DEF Cache!Teach
<1>. QED BY <1>4, <1>5 DEF ReadCount

LEMMA NewItemCache ==
    ASSUME SendInv, NEW x \in Contexts, NewItem(x)
    PROVE  UNCHANGED Cache!vars
<1>1. TypeOK /\ ctx[x].pc = "alloc" /\ linked' = linked /\ Items # Allocated
  BY DEF SendInv, NewItem, Runs
<1>2. PICK i : i = FreeItem
  OBVIOUS
<1>3. i \in Items /\ i \notin linked
  BY <1>1, <1>2, FreeItemIsFree, AllocatedItems DEF Allocated
<1>4. sha1' = [sha1 EXCEPT ![i] = ctx[x].dst] /\ ctx' = [ctx EXCEPT ![x].pc = "link", ![x].item = i]
  BY <1>2 DEF NewItem
<1>5. PICK v : v = [ctx[x] EXCEPT !.pc = "link", !.item = i]
  OBVIOUS
<1>6. v \in HookRec /\ v.pc = "link" /\ v.dst = ctx[x].dst
  BY <1>1, <1>3, <1>5, FieldTypes DEF HookRec, Working
<1>7. ctx' = [ctx EXCEPT ![x] = v]
  BY <1>1, <1>4, <1>5, FieldTypes DEF TypeOK, HookRec
<1>8. Others(x) /\ ctx'[x] = v
  BY <1>1, <1>6, <1>7, CtxSet
<1>9. Answer(x)' = Answer(x)
  BY <1>1, <1>6, <1>8 DEF Answer, Reply
<1>10. Known' = Known
  <2>1. \A j \in linked : sha1'[j] = sha1[j]
    BY <1>1, <1>3, <1>4 DEF TypeOK
  <2>. QED BY <1>1, <2>1 DEF Known
<1>. QED BY <1>1, <1>8, <1>9, <1>10, AnswersSame DEF Cache!vars

\* _hash teaches the table the digest it was asked about.
LEMMA LinkCache ==
    ASSUME SendInv, NEW x \in Contexts, Link(x)
    PROVE  \E d \in Digests : Cache!Teach(x, d)
<1>1. /\ TypeOK /\ ctx[x].pc = "link" /\ HookOK(x) /\ LinkOK(x) /\ Goto(x, "missed")
      /\ linked' = linked \cup {ctx[x].item} /\ sha1' = sha1
  BY DEF SendInv, Link, Runs
<1>2. PICK d \in Digests : d = ctx[x].dst
  BY <1>1 DEF HookOK, Working
<1>3. Known' = Known \cup {d}
  BY <1>1, <1>2 DEF Known, LinkOK
<1>4. Others(x) /\ ctx'[x].pc = "missed"
  BY <1>1, GotoShape DEF Pcs, Working
<1>5. Answer(x)' = None
  BY <1>4 DEF Answer
<1>6. Answers' = [Answers EXCEPT ![x] = None]
  BY <1>1, <1>4, <1>5, AnswersFrame
<1>7. Answers[x] = Cache!Full(d)
  BY <1>1, <1>2 DEF Answers, Answer, Reply, Cache!Full
<1>. QED BY <1>3, <1>6, <1>7 DEF Cache!Teach

LEMMA AddSumCache ==
    ASSUME SendInv, NEW x \in Contexts, AddSum(x)
    PROVE  UNCHANGED Cache!vars
<1>1. TypeOK /\ HookOK(x) /\ linked' = linked /\ sha1' = sha1
  BY DEF SendInv, AddSum, tabVars
<1>2. CASE ctx[x].pc = "hit" /\ Goto(x, "save")
  <2>1. Others(x) /\ ctx'[x].pc = "save" /\ ctx'[x].dst = ctx[x].dst
    BY <1>1, <1>2, GotoShape DEF Pcs, Working
  <2>2. Answer(x)' = Answer(x)
    BY <1>2, <2>1 DEF Answer, Reply
  <2>3. Known' = Known
    BY <1>1 DEF Known
  <2>. QED BY <1>1, <2>1, <2>2, <2>3, AnswersSame DEF Cache!vars
<1>3. CASE ctx[x].pc = "missed" /\ NextChunk(x, << >>, 0)
  <2>1. ctx[x].k <= Len(ctx[x].data) /\ ctx[x].pc \in Outside \ {"idle", "leave"}
    BY <1>1, <1>3 DEF HookOK, Working, Outside
  <2>. QED BY <1>1, <1>3, <2>1, MoveCache
<1>. QED BY <1>2, <1>3 DEF AddSum

\* A hook refers to a digest only after it was told that the table knows it.
LEMMA AddSaveCache ==
    ASSUME SendInv, NEW x \in Contexts, AddSave(x)
    PROVE  \E d \in Digests : Cache!Refer(x, d)
<1>1. TypeOK /\ ctx[x].pc = "save" /\ HookOK(x) /\ linked' = linked /\ sha1' = sha1
  BY DEF SendInv, AddSave, Runs, tabVars
<1>2. PICK d \in Digests : d = ctx[x].dst
  BY <1>1 DEF HookOK, Working
<1>3. Known' = Known
  BY <1>1 DEF Known
<1>4. ctx' \in [Contexts -> HookRec]
  BY AddSavePreserves DEF SendInv, TypeOK
<1>5. PICK v : ctx' = [ctx EXCEPT ![x] = v] /\ v.pc = "chunk"
  <2>1. PICK r, saved : NextChunk(x, r, saved)
    BY DEF AddSave
  <2>2. PICK v : v = [ctx[x] EXCEPT !.pc = "chunk", !.k = @ + 1,
                                    !.start = @ + Length[Chunk(x)],
                                    !.dst = None, !.item = None,
                                    !.new_len = @ - saved, !.hand_list = @ \o r]
    OBVIOUS
  <2>3. v.pc = "chunk"
    BY <1>1, <2>2, FieldTypes DEF HookRec
  <2>. QED BY <2>1, <2>2, <2>3 DEF NextChunk
<1>6. Others(x) /\ ctx'[x].pc = "chunk"
  BY <1>1, <1>4, <1>5 DEF Others, TypeOK
<1>7. Answer(x)' = None
  BY <1>6 DEF Answer
<1>8. Answers' = [Answers EXCEPT ![x] = None]
  BY <1>1, <1>6, <1>7, AnswersFrame
<1>9. Answers[x] = Cache!Ref(d)
  BY <1>1, <1>2 DEF Answers, Answer, Reply, Cache!Ref
<1>. QED BY <1>3, <1>8, <1>9 DEF Cache!Refer

\* The timers and hash_flush only forget.
LEMMA FreeCache ==
    ASSUME SendInv, NEW S \in SUBSET linked, FreeItems(S), ctx' = ctx
    PROVE  Cache!Forget
<1>1. /\ TypeOK /\ linked' = linked \ S
      /\ sha1' = [i \in Items |-> IF i \in S THEN None ELSE sha1[i]]
  BY DEF SendInv, FreeItems
<1>2. \A i \in linked' : i \in linked /\ sha1'[i] = sha1[i]
  BY <1>1 DEF TypeOK
<1>3. Known' \in SUBSET Known
  BY <1>2 DEF Known
<1>4. Answers' = Answers
  BY DEF Answers, Answer, Reply
<1>. QED BY <1>3, <1>4 DEF Cache!Forget

\* Steps that leave both the table and the hooks alone.
LEMMA RestCache ==
    ASSUME UNCHANGED <<tabVars, ctx>>
    PROVE  UNCHANGED Cache!vars
BY DEF Cache!vars, Known, Answers, Answer, Reply, tabVars

LEMMA HookStepCache ==
    ASSUME SendInv, NEW x \in Contexts, HookStep(x)
    PROVE  \/ UNCHANGED Cache!vars
           \/ \E d \in Digests : Cache!Ask(x, d) \/ Cache!Teach(x, d) \/ Cache!Refer(x, d)
<1>1. CASE BuildHash(x)
  <2>1. /\ ctx[x].pc \in Outside \ {"idle", "leave"} /\ ctx[x].k <= Len(ctx[x].data)
        /\ NextChunk(x, << >>, 0) \/ Goto(x, "init")
        /\ linked' = linked /\ sha1' = sha1
    BY <1>1 DEF BuildHash, Runs, Outside, tabVars
  <2>2. "init" \in Outside
    BY DEF Outside
  <2>. QED BY <2>1, <2>2, MoveCache, GotoCache
<1>2. CASE Partitioned(x)
  <2>1. /\ ctx[x].pc \in Outside /\ Goto(x, "leave") /\ "leave" \in Outside
        /\ linked' = linked /\ sha1' = sha1
    BY <1>2 DEF Partitioned, Runs, Outside, tabVars
  <2>. QED BY <2>1, GotoCache
<1>3. CASE HashInit(x)
  <2>1. /\ ctx[x].pc \in Outside /\ Goto(x, "update") /\ "update" \in Outside
        /\ linked' = linked /\ sha1' = sha1
    BY <1>3 DEF HashInit, Runs, Outside, tabVars
  <2>. QED BY <2>1, GotoCache
<1>4. CASE HashUpdate(x)
  <2>1. /\ ctx[x].pc \in Outside /\ Goto(x, "final") /\ "final" \in Outside
        /\ linked' = linked /\ sha1' = sha1
    BY <1>4 DEF HashUpdate, Runs, Outside, tabVars
  <2>. QED BY <2>1, GotoCache
<1>5. CASE HashFinal(x)
  <2>1. /\ TypeOK /\ ctx[x].pc = "final" /\ linked' = linked /\ sha1' = sha1
        /\ ctx' = [ctx EXCEPT ![x].pc = "lookup", ![x].dst = desc[x[1]]]
    BY <1>5 DEF SendInv, HashFinal, Runs, tabVars
  <2>2. ctx' \in [Contexts -> HookRec]
    BY <1>5, HashFinalPreserves DEF SendInv, TypeOK
  <2>3. Others(x) /\ ctx'[x].pc = "lookup"
    <3>1. PICK v : v = [ctx[x] EXCEPT !.pc = "lookup", !.dst = desc[x[1]]]
      OBVIOUS
    <3>2. ctx' = [ctx EXCEPT ![x] = v] /\ v.pc = "lookup"
      BY <2>1, <3>1, FieldTypes DEF TypeOK, HookRec
    <3>. QED BY <2>1, <2>2, <3>2 DEF Others, TypeOK
  <2>. QED BY <2>1, <2>3, OutsideStutters DEF Outside
<1>6. CASE HashFails(x)
  <2>1. ctx[x].pc \in {"init", "update", "final"} /\ HookOK(x)
    BY <1>6 DEF SendInv, HashFails, Runs
  <2>2. /\ ctx[x].pc \in Outside \ {"idle", "leave"} /\ ctx[x].k <= Len(ctx[x].data)
        /\ NextChunk(x, << >>, 0) /\ linked' = linked /\ sha1' = sha1
    BY <1>6, <2>1 DEF HashFails, HookOK, Working, Outside, tabVars
  <2>. QED BY <2>2, MoveCache
<1>7. CASE Lookup(x)
  BY <1>7, LookupCache
<1>8. CASE ReadCount(x)
  BY <1>8, ReadCountCache
<1>9. CASE NewItem(x)
  BY <1>9, NewItemCache
<1>10. CASE Link(x)
  BY <1>10, LinkCache
<1>11. CASE AddSum(x)
  BY <1>11, AddSumCache
<1>12. CASE AddSave(x)
  BY <1>12, AddSaveCache
<1>13. CASE Leave(x)
  <2>1. /\ TypeOK /\ ctx[x].pc = "leave" /\ linked' = linked /\ sha1' = sha1
        /\ ctx' = [ctx EXCEPT ![x] = NoHook]
    BY <1>13 DEF SendInv, Leave, Runs, tabVars
  <2>2. ctx' \in [Contexts -> HookRec]
    BY <1>13, LeavePreserves DEF SendInv, TypeOK
  <2>3. Others(x) /\ ctx'[x].pc = "idle"
    <3>1. PICK v : v = NoHook
      OBVIOUS
    <3>2. v.pc = "idle"
      BY <3>1 DEF NoHook
    <3>. QED BY <2>1, <2>2, <3>1, <3>2 DEF Others, TypeOK
  <2>. QED BY <2>1, <2>3, OutsideStutters DEF Outside
<1>. QED BY <1>1, <1>2, <1>3, <1>4, <1>5, <1>6, <1>7, <1>8, <1>9, <1>10, <1>11, <1>12, <1>13
     DEF HookStep

LEMMA CacheInit == Init => Cache!Init
<1>. SUFFICES ASSUME Init PROVE Cache!Init
  OBVIOUS
<1>1. Known = {}
  BY DEF Init, Known
<1>2. \A x \in Contexts : ctx[x].pc = "idle"
  BY DEF Init, NoHook
<1>3. Answers = [x \in Contexts |-> None]
  BY <1>2 DEF Answers, Answer
<1>. QED BY <1>1, <1>3 DEF Cache!Init

LEMMA CacheStep == SendInv /\ [Next]_vars => [Cache!Next]_(Cache!vars)
<1>. SUFFICES ASSUME SendInv, [Next]_vars PROVE Cache!Next \/ UNCHANGED Cache!vars
  OBVIOUS
<1>1. ASSUME NEW x \in Contexts, Hook(x) PROVE UNCHANGED Cache!vars
  BY <1>1, HookCache
<1>2. ASSUME NEW x \in Contexts, HookStep(x) PROVE Cache!Next \/ UNCHANGED Cache!vars
  BY <1>2, HookStepCache DEF Cache!Next
<1>3. ASSUME NEW b \in Buckets, BucketClear(b) PROVE Cache!Next
  <2>1. Expired(b) \in SUBSET linked /\ FreeItems(Expired(b)) /\ ctx' = ctx
    BY <1>3 DEF BucketClear, Expired, InBucket
  <2>. QED BY <2>1, FreeCache DEF Cache!Next
<1>4. CASE Flush
  <2>1. ASSUME NEW b \in Buckets, FreeItems(InBucket(b)) PROVE Cache!Next
    <3>1. InBucket(b) \in SUBSET linked /\ ctx' = ctx
      BY <1>4 DEF Flush, InBucket
    <3>. QED BY <2>1, <3>1, FreeCache DEF Cache!Next
  <2>2. ASSUME UNCHANGED tabVars PROVE UNCHANGED Cache!vars
    <3>1. ctx' = ctx
      BY <1>4 DEF Flush
    <3>. QED BY <2>2, <3>1, RestCache
  <2>. QED BY <1>4, <2>1, <2>2 DEF Flush
<1>5. CASE AllocPool \/ UnregisterHook \/ DelTimers \/ Destroy
  <2>1. UNCHANGED <<tabVars, ctx>>
    BY <1>5 DEF AllocPool, UnregisterHook, DelTimers, Destroy
  <2>. QED BY <2>1, RestCache
<1>6. CASE UNCHANGED vars
  <2>1. UNCHANGED <<tabVars, ctx>>
    BY <1>6 DEF vars
  <2>. QED BY <2>1, RestCache
<1>. QED BY <1>1, <1>2, <1>3, <1>4, <1>5, <1>6 DEF Next, Unload, Gone

\* The sender's table of digests implements DedupCache: a hook is told that a digest is
\* known only when an item with it is linked, refers to no other, and the table learns
\* nothing but what a hook that missed it links, whatever the timers and hash_flush free
\* between two steps of a hook.
THEOREM ImplementsCache == Spec => CacheSpec
<1>1. Init => Cache!Init
  BY CacheInit
<1>2. SendInv /\ [Next]_vars => [Cache!Next]_(Cache!vars)
  BY CacheStep
<1>. QED BY <1>1, <1>2, SendInvariant, PTL DEF Spec, CacheSpec, Cache!Spec

-----------------------------------------------------------------------------
(* What has been replaced has been sent *)

LEMMA PlaceAt ==
    ASSUME NEW s \in Seq(Chunks), NEW w, Places(s, w)
    PROVE  /\ Len(s) \in Nat /\ w[0] = 0
           /\ \A k \in 0 .. Len(s) : w[k] \in Nat
           /\ \A k \in 1 .. Len(s) : /\ w[k] = w[k - 1] + Length[s[k]]
                                     /\ Length[s[k]] \in Nat /\ w[k - 1] \in Nat
<1>1. \A k \in 1 .. Len(s) : s[k] \in Chunks /\ k - 1 \in 0 .. Len(s)
  OBVIOUS
<1>2. \A k \in 1 .. Len(s) : Length[s[k]] \in Nat
  BY <1>1, SendAssumption
<1>3. \A k \in 0 .. Len(s) : w[k] \in Nat
  BY DEF Places
<1>4. w[0] = 0 /\ \A k \in 1 .. Len(s) : w[k] = w[k - 1] + Length[s[k]]
  BY DEF Places
<1>. QED BY <1>1, <1>2, <1>3, <1>4

\* Where the chunks of a payload begin.
LEMMA PrefixSums ==
    ASSUME NEW s \in Seq(Chunks), NEW w, Places(s, w), NEW k \in 0 .. Len(s)
    PROVE  Sum(SubSeq(s, 1, k)) = w[k]
<1>1. PICK t : t = SubSeq(s, 1, k)
  OBVIOUS
<1>2. t \in Seq(Chunks) /\ Len(t) = k /\ \A j \in 1 .. k : t[j] = s[j]
  BY <1>1, SubSeqProperties
<1>3. PICK v : v = [j \in 0 .. k |-> w[j]]
  OBVIOUS
<1>4. v \in [0 .. Len(t) -> Nat] /\ v[0] = 0 /\ v[k] = w[k]
  BY <1>2, <1>3, PlaceAt
<1>5. \A j \in 1 .. Len(t) : v[j] = v[j - 1] + Length[t[j]]
  <2>. TAKE j \in 1 .. Len(t)
  <2>1. j \in 1 .. Len(s) /\ j \in 1 .. k /\ j \in 0 .. k /\ j - 1 \in 0 .. k
    BY <1>2
  <2>2. w[j] = w[j - 1] + Length[s[j]]
    BY <2>1, PlaceAt
  <2>. QED BY <1>2, <1>3, <2>1, <2>2
<1>6. Sum(t) = v[Len(t)]
  BY <1>2, <1>4, <1>5, SumIs
<1>. QED BY <1>1, <1>2, <1>4, <1>6

LEMMA PlacesGrow ==
    ASSUME NEW s \in Seq(Chunks), NEW w, Places(s, w),
           NEW j \in 0 .. Len(s), NEW k \in j .. Len(s)
    PROVE  w[j] <= w[k]
<1>. DEFINE T == {m \in j .. Len(s) : ~(w[j] <= w[m])}
<1>. SUFFICES ASSUME T # {} PROVE FALSE
  OBVIOUS
<1>1. T \in SUBSET Nat
  OBVIOUS
<1>2. PICK m \in T : \A l \in T : m <= l
  BY <1>1, Least
<1>3. w[j] \in Nat /\ w[m] \in Nat
  <2>1. j \in 0 .. Len(s) /\ m \in 0 .. Len(s)
    BY <1>2
  <2>. QED BY <2>1, PlaceAt
<1>4. m \in 1 .. Len(s) /\ m # j /\ m - 1 \in j .. Len(s) /\ m - 1 \notin T
  BY <1>2, <1>3
<1>5. w[m] = w[m - 1] + Length[s[m]] /\ Length[s[m]] \in Nat /\ w[m - 1] \in Nat
  BY <1>4, PlaceAt
<1>6. w[j] <= w[m - 1]
  BY <1>4
<1>. QED BY <1>2, <1>3, <1>5, <1>6

\* A chunk ends before the next one begins.
LEMMA PrefixLess ==
    ASSUME NEW s \in Seq(Chunks), NEW k \in 1 .. Len(s), NEW j \in 1 .. k - 1
    PROVE  /\ Sum(SubSeq(s, 1, j - 1)) \in Nat /\ Sum(SubSeq(s, 1, k - 1)) \in Nat
           /\ Sum(SubSeq(s, 1, j - 1)) + Length[s[j]] <= Sum(SubSeq(s, 1, k - 1))
<1>1. PICK w : Places(s, w)
  BY PlacesExist
<1>2. Sum(SubSeq(s, 1, j - 1)) = w[j - 1] /\ Sum(SubSeq(s, 1, k - 1)) = w[k - 1]
  BY <1>1, PrefixSums
<1>3. w[j] = w[j - 1] + Length[s[j]] /\ w[j - 1] \in Nat /\ w[k - 1] \in Nat
  <2>1. j \in 1 .. Len(s) /\ k - 1 \in 0 .. Len(s)
    OBVIOUS
  <2>. QED BY <1>1, <2>1, PlaceAt
<1>4. w[j] <= w[k - 1]
  BY <1>1, PlacesGrow
<1>. QED BY <1>2, <1>3, <1>4

LEMMA PrefixNext ==
    ASSUME NEW s \in Seq(Chunks), NEW k \in 1 .. Len(s)
    PROVE  /\ Sum(SubSeq(s, 1, k - 1)) \in Nat
           /\ Sum(SubSeq(s, 1, k)) = Sum(SubSeq(s, 1, k - 1)) + Length[s[k]]
<1>1. PICK w : Places(s, w)
  BY PlacesExist
<1>2. Sum(SubSeq(s, 1, k - 1)) = w[k - 1] /\ Sum(SubSeq(s, 1, k)) = w[k]
  BY <1>1, PrefixSums
<1>3. w[k] = w[k - 1] + Length[s[k]] /\ w[k - 1] \in Nat
  BY <1>1 DEF Places
<1>. QED BY <1>2, <1>3

LEMMA PrefixFirst == Sum(SubSeq(<< >>, 1, 0)) = 0 /\ \A s \in Seq(Chunks) : Sum(SubSeq(s, 1, 0)) = 0
<1>1. << >> \in Seq(Chunks)
  OBVIOUS
<1>2. ASSUME NEW s \in Seq(Chunks) PROVE Sum(SubSeq(s, 1, 0)) = 0
  <2>1. PICK w : Places(s, w)
    BY PlacesExist
  <2>2. Sum(SubSeq(s, 1, 0)) = w[0]
    BY <2>1, PrefixSums
  <2>. QED BY <2>1, <2>2 DEF Places
<1>. QED BY <1>1, <1>2

\* A list with at most one entry more.
LEMMA ToSetMore ==
    ASSUME NEW S, NEW h \in Seq(S), NEW e \in S
    PROVE  ToSet(h \o << >>) = ToSet(h) /\ ToSet(h \o <<e>>) = ToSet(h) \cup {e}
<1>1. h \o << >> = h
  OBVIOUS
<1>2. PICK g : g = h \o <<e>>
  OBVIOUS
<1>3. /\ DOMAIN h = 1 .. Len(h) /\ DOMAIN g = 1 .. Len(h) + 1 /\ g[Len(h) + 1] = e
      /\ \A j \in 1 .. Len(h) : g[j] = h[j]
  BY <1>2
<1>4. ToSet(g) = ToSet(h) \cup {e}
  BY <1>3 DEF ToSet
<1>. QED BY <1>1, <1>2, <1>4

-----------------------------------------------------------------------------
(* What is kept stays kept *)

\* Of the other hooks nothing changes.
LEMMA KeptFrom ==
    ASSUME NEW x \in Contexts, Others(x), wire \subseteq wire',
           \A c \in Dealt(x) : Length[c] > SHALEN + 2 => c \in wire' \cup Dealt(x)'
    PROVE  Kept \subseteq Kept'
<1>1. ASSUME NEW y \in Contexts \ {x} PROVE Dealt(y)' = Dealt(y)
  BY DEF Others, Dealt, InFull
<1>2. ASSUME NEW c \in Kept PROVE c \in Kept'
  <2>1. Length[c] > SHALEN + 2 /\ (c \in wire \/ \E y \in Contexts : c \in Dealt(y))
    BY <1>2 DEF Kept
  <2>2. CASE c \in wire
    BY <2>1, <2>2 DEF Kept
  <2>3. CASE c \in Dealt(x)
    BY <2>1, <2>3 DEF Kept
  <2>4. CASE \E y \in Contexts \ {x} : c \in Dealt(y)
    BY <2>1, <2>4, <1>1 DEF Kept
  <2>. QED BY <2>1, <2>2, <2>3, <2>4
<1>. QED BY <1>2

\* The number of chunks dealt with.
Done(x) == IF ctx[x].pc = "missed" THEN ctx[x].k ELSE ctx[x].k - 1

LEMMA InFullIs ==
    ASSUME NEW x, NEW n, NEW c
    PROVE  c \in InFull(x, n) <=>
             \E k \in 1 .. n : /\ c = ctx[x].data[k]
                               /\ \A cp \in ToSet(ctx[x].hand_list) :
                                     cp.start # Sum(SubSeq(ctx[x].data, 1, k - 1))
BY DEF InFull

\* The chunk at hand, when nothing is replaced by then.
LEMMA ChunkInFull ==
    ASSUME TypeOK, NEW x \in Contexts, PlaceOK(x), ctx[x].k <= Len(ctx[x].data)
    PROVE  Chunk(x) \in InFull(x, ctx[x].k)
<1>1. ctx[x].k \in 1 .. ctx[x].k /\ ctx[x].start \in Nat
  BY FieldTypes
<1>2. ASSUME NEW cp \in ToSet(ctx[x].hand_list)
      PROVE  cp.start # Sum(SubSeq(ctx[x].data, 1, ctx[x].k - 1))
  <2>1. cp.start < ctx[x].start /\ ctx[x].start = Sum(SubSeq(ctx[x].data, 1, ctx[x].k - 1))
    BY DEF PlaceOK
  <2>2. cp \in ReplaceItem
    BY FieldTypes DEF ToSet
  <2>3. cp.start \in Nat
    BY <2>2 DEF ReplaceItem
  <2>. QED BY <2>1, <2>3, <1>1
<1>. QED BY <1>1, <1>2, InFullIs DEF Chunk

\* A step of a hook that stays at its chunk.
LEMMA KeptSame ==
    ASSUME SendInv, SentInv, NEW x \in Contexts, Others(x), Same(x), wire' = wire,
           ctx[x].pc = "missed" => ctx'[x].pc = "missed"
    PROVE  /\ Kept \subseteq Kept'
           /\ (ctx'[x].pc = "missed" /\ ctx[x].pc \in Working) => Chunk(x) \in Kept'
<1>1. ctx[x].k \in Nat \ {0} /\ TypeOK /\ PlaceOK(x) /\ HookOK(x)
  BY FieldTypes DEF SendInv, SentInv
<1>2. PICK n \in Nat, m \in Nat : n = Done(x) /\ m = Done(x)' /\ n <= m
  BY <1>1 DEF Done, Same
<1>3. InFull(x, n) \subseteq InFull(x, m)
  <2>1. 1 .. n \subseteq 1 .. m
    BY <1>2
  <2>. QED BY <2>1 DEF InFull
<1>4. InFull(x, m)' = InFull(x, m)
  BY DEF Same, InFull
<1>5. Dealt(x) = InFull(x, n) /\ Dealt(x)' = InFull(x, m)
  BY <1>2, <1>4 DEF Dealt, Done
<1>6. Kept \subseteq Kept'
  BY <1>3, <1>5, KeptFrom
<1>7. ASSUME ctx'[x].pc = "missed", ctx[x].pc \in Working PROVE Chunk(x) \in Kept'
  <2>1. ctx[x].k <= Len(ctx[x].data) /\ Length[Chunk(x)] > SHALEN + 2
    BY <1>1, <1>7 DEF HookOK
  <2>2. Chunk(x) \in InFull(x, ctx[x].k)
    BY <1>1, <2>1, ChunkInFull
  <2>3. m = ctx[x].k
    BY <1>2, <1>7 DEF Same, Done
  <2>4. Chunk(x) \in Dealt(x)'
    BY <1>5, <2>2, <2>3
  <2>. QED BY <2>1, <2>4 DEF Kept
<1>. QED BY <1>6, <1>7

\* A step of a hook to its next chunk; at most this one is replaced.
LEMMA KeptMoved ==
    ASSUME SendInv, SentInv, NEW x \in Contexts, Others(x), wire' = wire,
           ctx[x].k <= Len(ctx[x].data), NEW saved, NEW r \in Seq(ReplaceItem),
           Moved(x, r, saved),
           r # << >> => /\ Length[Chunk(x)] > 0 /\ ctx[x].pc # "missed"
                        /\ \E cp \in ReplaceItem : r = <<cp>> /\ cp.start = ctx[x].start
    PROVE  /\ Kept \subseteq Kept' /\ PlaceOK(x)'
           /\ ctx[x].pc \in Working /\ r = << >> => Chunk(x) \in Kept'
<1>1. /\ TypeOK /\ PlaceOK(x) /\ HookOK(x) /\ ctx[x].data \in Seq(Chunks) /\ ctx[x].start \in Nat
      /\ ctx[x].k \in Nat \ {0} /\ ctx[x].hand_list \in Seq(ReplaceItem)
  BY FieldTypes DEF SendInv, SentInv
<1>2. PICK d, k, h, s, g : d = ctx[x].data /\ k = ctx[x].k /\ h = ctx[x].hand_list /\ s = ctx[x].start
                           /\ g = ctx'[x].hand_list
  OBVIOUS
<1>3. /\ d \in Seq(Chunks) /\ k \in 1 .. Len(d) /\ h \in Seq(ReplaceItem) /\ s \in Nat
      /\ s = Sum(SubSeq(d, 1, k - 1)) /\ Length[d[k]] \in Nat /\ Chunk(x) = d[k] /\ d[k] \in Chunks
      /\ \A cp \in ToSet(h) : cp.start < s
  BY <1>1, <1>2, ChunkType DEF PlaceOK, Chunk
<1>4. /\ ctx'[x].data = d /\ ctx'[x].k = k + 1 /\ ctx'[x].start = s + Length[d[k]]
      /\ ctx'[x].pc = "chunk" /\ g = h \o r
  BY <1>2, <1>3 DEF Moved
<1>5. /\ \A cp \in ToSet(g) : cp \in ToSet(h) \/ (cp.start = s /\ r # << >>)
      /\ r = << >> => ToSet(g) = ToSet(h)
  <2>1. CASE r = << >>
    <3>1. g = h
      BY <2>1, <1>3, <1>4
    <3>. QED BY <3>1, <2>1
  <2>2. CASE r # << >>
    <3>1. PICK e \in ReplaceItem : r = <<e>> /\ e.start = s
      BY <2>2, <1>2
    <3>2. ToSet(g) = ToSet(h) \cup {e}
      BY <3>1, <1>3, <1>4, ToSetMore
    <3>. QED BY <3>1, <3>2, <2>2
  <2>. QED BY <2>1, <2>2
<1>6. ASSUME NEW cp \in ToSet(h) PROVE cp.start \in Nat
  <2>1. cp \in ReplaceItem
    BY <1>3 DEF ToSet
  <2>. QED BY <2>1 DEF ReplaceItem
<1>7. Dealt(x)' = InFull(x, k)'
  BY <1>3, <1>4 DEF Dealt
<1>8. ASSUME NEW c, NEW j \in 1 .. k, c = d[j],
             \A cp \in ToSet(g) : cp.start # Sum(SubSeq(d, 1, j - 1))
      PROVE  c \in Dealt(x)'
  BY <1>2, <1>4, <1>7, <1>8 DEF InFull
<1>9. ASSUME NEW c \in Dealt(x), Length[c] > SHALEN + 2
      PROVE  c \in Dealt(x)'
  <2>1. PICK n \in Nat : n <= k /\ (ctx[x].pc # "missed" => n = k - 1) /\ Dealt(x) = InFull(x, n)
    BY <1>2, <1>3 DEF Dealt
  <2>2. PICK j \in 1 .. n : c = d[j] /\ \A cp \in ToSet(h) : cp.start # Sum(SubSeq(d, 1, j - 1))
    BY <1>2, <1>9, <2>1, InFullIs
  <2>3. j \in 1 .. k
    BY <2>1, <1>3
  <2>4. CASE r = << >>
    BY <1>5, <1>8, <2>2, <2>3, <2>4
  <2>5. CASE r # << >>
    <3>1. j \in 1 .. k - 1
      BY <2>1, <2>2, <2>3, <2>5, <1>3
    <3>2. /\ Sum(SubSeq(d, 1, j - 1)) \in Nat
          /\ Sum(SubSeq(d, 1, j - 1)) + Length[d[j]] <= s
      BY <3>1, <1>3, PrefixLess
    <3>3. Length[d[j]] \in Nat /\ Length[d[j]] > 0
      <4>1. d[j] \in Chunks
        BY <2>3, <1>3
      <4>. QED BY <4>1, <2>2, <1>9, SendAssumption
    <3>4. s # Sum(SubSeq(d, 1, j - 1))
      BY <3>2, <3>3, <1>3
    <3>5. \A cp \in ToSet(g) : cp.start # Sum(SubSeq(d, 1, j - 1))
      BY <1>5, <2>2, <3>4
    <3>. QED BY <2>2, <2>3, <3>5, <1>8
  <2>. QED BY <2>4, <2>5
<1>10. Kept \subseteq Kept'
  BY <1>9, KeptFrom
<1>11. PlaceOK(x)'
  <2>1. k + 1 <= Len(d) + 1
    BY <1>3
  <2>2. k + 1 - 1 = k
    BY <1>3
  <2>3. s + Length[d[k]] = Sum(SubSeq(d, 1, k))
    BY <1>3, PrefixNext
  <2>4. ASSUME NEW cp \in ToSet(g) PROVE cp.start < s + Length[d[k]]
    <3>1. CASE cp \in ToSet(h)
      BY <3>1, <1>3, <1>6
    <3>2. CASE cp.start = s /\ r # << >>
      BY <3>2, <1>3
    <3>. QED BY <3>1, <3>2, <1>5
  <2>5. ctx'[x].k <= Len(ctx'[x].data) + 1
    BY <1>4, <2>1
  <2>6. ctx'[x].start = Sum(SubSeq(ctx'[x].data, 1, ctx'[x].k - 1))
    <3>1. PICK l : l = ctx'[x].k
      OBVIOUS
    <3>2. l - 1 = k
      BY <1>3, <1>4, <3>1
    <3>. QED BY <1>4, <2>3, <3>1, <3>2
  <2>7. \A cp \in ToSet(ctx'[x].hand_list) : cp.start < ctx'[x].start
    BY <1>2, <1>4, <2>4
  <2>. QED BY <1>4, <2>5, <2>6, <2>7 DEF PlaceOK
<1>12. ASSUME ctx[x].pc \in Working, r = << >> PROVE Chunk(x) \in Kept'
  <2>1. Length[d[k]] > SHALEN + 2
    BY <1>1, <1>3, <1>12 DEF HookOK
  <2>2. \A cp \in ToSet(g) : cp.start # Sum(SubSeq(d, 1, k - 1))
    <3>. TAKE cp \in ToSet(g)
    <3>1. cp \in ToSet(h)
      BY <1>5, <1>12
    <3>. QED BY <3>1, <1>3, <1>6
  <2>3. d[k] \in Dealt(x)'
    BY <2>2, <1>3, <1>8
  <2>. QED BY <2>1, <2>3, <1>3 DEF Kept
<1>. QED BY <1>10, <1>11, <1>12

\* nf_out returns.
LEMMA KeptLeave ==
    ASSUME SendInv, SentInv, NEW x \in Contexts, Others(x), ctx[x].pc = "leave",
           wire' = wire \cup InFull(x, Len(ctx[x].data))
    PROVE  Kept \subseteq Kept'
<1>1. ctx[x].k <= Len(ctx[x].data) + 1 /\ ctx[x].k \in Nat \ {0} /\ Len(ctx[x].data) \in Nat
  BY FieldTypes DEF SendInv, SentInv, PlaceOK
<1>2. Dealt(x) = InFull(x, ctx[x].k - 1)
  BY DEF Dealt
<1>3. 1 .. ctx[x].k - 1 \subseteq 1 .. Len(ctx[x].data)
  BY <1>1
<1>4. Dealt(x) \subseteq InFull(x, Len(ctx[x].data))
  BY <1>2, <1>3 DEF InFull
<1>. QED BY <1>4, KeptFrom

\* A hook that does not run has nothing in hand.
LEMMA KeptIdle ==
    ASSUME SendInv, SentInv, NEW x \in Contexts, Others(x), ctx[x].pc = "idle", wire' = wire
    PROVE  Kept \subseteq Kept'
<1>1. ctx[x].k <= Len(ctx[x].data) + 1 /\ ctx[x].k \in Nat \ {0} /\ ctx[x].data = << >>
  BY FieldTypes DEF SendInv, SentInv, PlaceOK
<1>2. ctx[x].k = 1
  BY <1>1
<1>3. Dealt(x) = InFull(x, 0)
  BY <1>2 DEF Dealt
<1>4. Dealt(x) = {}
  BY <1>3 DEF InFull
<1>. QED BY <1>4, KeptFrom

-----------------------------------------------------------------------------
(* Steps *)

\* A step of a hook that has nothing to do with the descriptors.
LEMMA QuietSent ==
    ASSUME SendInv, SentInv, NEW x \in Contexts, Others(x), desc' = desc, torn' = torn,
           Kept \subseteq Kept', PlaceOK(x)',
           ctx'[x].pc \notin {"update", "final"}, ctx[x].pc = "final" => Chunk(x) \in Kept',
           ctx'[x].pc \in Hashed =>
                /\ ctx[x].pc \in Hashed /\ ctx'[x].dst = ctx[x].dst
                /\ ctx'[x].data = ctx[x].data /\ ctx'[x].k = ctx[x].k,
           ctx'[x].pc \in {"hit", "save"} => \A s \in Chunks : ctx'[x].dst = <<s>> => s \in Kept',
           \A cp \in ToSet(ctx'[x].hand_list) :
                cp \in ToSet(ctx[x].hand_list) \/ cp.chunk = None \/ cp.chunk \in Kept',
           \A i \in linked', s \in Chunks : sha1'[i] = <<s>> => s \in Kept'
    PROVE  SentInv'
<1>1. \A y \in Contexts \ {x} : ctx'[y] = ctx[y]
  BY DEF Others
<1>2. ASSUME NEW y \in Contexts PROVE PlaceOK(y)'
  <2>1. CASE y = x
    BY <2>1
  <2>2. CASE y # x
    BY <2>2, <1>1 DEF SentInv, PlaceOK
  <2>. QED BY <2>1, <2>2
<1>3. ASSUME NEW y \in Contexts PROVE WholeOK(y)'
  <2>1. WholeOK(y)
    BY DEF SentInv
  <2>2. CASE y = x
    BY <2>1, <2>2 DEF WholeOK, Chunk
  <2>3. CASE y # x
    BY <2>1, <2>3, <1>1 DEF WholeOK, Chunk
  <2>. QED BY <2>2, <2>3
<1>4. ASSUME NEW y \in Contexts PROVE DigestOK(y)'
  <2>1. DigestOK(y)
    BY DEF SentInv
  <2>2. CASE y = x
    BY <2>1, <2>2 DEF DigestOK, Chunk
  <2>3. CASE y # x
    BY <2>1, <2>3, <1>1 DEF DigestOK, Chunk
  <2>. QED BY <2>2, <2>3
<1>5. DescOK'
  <2>. SUFFICES ASSUME NEW c \in Cpus, NEW s \in Chunks, desc[c] = <<s>>
                PROVE  s \in Kept' \/ \E y \in Contexts : y[1] = c /\ ctx'[y].pc = "final" /\ Chunk(y)' = s
    BY DEF DescOK
  <2>1. CASE s \in Kept
    BY <2>1
  <2>2. CASE \E y \in Contexts : y[1] = c /\ ctx[y].pc = "final" /\ Chunk(y) = s
    <3>1. PICK y \in Contexts : y[1] = c /\ ctx[y].pc = "final" /\ Chunk(y) = s
      BY <2>2
    <3>2. CASE y = x
      BY <3>1, <3>2
    <3>3. CASE y # x
      BY <3>1, <3>3, <1>1 DEF Chunk
    <3>. QED BY <3>2, <3>3
  <2>. QED BY <2>1, <2>2 DEF SentInv, DescOK
<1>6. TableOK'
  BY DEF TableOK
<1>7. ReplacedOK'
  <2>1. ReplacedOK
    BY DEF SentInv
  <2>. QED BY <2>1, <1>1 DEF ReplacedOK
<1>8. torn' \subseteq Cpus \X {"process"}
  BY DEF SentInv
<1>. QED BY <1>2, <1>3, <1>4, <1>5, <1>6, <1>7, <1>8 DEF SentInv

\* The table stays as it is.
LEMMA SameTable ==
    ASSUME SentInv, Kept \subseteq Kept', linked' = linked, sha1' = sha1
    PROVE  \A i \in linked', s \in Chunks : sha1'[i] = <<s>> => s \in Kept'
BY DEF SentInv, TableOK

LEMMA HookSent ==
    ASSUME SendInv, SentInv, NEW x \in Contexts, Hook(x)
    PROVE  SentInv'
<1>1. /\ TypeOK /\ ctx[x].pc = "idle" /\ desc' = desc /\ torn' = torn /\ wire' = wire
      /\ linked' = linked /\ sha1' = sha1
  BY DEF SendInv, Hook, Runs, tabVars
<1>2. PICK p \in Seq(Chunks) : \E n \in {1, Len(p) + 1} : Begun(x, p, n)
  BY <1>1, HookShape
<1>2a. PICK k \in {1, Len(p) + 1} : Begun(x, p, k)
  BY <1>2
<1>3. Others(x)
  BY <1>1, HookShape
<1>4. Kept \subseteq Kept'
  BY <1>1, <1>3, KeptIdle
<1>5. /\ ctx'[x].pc = "chunk" /\ ctx'[x].data = p /\ ctx'[x].k = k /\ ctx'[x].start = 0
      /\ ctx'[x].hand_list = << >>
  BY <1>2a DEF Begun
<1>6. ToSet(<< >>) = {}
  BY DEF ToSet
<1>7. PlaceOK(x)'
  <2>1. Len(p) \in Nat /\ k <= Len(p) + 1 /\ (k <= Len(p) => k = 1)
    BY <1>2, <1>2a
  <2>2. k = 1 => Sum(SubSeq(p, 1, k - 1)) = 0
    BY PrefixFirst
  <2>. QED BY <1>5, <1>6, <2>1, <2>2 DEF PlaceOK
<1>. QED BY <1>1, <1>3, <1>4, <1>5, <1>6, <1>7, SameTable, QuietSent DEF Hashed

LEMMA LeaveSent ==
    ASSUME SendInv, SentInv, NEW x \in Contexts, Leave(x)
    PROVE  SentInv'
<1>1. /\ TypeOK /\ ctx[x].pc = "leave" /\ desc' = desc /\ torn' = torn
      /\ wire' = wire \cup InFull(x, Len(ctx[x].data)) /\ ctx' = [ctx EXCEPT ![x] = NoHook]
      /\ linked' = linked /\ sha1' = sha1
  BY DEF SendInv, Leave, Runs, tabVars
<1>2. NoHook \in HookRec
  <2>1. << >> \in Seq(ReplaceItem) /\ << >> \in Seq(Chunks)
    OBVIOUS
  <2>. QED BY <2>1 DEF NoHook, HookRec
<1>3. Others(x) /\ ctx'[x] = NoHook
  BY <1>1, <1>2, CtxSet
<1>4. Kept \subseteq Kept'
  BY <1>1, <1>3, KeptLeave
<1>5. /\ ctx'[x].pc = "idle" /\ ctx'[x].data = << >> /\ ctx'[x].k = 1 /\ ctx'[x].start = 0
      /\ ctx'[x].hand_list = << >>
  BY <1>3 DEF NoHook
<1>6. ToSet(<< >>) = {}
  BY DEF ToSet
<1>7. PlaceOK(x)'
  BY <1>5, <1>6 DEF PlaceOK
<1>. QED BY <1>1, <1>3, <1>4, <1>5, <1>6, <1>7, SameTable, QuietSent DEF Hashed

\* A step of a hook that stays at its chunk and, for all but its table, at its digest.
LEMMA StaySent ==
    ASSUME SendInv, SentInv, NEW x \in Contexts, Others(x), Same(x), desc' = desc, torn' = torn,
           wire' = wire, ctx[x].pc # "idle", ctx'[x].pc # "idle",
           ctx[x].pc = "missed" => ctx'[x].pc = "missed",
           ctx[x].pc # "final", ctx'[x].pc \notin {"update", "final"},
           ctx'[x].pc \in Hashed => ctx[x].pc \in Hashed /\ ctx'[x].dst = ctx[x].dst,
           ctx'[x].pc \in {"hit", "save"} => \A s \in Chunks : ctx'[x].dst = <<s>> => s \in Kept,
           \A i \in linked', s \in Chunks : sha1'[i] = <<s>> =>
                s \in Kept \/ (ctx'[x].pc = "missed" /\ s = Chunk(x) /\ ctx[x].pc \in Working)
    PROVE  SentInv'
<1>1. /\ Kept \subseteq Kept'
      /\ (ctx'[x].pc = "missed" /\ ctx[x].pc \in Working) => Chunk(x) \in Kept'
  BY KeptSame
<1>2. PlaceOK(x)'
  <2>1. PlaceOK(x)
    BY DEF SentInv
  <2>. QED BY <2>1 DEF PlaceOK, Same
<1>3. \A i \in linked', s \in Chunks : sha1'[i] = <<s>> => s \in Kept'
  BY <1>1
<1>4. ToSet(ctx'[x].hand_list) = ToSet(ctx[x].hand_list)
  BY DEF Same
<1>5. ctx'[x].data = ctx[x].data /\ ctx'[x].k = ctx[x].k
  BY DEF Same
<1>6. ctx'[x].pc \in {"hit", "save"} => \A s \in Chunks : ctx'[x].dst = <<s>> => s \in Kept'
  BY <1>1
<1>. QED BY <1>1, <1>2, <1>3, <1>4, <1>5, <1>6, QuietSent

\* A step of a hook to its next chunk.
LEMMA MovedSent ==
    ASSUME SendInv, SentInv, NEW x \in Contexts, desc' = desc, torn' = torn, wire' = wire,
           linked' = linked, sha1' = sha1, ctx[x].k <= Len(ctx[x].data),
           NEW saved \in Int, NEW r \in Seq(ReplaceItem), NextChunk(x, r, saved),
           ctx[x].pc = "final" => r = << >>,
           r # << >> => /\ Length[Chunk(x)] > 0 /\ ctx[x].pc # "missed"
                        /\ \E cp \in ReplaceItem : /\ r = <<cp>> /\ cp.start = ctx[x].start
                                                   /\ cp.chunk = None \/ cp.chunk \in Kept
    PROVE  SentInv'
<1>1. TypeOK /\ ctx[x].hand_list \in Seq(ReplaceItem)
  BY FieldTypes DEF SendInv
<1>2. Others(x) /\ Moved(x, r, saved)
  BY <1>1, NextShape
<1>3. /\ Kept \subseteq Kept' /\ PlaceOK(x)'
      /\ ctx[x].pc \in Working /\ r = << >> => Chunk(x) \in Kept'
  BY <1>2, KeptMoved
<1>4. ctx'[x].pc = "chunk" /\ ctx'[x].hand_list = ctx[x].hand_list \o r
  BY <1>2 DEF Moved
<1>5. ASSUME NEW cp \in ToSet(ctx'[x].hand_list)
      PROVE  cp \in ToSet(ctx[x].hand_list) \/ cp.chunk = None \/ cp.chunk \in Kept'
  <2>1. CASE r = << >>
    <3>1. ctx'[x].hand_list = ctx[x].hand_list
      BY <2>1, <1>1, <1>4
    <3>. QED BY <3>1
  <2>2. CASE r # << >>
    <3>1. PICK e \in ReplaceItem : r = <<e>> /\ (e.chunk = None \/ e.chunk \in Kept)
      BY <2>2
    <3>2. ToSet(ctx'[x].hand_list) = ToSet(ctx[x].hand_list) \cup {e}
      BY <3>1, <1>1, <1>4, ToSetMore
    <3>. QED BY <3>1, <3>2, <1>3
  <2>. QED BY <2>1, <2>2
<1>6. ctx[x].pc = "final" => Chunk(x) \in Kept'
  BY <1>3 DEF Working
<1>. QED BY <1>2, <1>3, <1>4, <1>5, <1>6, SameTable, QuietSent DEF Hashed

\* Nothing is replaced.
LEMMA PassedSent ==
    ASSUME SendInv, SentInv, NEW x \in Contexts, desc' = desc, torn' = torn, wire' = wire,
           linked' = linked, sha1' = sha1, ctx[x].k <= Len(ctx[x].data), NextChunk(x, << >>, 0)
    PROVE  SentInv'
<1>1. PICK r \in Seq(ReplaceItem) : r = << >>
  <2>1. << >> \in Seq(ReplaceItem)
    OBVIOUS
  <2>. QED BY <2>1
<1>2. PICK z \in Int : z = 0
  OBVIOUS
<1>3. NextChunk(x, r, z)
  BY <1>1, <1>2
<1>. QED BY <1>1, <1>3, MovedSent

LEMMA BuildHashSent ==
    ASSUME SendInv, SentInv, NEW x \in Contexts, BuildHash(x)
    PROVE  SentInv'
<1>1. /\ TypeOK /\ ctx[x].pc = "chunk" /\ ctx[x].k <= Len(ctx[x].data)
      /\ desc' = desc /\ torn' = torn /\ wire' = wire /\ linked' = linked /\ sha1' = sha1
  BY DEF SendInv, BuildHash, Runs, tabVars
<1>2. CASE NextChunk(x, << >>, 0)
  BY <1>1, <1>2, PassedSent
<1>3. CASE Goto(x, "init")
  <2>1. Others(x) /\ Same(x) /\ ctx'[x].pc = "init"
    BY <1>1, <1>3, GotoShape DEF Pcs, Working
  <2>2. \A i \in linked', s \in Chunks : sha1'[i] = <<s>> => s \in Kept
    BY <1>1 DEF SentInv, TableOK
  <2>. QED BY <1>1, <2>1, <2>2, StaySent DEF Hashed
<1>. QED BY <1>2, <1>3 DEF BuildHash

LEMMA PartitionedSent ==
    ASSUME SendInv, SentInv, NEW x \in Contexts, Partitioned(x)
    PROVE  SentInv'
<1>1. /\ TypeOK /\ ctx[x].pc = "chunk" /\ Goto(x, "leave")
      /\ desc' = desc /\ torn' = torn /\ wire' = wire /\ linked' = linked /\ sha1' = sha1
  BY DEF SendInv, Partitioned, Runs, tabVars
<1>2. Others(x) /\ Same(x) /\ ctx'[x].pc = "leave"
  BY <1>1, GotoShape DEF Pcs, Working
<1>3. \A i \in linked', s \in Chunks : sha1'[i] = <<s>> => s \in Kept
  BY <1>1 DEF SentInv, TableOK
<1>. QED BY <1>1, <1>2, <1>3, StaySent DEF Hashed

LEMMA HashFailsSent ==
    ASSUME SendInv, SentInv, NEW x \in Contexts, HashFails(x)
    PROVE  SentInv'
<1>1. /\ ctx[x].pc \in {"init", "update", "final"} /\ HookOK(x) /\ NextChunk(x, << >>, 0)
      /\ desc' = desc /\ torn' = torn /\ wire' = wire /\ linked' = linked /\ sha1' = sha1
  BY DEF SendInv, HashFails, Runs, tabVars
<1>2. ctx[x].k <= Len(ctx[x].data)
  BY <1>1 DEF HookOK, Working
<1>. QED BY <1>1, <1>2, PassedSent

\* A hook that takes hold of an item.
LEMMA ItemShape ==
    ASSUME TypeOK, NEW x \in Contexts, NEW to \in Pcs, NEW i \in Items,
           ctx' = [ctx EXCEPT ![x].pc = to, ![x].item = i]
    PROVE  /\ Others(x) /\ Same(x) /\ ctx'[x].pc = to /\ ctx'[x].dst = ctx[x].dst
           /\ ctx'[x].item = i
<1>1. PICK v : v = [ctx[x] EXCEPT !.pc = to, !.item = i]
  OBVIOUS
<1>2. /\ v \in HookRec /\ v.pc = to /\ v.dst = ctx[x].dst /\ v.item = i
      /\ v.data = ctx[x].data /\ v.k = ctx[x].k /\ v.start = ctx[x].start
      /\ v.new_len = ctx[x].new_len /\ v.hand_list = ctx[x].hand_list
  BY <1>1, FieldTypes DEF HookRec, Pcs
<1>3. ctx' = [ctx EXCEPT ![x] = v]
  BY <1>1, FieldTypes DEF TypeOK, HookRec
<1>. QED BY <1>2, <1>3, CtxSet DEF Same

LEMMA LookupSent ==
    ASSUME SendInv, SentInv, NEW x \in Contexts, Lookup(x)
    PROVE  SentInv'
<1>1. /\ TypeOK /\ ctx[x].pc = "lookup" /\ desc' = desc /\ torn' = torn /\ wire' = wire
      /\ linked' = linked /\ sha1' = sha1 /\ TableOK
  BY DEF SendInv, SentInv, Lookup, Runs
<1>2. \A i \in linked', s \in Chunks : sha1'[i] = <<s>> => s \in Kept
  BY <1>1 DEF TableOK
<1>3. ASSUME NEW i \in Matches(ctx[x].dst), ctx' = [ctx EXCEPT ![x].pc = "hit", ![x].item = i]
      PROVE  SentInv'
  <2>1. i \in Items /\ i \in linked /\ sha1[i] = ctx[x].dst /\ "hit" \in Pcs
    BY <1>1, <1>3 DEF Matches, TypeOK, Pcs, Working
  <2>2. Others(x) /\ Same(x) /\ ctx'[x].pc = "hit" /\ ctx'[x].dst = ctx[x].dst
    BY <1>1, <1>3, <2>1, ItemShape
  <2>3. \A s \in Chunks : ctx'[x].dst = <<s>> => s \in Kept
    BY <1>1, <2>1, <2>2 DEF TableOK
  <2>. QED BY <1>1, <1>2, <2>2, <2>3, StaySent DEF Hashed
<1>4. CASE Goto(x, "miss")
  <2>1. Others(x) /\ Same(x) /\ ctx'[x].pc = "miss" /\ ctx'[x].dst = ctx[x].dst
    BY <1>1, <1>4, GotoShape DEF Pcs, Working
  <2>. QED BY <1>1, <1>2, <2>1, StaySent DEF Hashed
<1>. QED BY <1>3, <1>4 DEF Lookup

LEMMA ReadCountSent ==
    ASSUME SendInv, SentInv, NEW x \in Contexts, ReadCount(x)
    PROVE  SentInv'
<1>1. /\ TypeOK /\ ctx[x].pc = "miss" /\ desc' = desc /\ torn' = torn /\ wire' = wire
      /\ linked' = linked /\ sha1' = sha1 /\ TableOK
      /\ Goto(x, "alloc") \/ Goto(x, "missed")
  BY DEF SendInv, SentInv, ReadCount, Runs, tabVars
<1>2. \A i \in linked', s \in Chunks : sha1'[i] = <<s>> => s \in Kept
  BY <1>1 DEF TableOK
<1>3. /\ Others(x) /\ Same(x) /\ ctx'[x].pc \in {"alloc", "missed"} /\ ctx'[x].dst = ctx[x].dst
  BY <1>1, GotoShape DEF Pcs, Working
<1>. QED BY <1>1, <1>2, <1>3, StaySent DEF Hashed

LEMMA NewItemSent ==
    ASSUME SendInv, SentInv, NEW x \in Contexts, NewItem(x)
    PROVE  SentInv'
<1>1. /\ TypeOK /\ ctx[x].pc = "alloc" /\ desc' = desc /\ torn' = torn /\ wire' = wire
      /\ linked' = linked /\ TableOK /\ Items # Allocated
  BY DEF SendInv, SentInv, NewItem, Runs
<1>2. PICK i : i = FreeItem
  OBVIOUS
<1>3. i \in Items /\ i \notin linked
  BY <1>1, <1>2, FreeItemIsFree, AllocatedItems DEF Allocated
<1>4. /\ sha1' = [sha1 EXCEPT ![i] = ctx[x].dst] /\ ctx' = [ctx EXCEPT ![x].pc = "link", ![x].item = i]
  BY <1>2 DEF NewItem
<1>5. Others(x) /\ Same(x) /\ ctx'[x].pc = "link" /\ ctx'[x].dst = ctx[x].dst
  BY <1>1, <1>3, <1>4, ItemShape DEF Pcs, Working
<1>6. \A j \in linked : sha1'[j] = sha1[j]
  BY <1>1, <1>3, <1>4 DEF TypeOK
<1>7. \A j \in linked', s \in Chunks : sha1'[j] = <<s>> => s \in Kept
  BY <1>1, <1>6 DEF TableOK
<1>. QED BY <1>1, <1>5, <1>7, StaySent DEF Hashed

LEMMA LinkSent ==
    ASSUME SendInv, SentInv, NEW x \in Contexts, Link(x)
    PROVE  SentInv'
<1>1. /\ TypeOK /\ ctx[x].pc = "link" /\ desc' = desc /\ torn' = torn /\ wire' = wire
      /\ linked' = linked \cup {ctx[x].item} /\ sha1' = sha1 /\ TableOK /\ DigestOK(x)
      /\ LinkOK(x) /\ Goto(x, "missed")
  BY DEF SendInv, SentInv, Link, Runs
<1>2. Others(x) /\ Same(x) /\ ctx'[x].pc = "missed" /\ ctx'[x].dst = ctx[x].dst
  BY <1>1, GotoShape DEF Pcs, Working
<1>3. ASSUME NEW i \in linked', NEW s \in Chunks, sha1'[i] = <<s>>
      PROVE  s \in Kept \/ s = Chunk(x)
  <2>1. CASE i \in linked
    BY <1>1, <1>3, <2>1 DEF TableOK
  <2>2. CASE i = ctx[x].item
    <3>1. ctx[x].dst = <<s>>
      BY <1>1, <1>3, <2>2 DEF LinkOK
    <3>. QED BY <1>1, <3>1 DEF DigestOK, Hashed
  <2>. QED BY <1>1, <2>1, <2>2
<1>4. ctx[x].pc \in Working
  BY <1>1 DEF Working
<1>. QED BY <1>1, <1>2, <1>3, <1>4, StaySent DEF Hashed

LEMMA AddSumSent ==
    ASSUME SendInv, SentInv, NEW x \in Contexts, AddSum(x)
    PROVE  SentInv'
<1>1. /\ TypeOK /\ ctx[x].pc \in {"missed", "hit"} /\ HookOK(x) /\ DigestOK(x) /\ TableOK
      /\ desc' = desc /\ torn' = torn /\ wire' = wire /\ linked' = linked /\ sha1' = sha1
  BY DEF SendInv, SentInv, AddSum, Runs, tabVars
<1>2. CASE ctx[x].pc = "hit" /\ Goto(x, "save")
  <2>1. Others(x) /\ Same(x) /\ ctx'[x].pc = "save" /\ ctx'[x].dst = ctx[x].dst
    BY <1>1, <1>2, GotoShape DEF Pcs, Working
  <2>2. \A i \in linked', s \in Chunks : sha1'[i] = <<s>> => s \in Kept
    BY <1>1 DEF TableOK
  <2>3. \A s \in Chunks : ctx'[x].dst = <<s>> => s \in Kept
    BY <1>1, <1>2, <2>1 DEF DigestOK
  <2>. QED BY <1>1, <1>2, <2>1, <2>2, <2>3, StaySent DEF Hashed
<1>3. CASE NextChunk(x, << >>, 0)
  <2>1. ctx[x].k <= Len(ctx[x].data)
    BY <1>1 DEF HookOK, Working
  <2>. QED BY <1>1, <1>3, <2>1, PassedSent
<1>. QED BY <1>2, <1>3 DEF AddSum

LEMMA AddSaveSent ==
    ASSUME SendInv, SentInv, NEW x \in Contexts, AddSave(x)
    PROVE  SentInv'
<1>1. /\ TypeOK /\ ctx[x].pc = "save" /\ HookOK(x) /\ WholeOK(x) /\ DigestOK(x)
      /\ desc' = desc /\ torn' = torn /\ wire' = wire /\ linked' = linked /\ sha1' = sha1
  BY DEF SendInv, SentInv, AddSave, Runs, tabVars
<1>2. ctx[x].k <= Len(ctx[x].data) /\ ctx[x].dst \in Digests /\ Length[Chunk(x)] > SHALEN + 2
  BY <1>1 DEF HookOK, Working
<1>3. Chunk(x) \in Chunks /\ Length[Chunk(x)] \in Nat /\ Length[Chunk(x)] > 0
  BY <1>1, <1>2, ChunkType, SendAssumption
<1>4. PICK cp : cp = [start |-> ctx[x].start, end |-> ctx[x].start + Length[Chunk(x)] - 1,
                      sha1 |-> ctx[x].dst,
                      chunk |-> IF x \in torn THEN None ELSE Chunk(x)]
  OBVIOUS
<1>5. PICK saved \in Int : saved = Length[Chunk(x)] - (SHALEN + 2)
  BY <1>3, SendAssumption
<1>6. NextChunk(x, <<cp>>, saved)
  BY <1>4, <1>5 DEF AddSave
<1>7. cp \in ReplaceItem /\ cp.start = ctx[x].start
  <2>1. ctx[x].start \in Nat /\ ctx[x].start + Length[Chunk(x)] - 1 \in Int
    BY <1>1, <1>3, FieldTypes
  <2>. QED BY <1>2, <1>3, <1>4, <2>1 DEF ReplaceItem
<1>8. cp.chunk = None \/ cp.chunk \in Kept
  <2>1. CASE x \in torn
    BY <1>4, <2>1
  <2>2. CASE x \notin torn
    <3>1. ctx[x].dst = <<Chunk(x)>>
      BY <1>1, <2>2 DEF WholeOK, Hashed
    <3>2. Chunk(x) \in Kept
      BY <1>1, <1>3, <3>1 DEF DigestOK
    <3>. QED BY <1>4, <2>2, <3>2
  <2>. QED BY <2>1, <2>2
<1>9. PICK r \in Seq(ReplaceItem) : r = <<cp>>
  <2>1. <<cp>> \in Seq(ReplaceItem)
    BY <1>7
  <2>. QED BY <2>1
<1>10. NextChunk(x, r, saved)
  BY <1>6, <1>9
<1>. QED BY <1>1, <1>2, <1>3, <1>7, <1>8, <1>9, <1>10, MovedSent

\* A step of a hook on the descriptor of its CPU.
LEMMA HashSent ==
    ASSUME SendInv, SentInv, NEW x \in Contexts, Others(x), Same(x), wire' = wire,
           linked' = linked, sha1' = sha1, NEW at \in {"init", "update", "final"}, Runs(x, at),
           \A c \in Cpus \ {x[1]} : desc'[c] = desc[c],
           \A y \in Contexts \ {x} : y \in torn => y \in torn',
           torn' \subseteq Cpus \X {"process"},
           \A y \in Contexts \ {x} : y[1] = x[1] /\ y \notin torn' => ctx[y].pc \notin {"update", "final"},
           ctx'[x].pc \in {"update", "final", "lookup"}, WholeOK(x)', DigestOK(x)',
           \A s \in Chunks : desc'[x[1]] = <<s>> => ctx'[x].pc = "final" /\ Chunk(x) = s
    PROVE  SentInv'
<1>1. \A y \in Contexts \ {x} : ctx'[y] = ctx[y]
  BY DEF Others
<1>2. ctx[x].pc = at /\ ctx[x].pc # "missed" /\ ctx[x].pc # "idle"
  BY DEF Runs
<1>3. Kept \subseteq Kept'
  BY <1>2, KeptSame
<1>4. ASSUME NEW y \in Contexts PROVE PlaceOK(y)'
  <2>1. PlaceOK(y)
    BY DEF SentInv
  <2>2. CASE y = x
    BY <2>1, <2>2 DEF PlaceOK, Same
  <2>3. CASE y # x
    BY <2>1, <2>3, <1>1 DEF PlaceOK
  <2>. QED BY <2>2, <2>3
<1>5. ASSUME NEW y \in Contexts PROVE WholeOK(y)'
  <2>1. WholeOK(y) /\ y[1] \in Cpus
    BY ContextType DEF SentInv
  <2>2. CASE y = x
    BY <2>2
  <2>3. CASE y # x /\ y[1] # x[1]
    <3>1. desc'[y[1]] = desc[y[1]] /\ ctx'[y] = ctx[y] /\ (y \notin torn' => y \notin torn)
      BY <2>1, <2>3, <1>1
    <3>2. \A z \in Contexts \ {y} : z[1] = y[1] => ctx'[z] = ctx[z] /\ (z \in torn => z \in torn')
      BY <2>3, <1>1
    <3>. QED BY <2>1, <3>1, <3>2 DEF WholeOK, Chunk
  <2>4. CASE y # x /\ y[1] = x[1]
    <3>1. ctx'[y] = ctx[y] /\ (y \notin torn' => y \notin torn)
      BY <2>4, <1>1
    <3>2. y \notin torn' => ctx[y].pc \notin {"update", "final"}
      BY <2>4
    <3>. QED BY <2>1, <3>1, <3>2 DEF WholeOK, Chunk
  <2>. QED BY <2>2, <2>3, <2>4
<1>6. ASSUME NEW y \in Contexts PROVE DigestOK(y)'
  <2>1. DigestOK(y)
    BY DEF SentInv
  <2>2. CASE y = x
    BY <2>2
  <2>3. CASE y # x
    BY <2>1, <2>3, <1>1, <1>3 DEF DigestOK, Chunk
  <2>. QED BY <2>2, <2>3
<1>7. DescOK'
  <2>. SUFFICES ASSUME NEW c \in Cpus, NEW s \in Chunks, desc'[c] = <<s>>
                PROVE  s \in Kept' \/ \E y \in Contexts : y[1] = c /\ ctx'[y].pc = "final" /\ Chunk(y)' = s
    BY DEF DescOK
  <2>1. CASE c = x[1]
    BY <2>1 DEF Chunk, Same
  <2>2. CASE c # x[1]
    <3>1. desc[c] = <<s>>
      BY <2>2
    <3>2. CASE s \in Kept
      BY <3>2, <1>3
    <3>3. CASE \E y \in Contexts : y[1] = c /\ ctx[y].pc = "final" /\ Chunk(y) = s
      BY <2>2, <3>3, <1>1 DEF Chunk
    <3>. QED BY <3>1, <3>2, <3>3 DEF SentInv, DescOK
  <2>. QED BY <2>1, <2>2
<1>8. TableOK'
  BY <1>3, SameTable DEF TableOK
<1>9. ReplacedOK'
  <2>1. ReplacedOK
    BY DEF SentInv
  <2>2. \A y \in Contexts : ctx'[y].hand_list = ctx[y].hand_list
    BY <1>1 DEF Same
  <2>. QED BY <2>1, <2>2, <1>3 DEF ReplacedOK
<1>. QED BY <1>4, <1>5, <1>6, <1>7, <1>8, <1>9 DEF SentInv

LEMMA HashInitSent ==
    ASSUME SendInv, SentInv, NEW x \in Contexts, HashInit(x)
    PROVE  SentInv'
<1>1. /\ TypeOK /\ Runs(x, "init") /\ ctx[x].pc = "init" /\ desc' = [desc EXCEPT ![x[1]] = << >>]
      /\ Goto(x, "update") /\ torn \subseteq Cpus \X {"process"}
      /\ wire' = wire /\ linked' = linked /\ sha1' = sha1
      /\ torn' = IF x[2] = "process" THEN torn \ {x}
                 ELSE torn \cup {y \in Contexts \ {x} : y[1] = x[1] /\ ctx[y].pc \in {"update", "final"}}
  BY DEF SendInv, SentInv, HashInit, Runs, tabVars
<1>2. Others(x) /\ Same(x) /\ ctx'[x].pc = "update"
  BY <1>1, GotoShape DEF Pcs, Working
<1>3. desc'[x[1]] = << >> /\ \A c \in Cpus \ {x[1]} : desc'[c] = desc[c]
  BY <1>1, ContextType DEF TypeOK
<1>4. \A y \in Contexts \ {x} : y \in torn => y \in torn'
  BY <1>1
<1>5. ASSUME NEW y \in Contexts \ {x}, y[1] = x[1], y \notin torn'
      PROVE  ctx[y].pc \notin {"update", "final"}
  <2>1. CASE x[2] = "process"
    <3>1. ctx[y].pc = "idle"
      BY <1>1, <1>5, <2>1, OneRuns
    <3>. QED BY <3>1
  <2>2. CASE x[2] # "process"
    BY <1>1, <1>5, <2>2
  <2>. QED BY <2>1, <2>2
<1>6. torn' \subseteq Cpus \X {"process"}
  <2>1. ASSUME NEW y \in Contexts \ {x}, y[1] = x[1], x[2] # "process"
        PROVE  y \in Cpus \X {"process"}
    <3>1. y = <<y[1], y[2]>> /\ x = <<x[1], x[2]>> /\ y[1] \in Cpus
          /\ x[2] = "softirq" /\ y[2] \in {"process", "softirq"}
      BY <2>1, ContextType
    <3>2. y[2] = "process"
      BY <2>1, <3>1
    <3>. QED BY <3>1, <3>2
  <2>. QED BY <1>1, <2>1
<1>7. WholeOK(x)'
  <2>1. \A y \in Contexts \ {x} : ctx'[y] = ctx[y]
    BY <1>2 DEF Others
  <2>. QED BY <1>2, <1>3, <1>5, <2>1 DEF WholeOK, Hashed
<1>8. DigestOK(x)'
  BY <1>2 DEF DigestOK, Hashed
<1>9. \A s \in Chunks : desc'[x[1]] # <<s>>
  BY <1>3
<1>. QED BY <1>1, <1>2, <1>3, <1>4, <1>5, <1>6, <1>7, <1>8, <1>9, HashSent

\* Of two hashes on one CPU that are under way, one is torn.
LEMMA OthersTorn ==
    ASSUME SendInv, SentInv, NEW x \in Contexts, NEW at \in {"update", "final"}, Runs(x, at),
           NEW y \in Contexts \ {x}, y[1] = x[1], y \notin torn
    PROVE  ctx[y].pc \notin {"update", "final"}
<1>. SUFFICES ASSUME ctx[y].pc \in {"update", "final"} PROVE FALSE
  OBVIOUS
<1>1. TypeOK /\ WholeOK(y) /\ torn \subseteq Cpus \X {"process"} /\ ctx[x].pc = at
  BY DEF SendInv, SentInv, Runs
<1>2. x[2] = "softirq"
  BY <1>1, OneRuns
<1>3. x \notin torn
  BY <1>1, <1>2
<1>. QED BY <1>1, <1>3 DEF WholeOK

LEMMA HashUpdateSent ==
    ASSUME SendInv, SentInv, NEW x \in Contexts, HashUpdate(x)
    PROVE  SentInv'
<1>1. /\ TypeOK /\ Runs(x, "update") /\ ctx[x].pc = "update" /\ HookOK(x) /\ WholeOK(x)
      /\ desc' = [desc EXCEPT ![x[1]] = Append(@, Chunk(x))]
      /\ Goto(x, "final") /\ torn \subseteq Cpus \X {"process"} /\ torn' = torn
      /\ wire' = wire /\ linked' = linked /\ sha1' = sha1
  BY DEF SendInv, SentInv, HashUpdate, Runs, tabVars
<1>2. Others(x) /\ Same(x) /\ ctx'[x].pc = "final"
  BY <1>1, GotoShape DEF Pcs, Working
<1>3. PICK c \in Chunks : c = Chunk(x)
  BY <1>1, ChunkType DEF HookOK, Working
<1>4. desc'[x[1]] = Append(desc[x[1]], c) /\ \A e \in Cpus \ {x[1]} : desc'[e] = desc[e]
  BY <1>1, <1>3, ContextType DEF TypeOK
<1>5. \A y \in Contexts \ {x} : y[1] = x[1] /\ y \notin torn' => ctx[y].pc \notin {"update", "final"}
  BY <1>1, OthersTorn
<1>6. Append(<< >>, c) = <<c>>
  OBVIOUS
<1>7. WholeOK(x)'
  <2>1. \A y \in Contexts \ {x} : ctx'[y] = ctx[y]
    BY <1>2 DEF Others
  <2>2. Chunk(x)' = c
    BY <1>2, <1>3 DEF Same, Chunk
  <2>3. x \notin torn => desc'[x[1]] = <<c>>
    BY <1>1, <1>4, <1>6 DEF WholeOK
  <2>. QED BY <1>1, <1>2, <2>1, <2>2, <2>3 DEF WholeOK, Hashed
<1>8. DigestOK(x)'
  BY <1>2 DEF DigestOK, Hashed
<1>9. ASSUME NEW s \in Chunks, desc'[x[1]] = <<s>> PROVE Chunk(x) = s
  <2>1. desc[x[1]] \in {<< >>} \cup {<<a>> : a \in Chunks \cup {Wiped}}
    BY <1>1 DEF HookOK
  <2>2. CASE desc[x[1]] = << >>
    <3>1. <<c>> = <<s>>
      BY <1>4, <1>6, <1>9, <2>2
    <3>2. <<c>>[1] = <<s>>[1]
      BY <3>1
    <3>. QED BY <1>3, <3>2
  <2>3. ASSUME NEW a \in Chunks \cup {Wiped}, desc[x[1]] = <<a>> PROVE FALSE
    <3>1. <<a, c>> = <<s>>
      BY <1>4, <1>9, <2>3, AppendTwo
    <3>. QED BY <3>1
  <2>. QED BY <2>1, <2>2, <2>3
<1>10. \A y \in Contexts \ {x} : y \in torn => y \in torn'
  BY <1>1
<1>. QED BY <1>1, <1>2, <1>4, <1>5, <1>7, <1>8, <1>9, <1>10, HashSent

LEMMA HashFinalSent ==
    ASSUME SendInv, SentInv, NEW x \in Contexts, HashFinal(x)
    PROVE  SentInv'
<1>1. /\ TypeOK /\ Runs(x, "final") /\ ctx[x].pc = "final" /\ HookOK(x) /\ WholeOK(x) /\ DescOK
      /\ desc' = [desc EXCEPT ![x[1]] = <<Wiped>>]
      /\ torn \subseteq Cpus \X {"process"} /\ torn' = torn
      /\ wire' = wire /\ linked' = linked /\ sha1' = sha1
  BY DEF SendInv, SentInv, HashFinal, Runs, tabVars
<1>2. Others(x) /\ Same(x) /\ ctx'[x].pc = "lookup" /\ ctx'[x].dst = desc[x[1]]
  BY <1>1, HashFinalShape
<1>3. desc'[x[1]] = <<Wiped>> /\ (\A e \in Cpus \ {x[1]} : desc'[e] = desc[e]) /\ x[1] \in Cpus
  BY <1>1, ContextType DEF TypeOK
<1>4. \A y \in Contexts \ {x} : y[1] = x[1] /\ y \notin torn' => ctx[y].pc \notin {"update", "final"}
  BY <1>1, OthersTorn
<1>5. Chunk(x)' = Chunk(x)
  BY <1>2 DEF Same, Chunk
<1>6. WholeOK(x)'
  BY <1>1, <1>2, <1>5 DEF WholeOK, Hashed
<1>7. Kept \subseteq Kept'
  BY <1>1, <1>2, KeptSame
<1>8. ASSUME NEW s \in Chunks, desc[x[1]] = <<s>> PROVE s = Chunk(x) \/ s \in Kept'
  <2>1. CASE s \in Kept
    BY <2>1, <1>7
  <2>2. ASSUME NEW y \in Contexts, y[1] = x[1], ctx[y].pc = "final", Chunk(y) = s
        PROVE  s = Chunk(x)
    <3>1. CASE y = x
      BY <2>2, <3>1
    <3>2. CASE y # x
      <4>1. x[2] = "softirq"
        BY <1>1, <2>2, <3>2, OneRuns
      <4>2. x \notin torn
        BY <1>1, <4>1
      <4>3. desc[x[1]] = <<Chunk(x)>>
        BY <1>1, <4>2 DEF WholeOK
      <4>. QED BY <1>8, <4>3
    <3>. QED BY <3>1, <3>2
  <2>. QED BY <1>1, <1>3, <1>8, <2>1, <2>2 DEF DescOK
<1>9. DigestOK(x)'
  BY <1>2, <1>5, <1>8 DEF DigestOK
<1>10. \A s \in Chunks : desc'[x[1]] # <<s>>
  BY <1>3, SendAssumption
<1>11. \A y \in Contexts \ {x} : y \in torn => y \in torn'
  BY <1>1
<1>. QED BY <1>1, <1>2, <1>3, <1>4, <1>6, <1>9, <1>10, <1>11, HashSent

\* A step of a timer, of minit or of mexit: items may leave the table.
LEMMA RestSent ==
    ASSUME SendInv, SentInv, UNCHANGED <<desc, torn, ctx, wire>>,
           linked' \subseteq linked, \A i \in linked' : sha1'[i] = sha1[i]
    PROVE  SentInv'
<1>1. Kept' = Kept
  <2>1. \A y \in Contexts : Dealt(y)' = Dealt(y)
    BY DEF Dealt, InFull
  <2>. QED BY <2>1 DEF Kept
<1>2. \A y \in Contexts : PlaceOK(y)' /\ WholeOK(y)' /\ DigestOK(y)'
  BY <1>1 DEF SentInv, PlaceOK, WholeOK, DigestOK, Chunk
<1>3. DescOK' /\ ReplacedOK'
  BY <1>1 DEF SentInv, DescOK, ReplacedOK, Chunk
<1>4. TableOK'
  BY <1>1 DEF SentInv, TableOK
<1>. QED BY <1>2, <1>3, <1>4 DEF SentInv

LEMMA FreeSent ==
    ASSUME SendInv, SentInv, UNCHANGED <<desc, torn, ctx, wire>>, NEW S, FreeItems(S)
    PROVE  SentInv'
<1>1. linked' = linked \ S /\ sha1' = [i \in Items |-> IF i \in S THEN None ELSE sha1[i]]
      /\ linked \subseteq Items
  BY DEF FreeItems, SendInv, TypeOK
<1>2. linked' \subseteq linked /\ \A i \in linked' : sha1'[i] = sha1[i]
  BY <1>1
<1>. QED BY <1>2, RestSent

LEMMA InitSent == Init => SentInv
<1>. SUFFICES ASSUME Init PROVE SentInv
  OBVIOUS
<1>1. \A x \in Contexts : ctx[x] = NoHook
  BY DEF Init
<1>2. ToSet(<< >>) = {}
  BY DEF ToSet
<1>3. \A x \in Contexts : /\ ctx[x].pc = "idle" /\ ctx[x].data = << >> /\ ctx[x].k = 1
                          /\ ToSet(ctx[x].hand_list) = {}
  BY <1>1, <1>2 DEF NoHook
<1>4. \A x \in Contexts : PlaceOK(x) /\ WholeOK(x) /\ DigestOK(x)
  BY <1>3 DEF PlaceOK, WholeOK, DigestOK, Hashed
<1>5. ReplacedOK
  BY <1>3 DEF ReplacedOK
<1>6. DescOK
  BY SendAssumption DEF DescOK, Init
<1>7. TableOK /\ torn = {}
  BY DEF TableOK, Init
<1>. QED BY <1>4, <1>5, <1>6, <1>7 DEF SentInv

LEMMA SentStep == SendInv /\ SentInv /\ [Next]_vars => SentInv'
<1>. SUFFICES ASSUME SendInv, SentInv, [Next]_vars PROVE SentInv'
  OBVIOUS
<1>1. ASSUME NEW x \in Contexts, Hook(x) \/ HookStep(x) PROVE SentInv'
  BY <1>1, HookSent, BuildHashSent, PartitionedSent, HashInitSent, HashUpdateSent, HashFinalSent,
     HashFailsSent, LookupSent, ReadCountSent, NewItemSent, LinkSent, AddSumSent, AddSaveSent,
     LeaveSent DEF HookStep
<1>2. ASSUME NEW b \in Buckets, BucketClear(b) PROVE SentInv'
  BY <1>2, FreeSent DEF BucketClear
<1>3. CASE Flush
  <2>1. ASSUME NEW b \in Buckets, FreeItems(InBucket(b)) PROVE SentInv'
    BY <1>3, <2>1, FreeSent DEF Flush
  <2>2. CASE UNCHANGED tabVars
    BY <1>3, <2>2, RestSent DEF Flush, tabVars
  <2>. QED BY <1>3, <2>1, <2>2 DEF Flush
<1>4. CASE AllocPool \/ UnregisterHook \/ DelTimers \/ Destroy
  <2>1. UNCHANGED <<desc, torn, ctx, wire, tabVars>>
    BY <1>4 DEF AllocPool, UnregisterHook, DelTimers, Destroy
  <2>. QED BY <2>1, RestSent DEF tabVars
<1>5. CASE UNCHANGED vars
  BY <1>5, RestSent DEF vars, tabVars
<1>. QED BY <1>1, <1>2, <1>3, <1>4, <1>5 DEF Next, Unload, Gone

\* A digest in the table, in a descriptor or in a hook is that of a chunk which leaves in
\* full, or is at hand; a hash that no softirq disturbed is that of its chunk.
THEOREM SentInvariant == Spec => []SentInv
<1>1. SendInv /\ SentInv /\ [Next]_vars => SentInv'
  BY SentStep
<1>. QED BY InitSent, <1>1, SendInvariant, PTL DEF Spec

\* A digest goes out in place of a chunk only if the chunk itself goes out in full, before
\* it or with it, in a packet that has left or is at hand (nf_out, hand_hash).
THEOREM OnlySentReplaced == Spec => []RefersToSent
<1>1. SentInv => RefersToSent
  BY DEF SentInv, ReplacedOK, Kept, RefersToSent
<1>. QED BY <1>1, SentInvariant, PTL
=============================================================================
