-------------------------- MODULE SkbPipelineProofs --------------------------
(***************************************************************************)
(* TLAPS proofs about SkbPipeline, for every number of CPUs, every set of   *)
(* packets and every threshold.  PipelineInv is inductive; TypeOK, InOrder  *)
(* and ClearedMeansDrained follow from it.                                  *)
(***************************************************************************)
EXTENDS SkbPipeline, ProofLib

-----------------------------------------------------------------------------
(* Sequences *)

\* A list that loses its first n packets to the handler keeps its order.
LEMMA SplitSeq ==
    ASSUME NEW S, NEW s \in Seq(S), NEW n \in 0 .. Len(s)
    PROVE  /\ SubSeq(s, 1, n) \in Seq(S) /\ SubSeq(s, n + 1, Len(s)) \in Seq(S)
           /\ SubSeq(s, 1, n) \o SubSeq(s, n + 1, Len(s)) = s
           /\ Len(SubSeq(s, 1, n)) = n
<1>1. SubSeq(s, 1, n) \in Seq(S) /\ Len(SubSeq(s, 1, n)) = n
  BY SubSeqProperties
<1>2. SubSeq(s, n + 1, Len(s)) \in Seq(S) /\ Len(SubSeq(s, n + 1, Len(s))) = Len(s) - n
  BY SubSeqProperties
<1>3. SubSeq(s, 1, n) \o SubSeq(s, n + 1, Len(s)) = s
  <2>1. 1 \in 1 .. Len(s) + 1 /\ n \in 1 - 1 .. Len(s) /\ Len(s) \in n .. Len(s) OBVIOUS
  <2>2. SubSeq(s, 1, n) \o SubSeq(s, n + 1, Len(s)) = SubSeq(s, 1, Len(s))
    BY <2>1, ConcatAdjacentSubSeq, Zenon
  <2> QED BY <2>2, SubSeqFull
<1> QED BY <1>1, <1>2, <1>3

\* An element of a sequence is its head or in its tail.
LEMMA ContainsTail ==
    ASSUME NEW S, NEW s \in Seq(S), s # << >>, NEW e, Contains(s, e), e # Head(s)
    PROVE  Contains(Tail(s), e)
<1>1. PICK k \in 1 .. Len(s) : s[k] = e BY DEF Contains
<1>2. k # 1 BY <1>1
<1>3. k - 1 \in 1 .. Len(Tail(s)) /\ Tail(s)[k - 1] = s[k]
  BY <1>2
<1> QED BY <1>1, <1>3 DEF Contains

\* Appending loses nothing.
LEMMA ContainsAppend ==
    ASSUME NEW S, NEW s \in Seq(S), NEW a \in S
    PROVE  /\ Contains(Append(s, a), a)
           /\ \A e : Contains(s, e) => Contains(Append(s, a), e)
BY DEF Contains

\* The captured packets, in three parts: resent, in hand, waiting.  A packet that arrives
\* joins the last part, handle_skb moves the front of the last part to the middle one, and
\* resending moves the head of the middle one to the first.
LEMMA ArriveKeeps ==
    \A r, h, w \in Seq(Packets) : \A p \in Packets :
        Append(r \o h \o w, p) = r \o h \o Append(w, p)
<1> TAKE r, h, w \in Seq(Packets)
<1> TAKE p \in Packets
<1>1. PICK a \in Seq(Packets) : a = r \o h
  BY ConcatProperties
<1> DEFINE q == <<p>>
<1>2. a \o w \in Seq(Packets) /\ q \in Seq(Packets) BY <1>1, ConcatProperties
<1> HIDE DEF q
<1>3. Append(a \o w, p) = (a \o w) \o q BY <1>1, <1>2, AppendIsConcat DEF q
<1>4. Append(w, p) = w \o q BY AppendIsConcat DEF q
<1>5. (a \o w) \o q = a \o (w \o q)
  <2>1. Cat(Cat(a, w), q) = Cat(a, Cat(w, q)) BY <1>2, CatAssoc
  <2> QED BY <2>1 DEF Cat
<1> QED BY <1>1, <1>3, <1>4, <1>5

LEMMA TakeKeeps ==
    ASSUME NEW S, NEW r \in Seq(S), NEW w \in Seq(S), NEW n \in 0 .. Len(w)
    PROVE  r \o << >> \o w = r \o SubSeq(w, 1, n) \o SubSeq(w, n + 1, Len(w))
<1>1. PICK a \in Seq(S), b \in Seq(S) :
        a = SubSeq(w, 1, n) /\ b = SubSeq(w, n + 1, Len(w)) /\ a \o b = w
  <2>1. SubSeq(w, 1, n) \in Seq(S) /\ SubSeq(w, n + 1, Len(w)) \in Seq(S)
        /\ SubSeq(w, 1, n) \o SubSeq(w, n + 1, Len(w)) = w
    BY SplitSeq
  <2> QED BY <2>1, Zenon
<1>2. r \o << >> = r BY ConcatEmptySeq
<1>3. (r \o a) \o b = r \o (a \o b)
  <2>1. Cat(Cat(r, a), b) = Cat(r, Cat(a, b)) BY CatAssoc
  <2> QED BY <2>1 DEF Cat
<1> QED BY <1>1, <1>2, <1>3

LEMMA ResendKeeps ==
    \A r, h, w \in Seq(Packets) :
        h # << >> => r \o h \o w = Append(r, Head(h)) \o Tail(h) \o w
<1> TAKE r, h, w \in Seq(Packets)
<1> HAVE h # << >>
<1>1. Head(h) \in Packets /\ Tail(h) \in Seq(Packets) /\ <<Head(h)>> \in Seq(Packets) BY HeadTailProperties
<1>2. Append(r, Head(h)) = r \o <<Head(h)>> BY <1>1, AppendIsConcat
<1>3. (r \o <<Head(h)>>) \o Tail(h) = r \o (<<Head(h)>> \o Tail(h))
  BY <1>1, ConcatAssociative
<1>4. <<Head(h)>> \o Tail(h) = h
  BY <1>1, HeadTailProperties, SeqEqual
<1> QED BY <1>2, <1>3, <1>4

-----------------------------------------------------------------------------
(* PipelineInv is inductive *)

LEMMA InitInv == Init => PipelineInv
<1> SUFFICES ASSUME Init PROVE PipelineInv OBVIOUS
<1> USE PipelineAssumption DEF Init
<1>1. TypeOK BY DEF TypeOK, Cpus
<1>2. InOrder BY DEF InOrder
<1>3. HandOK BY DEF HandOK
<1>4. QueuedOK BY DEF QueuedOK
<1>5. ClearOK BY DEF ClearOK
<1> QED BY <1>1, <1>2, <1>3, <1>4, <1>5 DEF PipelineInv

\* Queueing a work item, by the probe or by clear_remainder_skb.
LEMMA QueueWorkOK ==
    ASSUME TypeOK, QueuedOK, NEW c \in Cpus, NEW at \in Cpus, QueueWork(c, at)
    PROVE  work' \in [Cpus -> BOOLEAN] /\ wq' \in [Cpus -> Seq(Cpus)] /\ QueuedOK'
<1>1. CASE work[c]
  BY <1>1 DEF TypeOK, QueuedOK, QueueWork
<1>2. CASE ~work[c]
  <2>1. work' = [work EXCEPT ![c] = TRUE] /\ wq' = [wq EXCEPT ![at] = Append(@, c)]
    BY <1>2 DEF QueueWork
  <2>2. work' \in [Cpus -> BOOLEAN] /\ wq' \in [Cpus -> Seq(Cpus)]
    BY <2>1, AppendProperties DEF TypeOK
  <2>3. ASSUME NEW e \in Cpus, work'[e] PROVE \E d \in Cpus : Contains(wq'[d], e)
    <3>1. CASE e = c
      BY <3>1, <2>1, ContainsAppend DEF TypeOK
    <3>2. CASE e # c
      <4>1. PICK d \in Cpus : Contains(wq[d], e) BY <3>2, <2>1, <2>3 DEF TypeOK, QueuedOK
      <4> QED BY <4>1, <2>1, ContainsAppend DEF TypeOK
    <3> QED BY <3>1, <3>2
  <2> QED BY <2>2, <2>3 DEF QueuedOK
<1> QED BY <1>1, <1>2

LEMMA IgnoreInv ==
    ASSUME PipelineInv, NEW p \in Packets, Ignore(p) PROVE PipelineInv'
BY DEF PipelineInv, Ignore, TypeOK, InOrder, HandOK, QueuedOK, ClearOK, Quiet, Flushed,
       listVars, threadVars, exitVars

LEMMA CaptureInv ==
    ASSUME PipelineInv, NEW c \in Cpus, NEW p \in Packets, Capture(c, p) PROVE PipelineInv'
<1> USE DEF PipelineInv, Capture, Probed, threadVars, exitVars
<1>1. work' \in [Cpus -> BOOLEAN] /\ wq' \in [Cpus -> Seq(Cpus)] /\ QueuedOK'
  BY QueueWorkOK
<1>2. TypeOK'
  BY <1>1, AppendProperties DEF TypeOK, Enqueued
<1>3. InOrder'
  <2> SUFFICES ASSUME NEW d \in Cpus
               PROVE  arrived'[d] = resent'[d] \o hand_list'[d] \o skb_list'[d]
    BY DEF InOrder
  <2>1. arrived[d] = resent[d] \o hand_list[d] \o skb_list[d] BY DEF InOrder
  <2>2. CASE d = c
    <3>1. /\ arrived'[c] = Append(arrived[c], p) /\ skb_list'[c] = Append(skb_list[c], p)
          /\ resent'[c] = resent[c] /\ hand_list'[c] = hand_list[c]
      BY DEF TypeOK, Enqueued
    <3>2. resent[c] \in Seq(Packets) /\ hand_list[c] \in Seq(Packets)
          /\ skb_list[c] \in Seq(Packets)
      BY DEF TypeOK
    <3>3. Append(resent[c] \o hand_list[c] \o skb_list[c], p)
            = resent[c] \o hand_list[c] \o Append(skb_list[c], p)
      BY <3>2, ArriveKeeps, ZenonT(60)
    <3> QED BY <2>1, <2>2, <3>1, <3>3
  <2>3. CASE d # c
    BY <2>1, <2>3 DEF TypeOK
  <2> QED BY <2>2, <2>3
<1>4. HandOK' BY DEF HandOK
<1>5. ClearOK' BY DEF ClearOK
<1> QED BY <1>1, <1>2, <1>3, <1>4, <1>5

-----------------------------------------------------------------------------
(* handle_skb *)

\* A handler that has something to do contradicts Quiet, so ClearOK has nothing to say.
LEMMA BusyClear ==
    ASSUME TypeOK, ClearOK, NEW c \in Cpus, tpc[c] # "idle" \/ wq[c] # << >>,
           UNCHANGED exitVars
    PROVE  ClearOK'
BY DEF ClearOK, Quiet, Flushed, exitVars

LEMMA RunWorkInv == ASSUME PipelineInv, NEW c \in Cpus, RunWork(c) PROVE PipelineInv'
<1> USE DEF PipelineInv, RunWork
<1>1. Head(wq[c]) \in Cpus /\ Tail(wq[c]) \in Seq(Cpus)
  BY HeadTailProperties DEF TypeOK
<1>2. TypeOK' BY <1>1 DEF TypeOK, exitVars
<1>3. InOrder' BY DEF InOrder
<1>4. HandOK' BY DEF HandOK, TypeOK
<1>5. QueuedOK'
  <2> SUFFICES ASSUME NEW e \in Cpus, work'[e] PROVE \E d \in Cpus : Contains(wq'[d], e)
    BY DEF QueuedOK
  <2>1. work[e] /\ e # Head(wq[c]) BY DEF TypeOK
  <2>2. PICK d \in Cpus : Contains(wq[d], e) BY <2>1 DEF QueuedOK
  <2>3. CASE d = c BY <2>1, <2>2, <2>3, ContainsTail DEF TypeOK
  <2>4. CASE d # c BY <2>2, <2>4 DEF TypeOK
  <2> QED BY <2>3, <2>4
<1>6. ClearOK' BY BusyClear
<1> QED BY <1>2, <1>3, <1>4, <1>5, <1>6

LEMMA TakeListInv == ASSUME PipelineInv, NEW c \in Cpus, TakeList(c) PROVE PipelineInv'
<1> USE DEF PipelineInv, TakeList
<1> DEFINE n == Taken(skb_list[c])
<1>1. n \in 0 .. Len(skb_list[c]) /\ skb_list[c] \in Seq(Packets)
  BY PipelineAssumption DEF Taken, TypeOK
<1>2. SubSeq(skb_list[c], 1, n) \in Seq(Packets)
      /\ SubSeq(skb_list[c], n + 1, Len(skb_list[c])) \in Seq(Packets)
      /\ Len(SubSeq(skb_list[c], 1, n)) = n
  BY <1>1, SplitSeq
<1>3. hand_list' = [hand_list EXCEPT ![c] = SubSeq(skb_list[c], 1, n)]
      /\ skb_list' = [skb_list EXCEPT ![c] = SubSeq(skb_list[c], n + 1, Len(skb_list[c]))]
      /\ tpc' = [tpc EXCEPT ![c] = IF n = 0 THEN "idle" ELSE "chunk"]
  OBVIOUS
<1> HIDE DEF n
<1>4. TypeOK'
  <2>1. hand_list' \in [Cpus -> Seq(Packets)] BY <1>2, <1>3 DEF TypeOK
  <2>2. skb_list' \in [Cpus -> Seq(Packets)] BY <1>2, <1>3 DEF TypeOK
  <2>3. tpc' \in [Cpus -> {"idle", "take", "chunk", "resend"}]
    BY <1>3 DEF TypeOK
  <2> QED BY <2>1, <2>2, <2>3 DEF TypeOK, exitVars
<1>5. InOrder'
  <2> SUFFICES ASSUME NEW d \in Cpus
               PROVE  arrived'[d] = resent'[d] \o hand_list'[d] \o skb_list'[d]
    BY DEF InOrder
  <2>1. arrived[d] = resent[d] \o hand_list[d] \o skb_list[d] BY DEF InOrder
  <2>2. CASE d = c
    <3>1. hand_list[c] = << >> BY DEF HandOK
    <3>2. /\ arrived'[c] = arrived[c] /\ resent'[c] = resent[c]
          /\ hand_list'[c] = SubSeq(skb_list[c], 1, n)
          /\ skb_list'[c] = SubSeq(skb_list[c], n + 1, Len(skb_list[c]))
      BY <1>3 DEF TypeOK
    <3>3. resent[c] \in Seq(Packets) BY DEF TypeOK
    <3>4. resent[c] \o << >> \o skb_list[c]
            = resent[c] \o SubSeq(skb_list[c], 1, n)
                \o SubSeq(skb_list[c], n + 1, Len(skb_list[c]))
      BY <3>3, <1>1, TakeKeeps
    <3> QED BY <2>1, <2>2, <3>1, <3>2, <3>4
  <2>3. CASE d # c
    BY <2>1, <2>3, <1>3 DEF TypeOK
  <2> QED BY <2>2, <2>3
<1>6. HandOK'
  <2> SUFFICES ASSUME NEW d \in Cpus, tpc'[d] \in {"idle", "take"}
               PROVE  hand_list'[d] = << >>
    BY DEF HandOK
  <2>1. CASE d = c
    <3>1. n = 0 BY <2>1, <1>1, <1>3 DEF TypeOK
    <3>2. SubSeq(skb_list[c], 1, n) = << >> BY <3>1, <1>2, EmptySeq
    <3> QED BY <2>1, <3>2, <1>3 DEF TypeOK
  <2>2. CASE d # c BY <2>2, <1>3 DEF HandOK, TypeOK
  <2> QED BY <2>1, <2>2
<1>7. QueuedOK' BY DEF QueuedOK
<1>8. ClearOK' BY BusyClear
<1> QED BY <1>4, <1>5, <1>6, <1>7, <1>8

LEMMA PartitionInv == ASSUME PipelineInv, NEW c \in Cpus, Partition(c) PROVE PipelineInv'
<1> USE DEF PipelineInv, Partition, listVars
<1>1. ClearOK' BY BusyClear
<1>2. TypeOK' BY DEF TypeOK, exitVars
<1> QED BY <1>1, <1>2 DEF InOrder, HandOK, QueuedOK

LEMMA ReadDataInv == ASSUME PipelineInv, NEW c \in Cpus, ReadData(c) PROVE PipelineInv'
<1> USE DEF PipelineInv, ReadData, listVars
<1>1. ClearOK' BY BusyClear
<1>2. TypeOK' BY DEF TypeOK, exitVars
<1>3. HandOK' BY DEF HandOK, TypeOK
<1> QED BY <1>1, <1>2, <1>3 DEF InOrder, QueuedOK

LEMMA ResendSkbInv == ASSUME PipelineInv, NEW c \in Cpus, ResendSkb(c) PROVE PipelineInv'
<1> USE DEF PipelineInv, ResendSkb, listVars
<1>1. Head(hand_list[c]) \in Packets /\ Tail(hand_list[c]) \in Seq(Packets)
  BY HeadTailProperties DEF TypeOK
<1>2. TypeOK' BY <1>1, AppendProperties DEF TypeOK, exitVars
<1>3. InOrder'
  <2> SUFFICES ASSUME NEW d \in Cpus
               PROVE  arrived'[d] = resent'[d] \o hand_list'[d] \o skb_list'[d]
    BY DEF InOrder
  <2>1. arrived[d] = resent[d] \o hand_list[d] \o skb_list[d] BY DEF InOrder
  <2>2. CASE d = c
    <3>1. /\ arrived'[c] = arrived[c] /\ resent'[c] = Append(resent[c], Head(hand_list[c]))
          /\ hand_list'[c] = Tail(hand_list[c]) /\ skb_list'[c] = skb_list[c]
      BY DEF TypeOK
    <3>2. resent[c] \in Seq(Packets) /\ hand_list[c] \in Seq(Packets)
          /\ skb_list[c] \in Seq(Packets) /\ hand_list[c] # << >>
      BY DEF TypeOK
    <3>3. resent[c] \o hand_list[c] \o skb_list[c]
            = Append(resent[c], Head(hand_list[c])) \o Tail(hand_list[c]) \o skb_list[c]
      BY <3>2, ResendKeeps, Zenon
    <3> QED BY <2>1, <2>2, <3>1, <3>3
  <2>3. CASE d # c BY <2>1, <2>3 DEF TypeOK
  <2> QED BY <2>2, <2>3
<1>4. HandOK' BY DEF HandOK, TypeOK
<1>5. QueuedOK' BY DEF QueuedOK
<1>6. ClearOK' BY BusyClear
<1> QED BY <1>2, <1>3, <1>4, <1>5, <1>6

LEMMA HandleEndInv == ASSUME PipelineInv, NEW c \in Cpus, HandleEnd(c) PROVE PipelineInv'
<1> USE DEF PipelineInv, HandleEnd, listVars
<1>1. ClearOK' BY BusyClear
<1>2. TypeOK' BY DEF TypeOK, exitVars
<1>3. HandOK' BY DEF HandOK, TypeOK
<1> QED BY <1>1, <1>2, <1>3 DEF InOrder, QueuedOK

-----------------------------------------------------------------------------
(* mexit *)

\* What mexit's own steps leave alone.
LEMMA ExitKeeps ==
    ASSUME PipelineInv, UNCHANGED <<fresh, arrived, skb_list, threadVars, resent>>
    PROVE  InOrder' /\ HandOK'
BY DEF PipelineInv, threadVars, InOrder, HandOK

LEMMA UnregisterInv == ASSUME PipelineInv, Unregister PROVE PipelineInv'
<1> USE DEF PipelineInv, Unregister, listVars, threadVars
<1>1. TypeOK' BY DEF TypeOK
<1>2. InOrder' /\ HandOK' BY ExitKeeps
<1> QED BY <1>1, <1>2 DEF QueuedOK, ClearOK

\* After the flush nothing is pending: a pending item would be in an empty queue.
LEMMA FlushedQuiet == ASSUME TypeOK, QueuedOK, Flushed PROVE Quiet
<1> SUFFICES ASSUME NEW c \in Cpus, work[c] PROVE FALSE BY DEF Quiet
<1>1. PICK d \in Cpus : Contains(wq[d], c) BY DEF QueuedOK
<1>2. wq[d] = << >> BY DEF Flushed
<1> QED BY <1>1, <1>2 DEF Contains

LEMMA FlushWorkqueueInv == ASSUME PipelineInv, FlushWorkqueue PROVE PipelineInv'
<1> USE DEF PipelineInv, FlushWorkqueue, listVars, threadVars
<1>1. TypeOK' BY PipelineAssumption DEF TypeOK
<1>2. InOrder' /\ HandOK' BY ExitKeeps
<1>3. Quiet' BY FlushedQuiet DEF Quiet, Flushed
<1>4. ClearOK' BY <1>3 DEF ClearOK
<1> QED BY <1>1, <1>2, <1>4 DEF QueuedOK

LEMMA ClearCpuInv == ASSUME PipelineInv, ClearCpu PROVE PipelineInv'
<1> USE DEF PipelineInv, ClearCpu, threadVars
<1>1. cpu \in Cpus /\ cpu + 1 \in 0 .. NumCpus /\ rem <= cpu /\ rem + 1 \in 0 .. NumCpus
  BY PipelineAssumption DEF TypeOK, ClearOK, Cpus
<1>2. InOrder' /\ HandOK' BY ExitKeeps
<1>3. CASE skb_list[cpu] = << >>
  <2>1. rem' = rem + 1 /\ UNCHANGED <<work, wq>> BY <1>3
  <2>2. TypeOK' BY <1>1, <2>1 DEF TypeOK
  <2>3. QueuedOK' BY <2>1 DEF QueuedOK
  <2>4. ASSUME rem' = cpu' PROVE Quiet' /\ \A c \in 0 .. cpu' - 1 : skb_list'[c] = << >>
    <3>1. rem = cpu BY <2>1, <2>4, <1>1 DEF TypeOK
    <3>2. Quiet /\ \A c \in 0 .. cpu - 1 : skb_list[c] = << >> BY <3>1 DEF ClearOK
    <3>3. Quiet' BY <3>2, <2>1 DEF Quiet, Flushed
    <3> QED BY <3>2, <3>3, <1>3, <1>1 DEF TypeOK
  <2>5. ClearOK' BY <2>1, <2>4, <1>1 DEF ClearOK, TypeOK
  <2> QED BY <1>2, <2>2, <2>3, <2>5
<1>4. CASE skb_list[cpu] # << >>
  <2>1. PICK at \in Cpus : QueueWork(cpu, at) BY <1>4
  <2>2. work' \in [Cpus -> BOOLEAN] /\ wq' \in [Cpus -> Seq(Cpus)] /\ QueuedOK'
    BY <1>1, <2>1, QueueWorkOK
  <2>3. rem' = rem BY <1>4
  <2>4. TypeOK' BY <1>1, <2>2, <2>3 DEF TypeOK
  <2>5. ClearOK' BY <1>1, <2>3 DEF ClearOK, TypeOK
  <2> QED BY <1>2, <2>2, <2>4, <2>5
<1> QED BY <1>3, <1>4

LEMMA ClearAgainInv == ASSUME PipelineInv, ClearAgain PROVE PipelineInv'
<1> USE DEF PipelineInv, ClearAgain, AllClear, listVars, threadVars
<1>1. TypeOK' BY DEF TypeOK
<1>2. InOrder' /\ HandOK' BY ExitKeeps
<1>3. ASSUME rem = NumCpus PROVE Quiet /\ \A c \in Cpus : skb_list[c] = << >>
  BY <1>3, PipelineAssumption DEF ClearOK, Cpus
<1>4. ClearOK' BY <1>3 DEF ClearOK, Quiet, Flushed
<1> QED BY <1>1, <1>2, <1>4 DEF QueuedOK

LEMMA DestroyWorkqueueInv == ASSUME PipelineInv, DestroyWorkqueue PROVE PipelineInv'
<1> USE DEF PipelineInv, DestroyWorkqueue, listVars, threadVars
<1>1. TypeOK' BY DEF TypeOK
<1>2. InOrder' /\ HandOK' BY ExitKeeps
<1>3. ClearOK' BY DEF ClearOK, Quiet, Flushed
<1> QED BY <1>1, <1>2, <1>3 DEF QueuedOK

LEMMA StutterInv == ASSUME PipelineInv, UNCHANGED vars PROVE PipelineInv'
BY DEF PipelineInv, vars, listVars, threadVars, exitVars, TypeOK, InOrder, HandOK, QueuedOK,
       ClearOK, Quiet, Flushed

LEMMA NextInv == PipelineInv /\ [Next]_vars => PipelineInv'
<1> SUFFICES ASSUME PipelineInv, [Next]_vars PROVE PipelineInv' OBVIOUS
<1>1. ASSUME NEW p \in Packets, Ignore(p) PROVE PipelineInv' BY <1>1, IgnoreInv
<1>2. ASSUME NEW p \in Packets, NEW c \in Cpus, Capture(c, p) PROVE PipelineInv'
  BY <1>2, CaptureInv
<1>3. ASSUME NEW c \in Cpus, Handler(c) PROVE PipelineInv'
  BY <1>3, RunWorkInv, TakeListInv, PartitionInv, ReadDataInv, ResendSkbInv, HandleEndInv
     DEF Handler
<1>4. CASE Unregister BY <1>4, UnregisterInv
<1>5. CASE ExitStep
  BY <1>5, FlushWorkqueueInv, ClearCpuInv, ClearAgainInv, DestroyWorkqueueInv DEF ExitStep
<1>6. CASE Unloaded \/ UNCHANGED vars BY <1>6, StutterInv DEF Unloaded
<1> QED BY <1>1, <1>2, <1>3, <1>4, <1>5, <1>6 DEF Next

-----------------------------------------------------------------------------
\* PipelineInv is an invariant of the packet pipeline.
THEOREM PipelineInvariant == Spec => []PipelineInv
BY InitInv, NextInv, PTL DEF Spec

\* Every variable keeps its type; clear_remainder_skb's counters stay in range.
THEOREM PipelineTypeCorrect == Spec => []TypeOK
<1>1. PipelineInv => TypeOK BY DEF PipelineInv
<1> QED BY <1>1, PipelineInvariant, PTL

\* jpf_ip_rcv and handle_skb neither lose nor double a packet, and resend the packets of a
\* CPU in the order of their arrival.
THEOREM PacketsInOrder == Spec => []InOrder
<1>1. PipelineInv => InOrder BY DEF PipelineInv
<1> QED BY <1>1, PipelineInvariant, PTL

\* When clear_remainder_skb has returned, and until the workqueue is gone, every captured
\* packet has been resent, no handler runs and none is queued.
THEOREM UnloadDrains == Spec => []ClearedMeansDrained
<1>1. PipelineInv => ClearedMeansDrained
  <2> SUFFICES ASSUME PipelineInv, mpc \in {"cleared", "done"}, NEW c \in Cpus
               PROVE  /\ arrived[c] = resent[c]
                      /\ tpc[c] = "idle" /\ wq[c] = << >> /\ ~work[c]
    BY DEF ClearedMeansDrained
  <2>1. Quiet /\ skb_list[c] = << >> BY DEF PipelineInv, ClearOK
  <2>2. tpc[c] = "idle" /\ wq[c] = << >> /\ ~work[c] BY <2>1 DEF Quiet, Flushed
  <2>3. hand_list[c] = << >> BY <2>2 DEF PipelineInv, HandOK
  <2>4. resent[c] \in Seq(Packets) /\ arrived[c] = resent[c] \o << >> \o << >>
    BY <2>1, <2>3 DEF PipelineInv, TypeOK, InOrder
  <2> QED BY <2>2, <2>4, ConcatEmptySeq
<1> QED BY <1>1, PipelineInvariant, PTL
=============================================================================
