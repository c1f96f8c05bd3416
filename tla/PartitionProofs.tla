--------------------------- MODULE PartitionProofs ---------------------------
(***************************************************************************)
(* Proofs about Partition, for every payload, window, step and fifo size.   *)
(* First the chunks: what get_partition passes to build_hash tiles the      *)
(* payload.  Then the cuts: the hash that calculate_partition rolls, in the *)
(* arithmetic of unsigned long, is the polynomial of the window, and its    *)
(* countdown makes the cuts that the definition by distance asks for.       *)
(***************************************************************************)
EXTENDS Partition, ProofLib

\* What FifoPut does to the fifo of cuts.
LEMMA FifoPutFacts ==
    ASSUME NEW f \in Seq(Nat), NEW v \in Nat
    PROVE  /\ FifoPut(f, v) \in Seq(Nat)
           /\ FifoPut(f, v) # f => /\ Len(FifoPut(f, v)) = Len(f) + 1
                                   /\ FifoPut(f, v)[Len(f) + 1] = v
                                   /\ \A k \in 1 .. Len(f) : FifoPut(f, v)[k] = f[k]
BY PartitionAssumption DEF FifoPut

LEMMA InitPartition == Init => PartitionInv
BY PartitionAssumption DEF Init, PartitionInv, CutsInv, BuiltInv, Tiled

LEMMA PartitionStep == PartitionInv /\ [Next]_vars => PartitionInv'
<1>. SUFFICES ASSUME PartitionInv, [Next]_vars PROVE PartitionInv'
  OBVIOUS
<1>. USE PartitionAssumption
<1>1. CASE Skip
  BY <1>1 DEF Skip, cutVars, PartitionInv, CutsInv, BuiltInv, Tiled, Stored
<1>2. CASE FirstWindow
  <2>1. chunk_num - 1 \in Nat /\ Delay = CHUNKSTEP - 1
    BY DEF Delay, step
  <2>2. fifo = << >> /\ built = << >>
    BY <1>2 DEF FirstWindow, PartitionInv, BuiltInv
  <2>3. \/ fifo' = << >> /\ delay_time' = delay_time
        \/ fifo' = <<chunk_num - 1>> /\ delay_time' = CHUNKSTEP - 1
        \/ fifo' = << >> /\ delay_time' = CHUNKSTEP - 1
    BY <1>2, <2>1, <2>2 DEF FirstWindow, FifoPut
  <2>4. /\ length' = length /\ length > chunk_num /\ i' = chunk_num /\ pc' = "scan"
        /\ fifo_len' = fifo_len /\ end_pos' = end_pos /\ built' = built
    BY <1>2 DEF FirstWindow
  <2>5. /\ length \in Nat /\ delay_time \in Nat /\ delay_time' \in Nat /\ fifo' \in Seq(Nat)
        /\ Len(fifo') \in {0, 1}
        /\ Len(fifo') = 1 => fifo'[1] = chunk_num - 1 /\ delay_time' = CHUNKSTEP - 1
    <3>1. length \in Nat /\ delay_time \in Nat
      BY DEF PartitionInv
    <3>2. \A x \in Nat : <<x>> \in Seq(Nat) /\ Len(<<x>>) = 1 /\ <<x>>[1] = x
      OBVIOUS
    <3>3. << >> \in Seq(Nat) /\ Len(<< >>) = 0
      OBVIOUS
    <3>4. CASE fifo' = << >> /\ delay_time' \in {delay_time, CHUNKSTEP - 1}
      BY <3>1, <3>3, <3>4
    <3>5. CASE fifo' = <<chunk_num - 1>> /\ delay_time' = CHUNKSTEP - 1
      BY <2>1, <3>1, <3>2, <3>5
    <3>. QED BY <2>3, <3>4, <3>5
  <2>6. CutsInv'
    <3>1. \A k \in 1 .. Len(fifo') : /\ fifo'[k] = chunk_num - 1
                                     /\ delay_time' = CHUNKSTEP - 1
      BY <2>5
    <3>2. \A k \in 1 .. Len(fifo') - 1 : FALSE
      <4>1. PICK n \in {0, 1} : n = Len(fifo')
        BY <2>5
      <4>2. \A k \in 1 .. n - 1 : FALSE
        OBVIOUS
      <4>. QED BY <4>1, <4>2
    <3>. QED BY <2>1, <2>4, <2>5, <3>1, <3>2 DEF CutsInv
  <2>7. BuiltInv' /\ Tiled'
    BY <2>2, <2>4 DEF BuiltInv, Tiled
  <2>. QED
    BY <2>4, <2>5, <2>6, <2>7 DEF PartitionInv
<1>3. CASE Scan
  <2>1. /\ pc = "scan" /\ pc' = "scan" /\ i < length /\ length' = length /\ i' = i + 1
        /\ fifo_len' = fifo_len /\ end_pos' = end_pos /\ built' = built
    BY <1>3 DEF Scan
  <2>2. PICK f : f = FifoPut(fifo, i)
    OBVIOUS
  <2>3. /\ f \in Seq(Nat)
        /\ f # fifo => /\ Len(f) = Len(fifo) + 1 /\ f[Len(fifo) + 1] = i
                       /\ \A k \in 1 .. Len(fifo) : f[k] = fifo[k]
    <3>1. fifo \in Seq(Nat) /\ i \in Nat
      BY DEF PartitionInv
    <3>. QED BY <2>2, <3>1, FifoPutFacts, ZenonT(60)
  <2>4. \/ delay_time = 0 /\ fifo' = f /\ delay_time' = CHUNKSTEP - 1
        \/ delay_time = 0 /\ fifo' = fifo /\ delay_time' = delay_time
        \/ delay_time # 0 /\ delay_time' = delay_time - 1 /\ fifo' = fifo
    BY <1>3, <2>2 DEF Scan, Delay, step
  <2>5. CASE fifo' = fifo
    <3>1. length \in Nat /\ i \in Nat /\ delay_time \in Nat /\ delay_time' \in Nat
      BY <2>4 DEF PartitionInv
    <3>2. \A k \in 1 .. Len(fifo) : fifo[k] \in Nat
      BY DEF PartitionInv
    <3>3. delay_time - 1 <= delay_time'
      BY <3>1, <2>4
    <3>4. CutsInv'
      BY <2>1, <2>5, <3>1, <3>2, <3>3, SMTT(40) DEF PartitionInv, CutsInv
    <3>5. BuiltInv' /\ Tiled'
      BY <2>1, <2>5 DEF PartitionInv, BuiltInv, Tiled
    <3>. QED BY <2>1, <2>5, <3>1, <3>4, <3>5 DEF PartitionInv
  <2>6. CASE fifo' = f /\ f # fifo /\ delay_time = 0 /\ delay_time' = CHUNKSTEP - 1
    <3>1. /\ Len(fifo) \in Nat /\ i \in Nat /\ length \in Nat
          /\ \A k \in 1 .. Len(fifo) : fifo[k] \in Nat
      BY DEF PartitionInv
    <3>2. \A k \in 1 .. Len(f) : \/ k \in 1 .. Len(fifo) /\ f[k] = fifo[k]
                                 \/ k = Len(fifo) + 1 /\ f[k] = i
      BY <2>3, <2>6, <3>1
    <3>3. \A k \in 1 .. Len(fifo) : fifo[k] + CHUNKSTEP <= i
      BY <2>1, <2>6, <3>1 DEF PartitionInv, CutsInv
    <3>4. \A k \in 1 .. Len(f) - 1 : f[k] + CHUNKSTEP <= f[k + 1]
      <4>. TAKE k \in 1 .. Len(f) - 1
      <4>1. k \in 1 .. Len(fifo) /\ f[k] = fifo[k]
        BY <2>3, <2>6, <3>1
      <4>2. CASE k = Len(fifo)
        BY <4>1, <4>2, <3>3, <2>3, <2>6
      <4>3. CASE k # Len(fifo)
        <5>1. k \in 1 .. Len(fifo) - 1 /\ k + 1 \in 1 .. Len(fifo)
          BY <4>1, <4>3, <3>1
        <5>2. f[k + 1] = fifo[k + 1]
          BY <5>1, <2>3, <2>6
        <5>. QED BY <4>1, <5>1, <5>2 DEF PartitionInv, CutsInv
      <4>. QED BY <4>2, <4>3
    <3>5. CutsInv'
      <4>1. \A k \in 1 .. Len(f) : /\ chunk_num - 1 <= f[k] /\ f[k] < length /\ f[k] < i + 1
                                   /\ f[k] + CHUNKSTEP <= i + 1 + (CHUNKSTEP - 1)
        <5>. TAKE k \in 1 .. Len(f)
        <5>1. CASE k \in 1 .. Len(fifo) /\ f[k] = fifo[k]
          BY <5>1, <2>1, <3>1, <3>3, SMTT(40) DEF PartitionInv, CutsInv
        <5>2. CASE f[k] = i
          BY <5>2, <2>1, <3>1 DEF PartitionInv, CutsInv
        <5>. QED BY <5>1, <5>2, <3>2
      <4>2. length > chunk_num /\ chunk_num <= i + 1 /\ i + 1 <= length
        BY <2>1, <3>1 DEF PartitionInv, CutsInv
      <4>. QED BY <2>1, <2>6, <3>4, <4>1, <4>2 DEF CutsInv
    <3>. QED
      BY <2>1, <2>3, <2>6, <3>1, <3>5 DEF PartitionInv, BuiltInv, Tiled
  <2>. QED BY <2>4, <2>5, <2>6
<1>4. CASE ScanEnd
  BY <1>4 DEF ScanEnd, cutVars, PartitionInv, CutsInv, BuiltInv, Tiled
<1>5. CASE BuildCut
  <2>1. /\ pc = "build" /\ pc' = "build" /\ fifo # << >> /\ length' = length /\ i' = i
        /\ delay_time' = delay_time /\ fifo_len' = fifo_len /\ fifo' = Tail(fifo)
        /\ end_pos' = fifo[1] /\ built' = Append(built, <<NextStart, fifo[1]>>)
    BY <1>5 DEF BuildCut
  <2>2. /\ fifo \in Seq(Nat) /\ Len(fifo) \in Nat /\ Len(fifo) > 0 /\ fifo[1] \in Nat
        /\ Tail(fifo) \in Seq(Nat) /\ Len(Tail(fifo)) = Len(fifo) - 1
        /\ \A k \in 1 .. Len(fifo) - 1 : Tail(fifo)[k] = fifo[k + 1]
    BY <2>1 DEF PartitionInv
  <2>3. NextStart \in Nat /\ NextStart <= fifo[1] /\ fifo[1] - NextStart + 1 > SHALEN + 2
    <3>1. CASE built = << >>
      <4>1. chunk_num - 1 <= fifo[1] /\ NextStart = 0
        BY <2>1, <2>2, <3>1 DEF NextStart, PartitionInv, CutsInv
      <4>. QED BY <4>1, <2>2
    <3>2. CASE built # << >>
      <4>1. end_pos \in Nat /\ end_pos + CHUNKSTEP <= fifo[1] /\ NextStart = end_pos + 1
        BY <2>1, <3>2 DEF NextStart, PartitionInv, BuiltInv
      <4>. QED BY <4>1, <2>2
    <3>. QED BY <3>1, <3>2
  <2>4. CutsInv'
    BY <2>1, <2>2, SMTT(40) DEF PartitionInv, CutsInv
  <2>5. PICK e : e = <<NextStart, fifo[1]>>
    OBVIOUS
  <2>6. e \in Nat \X Nat /\ e[1] = NextStart /\ e[2] = fifo[1] /\ Stored(e)
    BY <2>2, <2>3, <2>5 DEF Stored
  <2>7. /\ built \in Seq(Nat \X Nat) /\ built' \in Seq(Nat \X Nat) /\ Len(built) \in Nat
        /\ Len(built') = Len(built) + 1 /\ built'[Len(built) + 1] = e
        /\ \A k \in 1 .. Len(built) : built'[k] = built[k]
        /\ built' # << >>
    <3>1. PICK S : S = Nat \X Nat
      OBVIOUS
    <3>2. built \in Seq(S) /\ built' = Append(built, e) /\ e \in S
      BY <2>1, <2>5, <2>6, <3>1 DEF PartitionInv
    <3>3. PICK b, bb : b = built /\ bb = built'
      OBVIOUS
    <3>4. b \in Seq(S) /\ bb = Append(b, e)
      BY <3>2, <3>3
    <3>5. /\ bb \in Seq(S) /\ Len(b) \in Nat /\ Len(bb) = Len(b) + 1 /\ bb[Len(b) + 1] = e
          /\ \A k \in 1 .. Len(b) : bb[k] = b[k]
      BY <3>2, <3>4
    <3>6. bb # << >>
      BY <3>5
    <3>. QED BY <3>1, <3>3, <3>4, <3>5, <3>6
  <2>8. \A k \in 1 .. Len(built') : \/ k \in 1 .. Len(built) /\ built'[k] = built[k]
                                    \/ k = Len(built) + 1 /\ built'[k] = e
    <3>1. \A k \in 1 .. Len(built') : k \in 1 .. Len(built) \/ k = Len(built) + 1
      BY <2>7
    <3>. QED BY <3>1, <2>7
  <2>9. BuiltInv'
    <3>1. \A k \in 1 .. Len(built') : Stored(built'[k])
      BY <2>1, <2>6, <2>8 DEF PartitionInv, BuiltInv
    <3>2. fifo_len > 0
      BY <2>1, <2>2 DEF PartitionInv, BuiltInv
    <3>3. fifo[1] < length
      BY <2>1, <2>2 DEF PartitionInv, CutsInv
    <3>4. fifo' # << >> => fifo[1] + CHUNKSTEP <= fifo'[1]
      BY <2>1, <2>2, SMTT(40) DEF PartitionInv, CutsInv
    <3>. QED BY <2>1, <2>6, <2>7, <3>1, <3>2, <3>3, <3>4 DEF BuiltInv, Stored
  <2>10. Tiled'
    <3>1. \A k \in 1 .. Len(built') : Stored(built'[k])
      BY <2>1, <2>6, <2>8 DEF PartitionInv, BuiltInv
    <3>2. ASSUME NEW k \in 1 .. Len(built')
          PROVE  /\ built'[k][1] = (IF k = 1 THEN 0 ELSE built'[k - 1][2] + 1)
                 /\ built'[k][1] <= built'[k][2]
      <4>1. CASE k \in 1 .. Len(built)
        <5>1. k # 1 => k - 1 \in 1 .. Len(built)
          BY <4>1, <2>7
        <5>. QED BY <4>1, <5>1, <2>7 DEF PartitionInv, Tiled
      <4>2. CASE k = Len(built) + 1
        <5>1. built = << >> => k = 1 /\ NextStart = 0
          BY <4>2, <2>7 DEF NextStart
        <5>2. built # << >> => /\ k - 1 = Len(built) /\ k # 1 /\ k - 1 \in 1 .. Len(built)
                               /\ NextStart = built[Len(built)][2] + 1
          BY <4>2, <2>1, <2>7, SMTT(40) DEF NextStart, PartitionInv, BuiltInv
        <5>. QED BY <4>2, <5>1, <5>2, <2>3, <2>6, <2>7
      <4>. QED BY <4>1, <4>2, <2>7
    <3>. QED BY <3>1, <3>2, <2>1 DEF Tiled, Stored
  <2>. QED BY <2>1, <2>2, <2>4, <2>7, <2>9, <2>10 DEF PartitionInv
<1>6. CASE BuildTail
  <2>1. /\ pc = "build" /\ pc' = "done" /\ fifo = << >> /\ fifo' = << >> /\ length' = length
        /\ i' = i /\ delay_time' = delay_time /\ fifo_len' = fifo_len
    BY <1>6 DEF BuildTail, cutVars
  <2>2. CutsInv' /\ BuiltInv'
    BY <2>1 DEF CutsInv, BuiltInv
  <2>3. length \in Nat /\ length > chunk_num /\ fifo_len \in Nat /\ end_pos \in Nat
        /\ built \in Seq(Nat \X Nat) /\ Len(built) \in Nat
    BY <2>1 DEF PartitionInv, CutsInv
  <2>4. fifo_len > 0 => built # << >> /\ end_pos = built[Len(built)][2] /\ end_pos < length
    BY <2>1 DEF PartitionInv, BuiltInv
  <2>5. fifo_len = 0 => built = << >>
    BY <2>1 DEF PartitionInv, BuiltInv
  <2>6. CASE built' = built /\ end_pos' = end_pos /\ fifo_len > 0 /\ end_pos = length - 1
    BY <2>1, <2>2, <2>3, <2>4, <2>6 DEF PartitionInv, Tiled, Stored
  <2>7. CASE /\ built' = Append(built, <<IF built = << >> THEN 0 ELSE end_pos + 1, length - 1>>)
             /\ end_pos' = length - 1 /\ (built # << >> => end_pos # length - 1)
             /\ fifo_len > 0 => built # << >>
    <3>1. PICK e : e = <<IF built = << >> THEN 0 ELSE end_pos + 1, length - 1>>
      OBVIOUS
    <3>2. /\ built # << >> => end_pos = built[Len(built)][2] /\ end_pos < length - 1
          /\ length - 1 \in Nat
      BY <2>3, <2>4, <2>5, <2>7
    <3>3. /\ e \in Nat \X Nat /\ e[2] = length - 1 /\ e[1] <= e[2]
          /\ e[1] = IF built = << >> THEN 0 ELSE built[Len(built)][2] + 1
      BY <3>1, <3>2, <2>3
    <3>4. /\ built' \in Seq(Nat \X Nat) /\ Len(built') = Len(built) + 1
          /\ built'[Len(built) + 1] = e
          /\ \A k \in 1 .. Len(built) : built'[k] = built[k]
      BY <2>3, <2>7, <3>1, <3>3
    <3>5. Tiled'
      <4>1. ASSUME NEW k \in 1 .. Len(built')
            PROVE  /\ built'[k][1] = (IF k = 1 THEN 0 ELSE built'[k - 1][2] + 1)
                   /\ built'[k][1] <= built'[k][2]
                   /\ k < Len(built') => Stored(built'[k])
        <5>1. CASE k \in 1 .. Len(built)
          <6>1. k # 1 => k - 1 \in 1 .. Len(built)
            BY <5>1, <2>3
          <6>2. Stored(built'[k])
            BY <5>1, <3>4, <2>1 DEF PartitionInv, BuiltInv
          <6>. QED BY <5>1, <6>1, <6>2, <3>4 DEF PartitionInv, Tiled
        <5>2. CASE k = Len(built) + 1
          <6>1. built = << >> => k = 1
            BY <5>2, <2>3
          <6>2. built # << >> => k - 1 = Len(built) /\ k # 1 /\ k - 1 \in 1 .. Len(built)
            BY <5>2, <2>3
          <6>3. built # << >> => built'[k - 1] = built[Len(built)]
            BY <6>2, <3>4
          <6>4. built'[k] = e
            BY <5>2, <3>4
          <6>5. k < Len(built') => FALSE
            BY <5>2, <3>4, <2>3
          <6>. QED BY <6>1, <6>2, <6>3, <6>4, <6>5, <3>3
        <5>. QED BY <5>1, <5>2, <3>4, <2>3
      <4>. QED BY <4>1, <3>3, <3>4, <2>1 DEF Tiled, Stored
    <3>. QED BY <2>1, <2>2, <2>3, <2>7, <3>2, <3>4, <3>5 DEF PartitionInv
  <2>. QED
    BY <1>6, <2>3, <2>4, <2>5, <2>6, <2>7 DEF BuildTail, TailLeft
<1>7. CASE Finished \/ UNCHANGED vars
  BY <1>7 DEF Finished, vars, cutVars, PartitionInv, CutsInv, BuiltInv, Tiled, Stored
<1>. QED
  BY <1>1, <1>2, <1>3, <1>4, <1>5, <1>6, <1>7 DEF Next

\* calculate_partition and get_partition keep the cuts apart and the chunks in line: the
\* inductive invariant, for every payload, window, step and fifo size.
THEOREM PartitionInvariant == Spec => []PartitionInv
<1>. QED BY InitPartition, PartitionStep, PTL DEF Spec

\* The chunks that get_partition passes to build_hash tile the payload, whatever cuts the
\* kfifo dropped, and all of them but the last are long enough to be stored.
THEOREM ChunksTile == Spec => []Tiled
<1>1. PartitionInv => Tiled
  BY DEF PartitionInv
<1>. QED BY <1>1, PartitionInvariant, PTL

-----------------------------------------------------------------------------
(* Arithmetic modulo m *)

\* a and b leave the same remainder.
Cong(a, b, m) == \E k \in Int : a - b = m * k

LEMMA DivMod ==
    ASSUME NEW a \in Int, NEW m \in Nat \ {0}
    PROVE  a % m \in 0 .. m - 1 /\ a \div m \in Int /\ a = m * (a \div m) + (a % m)
<1>1. a % m \in 0 .. m - 1
  OBVIOUS
<1>2. a \div m \in Int
  OBVIOUS
<1>3. a = m * (a \div m) + (a % m)
  OBVIOUS
<1>. QED BY <1>1, <1>2, <1>3

LEMMA CongSelf == ASSUME NEW a \in Int, NEW m \in Nat PROVE Cong(a, a, m)
<1>1. a - a = m * 0
  OBVIOUS
<1>. QED BY <1>1 DEF Cong

LEMMA CongSym ==
    ASSUME NEW a \in Int, NEW b \in Int, NEW m \in Nat, Cong(a, b, m)
    PROVE  Cong(b, a, m)
<1>1. PICK k \in Int : a - b = m * k
  BY DEF Cong
<1>2. m * (0 - k) = 0 - m * k
  OBVIOUS
<1>3. 0 - k \in Int /\ b - a = m * (0 - k)
  BY <1>1, <1>2
<1>. QED BY <1>3 DEF Cong

LEMMA CongTrans ==
    ASSUME NEW a \in Int, NEW b \in Int, NEW c \in Int, NEW m \in Nat, Cong(a, b, m), Cong(b, c, m)
    PROVE  Cong(a, c, m)
<1>1. PICK k \in Int : a - b = m * k
  BY DEF Cong
<1>2. PICK l \in Int : b - c = m * l
  BY DEF Cong
<1>3. m * (k + l) = m * k + m * l
  OBVIOUS
<1>4. k + l \in Int /\ a - c = m * (k + l)
  BY <1>1, <1>2, <1>3
<1>. QED BY <1>4 DEF Cong

LEMMA CongAdd ==
    ASSUME NEW a \in Int, NEW b \in Int, NEW c \in Int, NEW d \in Int, NEW m \in Nat,
           Cong(a, b, m), Cong(c, d, m)
    PROVE  Cong(a + c, b + d, m) /\ Cong(a - c, b - d, m)
<1>1. PICK k \in Int : a - b = m * k
  BY DEF Cong
<1>2. PICK l \in Int : c - d = m * l
  BY DEF Cong
<1>3. m * (k + l) = m * k + m * l /\ m * (k - l) = m * k - m * l
  OBVIOUS
<1>4. k + l \in Int /\ (a + c) - (b + d) = m * (k + l)
  BY <1>1, <1>2, <1>3
<1>5. k - l \in Int /\ (a - c) - (b - d) = m * (k - l)
  BY <1>1, <1>2, <1>3
<1>. QED BY <1>4, <1>5 DEF Cong

LEMMA CongMul ==
    ASSUME NEW a \in Int, NEW b \in Int, NEW c \in Int, NEW d \in Int, NEW m \in Nat,
           Cong(a, b, m), Cong(c, d, m)
    PROVE  Cong(a * c, b * d, m)
<1>1. PICK k \in Int : a - b = m * k
  BY DEF Cong
<1>2. PICK l \in Int : c - d = m * l
  BY DEF Cong
<1>3. a * c - b * d = a * (c - d) + (a - b) * d
  OBVIOUS
<1>4. a * (c - d) + (a - b) * d = a * (m * l) + (m * k) * d
  BY <1>1, <1>2
<1>5. a * (m * l) + (m * k) * d = m * (a * l + k * d)
  OBVIOUS
<1>6. a * l + k * d \in Int /\ a * c - b * d = m * (a * l + k * d)
  BY <1>3, <1>4, <1>5
<1>. QED BY <1>6 DEF Cong

LEMMA CongMod ==
    ASSUME NEW a \in Int, NEW m \in Nat \ {0}
    PROVE  Cong(a, a % m, m)
<1>1. PICK q, r : q = a \div m /\ r = a % m
  OBVIOUS
<1>2. q \in Int /\ r \in Int /\ a = m * q + r
  BY <1>1, DivMod
<1>3. a - r = m * q
  BY <1>2
<1>. QED BY <1>1, <1>2, <1>3 DEF Cong

\* A modulus that divides a larger one: the wrap-around of the larger does not matter.
LEMMA CongWrap ==
    ASSUME NEW a \in Int, NEW m \in Nat \ {0}, NEW w \in Nat \ {0}, w % m = 0
    PROVE  Cong(a, a % w, m)
<1>1. PICK q, r : q = a \div w /\ r = a % w
  OBVIOUS
<1>2. q \in Int /\ r \in Int /\ a = w * q + r
  BY <1>1, DivMod
<1>3. PICK d : d = w \div m
  OBVIOUS
<1>4. d \in Int /\ w = m * d
  BY <1>3, DivMod
<1>5. (m * d) * q = m * (d * q)
  BY <1>2, <1>4
<1>6. d * q \in Int /\ a - r = m * (d * q)
  BY <1>2, <1>4, <1>5
<1>. QED BY <1>1, <1>2, <1>6 DEF Cong

LEMMA CongEqual ==
    ASSUME NEW m \in Nat \ {0}, NEW a \in 0 .. m - 1, NEW b \in 0 .. m - 1, Cong(a, b, m)
    PROVE  a = b
<1>1. PICK k \in Int : a - b = m * k
  BY DEF Cong
<1>2. k >= 1 => m * k >= m
  OBVIOUS
<1>3. k <= -1 => m * k <= -m
  OBVIOUS
<1>4. -m < a - b /\ a - b < m
  OBVIOUS
<1>5. k = 0
  BY <1>1, <1>2, <1>3, <1>4
<1>. QED BY <1>1, <1>5

\* Congruent numbers have the same remainder.
LEMMA CongSame ==
    ASSUME NEW a \in Int, NEW b \in Int, NEW m \in Nat \ {0}, Cong(a, b, m)
    PROVE  a % m = b % m
<1>1. PICK r, s : r = a % m /\ s = b % m
  OBVIOUS
<1>2. r \in 0 .. m - 1 /\ s \in 0 .. m - 1 /\ r \in Int /\ s \in Int /\ m \in Nat
  BY <1>1, DivMod
<1>3. Cong(r, a, m) /\ Cong(b, s, m)
  BY <1>1, <1>2, CongMod, CongSym
<1>4. Cong(r, s, m)
  BY <1>2, <1>3, CongTrans
<1>. QED BY <1>1, <1>2, <1>4, CongEqual

-----------------------------------------------------------------------------
(* The hash of a window *)

\* Power is R^n.
LEMMA Powers ==
    /\ Power[0] = 1 /\ \A k \in 1 .. chunk_num : Power[k] = R * Power[k - 1]
    /\ \A k \in 0 .. chunk_num : Power[k] \in Int
<1>1. PICK n : n = chunk_num
  OBVIOUS
<1>2. n \in Nat /\ R \in Int
  BY <1>1, PartitionAssumption, HashAssumption
<1>3. PICK turn : turn = [k \in 1 .. n |-> [x \in Int |-> R * x]]
  OBVIOUS
<1>4. turn \in [1 .. n -> [Int -> Int]]
  BY <1>2, <1>3
<1>5. PICK w \in [0 .. n -> Int] : IsLoop(w, n, 1, turn)
  <2>1. 1 \in Int
    OBVIOUS
  <2>. QED BY <1>2, <1>4, <2>1, LoopExists
<1>6. w[0] = 1 /\ \A k \in 1 .. n : w[k] = R * w[k - 1]
  <2>1. ASSUME NEW k \in 1 .. n PROVE w[k] = R * w[k - 1]
    <3>1. w[k - 1] \in Int
      BY <1>2
    <3>2. w[k] = turn[k][w[k - 1]]
      BY <1>5 DEF IsLoop
    <3>. QED BY <1>3, <3>1, <3>2
  <2>. QED BY <1>5, <2>1 DEF IsLoop
<1>. DEFINE Body(f) == [k \in 0 .. chunk_num |-> IF k = 0 THEN 1 ELSE R * f[k - 1]]
<1>7. w = Body(w)
  <2>1. ASSUME NEW k \in 0 .. n, k # 0 PROVE w[k] = R * w[k - 1]
    BY <1>2, <1>6, <2>1
  <2>. QED BY <1>1, <1>6, <2>1
<1>8. Power = CHOOSE f : f = Body(f)
  BY DEF Power
<1>9. Power = Body(Power)
  BY <1>7, <1>8
<1>10. Power[0] = 1 /\ \A k \in 1 .. n : Power[k] = R * Power[k - 1]
  BY <1>1, <1>2, <1>9
<1>11. InStep(Power, w, n)
  BY <1>6, <1>10 DEF InStep
<1>12. \A k \in 0 .. n : Power[k] = w[k]
  BY <1>2, <1>11, InStepAgree DEF Agree
<1>. QED BY <1>1, <1>10, <1>12

\* s sums up the window that ends at p.
WindowSum(s, p) ==
    /\ s \in [0 .. chunk_num -> Int] /\ s[0] = 0
    /\ \A k \in 1 .. chunk_num : s[k] = s[k - 1] + Power[k - 1] * data[p - (k - 1)]

LEMMA WindowBytes ==
    ASSUME length \in Nat, data \in [0 .. length - 1 -> Bytes],
           NEW p \in chunk_num - 1 .. length - 1, NEW k \in 1 .. chunk_num
    PROVE  p - (k - 1) \in 0 .. length - 1 /\ data[p - (k - 1)] \in Int
<1>1. chunk_num \in Nat /\ Bytes \subseteq Int
  BY PartitionAssumption
<1>2. p - (k - 1) \in 0 .. length - 1
  BY <1>1
<1>. QED BY <1>1, <1>2

LEMMA WindowSums ==
    ASSUME length \in Nat, data \in [0 .. length - 1 -> Bytes],
           NEW p \in chunk_num - 1 .. length - 1
    PROVE  \E s : WindowSum(s, p) /\ WindowHash(data, p) = s[chunk_num] % Q
<1>1. PICK n : n = chunk_num
  OBVIOUS
<1>2. n \in Nat /\ 0 \in Int
  BY <1>1, PartitionAssumption
<1>3. PICK term : term = [k \in 1 .. n |-> Power[k - 1] * data[p - (k - 1)]]
  OBVIOUS
<1>4. \A k \in 1 .. n : term[k] \in Int /\ term[k] = Power[k - 1] * data[p - (k - 1)]
  <2>1. ASSUME NEW k \in 1 .. n PROVE Power[k - 1] * data[p - (k - 1)] \in Int
    <3>1. k - 1 \in 0 .. n
      BY <1>2
    <3>2. Power[k - 1] \in Int /\ data[p - (k - 1)] \in Int
      BY <1>1, <3>1, Powers, WindowBytes
    <3>. QED BY <3>2
  <2>. QED BY <1>3, <2>1
<1>5. PICK turn : turn = [k \in 1 .. n |-> [x \in Int |-> x + term[k]]]
  OBVIOUS
<1>6. turn \in [1 .. n -> [Int -> Int]]
  <2>1. \A k \in 1 .. n : [x \in Int |-> x + term[k]] \in [Int -> Int]
    BY <1>4
  <2>. QED BY <1>5, <2>1
<1>7. PICK w \in [0 .. n -> Int] : IsLoop(w, n, 0, turn)
  BY <1>2, <1>6, LoopExists
<1>8. w[0] = 0 /\ \A k \in 1 .. n : w[k] = w[k - 1] + term[k]
  <2>1. ASSUME NEW k \in 1 .. n PROVE w[k] = w[k - 1] + term[k]
    <3>1. w[k - 1] \in Int
      BY <1>2
    <3>2. w[k] = turn[k][w[k - 1]]
      BY <1>7 DEF IsLoop
    <3>. QED BY <1>5, <3>1, <3>2
  <2>. QED BY <1>7, <2>1 DEF IsLoop
<1>. DEFINE Body(f) == [k \in 0 .. chunk_num |->
                            IF k = 0 THEN 0 ELSE f[k - 1] + Power[k - 1] * data[p - (k - 1)]]
<1>9. w = Body(w)
  <2>1. ASSUME NEW k \in 0 .. n, k # 0 PROVE w[k] = w[k - 1] + Power[k - 1] * data[p - (k - 1)]
    BY <1>2, <1>4, <1>8, <2>1
  <2>. QED BY <1>1, <1>8, <2>1
<1>10. PICK s : s = CHOOSE f : f = Body(f)
  OBVIOUS
<1>11. s = Body(s)
  BY <1>9, <1>10
<1>12. WindowHash(data, p) = s[chunk_num] % Q
  BY <1>10 DEF WindowHash
<1>13. s[0] = 0 /\ \A k \in 1 .. n : s[k] = s[k - 1] + Power[k - 1] * data[p - (k - 1)]
  BY <1>1, <1>2, <1>11
<1>14. InStep(s, w, n)
  BY <1>4, <1>8, <1>13 DEF InStep
<1>15. \A k \in 0 .. n : s[k] = w[k]
  BY <1>2, <1>14, InStepAgree DEF Agree
<1>16. s \in [0 .. n -> Int]
  <2>1. DOMAIN s = 0 .. n /\ s = [k \in 0 .. n |-> s[k]]
    BY <1>1, <1>11
  <2>. QED BY <1>15, <2>1
<1>. QED BY <1>1, <1>12, <1>13, <1>16 DEF WindowSum

\* The window that ends one byte later.
LEMMA WindowMoves ==
    ASSUME length \in Nat, data \in [0 .. length - 1 -> Bytes],
           NEW p \in chunk_num - 1 .. length - 1, p + 1 <= length - 1,
           NEW s, WindowSum(s, p), NEW t, WindowSum(t, p + 1)
    PROVE  t[chunk_num] = R * (s[chunk_num] - Power[chunk_num - 1] * data[p + 1 - chunk_num])
                            + data[p + 1]
<1>1. PICK c : c = chunk_num
  OBVIOUS
<1>2. c \in Nat \ {0} /\ R \in Int /\ p \in Nat /\ p + 1 \in chunk_num - 1 .. length - 1
  BY <1>1, PartitionAssumption, HashAssumption
<1>3. PICK b : b = data[p + 1]
  OBVIOUS
<1>4. b \in Int
  <2>1. 1 \in 1 .. chunk_num /\ (p + 1) - (1 - 1) = p + 1
    BY <1>1, <1>2
  <2>. QED BY <1>2, <1>3, <2>1, WindowBytes
<1>5. PICK v : v = [k \in 0 .. c - 1 |-> t[k + 1]]
  OBVIOUS
<1>6. PICK w : w = [k \in 0 .. c - 1 |-> R * s[k] + b]
  OBVIOUS
<1>7. /\ \A k \in 0 .. c : s[k] \in Int /\ t[k] \in Int /\ Power[k] \in Int
      /\ s[0] = 0 /\ t[0] = 0 /\ Power[0] = 1
      /\ \A k \in 1 .. c : /\ s[k] = s[k - 1] + Power[k - 1] * data[p - (k - 1)]
                           /\ t[k] = t[k - 1] + Power[k - 1] * data[(p + 1) - (k - 1)]
                           /\ Power[k] = R * Power[k - 1]
  BY <1>1, Powers DEF WindowSum
<1>8. v[0] = w[0]
  <2>1. 0 \in 0 .. c - 1 /\ 1 \in 1 .. c /\ 0 + 1 = 1 /\ 1 - 1 = 0 /\ (p + 1) - 0 = p + 1
    BY <1>2
  <2>2. t[1] = 0 + 1 * b
    BY <1>3, <1>7, <2>1
  <2>3. R * 0 + b = b /\ 0 + 1 * b = b
    BY <1>2, <1>4
  <2>. QED BY <1>5, <1>6, <1>7, <2>1, <2>2, <2>3
<1>9. ASSUME NEW k \in 1 .. c - 1, v[k - 1] = w[k - 1] PROVE v[k] = w[k]
  <2>1. k \in 1 .. c /\ k + 1 \in 1 .. c /\ k - 1 \in 0 .. c - 1 /\ k \in 0 .. c - 1
          /\ k - 1 \in 0 .. c /\ (k + 1) - 1 = k /\ (k - 1) + 1 = k
          /\ (p + 1) - k = p - (k - 1)
    BY <1>2
  <2>2. PICK d : d = data[p - (k - 1)]
    OBVIOUS
  <2>3. d \in Int
    BY <1>1, <2>1, <2>2, WindowBytes
  <2>4. PICK P, S : P = Power[k - 1] /\ S = s[k - 1]
    OBVIOUS
  <2>5. P \in Int /\ S \in Int
    BY <1>7, <2>1, <2>4
  <2>6. t[k + 1] = t[k] + Power[k] * data[(p + 1) - k]
    BY <1>7, <2>1
  <2>7. t[k] = R * S + b
    BY <1>5, <1>6, <1>9, <2>1, <2>4
  <2>8. Power[k] = R * P /\ s[k] = S + P * d
    BY <1>7, <2>1, <2>2, <2>4
  <2>9. t[k + 1] = (R * S + b) + (R * P) * d
    BY <2>1, <2>2, <2>6, <2>7, <2>8
  <2>10. (R * S + b) + (R * P) * d = R * (S + P * d) + b
    BY <1>2, <1>4, <2>3, <2>5
  <2>. QED BY <1>5, <1>6, <2>1, <2>8, <2>9, <2>10
<1>10. v[c - 1] = w[c - 1]
  <2>1. c - 1 \in Nat /\ c - 1 \in 0 .. c - 1
    BY <1>2
  <2>2. InStep(v, w, c - 1)
    BY <1>8, <1>9 DEF InStep
  <2>. QED BY <2>1, <2>2, InStepAgree DEF Agree
<1>11. c - 1 \in 0 .. c - 1 /\ c \in 1 .. c /\ (c - 1) + 1 = c /\ p - (c - 1) = p + 1 - c
         /\ c - 1 \in 0 .. c
  BY <1>2
<1>12. t[c] = R * s[c - 1] + b
  BY <1>5, <1>6, <1>10, <1>11
<1>13. PICK d : d = data[p + 1 - c]
  OBVIOUS
<1>14. d \in Int
  BY <1>1, <1>11, <1>13, WindowBytes
<1>15. PICK P, S : P = Power[c - 1] /\ S = s[c - 1]
  OBVIOUS
<1>16. P \in Int /\ S \in Int
  BY <1>7, <1>11, <1>15
<1>17. s[c] = S + P * d
  BY <1>7, <1>11, <1>13, <1>15
<1>18. (S + P * d) - P * d = S
  BY <1>14, <1>16
<1>19. s[c] - P * d = S
  BY <1>17, <1>18
<1>20. t[c] = R * (s[c] - P * d) + b
  BY <1>12, <1>15, <1>19
<1>. QED BY <1>1, <1>3, <1>13, <1>15, <1>20

\* One step of the hash, as unsigned long computes it: congruent to what it stands for.
LEMMA Wrapped ==
    ASSUME NEW a \in Int
    PROVE  (a % Word) % Q \in 0 .. Q - 1 /\ Cong(a, (a % Word) % Q, Q)
<1>1. Q \in Nat \ {0} /\ Word \in Nat \ {0} /\ Word % Q = 0
  BY HashAssumption
<1>2. PICK b : b = a % Word
  OBVIOUS
<1>3. b \in Int /\ Cong(a, b, Q)
  <2>1. b \in 0 .. Word - 1
    BY <1>1, <1>2, DivMod
  <2>2. Cong(a, a % Word, Q)
    BY <1>1, CongWrap
  <2>. QED BY <1>1, <1>2, <2>1, <2>2
<1>4. PICK d : d = b % Q
  OBVIOUS
<1>5. d \in 0 .. Q - 1 /\ d \in Int /\ Cong(b, d, Q)
  BY <1>1, <1>3, <1>4, DivMod, CongMod
<1>6. Cong(a, d, Q)
  BY <1>1, <1>3, <1>5, CongTrans
<1>. QED BY <1>2, <1>4, <1>5, <1>6

\* h is the loop of pack_hash.
PackLoop(h) ==
    /\ h \in [0 .. chunk_num -> Int] /\ h[0] = 0
    /\ \A j \in 1 .. chunk_num : h[j] = ((R * h[j - 1] + data[j - 1]) % Word) % Q

LEMMA PackLoops ==
    ASSUME length \in Nat, length > chunk_num, data \in [0 .. length - 1 -> Bytes]
    PROVE  \E h : PackLoop(h) /\ PackHash(data) = h[chunk_num]
<1>1. PICK n : n = chunk_num
  OBVIOUS
<1>2. n \in Nat /\ 0 \in Int /\ R \in Int /\ Bytes \subseteq Int
  BY <1>1, PartitionAssumption, HashAssumption
<1>3. \A j \in 1 .. n : data[j - 1] \in Int
  <2>1. \A j \in 1 .. n : j - 1 \in 0 .. length - 1
    BY <1>1, <1>2
  <2>. QED BY <1>2, <2>1
<1>4. PICK turn : turn = [j \in 1 .. n |-> [x \in Int |-> ((R * x + data[j - 1]) % Word) % Q]]
  OBVIOUS
<1>5. turn \in [1 .. n -> [Int -> Int]]
  <2>1. ASSUME NEW j \in 1 .. n, NEW x \in Int
        PROVE  ((R * x + data[j - 1]) % Word) % Q \in Int
    <3>1. PICK a : a = R * x + data[j - 1]
      OBVIOUS
    <3>2. a \in Int
      BY <1>2, <1>3, <3>1
    <3>3. (a % Word) % Q \in 0 .. Q - 1
      BY <3>2, Wrapped
    <3>. QED BY <3>1, <3>3
  <2>. QED BY <1>4, <2>1
<1>6. PICK w \in [0 .. n -> Int] : IsLoop(w, n, 0, turn)
  BY <1>2, <1>5, LoopExists
<1>7. w[0] = 0 /\ \A j \in 1 .. n : w[j] = ((R * w[j - 1] + data[j - 1]) % Word) % Q
  <2>1. ASSUME NEW j \in 1 .. n PROVE w[j] = ((R * w[j - 1] + data[j - 1]) % Word) % Q
    <3>1. w[j - 1] \in Int
      BY <1>2
    <3>2. w[j] = turn[j][w[j - 1]]
      BY <1>6 DEF IsLoop
    <3>. QED BY <1>4, <3>1, <3>2
  <2>. QED BY <1>6, <2>1 DEF IsLoop
<1>. DEFINE Body(f) == [j \in 0 .. chunk_num |->
                            IF j = 0 THEN 0 ELSE ((R * f[j - 1] + data[j - 1]) % Word) % Q]
<1>8. w = Body(w)
  <2>1. ASSUME NEW j \in 0 .. n, j # 0 PROVE w[j] = ((R * w[j - 1] + data[j - 1]) % Word) % Q
    BY <1>2, <1>7, <2>1
  <2>. QED BY <1>1, <1>7, <2>1
<1>9. PICK h : h = CHOOSE f : f = Body(f)
  OBVIOUS
<1>10. h = Body(h)
  BY <1>8, <1>9
<1>11. PackHash(data) = h[chunk_num]
  BY <1>9 DEF PackHash
<1>12. h[0] = 0 /\ \A j \in 1 .. n : h[j] = ((R * h[j - 1] + data[j - 1]) % Word) % Q
  BY <1>1, <1>2, <1>10
<1>13. InStep(h, w, n)
  BY <1>7, <1>12 DEF InStep
<1>14. \A j \in 0 .. n : h[j] = w[j]
  BY <1>2, <1>13, InStepAgree DEF Agree
<1>15. h \in [0 .. n -> Int]
  <2>1. h = [j \in 0 .. n |-> h[j]]
    BY <1>1, <1>10
  <2>. QED BY <1>14, <2>1
<1>. QED BY <1>1, <1>11, <1>12, <1>15 DEF PackLoop

\* pack_hash, by Horner's rule from the front, computes the polynomial of the first window.
LEMMA FirstHash ==
    ASSUME length \in Nat, length > chunk_num, data \in [0 .. length - 1 -> Bytes]
    PROVE  PackHash(data) = WindowHash(data, chunk_num - 1)
<1>1. PICK c : c = chunk_num
  OBVIOUS
<1>2. c \in Nat \ {0} /\ R \in Int /\ Q \in Nat \ {0} /\ Q \in Nat /\ Bytes \subseteq Int
        /\ c - 1 \in chunk_num - 1 .. length - 1
  BY <1>1, PartitionAssumption, HashAssumption
<1>3. PICK s : WindowSum(s, c - 1) /\ WindowHash(data, c - 1) = s[c] % Q
  BY <1>1, <1>2, WindowSums
<1>4. PICK h : PackLoop(h) /\ PackHash(data) = h[c]
  BY <1>1, PackLoops
<1>5. /\ \A k \in 0 .. c : s[k] \in Int /\ h[k] \in Int /\ Power[k] \in Int
      /\ s[0] = 0 /\ h[0] = 0 /\ Power[0] = 1
      /\ \A k \in 1 .. c : /\ s[k] = s[k - 1] + Power[k - 1] * data[(c - 1) - (k - 1)]
                           /\ h[k] = ((R * h[k - 1] + data[k - 1]) % Word) % Q
                           /\ Power[k] = R * Power[k - 1]
  BY <1>1, <1>3, <1>4, Powers DEF WindowSum, PackLoop
<1>6. PICK T : T = [k \in 0 .. c |-> Power[k] * h[c - k] + s[k]]
  OBVIOUS
<1>7. \A k \in 0 .. c : T[k] = Power[k] * h[c - k] + s[k] /\ T[k] \in Int /\ c - k \in 0 .. c
  <2>1. ASSUME NEW k \in 0 .. c PROVE c - k \in 0 .. c
    BY <1>2
  <2>2. ASSUME NEW k \in 0 .. c PROVE Power[k] * h[c - k] + s[k] \in Int
    BY <1>5, <2>1
  <2>. QED BY <1>6, <2>1, <2>2
<1>8. ASSUME NEW k \in 1 .. c PROVE T[k] % Q = T[k - 1] % Q
  <2>1. PICK j : j = c - k
    OBVIOUS
  <2>2. /\ k \in 0 .. c /\ k - 1 \in 0 .. c /\ j \in 0 .. c /\ j + 1 \in 1 .. c
        /\ (c - 1) - (k - 1) = j /\ c - (k - 1) = j + 1 /\ (j + 1) - 1 = j
        /\ j \in 0 .. length - 1
    BY <1>1, <1>2, <2>1
  <2>3. PICK P, S, H, d : P = Power[k - 1] /\ S = s[k - 1] /\ H = h[j] /\ d = data[j]
    OBVIOUS
  <2>4. P \in Int /\ S \in Int /\ H \in Int /\ d \in Int
    BY <1>2, <1>5, <2>2, <2>3
  <2>5. PICK a, e : a = R * H + d /\ e = (a % Word) % Q
    OBVIOUS
  <2>6. a \in Int /\ R * H + d \in Int
    BY <1>2, <2>4, <2>5
  <2>7. e \in 0 .. Q - 1 /\ Cong(a, e, Q)
    BY <2>5, <2>6, Wrapped
  <2>8. e \in Int
    BY <2>7
  <2>9. h[j + 1] = e
    BY <1>5, <2>2, <2>3, <2>5
  <2>10. T[k - 1] = P * e + S
    BY <1>7, <2>2, <2>3, <2>9
  <2>11. Power[k] = R * P /\ s[k] = S + P * d
    BY <1>5, <2>2, <2>3
  <2>12. T[k] = (R * P) * H + (S + P * d)
    BY <1>7, <2>1, <2>2, <2>3, <2>11
  <2>13. (R * P) * H + (S + P * d) = P * (R * H + d) + S
    BY <1>2, <2>4
  <2>14. T[k] = P * a + S
    BY <2>5, <2>12, <2>13
  <2>15. Cong(P * a, P * e, Q)
    BY <1>2, <2>4, <2>6, <2>7, <2>8, CongSelf, CongMul
  <2>16. P * a \in Int /\ P * e \in Int
    BY <2>4, <2>6, <2>8
  <2>17. Cong(P * a + S, P * e + S, Q)
    BY <1>2, <2>4, <2>15, <2>16, CongSelf, CongAdd
  <2>18. Cong(T[k], T[k - 1], Q) /\ T[k] \in Int /\ T[k - 1] \in Int
    BY <1>7, <2>2, <2>10, <2>14, <2>17
  <2>. QED BY <1>2, <2>18, CongSame
<1>9. T[c] % Q = T[0] % Q
  <2>1. PICK v, w : v = [k \in 0 .. c |-> T[k] % Q] /\ w = [k \in 0 .. c |-> T[0] % Q]
    OBVIOUS
  <2>2. ASSUME NEW k \in 1 .. c, v[k - 1] = w[k - 1] PROVE v[k] = w[k]
    <3>1. k \in 0 .. c /\ k - 1 \in 0 .. c
      BY <1>2
    <3>. QED BY <1>8, <2>1, <2>2, <3>1
  <2>3. 0 \in 0 .. c /\ c \in 0 .. c /\ c \in Nat
    BY <1>2
  <2>4. InStep(v, w, c)
    BY <2>1, <2>2, <2>3 DEF InStep
  <2>5. v[c] = w[c]
    <3>1. Agree(v, w, c)
      BY <2>3, <2>4, InStepAgree
    <3>. QED BY <2>3, <3>1 DEF Agree
  <2>. QED BY <2>1, <2>3, <2>5
<1>10. T[0] = h[c] /\ T[c] = s[c]
  <2>1. 0 \in 0 .. c /\ c \in 0 .. c /\ c - 0 = c /\ c - c = 0
    BY <1>2
  <2>2. T[0] = 1 * h[c] + 0 /\ T[c] = Power[c] * 0 + s[c]
    BY <1>5, <1>7, <2>1
  <2>3. h[c] \in Int /\ s[c] \in Int /\ Power[c] \in Int
    BY <1>5, <2>1
  <2>. QED BY <2>2, <2>3
<1>11. h[c] \in 0 .. Q - 1
  <2>1. c \in 1 .. c /\ c - 1 \in 0 .. c /\ c - 1 \in 0 .. length - 1
    BY <1>1, <1>2
  <2>2. PICK a : a = R * h[c - 1] + data[c - 1]
    OBVIOUS
  <2>3. a \in Int
    BY <1>2, <1>5, <2>1, <2>2
  <2>. QED BY <1>5, <2>1, <2>2, <2>3, Wrapped
<1>12. h[c] % Q = h[c]
  BY <1>2, <1>11
<1>. QED BY <1>1, <1>3, <1>4, <1>9, <1>10, <1>12

\* The loop of init_hash_parameters computes R^(chunk_num - 1) modulo Q.
LEMMA LeadingPower == RM \in Int /\ Cong(RM, Power[chunk_num - 1], Q)
<1>1. PICK n : n = chunk_num - 1
  OBVIOUS
<1>2. n \in Nat /\ n \in 0 .. n /\ R \in Int /\ 1 \in Int /\ Q \in Nat /\ n \in 0 .. chunk_num
        /\ \A j \in 1 .. n : j \in 1 .. chunk_num /\ j \in 0 .. chunk_num /\ j - 1 \in 0 .. chunk_num
  BY <1>1, PartitionAssumption, HashAssumption
<1>3. PICK turn : turn = [j \in 1 .. n |-> [x \in Int |-> ((R * x) % Word) % Q]]
  OBVIOUS
<1>4. \A x \in Int : ((R * x) % Word) % Q \in Int /\ Cong(R * x, ((R * x) % Word) % Q, Q)
  <2>1. ASSUME NEW x \in Int
        PROVE  ((R * x) % Word) % Q \in Int /\ Cong(R * x, ((R * x) % Word) % Q, Q)
    <3>1. PICK a : a = R * x
      OBVIOUS
    <3>2. a \in Int
      BY <1>2, <3>1
    <3>3. (a % Word) % Q \in 0 .. Q - 1 /\ Cong(a, (a % Word) % Q, Q)
      BY <3>2, Wrapped
    <3>. QED BY <3>1, <3>3
  <2>. QED BY <2>1
<1>5. turn \in [1 .. n -> [Int -> Int]]
  BY <1>3, <1>4
<1>6. PICK w \in [0 .. n -> Int] : IsLoop(w, n, 1, turn)
  BY <1>2, <1>5, LoopExists
<1>7. w[0] = 1 /\ \A j \in 1 .. n : w[j] = ((R * w[j - 1]) % Word) % Q
  <2>1. ASSUME NEW j \in 1 .. n PROVE w[j] = ((R * w[j - 1]) % Word) % Q
    <3>1. w[j - 1] \in Int
      BY <1>2
    <3>2. w[j] = turn[j][w[j - 1]]
      BY <1>6 DEF IsLoop
    <3>. QED BY <1>3, <3>1, <3>2
  <2>. QED BY <1>6, <2>1 DEF IsLoop
<1>. DEFINE Body(f) == [j \in 0 .. chunk_num - 1 |->
                            IF j = 0 THEN 1 ELSE ((R * f[j - 1]) % Word) % Q]
<1>8. w = Body(w)
  <2>1. ASSUME NEW j \in 0 .. n, j # 0 PROVE w[j] = ((R * w[j - 1]) % Word) % Q
    BY <1>2, <1>7, <2>1
  <2>. QED BY <1>1, <1>7, <2>1
<1>9. PICK m : m = CHOOSE f : f = Body(f)
  OBVIOUS
<1>10. m = Body(m)
  BY <1>8, <1>9
<1>11. RM = m[n]
  BY <1>1, <1>9 DEF RM
<1>12. m[0] = 1 /\ \A j \in 1 .. n : m[j] = ((R * m[j - 1]) % Word) % Q
  BY <1>1, <1>2, <1>10
<1>13. Agree(m, w, n)
  <2>1. InStep(m, w, n)
    BY <1>7, <1>12 DEF InStep
  <2>. QED BY <1>2, <2>1, InStepAgree
<1>14. \A j \in 0 .. n : m[j] \in Int
  BY <1>2, <1>13 DEF Agree
<1>15. PICK v, u : /\ v = [j \in 0 .. n |-> IF Cong(m[j], Power[j], Q) THEN 1 ELSE 0]
                   /\ u = [j \in 0 .. n |-> 1]
  OBVIOUS
<1>16. InStep(v, u, n)
  <2>1. v[0] = u[0]
    <3>1. Cong(1, 1, Q)
      BY <1>2, CongSelf
    <3>2. Cong(m[0], Power[0], Q)
      BY <1>12, <3>1, Powers
    <3>. QED BY <1>2, <1>15, <3>2
  <2>2. ASSUME NEW j \in 1 .. n, v[j - 1] = u[j - 1] PROVE v[j] = u[j]
    <3>1. j - 1 \in 0 .. n /\ j \in 0 .. n
      BY <1>2
    <3>2. PICK a, b, e : a = m[j - 1] /\ b = Power[j - 1] /\ e = m[j]
      OBVIOUS
    <3>3. a \in Int /\ b \in Int /\ e \in Int
      BY <1>2, <1>14, <3>1, <3>2, Powers
    <3>4. Cong(a, b, Q)
      BY <1>15, <2>2, <3>1, <3>2
    <3>5. Power[j] = R * b /\ Cong(R * a, e, Q)
      BY <1>2, <1>4, <1>12, <3>2, <3>3, Powers
    <3>6. R * a \in Int /\ R * b \in Int
      BY <1>2, <3>3
    <3>7. Cong(R * a, R * b, Q)
      <4>1. Cong(R, R, Q)
        BY <1>2, CongSelf
      <4>. QED BY <1>2, <3>3, <3>4, <4>1, CongMul
    <3>8. Cong(e, R * a, Q)
      BY <1>2, <3>3, <3>5, <3>6, CongSym
    <3>9. Cong(e, R * b, Q)
      BY <1>2, <3>3, <3>6, <3>7, <3>8, CongTrans
    <3>. QED BY <1>15, <3>1, <3>2, <3>5, <3>9
  <2>. QED BY <2>1, <2>2 DEF InStep
<1>17. v[n] = u[n]
  <2>1. Agree(v, u, n)
    BY <1>2, <1>16, InStepAgree
  <2>. QED BY <1>2, <2>1 DEF Agree
<1>. QED BY <1>1, <1>2, <1>11, <1>14, <1>15, <1>17

\* One move of the window, as the loop of calculate_partition makes it.
LEMMA RollExact ==
    ASSUME length \in Nat, data \in [0 .. length - 1 -> Bytes],
           NEW p \in chunk_num - 1 .. length - 1, p + 1 <= length - 1
    PROVE  Roll(WindowHash(data, p), data[p + 1 - chunk_num], data[p + 1]) = WindowHash(data, p + 1)
<1>1. /\ chunk_num \in Nat \ {0} /\ Q \in Nat \ {0} /\ Q \in Nat /\ R \in Int /\ p \in Nat
      /\ p + 1 \in chunk_num - 1 .. length - 1 /\ Bytes \subseteq Int
      /\ chunk_num \in 0 .. chunk_num /\ chunk_num - 1 \in 0 .. chunk_num
      /\ p + 1 - chunk_num \in 0 .. length - 1 /\ p + 1 \in 0 .. length - 1
  BY PartitionAssumption, HashAssumption
<1>2. PICK s : WindowSum(s, p) /\ WindowHash(data, p) = s[chunk_num] % Q
  BY WindowSums
<1>3. PICK t : WindowSum(t, p + 1) /\ WindowHash(data, p + 1) = t[chunk_num] % Q
  BY <1>1, WindowSums
<1>4. PICK S, T, P, out, in, h, M :
        /\ S = s[chunk_num] /\ T = t[chunk_num] /\ P = Power[chunk_num - 1] /\ M = RM
        /\ out = data[p + 1 - chunk_num] /\ in = data[p + 1] /\ h = S % Q
  OBVIOUS
<1>5. S \in Int /\ T \in Int /\ P \in Int /\ out \in Int /\ in \in Int /\ M \in Int
  BY <1>1, <1>2, <1>3, <1>4, Powers, LeadingPower DEF WindowSum
<1>6. T = R * (S - P * out) + in
  BY <1>2, <1>3, <1>4, WindowMoves
<1>7. h \in 0 .. Q - 1 /\ h \in Int /\ Cong(S, h, Q)
  <2>1. S % Q \in 0 .. Q - 1
    BY <1>1, <1>5, DivMod
  <2>2. Cong(S, S % Q, Q)
    BY <1>1, <1>5, CongMod
  <2>. QED BY <1>1, <1>4, <2>1, <2>2
<1>8. PICK a, e : a = M * out /\ e = (a % Word) % Q
  OBVIOUS
<1>9. a \in Int /\ P * out \in Int
  BY <1>5, <1>8
<1>10. e \in 0 .. Q - 1 /\ e \in Int /\ Cong(a, e, Q)
  BY <1>8, <1>9, Wrapped
<1>11. Cong(P * out, e, Q)
  <2>1. Cong(P, M, Q)
    BY <1>1, <1>4, <1>5, LeadingPower, CongSym
  <2>2. Cong(out, out, Q)
    BY <1>1, <1>5, CongSelf
  <2>3. Cong(P * out, a, Q)
    BY <1>1, <1>5, <1>8, <2>1, <2>2, CongMul
  <2>. QED BY <1>1, <1>9, <1>10, <2>3, CongTrans
<1>12. PICK b, less : b = h + Q - e /\ less = b % Q
  OBVIOUS
<1>13. b \in Int /\ less \in Int /\ Cong(b, less, Q)
  <2>1. b \in Int
    BY <1>1, <1>7, <1>10, <1>12
  <2>2. b % Q \in 0 .. Q - 1
    BY <1>1, <2>1, DivMod
  <2>3. Cong(b, b % Q, Q)
    BY <1>1, <2>1, CongMod
  <2>. QED BY <1>1, <1>12, <2>1, <2>2, <2>3
<1>14. Cong(S - P * out, less, Q)
  <2>1. S - P * out \in Int /\ h - e \in Int
    BY <1>5, <1>7, <1>9, <1>10
  <2>2. Cong(S - P * out, h - e, Q)
    BY <1>1, <1>5, <1>7, <1>9, <1>10, <1>11, CongAdd
  <2>3. Cong(h - e, b, Q)
    <3>1. (h - e) - b = Q * (-1)
      BY <1>1, <1>7, <1>10, <1>12
    <3>. QED BY <3>1 DEF Cong
  <2>4. Cong(S - P * out, b, Q)
    BY <1>1, <1>13, <2>1, <2>2, <2>3, CongTrans
  <2>. QED BY <1>1, <1>13, <2>1, <2>4, CongTrans
<1>15. PICK x, y : x = S - P * out /\ y = less * R + in
  OBVIOUS
<1>16. x \in Int /\ y \in Int /\ R * x \in Int /\ R * less \in Int
  BY <1>1, <1>5, <1>9, <1>13, <1>15
<1>17. Cong(T, y, Q)
  <2>1. Cong(R, R, Q) /\ Cong(in, in, Q)
    BY <1>1, <1>5, CongSelf
  <2>2. Cong(R * x, R * less, Q)
    BY <1>1, <1>13, <1>14, <1>15, <1>16, <2>1, CongMul
  <2>3. Cong(R * x + in, R * less + in, Q)
    BY <1>1, <1>5, <1>16, <2>1, <2>2, CongAdd
  <2>4. R * less + in = y
    BY <1>1, <1>5, <1>13, <1>15
  <2>. QED BY <1>6, <1>15, <2>3, <2>4
<1>18. PICK z : z = (y % Word) % Q
  OBVIOUS
<1>19. z \in 0 .. Q - 1 /\ z \in Int /\ Cong(y, z, Q)
  BY <1>16, <1>18, Wrapped
<1>20. Cong(T, z, Q)
  BY <1>1, <1>5, <1>16, <1>17, <1>19, CongTrans
<1>21. T % Q = z % Q
  BY <1>1, <1>5, <1>19, <1>20, CongSame
<1>22. z % Q = z
  BY <1>1, <1>19
<1>23. Roll(h, out, in) = z
  BY <1>4, <1>8, <1>12, <1>15, <1>18 DEF Roll
<1>. QED BY <1>2, <1>3, <1>4, <1>21, <1>22, <1>23

-----------------------------------------------------------------------------
(* The cuts *)

LEMMA AddCutType ==
    ASSUME NEW d, NEW c \in Seq(Nat), NEW p \in Nat
    PROVE  AddCut(d, c, p) \in Seq(Nat)
BY DEF AddCut

\* f runs through the reference cuts of d.
CutsLoop(f, d, n) ==
    /\ f \in [0 .. n -> Seq(Nat)] /\ f[0] = << >>
    /\ \A p \in 1 .. n : f[p] = AddCut(d, f[p - 1], p - 1)

LEMMA CutsLoops ==
    ASSUME NEW d, NEW n \in Nat
    PROVE  \E f : CutsLoop(f, d, n) /\ CutsBefore(d, n) = f[n]
<1>1. PICK S : S = Seq(Nat)
  OBVIOUS
<1>2. << >> \in S /\ \A p \in 1 .. n : p - 1 \in Nat /\ p - 1 \in 0 .. n /\ p \in 0 .. n
  BY <1>1
<1>3. \A c \in S : \A p \in Nat : AddCut(d, c, p) \in S
  BY <1>1, AddCutType
<1>4. PICK turn : turn = [p \in 1 .. n |-> [c \in S |-> AddCut(d, c, p - 1)]]
  OBVIOUS
<1>5. turn \in [1 .. n -> [S -> S]]
  <2>1. ASSUME NEW p \in 1 .. n PROVE [c \in S |-> AddCut(d, c, p - 1)] \in [S -> S]
    BY <1>2, <1>3
  <2>. QED BY <1>4, <2>1
<1>6. PICK w \in [0 .. n -> S] : IsLoop(w, n, << >>, turn)
  BY <1>2, <1>5, LoopExists
<1>7. w[0] = << >> /\ \A p \in 1 .. n : w[p] = AddCut(d, w[p - 1], p - 1)
  <2>1. ASSUME NEW p \in 1 .. n PROVE w[p] = AddCut(d, w[p - 1], p - 1)
    <3>1. w[p - 1] \in S
      BY <1>2
    <3>2. w[p] = turn[p][w[p - 1]]
      BY <1>6 DEF IsLoop
    <3>. QED BY <1>4, <3>1, <3>2
  <2>. QED BY <1>6, <2>1 DEF IsLoop
<1>. DEFINE Body(f) == [p \in 0 .. n |-> IF p = 0 THEN << >> ELSE AddCut(d, f[p - 1], p - 1)]
<1>8. w = Body(w)
  <2>1. ASSUME NEW p \in 0 .. n, p # 0 PROVE w[p] = AddCut(d, w[p - 1], p - 1)
    BY <1>7, <2>1
  <2>. QED BY <1>7, <2>1
<1>9. PICK f : f = CHOOSE g : g = Body(g)
  OBVIOUS
<1>10. f = Body(f)
  BY <1>8, <1>9
<1>11. CutsBefore(d, n) = f[n]
  BY <1>9 DEF CutsBefore
<1>12. f[0] = << >> /\ \A p \in 1 .. n : f[p] = AddCut(d, f[p - 1], p - 1)
  BY <1>2, <1>10
<1>13. InStep(f, w, n)
  BY <1>7, <1>12 DEF InStep
<1>14. \A p \in 0 .. n : f[p] = w[p]
  <2>1. Agree(f, w, n)
    BY <1>13, InStepAgree
  <2>. QED BY <2>1 DEF Agree
<1>15. f \in [0 .. n -> S]
  <2>1. f = [p \in 0 .. n |-> f[p]]
    BY <1>10
  <2>. QED BY <1>14, <2>1
<1>. QED BY <1>1, <1>11, <1>12, <1>15 DEF CutsLoop

\* The reference cuts, position by position: none before the first window ends.
LEMMA CutsStep ==
    ASSUME NEW d, NEW n \in Nat
    PROVE  /\ CutsBefore(d, n) \in Seq(Nat)
           /\ CutsBefore(d, n + 1) = AddCut(d, CutsBefore(d, n), n)
           /\ n < chunk_num => CutsBefore(d, n) = << >>
<1>1. PICK f : CutsLoop(f, d, n) /\ CutsBefore(d, n) = f[n]
  BY CutsLoops
<1>2. PICK g : CutsLoop(g, d, n + 1) /\ CutsBefore(d, n + 1) = g[n + 1]
  BY CutsLoops
<1>3. n \in 0 .. n /\ n + 1 \in 1 .. n + 1 /\ (n + 1) - 1 = n /\ chunk_num \in Nat
  BY PartitionAssumption
<1>4. g[n] = f[n]
  <2>1. \A p \in 1 .. n : p \in 1 .. n + 1
    OBVIOUS
  <2>2. InStep(g, f, n)
    BY <1>1, <1>2, <2>1 DEF CutsLoop, InStep
  <2>3. Agree(g, f, n)
    BY <2>2, InStepAgree
  <2>. QED BY <1>3, <2>3 DEF Agree
<1>5. g[n + 1] = AddCut(d, f[n], n)
  <2>1. g[n + 1] = AddCut(d, g[(n + 1) - 1], (n + 1) - 1)
    BY <1>2, <1>3 DEF CutsLoop
  <2>. QED BY <1>3, <1>4, <2>1
<1>6. f[n] \in Seq(Nat)
  BY <1>1, <1>3 DEF CutsLoop
<1>7. ASSUME n < chunk_num PROVE f[n] = << >>
  <2>1. PICK w : w = [p \in 0 .. n |-> << >>]
    OBVIOUS
  <2>2. ASSUME NEW p \in 1 .. n, f[p - 1] = w[p - 1] PROVE f[p] = w[p]
    <3>1. p \in 0 .. n /\ p - 1 \in 0 .. n /\ ~(p - 1 >= chunk_num - 1)
      BY <1>3, <1>7
    <3>2. f[p] = f[p - 1]
      BY <1>1, <3>1 DEF CutsLoop, AddCut
    <3>. QED BY <2>1, <2>2, <3>1, <3>2
  <2>3. InStep(f, w, n)
    BY <1>1, <1>3, <2>1, <2>2 DEF CutsLoop, InStep
  <2>4. Agree(f, w, n)
    BY <2>3, InStepAgree
  <2>. QED BY <1>3, <2>1, <2>4 DEF Agree
<1>. QED BY <1>1, <1>2, <1>5, <1>6, <1>7

\* A put into a fifo that keeps what fits.
LEMMA FittingPut ==
    ASSUME NEW c \in Seq(Nat), NEW p \in Nat
    PROVE  FifoPut(Fitting(c), p) = Fitting(Append(c, p))
<1>1. FifoSize \in Nat /\ Len(c) \in Nat /\ Len(Append(c, p)) = Len(c) + 1
  BY PartitionAssumption
<1>2. CASE Len(c) < FifoSize
  <2>1. Fitting(c) = c /\ Fitting(Append(c, p)) = Append(c, p)
    BY <1>1, <1>2 DEF Fitting
  <2>. QED BY <1>1, <1>2, <2>1 DEF FifoPut
<1>3. CASE Len(c) = FifoSize
  <2>1. SubSeq(Append(c, p), 1, FifoSize) = c
    BY <1>1, <1>3
  <2>2. Fitting(c) = c /\ Fitting(Append(c, p)) = c
    BY <1>1, <1>3, <2>1 DEF Fitting
  <2>. QED BY <1>1, <1>3, <2>2 DEF FifoPut
<1>4. CASE Len(c) > FifoSize
  <2>1. SubSeq(Append(c, p), 1, FifoSize) = SubSeq(c, 1, FifoSize)
    BY <1>1, <1>4
  <2>2. Fitting(c) = SubSeq(c, 1, FifoSize) /\ Fitting(Append(c, p)) = SubSeq(c, 1, FifoSize)
    BY <1>1, <1>4, <2>1 DEF Fitting
  <2>3. Len(SubSeq(c, 1, FifoSize)) = FifoSize
    BY <1>1, <1>4
  <2>. QED BY <1>1, <2>2, <2>3 DEF FifoPut
<1>. QED BY <1>1, <1>2, <1>3, <1>4

\* The delay counts down to the next place for a cut, and starts again at one.
LEMMA WaitMoves ==
    ASSUME NEW c \in Seq(Nat), NEW p \in Nat
    PROVE  /\ Wait(c, p) = 0 <=> Far(c, p)
           /\ ~Far(c, p) => Wait(c, p + 1) = Wait(c, p) - 1
           /\ Far(c, p) => Wait(c, p + 1) = 0
           /\ Wait(Append(c, p), p + 1) = Delay
           /\ Wait(<< >>, p) = 0
<1>1. CHUNKSTEP \in Nat \ {0}
  BY PartitionAssumption
<1>2. ASSUME c = << >> PROVE Far(c, p) /\ Wait(c, p) = 0 /\ Wait(c, p + 1) = 0
  BY <1>2 DEF Wait, Far
<1>3. ASSUME c # << >>
      PROVE  /\ Wait(c, p) = 0 <=> Far(c, p)
             /\ ~Far(c, p) => Wait(c, p + 1) = Wait(c, p) - 1
             /\ Far(c, p) => Wait(c, p + 1) = 0
  <2>1. PICK l \in Nat : l = c[Len(c)]
    BY <1>3
  <2>2. /\ Far(c, p) <=> p - l >= CHUNKSTEP
        /\ Far(c, p + 1) <=> (p + 1) - l >= CHUNKSTEP
    BY <1>3, <2>1 DEF Far
  <2>3. /\ Wait(c, p) = IF Far(c, p) THEN 0 ELSE l + CHUNKSTEP - p
        /\ Wait(c, p + 1) = IF Far(c, p + 1) THEN 0 ELSE l + CHUNKSTEP - (p + 1)
    BY <2>1 DEF Wait
  <2>. QED BY <1>1, <2>2, <2>3
<1>4. Wait(Append(c, p), p + 1) = Delay
  <2>1. PICK e : e = Append(c, p)
    OBVIOUS
  <2>2. e # << >> /\ e[Len(e)] = p
    BY <2>1
  <2>3. CASE CHUNKSTEP = 1
    BY <1>1, <2>1, <2>2, <2>3 DEF Wait, Far, Delay, step
  <2>4. CASE CHUNKSTEP # 1
    BY <1>1, <2>1, <2>2, <2>4 DEF Wait, Far, Delay, step
  <2>. QED BY <2>3, <2>4
<1>5. Wait(<< >>, p) = 0
  BY DEF Wait, Far
<1>. QED BY <1>2, <1>3, <1>4, <1>5

\* The cases of a position p, in the loop or at the end of the first window: ff and tt are
\* what becomes of the fifo and the delay.
LEMMA CutMoves ==
    ASSUME NEW d, NEW p \in Nat, p >= chunk_num - 1, NEW ff, NEW tt,
           \/ /\ Wait(CutsBefore(d, p), p) = 0 /\ IsZero(WindowHash(d, p))
              /\ ff = FifoPut(Fitting(CutsBefore(d, p)), p) /\ tt = Delay
           \/ /\ Wait(CutsBefore(d, p), p) = 0 /\ ~IsZero(WindowHash(d, p))
              /\ ff = Fitting(CutsBefore(d, p)) /\ tt = Wait(CutsBefore(d, p), p)
           \/ /\ Wait(CutsBefore(d, p), p) # 0
              /\ ff = Fitting(CutsBefore(d, p)) /\ tt = Wait(CutsBefore(d, p), p) - 1
    PROVE  ff = Fitting(CutsBefore(d, p + 1)) /\ tt = Wait(CutsBefore(d, p + 1), p + 1)
<1>1. PICK c, e : c = CutsBefore(d, p) /\ e = CutsBefore(d, p + 1)
  OBVIOUS
<1>2. c \in Seq(Nat) /\ e = AddCut(d, c, p)
  BY <1>1, CutsStep
<1>3. Wait(c, p) = 0 <=> Far(c, p)
  BY <1>2, WaitMoves
<1>4. CASE Wait(c, p) = 0 /\ IsZero(WindowHash(d, p))
  <2>1. e = Append(c, p)
    BY <1>2, <1>3, <1>4 DEF AddCut, IsZero
  <2>2. ff = FifoPut(Fitting(c), p) /\ tt = Delay
    BY <1>1, <1>4
  <2>3. ff = Fitting(e)
    BY <1>2, <2>1, <2>2, FittingPut
  <2>4. tt = Wait(e, p + 1)
    BY <1>2, <2>1, <2>2, WaitMoves
  <2>. QED BY <1>1, <2>3, <2>4
<1>5. CASE Wait(c, p) = 0 /\ ~IsZero(WindowHash(d, p))
  <2>1. e = c
    BY <1>2, <1>5 DEF AddCut, IsZero
  <2>2. ff = Fitting(c) /\ tt = 0
    BY <1>1, <1>5
  <2>3. Wait(c, p + 1) = 0
    BY <1>2, <1>3, <1>5, WaitMoves
  <2>. QED BY <1>1, <2>1, <2>2, <2>3
<1>6. CASE Wait(c, p) # 0
  <2>1. e = c
    BY <1>2, <1>3, <1>6 DEF AddCut
  <2>2. ff = Fitting(c) /\ tt = Wait(c, p) - 1
    BY <1>1, <1>6
  <2>3. Wait(c, p + 1) = Wait(c, p) - 1
    BY <1>2, <1>3, <1>6, WaitMoves
  <2>. QED BY <1>1, <2>1, <2>2, <2>3
<1>. QED BY <1>4, <1>5, <1>6

LEMMA InitExact == Init => ExactInv
<1>. SUFFICES ASSUME Init PROVE ExactInv
  OBVIOUS
<1>1. MaxLen \in Nat
  BY PartitionAssumption
<1>2. length \in Nat /\ data \in [0 .. length - 1 -> Bytes]
  BY <1>1 DEF Init
<1>3. pc = "start" /\ i = 0 /\ fifo = << >> /\ delay_time = 0
  BY DEF Init
<1>. QED BY <1>2, <1>3 DEF ExactInv, CutsExact, RollingExact

LEMMA ExactStep == ExactInv /\ [Next]_vars => ExactInv'
<1>. SUFFICES ASSUME ExactInv, [Next]_vars PROVE ExactInv'
  OBVIOUS
<1>1. chunk_num \in Nat \ {0}
  BY PartitionAssumption
<1>2. length \in Nat /\ data \in [0 .. length - 1 -> Bytes] /\ i \in Nat
  BY DEF ExactInv
<1>3. data' = data /\ length' = length
  BY DEF Next, Skip, FirstWindow, Scan, ScanEnd, BuildCut, BuildTail, Finished, vars, cutVars
<1>4. CASE FirstWindow
  <2>1. PICK p : p = chunk_num - 1
    OBVIOUS
  <2>2. p \in Nat /\ p >= chunk_num - 1 /\ p < chunk_num /\ p + 1 = chunk_num
    BY <1>1, <2>1
  <2>3. length > chunk_num /\ i' = p + 1 /\ pc' = "scan" /\ txthash' = PackHash(data)
    BY <1>4, <2>2 DEF FirstWindow
  <2>4. txthash' = WindowHash(data, p)
    BY <1>2, <2>1, <2>3, FirstHash
  <2>5. fifo = << >> /\ delay_time = 0
    BY <1>4 DEF FirstWindow, ExactInv
  <2>6. CutsBefore(data, p) = << >>
    BY <2>2, CutsStep
  <2>7. Fitting(<< >>) = << >> /\ Wait(<< >>, p) = 0
    <3>1. FifoSize \in Nat /\ Len(<< >>) = 0
      BY PartitionAssumption
    <3>. QED BY <3>1 DEF Fitting, Wait, Far
  <2>8. \/ IsZero(txthash') /\ fifo' = FifoPut(fifo, p) /\ delay_time' = Delay
        \/ ~IsZero(txthash') /\ fifo' = fifo /\ delay_time' = delay_time
    BY <1>4, <2>1 DEF FirstWindow
  <2>9. /\ fifo' = Fitting(CutsBefore(data, p + 1))
        /\ delay_time' = Wait(CutsBefore(data, p + 1), p + 1)
    <3>1. \/ /\ Wait(CutsBefore(data, p), p) = 0 /\ IsZero(WindowHash(data, p))
             /\ fifo' = FifoPut(Fitting(CutsBefore(data, p)), p) /\ delay_time' = Delay
          \/ /\ Wait(CutsBefore(data, p), p) = 0 /\ ~IsZero(WindowHash(data, p))
             /\ fifo' = Fitting(CutsBefore(data, p))
             /\ delay_time' = Wait(CutsBefore(data, p), p)
      BY <2>4, <2>5, <2>6, <2>7, <2>8
    <3>. QED BY <2>2, <3>1, CutMoves
  <2>10. i' - 1 = p /\ i' \in Nat /\ chunk_num <= i' /\ i' <= length'
    BY <1>1, <1>2, <1>3, <2>2, <2>3
  <2>. QED
    BY <1>2, <1>3, <2>3, <2>4, <2>9, <2>10 DEF ExactInv, CutsExact, RollingExact
<1>5. CASE Scan
  <2>1. pc = "scan" /\ pc' = "scan" /\ i < length /\ i' = i + 1
    BY <1>5 DEF Scan
  <2>2. /\ chunk_num <= i /\ delay_time = Wait(CutsBefore(data, i), i)
        /\ fifo = Fitting(CutsBefore(data, i)) /\ txthash = WindowHash(data, i - 1)
    BY <2>1 DEF ExactInv, CutsExact, RollingExact
  <2>3. PICK p : p = i - 1
    OBVIOUS
  <2>4. /\ p \in chunk_num - 1 .. length - 1 /\ p + 1 = i /\ p + 1 <= length - 1
        /\ i >= chunk_num - 1
    BY <1>1, <1>2, <2>1, <2>2, <2>3
  <2>5. txthash' = WindowHash(data, i)
    <3>1. Roll(WindowHash(data, p), data[p + 1 - chunk_num], data[p + 1]) = WindowHash(data, p + 1)
      BY <1>2, <2>4, RollExact
    <3>2. txthash' = Roll(txthash, data[i - chunk_num], data[i])
      BY <1>5 DEF Scan
    <3>3. p + 1 - chunk_num = i - chunk_num
      BY <1>1, <1>2, <2>3
    <3>. QED BY <2>2, <2>3, <2>4, <3>1, <3>2, <3>3
  <2>6. \/ /\ delay_time = 0 /\ IsZero(txthash')
           /\ fifo' = FifoPut(fifo, i) /\ delay_time' = Delay
        \/ /\ delay_time = 0 /\ ~IsZero(txthash')
           /\ fifo' = fifo /\ delay_time' = delay_time
        \/ delay_time # 0 /\ fifo' = fifo /\ delay_time' = delay_time - 1
    BY <1>5 DEF Scan
  <2>7. /\ fifo' = Fitting(CutsBefore(data, i + 1))
        /\ delay_time' = Wait(CutsBefore(data, i + 1), i + 1)
    <3>1. \/ /\ Wait(CutsBefore(data, i), i) = 0 /\ IsZero(WindowHash(data, i))
             /\ fifo' = FifoPut(Fitting(CutsBefore(data, i)), i) /\ delay_time' = Delay
          \/ /\ Wait(CutsBefore(data, i), i) = 0 /\ ~IsZero(WindowHash(data, i))
             /\ fifo' = Fitting(CutsBefore(data, i))
             /\ delay_time' = Wait(CutsBefore(data, i), i)
          \/ /\ Wait(CutsBefore(data, i), i) # 0
             /\ fifo' = Fitting(CutsBefore(data, i))
             /\ delay_time' = Wait(CutsBefore(data, i), i) - 1
      BY <2>2, <2>5, <2>6
    <3>2. PICK n, ff, tt : n = i /\ ff = fifo' /\ tt = delay_time'
      OBVIOUS
    <3>3. n \in Nat /\ n >= chunk_num - 1
      BY <1>2, <2>4, <3>2
    <3>4. ff = Fitting(CutsBefore(data, n + 1)) /\ tt = Wait(CutsBefore(data, n + 1), n + 1)
      BY <3>1, <3>2, <3>3, CutMoves
    <3>. QED BY <3>2, <3>4
  <2>8. i' - 1 = i /\ i' \in Nat /\ chunk_num <= i' /\ i' <= length'
    BY <1>1, <1>2, <1>3, <2>1, <2>2
  <2>. QED
    BY <1>2, <1>3, <2>1, <2>5, <2>7, <2>8 DEF ExactInv, CutsExact, RollingExact
<1>6. CASE Skip \/ ScanEnd \/ BuildCut \/ BuildTail \/ Finished
  <2>1. pc' \in {"build", "done"} /\ i' = i
    BY <1>6 DEF Skip, ScanEnd, BuildCut, BuildTail, Finished, vars, cutVars
  <2>. QED BY <1>2, <1>3, <2>1 DEF ExactInv, CutsExact, RollingExact
<1>7. CASE UNCHANGED vars
  BY <1>7 DEF vars, cutVars, ExactInv, CutsExact, RollingExact
<1>. QED BY <1>4, <1>5, <1>6, <1>7 DEF Next

\* calculate_partition, for every payload, window, step, modulus and fifo size: the delay
\* is the distance to the next place for a cut, whether or not the kfifo took the last one.
THEOREM ExactInvariant == Spec => []ExactInv
<1>. QED BY InitExact, ExactStep, PTL DEF Spec

\* The rolling hash of calculate_partition is the hash of the current window, for signed
\* bytes and the wrap-around of unsigned long, because Q divides 2^64; the kfifo holds the
\* first of the reference cuts.
THEOREM CutsAreExact == Spec => []CutsExact
<1>1. ExactInv => CutsExact
  BY DEF ExactInv
<1>. QED BY <1>1, ExactInvariant, PTL

-----------------------------------------------------------------------------
(* Types *)

LEMMA TypeInit == Init => TypeOK
<1>. SUFFICES ASSUME Init PROVE TypeOK
  OBVIOUS
<1>1. MaxLen \in Nat /\ CHUNKSTEP \in Nat \ {0}
  BY PartitionAssumption
<1>2. length \in Nat /\ data \in [0 .. length - 1 -> Bytes]
  BY <1>1 DEF Init
<1>. QED BY <1>1, <1>2 DEF Init, TypeOK, step

LEMMA TypeStep ==
    ASSUME TypeOK, PartitionInv, PartitionInv', ExactInv, ExactInv', [Next]_vars
    PROVE  TypeOK'
<1>1. chunk_num \in Nat \ {0} /\ CHUNKSTEP \in Nat \ {0} /\ step \in Nat /\ Delay = step
  BY PartitionAssumption DEF step, Delay
<1>2. data' = data /\ length' = length /\ length \in Nat /\ data \in [0 .. length - 1 -> Bytes]
  BY DEF Next, Skip, FirstWindow, Scan, ScanEnd, BuildCut, BuildTail, Finished, vars, cutVars,
         ExactInv
<1>3. PICK n : n = length
  OBVIOUS
<1>4. PICK B : B = (0 .. n - 1) \X (0 .. n - 1)
  OBVIOUS
<1>5. n \in Nat /\ fifo \in Seq(0 .. n - 1) /\ built \in Seq(B) /\ i \in 0 .. n
        /\ delay_time \in 0 .. step /\ start_pos \in Nat /\ end_pos \in Nat
  BY <1>2, <1>3, <1>4 DEF TypeOK
<1>6. pc' \in {"start", "scan", "build", "done"} /\ fifo_len' \in Nat /\ end_pos' \in Nat
  BY DEF PartitionInv
<1>7. txthash' \in Nat
  <2>1. CASE pc' = "scan"
    <3>1. PICK p : p = i' - 1
      OBVIOUS
    <3>2. p \in chunk_num - 1 .. length - 1 /\ txthash' = WindowHash(data, p)
      BY <1>1, <1>2, <2>1, <3>1 DEF ExactInv, CutsExact, RollingExact
    <3>3. PICK s : WindowSum(s, p) /\ WindowHash(data, p) = s[chunk_num] % Q
      BY <1>2, <3>2, WindowSums
    <3>4. Q \in Nat \ {0} /\ s[chunk_num] \in Int
      BY <1>1, <3>3, HashAssumption DEF WindowSum
    <3>5. s[chunk_num] % Q \in 0 .. Q - 1
      BY <3>4, DivMod
    <3>. QED BY <3>2, <3>3, <3>4, <3>5
  <2>2. CASE pc' # "scan"
    <3>1. txthash' = txthash
      BY <2>2 DEF Next, Skip, FirstWindow, Scan, ScanEnd, BuildCut, BuildTail, Finished, vars,
                  cutVars
    <3>. QED BY <3>1 DEF TypeOK
  <2>. QED BY <2>1, <2>2
<1>8. i' \in 0 .. n /\ delay_time' \in 0 .. step /\ start_pos' \in Nat
  <2>1. CASE FirstWindow
    BY <1>1, <1>2, <1>3, <1>5, <2>1 DEF FirstWindow
  <2>2. CASE Scan
    BY <1>1, <1>2, <1>3, <1>5, <2>2 DEF Scan
  <2>3. CASE BuildCut
    BY <1>5, <2>3 DEF BuildCut, NextStart
  <2>4. CASE BuildTail
    BY <1>5, <2>4 DEF BuildTail, cutVars
  <2>5. CASE Skip \/ ScanEnd \/ Finished \/ UNCHANGED vars
    BY <1>5, <2>5 DEF Skip, ScanEnd, Finished, vars, cutVars
  <2>. QED BY <2>1, <2>2, <2>3, <2>4, <2>5 DEF Next
<1>9. fifo' \in Seq(0 .. n - 1)
  <2>1. PICK S : S = 0 .. n - 1
    OBVIOUS
  <2>2. \A f \in Seq(S), v \in S : FifoPut(f, v) \in Seq(S)
    BY DEF FifoPut
  <2>3. CASE FirstWindow
    <3>1. chunk_num - 1 \in S
      BY <1>1, <1>2, <1>3, <2>1, <2>3 DEF FirstWindow
    <3>. QED BY <1>5, <2>1, <2>2, <2>3, <3>1 DEF FirstWindow
  <2>4. CASE Scan
    <3>1. i \in S
      BY <1>3, <1>5, <2>1, <2>4 DEF Scan
    <3>. QED BY <1>5, <2>1, <2>2, <2>4, <3>1 DEF Scan
  <2>5. CASE BuildCut
    <3>1. fifo' = Tail(fifo) /\ fifo # << >>
      BY <2>5 DEF BuildCut
    <3>. QED BY <1>5, <2>1, <3>1
  <2>6. CASE Skip \/ ScanEnd \/ BuildTail \/ Finished \/ UNCHANGED vars
    BY <1>5, <2>6 DEF Skip, ScanEnd, BuildTail, Finished, vars, cutVars
  <2>. QED BY <2>3, <2>4, <2>5, <2>6 DEF Next
<1>10. built' \in Seq(B)
  <2>1. CASE built' = built
    BY <1>5, <2>1
  <2>2. CASE built' # built
    <3>1. PICK a, b : built' = Append(built, <<a, b>>)
      BY <2>2 DEF Next, Skip, FirstWindow, Scan, ScanEnd, BuildCut, BuildTail, Finished, vars
    <3>2. PICK e : e = <<a, b>>
      OBVIOUS
    <3>3. built' \in Seq(Nat \X Nat) /\ built'[Len(built')] = e /\ Len(built') \in 1 .. Len(built')
      <4>1. built' \in Seq(Nat \X Nat)
        BY DEF PartitionInv
      <4>2. Len(built') = Len(built) + 1 /\ Len(built) \in Nat /\ built'[Len(built) + 1] = e
        BY <1>5, <3>1, <3>2
      <4>. QED BY <4>1, <4>2
    <3>4. e \in Nat \X Nat /\ e[1] = a /\ e[2] = b /\ a <= b
      <4>1. e \in Nat \X Nat
        BY <3>3
      <4>2. e[1] <= e[2]
        BY <3>3 DEF PartitionInv, Tiled
      <4>. QED BY <3>2, <4>1, <4>2
    <3>5. b < n
      <4>1. CASE BuildCut
        <5>1. b = fifo[1] /\ fifo # << >>
          BY <1>5, <3>1, <3>2, <3>3, <4>1 DEF BuildCut
        <5>. QED BY <1>5, <5>1
      <4>2. CASE BuildTail
        BY <1>3, <1>5, <2>2, <3>1, <4>2 DEF BuildTail
      <4>. QED
        BY <2>2, <4>1, <4>2 DEF Next, Skip, FirstWindow, Scan, ScanEnd, Finished, vars
    <3>6. e \in B
      BY <1>4, <1>5, <3>2, <3>4, <3>5
    <3>. QED BY <1>5, <3>1, <3>2, <3>6
  <2>. QED BY <2>1, <2>2
<1>. QED BY <1>2, <1>3, <1>4, <1>6, <1>7, <1>8, <1>9, <1>10 DEF TypeOK

\* The variables of calculate_partition and get_partition keep their types; in particular
\* every cut and both ends of every chunk are positions of the payload.
THEOREM PartitionTypes == Spec => []TypeOK
<1>1. TypeOK /\ PartitionInv /\ PartitionInv' /\ ExactInv /\ ExactInv' /\ [Next]_vars => TypeOK'
  BY TypeStep
<1>. QED BY <1>1, TypeInit, PartitionInvariant, ExactInvariant, PTL DEF Spec
=============================================================================
