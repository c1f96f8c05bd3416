------------------------------ MODULE Partition ------------------------------
(***************************************************************************)
(* Content-defined chunking: pack_hash and calculate_partition             *)
(* (model/kernel_hash/chunk.c), get_partition and build_hash (nf_in.c), on  *)
(* the parameters that init_hash_parameters (main.c) computes.             *)
(*                                                                         *)
(* A window of chunk_num bytes slides over the payload; a position whose   *)
(* window hashes to zero in the low bits is a cut, unless a cut was made    *)
(* less than CHUNKSTEP bytes before.  Cuts go through a kfifo of bounded   *)
(* size; get_partition turns them into chunks.                             *)
(***************************************************************************)
EXTENDS Integers, Sequences

CONSTANTS
    Bytes,       \* values of a (signed) char
    MaxLen,      \* bound on the payload length
    chunk_num,   \* window size
    CHUNKSTEP,
    R, Q,        \* multiplier and modulus of the hash
    zero_num,    \* low bits that must be zero at a cut
    Word,        \* 2^64, the modulus of unsigned long; Q is 2^60
    FifoSize,    \* cuts that fit the kfifo
    SHALEN

ASSUME PartitionAssumption ==
    /\ Bytes \subseteq Int /\ MaxLen \in Nat
    /\ chunk_num \in Nat \ {0} /\ CHUNKSTEP \in Nat \ {0}
    /\ FifoSize \in Nat /\ SHALEN \in Nat
    /\ SHALEN + 2 < chunk_num /\ SHALEN + 2 < CHUNKSTEP
ASSUME HashAssumption ==
    /\ R \in Nat /\ Q \in Nat \ {0} /\ zero_num \in Nat /\ Word \in Nat \ {0}
    /\ Word % Q = 0

VARIABLES
    data, length,       \* the payload, a function on 0 .. length - 1
    pc,
    i, txthash, delay_time, fifo,    \* calculate_partition
    fifo_len, start_pos, end_pos,    \* get_partition
    built                            \* build_hash's calls: <<start, end>>

cutVars == <<i, txthash, delay_time, fifo>>
vars == <<data, length, pc, cutVars, fifo_len, start_pos, end_pos, built>>

-----------------------------------------------------------------------------
(* init_hash_parameters *)

step == CHUNKSTEP - 1

\* RM = R^(chunk_num - 1) mod Q, by its loop; zero_value + 1 = 2^zero_num.
RM ==
    LET pow[n \in 0 .. chunk_num - 1] ==
            IF n = 0 THEN 1 ELSE ((R * pow[n - 1]) % Word) % Q
    IN pow[chunk_num - 1]
ZeroModulus ==
    LET pow[n \in 0 .. zero_num] == IF n = 0 THEN 1 ELSE 2 * pow[n - 1]
    IN pow[zero_num]

\* pack_hash of the first chunk_num bytes, in unsigned long arithmetic.
PackHash(d) ==
    LET h[j \in 0 .. chunk_num] ==
            IF j = 0 THEN 0 ELSE ((R * h[j - 1] + d[j - 1]) % Word) % Q
    IN h[chunk_num]

\* One move of the window: byte out leaves, byte in enters.
Roll(h, out, in) ==
    LET less == (h + Q - (((RM * out) % Word) % Q)) % Q
    IN ((less * R + in) % Word) % Q

IsZero(h) == h % ZeroModulus = 0

\* kfifo_put of one int: a full fifo drops it.
FifoPut_Wraps(f, v) == IF Len(f) < FifoSize THEN Append(f, v) ELSE Append(Tail(f), v)
FifoPut(f, v) == IF Len(f) < FifoSize THEN Append(f, v) ELSE f

-----------------------------------------------------------------------------
(* get_partition: a payload that is not longer than the window has no chunks, and
   neither has one for which the kfifo cannot be allocated. *)

Skip ==
    /\ pc = "start" /\ pc' = "done"
    /\ UNCHANGED <<data, length, cutVars, fifo_len, start_pos, end_pos, built>>

\* Positions after a cut at which there is no cut.
Delay == step

\* calculate_partition up to its loop: the first window.
FirstWindow ==
    /\ pc = "start" /\ length > chunk_num
    /\ txthash' = PackHash(data)
    /\ \/ /\ IsZero(txthash')
          /\ fifo' = FifoPut(fifo, chunk_num - 1)
          /\ delay_time' = Delay
       \/ /\ ~IsZero(txthash')
          /\ UNCHANGED <<fifo, delay_time>>
    /\ i' = chunk_num
    /\ pc' = "scan"
    /\ UNCHANGED <<data, length, fifo_len, start_pos, end_pos, built>>

\* One round of its loop.
Scan ==
    /\ pc = "scan" /\ i < length
    /\ txthash' = Roll(txthash, data[i - chunk_num], data[i])
    /\ \/ /\ delay_time = 0 /\ IsZero(txthash')
          /\ fifo' = FifoPut(fifo, i)
          /\ delay_time' = Delay
       \/ /\ delay_time = 0 /\ ~IsZero(txthash')
          /\ UNCHANGED <<fifo, delay_time>>
       \/ /\ delay_time # 0
          /\ delay_time' = delay_time - 1
          /\ UNCHANGED fifo
    /\ i' = i + 1
    /\ UNCHANGED <<data, length, pc, fifo_len, start_pos, end_pos, built>>

ScanEnd ==
    /\ pc = "scan" /\ i = length
    /\ fifo_len' = Len(fifo)
    /\ pc' = "build"
    /\ UNCHANGED <<data, length, cutVars, start_pos, end_pos, built>>

\* kfifo_get and build_hash for the next cut.
NextStart_Overlaps == IF built = << >> THEN 0 ELSE end_pos
NextStart == IF built = << >> THEN 0 ELSE end_pos + 1

BuildCut ==
    /\ pc = "build" /\ fifo # << >>
    /\ start_pos' = NextStart
    /\ end_pos' = Head(fifo)
    /\ built' = Append(built, <<start_pos', end_pos'>>)
    /\ fifo' = Tail(fifo)
    /\ UNCHANGED <<data, length, pc, i, txthash, delay_time, fifo_len>>

\* The rest of the payload after the last cut, or all of it.
TailLeft == end_pos # length - 1

BuildTail ==
    /\ pc = "build" /\ fifo = << >>
    /\ \/ /\ fifo_len > 0 /\ TailLeft
          /\ start_pos' = end_pos + 1
          /\ end_pos' = length - 1
          /\ built' = Append(built, <<start_pos', end_pos'>>)
       \/ /\ fifo_len > 0 /\ ~TailLeft
          /\ UNCHANGED <<start_pos, end_pos, built>>
       \/ /\ fifo_len = 0
          /\ start_pos' = 0
          /\ end_pos' = length - 1
          /\ built' = Append(built, <<start_pos', end_pos'>>)
    /\ pc' = "done"
    /\ UNCHANGED <<data, length, cutVars, fifo_len>>

\* build_hash stores a chunk only if it is longer than its hash and two bytes more.
Stored(ch) == ch[2] - ch[1] + 1 > SHALEN + 2

Finished == pc = "done" /\ UNCHANGED vars

-----------------------------------------------------------------------------
Init ==
    /\ length \in 0 .. MaxLen /\ data \in [0 .. length - 1 -> Bytes]
    /\ pc = "start"
    /\ i = 0 /\ txthash = 0 /\ delay_time = 0 /\ fifo = << >>
    /\ fifo_len = 0 /\ start_pos = 0 /\ end_pos = 0 /\ built = << >>

Next ==
    \/ Skip \/ FirstWindow \/ Scan \/ ScanEnd \/ BuildCut \/ BuildTail
    \/ Finished

Spec == Init /\ [][Next]_vars

-----------------------------------------------------------------------------
(* Properties *)

\* Every variable keeps its type.
TypeOK ==
    /\ length \in Nat /\ data \in [0 .. length - 1 -> Bytes]
    /\ pc \in {"start", "scan", "build", "done"}
    /\ i \in 0 .. length /\ txthash \in Nat /\ delay_time \in 0 .. step
    /\ fifo \in Seq(0 .. length - 1) /\ fifo_len \in Nat
    /\ start_pos \in Nat /\ end_pos \in Nat
    /\ built \in Seq((0 .. length - 1) \X (0 .. length - 1))

\* Reference: the hash of the window of d that ends at position p, as a polynomial in R.
Power[n \in 0 .. chunk_num] == IF n = 0 THEN 1 ELSE R * Power[n - 1]
WindowHash(d, p) ==
    LET sum[n \in 0 .. chunk_num] ==
            IF n = 0 THEN 0 ELSE sum[n - 1] + Power[n - 1] * d[p - (n - 1)]
    IN sum[chunk_num] % Q

RollingExact == pc = "scan" => txthash = WindowHash(data, i - 1)

\* Reference: the cuts among the first n positions of d, each the first candidate that is
\* CHUNKSTEP or more after the previous cut.
Far(c, p) == c = << >> \/ p - c[Len(c)] >= CHUNKSTEP
AddCut(d, c, p) ==
    IF p >= chunk_num - 1 /\ Far(c, p) /\ WindowHash(d, p) % ZeroModulus = 0
    THEN Append(c, p) ELSE c
CutsBefore(d, n) ==
    LET cuts[p \in 0 .. n] == IF p = 0 THEN << >> ELSE AddCut(d, cuts[p - 1], p - 1)
    IN cuts[n]

\* What a fifo keeps of a sequence of cuts.
Fitting(c) == IF Len(c) <= FifoSize THEN c ELSE SubSeq(c, 1, FifoSize)

\* The rolling update computes the hash of the current window, in spite of signed
\* characters and of the wrap-around of unsigned long, and the fifo holds the reference
\* cuts, or as many of the first ones as fit.
CutsExact ==
    /\ RollingExact
    /\ pc = "scan" => fifo = Fitting(CutsBefore(data, i))

\* The delay that runs at position p: the distance to the next place for a cut.
Wait(c, p) == IF Far(c, p) THEN 0 ELSE c[Len(c)] + CHUNKSTEP - p

\* The inductive invariant behind CutsExact: the delay is what separates the position from
\* the last reference cut, so that it also counts for cuts that the fifo dropped.
ExactInv ==
    /\ length \in Nat /\ data \in [0 .. length - 1 -> Bytes] /\ i \in Nat
    /\ pc = "start" => fifo = << >> /\ delay_time = 0
    /\ pc = "scan" => /\ chunk_num <= i /\ i <= length
                      /\ delay_time = Wait(CutsBefore(data, i), i)
    /\ CutsExact

\* Every chunk starts where the one before ended, the first at the start of the payload;
\* in the end the chunks cover it to the last byte, even when cuts were dropped.  Every
\* chunk goes to the store but the last, which may be too short: the window and the step
\* keep the cuts further apart than build_hash's limit.
Tiled ==
    /\ \A k \in 1 .. Len(built) :
        /\ built[k][1] = (IF k = 1 THEN 0 ELSE built[k - 1][2] + 1)
        /\ built[k][1] <= built[k][2]
        /\ k < Len(built) => Stored(built[k])
    /\ pc = "done" /\ built # << >> => built[Len(built)][2] = length - 1

\* The inductive invariant behind Tiled.

\* Cuts lie CHUNKSTEP or more apart, the first at the end of a window or later; while a
\* delay runs the next one is further away still.
CutsInv ==
    /\ \A k \in 1 .. Len(fifo) - 1 : fifo[k] + CHUNKSTEP <= fifo[k + 1]
    /\ pc \in {"scan", "build"} =>
        /\ length > chunk_num
        /\ \A k \in 1 .. Len(fifo) : chunk_num - 1 <= fifo[k] /\ fifo[k] < length
    /\ pc = "scan" =>
        /\ chunk_num <= i /\ i <= length
        /\ \A k \in 1 .. Len(fifo) : fifo[k] < i /\ fifo[k] + CHUNKSTEP <= i + delay_time

\* The chunks built so far end where end_pos says, and the cuts still in the fifo follow.
BuiltInv ==
    /\ pc \in {"start", "scan"} => built = << >> /\ (pc = "start" => fifo = << >>)
    /\ pc = "build" /\ built = << >> => fifo_len = Len(fifo)
    /\ pc = "build" /\ built # << >> =>
        /\ fifo_len > 0 /\ end_pos = built[Len(built)][2] /\ end_pos < length
        /\ fifo # << >> => end_pos + CHUNKSTEP <= fifo[1]
    /\ pc = "build" => \A k \in 1 .. Len(built) : Stored(built[k])

PartitionInv ==
    /\ length \in Nat /\ i \in Nat /\ delay_time \in Nat
    /\ pc \in {"start", "scan", "build", "done"}
    /\ fifo \in Seq(Nat) /\ fifo_len \in Nat /\ end_pos \in Nat
    /\ built \in Seq(Nat \X Nat)
    /\ CutsInv /\ BuiltInv /\ Tiled
=============================================================================
