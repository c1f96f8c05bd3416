--------------------------- MODULE NetlinkProofs ---------------------------
(***************************************************************************)
(* Proofs about Netlink: what send_kernel.c logs is what lx_kernel.c sent  *)
(* to the client that forwards it, and the client gives up its handshake   *)
(* only after a reply was lost.                                            *)
(***************************************************************************)
EXTENDS Netlink, ProofLib

(* The pieces of messages *)

LEMMA PiecesOfType ==
    ASSUME NEW m \in Nat
    PROVE  PiecesOf(m) \in Seq(Piece)
<1>1. <<m, 1>> \in Piece /\ <<m, 2>> \in Piece
  BY DEF Piece
<1>. QED BY <1>1 DEF PiecesOf

\* Pieces runs a loop over its messages.
LEMMA PiecesLoop ==
    ASSUME NEW s \in Seq(Nat)
    PROVE  \E w \in [0 .. Len(s) -> Seq(Piece)] :
             /\ w[0] = << >> /\ \A k \in 1 .. Len(s) : w[k] = w[k - 1] \o PiecesOf(s[k])
             /\ Pieces(s) = w[Len(s)]
<1>1. PICK n \in Nat : n = Len(s)
  OBVIOUS
<1>2. PICK R : R = Seq(Piece)
  OBVIOUS
<1>3. PICK turn : turn = [k \in 1 .. n |-> [r \in R |-> r \o PiecesOf(s[k])]]
  OBVIOUS
<1>4. turn \in [1 .. n -> [R -> R]]
  <2>1. ASSUME NEW k \in 1 .. n, NEW r \in R PROVE r \o PiecesOf(s[k]) \in R
    <3>1. PiecesOf(s[k]) \in Seq(Piece)
      BY <1>1, PiecesOfType
    <3>. QED BY <1>2, <3>1, ConcatProperties
  <2>. QED BY <1>3, <2>1
<1>5. << >> \in R
  BY <1>2
<1>6. PICK w \in [0 .. n -> R] : IsLoop(w, n, << >>, turn)
  BY <1>4, <1>5, LoopExists
<1>7. \A k \in 1 .. n : w[k] = w[k - 1] \o PiecesOf(s[k])
  <2>. TAKE k \in 1 .. n
  <2>1. w[k - 1] \in R
    OBVIOUS
  <2>2. w[k] = turn[k][w[k - 1]]
    BY <1>6 DEF IsLoop
  <2>. QED BY <2>1, <2>2, <1>3
<1>8. w[0] = << >>
  BY <1>6 DEF IsLoop
<1>. DEFINE Body(f) == [k \in 0 .. Len(s) |-> IF k = 0 THEN << >> ELSE f[k - 1] \o PiecesOf(s[k])]
<1>9. w = Body(w)
  <2>1. ASSUME NEW k \in 0 .. n, k # 0 PROVE w[k] = w[k - 1] \o PiecesOf(s[k])
    <3>1. k \in 1 .. n
      BY <2>1
    <3>. QED BY <3>1, <1>7
  <2>. QED BY <1>1, <1>8, <2>1
<1>10. PICK run : run = CHOOSE f : f = Body(f)
  OBVIOUS
<1>11. run = Body(run)
  BY <1>9, <1>10
<1>12. run[0] = w[0]
  BY <1>8, <1>11, <1>1
<1>13. ASSUME NEW k \in 1 .. n, run[k - 1] = w[k - 1] PROVE run[k] = w[k]
  <2>1. run[k] = run[k - 1] \o PiecesOf(s[k])
    <3>1. k \in 0 .. Len(s) /\ k # 0
      BY <1>1
    <3>. QED BY <1>11, <3>1
  <2>. QED BY <2>1, <1>7, <1>13
<1>14. run[n] = w[n]
  <2>1. InStep(run, w, n)
    BY <1>12, <1>13 DEF InStep
  <2>. QED BY <2>1, InStepAgree DEF Agree
<1>15. Pieces(s) = run[Len(s)]
  BY <1>10 DEF Pieces
<1>. QED BY <1>1, <1>2, <1>7, <1>8, <1>14, <1>15

LEMMA PiecesType ==
    ASSUME NEW s \in Seq(Nat)
    PROVE  Pieces(s) \in Seq(Piece)
<1>1. Len(s) \in 0 .. Len(s)
  OBVIOUS
<1>. QED BY <1>1, PiecesLoop

LEMMA PiecesEmpty == Pieces(<< >>) = << >>
<1>1. << >> \in Seq(Nat) /\ Len(<< >>) = 0
  OBVIOUS
<1>. QED BY <1>1, PiecesLoop

LEMMA PiecesAppend ==
    ASSUME NEW s \in Seq(Nat), NEW m \in Nat
    PROVE  Pieces(s \o <<m>>) = Pieces(s) \o PiecesOf(m)
<1>1. PICK t : t = s \o <<m>>
  OBVIOUS
<1>2. PICK n \in Nat : n = Len(s)
  OBVIOUS
<1>3. /\ t \in Seq(Nat) /\ Len(t) = n + 1
      /\ t[n + 1] = m /\ \A k \in 1 .. n : t[k] = s[k]
  <2>1. <<m>> \in Seq(Nat) /\ Len(<<m>>) = 1 /\ <<m>>[1] = m
    OBVIOUS
  <2>. QED BY <1>1, <1>2, <2>1
<1>4. PICK v \in [0 .. n -> Seq(Piece)] :
        /\ v[0] = << >> /\ \A k \in 1 .. n : v[k] = v[k - 1] \o PiecesOf(s[k])
        /\ Pieces(s) = v[n]
  BY <1>2, PiecesLoop
<1>5. PICK w \in [0 .. n + 1 -> Seq(Piece)] :
        /\ w[0] = << >> /\ \A k \in 1 .. n + 1 : w[k] = w[k - 1] \o PiecesOf(t[k])
        /\ Pieces(t) = w[n + 1]
  BY <1>3, PiecesLoop
<1>6. ASSUME NEW k \in 1 .. n, v[k - 1] = w[k - 1] PROVE v[k] = w[k]
  <2>1. k \in 1 .. n + 1
    OBVIOUS
  <2>. QED BY <2>1, <1>3, <1>4, <1>5, <1>6
<1>7. v[0] = w[0]
  BY <1>4, <1>5
<1>8. \A k \in 0 .. n : v[k] = w[k]
  <2>1. InStep(v, w, n)
    BY <1>6, <1>7 DEF InStep
  <2>2. Agree(v, w, n)
    BY <2>1, InStepAgree
  <2>. QED BY <2>2 DEF Agree
<1>9. w[n + 1] = w[n] \o PiecesOf(t[n + 1])
  <2>1. n + 1 \in 1 .. n + 1 /\ (n + 1) - 1 = n
    OBVIOUS
  <2>2. PICK j \in 1 .. n + 1 : j = n + 1 /\ j - 1 = n
    BY <2>1
  <2>3. w[j] = w[j - 1] \o PiecesOf(t[j])
    BY <1>5
  <2>. QED BY <2>2, <2>3
<1>10. w[n] = v[n] /\ t[n + 1] = m
  BY <1>3, <1>8
<1>. QED BY <1>1, <1>4, <1>5, <1>9, <1>10

-----------------------------------------------------------------------------
(* Prefixes *)

LEMMA PrefixConcat ==
    ASSUME NEW S, NEW s \in Seq(S), NEW t \in Seq(S)
    PROVE  IsPrefix(s, s \o t)
<1>1. Len(s) \in Nat /\ Len(t) \in Nat /\ Len(s \o t) = Len(s) + Len(t)
  BY ConcatProperties
<1>2. SubSeq(s \o t, 1, Len(s)) = SubSeq(s, 1, Len(s))
  <2>1. CASE Len(s) = 0
    BY <2>1, SubSeqEmpty
  <2>2. CASE Len(s) # 0
    BY <1>1, <2>2, SubSeqOfConcat1
  <2>. QED BY <2>1, <2>2
<1>. QED BY <1>1, <1>2 DEF IsPrefix

LEMMA PrefixExtend ==
    ASSUME NEW S, NEW s \in Seq(S), NEW t \in Seq(S), NEW u \in Seq(S), IsPrefix(s, t)
    PROVE  IsPrefix(s, t \o u)
<1>1. /\ Len(s) \in Nat /\ Len(t) \in Nat /\ Len(u) \in Nat /\ Len(t \o u) = Len(t) + Len(u)
      /\ Len(s) <= Len(t)
  BY ConcatProperties DEF IsPrefix
<1>2. SubSeq(t \o u, 1, Len(s)) = SubSeq(t, 1, Len(s))
  <2>1. CASE Len(s) = 0
    BY <2>1, SubSeqEmpty
  <2>2. CASE Len(s) # 0
    BY <1>1, <2>2, SubSeqOfConcat1
  <2>. QED BY <2>1, <2>2
<1>. QED BY <1>1, <1>2 DEF IsPrefix

\* A buffer is its first n elements and the rest.
LEMMA SplitAt ==
    ASSUME NEW S, NEW s \in Seq(S), NEW n \in 0 .. Len(s)
    PROVE  /\ SubSeq(s, 1, n) \in Seq(S) /\ SubSeq(s, n + 1, Len(s)) \in Seq(S)
           /\ SubSeq(s, 1, n) \o SubSeq(s, n + 1, Len(s)) = s
<1>1. /\ Len(s) \in Nat /\ n \in Int /\ 1 \in 1 .. Len(s) + 1 /\ n \in (1 - 1) .. Len(s)
      /\ Len(s) \in n .. Len(s)
  OBVIOUS
<1>2. SubSeq(s, 1, n) \o SubSeq(s, n + 1, Len(s)) = SubSeq(s, 1, Len(s))
  BY <1>1, ConcatAdjacentSubSeq
<1>3. SubSeq(s, 1, Len(s)) = s
  BY SubSeqFull
<1>4. SubSeq(s, 1, n) \in Seq(S)
  BY <1>1, SubSeqProperties
<1>5. SubSeq(s, n + 1, Len(s)) \in Seq(S)
  BY <1>1, SubSeqProperties
<1>. QED BY <1>2, <1>3, <1>4, <1>5

-----------------------------------------------------------------------------
(* The messages of lx_kernel.c and what of them the client has written *)

NetInv == HandshakeInv /\ StreamInv

\* The variables each half of the invariant speaks of.
hvars == <<sent, taken, count, lost, ticks, handler, cpc, pid, overrun, gen, rloaded>>
tvars == <<sent, taken, shook, edge, overrun, cpc, conn, reading, gen, passed, dropped, log, inbuf, wire>>

LEMMA HandshakeSame == HandshakeInv /\ UNCHANGED hvars => HandshakeInv'
BY DEF HandshakeInv, hvars, EarlyReply, Full, GivesUpAfterLoss

LEMMA StreamSame == StreamInv /\ UNCHANGED tvars => StreamInv'
BY DEF StreamInv, Carried, tvars, Written

LEMMA CarriedSame ==
    Carried /\ Written' = Written /\ UNCHANGED <<conn, gen, passed, dropped, log, inbuf, wire>> => Carried'
BY DEF Carried

\* A message that waits is the next one to be taken.
LEMMA QueueHead ==
    ASSUME NEW s \in Seq(Nat), NEW n \in Nat, n <= Len(s)
    PROVE  /\ SubSeq(s, n + 1, Len(s)) # << >> <=> n < Len(s)
           /\ n < Len(s) => Head(SubSeq(s, n + 1, Len(s))) = s[n + 1]
<1>1. CASE n = Len(s)
  <2>1. SubSeq(s, n + 1, Len(s)) = << >>
    BY <1>1, SubSeqEmpty
  <2>2. ~(n < Len(s))
    BY <1>1
  <2>. QED BY <2>1, <2>2
<1>2. CASE n < Len(s)
  <2>1. n + 1 \in 1 .. Len(s) /\ Len(s) \in n + 1 .. Len(s)
    BY <1>2
  <2>2. Head(SubSeq(s, n + 1, Len(s))) = s[n + 1]
    BY <2>1, HeadTailOfSubSeq
  <2>3. SubSeq(s, n + 1, Len(s)) # << >>
    <3>1. \A i \in n + 1 .. Len(s) : s[i] \in Nat
      OBVIOUS
    <3>2. Len(SubSeq(s, n + 1, Len(s))) = Len(s) - n
      BY <1>2, <3>1, SubSeqProperties
    <3>3. Len(<< >>) = 0 /\ Len(s) - n # 0
      BY <1>2
    <3>. QED BY <3>2, <3>3
  <2>. QED BY <1>2, <2>2, <2>3
<1>. QED BY <1>1, <1>2

\* The messages that wait, counted.
LEMMA QueueLen ==
    ASSUME HandshakeInv
    PROVE  Len(Queue) < MaxQueue <=> ~Full
<1>1. sent \in Seq(Nat) /\ Len(sent) \in Nat /\ taken \in Nat /\ taken <= Len(sent)
  BY DEF HandshakeInv
<1>2. \A i \in taken + 1 .. Len(sent) : sent[i] \in Nat
  BY <1>1
<1>3. Len(Queue) = Len(sent) - taken
  <2>1. CASE taken = Len(sent)
    <3>1. Queue = << >>
      BY <1>1, <2>1, SubSeqEmpty DEF Queue
    <3>. QED BY <1>1, <2>1, <3>1
  <2>2. CASE taken < Len(sent)
    <3>1. PICK q : q = SubSeq(sent, taken + 1, Len(sent))
      OBVIOUS
    <3>2. Len(q) = Len(sent) - taken
      BY <1>1, <1>2, <2>2, <3>1, SubSeqProperties
    <3>. QED BY <3>1, <3>2 DEF Queue
  <2>. QED BY <1>1, <2>1, <2>2
<1>. QED BY <1>1, <1>3, NetlinkAssumption DEF Full

\* A message sent later does not change what was taken.
LEMMA SentLater ==
    ASSUME NEW s \in Seq(Nat), NEW m \in Nat, NEW a \in Nat, NEW b \in Nat, b <= Len(s)
    PROVE  SubSeq(Append(s, m), a + 1, b) = SubSeq(s, a + 1, b)
<1>1. Append(s, m) = s \o <<m>> /\ <<m>> \in Seq(Nat)
  BY AppendIsConcat
<1>2. CASE b < a + 1
  BY <1>2, SubSeqEmpty
<1>3. CASE a + 1 <= b
  BY <1>1, <1>3, SubSeqOfConcat1
<1>. QED BY <1>2, <1>3

\* What is taken next comes last.
LEMMA TakenNext ==
    ASSUME NEW s \in Seq(Nat), NEW a \in Nat, NEW b \in Nat, a <= b, b < Len(s)
    PROVE  /\ SubSeq(s, a + 1, b) \in Seq(Nat)
           /\ Pieces(SubSeq(s, a + 1, b + 1)) = Pieces(SubSeq(s, a + 1, b)) \o PiecesOf(s[b + 1])
           /\ s[b + 1] \in Nat
<1>1. a + 1 \in 1 .. Len(s) /\ b + 1 \in a + 1 .. Len(s) /\ (b + 1) - 1 = b /\ s[b + 1] \in Nat
  OBVIOUS
<1>2. SubSeq(s, a + 1, b + 1) = SubSeq(s, a + 1, (b + 1) - 1) \o <<s[b + 1]>>
  BY <1>1, SubSeqRecursiveSecond
<1>3. SubSeq(s, a + 1, b) \in Seq(Nat)
  <2>1. \A i \in a + 1 .. b : s[i] \in Nat
    OBVIOUS
  <2>. QED BY <2>1, SubSeqProperties
<1>. QED BY <1>1, <1>2, <1>3, PiecesAppend

\* Nothing is written while the handshake takes what it reads.
LEMMA NothingWritten ==
    ASSUME NEW s, NEW a \in Nat
    PROVE  Pieces(SubSeq(s, a + 1, a)) = << >>
<1>1. SubSeq(s, a + 1, a) = << >>
  BY SubSeqEmpty
<1>. QED BY <1>1, PiecesEmpty

LEMMA WrittenType ==
    ASSUME HandshakeInv, StreamInv
    PROVE  Written \in Seq(Piece)
<1>1. sent \in Seq(Nat) /\ shook \in Nat /\ taken \in Nat /\ taken <= Len(sent)
  BY DEF HandshakeInv, StreamInv
<1>2. SubSeq(sent, shook + 1, taken) \in Seq(Nat)
  <2>1. \A i \in shook + 1 .. taken : sent[i] \in Nat
    BY <1>1
  <2>. QED BY <1>1, <2>1, SubSeqProperties
<1>. QED BY <1>2, PiecesType DEF Written

-----------------------------------------------------------------------------
(* The handshake *)

\* One message more in the client's socket, from send_message or data_reply.
LEMMA UnicastStep ==
    ASSUME HandshakeInv, NEW m \in Nat, Unicast(m)
    PROVE  \/ sent' = sent /\ overrun' \in BOOLEAN /\ (overrun' => Full)
           \/ /\ sent' = Append(sent, m) /\ ~Full /\ overrun' = FALSE
              /\ sent' \in Seq(Nat) /\ Len(sent') = Len(sent) + 1 /\ sent'[Len(sent) + 1] = m
              /\ \A i \in 1 .. Len(sent) : sent'[i] = sent[i]
<1>1. sent \in Seq(Nat) /\ overrun \in BOOLEAN /\ (overrun => Full)
  BY DEF HandshakeInv
<1>2. /\ Append(sent, m) \in Seq(Nat) /\ Len(Append(sent, m)) = Len(sent) + 1
      /\ Append(sent, m)[Len(sent) + 1] = m
      /\ \A i \in 1 .. Len(sent) : Append(sent, m)[i] = sent[i]
  BY <1>1, AppendProperties
<1>3. \/ UNCHANGED <<sent, overrun>>
      \/ ~Full /\ sent' = Append(sent, m) /\ overrun' = overrun
      \/ Full /\ overrun' = TRUE /\ sent' = sent
  BY QueueLen DEF Unicast, socket
<1>. QED BY <1>1, <1>2, <1>3

LEMMA HandshakeTimer ==
    ASSUME NetInv, send_message
    PROVE  HandshakeInv'
<1>. USE DEF NetInv
<1>1. CASE pid = 1 \/ UNCHANGED <<ticks, socket, handler>>
  <2>1. UNCHANGED <<taken, count, cpc, pid, lost, gen, rloaded>>
    BY DEF send_message, cvars
  <2>2. UNCHANGED <<ticks, sent, overrun, handler>>
    BY <1>1 DEF send_message, socket
  <2>. QED BY <2>1, <2>2, HandshakeSame DEF hvars
<1>2. CASE pid # 1 /\ ~UNCHANGED <<ticks, socket, handler>>
  <2>1. /\ ticks' = ticks + 1 /\ Unicast(ticks')
        /\ handler' = (IF handler = "reply" THEN "ticked" ELSE handler) /\ handler # "ticked"
        /\ UNCHANGED <<taken, count, cpc, pid, lost, gen, rloaded>>
    BY <1>2 DEF send_message, cvars
  <2>2. ticks \in Nat /\ ticks' \in Nat
    BY <2>1 DEF HandshakeInv
  <2>3. \/ sent' = sent /\ overrun' \in BOOLEAN /\ (overrun' => Full)
        \/ /\ sent' \in Seq(Nat) /\ Len(sent') = Len(sent) + 1 /\ overrun' = FALSE
           /\ \A i \in 1 .. Len(sent) : sent'[i] = sent[i]
    BY <2>1, <2>2, UnicastStep
  <2>4. sent \in Seq(Nat) /\ Len(sent) \in Nat /\ taken \in Nat /\ taken <= Len(sent)
    BY DEF HandshakeInv
  <2>5. sent' \in Seq(Nat) /\ Len(sent') \in Nat /\ taken' <= Len(sent')
        /\ Len(sent) <= Len(sent') /\ \A i \in 1 .. Len(sent) : sent'[i] = sent[i]
    BY <2>1, <2>3, <2>4
  <2>6. EarlyReply => EarlyReply'
    BY <2>4, <2>5 DEF EarlyReply
  <2>7. (\A k \in 1 .. taken : sent[k] # Reply) => \A k \in 1 .. taken : sent'[k] # Reply
    <3>1. \A k \in 1 .. taken : k \in 1 .. Len(sent)
      BY <2>4
    <3>. QED BY <3>1, <2>5
  <2>8. sent = << >> => Len(sent') <= 1
    <3>. SUFFICES ASSUME sent = << >> PROVE Len(sent') <= 1
      OBVIOUS
    <3>1. Len(sent) = 0
      OBVIOUS
    <3>2. PICK n \in Nat : n = Len(sent')
      BY <2>5
    <3>3. n = Len(sent) \/ n = Len(sent) + 1
      BY <2>3, <3>2
    <3>. QED BY <3>1, <3>2, <3>3
  <2>9. (Full => Full') /\ overrun' \in BOOLEAN /\ (overrun' => Full')
    <3>1. Full => Full'
      BY <2>1, <2>4, <2>5, NetlinkAssumption DEF Full
    <3>. QED BY <2>3, <3>1
  <2>. QED BY <1>2, <2>1, <2>2, <2>5, <2>6, <2>7, <2>8, <2>9 DEF HandshakeInv, GivesUpAfterLoss
<1>. QED BY <1>1, <1>2

LEMMA HandshakeReply ==
    ASSUME NetInv, data_reply
    PROVE  HandshakeInv'
<1>. USE DEF NetInv
<1>1. /\ handler # "idle" /\ handler' = "idle" /\ cpc' = "wait"
      /\ UNCHANGED <<taken, count, pid, ticks, gen, rloaded>>
  BY DEF data_reply
<1>2. /\ sent \in Seq(Nat) /\ Len(sent) \in Nat /\ taken \in Nat /\ taken <= Len(sent)
      /\ lost \in Nat /\ cpc = "sending" /\ pid # 1
  BY <1>1 DEF HandshakeInv
<1>3. CASE sent' = sent /\ lost' = lost + 1
  <2>1. overrun' \in BOOLEAN /\ (overrun' => Full')
    <3>1. Full' = Full
      BY <1>1, <1>3 DEF Full
    <3>2. CASE UNCHANGED socket
      BY <3>1, <3>2 DEF HandshakeInv, socket
    <3>3. CASE ~UNCHANGED socket
      <4>1. Unicast(Reply) /\ Reply \in Nat
        BY <3>3 DEF data_reply, Reply
      <4>2. Append(sent, Reply) # sent
        BY <1>2, <4>1
      <4>. QED BY <1>3, <3>1, <4>1, <4>2, UnicastStep
    <3>. QED BY <3>2, <3>3
  <2>. QED BY <1>1, <1>2, <1>3, <2>1 DEF HandshakeInv, GivesUpAfterLoss
<1>4. CASE ~(sent' = sent /\ lost' = lost + 1)
  <2>1. Unicast(Reply) /\ lost' = lost /\ sent' # sent
    BY <1>2, <1>4 DEF data_reply, socket
  <2>2. Reply \in Nat
    BY DEF Reply
  <2>3. /\ ~Full /\ overrun' = FALSE
        /\ sent' \in Seq(Nat) /\ Len(sent') = Len(sent) + 1 /\ sent'[Len(sent) + 1] = Reply
        /\ \A i \in 1 .. Len(sent) : sent'[i] = sent[i]
    BY <2>1, <2>2, UnicastStep
  <2>4. EarlyReply => EarlyReply'
    BY <1>2, <2>3 DEF EarlyReply
  <2>5. Len(sent) <= 1 => EarlyReply'
    <3>1. Len(sent) <= 1 => Len(sent) + 1 \in {1, 2}
      BY <1>2
    <3>. QED BY <3>1, <1>2, <2>3 DEF EarlyReply
  <2>6. sent = << >> => Len(sent) <= 1
    OBVIOUS
  <2>7. lost' = 0 => EarlyReply'
    BY <1>1, <1>2, <2>1, <2>4, <2>5, <2>6 DEF HandshakeInv
  <2>8. (\A k \in 1 .. taken : sent[k] # Reply) => \A k \in 1 .. taken : sent'[k] # Reply
    <3>1. \A k \in 1 .. taken : k \in 1 .. Len(sent)
      BY <1>2
    <3>. QED BY <3>1, <2>3
  <2>9. overrun' \in BOOLEAN /\ (overrun' => Full')
    BY <2>3
  <2>10. lost' = 0 => count' = taken'
    BY <1>1, <1>2, <2>1, <2>3 DEF HandshakeInv
  <2>11. taken' <= Len(sent')
    BY <1>1, <1>2, <2>3
  <2>. QED BY <1>1, <1>2, <2>1, <2>3, <2>7, <2>8, <2>9, <2>10, <2>11 DEF HandshakeInv, GivesUpAfterLoss
<1>. QED BY <1>3, <1>4

LEMMA HandshakeAsk ==
    ASSUME NetInv, ClientAsk
    PROVE  HandshakeInv'
<1>. USE DEF NetInv
<1>1. /\ cpc = "ask" /\ handler = "idle"
      /\ UNCHANGED <<sent, taken, count, ticks, overrun, gen, rloaded>>
  BY DEF ClientAsk, socket, HandshakeInv
<1>2. EarlyReply' = EarlyReply /\ Full' = Full
  BY <1>1 DEF EarlyReply, Full
<1>3. CASE rloaded /\ data_ready(ClientType[gen]) /\ lost' = lost
  <2>1. CASE gen = "old"
    <3>1. pid' = 2 /\ handler' = "reply" /\ cpc' = "sending"
      BY <1>3, <2>1 DEF data_ready, ClientType, PING_PONG_TYPE
    <3>. QED BY <1>1, <1>2, <1>3, <2>1, <3>1 DEF HandshakeInv, GivesUpAfterLoss
  <2>2. CASE gen = "new"
    <3>1. cpc' = "wait" /\ UNCHANGED <<pid, handler>> /\ pid = 1
      BY <1>3, <2>2 DEF data_ready, ClientType, PING_PONG_TYPE, HandshakeInv
    <3>. QED BY <1>1, <1>2, <1>3, <3>1 DEF HandshakeInv, GivesUpAfterLoss
  <2>. QED BY <2>1, <2>2 DEF HandshakeInv
<1>4. CASE /\ cpc' = "wait" /\ UNCHANGED <<pid, handler>>
           /\ lost' = lost + 1 \/ (~rloaded /\ lost' = lost)
  <2>1. lost \in Nat /\ lost' \in Nat /\ (lost' = 0 => lost = 0 /\ ~rloaded)
    BY <1>4 DEF HandshakeInv
  <2>. QED BY <1>1, <1>2, <1>4, <2>1 DEF HandshakeInv, GivesUpAfterLoss
<1>. QED BY <1>3, <1>4 DEF ClientAsk

LEMMA HandshakeCheck ==
    ASSUME NetInv, ClientCheck
    PROVE  HandshakeInv'
<1>. USE DEF NetInv
<1>1. /\ cpc = "wait" /\ overrun' = FALSE
      /\ UNCHANGED <<sent, lost, ticks, pid, handler, gen, rloaded>>
  BY DEF ClientCheck, kvars, counters
<1>2. /\ sent \in Seq(Nat) /\ Len(sent) \in Nat /\ taken \in Nat /\ taken <= Len(sent)
      /\ lost \in Nat /\ (lost = 0 => count = taken) /\ count \in Nat
      /\ handler = "idle" /\ \A k \in 1 .. taken : sent[k] # Reply
  BY <1>1 DEF HandshakeInv
<1>3. EarlyReply' = EarlyReply
  BY <1>1 DEF EarlyReply
\* Two attempts have read two messages, one of which was a reply.
<1>4. lost = 0 => taken < 2
  <2>. SUFFICES ASSUME lost = 0, taken >= 2 PROVE FALSE
    BY <1>2
  <2>1. sent # << >>
    BY <1>2
  <2>2. EarlyReply
    BY <1>2, <2>1 DEF HandshakeInv
  <2>. QED BY <1>2, <2>2 DEF EarlyReply
<1>5. CASE overrun
  <2>1. /\ taken' = taken /\ count' = count + 1
        /\ cpc' = (IF count' < 3 THEN "sleep" ELSE "failed")
    BY <1>5 DEF ClientCheck
  <2>2. Full /\ Full' = Full /\ pid # 1
    BY <1>1, <1>5, <2>1 DEF HandshakeInv, Full
  <2>3. cpc' = "failed" => lost > 0
    BY <1>2, <1>4, <2>1
  <2>4. count' \in Nat /\ taken' \in Nat /\ taken' <= Len(sent')
    BY <1>1, <1>2, <2>1
  <2>5. cpc' \in {"sleep", "failed"} /\ (lost' = 0 => count' = taken' + 1)
    BY <1>1, <1>2, <2>1
  <2>6. \A k \in 1 .. taken' : sent'[k] # Reply
    BY <1>1, <1>2, <2>1
  <2>7. overrun' \in BOOLEAN /\ (overrun' => Full')
    BY <1>1
  <2>. QED BY <1>1, <1>2, <1>3, <2>2, <2>3, <2>4, <2>5, <2>6, <2>7 DEF HandshakeInv, GivesUpAfterLoss
<1>6. CASE ~overrun
  <2>1. /\ Queue # << >> /\ taken' = taken + 1
        /\ IF Head(Queue) = Reply
           THEN cpc' = "connect" /\ count' = count
           ELSE count' = count + 1 /\ cpc' = (IF count' < 3 THEN "sleep" ELSE "failed")
    BY <1>6 DEF ClientCheck
  <2>2. taken < Len(sent) /\ Head(Queue) = sent[taken + 1]
    BY <1>2, <2>1, QueueHead DEF Queue
  <2>3. /\ taken' \in Nat /\ taken' <= Len(sent')
        /\ overrun' \in BOOLEAN /\ (overrun' => Full')
    <3>1. taken' \in Nat /\ taken' <= Len(sent')
      BY <1>1, <1>2, <2>1, <2>2
    <3>2. overrun' \in BOOLEAN /\ (overrun' => Full')
      BY <1>1
    <3>. QED BY <3>1, <3>2
  <2>4. CASE Head(Queue) = Reply
    <3>1. cpc' = "connect" /\ count' = count
      BY <2>1, <2>4
    <3>. QED BY <1>1, <1>2, <1>3, <2>3, <3>1 DEF HandshakeInv, GivesUpAfterLoss
  <2>5. CASE Head(Queue) # Reply
    <3>1. \A k \in 1 .. taken + 1 : sent[k] # Reply
      BY <1>2, <2>2, <2>5
    <3>2. cpc' = "failed" => lost > 0
      BY <1>2, <1>4, <2>1, <2>5
    <3>3. /\ count' \in Nat /\ cpc' \in {"sleep", "failed"}
          /\ lost' = 0 => count' = taken'
      BY <1>1, <1>2, <2>1, <2>5
    <3>4. \A k \in 1 .. taken' : sent'[k] # Reply
      BY <1>1, <2>1, <3>1
    <3>. QED BY <1>1, <1>2, <1>3, <2>3, <3>2, <3>3, <3>4 DEF HandshakeInv, GivesUpAfterLoss
  <2>. QED BY <2>4, <2>5
<1>. QED BY <1>5, <1>6

\* A client that is known asked a module that was loaded.
LEMMA HandshakeLoad ==
    ASSUME NetInv, LoadReceive
    PROVE  HandshakeInv'
<1>. USE DEF NetInv
<1>1. /\ ~rloaded /\ (rloaded' = TRUE \/ rloaded' = rloaded)
      /\ UNCHANGED <<sent, taken, count, lost, ticks, handler, cpc, pid, overrun, gen>>
  BY DEF LoadReceive, cvars, socket
<1>2. EarlyReply' = EarlyReply /\ Full' = Full
  BY <1>1 DEF EarlyReply, Full
<1>3. rloaded' \in BOOLEAN /\ pid' = 1
  BY <1>1 DEF HandshakeInv
<1>. QED BY <1>1, <1>2, <1>3 DEF HandshakeInv, GivesUpAfterLoss

\* The steps of the client that only move it, or take a message after the handshake.
LEMMA HandshakeMove ==
    ASSUME NetInv,
           ClientStart_old \/ ClientStart_new \/ ClientRetry \/ ClientConnect \/ event_handler
           \/ ClientError \/ ClientLoopExit
    PROVE  HandshakeInv'
<1>. USE DEF NetInv
<1>1. UNCHANGED <<sent, count, lost, ticks, handler, pid, gen, rloaded>>
  BY DEF ClientStart_old, ClientStart_new, ClientRetry, ClientConnect, event_handler, ClientError,
         ClientLoopExit, kvars, counters, socket
<1>2. /\ sent \in Seq(Nat) /\ Len(sent) \in Nat /\ taken \in Nat /\ taken <= Len(sent)
  BY DEF HandshakeInv
<1>3. EarlyReply' = EarlyReply
  BY <1>1 DEF EarlyReply
<1>4. CASE event_handler
  <2>1. /\ cpc = "running" /\ cpc' = "running" /\ overrun' = FALSE
        /\ taken' = taken \/ (taken' = taken + 1 /\ taken < Len(sent))
    BY <1>4 DEF event_handler, StreamInv
  <2>2. taken' \in Nat /\ taken' <= Len(sent')
    BY <1>1, <1>2, <2>1
  <2>3. overrun' \in BOOLEAN /\ (overrun' => Full')
    BY <2>1
  <2>. QED BY <1>1, <1>2, <1>3, <2>1, <2>2, <2>3 DEF HandshakeInv, GivesUpAfterLoss
<1>5. CASE ~event_handler
  <2>1. UNCHANGED <<taken, overrun>>
    BY <1>5 DEF ClientStart_old, ClientStart_new, ClientRetry, ClientConnect, ClientError,
           ClientLoopExit, socket
  <2>2. /\ cpc \in {"start", "sleep", "connect", "running", "closing"} /\ cpc' # "failed"
        /\ cpc \in {"connect", "running", "closing"} => cpc' \in {"running", "closing", "ended"}
    BY <1>5 DEF ClientStart_old, ClientStart_new, ClientRetry, ClientConnect, ClientError,
           ClientLoopExit
  <2>3. handler = "idle"
    BY <2>2 DEF HandshakeInv
  <2>4. Full' = Full /\ overrun' \in BOOLEAN /\ (overrun' => Full')
    BY <1>1, <2>1 DEF Full, HandshakeInv
  <2>5. taken' \in Nat /\ taken' <= Len(sent')
    BY <1>1, <1>2, <2>1
  <2>6. CASE cpc \in {"connect", "running", "closing"}
    BY <1>1, <1>2, <1>3, <2>1, <2>2, <2>3, <2>4, <2>5, <2>6 DEF HandshakeInv, GivesUpAfterLoss
  <2>7. CASE cpc \in {"start", "sleep"}
    <3>1. cpc' \in {"ask", "ended"}
      BY <1>5, <2>7 DEF ClientStart_old, ClientStart_new, ClientRetry, ClientConnect, ClientError,
             ClientLoopExit
    <3>. QED BY <1>1, <1>2, <1>3, <2>1, <2>3, <2>4, <2>5, <2>7, <3>1 DEF HandshakeInv, GivesUpAfterLoss
  <2>. QED BY <2>2, <2>6, <2>7
<1>. QED BY <1>4, <1>5

-----------------------------------------------------------------------------
(* The stream *)

\* Only the messages of the client change, and none that was taken.
LEMMA StreamSent ==
    ASSUME NetInv, NEW m \in Nat, Unicast(m),
           UNCHANGED <<taken, shook, conn, reading, gen, passed, dropped, log, inbuf, wire>>,
           \/ cpc' = cpc
           \/ /\ cpc \notin {"running", "closing", "ended"}
              /\ cpc' \notin {"running", "closing", "ended"}
    PROVE  StreamInv'
<1>. USE DEF NetInv
<1>1. /\ sent \in Seq(Nat) /\ Len(sent) \in Nat /\ taken \in Nat /\ taken <= Len(sent)
      /\ shook \in Nat /\ overrun \in BOOLEAN
  BY DEF HandshakeInv, StreamInv
<1>2. Written' = Written
  <2>1. CASE sent' = sent
    BY <2>1 DEF Written
  <2>2. CASE sent' = Append(sent, m)
    <3>1. SubSeq(Append(sent, m), shook + 1, taken) = SubSeq(sent, shook + 1, taken)
      BY <1>1, SentLater
    <3>. QED BY <2>2, <3>1 DEF Written
  <2>. QED BY <2>1, <2>2 DEF Unicast, socket
<1>3. /\ edge' \in BOOLEAN /\ (edge' => overrun' \/ taken < Len(sent'))
      /\ edge' => edge \/ cpc = "running"
  <2>1. CASE UNCHANGED socket
    BY <2>1 DEF StreamInv, socket
  <2>2. CASE sent' = Append(sent, m) /\ edge' = (edge \/ cpc = "running")
    <3>1. Len(sent') = Len(sent) + 1
      BY <1>1, <2>2
    <3>. QED BY <1>1, <2>2, <3>1 DEF StreamInv
  <2>3. CASE overrun' = TRUE /\ edge' = (edge \/ cpc = "running")
    BY <2>3 DEF StreamInv
  <2>. QED BY <2>1, <2>2, <2>3 DEF Unicast
<1>4. Carried'
  BY <1>2, CarriedSame DEF StreamInv
<1>. QED BY <1>3, <1>4 DEF StreamInv

LEMMA StreamTimer ==
    ASSUME NetInv, send_message
    PROVE  StreamInv'
<1>1. UNCHANGED <<taken, shook, cpc, conn, reading, gen, passed, dropped, log, inbuf, wire>>
  BY DEF send_message, cvars, svars, server, stream, tcp
<1>2. CASE UNCHANGED socket
  BY <1>1, <1>2, StreamSame DEF tvars, socket, NetInv
<1>3. CASE ~UNCHANGED socket
  <2>1. Unicast(ticks') /\ ticks' \in Nat
    BY <1>3 DEF send_message, NetInv, HandshakeInv
  <2>. QED BY <1>1, <2>1, StreamSent
<1>. QED BY <1>2, <1>3

LEMMA StreamReply ==
    ASSUME NetInv, data_reply
    PROVE  StreamInv'
<1>1. /\ UNCHANGED <<taken, shook, conn, reading, gen, passed, dropped, log, inbuf, wire>>
      /\ cpc = "sending" /\ cpc' = "wait"
  BY DEF data_reply, svars, server, stream, tcp, NetInv, HandshakeInv
<1>2. CASE UNCHANGED socket
  <2>1. Written' = Written
    BY <1>1, <1>2 DEF Written, socket
  <2>. QED BY <1>1, <1>2, <2>1 DEF StreamInv, Carried, NetInv, socket
<1>3. CASE ~UNCHANGED socket
  <2>1. Unicast(Reply) /\ Reply \in Nat
    BY <1>3 DEF data_reply, Reply
  <2>. QED BY <1>1, <2>1, StreamSent
<1>. QED BY <1>2, <1>3

\* The client before it is connected, and after it has left its loop.
LEMMA StreamMove ==
    ASSUME NetInv,
           ClientStart_old \/ ClientStart_new \/ ClientAsk \/ ClientRetry \/ ClientConnect
           \/ ClientError \/ ClientLoopExit
    PROVE  StreamInv'
<1>. USE DEF NetInv
<1>1. UNCHANGED <<sent, overrun, taken, shook, reading, gen, passed, dropped, log, inbuf, wire>>
  BY DEF ClientStart_old, ClientStart_new, ClientAsk, ClientRetry, ClientConnect, ClientError,
         ClientLoopExit, svars, server, stream, socket, tcp, data_ready
<1>2. Written' = Written
  BY <1>1 DEF Written
<1>3. sent \in Seq(Nat) /\ Len(sent) \in Nat /\ taken \in Nat /\ taken <= Len(sent)
  BY DEF HandshakeInv
<1>4. CASE ClientConnect
  <2>1. /\ cpc = "connect" /\ cpc' \in {"running", "closing"}
        /\ (conn' = "pending" /\ edge' = (overrun \/ Queue # << >>)) \/ UNCHANGED <<conn, edge>>
    BY <1>4 DEF ClientConnect
  <2>2. Queue # << >> => taken < Len(sent)
    BY <1>3, QueueHead DEF Queue
  <2>3. conn = "none"
    BY <2>1 DEF StreamInv
  <2>4. Carried'
    BY <1>1, <1>2, <2>1, <2>3 DEF StreamInv, Carried
  <2>5. edge' \in BOOLEAN /\ (edge' => overrun \/ taken < Len(sent))
    <3>1. CASE edge' = edge
      BY <3>1 DEF StreamInv
    <3>2. CASE edge' = (overrun \/ Queue # << >>)
      BY <2>2, <3>2
    <3>. QED BY <2>1, <3>1, <3>2
  <2>6. conn' # "broken"
    BY <2>1, <2>3
  <2>. QED BY <1>1, <2>1, <2>4, <2>5, <2>6 DEF StreamInv
<1>5. CASE ~ClientConnect
  <2>1. UNCHANGED <<conn, edge>>
    BY <1>5 DEF ClientStart_old, ClientStart_new, ClientAsk, ClientRetry, ClientError,
           ClientLoopExit, tcp, socket
  <2>2. cpc' \notin {"running", "closing", "ended"} => cpc \notin {"running", "closing", "ended"}
    BY <1>5 DEF ClientStart_old, ClientStart_new, ClientAsk, ClientRetry, ClientError,
           ClientLoopExit
  <2>3. Carried'
    BY <1>1, <1>2, <2>1, <2>2 DEF StreamInv, Carried
  <2>. QED BY <1>1, <1>2, <2>1, <2>2, <2>3 DEF StreamInv
<1>. QED BY <1>4, <1>5

\* The handshake takes a message and writes nothing.
LEMMA StreamCheck ==
    ASSUME NetInv, ClientCheck
    PROVE  StreamInv'
<1>. USE DEF NetInv
<1>1. /\ cpc = "wait" /\ cpc' \notin {"running", "closing", "ended"}
      /\ \/ UNCHANGED <<taken, shook>>
         \/ taken' = taken + 1 /\ shook' = shook + 1
      /\ UNCHANGED <<sent, edge, conn, reading, gen, passed, dropped, log, inbuf, wire>>
  BY DEF ClientCheck, svars, stream, tcp
<1>2. shook = taken /\ shook \in Nat /\ conn = "none" /\ ~edge
  BY <1>1 DEF StreamInv
<1>3. shook' = taken' /\ shook' \in Nat
  BY <1>1, <1>2
<1>4. Written = << >>
  BY <1>2, NothingWritten DEF Written
<1>5. Written' = << >>
  <2>1. PICK n \in Nat : n = shook'
    BY <1>3
  <2>2. Written' = Pieces(SubSeq(sent', n + 1, n))
    BY <1>3, <2>1 DEF Written
  <2>. QED BY <2>2, NothingWritten
<1>6. Carried'
  BY <1>1, <1>2, <1>4, <1>5 DEF StreamInv, Carried
<1>. QED BY <1>1, <1>2, <1>3, <1>6 DEF StreamInv

\* event_handler copies the message it takes to the connection.
LEMMA StreamTake ==
    ASSUME NetInv, event_handler, ~overrun
    PROVE  StreamInv'
<1>. USE DEF NetInv
<1>1. /\ cpc = "running" /\ cpc' = "running" /\ edge /\ edge' = FALSE /\ taken' = taken + 1
      /\ wire' = (IF conn = "broken" THEN wire ELSE wire \o PiecesOf(Head(Queue)))
      /\ UNCHANGED <<sent, shook, conn, reading, gen, passed, dropped, log, inbuf>>
  BY DEF event_handler, svars, server, stream
<1>2. /\ sent \in Seq(Nat) /\ Len(sent) \in Nat /\ taken \in Nat /\ taken < Len(sent)
      /\ shook \in Nat /\ shook <= taken
  BY <1>1 DEF HandshakeInv, StreamInv
<1>3. PICK p : p = PiecesOf(sent[taken + 1])
  OBVIOUS
<1>4. p \in Seq(Piece) /\ Written' = Written \o p
  <2>1. /\ Pieces(SubSeq(sent, shook + 1, taken + 1)) = Pieces(SubSeq(sent, shook + 1, taken)) \o p
        /\ sent[taken + 1] \in Nat
    BY <1>2, <1>3, TakenNext
  <2>2. Written' = Pieces(SubSeq(sent, shook + 1, taken + 1))
    BY <1>1 DEF Written
  <2>. QED BY <1>3, <2>1, <2>2, PiecesOfType DEF Written
<1>5. Head(Queue) = sent[taken + 1]
  BY <1>2, QueueHead DEF Queue
<1>6. ASSUME gen = "old"
      PROVE  /\ wire' \in Seq(Piece)
             /\ conn = "broken" => IsPrefix(passed, Written')
             /\ conn # "broken" => passed \o inbuf \o wire' = Written'
  <2>1. /\ passed \in Seq(Piece) /\ inbuf \in Seq(Piece) /\ wire \in Seq(Piece)
        /\ Written \in Seq(Piece)
    BY <1>6, WrittenType DEF StreamInv, Carried
  <2>2. CASE conn = "broken"
    <3>1. IsPrefix(passed, Written)
      BY <1>6, <2>2 DEF StreamInv, Carried
    <3>. QED BY <1>1, <1>4, <2>1, <2>2, <3>1, PrefixExtend
  <2>3. CASE conn # "broken"
    <3>1. wire' = wire \o p /\ (passed \o inbuf) \o wire = Written
      BY <1>1, <1>3, <1>5, <1>6, <2>3 DEF StreamInv, Carried
    <3>2. passed \o inbuf \in Seq(Piece) /\ wire' \in Seq(Piece)
      BY <1>4, <2>1, <3>1, ConcatProperties
    <3>3. ((passed \o inbuf) \o wire) \o p = (passed \o inbuf) \o (wire \o p)
      <4>1. PICK a \in Seq(Piece) : a = passed \o inbuf
        BY <3>2
      <4>2. Cat(Cat(a, wire), p) = Cat(a, Cat(wire, p))
        BY <1>4, <2>1, CatAssoc
      <4>. QED BY <4>1, <4>2 DEF Cat
    <3>. QED BY <1>4, <2>3, <3>1, <3>2, <3>3
  <2>. QED BY <2>2, <2>3
<1>7. Carried'
  BY <1>1, <1>2, <1>6 DEF StreamInv, Carried
<1>8. shook' \in Nat /\ shook' <= taken'
  BY <1>1, <1>2
<1>. QED BY <1>1, <1>7, <1>8 DEF StreamInv

LEMMA StreamEvent ==
    ASSUME NetInv, event_handler
    PROVE  StreamInv'
<1>. USE DEF NetInv
<1>1. /\ cpc = "running" /\ cpc' = "running" /\ edge /\ edge' = FALSE
      /\ UNCHANGED <<sent, shook, conn, reading, gen, passed, dropped, log, inbuf>>
  BY DEF event_handler, svars, stream
<1>2. CASE overrun
  <2>1. UNCHANGED <<taken, wire>>
    BY <1>2 DEF event_handler
  <2>2. Carried'
    <3>1. Written' = Written
      BY <1>1, <2>1 DEF Written
    <3>. QED BY <1>1, <2>1, <3>1, CarriedSame DEF StreamInv
  <2>. QED BY <1>1, <2>1, <2>2 DEF StreamInv
<1>3. CASE ~overrun
  BY <1>3, StreamTake
<1>. QED BY <1>2, <1>3

\* The connection hands the front of what it carries to the server.
LEMMA StreamDeliver ==
    ASSUME NetInv, TcpDeliver
    PROVE  StreamInv'
<1>. USE DEF NetInv
<1>1. /\ conn = "up" /\ reading' = TRUE
      /\ UNCHANGED <<sent, taken, shook, edge, overrun, cpc, conn, gen, passed, dropped, log>>
  BY DEF TcpDeliver, cvars, socket
<1>2. Written' = Written
  BY <1>1 DEF Written
<1>3. ASSUME gen = "old"
      PROVE  /\ wire' \in Seq(Piece) /\ inbuf' \in Seq(Piece)
             /\ passed \o inbuf' \o wire' = Written
  <2>1. /\ passed \in Seq(Piece) /\ inbuf \in Seq(Piece) /\ wire \in Seq(Piece)
        /\ passed \o inbuf \o wire = Written
    BY <1>1, <1>3 DEF StreamInv, Carried
  <2>2. PICK n \in 1 .. Len(wire) :
          inbuf' = inbuf \o SubSeq(wire, 1, n) /\ wire' = SubSeq(wire, n + 1, Len(wire))
    BY DEF TcpDeliver
  <2>3. PICK f : f = SubSeq(wire, 1, n)
    OBVIOUS
  <2>4. n \in 0 .. Len(wire)
    BY <2>1
  <2>5. f \in Seq(Piece) /\ wire' \in Seq(Piece) /\ f \o wire' = wire
    BY <2>1, <2>2, <2>3, <2>4, SplitAt
  <2>6. inbuf' = inbuf \o f /\ inbuf' \in Seq(Piece)
    BY <2>1, <2>2, <2>3, <2>5, ConcatProperties
  <2>7. PICK a \in Seq(Piece) : a = passed \o inbuf
    BY <2>1, ConcatProperties
  <2>8. passed \o inbuf' = a \o f
    <3>1. Cat(Cat(passed, inbuf), f) = Cat(passed, Cat(inbuf, f))
      BY <2>1, <2>5, CatAssoc
    <3>. QED BY <2>6, <2>7, <3>1 DEF Cat
  <2>9. (a \o f) \o wire' = a \o (f \o wire')
    <3>1. Cat(Cat(a, f), wire') = Cat(a, Cat(f, wire'))
      BY <2>5, CatAssoc
    <3>. QED BY <3>1 DEF Cat
  <2>. QED BY <2>1, <2>5, <2>6, <2>7, <2>8, <2>9
<1>4. Carried'
  BY <1>1, <1>2, <1>3 DEF StreamInv, Carried
<1>. QED BY <1>1, <1>2, <1>3, <1>4 DEF StreamInv

\* When the connection breaks, what was logged is a prefix for good.
LEMMA StreamBreak ==
    ASSUME NetInv, TcpBreak
    PROVE  StreamInv'
<1>. USE DEF NetInv
<1>1. /\ conn \in {"pending", "up"} /\ ~reading /\ reading' = reading
      /\ conn' = "broken" /\ wire' = << >> /\ inbuf' = << >>
      /\ UNCHANGED <<sent, taken, shook, edge, overrun, cpc, gen, passed, dropped, log>>
  BY DEF TcpBreak, cvars, socket
<1>2. Written' = Written
  BY <1>1 DEF Written
<1>3. ASSUME gen = "old"
      PROVE  IsPrefix(passed, Written)
  <2>1. /\ passed \in Seq(Piece) /\ inbuf \in Seq(Piece) /\ wire \in Seq(Piece)
        /\ passed \o inbuf \o wire = Written
    BY <1>1, <1>3 DEF StreamInv, Carried
  <2>2. inbuf \o wire \in Seq(Piece) /\ Written = passed \o (inbuf \o wire)
    <3>1. /\ Cat(inbuf, wire) \in Seq(Piece)
          /\ Cat(Cat(passed, inbuf), wire) = Cat(passed, Cat(inbuf, wire))
      BY <2>1, CatAssoc
    <3>. QED BY <2>1, <3>1 DEF Cat
  <2>. QED BY <2>1, <2>2, PrefixConcat
<1>4. Carried'
  BY <1>1, <1>2, <1>3 DEF StreamInv, Carried
<1>. QED BY <1>1, <1>2, <1>3, <1>4 DEF StreamInv

\* do_accept.
LEMMA StreamAccept ==
    ASSUME NetInv, ServerAccept
    PROVE  StreamInv'
<1>. USE DEF NetInv
<1>1. /\ conn = "pending" /\ conn' = "up"
      /\ UNCHANGED <<sent, taken, shook, edge, overrun, cpc, reading, gen, passed, dropped, log, inbuf, wire>>
  BY DEF ServerAccept, cvars, socket, svars, server, stream
<1>2. Written' = Written
  BY <1>1 DEF Written
<1>3. Carried'
  BY <1>1, <1>2 DEF StreamInv, Carried
<1>. QED BY <1>1, <1>2, <1>3 DEF StreamInv

\* read_cb logs the front of its buffer.
LEMMA StreamRead ==
    ASSUME NetInv, read_cb
    PROVE  StreamInv'
<1>. USE DEF NetInv
<1>1. reading /\ conn # "broken" /\ UNCHANGED <<sent, taken, shook, edge, overrun, cpc, conn, gen, wire>>
  BY DEF read_cb, cvars, socket, tcp, StreamInv
<1>2. Written' = Written
  BY <1>1 DEF Written
<1>3. CASE UNCHANGED <<passed, dropped, log, inbuf>>
  <2>1. Carried'
    BY <1>1, <1>2, <1>3 DEF StreamInv, Carried
  <2>. QED BY <1>1, <1>2, <1>3, <2>1 DEF StreamInv
<1>4. CASE ~UNCHANGED <<passed, dropped, log, inbuf>>
  <2>1. PICK n : n = IF Len(inbuf) < MAX_LINE THEN Len(inbuf) ELSE MAX_LINE
    OBVIOUS
  <2>2. PICK f : f = SubSeq(inbuf, 1, n)
    OBVIOUS
  <2>3. /\ inbuf' = SubSeq(inbuf, n + 1, Len(inbuf)) /\ passed' = passed \o f
        /\ \/ log' = log \o f /\ dropped' = dropped
           \/ dropped' = TRUE
    BY <1>4, <2>1, <2>2 DEF read_cb, build_md5_msg
  <2>4. ASSUME gen = "old"
        PROVE  /\ passed' \in Seq(Piece) /\ inbuf' \in Seq(Piece)
               /\ passed' \o inbuf' \o wire = Written
    <3>1. /\ passed \in Seq(Piece) /\ inbuf \in Seq(Piece) /\ wire \in Seq(Piece)
          /\ passed \o inbuf \o wire = Written
      BY <1>1, <2>4 DEF StreamInv, Carried
    <3>2. n \in 0 .. Len(inbuf)
      BY <2>1, <3>1, NetlinkAssumption
    <3>3. f \in Seq(Piece) /\ inbuf' \in Seq(Piece) /\ f \o inbuf' = inbuf
      BY <2>2, <2>3, <3>1, <3>2, SplitAt
    <3>4. passed \o f \in Seq(Piece) /\ (passed \o f) \o inbuf' = passed \o (f \o inbuf')
      <4>1. Cat(passed, f) \in Seq(Piece) /\ Cat(Cat(passed, f), inbuf') = Cat(passed, Cat(f, inbuf'))
        BY <3>1, <3>3, CatAssoc
      <4>. QED BY <4>1 DEF Cat
    <3>. QED BY <2>3, <3>1, <3>3, <3>4
  <2>5. Carried'
    BY <1>1, <1>2, <2>3, <2>4 DEF StreamInv, Carried
  <2>6. reading' = reading
    BY <1>4 DEF read_cb
  <2>. QED BY <1>1, <2>5, <2>6 DEF StreamInv
<1>. QED BY <1>3, <1>4

\* send_kernel.c logs nothing for the handshake of the old server; of the new generation
\* the stream says nothing.
LEMMA StreamServer ==
    ASSUME NetInv, ServerAsk_old \/ ServerAsk_new
    PROVE  StreamInv'
<1>. USE DEF NetInv
<1>1. /\ UNCHANGED <<sent, taken, shook, edge, overrun, cpc, conn, reading, gen, inbuf, wire>>
      /\ gen = "old" => log' = log /\ UNCHANGED <<passed, dropped>>
  BY DEF ServerAsk_old, ServerAsk_new, data_ready_send, cvars, socket, tcp, MD5_TYPE, PING_PONG_TYPE
<1>2. Written' = Written
  BY <1>1 DEF Written
<1>3. Carried'
  BY <1>1, <1>2 DEF StreamInv, Carried
<1>. QED BY <1>1, <1>2, <1>3 DEF StreamInv

-----------------------------------------------------------------------------
(* The theorems *)

LEMMA NetInit == Init => NetInv
<1>. SUFFICES ASSUME Init PROVE NetInv
  OBVIOUS
<1>1. sent = << >> /\ Len(sent) = 0 /\ sent \in Seq(Nat)
  BY DEF Init
<1>2. HandshakeInv
  <2>1. gen \in {"old", "new"}
    BY NetlinkAssumption DEF Init
  <2>2. rloaded \in BOOLEAN /\ overrun \in BOOLEAN /\ ~overrun
    BY DEF Init
  <2>3. /\ sent \in Seq(Nat) /\ Len(sent) = 0 /\ taken = 0 /\ count = 0 /\ lost = 0 /\ ticks = 0
        /\ pid = 1 /\ handler = "idle" /\ cpc = "start" /\ sent = << >>
    BY <1>1 DEF Init
  <2>. QED BY <2>1, <2>2, <2>3 DEF HandshakeInv, GivesUpAfterLoss
<1>3. Written = << >>
  <2>1. Written = Pieces(SubSeq(sent, 0 + 1, 0))
    BY DEF Init, Written
  <2>. QED BY <2>1, NothingWritten
<1>4. StreamInv
  <2>1. << >> \in Seq(Piece) /\ << >> \o << >> = << >>
    BY ConcatEmptySeq
  <2>2. passed \o inbuf \o wire = << >>
    BY <2>1 DEF Init
  <2>3. Carried
    BY <1>3, <2>1, <2>2 DEF Init, Carried
  <2>4. /\ shook = 0 /\ taken = 0 /\ edge \in BOOLEAN /\ ~edge /\ cpc = "start"
        /\ conn = "none"
    BY DEF Init
  <2>. QED BY <2>3, <2>4 DEF StreamInv
<1>. QED BY <1>2, <1>4 DEF NetInv

LEMMA NetNext == NetInv /\ [Next]_vars => NetInv'
<1>. SUFFICES ASSUME NetInv, [Next]_vars PROVE NetInv'
  OBVIOUS
<1>1. CASE send_message
  BY <1>1, HandshakeTimer, StreamTimer DEF NetInv
<1>2. CASE data_reply
  BY <1>2, HandshakeReply, StreamReply DEF NetInv
<1>3. CASE ClientAsk
  BY <1>3, HandshakeAsk, StreamMove DEF NetInv
<1>4. CASE ClientCheck
  BY <1>4, HandshakeCheck, StreamCheck DEF NetInv
<1>5. CASE ClientStart_old \/ ClientStart_new \/ ClientRetry \/ ClientConnect
           \/ ClientError \/ ClientLoopExit
  BY <1>5, HandshakeMove, StreamMove DEF NetInv
<1>6. CASE event_handler
  BY <1>6, HandshakeMove, StreamEvent DEF NetInv
<1>7. CASE TcpDeliver \/ TcpBreak \/ ServerAsk_old \/ ServerAsk_new \/ ServerAccept \/ read_cb
  <2>1. UNCHANGED hvars
    BY <1>7 DEF TcpDeliver, TcpBreak, ServerAsk_old, ServerAsk_new, ServerAccept, read_cb,
           hvars, kvars, cvars, counters, socket
  <2>. QED BY <1>7, <2>1, HandshakeSame, StreamDeliver, StreamBreak, StreamServer, StreamAccept,
              StreamRead DEF NetInv
<1>8. CASE StrayTimer \/ LoadSend \/ ServerStart_old \/ ServerStart_new \/ ServerRun
           \/ UNCHANGED vars
  <2>1. UNCHANGED hvars
    BY <1>8 DEF StrayTimer, LoadSend, ServerStart_old, ServerStart_new, ServerRun, vars,
           hvars, kvars, cvars, counters, socket
  <2>2. UNCHANGED tvars
    BY <1>8 DEF StrayTimer, LoadSend, ServerStart_old, ServerStart_new, ServerRun, vars,
           tvars, cvars, svars, server, stream, socket, tcp
  <2>. QED BY <2>1, <2>2, HandshakeSame, StreamSame DEF NetInv
<1>9. CASE LoadReceive
  <2>1. UNCHANGED tvars
    BY <1>9 DEF LoadReceive, tvars, cvars, svars, server, stream, socket, tcp
  <2>2. HandshakeInv'
    BY <1>9, HandshakeLoad
  <2>. QED BY <2>1, <2>2, StreamSame DEF NetInv
<1>. QED BY <1>1, <1>2, <1>3, <1>4, <1>5, <1>6, <1>7, <1>8, <1>9 DEF Next

\* The inductive invariant: what the handshake knows of the messages sent, and where every
\* piece of a written message is.
THEOREM NetInvariant == Spec => []NetInv
BY NetInit, NetNext, PTL DEF Spec

\* What send_kernel.c logs of the old daemons is a prefix of what event_handler wrote, in the
\* order lx_kernel.c sent it, and until the connection breaks the rest is on its way
\* (event_handler, read_cb, build_md5_msg), however long the lines and the queue are.
THEOREM LoggedIsSent == Spec => []Faithful
<1>1. NetInv => Faithful
  <2>. SUFFICES ASSUME NetInv, gen = "old", conn # "broken" PROVE IsPrefix(passed, Written)
    BY DEF NetInv, StreamInv, Carried, Faithful
  <2>1. /\ passed \in Seq(Piece) /\ inbuf \in Seq(Piece) /\ wire \in Seq(Piece)
        /\ passed \o inbuf \o wire = Written
    BY DEF NetInv, StreamInv, Carried
  <2>2. inbuf \o wire \in Seq(Piece) /\ Written = passed \o (inbuf \o wire)
    <3>1. /\ Cat(inbuf, wire) \in Seq(Piece)
          /\ Cat(Cat(passed, inbuf), wire) = Cat(passed, Cat(inbuf, wire))
      BY <2>1, CatAssoc
    <3>. QED BY <2>1, <3>1 DEF Cat
  <2>. QED BY <2>1, <2>2, PrefixConcat
<1>. QED BY <1>1, NetInvariant, PTL

\* check_netlink_status gives up only after a reply was lost.
THEOREM GivesUpOnlyAfterLoss == Spec => []GivesUpAfterLoss
<1>1. NetInv => GivesUpAfterLoss
  BY DEF NetInv, HandshakeInv
<1>. QED BY <1>1, NetInvariant, PTL

=============================================================================
